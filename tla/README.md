# Formal models of wpiutil

wpiutil is the support library of WPILib: C++ classes for threads, queues,
callbacks into Java, sockets and streams, a few codecs, and vendored copies of
parts of LLVM and of a JSON library. This directory holds TLA+ models of its
concurrent core, of its sockets and streams, and of its coders and parsers, the
TLC configurations that check them on small instances, and proofs, checked by
TLAPS, that most of the safety properties hold for every size.

Paths below are relative to `src/src/main/native/`. `PROJECT.json` lists the
lines that each definition models.

## The system

| component | state | operations | meets others by |
|---|---|---|---|
| `ConcurrentQueue` (include/support/ConcurrentQueue.h) | `queue_`, `mutex_`, `cond_` | `push`, `emplace`, `pop`, `empty`, `size` | any number of producer and consumer threads |
| `TCPConnector::connect_parallel` (cpp/tcpsockets/TCPConnector_parallel.cpp) | the thread's set of attempts in flight; per call a `Result` with stream, count, done, mutex and condition variable | one call; its detached workers | starts threads that outlive the call, calls `connect`, hands out a `TCPStream` |
| `SafeThread`, its owner and proxy (include/support/SafeThread.h) | atomic pointer in the owner; `m_mutex`, `m_active`, `m_cond` in the object | `Start`, `Stop`, move, destroy, `GetThread` | runs a derived class's `Main` in a detached thread that deletes the object |
| `JCallbackThread`, `JCallbackManager` (include/support/jni_util.h) | message queue, Java function and method | `SetFunc`, `Send`, `Main` | a `SafeThread`; calls back into Java with the mutex released |
| `priority_mutex`, `priority_condition_variable` | pthread objects | lock, wait, notify, timed wait | under all of the above |
| `TCPConnector::connect`, `TCPAcceptor`, `TCPStream`, `UDPClient` (cpp/tcpsockets, cpp/udpsockets) | a file descriptor and a few flags each | start, shutdown, accept, connect, send, receive, close, moves | share the process's table of descriptors; an acceptor is used by two threads |
| `raw_istream`, `raw_fd_istream`, `raw_socket_istream`, `raw_socket_ostream` | buffer and positions, error flag | read, readsome, getline, write, flush, close | read files and `NetworkStream`s; all parsers read from them |
| LEB128, Base64, `HttpUtil`, SHA1 (cpp/support) | none, or a block and a count | encode, decode, parse, search, hash | read `raw_istream`s |
| JSON (cpp/support/json*.cpp, include/support/json.h) | lexer and parser with a callback; values | parse, accept, compare, pointers, flatten, CBOR and MessagePack | call back into the user while they parse |
| `UidVector` | elements, free list, count | `emplace_back`, `erase` | its users keep the uids |
| `llvm::StringMap`, `SmallSet` and `StringRef` | a hash table with tombstones; a vector or a set; none | insert, erase, find; search, split, trim, numbers | used by HTTP, JSON and their users, `SmallSet` by `connect_parallel` |
| conversions of UTF-8, -16 and -32 (cpp/llvm/ConvertUTF*.cpp) | none | convert, in pieces or whole | every string between Java and C++ passes them |
| Logger, `atomic_static`, hostname, timestamp, SocketError, RuntimeDetector | none to speak of | | |
| the rest of llvm/, gmock | vendored | | |

Where the difficulty is:

* Three classes share a mutex and a condition variable between threads, and each
  has its own way of notifying: `ConcurrentQueue::push` and the workers of
  `connect_parallel` after the mutex is released, `SafeThreadOwner::Stop` and
  the workers' counter without ever having held it.
* `connect_parallel` and `SafeThread` run detached threads that share an object
  with a caller that may be gone. Who closes the stream, and who deletes the
  object, is decided by who comes first.
* `connect_parallel` races a timeout, several answers, and the workers left
  over from earlier calls.
* `JCallbackThread::Main` gives up its mutex for every callback, while clients
  replace the function, queue messages or stop the thread.
* The socket classes keep plain integers for descriptors that the process reuses,
  and have many failing paths. `TCPAcceptor::shutdown` replaces a descriptor under
  a thread that is blocked in accept.
* Sends and receives are partial, fail in the middle, and have a buffer above them.
* The coders and parsers are sequential, but their branches end at powers of two,
  at the last byte of a buffer, or at the one character that means something.

What makes each correct:

* queue: each item delivered once, in the order of its producer; none lost; none
  left beside a sleeping consumer.
* connect_parallel: every opened stream has one owner or is closed; null only
  when every attempt failed or time ran out; no call sleeps beside a result; no
  server is skipped for ever, none tried twice at once; every call returns.
* SafeThread: no running thread without somebody to stop it, no object with two
  owners, no object deleted under a proxy; a stopped thread ends.
* callbacks: function and method belong together; a message is handed over
  unless the thread is stopped; hardly a callback after a stop.
* sockets: no class closes or uses the socket of another, none is lost, a stream is
  connected, and a shutdown ends an accept.
* streams: what is read is what was written, in order; a gap comes with an error.
* containers: a uid has one element, and the map answers like a map.
* coders and parsers: what is decoded is what was encoded, what the standards call
  well formed is what is accepted, and what is cut off is not taken for a whole.

## The modules

| module | models | with |
|---|---|---|
| `FifoQueue` | what `ConcurrentQueue` promises: indivisible `Push` and `Pop` | |
| `ConcurrentQueue` | the class as it is, one action per step between two points where another thread may come in | INSTANCEs `FifoQueue` for the refinement |
| `ConcurrentQueueProofs` | the theorems about these | EXTENDS `ConcurrentQueue` |
| `ConnectParallel` | a thread that calls `connect_parallel` again and again, and all its workers | |
| `MCConnectParallel` | the lists of servers for TLC | |
| `ConnectParallelProofs` | the theorems about it | EXTENDS `ConnectParallel` |
| `SafeThread` | owners, proxies and the life of a thread object; everything but `Main` | |
| `JCallback` | `JCallbackManager` and its `Main` | EXTENDS `SafeThread` |
| `JCallbackProofs` | the theorems about these two | EXTENDS `JCallback` |
| `Descriptors` | the process's table of file descriptors | |
| `TCPStream`, `TCPAcceptor`, `TCPConnector`, `UDPClient` | the classes that hold descriptors | EXTEND `Descriptors` |
| `Sockets` | all of these in one process | EXTENDS the four |
| `SocketsProofs` | the theorems about it | EXTENDS `Sockets` |
| `ByteStream` | what two socket streams promise together | |
| `SocketStreams` | ostream, connection and istream | INSTANCEs `ByteStream` for the refinement |
| `SocketStreamsProofs` | that the streams keep the promise, and what it gives a reader | EXTENDS `SocketStreams` |
| `UidVector` | identifiers and their free list | |
| `AbstractMap`, `StringMap`, `SmallSet` | a map; `llvm::StringMap`; `llvm::SmallSet` | both INSTANCE `AbstractMap` |
| `Containers` | the two side by side | EXTENDS both |
| `StringRef` | split, drop and take, for the modules below | |
| `StringRefAlgorithms` | search, splitting at every separator, numbers, numeric order | EXTENDS `StringRef`; `HttpUtil` EXTENDS it |
| `RawFdIstream`, `Sha1`, `Multipart` | file stream, padding, boundary search, as state machines | EXTEND `StringRef` |
| `JsonParser` | the parser with its callback, as a state machine | EXTENDS `StringRef` |
| `JsonGrammar` | the acceptor, the grammar, and what parse returns | EXTENDS `JsonParser` |
| `Leb128`, `Base64`, `HttpUtil`, `HttpHeaders`, `JsonLexer`, `JsonPointer`, `JsonBinary` | coders and readers, as operators | EXTEND `StringRef` |
| `ConvertUtf` | the conversions between UTF-8, UTF-16 and UTF-32 | EXTENDS `StringRef`, INSTANCEs `JsonLexer` for its reference definition of UTF-8 |
| `JsonCompare` | equality and order of JSON values | |
| `Coders` | the units that are one walk over their input: LEB128, Base64, `StringRef::find`, `compare_numeric`, `scan_number`, `scan_string` with `get_codepoint`; what each may be given (`Given`) and has to answer (`CodersExact`) | EXTENDS `StringRef`, INSTANCEs `Leb128`, `Base64`, `StringRefAlgorithms`, `JsonLexer` |
| `Support` | the stand-alone units side by side | EXTENDS those with theorems (`UidVector`, `Containers`, `RawFdIstream`, `Sha1`, `Multipart`, `JsonParser`, `Coders`), INSTANCEs the others |
| `UnitProofs` | the theorems about the first six of these | EXTENDS them |
| `CoderProofs` | the theorems about LEB128, Base64, `find` and `compare_numeric` | EXTENDS `Coders` |
| `LexerProofs` | the theorems about the lexer, and about all units of `Coders` together | EXTENDS `CoderProofs` |

### FifoQueue and ConcurrentQueue

`queue_`, `mutex_` and `cond_` are the fields of the class. `cond_` is the set of
consumers blocked in it; waiting puts a consumer in and releases the mutex in one
step, a notification takes one consumer out, and that consumer has to take the
mutex again (`Relock`) and to test again. `pc` is a thread's place in `push` or
`pop`. `pop` is two steps under the mutex, `CopyFront` and `RemoveFront`: what the
mutex has to keep apart. `push` is three: `LockToPush`, `Enqueue`, which also
releases the mutex, and `NotifyOne`. `pushed` and `got` record the history: the
n-th item of producer p is `<<p, n>>`, and `got[c]` is what pop returned to c.
In `FifoQueue` a push or a pop is one step. Under the refinement mapping
(`queue <- queue_`) `Enqueue` is `Push`, `RemoveFront` is `Pop`, and every other
step is a stutter.

### ConnectParallel

One calling thread is enough: the set `active` is `thread_local`, or its entries
carry the thread's id, so that two calling threads share nothing. The thread makes
several calls in a row, and workers of a call that has returned go on beside the
next. The i-th worker of call k is `<<k, i>>`, which also names its socket.
`pc` is the caller's place: `spawn` (the loop over the servers, with `next` and
`num`), `test` (the predicate), `block` (the predicate was false, the wait has not
begun), `waiting`, `return`. A worker goes through `start`, `insert`, `connect`,
`erase`, `publish`, `count`, `notify` and `finish`. `global->mtx` and `result->mtx`
are never held by a worker over more than one step; the caller holds `result->mtx`
in `test`, `block` and `return`, which `Publish` heeds and `Count` and `NotifyAll`
do not, as in the code. `Release` is what dropping the last reference to `result`
does: a stream that nobody came for is closed. The end of a worker (`Finish`) drops
one, and so does `SpawnFails`, a call that ends by the exception of `std::thread`'s
constructor while the workers it has made go on. `connect` is a choice
between success and failure after any delay. A timeout is the event `Expire`, at
any time after the wait was prepared; as in `wait_until`, a wakeup after the
deadline counts as a timeout and the predicate's value no longer matters, since the
call returns `result->stream`, whatever it is.

### SafeThread and JCallback

An owner is a pointer. An object is `raw`, `new` (installed by `Start`, its thread
not yet made), `running` or `freed`. Every atomic operation of `Start`, `Stop` and
`operator=` is a step; `StopDeactivate` and `StopNotify` are two, without the
mutex. `MoveOut` and `MoveIn` are the two exchanges of a move assignment, and the
destruction of the temporary is the `Stop` that follows. `GetThread` is the load of
the pointer (`ProxyLoad`) and then, under the mutex, the test of `m_active`; in
between the object may have been deleted, and `ProxyFreed` is then either outcome.
Nothing is concluded from an access to a deleted object except that it happened.

`JCallback` adds `Main`, one action for each place where another thread may come
in. The predicate of the wait, the wait and the test after it are separate, because
`m_active` changes without the mutex. `SetFunc` has two steps, so that the pair of
function and method could be seen half-written. A global reference is a number, its
method id the same number. `Call` and `CallReturns` enclose the Java code, during
which everybody else may do anything.

### Sockets

`fds` says what is open under each number, and an open takes the lowest that is
free, so that a number that was closed soon means something else. Each class keeps
its own notion of "no socket", as in the code: -1 in a `TCPStream` and in `connect`, 0
in an acceptor or a `UDPClient` that was not started. `OneHolder`, `NoLeak` and
`SocketsWork` compare the variables of all classes with the table.

An acceptor has an owner thread and a server thread. `shutdown` is cut at each call
that touches the table: `BeginShutdown`, `KernelShutdown`, `OpenNull`, `Dup2`,
`CloseNull`; `accept` is cut between its two tests of `m_shutdown`. `start` is not
called beside `accept`, and the destructor only when the server thread is outside of it,
because `m_lsd` and `m_listening` are plain members. `connect` has one action per
system call, with and without a timeout. `UDPClient` is used by one thread, so that
each of its operations is one step.

What the model showed and `NoLeak` and `SocketsWork` spell out: a descriptor is lost
by a start of an acceptor after one that failed, which overwrites `m_lsd`
(TCPAcceptor.cpp:96), and by a class that gets the number 0 in a process without a
standard input, which it then takes for "no socket". A `UDPClient` whose start failed
after the socket was made answers 0, success, to the next start (UDPClient.cpp:55),
without an address. A `shutdown` of an acceptor that was never started puts /dev/null
in the place of descriptor 0 (TCPAcceptor.cpp:170); `StdinKept` says that nothing else
takes it away, whatever the classes that write 0 for "no socket" are asked. `NoLeak` counts: what is lost, 0 aside, is an
acceptor's, and is no more than the calls of start that failed (`FailedCalls`). `setBlocking` never updates
`m_blocking`, so that a would-block is taken for a reset (TCPStream.cpp:176);
`SocketStreams` has that as one of the reasons for `SendFails` and `ReceiveFails`, and `ByteStream`
does not tell it from another error.

### SocketStreams and ByteStream

The n-th byte that is written is n. `mode`, `buf` and `rest` are
`llvm::raw_ostream`'s buffer and the data that `write` has still to place, `chunk` is
what `write_impl` has still to send, `pipe` what the system holds, `got` what a read has
so far. `Send` and `Receive` move any number of bytes. A failing send drops the rest of
its piece, as the code does; a failing receive drops what it had read. In `ByteStream`
all that may still be delivered is `transit`; `Deliver` takes a first part of it, `Lose`
takes a piece out of it and needs an error at one of the ends, `Cut` ends it.

### The stand-alone units

`Support` has a variable `unit`: a behaviour is one of one unit, the variables of the
others do not change, and so one run checks them all at the price of their sum. The
coders have no steps; each `sample` is an initial state, and the property compares what
the code computes with a reference definition: an inverse, a grammar, RFC 7230, FIPS 180.

* `UidVector`: `since` counts the erasures after that of a uid; `LateReuse` is about it.
* `StringMap`: buckets, tombstones, quadratic probing and both reasons to rehash, for
  every choice of the hash values. `AsMap` is the refinement of `AbstractMap`, and
  says besides that an insert is an insert there, an erase an erase: without that a
  lost one would pass for a stuttering step. `NeverFull` is why lookups end.
* `SmallSet`: what `connect_parallel` keeps its attempts in, and the reason why
  `ConnectParallel` may take `active` for a set. It is a vector while that has room, then
  a `std::set`, and again a vector when that one is empty; `AsMap` has the same for it.
* `StringRefAlgorithms`: `find` with its table of skips, which needs the limit on the needle,
  for a skip has a byte; `split`, whose documentation states the inverse that is checked;
  `getAsInteger` with numbers of few bits that overflow, which is also how a port of a URL is
  read: `http://host:-1/` has the port -1. An empty separator, with which `split` does not
  end unless it has a limit, is left out.
* `RawFdIstream`: a read that asks for more than its buffer holds gets what is left in
  the buffer again and again (raw_istream.cpp:128): `InOrderUnlessOverran` says that
  this is so exactly then.
* `Sha1`: a digest is the sequence of blocks given to `transform`. `FromFile` hashes
  nothing, for `readsome` of a stream that was just opened has nothing in its buffer:
  its digest is that of the empty message.
* `Multipart`: `searchPos` keeps its value when a buffer without a dash is thrown away.
  So the search may report a boundary that is not there, out of old and new characters;
  `BoundaryFound` says what does hold: none is passed over, and the first is found where it
  is when no dash precedes it.
* `HttpHeaders`: fields, continuation lines and `getline` with its limit; a line of
  1023 characters before CR LF leaves a lone LF, which ends the headers early.
* `Leb128`: digits to base 128. `ReadUleb128` puts them into 32 bits.
* `JsonLexer`: `scan_number` and `scan_string` as automata over classes of characters,
  against RFC 7159 and the table of well-formed UTF-8, and `dump_float` in locales with
  and without a separator of thousands. An integer that 64 bits do not hold is read as a float
  (json_parser.cpp:1428): `Fits` has the bound of either sign, here for 5 bits. Texts of the
  characters `-`, `+`, `.`, `e`, `0` and `1`, and integers of more digits up to both bounds, are
  samples. The table in the comment at
  json_parser.cpp:163 differs from the code; the mutant of `ByTheGrammar` follows it, and
  the run refutes it.
* `JsonParser`: the recursion is the stack `calls`, a step reads a token, every answer of
  the callback is tried. After a refused start the depth is no longer counted up, but still
  counted down; `CallbackDepth` says until when it is right. There are two strings, so that a
  key may come again: what was kept under it is replaced (json_parser.cpp:1780), unless
  the callback refuses the key or value that comes again. What parse returns
  (`KeptOnly`: all but what was refused or replaced), and what it
  and the acceptor accept (`TextByGrammar`), are parts of `ByTheGrammar`.
* `JsonPointer`: splitting and escaping, `at`, `operator[]`, flatten and unflatten.
  `operator[]` leaves what it has made already when it throws half-way. `Stoi` is
  `std::stoi`: white space, a sign and other characters behind the digits are taken, and what
  `int` does not hold is refused (5 bits here), so that `/ 1`, `/+1` and `/1a` go to the element 1. A negative
  index becomes a `size_type` behind any end, and no vector is filled up to there, which is an
  exception; but for -1 in an empty array, where nothing is filled in and the reference is to
  an element that does not exist (json.cpp:856). `AccessInverse` says that an access is undefined
  exactly there, and what holds of all others. That memory may not last for an index which `int` holds is left out.
* `JsonBinary`: numbers are sequences of bytes, so that all 64 bits are there. Floats keep
  their bytes. An indefinite-length string of CBOR takes the headers of its chunks for
  characters, and a negative number below -2^63 is read as a positive one; the property of
  arbitrary inputs compares what was read with what is written of it, which holds for these.
* `JsonCompare`: numbers of different types are compared after a cast, which rounds an
  integer to the precision of a double, and wraps an unsigned number beyond the signed
  ones: so 2^64 - 1 is equal to -1, and both `==` and `<` fail to be transitive. Objects
  are ordered by their keys alone, so that two of them may be neither equal nor less.
  `ComparisonLaws` says what is left: the laws that hold for all values, and that values
  whose numbers are exact are in order. Integers have 5 bits here and doubles 3 of precision,
  which leaves some integers of either sign without a double.
* `ConvertUtf`: a converter is a loop of rounds; a round takes units and puts units, or stops.
  What a conversion gives and where it stops is compared with the code points of the longest
  well-formed beginning, and with the replacements that Unicode recommends for a lenient one;
  a conversion that was stopped, at any unit of the source or any size of the target, and goes
  on from there, ends as if it had not been. There are two exceptions: a string from Java loses a
  byte order mark at its front, and a number above 0x10FFFF in UTF-32 is recorded as an
  error but not stopped at, so that a conversion in pieces may forget it.

## The runs

| run | instance | states | checks |
|---|---|---|---|
| `queue` | 2 producers x 2 items, 3 consumers, 1 spurious wakeup | 282 thousand | `TypeOK`, `NoStrandedItem`, `Delivery`, `ImplementsFifo`, `Drained` |
| `parallel` | 2 calls, lists of 0, 1 or 2 servers, 3 attempts in all, with and without timeout, 1 spurious wakeup | 436 thousand | `TypeOK`, `StreamOwnership`, `NullMeansAllFailed`, `ActiveEntriesLive`, `SuccessIsAnnounced`, `TimedCallReturns`, `SuccessfulCallReturns` |
| `callback` | 3 clients, 1 owner, 1 object, 4 proxies, attach may fail, 1 spurious wakeup | 101 thousand | `TypeOK`, `CallbackConsistent`, `OneLateCallback`, `NoSleepOnMessage`, `MessagesHandled`, `StopReachesThread` |
| `owner` | 2 clients, 2 owners, 2 objects, 2 proxies, 2 move assignments | 1.8 million | `NoOrphan`, `OwnedOnce`, `FreeRespectsProxy` |
| `sockets` | 1 acceptor with 1 failing start, 1 connecting thread, 1 stream, 2 UDP clients, descriptors 0 to 2 | 622 thousand | `OneHolder` (with the types), `NoLeak`, `SocketsWork`, `StdinKept`, `ShutdownEndsAccept` |
| `streams` | buffer of 2, pipe of 3, 5 bytes, reads and writes of up to 5 | 599 thousand | `TypeOK`, `AsByteStream` |
| `support` | short inputs of 26 units, see below | 1.6 million | `FreelistExact`, `LateReuse`, `NeverFull`, `AsMap`, `InOrderUnlessOverran`, `HashesPadded`, `BoundaryFound`, `DecodersInvert`, `CodersExact`, `ByTheGrammar`, `CallbackDepth`, `ComparisonLaws` |
| `parallel_hang` | 1 call, 1 server, no timeout | small | `EveryCallReturns` is violated |
| `parallel_dup` | 1 call, the same server twice | small | `NoDuplicateAttempt` is violated |
| `stop_hang` | 1 client starts and stops 1 thread | small | `StopEndsThread` is violated |
| `proxy_freed` | 1 client, 1 thread that cannot attach | small | `ProxyLocksThread` is violated |
| `flatten` | the values of `support` | small | `FlattenRestores` is violated |

Why these bounds. `queue`: with three consumers and two producers there can be two
sleepers, one awake consumer and two pending notifications at once, which is what
a lost or misdirected wakeup needs; the theorems below cover all other sizes.
`parallel`: two attempts in one call race each other, and two calls are needed for
leftovers of the first to meet the second; three attempts in all give every
division of the two.
`callback`: one client sends, one changes the function and one
stops; four proxies allow two messages beside two changes. `owner`: two owners, two
objects and two clients are the least for an exchange to race another; a second move
assignment gives back what the first took. `sockets`: every class is there at least
once; two UDP clients are needed for a move, and three numbers are so few that the table is full,
a number is taken again, and 0 is given away, all within a few steps. `streams`: a write
may be shorter than the buffer, as long, more than twice as long, and leave a rest; the pipe
holds more than a buffer and less than a write. `support`: constants of the code are made
small and keep their relations: 4 bytes for SHA1's block of 64 and 2 for its
length of 8, so that the length fits behind a message or not; 2 buckets for `StringMap`'s
16, so that it grows twice; 2 elements for the 16 of a small set, among 3; needles of up to 4 where a
skip ends at 3, in texts of up to 6; integers of 5 bits for 64; lines of 8 for 1024, so that long ones are tried;
a reuse threshold of 2. The bytes and numbers that are encoded are not all, but those at the
ends of each form, taken from the code's comparisons. `JsonParser` has every text of up to 10
tokens, nested twice, and every sequence of answers: 10 are an object of two members and its end. Deadlock is not checked in any run: in each
the bounds, or an idle system in which everybody waits, end the behaviour.

### What the violated properties show

* `parallel_hang`. A worker counts its failure and notifies without `result->mtx`
  (TCPConnector_parallel.cpp:108). Between the caller's test and its wait, both go
  unnoticed; if it was the last worker, a call without a timeout never returns.
  `TimedCallReturns` and `SuccessfulCallReturns` hold: a timeout ends the wait, and
  a stream is stored under the mutex, so that its notification cannot be missed.
* `parallel_dup`. The caller tests `active` in one critical section and the worker
  fills it in another (lines 78 and 89).
* `stop_hang`. `Stop` clears `m_active` and notifies without `m_mutex`
  (SafeThread.h:113). In the same window the thread goes to sleep for ever, with no
  owner left that could wake it. `StopReachesThread` says that this window,
  `SleepsThroughStop`, is the only one.
* `proxy_freed`. `Main` returns by itself when the Java VM refuses the thread
  (jni_util.h:475); its object is deleted, the owner keeps pointing to it, and the
  next `GetThread` locks the mutex of a deleted object.

* `flatten`. A value that is an object and whose first pointer goes to the key "0" comes back
  as an array (json_pointer.cpp:64). json.h:7124 excepts empty objects and arrays alone.
  `FlattenInverse`, a part of `DecodersInvert`, says that these are the only exceptions.

### Fairness

Weak fairness only, on the steps of a thread that is inside an operation: the system
schedules every thread that can run. A thread that needs a mutex is not shut
out for ever here: within the bounds, others take it only finitely often, and whoever holds
it lets go, so weak fairness is no hidden promise about the order in which a mutex is
granted. `connect` returns (it has the system's timeout),
time passes, Java callbacks return. Nobody is obliged to begin an operation, no spurious
wakeup is owed, and a producer need not push. In `Sockets` fairness is on the steps of a
shutdown that was begun and on an accept that can return (`OwnerGoesOn`, `ServerGoesOn`);
that somebody connects is not assumed, so that `ShutdownEndsAccept` is owed to the
shutdown alone. `SocketStreams` and `Support` have no liveness property: a send or a read may
wait for the other end for ever.

## The proofs

All proofs are for any values of the constants that satisfy the named assumptions of the modules,
which TLC evaluates in every run. They ask for no more than makes the constants what they stand for:

* `QueueAssumption`: producers and consumers are finite, disjoint sets, `NoThread` is in neither.
* `SafeThreadAssumption`, `JCallbackAssumption`: clients and objects are disjoint, `None` is neither,
  the bounds are natural numbers.
* `ParallelAssumption`: the lists of servers are sequences, and one of them is the longest: only so
  many workers are named. There may be infinitely many lists.
* `DescriptorsAssumption`, `AcceptorAssumption`: the table has a size; the acceptors are a finite set,
  since `NoLeak` counts the calls of start of all of them. Threads, streams and UDP clients
  may be infinitely many.
* `StreamsAssumption`: the sizes are positive. `UidAssumption`: the threshold is at least 1.
  `FdAssumption`: the sizes are natural numbers. `ShaAssumption`: the length fits into a block that
  holds a byte more.
* `MapAssumption`: hash values are natural numbers, and the sizes of a table are powers of 2, as
  StringMap.cpp:52 asserts. `NeedleAssumption`: the longest needle that `find` makes a table
  for is a natural number. `SmallSet`, `Multipart` and `JsonParser` assume nothing.
* `SamplesAssumption` (`Support`): every sample of the run is one that `Given` allows, so that the
  inputs the run enumerates are among those that `CodersAreExact` is about.

Constants named `Max...` bound what a behaviour may do; they may have any value, so that the theorems
are about behaviours of every length.

* `FifoDelivery` (`ConcurrentQueueProofs`): the abstract queue, `Fifo!Spec`, satisfies `Delivery`. The
  inductive invariant adds to it `TypeOK` and `Numbered`: no item, queued or received,
  has a number that its producer has not reached. Without it the next item of a
  producer might already exist and `Push` could break the order.
* `QueueTypeCorrect`, `NoItemIsStranded`, `QueueImplementsFifo`, `QueueDelivery`
  (`ConcurrentQueueProofs`). The inductive invariant `QueueInv` is `TypeOK` and
  `Locked`: a thread inside a critical section holds the mutex (so there is only one),
  a consumer in `cond_` is at its wait, and a consumer in `remove` has the head of a
  queue that is not empty in its local copy. Without the last part `RemoveFront` could not
  be shown to be `Pop`.
  `NoItemIsStranded` adds the counting argument: an item comes with a producer that
  has still to notify; a notification adds an awake consumer if anybody sleeps; an awake
  consumer leaves only with an item, or goes to sleep when there is none.
  `QueueDelivery` needs no argument of its own: it follows from the refinement and from
  `FifoDelivery`, instantiated.

* `JCallbackProofs` is about `Main` and the owners together. Its inductive invariant `Inv`
  has a part for each reason why the code is right:
  - `Typed`, the types without the bounds;
  - `Owned`: an object is in at most one owner, or in the hands of one client that took it
    out by an exchange and will stop it or hand it on; nobody holds one that was not
    allocated. With `NoOrphan`, which is inductive together with it, this gives
    `NoThreadIsOrphaned` and `ThreadsHaveOneOwner`;
  - `Protected`: the mutex is held wherever `Main` works on the members and by the client of
    every proxy whose object exists, and who sleeps has an empty queue. It gives
    `MessagesWakeMain`, and the other parts rest on it;
  - `Paired`: function and method match unless the client that holds the proxy is between
    the two assignments, and the references of two objects differ. With `Protected` it
    gives `CallbacksAreConsistent`;
  - `LastCall`: a callback that begins late finds the thread stopped when it returns. It gives
    `FewLateCallbacks`.
  `ProxyKeepsObject` adds `Left`: when `Main` has left its loop the thread is stopped and
  nobody has a proxy of it, and none can be made since `GetThread` tests `m_active` under
  the mutex. It assumes `~AttachMayFail`; the run `proxy_freed` shows what happens otherwise.
  `CallbackTypes`, `TypeOK` with its bounds, needs two parts more: `Counted`, since a queue is as long
  as the proxies that were used to fill it, those in use not among them, and `Numbered`, since
  a function that is stored or copied is one that was made.
  The steps are grouped by what they leave alone (`MainKeeps`, `ProxyKeeps`, `OwnerKeeps`,
  `QuietKeeps`), so that each lemma looks only at the actions that can disturb its part.

* `ConnectParallelProofs` proves the five invariants of the run `parallel` from one, `Inv`:
  - `Loop`: which workers exist follows from how far the spawning loop has come;
  - `Tally`: `count` is the number of workers that have counted themselves and `num` that of those
    started (one more for a call that threw). Both are cardinalities, and so `count >= num`, what the
    caller tests, means that all have finished. `NoStreamMissed` rests on that;
  - `Stages`: what a worker's socket and `result->done` are at each of its places;
  - `Holding`: who has a stream, from the side of the holder. A result that has a stream has still a
    user, its call or one of its workers, so that the last reference finds it (`Release`);
    with `Stages` this is `OneOwner`;
  - `Waiting`: what the caller has seen under `result->mtx`. It has `SuccessIsAnnounced` as a part: a
    stream is stored under the mutex, and so not while the caller is between its test and its wait.
  `ActiveIsLive` needs of the others only `Typed` and `Loop`.

* `SocketStreamsProofs`: `StreamsImplementByteStream` is the refinement of the run `streams`. The
  bytes under way are those of the read in progress, those the system holds and, unless the
  connection is cut, those the writer has still in `chunk`, `buf` and `rest`, in this order. `Write`
  appends to them, or nothing: a stutter; `Receive` takes their first part when it completes a read;
  a failing send or receive takes a piece out of them and sets an error; closing cuts them; every
  other step, a flush, a partial send, a retried receive, leaves them. The invariant is
  `TypeOK` and that nothing is left in the buffer while what begins with a flush goes on: else a change
  to an unbuffered stream would let a later byte overtake. `ByteStreamDelivery`
  says what the byte stream promises: bytes are delivered in order and none twice (`InOrder`), and without an error
  none is left out (`NoGap`). Its invariant, `StreamInv`, says of `delivered` and what is in transit together that they ascend
  (`Ascending`) and have nothing that was not written (`Written`), and that without an error they are all
  bytes, up to the last one unless the connection was cut (`Complete`). It is proved on the mapped variables, but
  from the steps of `ByteStream` alone. `StreamDelivery` follows from the two.

* `SocketsProofs`. `OneHolder` is about descriptors above 0 and is not inductive: an open may
  give 0 to a class that then closes it (a `TCPStream`, whose "none" is -1), and this must not be the
  0 of another. `Exclusive` says of `Owns` what `OneHolder` says of the others: a variable whose "none"
  is -1 owns a 0, `m_lsd` of an acceptor and of a UDP client never does. With it: an open takes a number that
  is closed, so that nobody owns it, and who closes one owns it. `Claims` and `Excused` are the two halves of
  `NoLeak`. `Excused` maps each descriptor that is lost, or that the next start of its acceptor
  would lose, to a call of start that failed, and no two to the same; a failing start brings one
  such descriptor and one such call, and the cardinalities follow at the end
  (`LittleIsLost`). `Calls` says what the locals of the calls in progress hold at each
  step of accept, shutdown, connect and the UDP client; `GivenSocketsWork` is
  one of its consequences.

* `UnitProofs` is about the state machines among the stand-alone units; the run `support`
  checks the same properties on an instance.
  - `FreelistIsExact`, `ReuseIsLate`: `FreelistExact` is stated element by
    element as `NamesErased` (what the free list names is empty), `NamesAll` (all that is empty is
    named), `NamesOnce` and `UidCounted`; together they are inductive. `ReuseIsLate` needs
    `UidOrdered`: those behind an entry of the free list were erased after it, so that the head
    of a list of `reuse_threshold` entries has seen one less.
  - `TableIsNeverFull`, `ContainersAreAbstract`: in a table that is kept (`Kept`) no key has two entries
    (`Unique`), every entry is met by the probes for its key before an empty bucket (`Reached`), and
    the counters are those of the buckets, which are not all taken. `Reached` is what makes a lookup
    that stops at an empty bucket right, and it is why an erased entry becomes a tombstone: an
    empty bucket would cut off those behind it. A lookup ends because the probes, at the triangular numbers, visit all
    buckets (`ProbesVisit`): two probes in the same bucket would give a power of 2 an odd divisor. A
    rehash keeps the contents (`Contents`), entry by entry, and the new table has room for them. For
    `SmallSet` the invariant is that the vector has no duplicates and is empty while the set is in use.
    What the operations promise besides the refinement is a part of `AsMap` and proved with it.
  - `ReadsAreInOrder`: what was returned, what is buffered and what is left are together the file
    while no read has asked for more than the buffer held; from then on they are
    too long, and stay so, which is the other direction.
  - `DigestsArePadded`: `Cut`, what was hashed is the message but for the last bytes, which are in
    the buffer and less than a block. `Update` and `Final` are then facts about sequences of blocks.
  - `NoBoundaryIsMissed`: while the search goes on the buffer shows the text (`Current`) or is
    `Stale`: it had no dash when it was full, and is filled from `searchPos` nevertheless. That
    a boundary is not missed then, although old characters stand where new ones should, is because
    a stale buffer has a dash in its first place at most, so that a dash found in it is a new one,
    and the buffer shows the text again (`MoveKeeps`). `NonePassed` says that no boundary begins in
    what was given up. What is saved is right (`Savings`) unless a dash was read that precedes
    every boundary, which is the exception `BoundaryFound` makes.
  - `CallbackSeesDepth`: while no start was refused every open call of `parse_internal` keeps its values and
    `depth` is their number (`AllKept`). Both are needed together: an end counts down exactly if its
    call is kept. `Inside` says that keys and separators occur in an open call only.

* `CoderProofs` and `LexerProofs`: the coders that are one walk over their input, for inputs of every length and for
  every size of the tables and integers. A definition by recursion over an input is a function on its
  places, or on what is left of it; that such a function exists is not taken for granted but proved
  (`Walk` and `Recursion`: the set of places up to which there is one has no least place missing), and
  with it every property goes from place to place, from behind (`FromBehind`) or from the front
  (`FromFront`).
  - `FindIsFirst`: no skip passes a place over. At a place that does not match the last byte of the window says
    how far the needle has to move until that byte fits, and `BadCharSkip` holds the least such distance:
    at a place in between, the byte would have to be in the needle nearer to its end.
  - `LebIsInverse`: the bytes of `WriteUleb128` but the last have the high bit, so that `ReadUleb128` stops where the
    number does; it is the same number exactly if it fits into 32 bits; a prefix is refused.
  - `Base64IsInverse`: the text is groups of 3 and a rest of 0, 1 or 2 bytes; a group of 4 characters
    gives its 3 bytes back by arithmetic, and the padding says how long the rest is.
  - `NumericIsAnOrder`: two strings are decided at the first place where the kinds of their characters,
    the ends of their runs of digits, or the characters differ (`Alike` up to there); the comparison
    at that place is that of numbers, so that the laws of an order carry over.
  - `NumbersByGrammar`: each state of `scan_number` says what form the characters up to it have by RFC 7159: so
    it accepts in exactly the states behind a whole number, and has passed `decimal1` or
    `exponent` exactly if there is a point or an e, and `minus` exactly if it begins with one. Whether an
    integer fits is asked of the whole text, whatever the width.
  - `EscapeIsInverse`: the four digits of an escape are read as their number whatever follows; a pair of
    surrogates is put together to the code point that it was made from; and the bytes added for a code
    point have its value, in the shortest form.
  - `StringIsInverse`: `dump_escaped` writes a text from the front, `scan_string` reads what is left of it. Both are
    brought to the places of the string: the text from a place on is what is written of the
    character there, and the text from the next place on. An ASCII character is read as itself however it
    was escaped (`ScanByte`). The bytes of a longer one are written as they are, and what follows them, an
    escape or the closing quote, is ASCII as is what follows in the string, so that
    `CharLength` sees the same in the text as in the string (`WideLength`); it sees a length exactly where the
    bytes are those of a code point in the shortest form (`CharLengths`). `WellFormed` is defined from the
    front and the lexer goes from there to the end: `ReadIsFormed` and `FormedIsRead` let them
    meet at any place: if the string is well formed up to it and the text is valid from it on, both are so
    as a whole.
  - `CodersAreExact` puts these together: `Given(unit, sample)` implies `CodersExact`, the property that the run
    `support` checks for its samples.
  The provers treat the arms of a CASE as a choice. Where the arms of a definition overlapped, and TLC
  took the first, the proof failed; these definitions (in `JsonLexer`, `ConvertUtf`, `JsonCompare` and
  `JsonPointer`) now have arms that exclude each other, or are IF, as the code's order of tests is.

Only model-checked:

* all liveness (`Drained`, `TimedCallReturns`, `SuccessfulCallReturns`, `MessagesHandled`,
  `StopReachesThread`, `ShutdownEndsAccept`): fairness and ENABLED are out of the prover's reach;
* `StdinKept` of `Sockets`: `SocketsProofs` proves the other safety properties of that module;
* `DecodersInvert`, `ByTheGrammar` and `ComparisonLaws`: the coders with nested data (JSON values, requests,
  headers, texts of tokens) and the conversions of UTF. Their modules declare RECURSIVE operators, or fold with
  an operator as a parameter, and what these compute for inputs of every depth is an induction
  over data. `Support` reaches them, so that no theorem is stated about `Support` itself:
  `UnitProofs`, `CoderProofs` and `LexerProofs` prove what the modules it EXTENDS define, of their own specifications, and a
  behaviour of one unit in `Support` is one of these.

## Not modelled

* Exceptions: failed allocation, a thread that cannot be made in `SafeThread::Start`, and what a coder's user does with the error it gets.
* Thread priorities, and the real-time clock under `wait_until` being set.
* What a deleted object's memory does; the models stop at the fact of the access.
* `empty` and `size` of the queue and the native thread handle, which change nothing.
* Logging and the wording of errors. The logger that `connect_parallel` hands to its
  workers must outlive them; the models keep no loggers. (`UDPClient::operator=` assigns the
  logger through a reference, and so changes the other object's.)
* A `TCPStream::close` in one thread while another is in send or receive: the descriptor is a plain
  member, and nothing in the repository says that this is allowed. The timeout of receive as time.
* The branches for Windows.
* SHA1's `transform` (bit arithmetic on one block, tested against published vectors).
* JSON: the value class but for `==` and `<`, its iterators and patches; pretty printing; the conversion
  between decimal numbers and doubles. They are sequential, and most are templates that the
  standard library does the work of.
* The rest of the vendored code (gmock, most of llvm/): the map covers a small part of all lines of
  the repository for that reason. hostname, timestamp, SocketError, `RuntimeDetector` and Logger
  have no behaviour over time.

## Plan

Done: the queue with its abstract specification, parallel connection, safe threads and Java
callbacks, the socket classes over one table, the streams of a connection with their abstract
specification, the stand-alone units; the proofs of every safety property of these but `StdinKept` that
is not about nested data, and of the coders and lexers that walk over their input once.

To come: `NumeralsByValue`, the part of `ComparisonLaws` that is about `compare_numeric`, and `FloatInverse`, about
`dump_float`, which are walks as well; single rounds of the conversions of UTF; and what `KeptOnly`
says, for one object or array, as an invariant of `JsonParser`.
