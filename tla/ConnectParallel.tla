--------------------------- MODULE ConnectParallel ---------------------------
(***************************************************************************)
(* TCPConnector::connect_parallel (tcpsockets/TCPConnector_parallel.cpp):  *)
(* one thread repeatedly asks for a connection to whichever of a list of   *)
(* servers answers first.  Each call starts one detached worker per server *)
(* and waits for the first stream, for all workers to fail, or for its     *)
(* timeout; workers of a call that has returned go on by themselves.       *)
(*                                                                         *)
(* One calling thread is enough: the set "active" of attempts in flight is *)
(* thread_local (or its entries carry the thread id), so calls of two      *)
(* threads share nothing.  The worker for the i-th server of call k is the *)
(* pair <<k, i>>; it stands for its thread, its socket and its stream.     *)
(*                                                                         *)
(* global->mtx is never held across a step, so its critical sections are   *)
(* single actions.  result->mtx of the current call is held by the caller  *)
(* while it is at "test", "block" or "return", by a worker only inside     *)
(* Publish.                                                                *)
(***************************************************************************)
EXTENDS Naturals, Sequences, FiniteSets

CONSTANTS
  Servers,      \* host and port pairs
  Lists,        \* the server lists a call may be given
  Timeouts,     \* whether a call may have a timeout: a set of Booleans
  MaxCalls,     \* bound: calls the thread makes
  MaxAttempts,  \* bound: servers asked for over all calls
  MaxSpurious,  \* bound: spurious wakeups of result->cv in a behaviour
  None          \* no stream

ASSUME ParallelAssumption ==
  /\ Lists \subseteq Seq(Servers)
  /\ \E longest \in Lists : \A l \in Lists : Len(l) <= Len(longest)
  /\ Timeouts \subseteq BOOLEAN
  /\ MaxCalls \in Nat
  /\ MaxAttempts \in Nat
  /\ MaxSpurious \in Nat
  /\ \A list \in Lists : None \notin Nat \X DOMAIN list

VARIABLES
  pc,        \* where the calling thread is
  call,      \* how many calls it has begun; the current or last one
  list,      \* list[k]: the servers of call k
  timed,     \* whether the current call has a timeout (timeout # 0)
  expired,   \* whether its deadline has passed
  next,      \* the index in the list the spawning loop is at
  num,       \* num_workers
  blocked,   \* whether the caller is blocked in result->cv
  spurious,  \* spurious wakeups so far
  active,    \* global->active
  wpc,       \* wpc[w]: where worker w is, for every worker started so far
  sock,      \* sock[w]: the socket of worker w: none, failed, open or closed
  stream,    \* stream[k]: result->stream of call k, as the worker that made it
  count,     \* count[k]: result->count of call k
  done,      \* done[k]: result->done of call k
  returned   \* returned[k]: the stream call k has returned to the user

callerVars == <<pc, call, list, timed, expired, next, num, spurious>>
resultVars == <<stream, count, done, returned>>
vars == <<callerVars, blocked, active, wpc, sock, resultVars>>

Calls == 1 .. MaxCalls

MaxServers == LET lengths == {Len(l) : l \in Lists}
              IN  CHOOSE n \in lengths : \A m \in lengths : m <= n

Workers == Calls \X (1 .. MaxServers)

Server(w) == list[w[1]][w[2]]

Init ==
  /\ pc = "idle"
  /\ call = 0
  /\ list = [k \in Calls |-> << >>]
  /\ timed = FALSE
  /\ expired = FALSE
  /\ next = 1
  /\ num = 0
  /\ blocked = FALSE
  /\ spurious = 0
  /\ active = {}
  /\ wpc = [w \in Workers |-> "none"]
  /\ sock = [w \in Workers |-> "none"]
  /\ stream = [k \in Calls |-> None]
  /\ count = [k \in Calls |-> 0]
  /\ done = [k \in Calls |-> FALSE]
  /\ returned = [k \in Calls |-> None]

Started == {w \in Workers : wpc[w] # "none"}
Live == {w \in Started : wpc[w] # "end"}

(* how many servers the calls so far were given *)
Asked == Cardinality({w \in Workers : w[2] <= Len(list[w[1]])})

CallerHoldsMutex(k) == call = k /\ pc \in {"test", "block", "return"}

-----------------------------------------------------------------------------
(* The calling thread *)

Begin ==
  /\ pc = "idle"
  /\ call < MaxCalls
  /\ \E l \in Lists, t \in Timeouts :
       /\ Asked + Len(l) <= MaxAttempts
       /\ list' = [list EXCEPT ![call + 1] = l]
       /\ timed' = t
       /\ pc' = IF l = << >> THEN "idle" ELSE "spawn"
  /\ call' = call + 1
  /\ expired' = FALSE
  /\ next' = 1
  /\ num' = 0
  /\ UNCHANGED <<blocked, spurious, active, wpc, sock, resultVars>>

(* The server is being tried by an earlier worker that is still connecting *)
Skip ==
  /\ pc = "spawn"
  /\ next <= Len(list[call])
  /\ list[call][next] \in active
  /\ next' = next + 1
  /\ UNCHANGED <<pc, call, list, timed, expired, num, spurious, blocked, active,
                 wpc, sock, resultVars>>

(* The lock on global->mtx is dropped between this test and the insertion, *)
(* which is the new thread's.                                              *)
Spawn ==
  /\ pc = "spawn"
  /\ next <= Len(list[call])
  /\ list[call][next] \notin active
  /\ num' = num + 1
  /\ wpc' = [wpc EXCEPT ![<<call, next>>] = "start"]
  /\ next' = next + 1
  /\ UNCHANGED <<pc, call, list, timed, expired, spurious, blocked, active, sock,
                 resultVars>>

(* The reference to the result of call k goes; with the last one the       *)
(* result goes, and with it a stream nobody came for.                      *)
Release(k, shared) ==
  \/ (shared \/ stream[k] = None) /\ UNCHANGED <<sock, stream>>
  \/ /\ ~shared /\ stream[k] # None
     /\ sock' = [sock EXCEPT ![stream[k]] = "closed"]
     /\ stream' = [stream EXCEPT ![k] = None]

(* No thread can be made: the call ends by the exception, and the workers  *)
(* it has started go on.                                                   *)
SpawnFails ==
  /\ pc = "spawn"
  /\ next <= Len(list[call])
  /\ list[call][next] \notin active
  /\ num' = num + 1
  /\ pc' = "idle"
  /\ Release(call, \E v \in Live : v[1] = call)
  /\ UNCHANGED <<call, list, timed, expired, next, spurious, blocked, active, wpc, count,
                 done, returned>>

(* std::unique_lock<wpi::mutex> lock(result->mtx) *)
LockResult ==
  /\ pc = "spawn"
  /\ next > Len(list[call])
  /\ pc' = "test"
  /\ UNCHANGED <<call, list, timed, expired, next, num, spurious, blocked, active,
                 wpc, sock, resultVars>>

Answered == stream[call] # None \/ count[call] >= num

(* the predicate of the wait *)
Test ==
  /\ pc = "test"
  /\ pc' = IF Answered THEN "return" ELSE "block"
  /\ UNCHANGED <<call, list, timed, expired, next, num, spurious, blocked, active,
                 wpc, sock, resultVars>>

(* cv.wait: block and release result->mtx in one step *)
Block ==
  /\ pc = "block"
  /\ blocked' = TRUE
  /\ pc' = "waiting"
  /\ UNCHANGED <<call, list, timed, expired, next, num, spurious, active, wpc, sock,
                 resultVars>>

(* the deadline of a call with a timeout passes *)
Expire ==
  /\ timed
  /\ ~expired
  /\ pc \in {"test", "block", "waiting"}
  /\ expired' = TRUE
  /\ UNCHANGED <<pc, call, list, timed, next, num, spurious, blocked, active, wpc,
                 sock, resultVars>>

(* bug: the deadline is used by calls without a timeout only *)
WakeOnWrongBranch ==
  /\ pc = "waiting"
  /\ blocked
  /\ expired /\ ~timed
  /\ blocked' = FALSE
  /\ UNCHANGED <<callerVars, active, wpc, sock, resultVars>>

WakeOnTimeout ==
  /\ pc = "waiting"
  /\ blocked
  /\ expired
  /\ blocked' = FALSE
  /\ UNCHANGED <<callerVars, active, wpc, sock, resultVars>>

SpuriousWakeup ==
  /\ blocked
  /\ spurious < MaxSpurious
  /\ spurious' = spurious + 1
  /\ blocked' = FALSE
  /\ UNCHANGED <<pc, call, list, timed, expired, next, num, active, wpc, sock,
                 resultVars>>

(* the return of cv.wait or of one cv.wait_until: the latter reports a     *)
(* timeout when the deadline has passed, whatever woke it, and then the    *)
(* loop around it ends                                                     *)
Relock ==
  /\ pc = "waiting"
  /\ ~blocked
  /\ pc' = IF expired THEN "return" ELSE "test"
  /\ UNCHANGED <<call, list, timed, expired, next, num, spurious, blocked, active,
                 wpc, sock, resultVars>>

(* return std::move(result->stream), and the caller's reference to result *)
Return ==
  /\ pc = "return"
  /\ returned' = [returned EXCEPT ![call] = stream[call]]
  /\ stream' = [stream EXCEPT ![call] = None]
  /\ pc' = "idle"
  /\ UNCHANGED <<call, list, timed, expired, next, num, spurious, blocked, active,
                 wpc, sock, count, done>>

-----------------------------------------------------------------------------
(* A worker thread *)

GoTo(w, label) == wpc' = [wpc EXCEPT ![w] = label]

Start(w) ==
  /\ wpc[w] = "start"
  /\ GoTo(w, IF done[w[1]] THEN "count" ELSE "insert")
  /\ UNCHANGED <<callerVars, blocked, active, sock, resultVars>>

Insert(w) ==
  /\ wpc[w] = "insert"
  /\ active' = active \cup {Server(w)}
  /\ GoTo(w, "connect")
  /\ UNCHANGED <<callerVars, blocked, sock, resultVars>>

(* bug: a failed attempt is counted at once as well as at the end *)
ConnectCounts(w) ==
  /\ wpc[w] = "connect"
  /\ \/ sock' = [sock EXCEPT ![w] = "open"] /\ UNCHANGED count
     \/ /\ sock' = [sock EXCEPT ![w] = "failed"]
        /\ count' = [count EXCEPT ![w[1]] = @ + 1]
  /\ GoTo(w, "erase")
  /\ UNCHANGED <<callerVars, blocked, active, stream, done, returned>>

(* connect() succeeds or fails, after any delay *)
Connect(w) ==
  /\ wpc[w] = "connect"
  /\ \E result \in {"open", "failed"} : sock' = [sock EXCEPT ![w] = result]
  /\ GoTo(w, "erase")
  /\ UNCHANGED <<callerVars, blocked, active, resultVars>>

(* bug: the attempt counts as finished before its stream is published *)
EraseAndCount(w) ==
  /\ wpc[w] = "erase"
  /\ active' = active \ {Server(w)}
  /\ count' = [count EXCEPT ![w[1]] = @ + 1]
  /\ GoTo(w, IF sock[w] = "open" THEN "publish" ELSE "notify")
  /\ UNCHANGED <<callerVars, blocked, sock, stream, done, returned>>

(* bug: a failed attempt leaves its server in the set *)
EraseOnSuccess(w) ==
  /\ wpc[w] = "erase"
  /\ active' = IF sock[w] = "open" THEN active \ {Server(w)} ELSE active
  /\ GoTo(w, IF sock[w] = "open" THEN "publish" ELSE "count")
  /\ UNCHANGED <<callerVars, blocked, sock, resultVars>>

Erase(w) ==
  /\ wpc[w] = "erase"
  /\ active' = active \ {Server(w)}
  /\ GoTo(w, IF sock[w] = "open" THEN "publish" ELSE "count")
  /\ UNCHANGED <<callerVars, blocked, sock, resultVars>>

(* bug: the stream is stored without result->mtx *)
PublishUnlocked(w) ==
  /\ wpc[w] = "publish"
  /\ done' = [done EXCEPT ![w[1]] = TRUE]
  /\ \/ ~done[w[1]] /\ stream' = [stream EXCEPT ![w[1]] = w] /\ UNCHANGED sock
     \/ done[w[1]] /\ sock' = [sock EXCEPT ![w] = "closed"] /\ UNCHANGED stream
  /\ GoTo(w, "count")
  /\ UNCHANGED <<callerVars, blocked, active, count, returned>>

(* bug: the stream that lost the race is released, not destroyed *)
PublishLeaks(w) ==
  /\ wpc[w] = "publish"
  /\ ~CallerHoldsMutex(w[1])
  /\ done' = [done EXCEPT ![w[1]] = TRUE]
  /\ stream' = IF done[w[1]] THEN stream ELSE [stream EXCEPT ![w[1]] = w]
  /\ GoTo(w, "count")
  /\ UNCHANGED <<callerVars, blocked, active, sock, count, returned>>

(* The first stream of the call is stored in result; any other is closed   *)
(* when the worker's unique_ptr goes out of scope.                         *)
Publish(w) ==
  /\ wpc[w] = "publish"
  /\ ~CallerHoldsMutex(w[1])
  /\ done' = [done EXCEPT ![w[1]] = TRUE]
  /\ \/ ~done[w[1]] /\ stream' = [stream EXCEPT ![w[1]] = w] /\ UNCHANGED sock
     \/ done[w[1]] /\ sock' = [sock EXCEPT ![w] = "closed"] /\ UNCHANGED stream
  /\ GoTo(w, "count")
  /\ UNCHANGED <<callerVars, blocked, active, count, returned>>

(* ++result->count, without result->mtx *)
Count(w) ==
  /\ wpc[w] = "count"
  /\ count' = [count EXCEPT ![w[1]] = @ + 1]
  /\ GoTo(w, "notify")
  /\ UNCHANGED <<callerVars, blocked, active, sock, stream, done, returned>>

(* bug: only an unsuccessful worker notifies *)
NotifyFailure(w) ==
  /\ wpc[w] = "notify"
  /\ blocked' = (blocked /\ (call # w[1] \/ stream[call] # None))
  /\ GoTo(w, "finish")
  /\ UNCHANGED <<callerVars, active, sock, resultVars>>

(* result->cv.notify_all(), without result->mtx; only the caller waits *)
NotifyAll(w) ==
  /\ wpc[w] = "notify"
  /\ blocked' = (blocked /\ call # w[1])
  /\ GoTo(w, "finish")
  /\ UNCHANGED <<callerVars, active, sock, resultVars>>

(* Somebody other than w still shares the result of call k. *)
SharedByOthers(w) ==
  \/ call = w[1] /\ pc # "idle"
  \/ \E v \in Live \ {w} : v[1] = w[1]

(* The thread ends. *)
Finish(w) ==
  /\ wpc[w] = "finish"
  /\ GoTo(w, "end")
  /\ Release(w[1], SharedByOthers(w))
  /\ UNCHANGED <<callerVars, blocked, active, count, done, returned>>

-----------------------------------------------------------------------------
Caller ==
  \/ Begin \/ Skip \/ Spawn \/ SpawnFails \/ LockResult \/ Test \/ Block \/ Expire
  \/ WakeOnTimeout \/ SpuriousWakeup \/ Relock \/ Return

Worker(w) ==
  \/ Start(w) \/ Insert(w) \/ Connect(w) \/ Erase(w) \/ Publish(w)
  \/ Count(w) \/ NotifyAll(w) \/ Finish(w)

Next == Caller \/ \E w \in Started : Worker(w)

Spec == Init /\ [][Next]_vars

(* Threads that can run do run, time passes, and every connect() returns   *)
(* (it has a timeout of its own or the system's).  No call must be begun   *)
(* and neither a spurious wakeup nor an exception is owed.                 *)
Fairness ==
  /\ WF_vars(Skip \/ Spawn \/ LockResult \/ Test \/ Block \/ Relock \/ Return)
  /\ WF_vars(WakeOnTimeout)
  /\ WF_vars(Expire)
  /\ \A w \in Workers : WF_vars(Worker(w))

FairSpec == Spec /\ Fairness

-----------------------------------------------------------------------------
(* Properties *)

(* Every variable keeps its type; no more workers are counted than there   *)
(* are servers in the list.                                                *)
TypeOK ==
  /\ pc \in {"idle", "spawn", "test", "block", "waiting", "return"}
  /\ call \in 0 .. MaxCalls
  /\ list \in [Calls -> Lists \cup {<< >>}]
  /\ timed \in BOOLEAN /\ expired \in BOOLEAN /\ blocked \in BOOLEAN
  /\ next \in 1 .. MaxServers + 1
  /\ num \in 0 .. MaxServers
  /\ spurious \in 0 .. MaxSpurious
  /\ active \subseteq Servers
  /\ wpc \in [Workers -> {"none", "start", "insert", "connect", "erase", "publish",
                          "count", "notify", "finish", "end"}]
  /\ sock \in [Workers -> {"none", "failed", "open", "closed"}]
  /\ \A k \in Calls : /\ stream[k] \in {None} \cup ({k} \X DOMAIN list[k])
                      /\ returned[k] \in {None} \cup ({k} \X DOMAIN list[k])
                      /\ count[k] \in 0 .. Len(list[k])
                      /\ done[k] \in BOOLEAN

HeldByWorker(w) == wpc[w] \in {"erase", "publish"}
HeldByResult(w) ==
  /\ stream[w[1]] = w
  /\ \/ call = w[1] /\ pc # "idle"
     \/ \E v \in Live : v[1] = w[1]
HeldByUser(w) == returned[w[1]] = w

(* A stream that was opened has exactly one owner as long as it is open:   *)
(* the worker that made it, the result of its call while a worker or the   *)
(* caller still shares it, or the user that call returned it to.  Nothing  *)
(* is closed under an owner and nothing open is forgotten, whichever of    *)
(* racing workers, timeout and return comes first.                         *)
StreamOwnership ==
  \A w \in Started :
    LET owners == {f \in {"worker", "result", "user"} :
                     \/ f = "worker" /\ HeldByWorker(w) /\ sock[w] # "failed"
                     \/ f = "result" /\ HeldByResult(w)
                     \/ f = "user" /\ HeldByUser(w)}
    IN  Cardinality(owners) = IF sock[w] = "open" THEN 1 ELSE 0

(* The current call ended by an exception: its loop did not end.           *)
Threw == call > 0 /\ pc = "idle" /\ next <= Len(list[call])

(* A call that gives up before its deadline has really lost: every worker  *)
(* it started has finished its attempt without a stream.  A stream made in *)
(* time is never missed because failures were counted first.               *)
NullMeansAllFailed ==
  pc = "idle" /\ call > 0 /\ ~Threw /\ ~expired /\ returned[call] = None =>
    \A w \in Started : w[1] = call => sock[w] = "failed"

(* A server listed as being tried is being tried: an entry in active never *)
(* outlives the attempt, or later calls would skip the server for ever.    *)
ActiveEntriesLive ==
  \A s \in active : \E w \in Started : Server(w) = s /\ wpc[w] \in {"connect", "erase"}

(* The caller does not sleep beside a stream: when there is one, a worker  *)
(* is still going to notify.  That the stream is stored under result->mtx  *)
(* is what keeps the notification from falling between test and wait.      *)
SuccessIsAnnounced ==
  blocked /\ stream[call] # None =>
    \E w \in Started : w[1] = call /\ wpc[w] \in {"count", "notify"}

(* A call with a timeout returns.                                          *)
TimedCallReturns == (pc # "idle" /\ timed) ~> (pc = "idle")

(* A call one of whose workers connected first returns, timeout or not.    *)
SuccessfulCallReturns == (pc # "idle" /\ stream[call] # None) ~> (pc = "idle")

(* "wait for a result, timeout, or all finished": also a call without a    *)
(* timeout returns, since every attempt finishes.                          *)
EveryCallReturns == (pc # "idle") ~> (pc = "idle")

(* "structure to make sure we don't start duplicate workers": one thread   *)
(* never tries the same server twice at the same time.                     *)
NoDuplicateAttempt ==
  \A v, w \in Started :
    v # w /\ wpc[v] = "connect" /\ wpc[w] = "connect" => Server(v) # Server(w)
=============================================================================
