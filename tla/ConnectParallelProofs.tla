------------------------ MODULE ConnectParallelProofs ------------------------
(***************************************************************************)
(* The safety of TCPConnector::connect_parallel, for every number of       *)
(* calls, every set of server lists and every interleaving of the workers: *)
(* the five invariants of ConnectParallel.                                 *)
(*                                                                         *)
(* None of them is inductive alone.  Inv adds                              *)
(*   - Loop: how far the spawning loop is tells which workers there are;   *)
(*   - Tally: count and num are the numbers of workers that have finished  *)
(*     and that were started, so that count >= num means all of them have; *)
(*   - Stages: what a worker's socket and result->done are at each of its  *)
(*     labels;                                                             *)
(*   - Holding: who has an open stream, from the side of the holder;       *)
(*   - Waiting: what the caller has seen under result->mtx.                *)
(***************************************************************************)
EXTENDS ConnectParallel, FiniteSetTheorems, TLAPS

(* the worker has nothing left to do with its own socket *)
Settled(w) == wpc[w] \in {"count", "notify", "finish", "end"}

(* the servers of call k a worker was started for, or has been counted for *)
StartedOf(k) == {i \in 1 .. MaxServers : wpc[<<k, i>>] # "none"}
CountedOf(k) ==
  {i \in 1 .. MaxServers : wpc[<<k, i>>] \in {"notify", "finish", "end"}}

(* where a worker may be, and what its socket may be *)
Labels == {"none", "start", "insert", "connect", "erase", "publish", "count", "notify",
           "finish", "end"}
Sockets == {"none", "failed", "open", "closed"}

Typed ==
  /\ pc \in {"idle", "spawn", "test", "block", "waiting", "return"}
  /\ call \in 0 .. MaxCalls
  /\ list \in [Calls -> Lists \cup {<< >>}]
  /\ timed \in BOOLEAN /\ expired \in BOOLEAN /\ blocked \in BOOLEAN
  /\ next \in Nat \ {0}
  /\ num \in Nat
  /\ spurious \in 0 .. MaxSpurious
  /\ wpc \in [Workers -> Labels]
  /\ sock \in [Workers -> Sockets]
  /\ stream \in [Calls -> {None} \cup Workers]
  /\ returned \in [Calls -> {None} \cup Workers]
  /\ count \in [Calls -> Nat]
  /\ done \in [Calls -> BOOLEAN]

(* The loop of the current call has started workers below next only, and   *)
(* earlier calls only for servers they were given.                         *)
Loop ==
  /\ pc # "idle" => call > 0
  /\ call = 0 => next = 1
  /\ call > 0 => next <= Len(list[call]) + 1
  /\ pc \notin {"idle", "spawn"} => next > Len(list[call])
  /\ \A w \in Started : /\ w[1] <= call
                        /\ w[2] <= Len(list[w[1]])
                        /\ w[1] = call => w[2] < next

(* A call that has thrown has counted a worker it could not start. *)
Tally ==
  /\ \A k \in Calls : count[k] = Cardinality(CountedOf(k))
  /\ call = 0 => num = 0
  /\ call > 0 => num = Cardinality(StartedOf(call)) + (IF Threw THEN 1 ELSE 0)

Stages ==
  /\ \A w \in Workers : wpc[w] \in {"none", "start", "insert", "connect"} => sock[w] = "none"
  /\ \A w \in Workers : wpc[w] = "erase" => sock[w] \in {"open", "failed"}
  /\ \A w \in Workers : wpc[w] = "publish" => sock[w] = "open"
  /\ \A w \in Workers : Settled(w) /\ sock[w] # "failed" => done[w[1]]

ResultHolds(k) ==
  stream[k] # None =>
    /\ stream[k] \in Workers /\ stream[k][1] = k
    /\ Settled(stream[k]) /\ sock[stream[k]] = "open"
    /\ returned[k] = None
    /\ (call = k /\ pc # "idle") \/ \E v \in Live : v[1] = k

UserHolds(k) ==
  returned[k] # None =>
    /\ returned[k] \in Workers /\ returned[k][1] = k
    /\ Settled(returned[k]) /\ sock[returned[k]] = "open"

HandedOver(w) ==
  Settled(w) /\ sock[w] = "open" => stream[w[1]] = w \/ returned[w[1]] = w

CallInProgress ==
  /\ \A k \in Calls : k > call => ~done[k]
  /\ pc # "idle" => returned[call] = None
  /\ pc # "idle" /\ done[call] => stream[call] # None

Holding ==
  /\ \A k \in Calls : ResultHolds(k) /\ UserHolds(k)
  /\ \A w \in Workers : HandedOver(w)
  /\ CallInProgress

(* every worker of the current call has come back with nothing *)
AllFailed == \A w \in Started : w[1] = call => Settled(w) /\ sock[w] = "failed"

Waiting ==
  /\ blocked => pc = "waiting"
  /\ pc = "block" => stream[call] = None
  /\ pc = "return" /\ ~expired /\ stream[call] = None => AllFailed
  /\ pc = "idle" /\ call > 0 /\ ~Threw /\ ~expired /\ returned[call] = None => AllFailed
  /\ SuccessIsAnnounced

Inv == Typed /\ Loop /\ Tally /\ Stages /\ Holding /\ Waiting /\ ActiveEntriesLive

-----------------------------------------------------------------------------
(* MaxServers is the length of the longest list of servers. *)
LEMMA MaxServersBounds ==
  MaxServers \in Nat /\ \A l \in Lists \cup {<< >>} : Len(l) \in Nat /\ Len(l) <= MaxServers
<1> DEFINE lengths == {Len(l) : l \in Lists}
<1>1. \A l \in Lists : Len(l) \in Nat
  BY ParallelAssumption
<1>2. PICK longest \in Lists : \A l \in Lists : Len(l) <= Len(longest)
  BY ParallelAssumption
<1>3. \E n \in lengths : \A m \in lengths : m <= n
  BY <1>1, <1>2
<1>4. MaxServers \in lengths /\ \A m \in lengths : m <= MaxServers
  BY <1>3 DEF MaxServers
<1>5. Len(<< >>) = 0
  OBVIOUS
<1> QED BY <1>1, <1>4, <1>5

(* A worker is a call and a number of a server. *)
LEMMA WorkerParts ==
  ASSUME NEW w \in Workers
  PROVE  /\ w[1] \in Calls /\ w[1] \in Nat /\ w[1] > 0
         /\ w[2] \in Nat /\ w[2] \in 1 .. MaxServers
         /\ w = <<w[1], w[2]>>
  BY ParallelAssumption, MaxServersBounds DEF Workers, Calls

(* No stream is a worker. *)
LEMMA NoneIsNoWorker ==
  ASSUME Typed
  PROVE  \A w \in Workers : w[2] <= Len(list[w[1]]) => w # None
<1> SUFFICES ASSUME NEW w \in Workers, w[2] <= Len(list[w[1]])
             PROVE  w # None
  OBVIOUS
<1>1. list[w[1]] \in Lists \cup {<< >>}
  BY WorkerParts DEF Typed
<1>2. CASE list[w[1]] = << >>
  BY <1>2, WorkerParts
<1>3. CASE list[w[1]] \in Lists
  <2>1. w[2] \in DOMAIN list[w[1]]
    BY <1>3, WorkerParts, ParallelAssumption
  <2>2. w \in Nat \X DOMAIN list[w[1]]
    BY <2>1, WorkerParts
  <2> QED BY <1>3, <2>2, ParallelAssumption
<1> QED BY <1>1, <1>2, <1>3

(* the bounds of the model *)
LEMMA BoundsAreNumbers ==
  MaxCalls \in Nat /\ MaxSpurious \in Nat /\ \A t \in Timeouts : t \in BOOLEAN
  BY ParallelAssumption

(* What the tuples of variables that a step leaves alone stand for *)
LEMMA CallerFrame ==
  ASSUME UNCHANGED callerVars
  PROVE  /\ pc' = pc /\ call' = call /\ list' = list /\ timed' = timed
         /\ expired' = expired /\ next' = next /\ num' = num /\ spurious' = spurious
  BY DEF callerVars

(* the same for the result of every call *)
LEMMA ResultFrame ==
  ASSUME UNCHANGED resultVars
  PROVE  stream' = stream /\ count' = count /\ done' = done /\ returned' = returned
  BY DEF resultVars

-----------------------------------------------------------------------------
(* The steps of the calling thread that move it along, and nothing else *)
Quiet ==
  LockResult \/ Test \/ Block \/ Expire \/ WakeOnTimeout \/ SpuriousWakeup \/ Relock

(* They leave the list, the workers and the results alone. *)
LEMMA QuietFrame ==
  ASSUME Quiet
  PROVE  /\ call' = call /\ list' = list /\ next' = next /\ num' = num /\ active' = active
         /\ wpc' = wpc /\ sock' = sock /\ stream' = stream /\ count' = count
         /\ done' = done /\ returned' = returned
  BY ResultFrame, CallerFrame DEF Quiet, LockResult, Test, Block, Expire, WakeOnTimeout,
                                  SpuriousWakeup, Relock

(* A worker moves on by itself, and it leaves the caller where it is. *)
LEMMA WorkerFrame ==
  ASSUME Typed, NEW w \in Started, Worker(w)
  PROVE  /\ w \in Workers /\ w[1] \in Calls
         /\ pc' = pc /\ call' = call /\ list' = list /\ timed' = timed
         /\ expired' = expired /\ next' = next /\ num' = num /\ spurious' = spurious
         /\ returned' = returned
         /\ Started' = Started
         /\ \A v \in Workers : v # w => wpc'[v] = wpc[v]
         /\ wpc'[w] # "none"
<1>1. w \in Workers /\ w[1] \in Calls
  BY WorkerParts DEF Started
<1>2. UNCHANGED callerVars
  BY DEF Worker, Start, Insert, Connect, Erase, Publish, Count, NotifyAll, Finish
<1>3. returned' = returned
  BY ResultFrame DEF Worker, Start, Insert, Connect, Erase, Publish, Count, NotifyAll, Finish
<1>4. PICK label \in Labels \ {"none"} : GoTo(w, label)
  BY DEF Worker, Start, Insert, Connect, Erase, Publish, Count, NotifyAll, Finish, Labels
<1>5. wpc'[w] # "none" /\ \A v \in Workers : v # w => wpc'[v] = wpc[v]
  BY <1>1, <1>4 DEF GoTo, Typed
<1>6. Started' = Started
  BY <1>5 DEF Started
<1> QED BY <1>1, <1>2, <1>3, <1>5, <1>6, CallerFrame

(* The worker that a loop at next would start is a worker. *)
LEMMA NextWorker ==
  ASSUME Typed, Loop, pc = "spawn", next <= Len(list[call])
  PROVE  /\ call \in Calls /\ <<call, next>> \in Workers
         /\ list[call] \in Lists /\ next \in 1 .. MaxServers
<1>1. call \in Calls
  BY ParallelAssumption DEF Typed, Loop, Calls
<1>2. list[call] \in Lists
  <2>1. list[call] \in Lists \cup {<< >>}
    BY <1>1 DEF Typed
  <2> QED BY <2>1 DEF Typed
<1>3. next \in 1 .. MaxServers
  BY <1>2, MaxServersBounds DEF Typed
<1> QED BY <1>1, <1>2, <1>3 DEF Workers

(* Every variable keeps its type. *)
LEMMA TypedStep ==
  ASSUME Typed, Loop, Holding, [Next]_vars
  PROVE  Typed'
<1> USE BoundsAreNumbers, CallerFrame, ResultFrame
<1>0. ASSUME NEW k \in Calls, NEW shared, Release(k, shared)
      PROVE  stream' \in [Calls -> {None} \cup Workers] /\ sock' \in [Workers -> Sockets]
  BY <1>0 DEF Release, Typed, Sockets
<1>a. ASSUME NEW w, NEW label \in Labels, GoTo(w, label)
      PROVE  wpc' \in [Workers -> Labels]
  BY <1>a DEF GoTo, Typed
<1>b. {"start", "insert", "connect", "erase", "publish", "count", "notify", "finish", "end"}
        \subseteq Labels
  BY DEF Labels
<1>1. ASSUME Begin
      PROVE  Typed'
  <2>1. PICK l \in Lists, t \in Timeouts :
          /\ list' = [list EXCEPT ![call + 1] = l]
          /\ timed' = t
          /\ pc' = IF l = << >> THEN "idle" ELSE "spawn"
    BY <1>1 DEF Begin
  <2>2. list' \in [Calls -> Lists \cup {<< >>}]
    BY <2>1 DEF Typed
  <2>3. timed' \in BOOLEAN
    BY <2>1
  <2>4. call' \in 0 .. MaxCalls /\ pc' \in {"idle", "spawn"} /\ next' \in Nat \ {0} /\ num' \in Nat
    BY <1>1, <2>1 DEF Begin, Typed
  <2>5. expired' \in BOOLEAN
    BY <1>1 DEF Begin
  <2> QED BY <1>1, <2>2, <2>3, <2>4, <2>5 DEF Begin, Typed
<1>2. ASSUME Skip
      PROVE  Typed'
  BY <1>2 DEF Skip, Typed
<1>3. ASSUME Spawn
      PROVE  Typed'
  <2>1. wpc' \in [Workers -> Labels]
    BY <1>3, <1>b, <1>a DEF Spawn, GoTo
  <2> QED BY <1>3, <2>1 DEF Spawn, Typed
<1>4. ASSUME SpawnFails
      PROVE  Typed'
  <2>1. call \in Calls
    BY <1>4, NextWorker DEF SpawnFails
  <2>2. stream' \in [Calls -> {None} \cup Workers] /\ sock' \in [Workers -> Sockets]
    BY <1>0, <1>4, <2>1 DEF SpawnFails
  <2> QED BY <1>4, <2>2 DEF SpawnFails, Typed
<1>5. ASSUME Quiet
      PROVE  Typed'
  <2>1. ASSUME LockResult \/ Test \/ Relock
        PROVE  Typed'
    BY <2>1 DEF LockResult, Test, Relock, Typed
  <2>2. ASSUME Block \/ Expire
        PROVE  Typed'
    BY <2>2 DEF Block, Expire, Typed
  <2>3. ASSUME WakeOnTimeout
        PROVE  Typed'
    BY <2>3 DEF WakeOnTimeout, Typed
  <2>4. ASSUME SpuriousWakeup
        PROVE  Typed'
    <3>1. spurious' \in 0 .. MaxSpurious
      BY <2>4 DEF SpuriousWakeup, Typed
    <3>2. blocked' \in BOOLEAN
      BY <2>4 DEF SpuriousWakeup
    <3> QED BY <2>4, <3>1, <3>2 DEF SpuriousWakeup, Typed
  <2> QED BY <1>5, <2>1, <2>2, <2>3, <2>4 DEF Quiet
<1>6. ASSUME Return
      PROVE  Typed'
  <2>1. call \in Calls
    BY <1>6 DEF Return, Typed, Loop, Calls
  <2>2. /\ stream' \in [Calls -> {None} \cup Workers]
        /\ returned' \in [Calls -> {None} \cup Workers]
    BY <1>6, <2>1 DEF Return, Typed
  <2> QED BY <1>6, <2>2 DEF Return, Typed
<1>7. ASSUME NEW w \in Started, Worker(w)
      PROVE  Typed'
  <2> w \in Workers /\ w[1] \in Calls
    BY WorkerParts DEF Started
  <2>1. wpc' \in [Workers -> Labels]
    BY <1>7, <1>a, <1>b DEF Worker, Start, Insert, Connect, Erase, Publish, Count,
                            NotifyAll, Finish
  <2>2. ASSUME Start(w) \/ Insert(w) \/ Erase(w)
        PROVE  Typed'
    BY <2>1, <2>2 DEF Start, Insert, Erase, Typed
  <2>3. ASSUME Connect(w)
        PROVE  Typed'
    <3>1. sock' \in [Workers -> Sockets]
      BY <2>3 DEF Connect, Typed, Sockets
    <3> QED BY <2>1, <2>3, <3>1 DEF Connect, Typed
  <2>4. ASSUME Publish(w)
        PROVE  Typed'
    <3>1. /\ stream' \in [Calls -> {None} \cup Workers] /\ sock' \in [Workers -> Sockets]
          /\ done' \in [Calls -> BOOLEAN]
      BY <2>4 DEF Publish, Typed, Sockets
    <3> QED BY <2>1, <2>4, <3>1 DEF Publish, Typed
  <2>5. ASSUME Count(w)
        PROVE  Typed'
    <3>1. count' \in [Calls -> Nat]
      BY <2>5 DEF Count, Typed
    <3> QED BY <2>1, <2>5, <3>1 DEF Count, Typed
  <2>6. ASSUME NotifyAll(w)
        PROVE  Typed'
    <3>1. blocked' \in BOOLEAN
      BY <2>6, Zenon DEF NotifyAll
    <3> QED BY <2>1, <2>6, <3>1 DEF NotifyAll, Typed
  <2>7. ASSUME Finish(w)
        PROVE  Typed'
    <3>1. stream' \in [Calls -> {None} \cup Workers] /\ sock' \in [Workers -> Sockets]
      BY <1>0, <2>7 DEF Finish
    <3> QED BY <2>1, <2>7, <3>1 DEF Finish, Typed
  <2> QED BY <1>7, <2>2, <2>3, <2>4, <2>5, <2>6, <2>7 DEF Worker
<1>8. ASSUME UNCHANGED vars
      PROVE  Typed'
  BY <1>8, CallerFrame, ResultFrame DEF vars, Typed
<1> QED BY <1>1, <1>2, <1>3, <1>4, <1>5, <1>6, <1>7, <1>8 DEF Next, Caller, Quiet

(* The workers that exist are those of the servers the loop has passed. *)
LEMMA LoopStep ==
  ASSUME Typed, Loop, [Next]_vars
  PROVE  Loop'
<1>1. ASSUME Begin
      PROVE  Loop'
  <2>1. PICK l \in Lists : /\ list' = [list EXCEPT ![call + 1] = l]
                           /\ pc' = IF l = << >> THEN "idle" ELSE "spawn"
    BY <1>1 DEF Begin
  <2>2. /\ call + 1 \in Calls /\ call' = call + 1 /\ next' = 1 /\ wpc' = wpc
        /\ pc' \in {"idle", "spawn"}
    BY <1>1, <2>1, BoundsAreNumbers DEF Begin, Typed, Calls
  <2>3. list'[call'] \in Lists /\ Len(list'[call']) \in Nat
    BY <2>1, <2>2, MaxServersBounds DEF Typed
  <2>4. ASSUME NEW w \in Started'
        PROVE  w[1] <= call /\ w[2] <= Len(list'[w[1]]) /\ w[1] # call'
    <3>1. w \in Started /\ w \in Workers /\ w[1] \in Calls /\ w[1] <= call
      BY <2>2, WorkerParts DEF Started, Loop
    <3> QED BY <2>1, <2>2, <3>1, WorkerParts DEF Loop, Typed
  <2> QED BY <2>2, <2>3, <2>4, WorkerParts DEF Loop, Typed, Started
<1>2. ASSUME Skip
      PROVE  Loop'
  <2>1. /\ pc = "spawn" /\ next <= Len(list[call]) /\ next' = next + 1
        /\ UNCHANGED <<pc, call, list, wpc>>
    BY <1>2 DEF Skip
  <2>2. list[call] \in Lists /\ Len(list[call]) \in Nat
    BY <2>1, NextWorker, MaxServersBounds
  <2>3. \A w \in Started : w[1] \in Nat /\ w[2] \in Nat
    BY WorkerParts DEF Started
  <2>4. Started' = Started
    BY <2>1 DEF Started
  <2> QED BY <2>1, <2>2, <2>3, <2>4 DEF Loop, Typed
<1>3. ASSUME Spawn
      PROVE  Loop'
  <2>1. /\ pc = "spawn" /\ next <= Len(list[call]) /\ next' = next + 1
        /\ UNCHANGED <<pc, call, list>>
        /\ wpc' = [wpc EXCEPT ![<<call, next>>] = "start"]
    BY <1>3 DEF Spawn
  <2>2. list[call] \in Lists /\ Len(list[call]) \in Nat
    BY <2>1, NextWorker, MaxServersBounds
  <2>3. \A w \in Started : w[1] \in Nat /\ w[2] \in Nat
    BY WorkerParts DEF Started
  <2>4. Started' = Started \cup {<<call, next>>}
    BY <2>1, NextWorker DEF Started, Typed
  <2> QED BY <2>1, <2>2, <2>3, <2>4 DEF Loop, Typed
<1>4. ASSUME SpawnFails \/ Return
      PROVE  Loop'
  <2>1. pc # "idle" /\ pc' = "idle" /\ UNCHANGED <<call, list, next, wpc>>
    BY <1>4 DEF SpawnFails, Return
  <2>2. Started' = Started
    BY <2>1 DEF Started
  <2> QED BY <2>1, <2>2 DEF Loop
<1>5. ASSUME Quiet
      PROVE  Loop'
  <2>1. Started' = Started
    BY <1>5, QuietFrame DEF Started
  <2>2. /\ pc' # "idle" => pc # "idle"
        /\ pc' \notin {"idle", "spawn"} => pc \notin {"idle", "spawn"} \/ next > Len(list[call])
    BY <1>5, CallerFrame DEF Quiet, LockResult, Test, Block, Expire, WakeOnTimeout,
                             SpuriousWakeup, Relock
  <2> QED BY <1>5, <2>1, <2>2, QuietFrame DEF Loop
<1>6. ASSUME NEW w \in Started, Worker(w)
      PROVE  Loop'
  BY <1>6, WorkerFrame DEF Loop
<1>7. ASSUME UNCHANGED vars
      PROVE  Loop'
  <2>1. Started' = Started
    BY <1>7 DEF vars, Started
  <2> QED BY <1>7, <2>1, CallerFrame DEF vars, Loop
<1> QED BY <1>1, <1>2, <1>3, <1>4, <1>5, <1>6, <1>7 DEF Next, Caller, Quiet

-----------------------------------------------------------------------------
(* Both sets of server numbers are finite. *)
LEMMA TalliesFinite ==
  ASSUME NEW k
  PROVE  /\ IsFiniteSet(StartedOf(k)) /\ Cardinality(StartedOf(k)) \in Nat
         /\ IsFiniteSet(CountedOf(k)) /\ Cardinality(CountedOf(k)) \in Nat
         /\ CountedOf(k) \subseteq StartedOf(k)
<1>1. IsFiniteSet(1 .. MaxServers)
  BY FS_Interval, MaxServersBounds
<1>2. StartedOf(k) \in SUBSET (1 .. MaxServers) /\ CountedOf(k) \in SUBSET (1 .. MaxServers)
  BY DEF StartedOf, CountedOf
<1>3. IsFiniteSet(StartedOf(k)) /\ IsFiniteSet(CountedOf(k))
  BY <1>1, <1>2, FS_Subset
<1>4. CountedOf(k) \subseteq StartedOf(k)
  BY DEF StartedOf, CountedOf
<1> QED BY <1>3, <1>4, FS_CardinalityType

(* What a worker is counted under is its own call and number. *)
LEMMA SameTally ==
  ASSUME wpc' = wpc
  PROVE  \A k \in Calls : StartedOf(k)' = StartedOf(k) /\ CountedOf(k)' = CountedOf(k)
  BY DEF StartedOf, CountedOf

(* count and num are what they are taken to be. *)
LEMMA TallyStep ==
  ASSUME Typed, Loop, Tally, Waiting, [Next]_vars
  PROVE  Tally'
<1>1. ASSUME Begin
      PROVE  Tally'
  <2>1. PICK l \in Lists : /\ list' = [list EXCEPT ![call + 1] = l]
                           /\ pc' = IF l = << >> THEN "idle" ELSE "spawn"
    BY <1>1 DEF Begin
  <2>2. /\ call + 1 \in Calls /\ call' = call + 1 /\ next' = 1 /\ num' = 0
        /\ UNCHANGED <<wpc, count>>
    BY <1>1, BoundsAreNumbers, ResultFrame DEF Begin, Typed, Calls
  <2>3. StartedOf(call)' = {}
    <3>1. ASSUME NEW i \in 1 .. MaxServers, wpc'[<<call', i>>] # "none"
          PROVE  FALSE
      <4>1. <<call + 1, i>> \in Started
        BY <2>2, <3>1 DEF Started, Workers
      <4>2. <<call + 1, i>>[1] <= call
        BY <4>1 DEF Loop
      <4> QED BY <4>2 DEF Typed
    <3> QED BY <3>1 DEF StartedOf
  <2>4. ~Threw'
    <3>1. list'[call'] = l
      BY <2>1, <2>2 DEF Typed
    <3>2. l = << >> => Len(l) = 0
      OBVIOUS
    <3>3. CASE l = << >>
      BY <2>2, <3>1, <3>2, <3>3 DEF Threw
    <3>4. CASE l # << >>
      BY <2>1, <3>4 DEF Threw
    <3> QED BY <3>3, <3>4
  <2>5. Cardinality(StartedOf(call)') = 0
    BY <2>3, FS_EmptySet
  <2>6. call' > 0
    BY <2>2 DEF Typed
  <2> QED BY <2>2, <2>4, <2>5, <2>6, SameTally DEF Tally
<1>2. ASSUME Skip
      PROVE  Tally'
  <2>1. pc = "spawn" /\ UNCHANGED <<pc, call, num, wpc, count>>
    BY <1>2, ResultFrame DEF Skip
  <2>2. ~Threw /\ ~Threw' /\ (call > 0 => call \in Calls)
    BY <2>1 DEF Threw, Typed, Calls
  <2> QED BY <2>1, <2>2, SameTally DEF Tally
<1>3. ASSUME Spawn
      PROVE  Tally'
  <2>1. /\ pc = "spawn" /\ next <= Len(list[call]) /\ num' = num + 1
        /\ UNCHANGED <<pc, call, list, count>>
        /\ wpc' = [wpc EXCEPT ![<<call, next>>] = "start"]
    BY <1>3, ResultFrame DEF Spawn
  <2>2. ~Threw /\ ~Threw' /\ call > 0
    BY <2>1 DEF Threw, Loop
  <2>3. wpc[<<call, next>>] = "none"
    BY <2>1, NextWorker DEF Loop, Started, Typed
  <2>4. StartedOf(call)' = StartedOf(call) \cup {next} /\ next \notin StartedOf(call)
    BY <2>1, <2>3, NextWorker DEF StartedOf, Typed, Workers
  <2>5. Cardinality(StartedOf(call)') = Cardinality(StartedOf(call)) + 1
    BY <2>4, FS_AddElement, TalliesFinite
  <2>6. \A k \in Calls : CountedOf(k)' = CountedOf(k)
    BY <2>1, <2>3, NextWorker DEF CountedOf, Typed, Workers
  <2> QED BY <2>1, <2>2, <2>5, <2>6, TalliesFinite DEF Tally
<1>4. ASSUME SpawnFails
      PROVE  Tally'
  <2>1. /\ pc = "spawn" /\ pc' = "idle" /\ next <= Len(list[call]) /\ num' = num + 1
        /\ UNCHANGED <<call, list, next, wpc, count>>
    BY <1>4 DEF SpawnFails
  <2>2. ~Threw /\ Threw' /\ call > 0 /\ call \in Calls
    BY <2>1, NextWorker DEF Threw, Loop
  <2> QED BY <2>1, <2>2, SameTally, TalliesFinite DEF Tally
<1>5. ASSUME Quiet \/ Return
      PROVE  Tally'
  <2>1. pc # "idle" /\ UNCHANGED <<call, num, list, next, wpc, count>>
    BY <1>5, QuietFrame, CallerFrame DEF Quiet, LockResult, Test, Block, Expire,
              WakeOnTimeout, SpuriousWakeup, Relock, Return, Waiting
  <2>2. ~Threw /\ ~Threw'
    BY <1>5, <2>1, CallerFrame DEF Threw, Loop, Typed, Quiet, LockResult, Test, Block, Expire,
              WakeOnTimeout, SpuriousWakeup, Relock, Return
  <2>3. call \in Calls
    BY <2>1 DEF Loop, Typed, Calls
  <2> QED BY <2>1, <2>2, <2>3, SameTally DEF Tally
<1>6. ASSUME NEW w \in Started, Worker(w)
      PROVE  Tally'
  <2>1. Threw' = Threw /\ num' = num /\ call' = call
    BY <1>6, WorkerFrame DEF Threw
  <2>2. \A k \in Calls : StartedOf(k)' = StartedOf(k)
    BY <1>6, WorkerFrame DEF StartedOf, Started, Workers
  <2>3. call > 0 => call \in Calls
    BY DEF Typed, Calls
  <2>4. CASE Count(w)
    <3>1. /\ count' = [count EXCEPT ![w[1]] = @ + 1]
          /\ wpc[w] = "count" /\ wpc' = [wpc EXCEPT ![w] = "notify"]
      BY <2>4 DEF Count, GoTo
    <3>2. w \in Workers /\ w = <<w[1], w[2]>> /\ w[1] \in Calls /\ w[2] \in 1 .. MaxServers
      BY WorkerParts DEF Started
    <3>3. CountedOf(w[1])' = CountedOf(w[1]) \cup {w[2]} /\ w[2] \notin CountedOf(w[1])
      <4>1. \A i \in 1 .. MaxServers : /\ <<w[1], i>> \in Workers
                                       /\ <<w[1], i>> = w <=> i = w[2]
        BY <3>2 DEF Workers
      <4>2. \A i \in 1 .. MaxServers :
              wpc'[<<w[1], i>>] = IF i = w[2] THEN "notify" ELSE wpc[<<w[1], i>>]
        BY <3>1, <4>1 DEF Typed
      <4> QED BY <3>1, <3>2, <4>2 DEF CountedOf
    <3>4. Cardinality(CountedOf(w[1])') = Cardinality(CountedOf(w[1])) + 1
      BY <3>3, FS_AddElement, TalliesFinite
    <3>5. ASSUME NEW k \in Calls, k # w[1]
          PROVE  CountedOf(k)' = CountedOf(k)
      <4>1. \A i \in 1 .. MaxServers : wpc'[<<k, i>>] = wpc[<<k, i>>]
        BY <3>1, <3>2, <3>5 DEF Typed, Workers
      <4> QED BY <4>1 DEF CountedOf
    <3> QED BY <2>1, <2>2, <2>3, <3>1, <3>2, <3>4, <3>5 DEF Tally, Typed
  <2>5. CASE ~Count(w)
    <3>1. count' = count
      BY <1>6, <2>5, ResultFrame DEF Worker, Start, Insert, Connect, Erase, Publish,
                                     NotifyAll, Finish
    <3>2. wpc'[w] \in {"notify", "finish", "end"} <=> wpc[w] \in {"notify", "finish", "end"}
      BY <1>6, <2>5, WorkerFrame DEF Worker, Start, Insert, Connect, Erase, Publish,
                                     NotifyAll, Finish, GoTo, Typed
    <3>3. \A k \in Calls : CountedOf(k)' = CountedOf(k)
      BY <1>6, <3>2, WorkerFrame DEF CountedOf, Workers
    <3> QED BY <2>1, <2>2, <2>3, <3>1, <3>3 DEF Tally
  <2> QED BY <2>4, <2>5
<1>7. ASSUME UNCHANGED vars
      PROVE  Tally'
  <2>1. UNCHANGED <<pc, call, list, next, num, wpc, count>>
    BY <1>7, CallerFrame, ResultFrame DEF vars
  <2> QED BY <2>1 DEF Tally, Threw, StartedOf, CountedOf
<1> QED BY <1>1, <1>2, <1>3, <1>4, <1>5, <1>6, <1>7 DEF Next, Caller, Quiet

-----------------------------------------------------------------------------
(* Giving up the last reference to a result closes at most the stream that *)
(* result holds.                                                           *)
LEMMA ReleaseCloses ==
  ASSUME Typed, Holding, NEW k \in Calls, NEW shared, Release(k, shared)
  PROVE  \A w \in Workers : sock'[w] # sock[w] =>
           /\ ~shared /\ w = stream[k] /\ w[1] = k
           /\ Settled(w) /\ sock[w] = "open" /\ sock'[w] = "closed"
           /\ stream' = [stream EXCEPT ![k] = None]
  BY DEF Release, Typed, Holding, ResultHolds

(* At each label a worker's socket is in the state the code left it in. *)
LEMMA StagesStep ==
  ASSUME Typed, Loop, Stages, Holding, [Next]_vars
  PROVE  Stages'
<1>1. ASSUME Begin \/ Skip \/ Quiet \/ Return \/ UNCHANGED vars
      PROVE  Stages'
  <2>1. UNCHANGED <<wpc, sock, done>>
    BY <1>1, QuietFrame, ResultFrame DEF Begin, Skip, Return, vars
  <2> QED BY <2>1 DEF Stages, Settled
<1>2. ASSUME Spawn
      PROVE  Stages'
  <2>1. /\ wpc' = [wpc EXCEPT ![<<call, next>>] = "start"] /\ UNCHANGED <<sock, done>>
        /\ pc = "spawn" /\ next <= Len(list[call])
    BY <1>2, ResultFrame DEF Spawn
  <2>2. wpc[<<call, next>>] = "none" /\ <<call, next>> \in Workers
    BY <2>1, NextWorker DEF Loop, Started, Typed
  <2>3. \A w \in Workers : w = <<call, next>> \/ wpc'[w] = wpc[w]
    BY <2>1, <2>2 DEF Typed
  <2> QED BY <2>1, <2>2, <2>3 DEF Stages, Settled, Typed
<1>3. ASSUME SpawnFails
      PROVE  Stages'
  <2>1. call \in Calls /\ UNCHANGED <<wpc, done>>
    BY <1>3, NextWorker DEF SpawnFails
  <2>2. \A w \in Workers : sock'[w] # sock[w] =>
          Settled(w) /\ sock[w] = "open" /\ sock'[w] = "closed"
    BY <1>3, <2>1, ReleaseCloses DEF SpawnFails
  <2> QED BY <2>1, <2>2 DEF Stages, Settled
<1>4. ASSUME NEW w \in Started, Worker(w)
      PROVE  Stages'
  <2> w \in Workers /\ w[1] \in Calls
    BY <1>4, WorkerFrame
  <2>0. \A v \in Workers : v # w => wpc'[v] = wpc[v]
    BY <1>4, WorkerFrame
  <2>1. ASSUME Start(w) \/ Insert(w) \/ Erase(w)
        PROVE  Stages'
    <3>1. UNCHANGED <<sock, done>>
      BY <2>1, ResultFrame DEF Start, Insert, Erase
    <3>2. \/ wpc[w] = "start" /\ wpc'[w] = (IF done[w[1]] THEN "count" ELSE "insert")
          \/ wpc[w] = "insert" /\ wpc'[w] = "connect"
          \/ wpc[w] = "erase" /\ wpc'[w] = (IF sock[w] = "open" THEN "publish" ELSE "count")
      BY <2>1 DEF Start, Insert, Erase, GoTo, Typed
    <3> QED BY <2>0, <3>1, <3>2 DEF Stages, Settled
  <2>2. ASSUME Connect(w)
        PROVE  Stages'
    <3>1. /\ wpc'[w] = "erase" /\ sock'[w] \in {"open", "failed"} /\ done' = done
          /\ \A v \in Workers : v # w => sock'[v] = sock[v]
      BY <2>2, ResultFrame DEF Connect, GoTo, Typed
    <3> QED BY <2>0, <3>1 DEF Stages, Settled
  <2>3. ASSUME Publish(w)
        PROVE  Stages'
    <3>1. /\ wpc'[w] = "count" /\ done'[w[1]] = TRUE
          /\ \A k \in Calls : k # w[1] => done'[k] = done[k]
          /\ \A v \in Workers : v # w => sock'[v] = sock[v]
      BY <2>3 DEF Publish, GoTo, Typed
    <3>2. \A v \in Workers : v[1] \in Calls
      BY WorkerParts
    <3> QED BY <2>0, <3>1, <3>2 DEF Stages, Settled
  <2>4. ASSUME Count(w) \/ NotifyAll(w) \/ Finish(w)
        PROVE  Stages'
    <3>1. done' = done
      BY <2>4, ResultFrame DEF Count, NotifyAll, Finish
    <3>2. Settled(w) /\ wpc'[w] \in {"notify", "finish", "end"}
      BY <2>4 DEF Count, NotifyAll, Finish, GoTo, Settled, Typed
    <3>3. \A v \in Workers : sock'[v] # sock[v] =>
            Settled(v) /\ sock[v] = "open" /\ sock'[v] = "closed"
      BY <2>4, ReleaseCloses DEF Count, NotifyAll, Finish
    <3>4. ASSUME NEW v \in Workers
          PROVE  /\ Settled(v)' <=> Settled(v)
                 /\ ~Settled(v) => wpc'[v] = wpc[v] /\ sock'[v] = sock[v]
                 /\ sock'[v] # "failed" => sock[v] # "failed"
      BY <2>0, <3>2, <3>3 DEF Settled
    <3> QED BY <3>1, <3>4 DEF Stages, Settled
  <2> QED BY <1>4, <2>1, <2>2, <2>3, <2>4 DEF Worker
<1> QED BY <1>1, <1>2, <1>3, <1>4 DEF Next, Caller, Quiet

(* A reference to the result of call k goes: its stream stays where it is  *)
(* as long as the result is shared, and is closed with it when it is not.  *)
LEMMA ReleaseHolding ==
  ASSUME Typed, Loop, Stages, Holding,
         NEW k \in Calls, NEW shared, Release(k, shared), UNCHANGED <<done, returned, call>>,
         \A w \in Workers : Settled(w) <=> Settled(w)',
         \A j \in Calls \ {k} : (call = j /\ pc # "idle") \/ (\E v \in Live : v[1] = j)
           => (call = j /\ pc' # "idle") \/ (\E v \in Live' : v[1] = j),
         shared => (call = k /\ pc' # "idle") \/ (\E v \in Live' : v[1] = k),
         pc' # "idle" => pc # "idle" /\ (call = k => shared)
  PROVE  Holding'
<1> USE DEF Holding
<1>a. pc # "idle" => call \in Calls
  BY DEF Loop, Typed, Calls
<1>b. \A w \in Workers : w[1] \in Calls
  BY WorkerParts
<1>1. \A w \in Workers : sock'[w] # sock[w] =>
        /\ ~shared /\ w = stream[k] /\ w[1] = k /\ sock[w] = "open" /\ sock'[w] = "closed"
  BY ReleaseCloses
<1>2. \A j \in Calls : stream'[j] = stream[j] \/ (j = k /\ ~shared /\ stream'[j] = None)
  BY DEF Release, Typed
<1>3. shared \/ stream'[k] = None
  BY DEF Release, Typed
<1>4. ASSUME NEW j \in Calls
      PROVE  ResultHolds(j)' /\ UserHolds(j)'
  <2>1. ResultHolds(j)'
    <3>1. CASE stream'[j] = None
      BY <3>1 DEF ResultHolds
    <3>2. CASE stream'[j] # None
      <4>1. stream'[j] = stream[j] /\ (j = k => shared)
        BY <1>2, <1>3, <3>2
      <4>2. /\ stream[j] \in Workers /\ stream[j][1] = j /\ Settled(stream[j])
            /\ sock[stream[j]] = "open" /\ returned[j] = None
            /\ (call = j /\ pc # "idle") \/ \E v \in Live : v[1] = j
        BY <3>2, <4>1 DEF ResultHolds
      <4>3. sock'[stream[j]] = "open"
        BY <1>1, <4>1, <4>2
      <4>4. (call = j /\ pc' # "idle") \/ \E v \in Live' : v[1] = j
        BY <4>1, <4>2
      <4>5. Settled(stream[j])'
        BY <4>1, <4>2 DEF Settled
      <4> QED BY <4>1, <4>2, <4>3, <4>4, <4>5 DEF ResultHolds, Settled
    <3> QED BY <3>1, <3>2
  <2>2. UserHolds(j)'
    <3>1. returned'[j] = returned[j]
      BY <1>4
    <3>2. ASSUME returned[j] # None
          PROVE  /\ returned[j] \in Workers /\ returned[j][1] = j
                 /\ Settled(returned[j])' /\ sock'[returned[j]] = "open"
      <4>1. /\ returned[j] \in Workers /\ returned[j][1] = j
            /\ Settled(returned[j]) /\ sock[returned[j]] = "open"
        BY <3>2 DEF UserHolds
      <4>2. returned[j] # stream[k] \/ stream[k] = None
        BY <3>2, <4>1 DEF ResultHolds
      <4>3. sock'[returned[j]] = "open"
        BY <1>1, <4>1, <4>2, <3>2
      <4>4. Settled(returned[j])'
        BY <4>1 DEF Settled
      <4> QED BY <4>1, <4>3, <4>4
    <3> QED BY <3>1, <3>2 DEF UserHolds, Settled
  <2> QED BY <2>1, <2>2
<1>5. ASSUME NEW w \in Workers
      PROVE  HandedOver(w)'
  <2> SUFFICES ASSUME Settled(w)', sock'[w] = "open"
               PROVE  stream'[w[1]] = w \/ returned'[w[1]] = w
    BY DEF HandedOver
  <2>1. Settled(w) /\ w # None
    BY NoneIsNoWorker DEF Settled, Started, Loop
  <2>2. sock[w] = "open" /\ ~(w = stream[k] /\ ~shared)
    BY <1>1, <2>1 DEF Release, Typed
  <2>3. stream[w[1]] = w \/ returned[w[1]] = w
    BY <2>1, <2>2 DEF HandedOver
  <2> QED BY <1>b, <1>2, <2>2, <2>3
<1>6. CallInProgress'
  BY <1>a, <1>2 DEF CallInProgress
<1> QED BY <1>4, <1>5, <1>6

(* An open stream has the holder it should have. *)
LEMMA HoldingStep ==
  ASSUME Typed, Loop, Stages, Holding, [Next]_vars
  PROVE  Holding'
<1> USE DEF Holding
<1>a. pc # "idle" => call \in Calls
  BY DEF Loop, Typed, Calls
<1>b. \A w \in Workers : w[1] \in Calls
  BY WorkerParts
<1>1. ASSUME Begin
      PROVE  Holding'
  <2>1. /\ pc = "idle" /\ call' = call + 1 /\ call + 1 \in Calls
        /\ UNCHANGED <<wpc, sock, stream, done, returned>>
    BY <1>1, BoundsAreNumbers, ResultFrame DEF Begin, Typed, Calls
  <2>2. Live' = Live
    BY <2>1 DEF Live, Started
  <2>3. (call + 1) > call /\ \A k \in Calls : k > call + 1 => k > call
    BY DEF Typed, Calls
  <2>4. ~done[call + 1]
    BY <2>1, <2>3 DEF CallInProgress
  <2>5. returned[call + 1] = None
    <3>1. ASSUME returned[call + 1] # None
          PROVE  FALSE
      <4>1. returned[call + 1] \in Started /\ returned[call + 1][1] = call + 1
        BY <2>1, <3>1 DEF UserHolds, Settled, Started
      <4> QED BY <2>3, <4>1 DEF Loop, Typed
    <3> QED BY <3>1
  <2>6. \A k \in Calls : ResultHolds(k)' /\ UserHolds(k)'
    BY <2>1, <2>2 DEF ResultHolds, UserHolds, Settled
  <2>7. \A w \in Workers : HandedOver(w)'
    BY <2>1 DEF HandedOver, Settled
  <2>8. CallInProgress'
    BY <2>1, <2>3, <2>4, <2>5 DEF CallInProgress
  <2> QED BY <2>6, <2>7, <2>8
<1>2. ASSUME Skip \/ Quiet \/ UNCHANGED vars
      PROVE  Holding'
  <2>1. UNCHANGED <<call, wpc, sock, stream, done, returned>> /\ (pc' # "idle" <=> pc # "idle")
    BY <1>2, QuietFrame, CallerFrame, ResultFrame DEF Skip, Quiet, LockResult, Test, Block, Expire,
              WakeOnTimeout, SpuriousWakeup, Relock, vars
  <2>2. Live' = Live
    BY <2>1 DEF Live, Started
  <2> QED BY <2>1, <2>2 DEF ResultHolds, UserHolds, HandedOver, CallInProgress, Settled
<1>3. ASSUME Spawn
      PROVE  Holding'
  <2>1. /\ wpc' = [wpc EXCEPT ![<<call, next>>] = "start"] /\ pc = "spawn"
        /\ next <= Len(list[call]) /\ UNCHANGED <<pc, call, sock, stream, done, returned>>
    BY <1>3, ResultFrame DEF Spawn
  <2>2. wpc[<<call, next>>] = "none" /\ <<call, next>> \in Workers
    BY <2>1, NextWorker DEF Loop, Started, Typed
  <2>3. \A w \in Workers : wpc'[w] = IF w = <<call, next>> THEN "start" ELSE wpc[w]
    BY <2>1, <2>2 DEF Typed
  <2>4. Live \subseteq Live'
    BY <2>3 DEF Live, Started
  <2>5. \A w \in Workers : Settled(w)' <=> Settled(w)
    BY <2>2, <2>3 DEF Settled
  <2>6. \A k \in Calls : ResultHolds(k)' /\ UserHolds(k)'
    BY <2>1, <2>4, <2>5 DEF ResultHolds, UserHolds, Settled
  <2> QED BY <2>1, <2>5, <2>6 DEF HandedOver, CallInProgress
<1>4. ASSUME SpawnFails
      PROVE  Holding'
  <2>1. /\ call \in Calls /\ pc' = "idle" /\ UNCHANGED <<wpc, done, returned, call>>
        /\ Release(call, \E v \in Live : v[1] = call)
    BY <1>4, NextWorker DEF SpawnFails
  <2>2. Live' = Live /\ \A w \in Workers : Settled(w) <=> Settled(w)'
    BY <2>1 DEF Live, Started, Settled
  <2> QED BY <2>1, <2>2, ReleaseHolding
<1>5. ASSUME Return
      PROVE  Holding'
  <2>1. /\ pc = "return" /\ pc' = "idle" /\ UNCHANGED <<wpc, sock, done, call>>
        /\ returned' = [returned EXCEPT ![call] = stream[call]]
        /\ stream' = [stream EXCEPT ![call] = None]
    BY <1>5 DEF Return
  <2>2. Live' = Live
    BY <2>1 DEF Live, Started
  <2>3. call \in Calls /\ returned[call] = None
    BY <1>a, <2>1 DEF CallInProgress
  <2>4. \A k \in Calls : /\ returned'[k] = IF k = call THEN stream[call] ELSE returned[k]
                         /\ stream'[k] = IF k = call THEN None ELSE stream[k]
    BY <2>1, <2>3 DEF Typed
  <2>5. \A k \in Calls : ResultHolds(k)'
    BY <2>1, <2>2, <2>4 DEF ResultHolds, Settled
  <2>6. \A k \in Calls : UserHolds(k)'
    BY <2>1, <2>4 DEF ResultHolds, UserHolds, Settled
  <2>9. \A w \in Workers : Settled(w) => w # None
    BY NoneIsNoWorker DEF Settled, Started, Loop
  <2>7. \A w \in Workers : HandedOver(w)'
    BY <1>b, <2>1, <2>3, <2>4, <2>9 DEF HandedOver, Settled, ResultHolds
  <2>8. CallInProgress'
    BY <2>1 DEF CallInProgress
  <2> QED BY <2>5, <2>6, <2>7, <2>8
<1>6. ASSUME NEW w \in Started, Worker(w)
      PROVE  Holding'
  <2>1. /\ w \in Workers /\ w[1] \in Calls
        /\ UNCHANGED <<pc, call, returned>>
        /\ \A v \in Workers : v # w => wpc'[v] = wpc[v]
    BY <1>6, WorkerFrame
  <2>2. ASSUME Start(w) \/ Insert(w) \/ Connect(w) \/ Erase(w) \/ Count(w) \/ NotifyAll(w)
        PROVE  Holding'
    <3>1. UNCHANGED <<stream, done>>
      BY <2>2, ResultFrame DEF Start, Insert, Connect, Erase, Count, NotifyAll
    <3>2. /\ Settled(w) => Settled(w)' /\ UNCHANGED sock
          /\ Settled(w)' => Settled(w) \/ sock'[w] # "open"
          /\ wpc'[w] \notin {"none", "end"}
      BY <2>1, <2>2 DEF Start, Insert, Connect, Erase, Count, NotifyAll, GoTo, Settled, Typed,
                        Stages
    <3>3. \A v \in Workers : v # w => sock'[v] = sock[v] /\ (Settled(v)' <=> Settled(v))
      BY <2>1, <2>2 DEF Start, Insert, Connect, Erase, Count, NotifyAll, Settled, Typed
    <3>4. Live \subseteq Live'
      BY <2>1, <3>2 DEF Live, Started
    <3>5. \A k \in Calls : ResultHolds(k)'
      BY <2>1, <3>1, <3>2, <3>3, <3>4 DEF ResultHolds, Settled
    <3>6. \A k \in Calls : UserHolds(k)'
      BY <2>1, <3>1, <3>2, <3>3 DEF UserHolds, Settled
    <3>7. \A v \in Workers : HandedOver(v)'
      BY <2>1, <3>1, <3>2, <3>3 DEF HandedOver
    <3>8. CallInProgress'
      BY <2>1, <3>1 DEF CallInProgress
    <3> QED BY <3>5, <3>6, <3>7, <3>8
  <2>3. ASSUME Publish(w)
        PROVE  Holding'
    <3>1. /\ sock[w] = "open" /\ ~Settled(w) /\ Settled(w)' /\ wpc'[w] \notin {"none", "end"}
      BY <2>1, <2>3 DEF Publish, GoTo, Settled, Typed, Stages
    <3>2. \A v \in Workers : v # w => (Settled(v)' <=> Settled(v))
      BY <2>1 DEF Settled
    <3>3. Live \subseteq Live' /\ w \in Live'
      BY <2>1, <3>1 DEF Live, Started
    <3>4. /\ done'[w[1]] = TRUE
          /\ \A k \in Calls : k # w[1] => done'[k] = done[k]
      BY <2>1, <2>3 DEF Publish, Typed
    <3>5. w[1] <= call
      BY DEF Loop
    <3>6. CASE done[w[1]]
      <4>1. stream' = stream /\ sock' = [sock EXCEPT ![w] = "closed"]
        BY <2>3, <3>6 DEF Publish
      <4>2. \A v \in Workers : sock'[v] = IF v = w THEN "closed" ELSE sock[v]
        BY <4>1 DEF Typed
      <4>3. \A k \in Calls : ResultHolds(k)'
        BY <2>1, <3>1, <3>2, <3>3, <4>1, <4>2 DEF ResultHolds, Settled
      <4>4. \A k \in Calls : UserHolds(k)'
        BY <2>1, <3>1, <3>2, <4>2 DEF UserHolds, Settled
      <4>5. \A v \in Workers : HandedOver(v)'
        BY <2>1, <3>2, <4>1, <4>2 DEF HandedOver
      <4>6. CallInProgress'
        BY <1>a, <2>1, <3>4, <3>6, <4>1 DEF CallInProgress
      <4> QED BY <4>3, <4>4, <4>5, <4>6
    <3>7. CASE ~done[w[1]]
      <4>1. sock' = sock /\ stream' = [stream EXCEPT ![w[1]] = w]
        BY <2>3, <3>7 DEF Publish
      <4>2. \A k \in Calls : stream'[k] = IF k = w[1] THEN w ELSE stream[k]
        BY <4>1 DEF Typed
      <4>3. stream[w[1]] = None
        <5>1. ASSUME stream[w[1]] # None
              PROVE  done[w[1]]
          BY <2>1, <5>1 DEF ResultHolds, Stages
        <5> QED BY <3>7, <5>1
      <4>4. returned[w[1]] = None
        <5>1. ASSUME returned[w[1]] # None
              PROVE  done[w[1]]
          BY <2>1, <5>1 DEF UserHolds, Stages
        <5> QED BY <3>7, <5>1
      <4>5. w # None
        BY <2>1, NoneIsNoWorker DEF Loop
      <4>6. \A k \in Calls : ResultHolds(k)'
        BY <2>1, <3>1, <3>2, <3>3, <4>1, <4>2, <4>4 DEF ResultHolds, Settled
      <4>7. \A k \in Calls : UserHolds(k)'
        BY <2>1, <3>1, <3>2, <4>1 DEF UserHolds, Settled
      <4>8. \A v \in Workers : Settled(v) => v # None
        BY NoneIsNoWorker DEF Settled, Started, Loop
      <4>9. \A v \in Workers : HandedOver(v)'
        BY <1>b, <2>1, <3>2, <4>1, <4>2, <4>3, <4>4, <4>8 DEF HandedOver
      <4>10. CallInProgress'
        BY <1>a, <2>1, <3>4, <3>5, <4>2, <4>5 DEF CallInProgress, Typed, Calls
      <4> QED BY <4>6, <4>7, <4>9, <4>10
    <3> QED BY <3>6, <3>7
  <2>4. ASSUME Finish(w)
        PROVE  Holding'
    <3>1. /\ UNCHANGED <<done, returned, call, pc>> /\ Release(w[1], SharedByOthers(w))
          /\ wpc[w] = "finish" /\ wpc'[w] = "end"
      BY <2>1, <2>4 DEF Finish, GoTo, Typed
    <3>2. \A v \in Workers : Settled(v) <=> Settled(v)'
      BY <2>1, <3>1 DEF Settled
    <3>3. Live' = Live \ {w}
      BY <2>1, <3>1 DEF Live, Started
    <3>4. SharedByOthers(w) => (call = w[1] /\ pc' # "idle") \/ (\E v \in Live' : v[1] = w[1])
      BY <3>1, <3>3 DEF SharedByOthers
    <3>5. pc' # "idle" => pc # "idle" /\ (call = w[1] => SharedByOthers(w))
      BY <3>1 DEF SharedByOthers
    <3>6. \A j \in Calls \ {w[1]} : (call = j /\ pc # "idle") \/ (\E v \in Live : v[1] = j)
               => (call = j /\ pc' # "idle") \/ (\E v \in Live' : v[1] = j)
      BY <3>1, <3>3
    <3> QED BY <2>1, <3>1, <3>2, <3>4, <3>5, <3>6, ReleaseHolding
  <2> QED BY <1>6, <2>2, <2>3, <2>4 DEF Worker
<1> QED BY <1>1, <1>2, <1>3, <1>4, <1>5, <1>6 DEF Next, Caller, Quiet

-----------------------------------------------------------------------------
(* A server in active is one a worker is connecting to. *)
LEMMA ActiveStep ==
  ASSUME Typed, Loop, ActiveEntriesLive, [Next]_vars
  PROVE  ActiveEntriesLive'
<1> USE DEF ActiveEntriesLive
<1>1. ASSUME active' = active,
             \A w \in Started : wpc[w] \in {"connect", "erase"} =>
               /\ w \in Started' /\ wpc'[w] \in {"connect", "erase"}
               /\ Server(w)' = Server(w)
      PROVE  ActiveEntriesLive'
  BY <1>1
<1>2. ASSUME Begin
      PROVE  ActiveEntriesLive'
  <2>1. PICK l \in Lists : list' = [list EXCEPT ![call + 1] = l]
    BY <1>2 DEF Begin
  <2>2. UNCHANGED <<active, wpc>>
    BY <1>2 DEF Begin
  <2>3. \A w \in Started : w[1] # call + 1 /\ w[1] \in Calls
    BY WorkerParts DEF Loop, Started, Typed
  <2>4. \A w \in Started : Server(w)' = Server(w)
    BY <2>1, <2>3 DEF Server, Typed
  <2>5. Started' = Started
    BY <2>2 DEF Started
  <2> QED BY <1>1, <2>2, <2>4, <2>5
<1>3. ASSUME Skip \/ SpawnFails \/ Quiet \/ Return \/ UNCHANGED vars
      PROVE  ActiveEntriesLive'
  <2>1. UNCHANGED <<active, wpc, list>>
    BY <1>3, QuietFrame, CallerFrame DEF Skip, SpawnFails, Return, vars
  <2> QED BY <1>1, <2>1 DEF Started, Server
<1>4. ASSUME Spawn
      PROVE  ActiveEntriesLive'
  <2>1. /\ wpc' = [wpc EXCEPT ![<<call, next>>] = "start"] /\ pc = "spawn"
        /\ next <= Len(list[call]) /\ UNCHANGED <<active, list>>
    BY <1>4 DEF Spawn
  <2>2. wpc[<<call, next>>] = "none" /\ <<call, next>> \in Workers
    BY <2>1, NextWorker DEF Loop, Started, Typed
  <2>3. \A w \in Started : w \in Started' /\ wpc'[w] = wpc[w] /\ Server(w)' = Server(w)
    BY <2>1, <2>2 DEF Started, Server, Typed
  <2> QED BY <1>1, <2>1, <2>3
<1>5. ASSUME NEW w \in Started, Worker(w)
      PROVE  ActiveEntriesLive'
  <2>1. /\ Started' = Started /\ w \in Workers
        /\ \A v \in Started : v # w => wpc'[v] = wpc[v]
        /\ \A v \in Started : Server(v)' = Server(v)
    BY <1>5, WorkerFrame DEF Server, Started
  <2>2. CASE Insert(w)
    <3>1. active' = active \cup {Server(w)} /\ wpc[w] = "insert" /\ wpc'[w] = "connect"
      BY <2>1, <2>2 DEF Insert, GoTo, Typed
    <3> QED BY <2>1, <3>1
  <2>3. CASE Erase(w)
    <3>1. active' = active \ {Server(w)}
      BY <2>3 DEF Erase
    <3> QED BY <2>1, <3>1
  <2>4. CASE Connect(w)
    <3>1. active' = active /\ wpc'[w] = "erase"
      BY <2>1, <2>4 DEF Connect, GoTo, Typed
    <3> QED BY <1>1, <2>1, <3>1
  <2>5. CASE Start(w) \/ Publish(w) \/ Count(w) \/ NotifyAll(w) \/ Finish(w)
    <3>1. active' = active /\ wpc[w] \notin {"connect", "erase"}
      BY <2>5 DEF Start, Publish, Count, NotifyAll, Finish
    <3> QED BY <1>1, <2>1, <3>1
  <2> QED BY <1>5, <2>2, <2>3, <2>4, <2>5 DEF Worker
<1> QED BY <1>2, <1>3, <1>4, <1>5 DEF Next, Caller, Quiet

-----------------------------------------------------------------------------
(* When count has reached num and there is no stream, every worker of the  *)
(* call has come back with nothing: none is left that could still bring    *)
(* one.                                                                    *)
LEMMA CountedOut ==
  ASSUME Typed, Loop, Tally, Stages, Holding, pc # "idle",
         count[call] >= num, stream[call] = None
  PROVE  AllFailed
<1>1. call \in Calls /\ call > 0 /\ ~Threw
  BY DEF Loop, Typed, Calls, Threw
<1>2. num = Cardinality(StartedOf(call)) /\ count[call] = Cardinality(CountedOf(call))
  BY <1>1, TalliesFinite DEF Tally
<1>3. StartedOf(call) = CountedOf(call)
  BY <1>2, TalliesFinite, FS_Subset
<1>4. ASSUME NEW w \in Started, w[1] = call
      PROVE  Settled(w) /\ sock[w] = "failed"
  <2>1. w \in Workers /\ w = <<call, w[2]>> /\ w[2] \in 1 .. MaxServers /\ wpc[w] # "none"
    BY <1>4, WorkerParts DEF Started
  <2>2. w[2] \in StartedOf(call)
    BY <2>1 DEF StartedOf
  <2>3. Settled(w)
    BY <1>3, <2>1, <2>2 DEF CountedOf, Settled
  <2>4. ~done[call]
    BY DEF Holding, CallInProgress
  <2> QED BY <1>4, <2>1, <2>3, <2>4 DEF Stages
<1> QED BY <1>4 DEF AllFailed

(* It stays so, whatever the workers of this and other calls do. *)
LEMMA AllFailedStep ==
  ASSUME Typed, Holding, AllFailed, NEW w \in Started, Worker(w)
  PROVE  AllFailed'
<1>1. /\ Started' = Started /\ call' = call /\ w \in Workers /\ w[1] \in Calls
      /\ \A v \in Workers : v # w => wpc'[v] = wpc[v]
  BY WorkerFrame
<1>2. Settled(w) => Settled(w)'
  BY <1>1 DEF Worker, Start, Insert, Connect, Erase, Publish, Count, NotifyAll, Finish, GoTo,
              Settled, Typed
<1>3. ASSUME NEW v \in Workers, v[1] = call, Settled(v), sock[v] = "failed"
      PROVE  sock'[v] = "failed"
  <2>1. CASE Finish(w)
    BY <1>1, <1>3, <2>1, ReleaseCloses DEF Finish
  <2>2. CASE ~Finish(w)
    BY <1>1, <1>3, <2>2 DEF Worker, Start, Insert, Connect, Erase, Publish, Count, NotifyAll,
                            Settled, Typed
  <2> QED BY <2>1, <2>2
<1>4. Started \subseteq Workers
  BY DEF Started
<1> QED BY <1>1, <1>2, <1>3, <1>4 DEF AllFailed, Settled

(* What the caller has seen under result->mtx is still true. *)
LEMMA WaitingStep ==
  ASSUME Typed, Loop, Tally, Stages, Holding, Waiting, [Next]_vars
  PROVE  Waiting'
<1>a. pc # "idle" => call \in Calls /\ call > 0
  BY DEF Loop, Typed, Calls
<1>1. ASSUME Begin
      PROVE  Waiting'
  <2>1. PICK l \in Lists : pc' = IF l = << >> THEN "idle" ELSE "spawn"
    BY <1>1 DEF Begin
  <2>2. pc = "idle" /\ call' = call + 1 /\ UNCHANGED <<wpc, sock, blocked>>
    BY <1>1 DEF Begin
  <2>3. AllFailed'
    BY <2>2, WorkerParts DEF AllFailed, Started, Loop, Typed
  <2>4. ~blocked'
    BY <2>2 DEF Waiting
  <2> QED BY <2>1, <2>3, <2>4 DEF Waiting, SuccessIsAnnounced
<1>2. ASSUME Skip \/ Spawn
      PROVE  Waiting'
  <2>1. pc' = "spawn" /\ ~blocked'
    BY <1>2 DEF Skip, Spawn, Waiting
  <2> QED BY <2>1 DEF Waiting, SuccessIsAnnounced
<1>3. ASSUME SpawnFails
      PROVE  Waiting'
  <2>1. pc' = "idle" /\ ~blocked' /\ call' > 0 /\ next' <= Len(list'[call'])
    BY <1>3, <1>a DEF SpawnFails, Waiting
  <2> QED BY <2>1 DEF Waiting, SuccessIsAnnounced, Threw
<1>4. ASSUME LockResult \/ Block \/ Expire \/ WakeOnTimeout \/ SpuriousWakeup \/ Relock
      PROVE  Waiting'
  <2>1. UNCHANGED <<call, wpc, sock, stream, returned>>
    BY <1>4, QuietFrame DEF Quiet
  <2>2. /\ blocked' => pc' = "waiting" /\ (blocked \/ stream[call] = None)
        /\ pc' = "block" => pc = "block"
        /\ pc' = "return" => expired' \/ (pc = "return" /\ ~expired)
        /\ pc' # "idle"
    BY <1>4, CallerFrame DEF LockResult, Block, Expire, WakeOnTimeout, SpuriousWakeup, Relock,
                             Waiting
  <2>3. Started' = Started /\ (AllFailed => AllFailed')
    BY <2>1 DEF Started, AllFailed, Settled
  <2> QED BY <2>1, <2>2, <2>3 DEF Waiting, SuccessIsAnnounced
<1>5. ASSUME Test
      PROVE  Waiting'
  <2>1. /\ pc = "test" /\ pc' = (IF Answered THEN "return" ELSE "block") /\ ~blocked'
        /\ UNCHANGED <<call, wpc, sock, stream>>
    BY <1>5, ResultFrame DEF Test, Waiting
  <2>2. ASSUME Answered, stream[call] = None
        PROVE  AllFailed'
    <3>1. AllFailed
      BY <2>1, <2>2, CountedOut DEF Answered
    <3> QED BY <2>1, <3>1 DEF AllFailed, Started, Settled
  <2> QED BY <2>1, <2>2 DEF Waiting, SuccessIsAnnounced, Answered
<1>6. ASSUME Return
      PROVE  Waiting'
  <2>1. /\ pc = "return" /\ pc' = "idle" /\ ~blocked' /\ call \in Calls
        /\ returned' = [returned EXCEPT ![call] = stream[call]]
        /\ UNCHANGED <<call, wpc, sock, expired>>
    BY <1>6, <1>a DEF Return, Waiting
  <2>2. returned'[call'] = stream[call]
    BY <2>1 DEF Typed
  <2>3. AllFailed => AllFailed'
    BY <2>1 DEF AllFailed, Started, Settled
  <2> QED BY <2>1, <2>2, <2>3 DEF Waiting, SuccessIsAnnounced
<1>7. ASSUME NEW w \in Started, Worker(w)
      PROVE  Waiting'
  <2>1. /\ w \in Workers /\ w[1] \in Calls /\ Started' = Started
        /\ UNCHANGED <<pc, call, list, expired, next, returned>>
        /\ \A v \in Workers : v # w => wpc'[v] = wpc[v]
    BY <1>7, WorkerFrame
  <2>2. AllFailed => AllFailed'
    BY <1>7, AllFailedStep
  <2>3. blocked' => blocked /\ ~(NotifyAll(w) /\ call = w[1])
    BY <1>7 DEF Worker, Start, Insert, Connect, Erase, Publish, Count, NotifyAll, Finish
  <2>4. ASSUME pc # "idle", stream'[call] # stream[call]
        PROVE  Publish(w) /\ w[1] = call /\ pc \notin {"test", "block", "return"}
    <3>1. Publish(w) \/ Finish(w)
      BY <1>7, <2>4, ResultFrame DEF Worker, Start, Insert, Connect, Erase, Count, NotifyAll
    <3>2. CASE Publish(w)
      <4>1. stream' = stream \/ stream' = [stream EXCEPT ![w[1]] = w]
        BY <3>2 DEF Publish
      <4>2. w[1] = call
        BY <1>a, <2>4, <4>1 DEF Typed
      <4>3. ~CallerHoldsMutex(w[1])
        BY <3>2 DEF Publish
      <4> QED BY <3>2, <4>2, <4>3 DEF CallerHoldsMutex
    <3>3. CASE Finish(w)
      <4>1. Release(w[1], SharedByOthers(w))
        BY <3>3 DEF Finish
      <4>2. stream' = [stream EXCEPT ![w[1]] = None] /\ ~SharedByOthers(w)
        BY <2>4, <4>1 DEF Release
      <4>3. w[1] # call
        BY <2>4, <4>2 DEF SharedByOthers
      <4> QED BY <1>a, <2>4, <4>2, <4>3 DEF Typed
    <3> QED BY <3>1, <3>2, <3>3
  <2>5. SuccessIsAnnounced'
    <3> SUFFICES ASSUME blocked', stream'[call] # None
                 PROVE  \E v \in Started : v[1] = call /\ wpc'[v] \in {"count", "notify"}
      BY <2>1 DEF SuccessIsAnnounced
    <3>1. blocked /\ pc # "idle"
      BY <2>3 DEF Waiting
    <3>2. CASE stream'[call] = stream[call]
      <4>1. PICK v \in Started : v[1] = call /\ wpc[v] \in {"count", "notify"}
        BY <3>1, <3>2 DEF Waiting, SuccessIsAnnounced
      <4>2. CASE v # w
        BY <2>1, <4>1, <4>2 DEF Started
      <4>3. CASE v = w
        <5>1. Count(w)
          BY <1>7, <2>3, <4>1, <4>3 DEF Worker, Start, Insert, Connect, Erase, Publish, NotifyAll,
                                        Finish
        <5>2. wpc'[w] = "notify"
          BY <2>1, <5>1 DEF Count, GoTo, Typed
        <5> QED BY <4>1, <4>3, <5>2
      <4> QED BY <4>2, <4>3
    <3>3. CASE stream'[call] # stream[call]
      <4>1. Publish(w) /\ w[1] = call
        BY <2>4, <3>1, <3>3
      <4>2. wpc'[w] = "count"
        BY <2>1, <4>1 DEF Publish, GoTo, Typed
      <4> QED BY <4>1, <4>2
    <3> QED BY <3>2, <3>3
  <2>6. Threw' = Threw
    BY <2>1 DEF Threw
  <2> QED BY <2>1, <2>2, <2>3, <2>4, <2>5, <2>6 DEF Waiting
<1>8. ASSUME UNCHANGED vars
      PROVE  Waiting'
  <2>1. UNCHANGED <<pc, call, list, expired, next, blocked, wpc, sock, stream, returned>>
    BY <1>8, CallerFrame, ResultFrame DEF vars
  <2> QED BY <2>1 DEF Waiting, SuccessIsAnnounced, Threw, AllFailed, Started, Settled
<1> QED BY <1>1, <1>2, <1>3, <1>4, <1>5, <1>6, <1>7, <1>8 DEF Next, Caller

-----------------------------------------------------------------------------
(* Inv holds at the start. *)
LEMMA InvInit ==
  ASSUME Init
  PROVE  Inv
<1> USE DEF Init
<1>1. Typed
  <2>1. wpc \in [Workers -> Labels] /\ sock \in [Workers -> Sockets]
    BY DEF Labels, Sockets
  <2>2. /\ list \in [Calls -> Lists \cup {<< >>}] /\ stream \in [Calls -> {None} \cup Workers]
        /\ returned \in [Calls -> {None} \cup Workers]
        /\ count \in [Calls -> Nat] /\ done \in [Calls -> BOOLEAN]
    OBVIOUS
  <2>3. timed \in BOOLEAN /\ expired \in BOOLEAN /\ blocked \in BOOLEAN
    OBVIOUS
  <2>4. call \in 0 .. MaxCalls /\ next \in Nat \ {0} /\ num \in Nat /\ spurious \in 0 .. MaxSpurious
    BY BoundsAreNumbers
  <2> QED BY <2>1, <2>2, <2>3, <2>4 DEF Typed
<1>2. Started = {} /\ Live = {}
  BY DEF Started, Live
<1>3. \A k \in Calls : StartedOf(k) = {} /\ CountedOf(k) = {}
  BY DEF StartedOf, CountedOf, Workers
<1>4. Cardinality({}) = 0
  BY FS_EmptySet
<1>5. Loop
  BY <1>2 DEF Loop
<1>6. Tally
  <2>1. \A k \in Calls : count[k] = 0
    OBVIOUS
  <2>2. \A k \in Calls : count[k] = Cardinality(CountedOf(k))
    BY <1>3, <1>4, <2>1
  <2>3. num = 0 /\ call = 0 /\ ~(call > 0)
    OBVIOUS
  <2> QED BY <2>2, <2>3 DEF Tally
<1>7. Stages
  BY DEF Stages, Settled
<1>8. Holding
  BY DEF Holding, ResultHolds, UserHolds, HandedOver, CallInProgress, Settled
<1>9. Waiting
  BY DEF Waiting, SuccessIsAnnounced
<1>10. ActiveEntriesLive
  BY DEF ActiveEntriesLive
<1> QED BY <1>1, <1>5, <1>6, <1>7, <1>8, <1>9, <1>10 DEF Inv

(* Every step keeps Inv. *)
LEMMA InvStep ==
  ASSUME Inv, [Next]_vars
  PROVE  Inv'
<1> USE DEF Inv
<1>1. Typed'
  BY TypedStep
<1>2. Loop'
  BY LoopStep
<1>3. Tally'
  BY TallyStep
<1>4. Stages'
  BY StagesStep
<1>5. Holding'
  BY HoldingStep
<1>6. Waiting'
  BY WaitingStep
<1>7. ActiveEntriesLive'
  BY ActiveStep
<1> QED BY <1>1, <1>2, <1>3, <1>4, <1>5, <1>6, <1>7

(* Inv holds in every reachable state. *)
LEMMA Invariance ==
  Spec => []Inv
<1>1. Init => Inv
  BY InvInit
<1>2. Inv /\ [Next]_vars => Inv'
  BY InvStep
<1> QED BY <1>1, <1>2, PTL DEF Spec

(* Every variable keeps its type, num_workers never exceeds the servers of *)
(* a list, and result->count never exceeds those of its call.              *)
THEOREM ParallelTypes ==
  Spec => []TypeOK
<1>1. ASSUME Inv
      PROVE  TypeOK
  <2> USE <1>1 DEF Inv
  <2>1. next \in 1 .. MaxServers + 1
    <3>1. CASE call = 0
      BY <3>1, MaxServersBounds DEF Loop
    <3>2. CASE call > 0
      <4>1. list[call] \in Lists \cup {<< >>} /\ next <= Len(list[call]) + 1
        BY <3>2 DEF Loop, Typed, Calls
      <4> QED BY <4>1, MaxServersBounds DEF Typed
    <3> QED BY <3>1, <3>2 DEF Typed
  <2>2. ASSUME NEW k \in Calls
        PROVE  /\ \A i \in 1 .. MaxServers : <<k, i>> \in Started => i \in 1 .. Len(list[k])
               /\ Len(list[k]) \in Nat /\ DOMAIN list[k] = 1 .. Len(list[k])
    <3>1. list[k] \in Lists \cup {<< >>}
      BY DEF Typed
    <3>2. Len(list[k]) \in Nat /\ DOMAIN list[k] = 1 .. Len(list[k])
      BY <3>1, ParallelAssumption
    <3>3. \A i \in 1 .. MaxServers : <<k, i>> \in Started => i <= Len(list[k])
      BY DEF Loop
    <3> QED BY <3>2, <3>3, MaxServersBounds
  <2>3. ASSUME NEW k \in Calls
        PROVE  /\ Cardinality(StartedOf(k)) <= Len(list[k])
               /\ Cardinality(CountedOf(k)) <= Len(list[k])
    <3>1. StartedOf(k) \in SUBSET (1 .. Len(list[k]))
      BY <2>2 DEF StartedOf, Started, Workers
    <3>2. CountedOf(k) \in SUBSET (1 .. Len(list[k]))
      BY <3>1, TalliesFinite
    <3>3. IsFiniteSet(1 .. Len(list[k])) /\ Cardinality(1 .. Len(list[k])) = Len(list[k])
      BY <2>2, FS_Interval
    <3> QED BY <3>1, <3>2, <3>3, FS_Subset
  <2>4. num \in 0 .. MaxServers
    <3>1. CASE call = 0
      BY <3>1, MaxServersBounds DEF Tally
    <3>2. CASE call > 0
      <4>1. call \in Calls /\ list[call] \in Lists \cup {<< >>}
        BY <3>2 DEF Typed, Calls
      <4>2. num <= MaxServers
        <5>1. CASE Threw
          <6>1. StartedOf(call) \in SUBSET (1 .. (next - 1))
            BY <4>1 DEF StartedOf, Started, Workers, Loop, Typed
          <6>2. IsFiniteSet(1 .. (next - 1)) /\ Cardinality(1 .. (next - 1)) = next - 1
            BY FS_Interval DEF Typed
          <6>3. Cardinality(StartedOf(call)) <= next - 1
            BY <6>1, <6>2, FS_Subset
          <6> QED BY <3>2, <4>1, <5>1, <6>3, TalliesFinite, MaxServersBounds DEF Tally, Threw, Typed
        <5>2. CASE ~Threw
          BY <2>3, <3>2, <4>1, <5>2, TalliesFinite, MaxServersBounds DEF Tally
        <5> QED BY <5>1, <5>2
      <4> QED BY <4>2 DEF Typed
    <3> QED BY <3>1, <3>2 DEF Typed
  <2>5. active \subseteq Servers
    <3>1. ASSUME NEW w \in Started
          PROVE  Server(w) \in Servers
      <4>1. w[1] \in Calls /\ w[2] \in DOMAIN list[w[1]] /\ w = <<w[1], w[2]>>
        BY <2>2, WorkerParts DEF Started
      <4>2. list[w[1]] \in Lists
        BY <4>1 DEF Typed
      <4>3. list[w[1]] \in Seq(Servers)
        BY <4>2, ParallelAssumption
      <4> QED BY <2>2, <4>1, <4>3 DEF Server
    <3> QED BY <3>1 DEF ActiveEntriesLive
  <2>6. ASSUME NEW k \in Calls
        PROVE  /\ stream[k] \in {None} \cup ({k} \X DOMAIN list[k])
               /\ returned[k] \in {None} \cup ({k} \X DOMAIN list[k])
               /\ count[k] \in 0 .. Len(list[k])
               /\ done[k] \in BOOLEAN
    <3>1. ASSUME NEW w \in Workers, w[1] = k, Settled(w)
          PROVE  w \in {k} \X DOMAIN list[k]
      BY <2>2, <3>1, WorkerParts DEF Settled, Started
    <3>2. /\ stream[k] \in {None} \cup ({k} \X DOMAIN list[k])
          /\ returned[k] \in {None} \cup ({k} \X DOMAIN list[k])
      BY <3>1 DEF Holding, ResultHolds, UserHolds
    <3>3. count[k] \in 0 .. Len(list[k])
      BY <2>2, <2>3, TalliesFinite DEF Tally
    <3>4. done[k] \in BOOLEAN
      BY DEF Typed
    <3> QED BY <3>2, <3>3, <3>4
  <2> QED BY <2>1, <2>4, <2>5, <2>6 DEF TypeOK, Typed, Labels, Sockets
<1> QED BY <1>1, Invariance, PTL

(* An open stream has exactly one owner and no other stream has any: the   *)
(* worker that made it, the result its call shares, or the user.           *)
THEOREM OneOwner ==
  Spec => []StreamOwnership
<1>1. ASSUME Inv
      PROVE  StreamOwnership
  <2> USE <1>1 DEF Inv
  <2> SUFFICES ASSUME NEW w \in Started
               PROVE  Cardinality({f \in {"worker", "result", "user"} :
                                     \/ f = "worker" /\ HeldByWorker(w) /\ sock[w] # "failed"
                                     \/ f = "result" /\ HeldByResult(w)
                                     \/ f = "user" /\ HeldByUser(w)})
                      = IF sock[w] = "open" THEN 1 ELSE 0
    BY DEF StreamOwnership
  <2> DEFINE owners == {f \in {"worker", "result", "user"} :
                          \/ f = "worker" /\ HeldByWorker(w) /\ sock[w] # "failed"
                          \/ f = "result" /\ HeldByResult(w)
                          \/ f = "user" /\ HeldByUser(w)}
  <2>1. w \in Workers /\ w[1] \in Calls /\ w # None
    BY WorkerParts, NoneIsNoWorker DEF Started, Loop
  <2>2. HeldByWorker(w) => ~Settled(w) /\ (sock[w] # "failed" => sock[w] = "open")
    BY <2>1 DEF HeldByWorker, Settled, Stages
  <2>3. HeldByResult(w) => Settled(w) /\ sock[w] = "open" /\ ~HeldByUser(w)
    BY <2>1 DEF HeldByResult, HeldByUser, Holding, ResultHolds
  <2>4. HeldByUser(w) => Settled(w) /\ sock[w] = "open"
    BY <2>1 DEF HeldByUser, Holding, UserHolds
  <2>5. sock[w] = "open" => HeldByWorker(w) \/ HeldByResult(w) \/ HeldByUser(w)
    <3>1. CASE Settled(w)
      BY <2>1, <3>1 DEF Holding, HandedOver, ResultHolds, HeldByResult, HeldByUser
    <3>2. CASE ~Settled(w)
      BY <2>1, <3>2 DEF Settled, HeldByWorker, Stages, Typed, Labels
    <3> QED BY <3>1, <3>2
  <2>6. CASE sock[w] = "open"
    <3>1. \E f : owners = {f}
      <4>1. CASE HeldByWorker(w)
        <5>1. owners = {"worker"}
          BY <2>2, <2>3, <2>4, <2>6, <4>1
        <5> QED BY <5>1
      <4>2. CASE HeldByResult(w)
        <5>1. owners = {"result"}
          BY <2>2, <2>3, <4>2
        <5> QED BY <5>1
      <4>3. CASE HeldByUser(w)
        <5>1. owners = {"user"}
          BY <2>2, <2>3, <2>4, <4>3
        <5> QED BY <5>1
      <4> QED BY <2>5, <2>6, <4>1, <4>2, <4>3
    <3> QED BY <2>6, <3>1, FS_Singleton
  <2>7. CASE sock[w] # "open"
    <3>1. owners = {}
      BY <2>2, <2>3, <2>4, <2>7
    <3> QED BY <2>7, <3>1, FS_EmptySet
  <2> QED BY <2>6, <2>7
<1> QED BY <1>1, Invariance, PTL

(* A call that gives up before its deadline has lost every attempt.        *)
THEOREM NoStreamMissed ==
  Spec => []NullMeansAllFailed
<1>1. Inv => NullMeansAllFailed
  BY DEF Inv, Waiting, AllFailed, NullMeansAllFailed
<1> QED BY <1>1, Invariance, PTL

(* A server in active is being tried by a live worker.                     *)
THEOREM ActiveIsLive ==
  Spec => []ActiveEntriesLive
<1>1. Inv => ActiveEntriesLive
  BY DEF Inv
<1> QED BY <1>1, Invariance, PTL

(* Beside a sleeping caller a stream is still to be announced.             *)
THEOREM Announced ==
  Spec => []SuccessIsAnnounced
<1>1. Inv => SuccessIsAnnounced
  BY DEF Inv, Waiting
<1> QED BY <1>1, Invariance, PTL
=============================================================================
