--------------------------- MODULE JCallbackProofs ---------------------------
(***************************************************************************)
(* Proofs about SafeThread and JCallback, for any sets of clients, owners  *)
(* and objects and any bounds.  The inductive invariant Inv says what each *)
(* variable may be (Typed), who answers for a thread object (Owned,        *)
(* NoOrphan), what m_mutex protects (Protected), how the two halves of a   *)
(* callback go together (Paired) and when Main takes its last message      *)
(* (LastCall).  Left is added where a thread can always attach, Counted    *)
(* and Numbered where the bounds of the types are proved.                  *)
(***************************************************************************)
EXTENDS JCallback, FiniteSetTheorems, TLAPS

(* The types of the variables, without the bounds, and what a client that  *)
(* is inside an operation has at hand.                                     *)
Typed ==
  /\ owner \in [Owners -> Objects \cup {None}]
  /\ life \in [Objects -> {"raw", "new", "running", "freed"}]
  /\ active \in [Objects -> BOOLEAN]
  /\ mutex \in [Objects -> Clients \cup Objects \cup {None}]
  /\ waiting \subseteq Objects
  /\ pc \in [Clients -> {"idle", "spawn", "deactivate", "notify", "assign", "lock",
                         "held", "setting"}]
  /\ thr \in [Clients -> Objects \cup {None}]
  /\ dest \in [Clients -> Owners \cup {None}]
  /\ \A c \in Clients : /\ pc[c] \notin {"idle", "assign"} => thr[c] \in Objects
                        /\ pc[c] = "assign" => dest[c] \in Owners
  /\ mpc \in [Objects -> {"attach", "enter", "top", "predicate", "block", "waiting",
                          "check", "inner", "call", "calling", "detach", "delete",
                          "end"}]
  /\ queue \in [Objects -> Seq(Clients)]
  /\ func \in [Objects -> Nat]
  /\ mid \in [Objects -> Nat]
  /\ taken \in [Objects -> Nat \X Nat]
  /\ newRefs \in Nat
  /\ late \in [Objects -> Nat]

(* c has taken x out of an owner and answers for it *)
Answers(c, x) == thr[c] = x /\ pc[c] \in {"deactivate", "assign"}

(* somebody answers for x *)
HasHolder(x) ==
  (\E o \in Owners : owner[o] = x) \/ (\E c \in Clients : Answers(c, x))

(* At most one owner or client answers for an object, and nobody knows one *)
(* that is not allocated yet.                                              *)
Owned ==
  /\ \A o, p \in Owners : owner[o] = owner[p] /\ owner[o] # None => o = p
  /\ \A o \in Owners, c \in Clients : owner[o] # None => ~Answers(c, owner[o])
  /\ \A c, d \in Clients :
       Answers(c, thr[c]) /\ Answers(d, thr[c]) /\ thr[c] # None => c = d
  /\ \A x \in Objects : life[x] = "raw" =>
       (\A o \in Owners : owner[o] # x) /\ (\A c \in Clients : thr[c] # x)
  /\ \A c \in Clients : pc[c] = "spawn" => life[thr[c]] = "new"
  /\ \A c, d \in Clients :
       pc[c] = "spawn" /\ pc[d] = "spawn" /\ thr[c] = thr[d] => c = d

MainHolds(x) == mpc[x] \in {"top", "predicate", "block", "check", "inner", "detach"}

(* m_mutex is held by Main where it works on the members, and by the       *)
(* client of every proxy that is not null.  Main leaves its loop only when *)
(* the thread is not active, and calls back at most once after that.       *)
Protected ==
  /\ \A x \in Objects : /\ mpc[x] \notin {"attach", "end"} => life[x] = "running"
                        /\ mpc[x] = "end" => life[x] = "freed"
                        /\ MainHolds(x) => mutex[x] = x
                        /\ mpc[x] = "detach" => ~active[x]
                        /\ x \in waiting => mpc[x] = "waiting" /\ queue[x] = << >>
                        /\ mpc[x] = "block" => queue[x] = << >>
  /\ \A c \in Clients, x \in Objects : UsesProxy(c, x) /\ Exists(x) => mutex[x] = c

(* The function and the method of an object match unless its client is     *)
(* between SetFunc and SetMid, and no two objects have the same reference. *)
Paired ==
  /\ \A x \in Objects :
       \/ func[x] = mid[x]
       \/ Exists(x) /\ \E c \in Clients : thr[c] = x /\ pc[c] = "setting"
  /\ \A x \in Objects : mpc[x] \in {"call", "calling"} => taken[x][1] = taken[x][2]
  /\ \A x \in Objects : func[x] \in refs \cup {0} /\ func[x] <= newRefs
  /\ \A x, y \in Objects : func[x] = func[y] /\ func[x] # 0 => x = y

(* A callback that begins late is the last. *)
LastCall ==
  \A x \in Objects :
    /\ mpc[x] = "attach" => late[x] = 0
    /\ late[x] # 0 => late[x] = 1 /\ ~active[x] /\ mpc[x] # "call"

(* Nobody uses a proxy of an object that is about to be deleted.           *)
Left ==
  \A x \in Objects : mpc[x] = "delete" => ~active[x] /\ \A c \in Clients : ~UsesProxy(c, x)

-----------------------------------------------------------------------------
(* What the steps of Main and those of a proxy do to the owners' side. *)
MainKeeps ==
  /\ UNCHANGED <<owner, active, pc, thr, dest>>
  /\ life' \in [Objects -> {"raw", "new", "running", "freed"}]
  /\ \A y \in Objects : \/ life'[y] = life[y]
                        \/ life[y] = "running" /\ life'[y] = "freed"

ProxyKeeps(c) ==
  /\ UNCHANGED <<owner, life, active, dest, mpc, late>>
  /\ pc[c] \in {"held", "setting"}
  /\ \/ pc' = [pc EXCEPT ![c] = "setting"] /\ thr' = thr
     \/ pc' = [pc EXCEPT ![c] = "idle"] /\ thr' = [thr EXCEPT ![c] = None]

(* What the main function of a thread leaves alone. *)
LEMMA MainFrame ==
  ASSUME Typed, NEW x \in Objects, Main(x) \/ SpuriousWakeup(x)
  PROVE  MainKeeps
<1>1. CASE Delete(x)
  BY <1>1 DEF MainKeeps, Typed, Delete, MainAt
<1>2. CASE (Main(x) /\ ~Delete(x)) \/ SpuriousWakeup(x)
  BY <1>2 DEF MainKeeps, Typed, Main, SpuriousWakeup, ownerVars, UnchangedButMutex,
     Attach, AttachFails, Enter, Top, Predicate, Block, Wake, Check, LeaveInner, Take,
     Call, CallReturns, Detach
<1> QED BY <1>1, <1>2

(* What a call through the proxy leaves alone. *)
LEMMA ProxyFrame ==
  ASSUME NEW c \in Clients, Proxy(c)
  PROVE  ProxyKeeps(c)
  BY DEF ProxyKeeps, Proxy, Send, SetFunc, SetMid, ReleaseProxy, GoTo, Done

OwnerKeeps ==
  /\ \A x \in Objects : /\ active'[x] => active[x] \/ life[x] = "raw"
                        /\ Exists(x) => Exists(x)'
  /\ \A d \in Clients : pc[d] = "setting" => pc'[d] = "setting" /\ thr'[d] = thr[d]
  /\ \A d \in Clients, x \in Objects :
       UsesProxy(d, x)' => UsesProxy(d, x) \/ active[x] \/ life[x] = "freed"

(* the steps of Main that at most take or drop m_mutex *)
Quiet(x) ==
  \/ Attach(x) \/ AttachFails(x) \/ Enter(x) \/ Top(x) \/ Predicate(x)
  \/ Wake(x) \/ Check(x) \/ LeaveInner(x) \/ Detach(x)

QuietKeeps(x) ==
  /\ UnchangedButMutex
  /\ mpc'[x] \notin {"attach", "call", "calling"}
  /\ \A y \in Objects : y # x => mpc'[y] = mpc[y]

(* What the steps on owners do to Main's side. *)
LEMMA OwnerFrame ==
  ASSUME Typed, NEW c \in Clients, OwnerStep(c) \/ OwnerProgress(c)
  PROVE  OwnerKeeps
<1> USE DEF Typed, OwnerKeeps, UsesProxy, Exists
<1>1. ASSUME NEW o \in Owners, NEW x \in Objects, StartInstall(c, o, x) PROVE OwnerKeeps
  BY <1>1 DEF StartInstall, GoTo
<1>2. ASSUME NEW o \in Owners, NEW x \in Objects, StartReject(c, o, x) PROVE OwnerKeeps
  BY <1>2 DEF StartReject
<1>3. ASSUME NEW o \in Owners, StopTake(c, o) PROVE OwnerKeeps
  BY <1>3 DEF StopTake, GoTo
<1>4. ASSUME NEW o \in Owners, ProxyLoad(c, o) PROVE OwnerKeeps
  BY <1>4 DEF ProxyLoad, GoTo
<1>5. ASSUME NEW from \in Owners, NEW to \in Owners, MoveOut(c, from, to) PROVE OwnerKeeps
  BY <1>5 DEF MoveOut, GoTo
<1>6. ASSUME Spawn(c) PROVE OwnerKeeps
  BY <1>6 DEF Spawn, Done
<1>7. ASSUME StopDeactivate(c) PROVE OwnerKeeps
  BY <1>7 DEF StopDeactivate, GoTo
<1>8. ASSUME StopNotify(c) PROVE OwnerKeeps
  BY <1>8 DEF StopNotify, Done
<1>9. ASSUME MoveIn(c) PROVE OwnerKeeps
  BY <1>9 DEF MoveIn, GoTo, Done
<1>10. ASSUME ProxyLock(c) PROVE OwnerKeeps
  BY <1>10 DEF ProxyLock, GoTo
<1>11. ASSUME ProxyInactive(c) PROVE OwnerKeeps
  BY <1>11 DEF ProxyInactive, Done
<1>12. ASSUME ProxyFreed(c) PROVE OwnerKeeps
  BY <1>12 DEF ProxyFreed, GoTo, Done
<1> QED
  BY <1>1, <1>2, <1>3, <1>4, <1>5, <1>6, <1>7, <1>8, <1>9, <1>10, <1>11, <1>12
  DEF OwnerStep, OwnerProgress

(* The steps of a thread that run no callback leave all but its label, its *)
(* mutex and its environment alone.                                        *)
LEMMA QuietFrame ==
  ASSUME Typed, NEW x \in Objects, Quiet(x)
  PROVE  QuietKeeps(x)
  BY DEF QuietKeeps, Typed, Quiet, Attach, AttachFails, Enter, Top, Predicate, Wake,
     Check, LeaveInner, Detach, MainAt, MainGoTo

(* Every step keeps the types. *)
LEMMA TypedStep ==
  ASSUME Typed, [Next]_vars
  PROVE  Typed'
<1> USE SafeThreadAssumption DEF Typed
<1>1. ASSUME NEW c \in Clients, NEW o \in Owners, NEW x \in Objects,
             StartInstall(c, o, x), UNCHANGED mainVars
      PROVE  Typed'
  BY <1>1 DEF StartInstall, GoTo, mainVars
<1>2. ASSUME NEW c \in Clients, NEW o \in Owners, NEW x \in Objects,
             StartReject(c, o, x), UNCHANGED mainVars
      PROVE  Typed'
  BY <1>2 DEF StartReject, mainVars
<1>3. ASSUME NEW c \in Clients, NEW o \in Owners,
             StopTake(c, o), UNCHANGED mainVars
      PROVE  Typed'
  BY <1>3 DEF StopTake, GoTo, mainVars
<1>4. ASSUME NEW c \in Clients, NEW o \in Owners,
             ProxyLoad(c, o), UNCHANGED mainVars
      PROVE  Typed'
  BY <1>4 DEF ProxyLoad, GoTo, mainVars
<1>5. ASSUME NEW c \in Clients, NEW from \in Owners, NEW to \in Owners,
             MoveOut(c, from, to), UNCHANGED mainVars
      PROVE  Typed'
  BY <1>5 DEF MoveOut, GoTo, mainVars
<1>6. ASSUME NEW c \in Clients, Spawn(c), UNCHANGED mainVars PROVE Typed'
  BY <1>6 DEF Spawn, Done, mainVars
<1>7. ASSUME NEW c \in Clients, StopDeactivate(c), UNCHANGED mainVars PROVE Typed'
  BY <1>7 DEF StopDeactivate, GoTo, mainVars
<1>8. ASSUME NEW c \in Clients, StopNotify(c), UNCHANGED mainVars PROVE Typed'
  BY <1>8 DEF StopNotify, Done, mainVars
<1>9. ASSUME NEW c \in Clients, MoveIn(c), UNCHANGED mainVars PROVE Typed'
  BY <1>9 DEF MoveIn, GoTo, Done, mainVars
<1>10. ASSUME NEW c \in Clients, ProxyLock(c), UNCHANGED mainVars PROVE Typed'
  BY <1>10 DEF ProxyLock, GoTo, mainVars
<1>11. ASSUME NEW c \in Clients, ProxyInactive(c), UNCHANGED mainVars PROVE Typed'
  BY <1>11 DEF ProxyInactive, Done, mainVars
<1>12. ASSUME NEW c \in Clients, ProxyFreed(c), UNCHANGED mainVars PROVE Typed'
  BY <1>12 DEF ProxyFreed, GoTo, Done, mainVars
<1>13. ASSUME NEW c \in Clients, Send(c) PROVE Typed'
  <2>1. thr[c] \in Objects /\ queue[thr[c]] \in Seq(Clients)
    BY <1>13 DEF Send, ReleaseProxy, Done
  <2>2. Append(queue[thr[c]], c) \in Seq(Clients)
    BY <1>13, <2>1 DEF Send, ReleaseProxy, Done
  <2>3. queue' \in [Objects -> Seq(Clients)]
    BY <1>13, <2>1, <2>2 DEF Send, ReleaseProxy, Done
  <2>4. mutex' \in [Objects -> Clients \cup Objects \cup {None}]
    BY <1>13 DEF Send, ReleaseProxy, Done
  <2> QED BY <1>13, <2>1, <2>2, <2>3, <2>4 DEF Send, ReleaseProxy, Done
<1>14. ASSUME NEW c \in Clients, SetFunc(c) PROVE Typed'
  <2> HIDE DEF Typed
  <2>1. /\ pc[c] = "held" /\ pc' = [pc EXCEPT ![c] = "setting"]
        /\ newRefs' = newRefs + 1
        /\ func' = func \/ func' = [func EXCEPT ![thr[c]] = newRefs + 1]
        /\ UNCHANGED <<owner, life, active, mutex, waiting, thr, dest, mpc, queue, mid,
                       taken, late>>
    BY <1>14 DEF SetFunc, GoTo
  <2>2. newRefs + 1 \in Nat
    BY DEF Typed
  <2>3. func' \in [Objects -> Nat]
    BY <2>1, <2>2 DEF Typed
  <2> QED BY <2>1, <2>2, <2>3 DEF Typed
<1>15. ASSUME NEW c \in Clients, SetMid(c) PROVE Typed'
  BY <1>15 DEF SetMid, ReleaseProxy, Done
<1>16. ASSUME NEW x \in Objects, Attach(x) PROVE Typed'
  BY <1>16 DEF Attach, MainAt, MainGoTo, UnchangedButMutex
<1>17. ASSUME NEW x \in Objects, AttachFails(x) PROVE Typed'
  BY <1>17 DEF AttachFails, MainAt, MainGoTo, UnchangedButMutex
<1>18. ASSUME NEW x \in Objects, Enter(x) PROVE Typed'
  BY <1>18 DEF Enter, MainAt, MainGoTo, LockMutex, UnchangedButMutex
<1>19. ASSUME NEW x \in Objects, Top(x) PROVE Typed'
  BY <1>19 DEF Top, MainAt, MainGoTo, UnchangedButMutex
<1>20. ASSUME NEW x \in Objects, Predicate(x) PROVE Typed'
  BY <1>20 DEF Predicate, MainAt, MainGoTo, UnchangedButMutex
<1>21. ASSUME NEW x \in Objects, Block(x) PROVE Typed'
  BY <1>21 DEF Block, MainAt, MainGoTo, UnlockMutex
<1>22. ASSUME NEW x \in Objects, Wake(x) PROVE Typed'
  BY <1>22 DEF Wake, MainAt, MainGoTo, LockMutex, UnchangedButMutex
<1>23. ASSUME NEW x \in Objects, Check(x) PROVE Typed'
  BY <1>23 DEF Check, MainAt, MainGoTo, UnchangedButMutex
<1>24. ASSUME NEW x \in Objects, LeaveInner(x) PROVE Typed'
  BY <1>24 DEF LeaveInner, MainAt, MainGoTo, UnchangedButMutex
<1>25. ASSUME NEW x \in Objects, Take(x) PROVE Typed'
  BY <1>25 DEF Take, MainAt, MainGoTo, UnlockMutex
<1>26. ASSUME NEW x \in Objects, Call(x) PROVE Typed'
  BY <1>26 DEF Call, ownerVars, MainAt, MainGoTo
<1>27. ASSUME NEW x \in Objects, CallReturns(x) PROVE Typed'
  BY <1>27 DEF CallReturns, MainAt, MainGoTo, LockMutex
<1>28. ASSUME NEW x \in Objects, Detach(x) PROVE Typed'
  BY <1>28 DEF Detach, MainAt, MainGoTo, UnlockMutex, UnchangedButMutex
<1>29. ASSUME NEW x \in Objects, Delete(x) PROVE Typed'
  BY <1>29 DEF Delete, MainAt, MainGoTo
<1>30. ASSUME NEW x \in Objects, SpuriousWakeup(x) PROVE Typed'
  BY <1>30 DEF SpuriousWakeup
<1>31. CASE UNCHANGED vars
  BY <1>31 DEF vars, ownerVars, mainVars
<1> QED
  BY <1>1, <1>2, <1>3, <1>4, <1>5, <1>6, <1>7, <1>8, <1>9, <1>10, <1>11, <1>12,
     <1>13, <1>14, <1>15, <1>16, <1>17, <1>18, <1>19, <1>20, <1>21, <1>22, <1>23, <1>24,
     <1>25, <1>26, <1>27, <1>28, <1>29, <1>30, <1>31
  DEF Next, OwnerStep, OwnerProgress, Proxy, Main

(* Start installs an object nobody knows, Stop and move assignment hand one *)
(* object from one to another.                                              *)
LEMMA OwnedStep ==
  ASSUME Typed, Owned, [Next]_vars
  PROVE  Owned'
<1>1. ASSUME NEW x \in Objects, Main(x) \/ SpuriousWakeup(x) PROVE Owned'
  <2>1. MainKeeps
    BY <1>1, MainFrame
  <2>2. /\ \A y \in Objects : /\ life'[y] = "raw" <=> life[y] = "raw"
                              /\ life'[y] = "new" <=> life[y] = "new"
        /\ \A c \in Clients : pc[c] = "spawn" => thr[c] \in Objects
    BY <2>1 DEF MainKeeps, Typed
  <2> QED BY <2>1, <2>2 DEF MainKeeps, Owned, Answers
<1>2. ASSUME NEW c \in Clients, Proxy(c) PROVE Owned'
  <2>1. ProxyKeeps(c)
    BY <1>2, ProxyFrame
  <2>2. CASE pc' = [pc EXCEPT ![c] = "setting"] /\ thr' = thr
    BY <2>1, <2>2 DEF ProxyKeeps, Typed, Owned, Answers
  <2>3. CASE pc' = [pc EXCEPT ![c] = "idle"] /\ thr' = [thr EXCEPT ![c] = None]
    <3>1. /\ pc'[c] = "idle"
          /\ \A d \in Clients : d # c => pc'[d] = pc[d] /\ thr'[d] = thr[d]
      BY <2>3 DEF Typed
    <3>2. \A d \in Clients, x \in Objects : thr'[d] = x => thr[d] = x
      BY <2>3, SafeThreadAssumption DEF Typed
    <3> QED BY <2>1, <3>1, <3>2 DEF ProxyKeeps, Owned, Answers
  <2> QED BY <2>1, <2>2, <2>3 DEF ProxyKeeps
<1> USE SafeThreadAssumption DEF Typed, Owned, Answers
<1>3. ASSUME NEW c \in Clients, NEW o \in Owners, NEW x \in Objects,
             StartInstall(c, o, x)
      PROVE  Owned'
  BY <1>3 DEF StartInstall, GoTo
<1>4. ASSUME NEW c \in Clients, NEW o \in Owners, NEW x \in Objects,
             StartReject(c, o, x)
      PROVE  Owned'
  BY <1>4 DEF StartReject
<1>5. ASSUME NEW c \in Clients, NEW o \in Owners, StopTake(c, o) PROVE Owned'
  BY <1>5 DEF StopTake, GoTo
<1>6. ASSUME NEW c \in Clients, NEW o \in Owners, ProxyLoad(c, o) PROVE Owned'
  BY <1>6 DEF ProxyLoad, GoTo
<1>7. ASSUME NEW c \in Clients, NEW from \in Owners, NEW to \in Owners,
             MoveOut(c, from, to)
      PROVE  Owned'
  BY <1>7 DEF MoveOut, GoTo
<1>8. ASSUME NEW c \in Clients, Spawn(c) PROVE Owned'
  BY <1>8 DEF Spawn, Done
<1>9. ASSUME NEW c \in Clients, StopDeactivate(c) PROVE Owned'
  BY <1>9 DEF StopDeactivate, GoTo
<1>10. ASSUME NEW c \in Clients, StopNotify(c) PROVE Owned'
  BY <1>10 DEF StopNotify, Done
<1>11. ASSUME NEW c \in Clients, MoveIn(c) PROVE Owned'
  BY <1>11 DEF MoveIn, GoTo, Done
<1>12. ASSUME NEW c \in Clients, ProxyLock(c) PROVE Owned'
  BY <1>12 DEF ProxyLock, GoTo
<1>13. ASSUME NEW c \in Clients, ProxyInactive(c) PROVE Owned'
  BY <1>13 DEF ProxyInactive, Done
<1>14. ASSUME NEW c \in Clients, ProxyFreed(c) PROVE Owned'
  <2>1. CASE GoTo(c, "held") /\ UNCHANGED thr
    BY <1>14, <2>1 DEF ProxyFreed, GoTo
  <2>2. CASE Done(c)
    BY <1>14, <2>2 DEF ProxyFreed, Done
  <2> QED BY <1>14, <2>1, <2>2 DEF ProxyFreed
<1>15. CASE UNCHANGED vars
  BY <1>15 DEF vars, ownerVars, mainVars
<1> QED
  BY <1>1, <1>2, <1>3, <1>4, <1>5, <1>6, <1>7, <1>8, <1>9, <1>10, <1>11, <1>12,
     <1>13, <1>14, <1>15
  DEF Next, OwnerStep, OwnerProgress, Proxy, Main

(* Whoever lets go of an object first hands it on or deactivates it.       *)
LEMMA NoOrphanStep ==
  ASSUME Typed, Owned, NoOrphan, [Next]_vars
  PROVE  NoOrphan'
<1>1. ASSUME NEW x \in Objects, Main(x) \/ SpuriousWakeup(x) PROVE NoOrphan'
  <2>1. MainKeeps
    BY <1>1, MainFrame
  <2> QED BY <2>1, SafeThreadAssumption DEF MainKeeps, Typed, NoOrphan, Exists
<1>2. ASSUME NEW c \in Clients, Proxy(c) PROVE NoOrphan'
  <2>1. ProxyKeeps(c)
    BY <1>2, ProxyFrame
  <2>2. CASE pc' = [pc EXCEPT ![c] = "setting"] /\ thr' = thr
    BY <2>1, <2>2 DEF ProxyKeeps, Typed, NoOrphan, Exists
  <2>3. CASE pc' = [pc EXCEPT ![c] = "idle"] /\ thr' = [thr EXCEPT ![c] = None]
    <3>1. /\ pc'[c] = "idle"
          /\ \A d \in Clients : d # c => pc'[d] = pc[d] /\ thr'[d] = thr[d]
      BY <2>3 DEF Typed
    <3>2. \A d \in Clients, x \in Objects : thr'[d] = x => thr[d] = x
      BY <2>3, SafeThreadAssumption DEF Typed
    <3> QED BY <2>1, <3>1, <3>2 DEF ProxyKeeps, NoOrphan, Exists
  <2> QED BY <2>1, <2>2, <2>3 DEF ProxyKeeps
<1> USE SafeThreadAssumption DEF Typed, Owned, Answers
<1>3. ASSUME NEW c \in Clients, NEW o \in Owners, NEW x \in Objects,
             StartInstall(c, o, x)
      PROVE  NoOrphan'
  <2> SUFFICES ASSUME NEW y \in Objects, Exists(y)', active'[y] PROVE HasHolder(y)'
    BY DEF NoOrphan, HasHolder
  <2>1. CASE y = x
    BY <1>3, <2>1 DEF StartInstall, GoTo, HasHolder
  <2>2. y = x \/ (Exists(y) /\ active[y])
    BY <1>3 DEF StartInstall, GoTo, Exists
  <2>3. ASSUME NEW p \in Owners, owner[p] = y PROVE HasHolder(y)'
    BY <1>3, <2>3 DEF StartInstall, GoTo, HasHolder
  <2>4. ASSUME NEW e \in Clients, Answers(e, y) PROVE HasHolder(y)'
    BY <1>3, <2>4, <2>2 DEF StartInstall, GoTo, HasHolder
  <2>5. y = x \/ HasHolder(y)
    BY <2>2 DEF NoOrphan, HasHolder
  <2> QED BY <2>1, <2>3, <2>4, <2>5 DEF HasHolder
<1>4. ASSUME NEW c \in Clients, NEW o \in Owners, NEW x \in Objects,
             StartReject(c, o, x)
      PROVE  NoOrphan'
  BY <1>4 DEF StartReject, NoOrphan, Exists
<1>5. ASSUME NEW c \in Clients, NEW o \in Owners, StopTake(c, o) PROVE NoOrphan'
  <2> SUFFICES ASSUME NEW y \in Objects, Exists(y)', active'[y] PROVE HasHolder(y)'
    BY DEF NoOrphan, HasHolder
  <2>1. (Exists(y) /\ active[y])
    BY <1>5 DEF StopTake, GoTo, Exists
  <2>2. ASSUME NEW p \in Owners, owner[p] = y PROVE HasHolder(y)'
    BY <1>5, <2>2 DEF StopTake, GoTo, HasHolder
  <2>3. ASSUME NEW e \in Clients, Answers(e, y) PROVE HasHolder(y)'
    BY <1>5, <2>3, <2>1 DEF StopTake, GoTo, HasHolder
  <2>4. HasHolder(y)
    BY <2>1 DEF NoOrphan, HasHolder
  <2> QED BY <2>2, <2>3, <2>4 DEF HasHolder
<1>6. ASSUME NEW c \in Clients, NEW o \in Owners, ProxyLoad(c, o) PROVE NoOrphan'
  BY <1>6 DEF ProxyLoad, GoTo, NoOrphan, Exists
<1>7. ASSUME NEW c \in Clients, NEW from \in Owners, NEW to \in Owners,
             MoveOut(c, from, to)
      PROVE  NoOrphan'
  <2> SUFFICES ASSUME NEW y \in Objects, Exists(y)', active'[y] PROVE HasHolder(y)'
    BY DEF NoOrphan, HasHolder
  <2>1. (Exists(y) /\ active[y])
    BY <1>7 DEF MoveOut, GoTo, Exists
  <2>2. ASSUME NEW p \in Owners, owner[p] = y PROVE HasHolder(y)'
    BY <1>7, <2>2 DEF MoveOut, GoTo, HasHolder
  <2>3. ASSUME NEW e \in Clients, Answers(e, y) PROVE HasHolder(y)'
    BY <1>7, <2>3, <2>1 DEF MoveOut, GoTo, HasHolder
  <2>4. HasHolder(y)
    BY <2>1 DEF NoOrphan, HasHolder
  <2> QED BY <2>2, <2>3, <2>4 DEF HasHolder
<1>8. ASSUME NEW c \in Clients, Spawn(c) PROVE NoOrphan'
  <2> SUFFICES ASSUME NEW y \in Objects, Exists(y)', active'[y] PROVE HasHolder(y)'
    BY DEF NoOrphan, HasHolder
  <2>1. (Exists(y) /\ active[y])
    BY <1>8 DEF Spawn, Done, Exists
  <2>2. ASSUME NEW p \in Owners, owner[p] = y PROVE HasHolder(y)'
    BY <1>8, <2>2 DEF Spawn, Done, HasHolder
  <2>3. ASSUME NEW e \in Clients, Answers(e, y) PROVE HasHolder(y)'
    BY <1>8, <2>3, <2>1 DEF Spawn, Done, HasHolder
  <2>4. HasHolder(y)
    BY <2>1 DEF NoOrphan, HasHolder
  <2> QED BY <2>2, <2>3, <2>4 DEF HasHolder
<1>9. ASSUME NEW c \in Clients, StopDeactivate(c) PROVE NoOrphan'
  <2> SUFFICES ASSUME NEW y \in Objects, Exists(y)', active'[y] PROVE HasHolder(y)'
    BY DEF NoOrphan, HasHolder
  <2>1. (Exists(y) /\ active[y])
    BY <1>9 DEF StopDeactivate, GoTo, Exists
  <2>2. ASSUME NEW p \in Owners, owner[p] = y PROVE HasHolder(y)'
    BY <1>9, <2>2 DEF StopDeactivate, GoTo, HasHolder
  <2>3. ASSUME NEW e \in Clients, Answers(e, y) PROVE HasHolder(y)'
    BY <1>9, <2>3, <2>1 DEF StopDeactivate, GoTo, HasHolder
  <2>4. HasHolder(y)
    BY <2>1 DEF NoOrphan, HasHolder
  <2> QED BY <2>2, <2>3, <2>4 DEF HasHolder
<1>10. ASSUME NEW c \in Clients, StopNotify(c) PROVE NoOrphan'
  BY <1>10 DEF StopNotify, Done, NoOrphan, Exists
<1>11. ASSUME NEW c \in Clients, MoveIn(c) PROVE NoOrphan'
  <2> SUFFICES ASSUME NEW y \in Objects, Exists(y)', active'[y] PROVE HasHolder(y)'
    BY DEF NoOrphan, HasHolder
  <2>1. (Exists(y) /\ active[y])
    BY <1>11 DEF MoveIn, GoTo, Done, Exists
  <2>2. ASSUME NEW p \in Owners, owner[p] = y PROVE HasHolder(y)'
    BY <1>11, <2>2 DEF MoveIn, GoTo, Done, HasHolder
  <2>3. ASSUME NEW e \in Clients, Answers(e, y) PROVE HasHolder(y)'
    BY <1>11, <2>3, <2>1 DEF MoveIn, GoTo, Done, HasHolder
  <2>4. HasHolder(y)
    BY <2>1 DEF NoOrphan, HasHolder
  <2> QED BY <2>2, <2>3, <2>4 DEF HasHolder
<1>12. ASSUME NEW c \in Clients, ProxyLock(c) PROVE NoOrphan'
  BY <1>12 DEF ProxyLock, GoTo, NoOrphan, Exists
<1>13. ASSUME NEW c \in Clients, ProxyInactive(c) PROVE NoOrphan'
  BY <1>13 DEF ProxyInactive, Done, NoOrphan, Exists
<1>14. ASSUME NEW c \in Clients, ProxyFreed(c) PROVE NoOrphan'
  <2> SUFFICES ASSUME NEW y \in Objects, Exists(y)', active'[y] PROVE HasHolder(y)'
    BY DEF NoOrphan, HasHolder
  <2>1. (Exists(y) /\ active[y])
    BY <1>14 DEF ProxyFreed, GoTo, Done, Exists
  <2>2. ASSUME NEW p \in Owners, owner[p] = y PROVE HasHolder(y)'
    BY <1>14, <2>2 DEF ProxyFreed, GoTo, Done, HasHolder
  <2>3. ASSUME NEW e \in Clients, Answers(e, y) PROVE HasHolder(y)'
    BY <1>14, <2>3, <2>1 DEF ProxyFreed, GoTo, Done, HasHolder
  <2>4. HasHolder(y)
    BY <2>1 DEF NoOrphan, HasHolder
  <2> QED BY <2>2, <2>3, <2>4 DEF HasHolder
<1>15. CASE UNCHANGED vars
  BY <1>15 DEF vars, ownerVars, NoOrphan, Exists
<1> QED
  BY <1>1, <1>2, <1>3, <1>4, <1>5, <1>6, <1>7, <1>8, <1>9, <1>10, <1>11, <1>12,
     <1>13, <1>14, <1>15
  DEF Next, OwnerStep, OwnerProgress, Proxy, Main

(* m_mutex excludes Main and the clients from each other; a proxy is not    *)
(* made of a thread that is stopped.                                        *)
LEMMA ProtectedStep ==
  ASSUME Typed, Owned, Protected, [Next]_vars
  PROVE  Protected'
<1> USE SafeThreadAssumption DEF Typed, Owned, Protected, UsesProxy, Exists, MainHolds
<1>1. ASSUME NEW c \in Clients, NEW o \in Owners, NEW x \in Objects,
             StartInstall(c, o, x), UNCHANGED mainVars
      PROVE  Protected'
  BY <1>1 DEF StartInstall, GoTo, mainVars
<1>2. ASSUME NEW c \in Clients, NEW o \in Owners, NEW x \in Objects,
             StartReject(c, o, x), UNCHANGED mainVars
      PROVE  Protected'
  BY <1>2 DEF StartReject, mainVars
<1>3. ASSUME NEW c \in Clients, NEW o \in Owners,
             StopTake(c, o), UNCHANGED mainVars
      PROVE  Protected'
  BY <1>3 DEF StopTake, GoTo, mainVars
<1>4. ASSUME NEW c \in Clients, NEW o \in Owners,
             ProxyLoad(c, o), UNCHANGED mainVars
      PROVE  Protected'
  BY <1>4 DEF ProxyLoad, GoTo, mainVars
<1>5. ASSUME NEW c \in Clients, NEW from \in Owners, NEW to \in Owners,
             MoveOut(c, from, to), UNCHANGED mainVars
      PROVE  Protected'
  BY <1>5 DEF MoveOut, GoTo, mainVars
<1>6. ASSUME NEW c \in Clients, Spawn(c), UNCHANGED mainVars PROVE Protected'
  BY <1>6 DEF Spawn, Done, mainVars
<1>7. ASSUME NEW c \in Clients,
             StopDeactivate(c), UNCHANGED mainVars
      PROVE  Protected'
  BY <1>7 DEF StopDeactivate, GoTo, mainVars
<1>8. ASSUME NEW c \in Clients, StopNotify(c), UNCHANGED mainVars PROVE Protected'
  BY <1>8 DEF StopNotify, Done, mainVars
<1>9. ASSUME NEW c \in Clients, MoveIn(c), UNCHANGED mainVars PROVE Protected'
  BY <1>9 DEF MoveIn, GoTo, Done, mainVars
<1>10. ASSUME NEW c \in Clients, ProxyLock(c), UNCHANGED mainVars PROVE Protected'
  BY <1>10 DEF ProxyLock, GoTo, mainVars
<1>11. ASSUME NEW c \in Clients,
             ProxyInactive(c), UNCHANGED mainVars
      PROVE  Protected'
  BY <1>11 DEF ProxyInactive, Done, mainVars
<1>12. ASSUME NEW c \in Clients, ProxyFreed(c), UNCHANGED mainVars PROVE Protected'
  BY <1>12 DEF ProxyFreed, GoTo, Done, mainVars
<1>13. ASSUME NEW c \in Clients, Send(c) PROVE Protected'
  BY <1>13 DEF Send, ReleaseProxy, Done
<1>14. ASSUME NEW c \in Clients, SetFunc(c) PROVE Protected'
  BY <1>14 DEF SetFunc, GoTo
<1>15. ASSUME NEW c \in Clients, SetMid(c) PROVE Protected'
  BY <1>15 DEF SetMid, ReleaseProxy, Done
<1>16. ASSUME NEW x \in Objects, Attach(x) PROVE Protected'
  BY <1>16 DEF Attach, MainAt, MainGoTo, UnchangedButMutex
<1>17. ASSUME NEW x \in Objects, AttachFails(x) PROVE Protected'
  BY <1>17 DEF AttachFails, MainAt, MainGoTo, UnchangedButMutex
<1>18. ASSUME NEW x \in Objects, Enter(x) PROVE Protected'
  BY <1>18 DEF Enter, MainAt, MainGoTo, LockMutex, UnchangedButMutex
<1>19. ASSUME NEW x \in Objects, Top(x) PROVE Protected'
  BY <1>19 DEF Top, MainAt, MainGoTo, UnchangedButMutex
<1>20. ASSUME NEW x \in Objects, Predicate(x) PROVE Protected'
  BY <1>20 DEF Predicate, MainAt, MainGoTo, UnchangedButMutex
<1>21. ASSUME NEW x \in Objects, Block(x) PROVE Protected'
  <2>1. mpc[x] = "block" /\ life[x] = "running" /\ mutex[x] = x /\ queue[x] = << >>
    BY <1>21 DEF Block, MainAt
  <2>2. \A c \in Clients : UsesProxy(c, x) => FALSE
    BY <2>1
  <2>3. \A y \in Objects : y # x => mpc'[y] = mpc[y] /\ mutex'[y] = mutex[y]
    BY <1>21 DEF Block, MainGoTo, UnlockMutex
  <2>4. /\ mpc'[x] = "waiting" /\ waiting' = waiting \cup {x}
        /\ UNCHANGED <<life, active, queue, pc, thr>>
    BY <1>21 DEF Block, MainGoTo
  <2> HIDE DEF Typed
  <2> QED BY <2>1, <2>2, <2>3, <2>4
<1>22. ASSUME NEW x \in Objects, Wake(x) PROVE Protected'
  BY <1>22 DEF Wake, MainAt, MainGoTo, LockMutex, UnchangedButMutex
<1>23. ASSUME NEW x \in Objects, Check(x) PROVE Protected'
  BY <1>23 DEF Check, MainAt, MainGoTo, UnchangedButMutex
<1>24. ASSUME NEW x \in Objects, LeaveInner(x) PROVE Protected'
  BY <1>24 DEF LeaveInner, MainAt, MainGoTo, UnchangedButMutex
<1>25. ASSUME NEW x \in Objects, Take(x) PROVE Protected'
  BY <1>25 DEF Take, MainAt, MainGoTo, UnlockMutex
<1>26. ASSUME NEW x \in Objects, Call(x) PROVE Protected'
  BY <1>26 DEF Call, ownerVars, MainAt, MainGoTo
<1>27. ASSUME NEW x \in Objects, CallReturns(x) PROVE Protected'
  BY <1>27 DEF CallReturns, MainAt, MainGoTo, LockMutex
<1>28. ASSUME NEW x \in Objects, Detach(x) PROVE Protected'
  BY <1>28 DEF Detach, MainAt, MainGoTo, UnlockMutex, UnchangedButMutex
<1>29. ASSUME NEW x \in Objects, Delete(x) PROVE Protected'
  BY <1>29 DEF Delete, MainAt, MainGoTo
<1>30. ASSUME NEW x \in Objects, SpuriousWakeup(x) PROVE Protected'
  BY <1>30 DEF SpuriousWakeup
<1>31. CASE UNCHANGED vars
  BY <1>31 DEF vars, ownerVars, mainVars
<1> QED
  BY <1>1, <1>2, <1>3, <1>4, <1>5, <1>6, <1>7, <1>8, <1>9, <1>10, <1>11, <1>12,
     <1>13, <1>14, <1>15, <1>16, <1>17, <1>18, <1>19, <1>20, <1>21, <1>22, <1>23, <1>24,
     <1>25, <1>26, <1>27, <1>28, <1>29, <1>30, <1>31
  DEF Next, OwnerStep, OwnerProgress, Proxy, Main

(* Main copies the pair under m_mutex, when no client is half-way.           *)
LEMMA PairedStep ==
  ASSUME Typed, Owned, Protected, Paired, [Next]_vars
  PROVE  Paired'
<1>1. ASSUME NEW c \in Clients, OwnerStep(c) \/ OwnerProgress(c), UNCHANGED mainVars
      PROVE  Paired'
  <2>1. OwnerKeeps
    BY <1>1, OwnerFrame
  <2> QED BY <2>1, <1>1 DEF OwnerKeeps, mainVars, Paired, Exists
<1>2. ASSUME NEW x \in Objects, Quiet(x) PROVE Paired'
  <2>1. QuietKeeps(x)
    BY <1>2, QuietFrame
  <2> QED BY <2>1 DEF QuietKeeps, UnchangedButMutex, Paired, Exists
<1> USE SafeThreadAssumption
    DEF Typed, Owned, Protected, Paired, UsesProxy, Exists, MainHolds
<1>3. ASSUME NEW c \in Clients, Send(c) PROVE Paired'
  BY <1>3 DEF Send, ReleaseProxy, Done
<1>4. ASSUME NEW c \in Clients, SetFunc(c) PROVE Paired'
  <2> HIDE DEF Typed, Owned, Protected
  <2> DEFINE y == thr[c]
             f == newRefs + 1
  <2>1. /\ func \in [Objects -> Nat] /\ newRefs \in Nat
        /\ pc[c] = "held" /\ y \in Objects /\ DOMAIN pc = Clients
    BY <1>4 DEF SetFunc, Typed
  <2>2. /\ f \in Nat /\ f # 0 /\ newRefs < f
        /\ \A z \in Objects : func[z] # f
    BY <2>1
  <2>3. /\ pc' = [pc EXCEPT ![c] = "setting"] /\ newRefs' = f
        /\ UNCHANGED <<mid, mpc, taken, thr, life>>
    BY <1>4 DEF SetFunc, GoTo
  <2>4. pc'[c] = "setting" /\ \A d \in Clients : d # c => pc'[d] = pc[d]
    BY <2>1, <2>3
  <2>5. CASE Exists(y)
    <3>1. /\ refs' = (refs \ {func[y]}) \cup {f}
          /\ func' = [func EXCEPT ![y] = f]
      BY <1>4, <2>5 DEF SetFunc
    <3> HIDE DEF y, f
    <3>2. func'[y] = f /\ \A z \in Objects : z # y => func'[z] = func[z]
      BY <2>1, <3>1
    <3>3. y = thr[c]
      BY DEF y
    <3>4. \A x \in Objects : \/ func'[x] = mid'[x]
                             \/ /\ Exists(x)'
                                /\ \E d \in Clients : thr'[d] = x /\ pc'[d] = "setting"
      <4>1. ASSUME NEW x \in Objects, NEW d \in Clients, thr[d] = x, pc[d] = "setting"
            PROVE  thr'[d] = x /\ pc'[d] = "setting"
        BY <2>1, <2>3, <2>4, <4>1
      <4>2. ASSUME NEW x \in Objects, x # y
            PROVE  \/ func'[x] = mid'[x]
                   \/ Exists(x)' /\ \E d \in Clients : thr'[d] = x /\ pc'[d] = "setting"
        <5>1. CASE func[x] = mid[x]
          BY <5>1, <2>3, <3>2, <4>2
        <5>2. ASSUME NEW d \in Clients, thr[d] = x, pc[d] = "setting", Exists(x)
              PROVE  Exists(x)' /\ thr'[d] = x /\ pc'[d] = "setting"
          BY <2>3, <4>1, <5>2
        <5> QED BY <5>1, <5>2
      <4>3. life'[y] \in {"new", "running"} /\ thr'[c] = y /\ pc'[c] = "setting"
        BY <2>3, <2>4, <2>5, <3>3
      <4> QED BY <4>2, <4>3
    <3>5. \A x \in Objects : func'[x] \in refs' \cup {0} /\ func'[x] <= newRefs'
      <4>1. func'[y] \in refs' \cup {0} /\ func'[y] <= newRefs'
        BY <2>2, <2>3, <3>1, <3>2
      <4>2. ASSUME NEW x \in Objects, x # y
            PROVE  func'[x] \in refs' \cup {0} /\ func'[x] <= newRefs'
        <5>1. func[x] \in refs \cup {0} /\ func[x] <= newRefs /\ func[x] \in Nat
          BY <2>1
        <5>2. func[x] # 0 => func[x] # func[y]
          BY <2>1, <4>2
        <5>3. func[x] <= f
          BY <2>1, <2>2, <5>1
        <5> QED BY <2>3, <3>1, <3>2, <4>2, <5>1, <5>2, <5>3
      <4> QED BY <4>1, <4>2
    <3>6. \A x, z \in Objects : func'[x] = func'[z] /\ func'[x] # 0 => x = z
      BY <2>1, <2>2, <3>2
    <3> QED BY <2>3, <3>4, <3>5, <3>6
  <2>6. CASE ~Exists(y)
    <3>1. refs' = refs \cup {f} /\ func' = func
      BY <1>4, <2>6 DEF SetFunc
    <3> HIDE DEF y, f
    <3>2. \A x \in Objects : func[x] \in refs' \cup {0} /\ func[x] <= newRefs'
      BY <2>1, <2>2, <2>3, <3>1
    <3>3. \A x \in Objects : \/ func[x] = mid[x]
                             \/ /\ Exists(x)
                                /\ \E d \in Clients : thr[d] = x /\ pc'[d] = "setting"
      <4>1. ASSUME NEW d \in Clients, pc[d] = "setting" PROVE pc'[d] = "setting"
        BY <2>4, <4>1
      <4>2. ASSUME NEW x \in Objects, func[x] # mid[x]
            PROVE  Exists(x) /\ \E d \in Clients : thr[d] = x /\ pc[d] = "setting"
        BY <4>2
      <4> HIDE DEF Paired, Exists
      <4> QED BY <4>1, <4>2
    <3> QED BY <2>3, <3>1, <3>2, <3>3
  <2> QED BY <2>5, <2>6
<1>5. ASSUME NEW c \in Clients, SetMid(c) PROVE Paired'
  <2> HIDE DEF Typed, Owned, Protected
  <2>1. /\ pc[c] = "setting" /\ thr[c] \in Objects
        /\ DOMAIN pc = Clients /\ DOMAIN thr = Clients /\ DOMAIN mid = Objects
    BY <1>5 DEF SetMid, Typed
  <2>2. /\ mid' = IF Exists(thr[c]) THEN [mid EXCEPT ![thr[c]] = func[thr[c]]] ELSE mid
        /\ pc' = [pc EXCEPT ![c] = "idle"] /\ thr' = [thr EXCEPT ![c] = None]
        /\ UNCHANGED <<life, func, mpc, taken, refs, newRefs>>
    BY <1>5 DEF SetMid, ReleaseProxy, Done
  <2>3. func[thr[c]] = mid'[thr[c]]
    <3>1. CASE Exists(thr[c])
      BY <2>1, <2>2, <3>1
    <3>2. CASE ~Exists(thr[c])
      BY <2>1, <2>2, <3>2
    <3> QED BY <3>1, <3>2
  <2>4. \A x \in Objects : x # thr[c] => mid'[x] = mid[x]
    BY <2>1, <2>2
  <2>5. ASSUME NEW x \in Objects, NEW d \in Clients,
               x # thr[c], thr[d] = x, pc[d] = "setting"
        PROVE  thr'[d] = x /\ pc'[d] = "setting"
    BY <2>1, <2>2, <2>5
  <2>6. \A x \in Objects : \/ func'[x] = mid'[x]
                           \/ /\ Exists(x)'
                              /\ \E d \in Clients : thr'[d] = x /\ pc'[d] = "setting"
    <3>1. ASSUME NEW x \in Objects, x # thr[c]
          PROVE  \/ func'[x] = mid'[x]
                 \/ Exists(x)' /\ \E d \in Clients : thr'[d] = x /\ pc'[d] = "setting"
      <4>1. CASE func[x] = mid[x]
        BY <4>1, <2>2, <2>4, <3>1
      <4>2. ASSUME NEW d \in Clients, thr[d] = x, pc[d] = "setting", Exists(x)
            PROVE  Exists(x)' /\ thr'[d] = x /\ pc'[d] = "setting"
        BY <2>2, <2>5, <3>1, <4>2
      <4> QED BY <4>1, <4>2
    <3>2. func'[thr[c]] = mid'[thr[c]]
      BY <2>2, <2>3
    <3> HIDE DEF Paired, Exists
    <3> QED BY <3>1, <3>2
  <2> QED BY <2>2, <2>6
<1>6. ASSUME NEW x \in Objects, Block(x) PROVE Paired'
  BY <1>6 DEF Block, MainAt, MainGoTo, UnlockMutex
<1>7. ASSUME NEW x \in Objects, Take(x) PROVE Paired'
  BY <1>7 DEF Take, MainAt, MainGoTo, UnlockMutex
<1>8. ASSUME NEW x \in Objects, Call(x) PROVE Paired'
  BY <1>8 DEF Call, ownerVars, MainAt, MainGoTo
<1>9. ASSUME NEW x \in Objects, CallReturns(x) PROVE Paired'
  BY <1>9 DEF CallReturns, MainAt, MainGoTo, LockMutex
<1>10. ASSUME NEW x \in Objects, Delete(x) PROVE Paired'
  BY <1>10 DEF Delete, MainAt, MainGoTo
<1>11. ASSUME NEW x \in Objects, SpuriousWakeup(x) PROVE Paired'
  BY <1>11 DEF SpuriousWakeup
<1>12. CASE UNCHANGED vars
  BY <1>12 DEF vars, ownerVars, mainVars
<1> QED
  BY <1>1, <1>2, <1>3, <1>4, <1>5, <1>6, <1>7, <1>8, <1>9, <1>10, <1>11, <1>12
  DEF Next, Proxy, Main, Quiet

(* Main takes no message once the thread is stopped.                         *)
LEMMA LastCallStep ==
  ASSUME Typed, Owned, Protected, LastCall, [Next]_vars
  PROVE  LastCall'
<1>1. ASSUME NEW c \in Clients, OwnerStep(c) \/ OwnerProgress(c), UNCHANGED mainVars
      PROVE  LastCall'
  <2>1. OwnerKeeps
    BY <1>1, OwnerFrame
  <2> QED BY <2>1, <1>1 DEF OwnerKeeps, mainVars, Typed, Protected, LastCall
<1>2. ASSUME NEW x \in Objects, Quiet(x) PROVE LastCall'
  <2>1. QuietKeeps(x)
    BY <1>2, QuietFrame
  <2> QED BY <2>1 DEF QuietKeeps, UnchangedButMutex, Typed, Protected, LastCall
<1>3. ASSUME NEW c \in Clients, Proxy(c) PROVE LastCall'
  BY <1>3, ProxyFrame DEF ProxyKeeps, LastCall
<1> USE SafeThreadAssumption DEF Typed, Protected, LastCall
<1>4. ASSUME NEW x \in Objects, Block(x) PROVE LastCall'
  BY <1>4 DEF Block, MainAt, MainGoTo, UnlockMutex
<1>5. ASSUME NEW x \in Objects, Take(x) PROVE LastCall'
  BY <1>5 DEF Take, MainAt, MainGoTo, UnlockMutex
<1>6. ASSUME NEW x \in Objects, Call(x) PROVE LastCall'
  BY <1>6 DEF Call, ownerVars, MainAt, MainGoTo
<1>7. ASSUME NEW x \in Objects, CallReturns(x) PROVE LastCall'
  BY <1>7 DEF CallReturns, MainAt, MainGoTo, LockMutex
<1>8. ASSUME NEW x \in Objects, Delete(x) PROVE LastCall'
  BY <1>8 DEF Delete, MainAt, MainGoTo
<1>9. ASSUME NEW x \in Objects, SpuriousWakeup(x) PROVE LastCall'
  BY <1>9 DEF SpuriousWakeup
<1>10. CASE UNCHANGED vars
  BY <1>10 DEF vars, ownerVars, mainVars
<1> QED
  BY <1>1, <1>2, <1>3, <1>4, <1>5, <1>6, <1>7, <1>8, <1>9, <1>10
  DEF Next, Main, Quiet

(* Main lets go of m_mutex for the last time when the thread is stopped, and *)
(* no proxy is made of a stopped thread.                                     *)
LEMMA LeftStep ==
  ASSUME Typed, Owned, Protected, Left, ~AttachMayFail, [Next]_vars
  PROVE  Left'
<1>1. ASSUME NEW c \in Clients, OwnerStep(c) \/ OwnerProgress(c), UNCHANGED mainVars
      PROVE  Left'
  <2>1. OwnerKeeps
    BY <1>1, OwnerFrame
  <2>2. \A x \in Objects : mpc[x] = "delete" => life[x] = "running"
    BY DEF Protected
  <2> QED BY <1>1, <2>1, <2>2 DEF OwnerKeeps, mainVars, Left
<1>2. ASSUME NEW c \in Clients, Proxy(c) PROVE Left'
  <2>1. ProxyKeeps(c)
    BY <1>2, ProxyFrame
  <2>2. \A d \in Clients, x \in Objects : UsesProxy(d, x)' => UsesProxy(d, x)
    BY <2>1, SafeThreadAssumption DEF ProxyKeeps, Typed, UsesProxy
  <2> QED BY <2>1, <2>2 DEF ProxyKeeps, Left
<1>3. ASSUME NEW x \in Objects, Main(x) \/ SpuriousWakeup(x) PROVE Left'
  <2>1. MainKeeps
    BY <1>3, MainFrame
  <2>2. CASE Detach(x)
    <3>1. ~active[x] /\ mutex[x] = x /\ Exists(x)
      BY <2>2 DEF Protected, MainHolds, Detach, MainAt, Exists
    <3>2. \A c \in Clients : ~UsesProxy(c, x)
      BY <3>1, SafeThreadAssumption DEF Protected
    <3>3. \A y \in Objects : y # x => mpc'[y] = mpc[y]
      BY <2>2 DEF Detach, MainGoTo
    <3> QED BY <2>1, <3>1, <3>2, <3>3 DEF MainKeeps, Left, UsesProxy
  <2>3. CASE ~Detach(x)
    <3>1. \A y \in Objects : mpc'[y] = "delete" => mpc[y] = "delete"
      BY <1>3, <2>3, ~AttachMayFail DEF Typed, Main, Attach, AttachFails, Enter, Top,
         Predicate, Block, Wake, Check, LeaveInner, Take, Call, CallReturns, Delete,
         SpuriousWakeup, MainAt, MainGoTo
    <3> QED BY <2>1, <3>1 DEF MainKeeps, Left, UsesProxy
  <2> QED BY <2>2, <2>3
<1>4. CASE UNCHANGED vars
  BY <1>4 DEF vars, ownerVars, mainVars, Left, UsesProxy
<1> QED BY <1>1, <1>2, <1>3, <1>4 DEF Next

(* A running thread's object is deleted at the end of its own Main only. *)
LEMMA FreedByDelete ==
  ASSUME Typed, Owned, [Next]_vars,
         NEW x \in Objects, life[x] = "running", life'[x] = "freed"
  PROVE  mpc[x] = "delete"
<1> USE DEF Typed
<1>1. ASSUME NEW c \in Clients, NEW o \in Owners, NEW y \in Objects,
             StartInstall(c, o, y) \/ StartReject(c, o, y)
      PROVE  FALSE
  BY <1>1 DEF StartInstall, StartReject
<1>2. ASSUME NEW c \in Clients, Spawn(c) PROVE FALSE
  BY <1>2 DEF Spawn, Done
<1>3. ASSUME NEW c \in Clients, life' # life, OwnerStep(c) \/ OwnerProgress(c)
      PROVE  \/ \E o \in Owners, y \in Objects :
                  StartInstall(c, o, y) \/ StartReject(c, o, y)
             \/ Spawn(c)
  BY <1>3 DEF OwnerStep, OwnerProgress, StopTake, ProxyLoad, MoveOut, StopDeactivate,
     StopNotify, MoveIn, ProxyLock, ProxyInactive, ProxyFreed
<1>4. ASSUME NEW c \in Clients, Proxy(c) PROVE life' = life
  BY <1>4, ProxyFrame DEF ProxyKeeps
<1>5. ASSUME NEW y \in Objects, Main(y) \/ SpuriousWakeup(y), ~Delete(y)
      PROVE  life' = life
  BY <1>5 DEF Main, SpuriousWakeup, ownerVars, UnchangedButMutex,
     Attach, AttachFails, Enter, Top, Predicate, Block, Wake, Check, LeaveInner, Take,
     Call, CallReturns, Detach
<1>6. ASSUME NEW y \in Objects, Delete(y) PROVE mpc[x] = "delete"
  BY <1>6 DEF Delete, MainAt
<1>7. CASE UNCHANGED vars
  BY <1>7 DEF vars, ownerVars
<1> QED BY <1>1, <1>2, <1>3, <1>4, <1>5, <1>6, <1>7 DEF Next

-----------------------------------------------------------------------------
Inv == Typed /\ Owned /\ Protected /\ Paired /\ LastCall /\ NoOrphan

(* In the beginning no thread exists. *)
LEMMA InitInv == Init => Inv
<1> SUFFICES ASSUME Init PROVE Inv
  OBVIOUS
<1> USE SafeThreadAssumption DEF Init, OwnerInit
<1>1. Typed
  BY DEF Typed
<1>2. Owned
  BY DEF Owned, Answers
<1>3. Protected
  BY DEF Protected, MainHolds, UsesProxy, Exists
<1>4. Paired
  BY DEF Paired
<1>5. LastCall
  BY DEF LastCall
<1>6. NoOrphan
  BY DEF NoOrphan
<1> QED BY <1>1, <1>2, <1>3, <1>4, <1>5, <1>6 DEF Inv

(* The invariant holds in every reachable state. *)
LEMMA Invariance == Spec => []Inv
<1>1. Init => Inv
  BY InitInv
<1>2. Inv /\ [Next]_vars => Inv'
  BY TypedStep, OwnedStep, ProtectedStep, PairedStep, LastCallStep, NoOrphanStep DEF Inv
<1> QED BY <1>1, <1>2, PTL DEF Spec

(* A set without two different elements has at most one. *)
LEMMA AtMostOne ==
  ASSUME NEW S, \A a, b \in S : a = b
  PROVE  \/ S = {} /\ Cardinality(S) = 0
         \/ S # {} /\ Cardinality(S) = 1
<1>1. CASE S = {}
  <2>1. Cardinality({}) = 0
    BY FS_EmptySet
  <2> QED BY <1>1, <2>1
<1>2. CASE S # {}
  <2>1. PICK a \in S : S = {a}
    BY <1>2
  <2> QED BY <1>2, <2>1, FS_Singleton
<1> QED BY <1>1, <1>2

(* A thread that has an owner has no other, nor a call that is about to    *)
(* delete it.                                                              *)
LEMMA OwnedIsOnce == Owned => OwnedOnce
<1> SUFFICES ASSUME Owned, NEW x \in Objects
             PROVE  Cardinality({o \in Owners : owner[o] = x})
                      + Cardinality({c \in Clients : thr[c] = x
                                       /\ pc[c] \in {"deactivate", "assign"}}) <= 1
  BY DEF OwnedOnce
<1> DEFINE S == {o \in Owners : owner[o] = x}
           T == {c \in Clients : thr[c] = x /\ pc[c] \in {"deactivate", "assign"}}
<1>1. x # None
  BY SafeThreadAssumption
<1>2. \A o, p \in S : o = p
  BY <1>1 DEF Owned
<1>3. \A c, d \in T : c = d
  BY <1>1 DEF Owned, Answers
<1>4. S = {} \/ T = {}
  BY <1>1 DEF Owned, Answers
<1>5. (S = {} /\ Cardinality(S) = 0) \/ (S # {} /\ Cardinality(S) = 1)
  BY <1>2, AtMostOne
<1>6. (T = {} /\ Cardinality(T) = 0) \/ (T # {} /\ Cardinality(T) = 1)
  BY <1>3, AtMostOne
<1> HIDE DEF S, T
<1>7. Cardinality(S) + Cardinality(T) <= 1
  BY <1>4, <1>5, <1>6
<1> QED BY <1>7 DEF S, T

-----------------------------------------------------------------------------
(* the counters                                                            *)

(* the clients that have loaded a pointer for a proxy and not used it yet  *)
Users == {c \in Clients : pc[c] \in {"lock", "held"}}

(* What was queued or made was so by a proxy that is used up.  newRefs and *)
(* a queue each have their own.                                            *)
Counted ==
  /\ IsFiniteSet(Users)
  /\ uses \in Nat /\ uses <= MaxUses
  /\ newRefs + Cardinality(Users) <= uses
  /\ \A x \in Objects : Len(queue[x]) + Cardinality(Users) <= uses

(* the references that exist, or are stored or copied, have been made      *)
Numbered ==
  /\ moves \in 0 .. MaxMoves /\ spurious \in 0 .. MaxSpurious
  /\ refs \subseteq 1 .. newRefs
  /\ \A x \in Objects : /\ func[x] \in 0 .. newRefs /\ mid[x] \in 0 .. newRefs
                        /\ taken[x] \in (0 .. newRefs) \X (0 .. newRefs)

(* A step that begins no proxy, makes no reference and queues nothing      *)
(* keeps the counts.                                                       *)
LEMMA CountsKept ==
  ASSUME Typed, Typed', Counted, Users' \subseteq Users, uses' = uses, newRefs' = newRefs,
         \A x \in Objects : Len(queue'[x]) <= Len(queue[x])
  PROVE  Counted'
<1>1. /\ IsFiniteSet(Users') /\ Cardinality(Users') <= Cardinality(Users)
      /\ Cardinality(Users') \in Nat /\ Cardinality(Users) \in Nat
  BY FS_Subset, FS_CardinalityType DEF Counted
<1>2. \A x \in Objects : Len(queue'[x]) \in Nat /\ Len(queue[x]) \in Nat
  BY DEF Typed
<1>3. newRefs \in Nat
  BY DEF Typed
<1>4. newRefs' + Cardinality(Users') <= uses'
  BY <1>1, <1>3 DEF Counted
<1>5. \A x \in Objects : Len(queue'[x]) + Cardinality(Users') <= uses'
  BY <1>1, <1>2 DEF Counted
<1> QED BY <1>1, <1>4, <1>5 DEF Counted

(* A proxy that is used makes one reference or queues one message.         *)
LEMMA CountsUsed ==
  ASSUME Typed, Typed', Counted, NEW c \in Users, Users' = Users \ {c}, uses' = uses,
         newRefs' <= newRefs + 1, \A x \in Objects : Len(queue'[x]) <= Len(queue[x]) + 1
  PROVE  Counted'
<1>1. /\ IsFiniteSet(Users') /\ Cardinality(Users') = Cardinality(Users) - 1
      /\ Cardinality(Users') \in Nat /\ Cardinality(Users) \in Nat
  BY FS_RemoveElement, FS_CardinalityType, FS_Subset DEF Counted
<1>2. \A x \in Objects : Len(queue'[x]) \in Nat /\ Len(queue[x]) \in Nat
  BY DEF Typed
<1>3. newRefs \in Nat /\ newRefs' \in Nat
  BY DEF Typed
<1>4. newRefs' + Cardinality(Users') <= uses'
  BY <1>1, <1>3 DEF Counted
<1>5. \A x \in Objects : Len(queue'[x]) + Cardinality(Users') <= uses'
  BY <1>1, <1>2 DEF Counted
<1> QED BY <1>1, <1>4, <1>5 DEF Counted

(* A load of the pointer begins one more.                                  *)
LEMMA CountsBegun ==
  ASSUME Typed, Counted, NEW c \in Clients, NEW o \in Owners, ProxyLoad(c, o),
         UNCHANGED mainVars
  PROVE  Counted'
<1>1. /\ pc[c] = "idle" /\ pc' = [pc EXCEPT ![c] = "lock"] /\ uses < MaxUses /\ uses' = uses + 1
      /\ newRefs' = newRefs /\ queue' = queue
  BY DEF ProxyLoad, GoTo, mainVars
<1>2. c \notin Users /\ Users' = Users \cup {c}
  BY <1>1 DEF Typed, Users
<1>3. /\ IsFiniteSet(Users') /\ Cardinality(Users') = Cardinality(Users) + 1
      /\ Cardinality(Users) \in Nat
  BY <1>2, FS_AddElement, FS_CardinalityType DEF Counted
<1>4. newRefs \in Nat /\ \A x \in Objects : Len(queue[x]) \in Nat
  BY DEF Typed
<1>5. uses' \in Nat /\ uses' <= MaxUses
  BY <1>1, SafeThreadAssumption DEF Counted
<1>6. newRefs' + Cardinality(Users') <= uses'
  BY <1>1, <1>3, <1>4 DEF Counted
<1>7. \A x \in Objects : Len(queue'[x]) + Cardinality(Users') <= uses'
  BY <1>1, <1>3, <1>4 DEF Counted
<1> QED BY <1>3, <1>5, <1>6, <1>7 DEF Counted

(* No step makes or queues more than proxies were made for.                *)
LEMMA CountedStep ==
  ASSUME Typed, Counted, [Next]_vars
  PROVE  Counted'
<1>0. Typed'
  BY TypedStep
<1>1. ASSUME NEW c \in Clients, NEW o \in Owners, ProxyLoad(c, o), UNCHANGED mainVars
      PROVE  Counted'
  BY <1>1, CountsBegun
<1>2. ASSUME NEW c \in Clients, UNCHANGED mainVars,
             \/ \E o \in Owners, x \in Objects : StartInstall(c, o, x) \/ StartReject(c, o, x)
             \/ \E o \in Owners : StopTake(c, o)
             \/ \E from, to \in Owners : MoveOut(c, from, to)
             \/ OwnerProgress(c)
      PROVE  Counted'
  <2>1. uses' = uses /\ newRefs' = newRefs /\ queue' = queue
    BY <1>2 DEF mainVars, StartInstall, StartReject, StopTake, MoveOut, OwnerProgress, Spawn,
                StopDeactivate, StopNotify, MoveIn, ProxyLock, ProxyInactive, ProxyFreed
  <2>2. \/ pc' = pc
        \/ \E l \in {"idle", "spawn", "deactivate", "notify", "assign"} :
             pc' = [pc EXCEPT ![c] = l]
        \/ pc[c] = "lock" /\ pc' = [pc EXCEPT ![c] = "held"]
    BY <1>2 DEF StartInstall, StartReject, StopTake, MoveOut, OwnerProgress, Spawn,
                StopDeactivate, StopNotify, MoveIn, ProxyLock, ProxyInactive, ProxyFreed,
                GoTo, Done
  <2>3. Users' \subseteq Users
    BY <2>2 DEF Typed, Users
  <2>4. \A x \in Objects : Len(queue'[x]) <= Len(queue[x])
    BY <2>1 DEF Typed
  <2> QED BY <1>0, <2>1, <2>3, <2>4, CountsKept
<1>3. ASSUME NEW c \in Clients, Send(c)
      PROVE  Counted'
  <2>1. /\ pc[c] = "held" /\ pc' = [pc EXCEPT ![c] = "idle"] /\ uses' = uses
        /\ newRefs' = newRefs
        /\ queue' = queue \/ queue' = [queue EXCEPT ![thr[c]] = Append(@, c)]
    BY <1>3 DEF Send, ReleaseProxy, Done
  <2>2. c \in Users /\ Users' = Users \ {c}
    BY <2>1 DEF Typed, Users
  <2>3. \A x \in Objects : Len(queue'[x]) <= Len(queue[x]) + 1
    <3> TAKE x \in Objects
    <3>1. queue[x] \in Seq(Clients) /\ Len(queue[x]) \in Nat
      BY DEF Typed
    <3>2. queue'[x] = queue[x] \/ queue'[x] = Append(queue[x], c)
      BY <2>1 DEF Typed
    <3> QED BY <3>1, <3>2
  <2>4. newRefs' <= newRefs + 1
    BY <2>1 DEF Typed
  <2> QED BY <1>0, <2>1, <2>2, <2>3, <2>4, CountsUsed
<1>4. ASSUME NEW c \in Clients, SetFunc(c)
      PROVE  Counted'
  <2>1. /\ pc[c] = "held" /\ pc' = [pc EXCEPT ![c] = "setting"] /\ uses' = uses
        /\ newRefs' = newRefs + 1 /\ queue' = queue
    BY <1>4 DEF SetFunc, GoTo
  <2>2. c \in Users /\ Users' = Users \ {c}
    BY <2>1 DEF Typed, Users
  <2>3. newRefs' <= newRefs + 1 /\ \A x \in Objects : Len(queue'[x]) <= Len(queue[x]) + 1
    BY <2>1 DEF Typed
  <2> QED BY <1>0, <2>1, <2>2, <2>3, CountsUsed
<1>5. ASSUME NEW c \in Clients, SetMid(c)
      PROVE  Counted'
  <2>1. /\ pc' = [pc EXCEPT ![c] = "idle"] /\ uses' = uses /\ newRefs' = newRefs
        /\ queue' = queue
    BY <1>5 DEF SetMid, ReleaseProxy, Done
  <2>2. Users' \subseteq Users
    BY <2>1 DEF Typed, Users
  <2>3. \A x \in Objects : Len(queue'[x]) <= Len(queue[x])
    BY <2>1 DEF Typed
  <2> QED BY <1>0, <2>1, <2>2, <2>3, CountsKept
<1>6. ASSUME NEW x \in Objects, Main(x) \/ SpuriousWakeup(x)
      PROVE  Counted'
  <2>1. /\ UNCHANGED <<pc, uses, newRefs>>
        /\ \/ queue' = queue
           \/ queue[x] # << >> /\ queue' = [queue EXCEPT ![x] = Tail(@)]
           \/ queue' = [queue EXCEPT ![x] = << >>]
    BY <1>6 DEF Main, SpuriousWakeup, ownerVars, UnchangedButMutex, Attach, AttachFails, Enter,
                Top, Predicate, Block, Wake, Check, LeaveInner, Take, Call, CallReturns, Detach,
                Delete
  <2>2. Users' \subseteq Users
    BY <2>1 DEF Users
  <2>3. \A y \in Objects : Len(queue'[y]) <= Len(queue[y])
    <3> TAKE y \in Objects
    <3>1. queue[y] \in Seq(Clients) /\ Len(queue[y]) \in Nat
      BY DEF Typed
    <3>2. \/ queue'[y] = queue[y] \/ queue'[y] = << >>
          \/ queue[y] # << >> /\ queue'[y] = Tail(queue[y])
      BY <2>1 DEF Typed
    <3>3. CASE queue'[y] \in {queue[y], << >>}
      BY <3>1, <3>3
    <3>4. CASE queue[y] # << >> /\ queue'[y] = Tail(queue[y])
      <4>1. Len(Tail(queue[y])) = Len(queue[y]) - 1
        BY <3>1, <3>4
      <4> QED BY <3>1, <3>4, <4>1
    <3> QED BY <3>2, <3>3, <3>4
  <2> QED BY <1>0, <2>1, <2>2, <2>3, CountsKept
<1>7. CASE UNCHANGED vars
  <2>1. UNCHANGED <<pc, uses, newRefs, queue>>
    BY <1>7 DEF vars, ownerVars, mainVars
  <2>2. Users' \subseteq Users /\ \A x \in Objects : Len(queue'[x]) <= Len(queue[x])
    BY <2>1 DEF Users, Typed
  <2> QED BY <1>0, <2>1, <2>2, CountsKept
<1> QED BY <1>1, <1>2, <1>3, <1>4, <1>5, <1>6, <1>7 DEF Next, OwnerStep, Proxy

(* Only references that were made are stored, copied or deleted.           *)
LEMMA NumberedStep ==
  ASSUME Typed, Numbered, [Next]_vars
  PROVE  Numbered'
<1>1. ASSUME NEW c \in Clients, OwnerStep(c) \/ OwnerProgress(c), UNCHANGED mainVars
      PROVE  Numbered'
  <2>1. moves' = moves \/ (moves < MaxMoves /\ moves' = moves + 1)
    BY <1>1 DEF OwnerStep, StartInstall, StartReject, StopTake, ProxyLoad, MoveOut, OwnerProgress,
                Spawn, StopDeactivate, StopNotify, MoveIn, ProxyLock, ProxyInactive, ProxyFreed
  <2>2. moves' \in 0 .. MaxMoves
    BY <2>1, SafeThreadAssumption DEF Numbered
  <2> QED BY <1>1, <2>2 DEF mainVars, Numbered
<1>2. ASSUME NEW c \in Clients, SetFunc(c)
      PROVE  Numbered'
  <2>1. /\ newRefs' = newRefs + 1 /\ UNCHANGED <<moves, spurious, mid, taken>>
        /\ refs' \subseteq refs \cup {newRefs + 1}
        /\ func' = func \/ func' = [func EXCEPT ![thr[c]] = newRefs + 1]
    BY <1>2 DEF SetFunc
  <2>2. newRefs \in Nat /\ 0 .. newRefs \subseteq 0 .. newRefs + 1 /\ newRefs + 1 \in 0 .. newRefs + 1
    BY DEF Typed
  <2>3. refs' \subseteq 1 .. newRefs'
    BY <2>1, <2>2 DEF Numbered
  <2>4. \A x \in Objects : func'[x] \in 0 .. newRefs'
    BY <2>1, <2>2 DEF Numbered, Typed
  <2>5. \A x \in Objects : mid'[x] \in 0 .. newRefs'
    BY <2>1, <2>2 DEF Numbered
  <2>6. \A x \in Objects : taken'[x] \in (0 .. newRefs') \X (0 .. newRefs')
    BY <2>1, <2>2 DEF Numbered
  <2> QED BY <2>1, <2>3, <2>4, <2>5, <2>6 DEF Numbered
<1>3. ASSUME NEW c \in Clients, Send(c) \/ SetMid(c)
      PROVE  Numbered'
  <2>1. /\ UNCHANGED <<moves, spurious, refs, newRefs, func, taken>>
        /\ mid' = mid \/ mid' = [mid EXCEPT ![thr[c]] = func[thr[c]]]
    BY <1>3 DEF Send, SetMid
  <2>2. \A x \in Objects : mid'[x] \in 0 .. newRefs
    BY <2>1 DEF Numbered, Typed
  <2> QED BY <2>1, <2>2 DEF Numbered
<1>4. ASSUME NEW x \in Objects, Main(x) \/ SpuriousWakeup(x)
      PROVE  Numbered'
  <2>1. /\ UNCHANGED <<moves, refs, newRefs>>
        /\ spurious' = spurious \/ (spurious < MaxSpurious /\ spurious' = spurious + 1)
        /\ func' = func \/ func' = [func EXCEPT ![x] = 0]
        /\ mid' = mid \/ mid' = [mid EXCEPT ![x] = 0]
        /\ \/ taken' = taken
           \/ taken' = [taken EXCEPT ![x] = <<func[x], mid[x]>>]
           \/ taken' = [taken EXCEPT ![x] = <<0, 0>>]
    BY <1>4 DEF Main, SpuriousWakeup, ownerVars, UnchangedButMutex, Attach, AttachFails, Enter,
                Top, Predicate, Block, Wake, Check, LeaveInner, Take, Call, CallReturns, Detach,
                Delete
  <2>2. spurious' \in 0 .. MaxSpurious
    BY <2>1, JCallbackAssumption DEF Numbered
  <2>3. newRefs \in Nat /\ 0 \in 0 .. newRefs
    BY DEF Typed
  <2>4. \A y \in Objects : func'[y] \in 0 .. newRefs /\ mid'[y] \in 0 .. newRefs
    BY <2>1, <2>3 DEF Numbered, Typed
  <2>5. \A y \in Objects : taken'[y] \in (0 .. newRefs) \X (0 .. newRefs)
    <3>1. /\ <<func[x], mid[x]>> \in (0 .. newRefs) \X (0 .. newRefs)
          /\ <<0, 0>> \in (0 .. newRefs) \X (0 .. newRefs)
      BY <2>3 DEF Numbered
    <3>2. \A y \in Objects : taken'[y] \in {taken[y], <<func[x], mid[x]>>, <<0, 0>>}
      BY <2>1 DEF Typed
    <3> QED BY <3>1, <3>2 DEF Numbered
  <2> QED BY <2>1, <2>2, <2>4, <2>5 DEF Numbered
<1>5. CASE UNCHANGED vars
  BY <1>5 DEF vars, ownerVars, mainVars, Numbered
<1> QED BY <1>1, <1>2, <1>3, <1>4, <1>5 DEF Next, Proxy

-----------------------------------------------------------------------------
(* Whatever races of Start, Stop and move assignment there are, a thread   *)
(* that is to go on has an owner, or a client that is about to stop it or  *)
(* to give it to one.                                                      *)
THEOREM NoThreadIsOrphaned == Spec => []NoOrphan
<1>1. Inv => NoOrphan
  BY DEF Inv
<1> QED BY <1>1, Invariance, PTL

(* Every variable keeps its type, and nothing is queued or made but what a *)
(* proxy was made for.                                                     *)
THEOREM CallbackTypes == Spec => []TypeOK
<1>1. Init => Typed /\ Counted /\ Numbered
  <2> SUFFICES ASSUME Init
               PROVE  Typed /\ Counted /\ Numbered
    OBVIOUS
  <2>1. Typed
    BY InitInv DEF Inv
  <2>2. Users = {}
    BY DEF Init, OwnerInit, Users
  <2>3. IsFiniteSet(Users) /\ Cardinality(Users) = 0
    BY <2>2, FS_EmptySet
  <2>4. Counted
    BY <2>3, SafeThreadAssumption DEF Init, OwnerInit, Counted
  <2>5. Numbered
    BY SafeThreadAssumption, JCallbackAssumption DEF Init, OwnerInit, Numbered
  <2> QED BY <2>1, <2>4, <2>5
<1>2. Typed /\ Counted /\ Numbered /\ [Next]_vars => (Typed /\ Counted /\ Numbered)'
  BY TypedStep, CountedStep, NumberedStep
<1>3. ASSUME Typed, Counted, Numbered
      PROVE  TypeOK
  <2>1. Cardinality(Users) \in Nat
    BY <1>3, FS_CardinalityType DEF Counted
  <2>2. newRefs \in Nat /\ newRefs <= uses /\ uses \in Nat /\ uses <= MaxUses /\ MaxUses \in Nat
    BY <1>3, <2>1, SafeThreadAssumption DEF Typed, Counted
  <2>3. \A x \in Objects : Len(queue[x]) <= uses
    <3> TAKE x \in Objects
    <3>1. Len(queue[x]) \in Nat
      BY <1>3 DEF Typed
    <3> QED BY <1>3, <2>1, <2>2, <3>1 DEF Counted
  <2>4. newRefs \in 0 .. MaxUses /\ uses \in 0 .. MaxUses /\ 0 .. newRefs \subseteq 0 .. MaxUses
    BY <2>2
  <2>5. func \in [Objects -> 0 .. MaxUses] /\ mid \in [Objects -> 0 .. MaxUses]
    BY <1>3, <2>4 DEF Typed, Numbered
  <2>6. taken \in [Objects -> (0 .. MaxUses) \X (0 .. MaxUses)]
    <3>1. \A x \in Objects : taken[x] \in (0 .. MaxUses) \X (0 .. MaxUses)
      BY <1>3, <2>4 DEF Numbered
    <3> QED BY <1>3, <3>1 DEF Typed
  <2>7. OwnerTypeOK
    BY <1>3, <2>4 DEF Typed, Numbered, OwnerTypeOK
  <2> QED BY <1>3, <2>3, <2>4, <2>5, <2>6, <2>7 DEF Typed, Numbered, TypeOK
<1> QED BY <1>1, <1>2, <1>3, PTL DEF Spec

(* No thread object is in two owners, or in one and being stopped.         *)
THEOREM ThreadsHaveOneOwner == Spec => []OwnedOnce
<1>1. Inv => OwnedOnce
  BY OwnedIsOnce DEF Inv
<1> QED BY <1>1, Invariance, PTL

(* The function and the method of a callback belong together, and m_func   *)
(* is never a reference that was deleted.                                  *)
THEOREM CallbacksAreConsistent == Spec => []CallbackConsistent
<1>1. Inv => CallbackConsistent
  BY DEF Inv, Paired, CallbackConsistent
<1> QED BY <1>1, Invariance, PTL

(* After Stop has cleared m_active at most one more callback begins.       *)
THEOREM FewLateCallbacks == Spec => []OneLateCallback
<1>1. ASSUME Inv PROVE OneLateCallback
  <2>1. \A x \in Objects : late[x] = 0 \/ late[x] = 1
    BY <1>1 DEF Inv, LastCall
  <2> QED BY <2>1 DEF OneLateCallback
<1> QED BY <1>1, Invariance, PTL

(* Main never sleeps beside a message.                                     *)
THEOREM MessagesWakeMain == Spec => []NoSleepOnMessage
<1>1. Inv => NoSleepOnMessage
  BY DEF Inv, Typed, Protected, NoSleepOnMessage
<1> QED BY <1>1, Invariance, PTL

(* When the thread can attach to the Java VM, its object is not deleted    *)
(* while a client holds a proxy of it.                                     *)
THEOREM ProxyKeepsObject ==
  ASSUME ~AttachMayFail
  PROVE  Spec => FreeRespectsProxy
<1>1. Init => Left
  BY DEF Init, Left
<1>2. Inv /\ Left /\ [Next]_vars => Left'
  BY LeftStep DEF Inv
<1>3. Inv /\ Left /\ [Next]_vars =>
        [\A x \in Objects : life[x] = "running" /\ life'[x] = "freed" =>
           \A c \in Clients : ~UsesProxy(c, x)]_vars
  <2> SUFFICES ASSUME Inv, Left, [Next]_vars,
                      NEW x \in Objects, life[x] = "running", life'[x] = "freed",
                      NEW c \in Clients
               PROVE  ~UsesProxy(c, x)
    OBVIOUS
  <2>1. mpc[x] = "delete"
    BY FreedByDelete DEF Inv
  <2> QED BY <2>1 DEF Left
<1> QED BY <1>1, <1>2, <1>3, Invariance, PTL DEF Spec, FreeRespectsProxy
=============================================================================
