------------------------------ MODULE JCallback ------------------------------
(***************************************************************************)
(* JCallbackThread and JCallbackManager (support/jni_util.h): a SafeThread *)
(* whose Main attaches to the Java VM, waits for messages and hands each   *)
(* to a Java callback, with m_mutex released during the call.  Clients     *)
(* send messages and change the callback through proxies.                  *)
(*                                                                         *)
(* A global reference made by SetFunc is a number; the method id that goes *)
(* with it is the same number, 0 standing for nullptr and for the m_mid    *)
(* nobody has set.  Callback code runs between Call and CallReturns; what  *)
(* it does with the owner is what any client may do meanwhile.             *)
(***************************************************************************)
EXTENDS SafeThread

CONSTANTS
  AttachMayFail,  \* whether AttachCurrentThreadAsDaemon may fail
  MaxSpurious     \* bound: spurious wakeups in a behaviour

ASSUME JCallbackAssumption ==
  /\ AttachMayFail \in BOOLEAN
  /\ MaxSpurious \in Nat

VARIABLES
  mpc,       \* mpc[x]: where Main of object x is
  queue,     \* queue[x]: m_queue, each message as the client that sent it
  func,      \* func[x]: m_func
  mid,       \* mid[x]: m_mid
  taken,     \* taken[x]: the func and mid that Main has copied for its call
  refs,      \* the global references that exist
  newRefs,   \* how many global references were made so far
  late,      \* late[x]: callbacks begun after m_active was cleared
  spurious   \* spurious wakeups so far

mainVars == <<mpc, queue, func, mid, taken, refs, newRefs, late, spurious>>
vars == <<ownerVars, mainVars>>

Init ==
  /\ OwnerInit
  /\ mpc = [x \in Objects |-> "attach"]
  /\ queue = [x \in Objects |-> << >>]
  /\ func = [x \in Objects |-> 0]
  /\ mid = [x \in Objects |-> 0]
  /\ taken = [x \in Objects |-> <<0, 0>>]
  /\ refs = {}
  /\ newRefs = 0
  /\ late = [x \in Objects |-> 0]
  /\ spurious = 0

-----------------------------------------------------------------------------
(* JCallbackManager, on a proxy *)

(* bug: the message is queued without a notification *)
SendSilently(c) ==
  LET x == thr[c] IN
  /\ pc[c] = "held"
  /\ queue' = IF Exists(x) THEN [queue EXCEPT ![x] = Append(@, c)] ELSE queue
  /\ ReleaseProxy(c)
  /\ UNCHANGED <<owner, life, active, waiting, dest, uses, moves,
                 mpc, func, mid, taken, refs, newRefs, late, spurious>>

(* bug: the message is queued once by value and once by reference *)
SendTwice(c) ==
  LET x == thr[c] IN
  /\ pc[c] = "held"
  /\ queue' = IF Exists(x) THEN [queue EXCEPT ![x] = @ \o <<c, c>>] ELSE queue
  /\ waiting' = waiting \ {x}
  /\ ReleaseProxy(c)
  /\ UNCHANGED <<owner, life, active, dest, uses, moves,
                 mpc, func, mid, taken, refs, newRefs, late, spurious>>

(* m_queue.emplace, m_cond.notify_one and the end of the proxy *)
Send(c) ==
  LET x == thr[c] IN
  /\ pc[c] = "held"
  /\ queue' = IF Exists(x) THEN [queue EXCEPT ![x] = Append(@, c)] ELSE queue
  /\ waiting' = waiting \ {x}
  /\ ReleaseProxy(c)
  /\ UNCHANGED <<owner, life, active, dest, uses, moves,
                 mpc, func, mid, taken, refs, newRefs, late, spurious>>

(* bug: the lock is dropped before m_mid is set *)
SetFuncUnlocks(c) ==
  LET x == thr[c] IN
  /\ pc[c] = "held"
  /\ newRefs' = newRefs + 1
  /\ refs' = (refs \ {func[x]}) \cup {newRefs + 1}
  /\ func' = [func EXCEPT ![x] = newRefs + 1]
  /\ mutex' = [mutex EXCEPT ![x] = None]
  /\ GoTo(c, "setting")
  /\ UNCHANGED <<owner, life, active, waiting, thr, dest, uses, moves,
                 mpc, queue, mid, taken, late, spurious>>

(* SetFunc, its first half: the old global reference is deleted, a new one *)
(* stored                                                                  *)
SetFunc(c) ==
  LET x == thr[c] IN
  /\ pc[c] = "held"
  /\ newRefs' = newRefs + 1
  /\ IF Exists(x)
       THEN /\ refs' = (refs \ {func[x]}) \cup {newRefs + 1}
            /\ func' = [func EXCEPT ![x] = newRefs + 1]
       ELSE refs' = refs \cup {newRefs + 1} /\ UNCHANGED func
  /\ GoTo(c, "setting")
  /\ UNCHANGED <<owner, life, active, mutex, waiting, thr, dest, uses, moves,
                 mpc, queue, mid, taken, late, spurious>>

(* SetFunc, its second half: m_mid, and the end of the proxy *)
SetMid(c) ==
  LET x == thr[c] IN
  /\ pc[c] = "setting"
  /\ mid' = IF Exists(x) THEN [mid EXCEPT ![x] = func[x]] ELSE mid
  /\ ReleaseProxy(c)
  /\ UNCHANGED <<owner, life, active, waiting, dest, uses, moves,
                 mpc, queue, func, taken, refs, newRefs, late, spurious>>

-----------------------------------------------------------------------------
(* JCallbackThread::Main *)

MainAt(x, label) == life[x] = "running" /\ mpc[x] = label

MainGoTo(x, label) == mpc' = [mpc EXCEPT ![x] = label]

LockMutex(x) == mutex[x] = None /\ mutex' = [mutex EXCEPT ![x] = x]

UnlockMutex(x) == mutex' = [mutex EXCEPT ![x] = None]

(* what a step that only moves Main, takes or drops the lock leaves alone *)
UnchangedButMutex ==
  UNCHANGED <<owner, life, active, waiting, pc, thr, dest, uses, moves,
              queue, func, mid, taken, refs, newRefs, late, spurious>>

(* AttachCurrentThreadAsDaemon; when it fails, Main returns at once *)
Attach(x) ==
  /\ MainAt(x, "attach")
  /\ MainGoTo(x, "enter")
  /\ UNCHANGED mutex
  /\ UnchangedButMutex

AttachFails(x) ==
  /\ AttachMayFail
  /\ MainAt(x, "attach")
  /\ MainGoTo(x, "delete")
  /\ UNCHANGED mutex
  /\ UnchangedButMutex

(* bug: Main deletes the object without having waited for the lock *)
EnterUnlessStopped(x) ==
  /\ MainAt(x, "enter")
  /\ IF active[x] THEN LockMutex(x) /\ MainGoTo(x, "top")
                  ELSE MainGoTo(x, "delete") /\ UNCHANGED mutex
  /\ UnchangedButMutex

Enter(x) ==
  /\ MainAt(x, "enter")
  /\ LockMutex(x)
  /\ MainGoTo(x, "top")
  /\ UnchangedButMutex

(* while (m_active) *)
Top(x) ==
  /\ MainAt(x, "top")
  /\ MainGoTo(x, IF active[x] THEN "predicate" ELSE "detach")
  /\ UNCHANGED mutex
  /\ UnchangedButMutex

(* bug: the wait has no predicate *)
WaitAnyway(x) ==
  /\ MainAt(x, "predicate")
  /\ MainGoTo(x, "block")
  /\ UNCHANGED mutex
  /\ UnchangedButMutex

(* the predicate of the wait, !(m_active && m_queue.empty()) *)
Predicate(x) ==
  /\ MainAt(x, "predicate")
  /\ MainGoTo(x, IF active[x] /\ queue[x] = << >> THEN "block" ELSE "check")
  /\ UNCHANGED mutex
  /\ UnchangedButMutex

(* m_cond.wait blocks and releases m_mutex in one step *)
Block(x) ==
  /\ MainAt(x, "block")
  /\ waiting' = waiting \cup {x}
  /\ UnlockMutex(x)
  /\ MainGoTo(x, "waiting")
  /\ UNCHANGED <<owner, life, active, pc, thr, dest, uses, moves,
                 queue, func, mid, taken, refs, newRefs, late, spurious>>

SpuriousWakeup(x) ==
  /\ x \in waiting
  /\ spurious < MaxSpurious
  /\ spurious' = spurious + 1
  /\ waiting' = waiting \ {x}
  /\ UNCHANGED <<owner, life, active, mutex, pc, thr, dest, uses, moves,
                 mpc, queue, func, mid, taken, refs, newRefs, late>>

(* awake again, the predicate is tested again under the lock *)
Wake(x) ==
  /\ MainAt(x, "waiting")
  /\ x \notin waiting
  /\ LockMutex(x)
  /\ MainGoTo(x, "predicate")
  /\ UnchangedButMutex

(* if (!m_active) break *)
Check(x) ==
  /\ MainAt(x, "check")
  /\ MainGoTo(x, IF active[x] THEN "inner" ELSE "detach")
  /\ UNCHANGED mutex
  /\ UnchangedButMutex

(* the end of the inner loop: no message left, or stopped *)
LeaveInner(x) ==
  /\ MainAt(x, "inner")
  /\ queue[x] = << >> \/ ~active[x]
  /\ MainGoTo(x, "top")
  /\ UNCHANGED mutex
  /\ UnchangedButMutex

(* bug: the inner loop does not look at m_active *)
TakeAlways(x) ==
  /\ MainAt(x, "inner")
  /\ queue[x] # << >>
  /\ queue' = [queue EXCEPT ![x] = Tail(@)]
  /\ taken' = [taken EXCEPT ![x] = <<func[x], mid[x]>>]
  /\ UnlockMutex(x)
  /\ MainGoTo(x, "call")
  /\ UNCHANGED <<owner, life, active, waiting, pc, thr, dest, uses, moves,
                 func, mid, refs, newRefs, late, spurious>>

(* one turn of the inner loop: a message and the callback are copied, and  *)
(* the lock is released for the call                                       *)
Take(x) ==
  /\ MainAt(x, "inner")
  /\ queue[x] # << >>
  /\ active[x]
  /\ queue' = [queue EXCEPT ![x] = Tail(@)]
  /\ taken' = [taken EXCEPT ![x] = <<func[x], mid[x]>>]
  /\ UnlockMutex(x)
  /\ MainGoTo(x, "call")
  /\ UNCHANGED <<owner, life, active, waiting, pc, thr, dest, uses, moves,
                 func, mid, refs, newRefs, late, spurious>>

(* item.CallJava begins *)
Call(x) ==
  /\ MainAt(x, "call")
  /\ late' = IF active[x] THEN late ELSE [late EXCEPT ![x] = @ + 1]
  /\ MainGoTo(x, "calling")
  /\ UNCHANGED <<ownerVars, queue, func, mid, taken, refs, newRefs, spurious>>

(* CallJava has returned and its exception, if any, is cleared; lock again *)
CallReturns(x) ==
  /\ MainAt(x, "calling")
  /\ LockMutex(x)
  /\ taken' = [taken EXCEPT ![x] = <<0, 0>>]
  /\ MainGoTo(x, "inner")
  /\ UNCHANGED <<owner, life, active, waiting, pc, thr, dest, uses, moves,
                 queue, func, mid, refs, newRefs, late, spurious>>

(* DetachCurrentThread, still under the lock, which the end of Main drops *)
Detach(x) ==
  /\ MainAt(x, "detach")
  /\ UnlockMutex(x)
  /\ MainGoTo(x, "delete")
  /\ UnchangedButMutex

(* delete newthr: the queue goes with it, the global reference stays *)
Delete(x) ==
  /\ MainAt(x, "delete")
  /\ life' = [life EXCEPT ![x] = "freed"]
  /\ queue' = [queue EXCEPT ![x] = << >>]
  /\ func' = [func EXCEPT ![x] = 0]
  /\ mid' = [mid EXCEPT ![x] = 0]
  /\ MainGoTo(x, "end")
  /\ UNCHANGED <<owner, active, mutex, waiting, pc, thr, dest, uses, moves,
                 taken, refs, newRefs, late, spurious>>

-----------------------------------------------------------------------------
Main(x) ==
  \/ Attach(x) \/ AttachFails(x) \/ Enter(x) \/ Top(x) \/ Predicate(x) \/ Block(x)
  \/ Wake(x) \/ Check(x) \/ LeaveInner(x) \/ Take(x) \/ Call(x) \/ CallReturns(x)
  \/ Detach(x) \/ Delete(x)

Proxy(c) == Send(c) \/ SetFunc(c) \/ SetMid(c)

Next ==
  \/ \E c \in Clients : (OwnerStep(c) \/ OwnerProgress(c)) /\ UNCHANGED mainVars
  \/ \E c \in Clients : Proxy(c)
  \/ \E x \in Objects : Main(x) \/ SpuriousWakeup(x)

Spec == Init /\ [][Next]_vars

(* A client inside an operation goes on, a proxy is used and let go, a     *)
(* thread runs, Java callbacks return.  Nobody must begin an operation.    *)
Fairness ==
  /\ \A c \in Clients : /\ WF_vars(OwnerProgress(c) /\ UNCHANGED mainVars)
                        /\ WF_vars(Proxy(c))
  /\ \A x \in Objects : WF_vars(Main(x))

FairSpec == Spec /\ Fairness

-----------------------------------------------------------------------------
(* Properties *)

(* Every variable keeps its type, and nothing is queued but what a proxy   *)
(* was made for.                                                           *)
TypeOK ==
  /\ OwnerTypeOK
  /\ mpc \in [Objects -> {"attach", "enter", "top", "predicate", "block", "waiting",
                          "check", "inner", "call", "calling", "detach", "delete",
                          "end"}]
  /\ queue \in [Objects -> Seq(Clients)]
  /\ \A x \in Objects : Len(queue[x]) <= uses
  /\ func \in [Objects -> 0 .. MaxUses]
  /\ mid \in [Objects -> 0 .. MaxUses]
  /\ taken \in [Objects -> (0 .. MaxUses) \X (0 .. MaxUses)]
  /\ newRefs \in 0 .. MaxUses
  /\ refs \subseteq 1 .. newRefs
  /\ late \in [Objects -> Nat]
  /\ spurious \in 0 .. MaxSpurious

(* A thread that is told to go on for ever has somebody to stop it: some   *)
(* owner points to it, or a client is about to deactivate it or to give it *)
(* to another owner.  No race of Start, Stop and move assignment loses it. *)
NoOrphan ==
  \A x \in Objects : Exists(x) /\ active[x] =>
    \/ \E o \in Owners : owner[o] = x
    \/ \E c \in Clients : thr[c] = x /\ pc[c] \in {"deactivate", "assign"}

(* No thread object has two owners, so none is stopped or started twice.   *)
OwnedOnce ==
  \A x \in Objects :
    Cardinality({o \in Owners : owner[o] = x})
      + Cardinality({c \in Clients : thr[c] = x /\ pc[c] \in {"deactivate", "assign"}}) <= 1

UsesProxy(c, x) == thr[c] = x /\ pc[c] \in {"held", "setting"}

(* A proxy also serves as a scoped lock on m_mutex: the object is not      *)
(* deleted while a client holds a proxy of it, even when it is stopped     *)
(* meanwhile, since Main leaves through the same lock.                     *)
FreeRespectsProxy ==
  [][\A x \in Objects : life[x] = "running" /\ life'[x] = "freed" =>
       \A c \in Clients : ~UsesProxy(c, x)]_vars

(* The function and the method of a call belong together, and m_func is    *)
(* null or a reference that has not been deleted.                          *)
CallbackConsistent ==
  \A x \in Objects :
    /\ mpc[x] \in {"call", "calling"} => taken[x][1] = taken[x][2]
    /\ Exists(x) => func[x] \in refs \cup {0}

(* After m_active is cleared at most one callback still begins, however    *)
(* many messages are queued.                                               *)
OneLateCallback == \A x \in Objects : late[x] <= 1

(* Main does not sleep beside a message.                                   *)
NoSleepOnMessage == \A x \in waiting : queue[x] = << >>

(* A message queued in a thread that is not stopped is handed to Java; it  *)
(* is dropped only with the whole object.                                  *)
MessagesHandled ==
  \A x \in Objects :
    (life[x] = "running" /\ queue[x] # << >>) ~> (queue[x] = << >> \/ ~active[x])

(* Stop clears m_active without m_mutex, so its change and its notify may  *)
(* both fall between Main's test and Main's sleep.                         *)
SleepsThroughStop(x) ==
  \/ mpc[x] = "block"
  \/ x \in waiting /\ \A c \in Clients : ~(thr[c] = x /\ pc[c] = "notify")

(* Everywhere else - before Main runs, in a callback, while it sleeps with *)
(* the notification still to come - a stopped thread ends and frees itself. *)
StopReachesThread ==
  \A x \in Objects :
    (life[x] = "running" /\ ~active[x] /\ ~SleepsThroughStop(x)) ~> (life[x] = "freed")

(* "other destructor will clean up": a thread that has been stopped ends.  *)
StopEndsThread ==
  \A x \in Objects : (life[x] = "running" /\ ~active[x]) ~> (life[x] = "freed")

(* "A proxy for SafeThread.  Also serves as a scoped lock on               *)
(* SafeThread::m_mutex": a proxy that is not null locks a thread object    *)
(* that exists.                                                            *)
ProxyLocksThread ==
  \A c \in Clients, x \in Objects : UsesProxy(c, x) => Exists(x) /\ mutex[x] = c
=============================================================================
