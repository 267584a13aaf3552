----------------------------- MODULE SafeThread -----------------------------
(***************************************************************************)
(* SafeThreadOwner, SafeThreadProxy and the life of a SafeThread           *)
(* (support/SafeThread.h).  An owner is an atomic pointer to a thread      *)
(* object; Start allocates one and runs its Main() in a detached thread    *)
(* that deletes the object when Main() returns; Stop takes the pointer out *)
(* of the owner, clears m_active and notifies; GetThread makes a proxy     *)
(* that holds m_mutex as long as it lives.                                 *)
(*                                                                         *)
(* Main() is pure virtual: this module has every step but Main's, and a    *)
(* module that EXTENDS it supplies Main and what a proxy is used for (see  *)
(* JCallback).  The thread that runs the Main of object x is written x.    *)
(*                                                                         *)
(* Nothing stops a client from reaching an object that is already deleted. *)
(* Such an access has no effect on what the model keeps; what it reads is  *)
(* any value of the type.                                                  *)
(***************************************************************************)
EXTENDS Naturals, Sequences, FiniteSets

CONSTANTS
  Clients,   \* threads that use the owners
  Owners,    \* SafeThreadOwner objects
  Objects,   \* SafeThread objects that may be allocated, each once
  MaxUses,   \* bound: proxies made in a behaviour
  MaxMoves,  \* bound: move assignments between owners in a behaviour
  None       \* nullptr, and the holder of a free mutex

ASSUME SafeThreadAssumption ==
  /\ Clients \cap Objects = {}
  /\ None \notin Clients \cup Objects
  /\ MaxUses \in Nat
  /\ MaxMoves \in Nat

VARIABLES
  owner,     \* owner[o]: SafeThreadOwnerBase::m_thread
  life,      \* life[x]: raw, allocated (new), its Main running, or freed
  active,    \* active[x]: m_active
  mutex,     \* mutex[x]: who holds m_mutex
  waiting,   \* the objects whose Main is blocked in m_cond.wait
  pc,        \* where each client is
  thr,       \* thr[c]: the object the client's operation is about
  dest,      \* dest[c]: the owner a move assignment writes
  uses,      \* proxies made so far
  moves      \* move assignments so far

ownerVars == <<owner, life, active, mutex, waiting, pc, thr, dest, uses, moves>>

OwnerInit ==
  /\ owner = [o \in Owners |-> None]
  /\ life = [x \in Objects |-> "raw"]
  /\ active = [x \in Objects |-> FALSE]
  /\ mutex = [x \in Objects |-> None]
  /\ waiting = {}
  /\ pc = [c \in Clients |-> "idle"]
  /\ thr = [c \in Clients |-> None]
  /\ dest = [c \in Clients |-> None]
  /\ uses = 0
  /\ moves = 0

Exists(x) == life[x] \in {"new", "running"}

GoTo(c, label) == pc' = [pc EXCEPT ![c] = label]

(* back from an operation *)
Done(c) ==
  /\ pc' = [pc EXCEPT ![c] = "idle"]
  /\ thr' = [thr EXCEPT ![c] = None]

-----------------------------------------------------------------------------
(* Start *)

(* new T, and the compare-and-exchange that installs it *)
StartInstall(c, o, x) ==
  /\ pc[c] = "idle"
  /\ life[x] = "raw"
  /\ owner[o] = None
  /\ owner' = [owner EXCEPT ![o] = x]
  /\ life' = [life EXCEPT ![x] = "new"]
  /\ active' = [active EXCEPT ![x] = TRUE]
  /\ thr' = [thr EXCEPT ![c] = x]
  /\ GoTo(c, "spawn")
  /\ UNCHANGED <<mutex, waiting, dest, uses, moves>>

(* the owner has a thread already: the new object is deleted *)
StartReject(c, o, x) ==
  /\ pc[c] = "idle"
  /\ life[x] = "raw"
  /\ owner[o] # None
  /\ life' = [life EXCEPT ![x] = "freed"]
  /\ UNCHANGED <<owner, active, mutex, waiting, pc, thr, dest, uses, moves>>

(* the std::thread that runs newthr->Main() *)
Spawn(c) ==
  /\ pc[c] = "spawn"
  /\ life' = [life EXCEPT ![thr[c]] = "running"]
  /\ Done(c)
  /\ UNCHANGED <<owner, active, mutex, waiting, dest, uses, moves>>

-----------------------------------------------------------------------------
(* Stop, also as the destructor of an owner *)

StopTake(c, o) ==
  /\ pc[c] = "idle"
  /\ owner[o] # None
  /\ thr' = [thr EXCEPT ![c] = owner[o]]
  /\ owner' = [owner EXCEPT ![o] = None]
  /\ GoTo(c, "deactivate")
  /\ UNCHANGED <<life, active, mutex, waiting, dest, uses, moves>>

(* thr->m_active = false, without m_mutex *)
StopDeactivate(c) ==
  /\ pc[c] = "deactivate"
  /\ active' = [active EXCEPT ![thr[c]] = FALSE]
  /\ GoTo(c, "notify")
  /\ UNCHANGED <<owner, life, mutex, waiting, thr, dest, uses, moves>>

(* bug: the notification is forgotten *)
StopSilently(c) ==
  /\ pc[c] = "notify"
  /\ Done(c)
  /\ UNCHANGED <<owner, life, active, mutex, waiting, dest, uses, moves>>

(* thr->m_cond.notify_one(), without m_mutex *)
StopNotify(c) ==
  /\ pc[c] = "notify"
  /\ waiting' = waiting \ {thr[c]}
  /\ Done(c)
  /\ UNCHANGED <<owner, life, active, mutex, dest, uses, moves>>

-----------------------------------------------------------------------------
(* operator=: "other" has been moved out of another owner by the move      *)
(* constructor                                                             *)

(* bug: the moved-from owner keeps its pointer *)
MoveOutCopies(c, from, to) ==
  /\ pc[c] = "idle"
  /\ from # to
  /\ moves < MaxMoves
  /\ moves' = moves + 1
  /\ thr' = [thr EXCEPT ![c] = owner[from]]
  /\ dest' = [dest EXCEPT ![c] = to]
  /\ GoTo(c, "assign")
  /\ UNCHANGED <<owner, life, active, mutex, waiting, uses>>

MoveOut(c, from, to) ==
  /\ pc[c] = "idle"
  /\ from # to
  /\ moves < MaxMoves
  /\ moves' = moves + 1
  /\ thr' = [thr EXCEPT ![c] = owner[from]]
  /\ owner' = [owner EXCEPT ![from] = None]
  /\ dest' = [dest EXCEPT ![c] = to]
  /\ GoTo(c, "assign")
  /\ UNCHANGED <<life, active, mutex, waiting, uses>>

(* bug: the thread that was there is dropped *)
MoveInDrops(c) ==
  /\ pc[c] = "assign"
  /\ owner' = [owner EXCEPT ![dest[c]] = thr[c]]
  /\ dest' = [dest EXCEPT ![c] = None]
  /\ Done(c)
  /\ UNCHANGED <<life, active, mutex, waiting, uses, moves>>

(* m_thread.exchange(otherthr); the destructor of "other" stops the thread *)
(* that was there                                                          *)
MoveIn(c) ==
  /\ pc[c] = "assign"
  /\ owner' = [owner EXCEPT ![dest[c]] = thr[c]]
  /\ thr' = [thr EXCEPT ![c] = owner[dest[c]]]
  /\ dest' = [dest EXCEPT ![c] = None]
  /\ GoTo(c, IF owner[dest[c]] = None THEN "idle" ELSE "deactivate")
  /\ UNCHANGED <<life, active, mutex, waiting, uses, moves>>

-----------------------------------------------------------------------------
(* GetThread *)

(* the load of the pointer; a null pointer makes a null proxy at once *)
ProxyLoad(c, o) ==
  /\ pc[c] = "idle"
  /\ uses < MaxUses
  /\ owner[o] # None
  /\ uses' = uses + 1
  /\ thr' = [thr EXCEPT ![c] = owner[o]]
  /\ GoTo(c, "lock")
  /\ UNCHANGED <<owner, life, active, mutex, waiting, dest, moves>>

(* lock m_mutex and find the thread active: the proxy keeps the lock *)
ProxyLock(c) ==
  /\ pc[c] = "lock"
  /\ Exists(thr[c])
  /\ mutex[thr[c]] = None
  /\ active[thr[c]]
  /\ mutex' = [mutex EXCEPT ![thr[c]] = c]
  /\ GoTo(c, "held")
  /\ UNCHANGED <<owner, life, active, waiting, thr, dest, uses, moves>>

(* lock m_mutex, find the thread stopped, unlock: a null proxy *)
ProxyInactive(c) ==
  /\ pc[c] = "lock"
  /\ Exists(thr[c])
  /\ mutex[thr[c]] = None
  /\ ~active[thr[c]]
  /\ Done(c)
  /\ UNCHANGED <<owner, life, active, mutex, waiting, dest, uses, moves>>

(* the object is gone since the load: its old memory may read either way *)
ProxyFreed(c) ==
  /\ pc[c] = "lock"
  /\ life[thr[c]] = "freed"
  /\ \/ GoTo(c, "held") /\ UNCHANGED thr
     \/ Done(c)
  /\ UNCHANGED <<owner, life, active, mutex, waiting, dest, uses, moves>>

(* The end of a proxy's life, and with it of its lock; part of the actions *)
(* that use one.                                                           *)
ReleaseProxy(c) ==
  /\ mutex' = IF Exists(thr[c]) THEN [mutex EXCEPT ![thr[c]] = None] ELSE mutex
  /\ Done(c)

-----------------------------------------------------------------------------
OwnerStep(c) ==
  \/ \E o \in Owners, x \in Objects : StartInstall(c, o, x) \/ StartReject(c, o, x)
  \/ \E o \in Owners : StopTake(c, o) \/ ProxyLoad(c, o)
  \/ \E from, to \in Owners : MoveOut(c, from, to)

(* the steps a client that is inside an operation goes on with *)
OwnerProgress(c) ==
  \/ Spawn(c) \/ StopDeactivate(c) \/ StopNotify(c) \/ MoveIn(c)
  \/ ProxyLock(c) \/ ProxyInactive(c) \/ ProxyFreed(c)

OwnerTypeOK ==
  /\ owner \in [Owners -> Objects \cup {None}]
  /\ life \in [Objects -> {"raw", "new", "running", "freed"}]
  /\ active \in [Objects -> BOOLEAN]
  /\ mutex \in [Objects -> Clients \cup Objects \cup {None}]
  /\ waiting \subseteq Objects
  /\ pc \in [Clients -> {"idle", "spawn", "deactivate", "notify", "assign", "lock",
                         "held", "setting"}]
  /\ thr \in [Clients -> Objects \cup {None}]
  /\ dest \in [Clients -> Owners \cup {None}]
  /\ uses \in 0 .. MaxUses
  /\ moves \in 0 .. MaxMoves
=============================================================================
