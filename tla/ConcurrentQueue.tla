--------------------------- MODULE ConcurrentQueue ---------------------------
(***************************************************************************)
(* wpi::ConcurrentQueue (support/ConcurrentQueue.h): a std::queue behind a *)
(* mutex and a condition variable.  Producers run push / emplace, which    *)
(* notifies after the mutex is released; consumers run pop, which waits    *)
(* while the queue is empty.                                               *)
(*                                                                         *)
(* A thread's program counter says where in the operation it is:           *)
(*   producer  idle -> push (mutex held) -> notify (mutex released) -> idle *)
(*   consumer  idle -> test (mutex held) -> waiting | remove -> idle       *)
(* A consumer in "waiting" is blocked while it is in cond_; once notified  *)
(* it has left cond_ and must take the mutex again before it tests again.  *)
(***************************************************************************)
EXTENDS Naturals, Sequences, FiniteSets

CONSTANTS
  Producers,    \* threads that call push or emplace
  Consumers,    \* threads that call pop
  MaxPush,      \* bound: pushes per producer
  MaxSpurious,  \* bound: spurious wakeups of cond_.wait in a behaviour
  NoThread      \* the owner of a free mutex

ASSUME QueueAssumption ==
  /\ IsFiniteSet(Producers)
  /\ IsFiniteSet(Consumers)
  /\ Producers \cap Consumers = {}
  /\ NoThread \notin Producers \cup Consumers
  /\ MaxPush \in Nat
  /\ MaxSpurious \in Nat

VARIABLES
  queue_,    \* queue_
  mutex_,    \* the thread that holds mutex_, or NoThread
  cond_,     \* the consumers blocked in cond_.wait
  pc,        \* where each thread is
  item,      \* item[c]: pop's local copy of queue_.front()
  pushed,    \* pushed[p]: how many items p has put in the queue
  got,       \* got[c]: the items pop has returned to c, in order
  spurious   \* spurious wakeups so far

vars == <<queue_, mutex_, cond_, pc, item, pushed, got, spurious>>

Threads == Producers \cup Consumers

Item == Producers \X (1 .. MaxPush)

Init ==
  /\ queue_ = << >>
  /\ mutex_ = NoThread
  /\ cond_ = {}
  /\ pc = [t \in Threads |-> "idle"]
  /\ item = [c \in Consumers |-> << >>]
  /\ pushed = [p \in Producers |-> 0]
  /\ got = [c \in Consumers |-> << >>]
  /\ spurious = 0

GoTo(t, label) == pc' = [pc EXCEPT ![t] = label]

-----------------------------------------------------------------------------
(* push, emplace *)

LockToPush(p) ==
  /\ pc[p] = "idle"
  /\ pushed[p] < MaxPush
  /\ mutex_ = NoThread
  /\ mutex_' = p
  /\ GoTo(p, "push")
  /\ UNCHANGED <<queue_, cond_, item, pushed, got, spurious>>

(* bug: the newest item goes to the front *)
EnqueueAtFront(p) ==
  /\ pc[p] = "push"
  /\ queue_' = <<<<p, pushed[p] + 1>>>> \o queue_
  /\ pushed' = [pushed EXCEPT ![p] = @ + 1]
  /\ mutex_' = NoThread
  /\ GoTo(p, "notify")
  /\ UNCHANGED <<cond_, item, got, spurious>>

Enqueue(p) ==
  /\ pc[p] = "push"
  /\ queue_' = Append(queue_, <<p, pushed[p] + 1>>)
  /\ pushed' = [pushed EXCEPT ![p] = @ + 1]
  /\ mutex_' = NoThread
  /\ GoTo(p, "notify")
  /\ UNCHANGED <<cond_, item, got, spurious>>

(* bug: notify only when the queue was empty before the push *)
NotifyWhenFirst(p) ==
  /\ pc[p] = "notify"
  /\ \/ (cond_ = {} \/ Len(queue_) # 1) /\ UNCHANGED cond_
     \/ Len(queue_) = 1 /\ \E c \in cond_ : cond_' = cond_ \ {c}
  /\ GoTo(p, "idle")
  /\ UNCHANGED <<queue_, mutex_, item, pushed, got, spurious>>

(* bug: no notification at all *)
NotifyForgotten(p) ==
  /\ pc[p] = "notify"
  /\ GoTo(p, "idle")
  /\ UNCHANGED <<queue_, mutex_, cond_, item, pushed, got, spurious>>

(* cond_.notify_one(): no effect when nobody waits *)
NotifyOne(p) ==
  /\ pc[p] = "notify"
  /\ \/ cond_ = {} /\ UNCHANGED cond_
     \/ \E c \in cond_ : cond_' = cond_ \ {c}
  /\ GoTo(p, "idle")
  /\ UNCHANGED <<queue_, mutex_, item, pushed, got, spurious>>

-----------------------------------------------------------------------------
(* pop *)

LockToPop(c) ==
  /\ pc[c] = "idle"
  /\ mutex_ = NoThread
  /\ mutex_' = c
  /\ GoTo(c, "test")
  /\ UNCHANGED <<queue_, cond_, item, pushed, got, spurious>>

(* bug: return a default-constructed item instead of waiting *)
GiveUp(c) ==
  /\ pc[c] = "test"
  /\ queue_ = << >>
  /\ got' = [got EXCEPT ![c] = Append(@, item[c])]
  /\ mutex_' = NoThread
  /\ GoTo(c, "idle")
  /\ UNCHANGED <<queue_, cond_, item, pushed, spurious>>

(* cond_.wait(mlock): block and release the mutex in one step *)
Wait(c) ==
  /\ pc[c] = "test"
  /\ queue_ = << >>
  /\ cond_' = cond_ \cup {c}
  /\ mutex_' = NoThread
  /\ GoTo(c, "waiting")
  /\ UNCHANGED <<queue_, item, pushed, got, spurious>>

(* the return of cond_.wait: the mutex is held again, the test is repeated *)
Relock(c) ==
  /\ pc[c] = "waiting"
  /\ c \notin cond_
  /\ mutex_ = NoThread
  /\ mutex_' = c
  /\ GoTo(c, "test")
  /\ UNCHANGED <<queue_, cond_, item, pushed, got, spurious>>

SpuriousWakeup(c) ==
  /\ c \in cond_
  /\ spurious < MaxSpurious
  /\ spurious' = spurious + 1
  /\ cond_' = cond_ \ {c}
  /\ UNCHANGED <<queue_, mutex_, pc, item, pushed, got>>

(* item = queue_.front() *)
CopyFront(c) ==
  /\ pc[c] = "test"
  /\ queue_ # << >>
  /\ item' = [item EXCEPT ![c] = Head(queue_)]
  /\ GoTo(c, "remove")
  /\ UNCHANGED <<queue_, mutex_, cond_, pushed, got, spurious>>

(* bug: the item removed is not the one that was copied *)
RemoveBack(c) ==
  /\ pc[c] = "remove"
  /\ queue_' = SubSeq(queue_, 1, Len(queue_) - 1)
  /\ got' = [got EXCEPT ![c] = Append(@, item[c])]
  /\ item' = [item EXCEPT ![c] = << >>]
  /\ mutex_' = NoThread
  /\ GoTo(c, "idle")
  /\ UNCHANGED <<cond_, pushed, spurious>>

(* queue_.pop(), and the return that releases the mutex *)
RemoveFront(c) ==
  /\ pc[c] = "remove"
  /\ queue_' = Tail(queue_)
  /\ got' = [got EXCEPT ![c] = Append(@, item[c])]
  /\ item' = [item EXCEPT ![c] = << >>]
  /\ mutex_' = NoThread
  /\ GoTo(c, "idle")
  /\ UNCHANGED <<cond_, pushed, spurious>>

-----------------------------------------------------------------------------
Next ==
  \/ \E p \in Producers : LockToPush(p) \/ Enqueue(p) \/ NotifyOne(p)
  \/ \E c \in Consumers : \/ LockToPop(c) \/ Wait(c) \/ Relock(c)
                          \/ SpuriousWakeup(c) \/ CopyFront(c) \/ RemoveFront(c)

Spec == Init /\ [][Next]_vars

(* A thread inside an operation keeps running; nobody is forced to start   *)
(* one, and no wakeup is owed that no push gave.                           *)
Fairness ==
  /\ \A p \in Producers : WF_vars(Enqueue(p)) /\ WF_vars(NotifyOne(p))
  /\ \A c \in Consumers : /\ WF_vars(Wait(c)) /\ WF_vars(Relock(c))
                          /\ WF_vars(CopyFront(c)) /\ WF_vars(RemoveFront(c))

FairSpec == Spec /\ Fairness

-----------------------------------------------------------------------------
(* Properties *)

(* Every variable keeps its type; a program counter is a place in the      *)
(* operation the thread runs.                                              *)
TypeOK ==
  /\ queue_ \in Seq(Item)
  /\ mutex_ \in Threads \cup {NoThread}
  /\ cond_ \subseteq Consumers
  /\ pc \in [Threads -> {"idle", "push", "notify", "test", "waiting", "remove"}]
  /\ \A p \in Producers : pc[p] \in {"idle", "push", "notify"}
  /\ \A c \in Consumers : pc[c] \in {"idle", "test", "waiting", "remove"}
  /\ item \in [Consumers -> Item \cup {<< >>}]
  /\ pushed \in [Producers -> 0 .. MaxPush]
  /\ got \in [Consumers -> Seq(Item)]
  /\ spurious \in 0 .. MaxSpurious

Notifying == {p \in Producers : pc[p] = "notify"}
Awake == {c \in Consumers : pc[c] # "idle" /\ c \notin cond_}

(* push notifies after it has released the mutex, and notify_one wakes at  *)
(* most one consumer, so an item may sit in the queue while a consumer     *)
(* sleeps.  As long as somebody sleeps, each queued item is covered by a   *)
(* push that is still going to notify or by a consumer that is awake       *)
(* inside pop: no interleaving strands an item beside a sleeping consumer. *)
NoStrandedItem ==
  cond_ # {} => Len(queue_) <= Cardinality(Notifying) + Cardinality(Awake)

Fifo == INSTANCE FifoQueue WITH queue <- queue_

(* The locked, waiting implementation behaves as the abstract FIFO queue:  *)
(* its Enqueue step is Push, its RemoveFront step is Pop.                  *)
ImplementsFifo == Fifo!Spec

(* push and pop together deliver each item once, to one consumer, in the   *)
(* order its producer pushed it.                                           *)
Delivery == Fifo!Delivery

(* A consumer that is inside pop while items are queued does not stay      *)
(* there with the items: the queue is drained or everybody has left pop.   *)
Drained ==
  (queue_ # << >> /\ \E c \in Consumers : pc[c] # "idle")
    ~> (queue_ = << >> \/ \A c \in Consumers : pc[c] = "idle")
=============================================================================
