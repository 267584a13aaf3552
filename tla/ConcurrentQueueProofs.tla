------------------------ MODULE ConcurrentQueueProofs ------------------------
(***************************************************************************)
(* Proofs about ConcurrentQueue for any number of threads and pushes: type *)
(* correctness, the bound behind NoStrandedItem, the refinement of         *)
(* FifoQueue, and the delivery guarantee of FifoQueue, which the queue     *)
(* inherits.                                                               *)
(***************************************************************************)
EXTENDS ConcurrentQueue, FiniteSetTheorems, TLAPS

InCriticalSection(t) == pc[t] \in {"push", "test", "remove"}

(* The mutex protects what lies between its acquisition and its release:   *)
(* only its holder is there, so the front a consumer copied is still the   *)
(* front when it removes it.  A producer that locked to push has a push    *)
(* left to do.                                                             *)
Locked ==
  /\ \A t \in Threads : InCriticalSection(t) => mutex_ = t
  /\ \A c \in cond_ : pc[c] = "waiting"
  /\ \A c \in Consumers :
       pc[c] = "remove" => queue_ # << >> /\ item[c] = Head(queue_)
  /\ \A p \in Producers : pc[p] = "push" => pushed[p] < MaxPush

QueueInv == TypeOK /\ Locked

-----------------------------------------------------------------------------
(* Lengths and heads of the sequences the actions build. *)
LEMMA AppendLemma ==
  ASSUME NEW S, NEW s \in Seq(S), NEW e \in S
  PROVE  /\ Append(s, e) \in Seq(S)
         /\ Append(s, e) # << >>
         /\ Len(Append(s, e)) = Len(s) + 1
         /\ Len(s) \in Nat
         /\ s # << >> => Head(Append(s, e)) = Head(s)
<1>1. /\ Append(s, e) \in Seq(S)
      /\ Len(Append(s, e)) = Len(s) + 1
      /\ Len(s) \in Nat
      /\ Append(s, e) # << >>
  OBVIOUS
<1>2. ASSUME s # << >> PROVE Head(Append(s, e)) = Head(s)
  BY <1>2
<1> QED BY <1>1, <1>2

(* the queue after a pop *)
LEMMA TailLemma ==
  ASSUME NEW S, NEW s \in Seq(S), s # << >>
  PROVE  /\ Tail(s) \in Seq(S)
         /\ Head(s) \in S
         /\ Len(s) \in Nat
         /\ Len(Tail(s)) = Len(s) - 1
  OBVIOUS

(* The types and the lock discipline hold initially. *)
LEMMA InitQueueInv == Init => QueueInv
  BY QueueAssumption
     DEF Init, QueueInv, TypeOK, Locked, InCriticalSection, Threads, Item

(* The types and the lock discipline are kept by every step. *)
LEMMA NextQueueInv == QueueInv /\ [Next]_vars => QueueInv'
<1> SUFFICES ASSUME QueueInv, [Next]_vars PROVE QueueInv'
  OBVIOUS
<1> USE QueueAssumption DEF QueueInv, TypeOK, Locked, InCriticalSection, Threads, GoTo
<1>1. ASSUME NEW p \in Producers, LockToPush(p) PROVE QueueInv'
  BY <1>1 DEF LockToPush
<1>2. ASSUME NEW p \in Producers, Enqueue(p) PROVE QueueInv'
  <2>1. <<p, pushed[p] + 1>> \in Item /\ pushed[p] + 1 \in 0 .. MaxPush
    BY <1>2 DEF Enqueue, Item
  <2>2. /\ queue_' \in Seq(Item)
        /\ queue_ # << >> => Head(queue_') = Head(queue_)
        /\ queue_' # << >>
    BY <1>2, <2>1, AppendLemma DEF Enqueue
  <2> QED BY <1>2, <2>1, <2>2 DEF Enqueue
<1>3. ASSUME NEW p \in Producers, NotifyOne(p) PROVE QueueInv'
  BY <1>3 DEF NotifyOne
<1>4. ASSUME NEW c \in Consumers, LockToPop(c) PROVE QueueInv'
  BY <1>4 DEF LockToPop
<1>5. ASSUME NEW c \in Consumers, Wait(c) PROVE QueueInv'
  BY <1>5 DEF Wait
<1>6. ASSUME NEW c \in Consumers, Relock(c) PROVE QueueInv'
  BY <1>6 DEF Relock
<1>7. ASSUME NEW c \in Consumers, SpuriousWakeup(c) PROVE QueueInv'
  BY <1>7 DEF SpuriousWakeup
<1>8. ASSUME NEW c \in Consumers, CopyFront(c) PROVE QueueInv'
  <2>1. Head(queue_) \in Item
    BY <1>8, TailLemma DEF CopyFront
  <2> QED BY <1>8, <2>1 DEF CopyFront
<1>9. ASSUME NEW c \in Consumers, RemoveFront(c) PROVE QueueInv'
  <2>1. Head(queue_) \in Item /\ Tail(queue_) \in Seq(Item)
    BY <1>9, TailLemma DEF RemoveFront
  <2>2. Append(got[c], item[c]) \in Seq(Item)
    BY <1>9, <2>1, AppendLemma DEF RemoveFront
  <2> QED BY <1>9, <2>1, <2>2 DEF RemoveFront
<1>10. CASE UNCHANGED vars
  BY <1>10 DEF vars
<1> QED BY <1>1, <1>2, <1>3, <1>4, <1>5, <1>6, <1>7, <1>8, <1>9, <1>10 DEF Next

(* The variables of the queue keep their types, and the mutex serializes   *)
(* the operations.                                                         *)
THEOREM QueueTypeCorrect == Spec => []TypeOK
<1>1. QueueInv => TypeOK
  BY DEF QueueInv
<1> QED BY <1>1, InitQueueInv, NextQueueInv, PTL DEF Spec

(* The mutex, the wait set and the queue agree in every reachable state. *)
LEMMA QueueInvariant == Spec => []QueueInv
  BY InitQueueInv, NextQueueInv, PTL DEF Spec

-----------------------------------------------------------------------------
(* Counting the threads that are on their way to the queue. *)

(* There are finitely many of them. *)
LEMMA Counted ==
  /\ IsFiniteSet(Notifying)
  /\ IsFiniteSet(Awake)
  /\ Cardinality(Notifying) \in Nat
  /\ Cardinality(Awake) \in Nat
<1>1. Notifying \subseteq Producers /\ Awake \subseteq Consumers
  BY DEF Notifying, Awake
<1> QED BY <1>1, QueueAssumption, FS_Subset, FS_CardinalityType

(* A set that gains, loses or keeps one member grows, shrinks or stays by  *)
(* one at most.                                                            *)
LEMMA AddOne ==
  ASSUME NEW A, IsFiniteSet(A), NEW x, x \notin A
  PROVE  Cardinality(A \cup {x}) = Cardinality(A) + 1
  BY FS_AddElement

(* A thread that leaves such a set makes it smaller by one. *)
LEMMA DropOne ==
  ASSUME NEW A, IsFiniteSet(A), NEW x, x \in A
  PROVE  Cardinality(A \ {x}) = Cardinality(A) - 1
  BY FS_RemoveElement

(* The covering bound is kept by every step: a push adds an item and a     *)
(* notification, a notification becomes an awake consumer, and a consumer  *)
(* that goes idle takes an item with it.                                   *)
LEMMA NextNoStranded ==
  QueueInv /\ QueueInv' /\ NoStrandedItem /\ [Next]_vars => NoStrandedItem'
<1> SUFFICES ASSUME QueueInv, QueueInv', NoStrandedItem, [Next]_vars
             PROVE  NoStrandedItem'
  OBVIOUS
<1> DEFINE N == Cardinality(Notifying)
           A == Cardinality(Awake)
           L == Len(queue_)
<1> USE QueueAssumption
<1>0. /\ N \in Nat /\ A \in Nat /\ L \in Nat
      /\ IsFiniteSet(Notifying) /\ IsFiniteSet(Awake)
      /\ queue_ \in Seq(Item)
      /\ pc \in [Threads -> {"idle", "push", "notify", "test", "waiting", "remove"}]
      /\ cond_ \subseteq Consumers
      /\ Producers \subseteq Threads /\ Consumers \subseteq Threads
  BY Counted DEF QueueInv, TypeOK, Threads
<1>1. /\ N' \in Nat /\ A' \in Nat
      /\ IsFiniteSet(Notifying') /\ IsFiniteSet(Awake')
  <2>1. Notifying' \subseteq Producers /\ Awake' \subseteq Consumers
    BY DEF Notifying, Awake
  <2> QED BY <2>1, FS_Subset, FS_CardinalityType
<1>2. SUFFICES ASSUME cond_' # {} PROVE L' <= N' + A'
  BY DEF NoStrandedItem
<1>3. cond_ # {} => L <= N + A
  BY DEF NoStrandedItem
<1>4. ASSUME NEW p \in Producers, LockToPush(p) PROVE L' <= N' + A'
  <2>1. Notifying' = Notifying /\ Awake' = Awake /\ queue_' = queue_ /\ cond_' = cond_
    BY <1>0, <1>4 DEF LockToPush, GoTo, Notifying, Awake
  <2> QED BY <1>2, <1>3, <2>1
<1>5. ASSUME NEW p \in Producers, Enqueue(p) PROVE L' <= N' + A'
  <2>1. Notifying' = Notifying \cup {p} /\ p \notin Notifying
    BY <1>0, <1>5 DEF Enqueue, GoTo, Notifying
  <2>2. Awake' = Awake
    BY <1>0, <1>5 DEF Enqueue, GoTo, Awake
  <2>3. L' = L + 1
    <3>1. <<p, pushed[p] + 1>> \in Item
      BY <1>5 DEF Enqueue, Item, QueueInv, TypeOK, Locked
    <3> QED BY <1>0, <1>5, <3>1, AppendLemma DEF Enqueue
  <2>4. N' = N + 1
    BY <1>0, <2>1, AddOne
  <2>5. cond_' = cond_
    BY <1>5 DEF Enqueue
  <2> HIDE DEF N, A, L
  <2>6. A' = A
    BY <2>2 DEF A
  <2> QED BY <1>0, <1>2, <1>3, <2>3, <2>4, <2>5, <2>6
<1>6. ASSUME NEW p \in Producers, NotifyOne(p) PROVE L' <= N' + A'
  <2>1. PICK c \in cond_ : cond_' = cond_ \ {c}
    BY <1>2, <1>6 DEF NotifyOne
  <2>2. Notifying' = Notifying \ {p} /\ p \in Notifying
    BY <1>0, <1>6 DEF NotifyOne, GoTo, Notifying
  <2>3. Awake' = Awake \cup {c} /\ c \notin Awake
    BY <1>0, <1>6, <2>1 DEF NotifyOne, GoTo, Awake, QueueInv, Locked
  <2>4. N' = N - 1
    BY <1>0, <2>2, DropOne
  <2>5. A' = A + 1
    BY <1>0, <2>3, AddOne
  <2>6. L' = L
    BY <1>6 DEF NotifyOne
  <2> HIDE DEF N, A, L
  <2> QED BY <1>0, <1>3, <2>1, <2>4, <2>5, <2>6
<1>7. ASSUME NEW c \in Consumers, LockToPop(c) PROVE L' <= N' + A'
  <2>1. Notifying' = Notifying
    BY <1>0, <1>7 DEF LockToPop, GoTo, Notifying
  <2>2. Awake' = Awake \cup {c} /\ c \notin Awake
    BY <1>0, <1>7 DEF LockToPop, GoTo, Awake, QueueInv, Locked
  <2>3. A' = A + 1
    BY <1>0, <2>2, AddOne
  <2>4. L' = L /\ cond_' = cond_
    BY <1>7 DEF LockToPop
  <2>5. N' = N
    BY <2>1
  <2> HIDE DEF N, A, L
  <2> QED BY <1>0, <1>2, <1>3, <2>3, <2>4, <2>5
<1>8. ASSUME NEW c \in Consumers, Wait(c) PROVE L' <= N' + A'
  <2>1. L' = 0
    BY <1>8 DEF Wait
  <2>2. \A n, a \in Nat : 0 <= n + a
    OBVIOUS
  <2> QED BY <1>1, <2>1, <2>2
<1>9. ASSUME NEW c \in Consumers, Relock(c) PROVE L' <= N' + A'
  <2>1. Notifying' = Notifying /\ Awake' = Awake /\ queue_' = queue_ /\ cond_' = cond_
    BY <1>0, <1>9 DEF Relock, GoTo, Notifying, Awake
  <2> QED BY <1>2, <1>3, <2>1
<1>10. ASSUME NEW c \in Consumers, SpuriousWakeup(c) PROVE L' <= N' + A'
  <2>1. Notifying' = Notifying
    BY <1>10 DEF SpuriousWakeup, Notifying
  <2>2. Awake' = Awake \cup {c} /\ c \notin Awake
    BY <1>0, <1>10 DEF SpuriousWakeup, Awake, QueueInv, Locked
  <2>3. A' = A + 1
    BY <1>0, <2>2, AddOne
  <2>4. L' = L /\ cond_ # {}
    BY <1>10 DEF SpuriousWakeup
  <2>5. N' = N
    BY <2>1
  <2> HIDE DEF N, A, L
  <2> QED BY <1>0, <1>3, <2>3, <2>4, <2>5
<1>11. ASSUME NEW c \in Consumers, CopyFront(c) PROVE L' <= N' + A'
  <2>1. Notifying' = Notifying /\ Awake' = Awake /\ queue_' = queue_ /\ cond_' = cond_
    BY <1>0, <1>11 DEF CopyFront, GoTo, Notifying, Awake
  <2> QED BY <1>2, <1>3, <2>1
<1>12. ASSUME NEW c \in Consumers, RemoveFront(c) PROVE L' <= N' + A'
  <2>1. Notifying' = Notifying
    BY <1>0, <1>12 DEF RemoveFront, GoTo, Notifying
  <2>2. Awake' = Awake \ {c} /\ c \in Awake
    BY <1>0, <1>12 DEF RemoveFront, GoTo, Awake, QueueInv, Locked
  <2>3. A' = A - 1
    BY <1>0, <2>2, DropOne
  <2>4. L' = L - 1
    <3>1. queue_ # << >>
      BY <1>12 DEF RemoveFront, QueueInv, Locked
    <3> QED BY <1>0, <1>12, <3>1, TailLemma DEF RemoveFront
  <2>5. cond_' = cond_
    BY <1>12 DEF RemoveFront
  <2>6. N' = N
    BY <2>1
  <2> HIDE DEF N, A, L
  <2> QED BY <1>0, <1>2, <1>3, <2>3, <2>4, <2>5, <2>6
<1>13. CASE UNCHANGED vars
  <2>1. Notifying' = Notifying /\ Awake' = Awake /\ queue_' = queue_ /\ cond_' = cond_
    BY <1>13 DEF vars, Notifying, Awake
  <2> QED BY <1>2, <1>3, <2>1
<1> HIDE DEF N, A, L
<1> QED BY <1>4, <1>5, <1>6, <1>7, <1>8, <1>9, <1>10, <1>11, <1>12, <1>13 DEF Next

(* No interleaving of push, its late notify_one, pop and spurious wakeups  *)
(* leaves an item beside a sleeping consumer with nobody on the way.       *)
THEOREM NoItemIsStranded == Spec => []NoStrandedItem
<1>1. Init => NoStrandedItem
  BY DEF Init, NoStrandedItem
<1> QED BY <1>1, NextNoStranded, QueueInvariant, PTL DEF Spec

-----------------------------------------------------------------------------
(* The abstract queue is implemented: the step that appends is Push, the   *)
(* step that removes is Pop, every other step changes nothing abstract.    *)
THEOREM QueueImplementsFifo == Spec => ImplementsFifo
<1>1. Init => Fifo!Init
  BY DEF Init, Fifo!Init
<1>2. QueueInv /\ [Next]_vars => [Fifo!Next]_Fifo!vars
  <2> SUFFICES ASSUME QueueInv, [Next]_vars PROVE [Fifo!Next]_Fifo!vars
    OBVIOUS
  <2>1. ASSUME NEW p \in Producers, Enqueue(p) PROVE Fifo!Next
    <3>1. Fifo!Push(p)
      BY <2>1 DEF Enqueue, Fifo!Push, QueueInv, Locked
    <3> QED BY <3>1 DEF Fifo!Next
  <2>2. ASSUME NEW c \in Consumers, RemoveFront(c) PROVE Fifo!Next
    <3>1. Fifo!Pop(c)
      BY <2>2 DEF RemoveFront, Fifo!Pop, QueueInv, Locked
    <3> QED BY <3>1 DEF Fifo!Next
  <2>3. ASSUME NEW p \in Producers, LockToPush(p) \/ NotifyOne(p)
        PROVE  UNCHANGED Fifo!vars
    BY <2>3 DEF LockToPush, NotifyOne, Fifo!vars
  <2>4. ASSUME NEW c \in Consumers,
               \/ LockToPop(c) \/ Wait(c) \/ Relock(c) \/ SpuriousWakeup(c) \/ CopyFront(c)
        PROVE  UNCHANGED Fifo!vars
    BY <2>4 DEF LockToPop, Wait, Relock, SpuriousWakeup, CopyFront, Fifo!vars
  <2>5. CASE UNCHANGED vars
    BY <2>5 DEF vars, Fifo!vars
  <2> QED BY <2>1, <2>2, <2>3, <2>4, <2>5 DEF Next
<1> QED BY <1>1, <1>2, QueueInvariant, PTL DEF Spec, ImplementsFifo, Fifo!Spec

-----------------------------------------------------------------------------
(* The delivery guarantee of the abstract queue, for any number of         *)
(* producers, consumers and pushes.                                        *)

(* No item carries a number its producer has not reached yet. *)
Numbered ==
  /\ \A j \in DOMAIN queue_ : queue_[j][2] <= pushed[queue_[j][1]]
  /\ \A c \in Consumers : \A i \in DOMAIN got[c] :
       got[c][i][2] <= pushed[got[c][i][1]]

FifoInv == Fifo!TypeOK /\ Numbered /\ Fifo!InOrder /\ Fifo!DeliveredOnce /\ Fifo!NothingLost

-----------------------------------------------------------------------------
(* What Append and Tail do to the positions of a sequence.                 *)
LEMMA AppendFacts ==
  ASSUME NEW S, NEW s \in Seq(S), NEW e \in S
  PROVE  /\ Append(s, e) \in Seq(S)
         /\ Len(s) \in Nat
         /\ DOMAIN s = 1 .. Len(s)
         /\ DOMAIN Append(s, e) = 1 .. (Len(s) + 1)
         /\ \A i \in 1 .. Len(s) : Append(s, e)[i] = s[i] /\ s[i] \in S
         /\ Append(s, e)[Len(s) + 1] = e
  OBVIOUS

(* what remains when the first item is taken *)
LEMMA TailFacts ==
  ASSUME NEW S, NEW s \in Seq(S), s # << >>
  PROVE  /\ Tail(s) \in Seq(S)
         /\ Head(s) \in S
         /\ Len(s) \in Nat \ {0}
         /\ DOMAIN s = 1 .. Len(s)
         /\ DOMAIN Tail(s) = 1 .. (Len(s) - 1)
         /\ \A i \in 1 .. (Len(s) - 1) : Tail(s)[i] = s[i + 1]
         /\ Head(s) = s[1]
         /\ \A i \in 1 .. Len(s) : s[i] \in S
  OBVIOUS

(* Initially nothing is queued or delivered. *)
LEMMA InitFifoInv == Fifo!Init => FifoInv
  BY DEF Fifo!Init, FifoInv, Fifo!TypeOK, Numbered, Fifo!InOrder, Fifo!DeliveredOnce,
     Fifo!NothingLost, Fifo!Ascending

(* Push keeps the guarantee: the new item is newer than all of its producer. *)
LEMMA PushFifoInv ==
  ASSUME FifoInv, NEW p \in Producers, Fifo!Push(p)
  PROVE  FifoInv'
<1> DEFINE x == <<p, pushed[p] + 1>>
<1>1. Fifo!TypeOK /\ Numbered /\ Fifo!InOrder /\ Fifo!DeliveredOnce /\ Fifo!NothingLost
  BY DEF FifoInv
<1>2. x \in Fifo!Item /\ x[1] = p /\ x[2] = pushed[p] + 1
  BY <1>1 DEF Fifo!TypeOK, Fifo!Item, Fifo!Push
<1>3. /\ queue_' = Append(queue_, x)
      /\ pushed' = [pushed EXCEPT ![p] = pushed[p] + 1]
      /\ got' = got
  BY DEF Fifo!Push
<1> HIDE DEF x
<1>4. /\ queue_' \in Seq(Fifo!Item)
      /\ Len(queue_) \in Nat
      /\ DOMAIN queue_ = 1 .. Len(queue_)
      /\ DOMAIN queue_' = 1 .. (Len(queue_) + 1)
      /\ \A i \in 1 .. Len(queue_) : queue_'[i] = queue_[i] /\ queue_[i] \in Fifo!Item
      /\ queue_'[Len(queue_) + 1] = x
  <2>1. queue_ \in Seq(Fifo!Item)
    BY <1>1 DEF Fifo!TypeOK
  <2>2. /\ Append(queue_, x) \in Seq(Fifo!Item)
        /\ Len(queue_) \in Nat
        /\ DOMAIN queue_ = 1 .. Len(queue_)
        /\ DOMAIN Append(queue_, x) = 1 .. (Len(queue_) + 1)
        /\ \A i \in 1 .. Len(queue_) :
             Append(queue_, x)[i] = queue_[i] /\ queue_[i] \in Fifo!Item
        /\ Append(queue_, x)[Len(queue_) + 1] = x
    BY <2>1, <1>2, AppendFacts
  <2> QED BY <2>2, <1>3, Zenon
<1>5. Fifo!TypeOK'
  BY <1>1, <1>2, <1>3, <1>4 DEF Fifo!TypeOK, Fifo!Push
<1>6. \A q \in Producers : /\ pushed[q] \in Nat
                           /\ pushed'[q] = IF q = p THEN pushed[q] + 1 ELSE pushed[q]
  BY <1>1, <1>3 DEF Fifo!TypeOK
<1>7. \A y \in Fifo!Item : y[1] \in Producers /\ y[2] \in Nat
  BY DEF Fifo!Item
<1>8. \A c \in Consumers : \A i \in DOMAIN got[c] : got[c][i] \in Fifo!Item
  BY <1>1 DEF Fifo!TypeOK
<1>9. Numbered'
  BY <1>1, <1>2, <1>3, <1>4, <1>6, <1>7, <1>8 DEF Numbered
<1>10. Fifo!Ascending(queue_')
  <2> SUFFICES ASSUME NEW i \in DOMAIN queue_', NEW j \in DOMAIN queue_', i < j,
                      Fifo!SameProducer(queue_'[i], queue_'[j])
               PROVE  Fifo!Before(queue_'[i], queue_'[j])
    BY DEF Fifo!Ascending
  <2>1. i \in DOMAIN queue_ /\ queue_'[i] = queue_[i] /\ queue_[i] \in Fifo!Item
    BY <1>4
  <2>2. CASE j \in DOMAIN queue_
    BY <2>1, <2>2, <1>1, <1>4 DEF Fifo!InOrder, Fifo!Ascending
  <2>3. CASE j \notin DOMAIN queue_
    <3>1. queue_'[j] = x
      BY <2>3, <1>4
    <3>2. queue_[i][1] = p /\ queue_[i][2] <= pushed[p]
      BY <2>1, <3>1, <1>1, <1>2 DEF Numbered, Fifo!SameProducer
    <3> QED BY <2>1, <3>1, <3>2, <1>2, <1>6, <1>7 DEF Fifo!Before
  <2> QED BY <2>2, <2>3
<1>11. \A c \in Consumers : \A i \in DOMAIN got[c], j \in DOMAIN queue_' :
         Fifo!SameProducer(got[c][i], queue_'[j]) => Fifo!Before(got[c][i], queue_'[j])
  <2> SUFFICES ASSUME NEW c \in Consumers, NEW i \in DOMAIN got[c],
                      NEW j \in DOMAIN queue_', Fifo!SameProducer(got[c][i], queue_'[j])
               PROVE  Fifo!Before(got[c][i], queue_'[j])
    OBVIOUS
  <2>1. CASE j \in DOMAIN queue_
    BY <2>1, <1>1, <1>4 DEF Fifo!InOrder
  <2>2. CASE j \notin DOMAIN queue_
    <3>1. queue_'[j] = x
      BY <2>2, <1>4
    <3>2. got[c][i][1] = p /\ got[c][i][2] <= pushed[p]
      BY <3>1, <1>1, <1>2 DEF Numbered, Fifo!SameProducer
    <3> QED BY <3>1, <3>2, <1>2, <1>6, <1>7, <1>8 DEF Fifo!Before
  <2> QED BY <2>1, <2>2
<1>12. Fifo!InOrder'
  BY <1>1, <1>3, <1>10, <1>11 DEF Fifo!InOrder, Fifo!Ascending
<1>13. Fifo!DeliveredOnce'
  BY <1>1, <1>3 DEF Fifo!DeliveredOnce
<1>14. Fifo!NothingLost'
  <2> SUFFICES ASSUME NEW q \in Producers, NEW n \in 1 .. pushed'[q]
               PROVE  \/ \E j \in DOMAIN queue_' : queue_'[j] = <<q, n>>
                      \/ \E c \in Consumers : \E i \in DOMAIN got[c] : got[c][i] = <<q, n>>
    BY <1>3 DEF Fifo!NothingLost
  <2>1. CASE q = p /\ n = pushed[p] + 1
    BY <2>1, <1>4 DEF x
  <2>2. CASE ~(q = p /\ n = pushed[p] + 1)
    <3>1. n \in 1 .. pushed[q]
      BY <2>2, <1>6
    <3>2. \/ \E j \in DOMAIN queue_ : queue_[j] = <<q, n>>
          \/ \E c \in Consumers : \E i \in DOMAIN got[c] : got[c][i] = <<q, n>>
      BY <1>1, <3>1 DEF Fifo!NothingLost
    <3>3. ASSUME NEW j \in DOMAIN queue_, queue_[j] = <<q, n>>
          PROVE  j \in DOMAIN queue_' /\ queue_'[j] = <<q, n>>
      BY <1>4, <3>3
    <3> QED BY <3>2, <3>3
  <2> QED BY <2>1, <2>2
<1> QED BY <1>5, <1>9, <1>12, <1>13, <1>14 DEF FifoInv

(* Pop keeps the guarantee: the head is newer than all that was delivered  *)
(* and older than all that stays.                                          *)
LEMMA PopFifoInv ==
  ASSUME FifoInv, NEW c \in Consumers, Fifo!Pop(c)
  PROVE  FifoInv'
<1> DEFINE x == Head(queue_)
<1>1. Fifo!TypeOK /\ Numbered /\ Fifo!InOrder /\ Fifo!DeliveredOnce /\ Fifo!NothingLost
  BY DEF FifoInv
<1>2. /\ queue_ # << >>
      /\ queue_' = Tail(queue_)
      /\ got' = [got EXCEPT ![c] = Append(got[c], x)]
      /\ pushed' = pushed
  BY DEF Fifo!Pop
<1>3. /\ queue_' \in Seq(Fifo!Item)
      /\ x \in Fifo!Item
      /\ Len(queue_) \in Nat \ {0}
      /\ DOMAIN queue_ = 1 .. Len(queue_)
      /\ DOMAIN queue_' = 1 .. (Len(queue_) - 1)
      /\ \A i \in 1 .. (Len(queue_) - 1) : queue_'[i] = queue_[i + 1]
      /\ x = queue_[1]
      /\ \A i \in 1 .. Len(queue_) : queue_[i] \in Fifo!Item
  BY <1>1, <1>2, TailFacts DEF Fifo!TypeOK
<1> HIDE DEF x
<1>4. /\ Append(got[c], x) \in Seq(Fifo!Item)
      /\ Len(got[c]) \in Nat
      /\ DOMAIN got[c] = 1 .. Len(got[c])
      /\ got'[c] = Append(got[c], x)
      /\ DOMAIN got'[c] = 1 .. (Len(got[c]) + 1)
      /\ \A i \in 1 .. Len(got[c]) : got'[c][i] = got[c][i] /\ got[c][i] \in Fifo!Item
      /\ got'[c][Len(got[c]) + 1] = x
  <2>1. got[c] \in Seq(Fifo!Item) /\ got'[c] = Append(got[c], x)
    BY <1>1, <1>2 DEF Fifo!TypeOK
  <2>2. /\ Append(got[c], x) \in Seq(Fifo!Item)
        /\ Len(got[c]) \in Nat
        /\ DOMAIN got[c] = 1 .. Len(got[c])
        /\ DOMAIN Append(got[c], x) = 1 .. (Len(got[c]) + 1)
        /\ \A i \in 1 .. Len(got[c]) :
             Append(got[c], x)[i] = got[c][i] /\ got[c][i] \in Fifo!Item
        /\ Append(got[c], x)[Len(got[c]) + 1] = x
    BY <2>1, <1>3, AppendFacts
  <2> QED BY <2>1, <2>2, Zenon
<1>5. \A d \in Consumers : d # c => got'[d] = got[d]
  BY <1>1, <1>2 DEF Fifo!TypeOK
<1>6. Fifo!TypeOK'
  BY <1>1, <1>2, <1>3, <1>4 DEF Fifo!TypeOK
<1>7. \A y \in Fifo!Item : y[1] \in Producers /\ y[2] \in Nat
  BY DEF Fifo!Item
<1>8. \A d \in Consumers : \A i \in DOMAIN got[d] : got[d][i] \in Fifo!Item
  BY <1>1 DEF Fifo!TypeOK
<1>9. Numbered'
  <2>1. \A j \in DOMAIN queue_' : queue_'[j][2] <= pushed'[queue_'[j][1]]
    BY <1>1, <1>2, <1>3 DEF Numbered
  <2>2. ASSUME NEW d \in Consumers, NEW i \in DOMAIN got'[d]
        PROVE  got'[d][i][2] <= pushed'[got'[d][i][1]]
    BY <1>1, <1>2, <1>3, <1>4, <1>5, <2>2 DEF Numbered
  <2> QED BY <2>1, <2>2 DEF Numbered
<1>10. Fifo!Ascending(queue_')
  <2> SUFFICES ASSUME NEW i \in DOMAIN queue_', NEW j \in DOMAIN queue_', i < j,
                      Fifo!SameProducer(queue_'[i], queue_'[j])
               PROVE  Fifo!Before(queue_'[i], queue_'[j])
    BY DEF Fifo!Ascending
  <2>1. /\ i + 1 \in DOMAIN queue_ /\ queue_'[i] = queue_[i + 1]
        /\ j + 1 \in DOMAIN queue_ /\ queue_'[j] = queue_[j + 1]
        /\ i + 1 < j + 1
    BY <1>3
  <2> QED BY <2>1, <1>1 DEF Fifo!InOrder, Fifo!Ascending
<1>11. \A d \in Consumers : \A i \in DOMAIN got[d] :
         Fifo!SameProducer(got[d][i], x) => Fifo!Before(got[d][i], x)
  BY <1>1, <1>3 DEF Fifo!InOrder
<1>12. \A d \in Consumers : Fifo!Ascending(got'[d])
  <2> SUFFICES ASSUME NEW d \in Consumers PROVE Fifo!Ascending(got'[d])
    OBVIOUS
  <2>1. CASE d = c
    BY <2>1, <1>1, <1>4, <1>11 DEF Fifo!InOrder, Fifo!Ascending
  <2>2. CASE d # c
    BY <2>2, <1>1, <1>5 DEF Fifo!InOrder
  <2> QED BY <2>1, <2>2
<1>13. \A j \in DOMAIN queue_' : Fifo!SameProducer(x, queue_'[j]) => Fifo!Before(x, queue_'[j])
  BY <1>1, <1>3 DEF Fifo!InOrder, Fifo!Ascending
<1>14. \A d \in Consumers : \A i \in DOMAIN got'[d], j \in DOMAIN queue_' :
         Fifo!SameProducer(got'[d][i], queue_'[j]) => Fifo!Before(got'[d][i], queue_'[j])
  <2> SUFFICES ASSUME NEW d \in Consumers, NEW i \in DOMAIN got'[d],
                      NEW j \in DOMAIN queue_'
               PROVE  Fifo!SameProducer(got'[d][i], queue_'[j])
                        => Fifo!Before(got'[d][i], queue_'[j])
    OBVIOUS
  <2>1. CASE d = c /\ i = Len(got[c]) + 1
    BY <2>1, <1>4, <1>13
  <2>2. CASE ~(d = c /\ i = Len(got[c]) + 1)
    <3>1. i \in DOMAIN got[d] /\ got'[d][i] = got[d][i]
      BY <2>2, <1>4, <1>5
    <3>2. j + 1 \in DOMAIN queue_ /\ queue_'[j] = queue_[j + 1]
      BY <1>3
    <3> QED BY <3>1, <3>2, <1>1 DEF Fifo!InOrder
  <2> QED BY <2>1, <2>2
<1>15. Fifo!InOrder'
  BY <1>10, <1>12, <1>14 DEF Fifo!InOrder
<1>16. \A d \in Consumers : \A i \in DOMAIN got[d] : got[d][i] # x
  BY <1>11, <1>3, <1>7, <1>8 DEF Fifo!SameProducer, Fifo!Before
<1>17. Fifo!DeliveredOnce'
  <2> SUFFICES ASSUME NEW d \in Consumers, NEW e \in Consumers, d # e,
                      NEW i \in DOMAIN got'[d], NEW j \in DOMAIN got'[e]
               PROVE  got'[d][i] # got'[e][j]
    BY DEF Fifo!DeliveredOnce
  <2>1. CASE d = c
    BY <2>1, <1>1, <1>4, <1>5, <1>16 DEF Fifo!DeliveredOnce
  <2>2. CASE e = c
    BY <2>2, <1>1, <1>4, <1>5, <1>16 DEF Fifo!DeliveredOnce
  <2>3. CASE d # c /\ e # c
    BY <2>3, <1>1, <1>5 DEF Fifo!DeliveredOnce
  <2> QED BY <2>1, <2>2, <2>3
<1>18. Fifo!NothingLost'
  <2> SUFFICES ASSUME NEW q \in Producers, NEW n \in 1 .. pushed[q]
               PROVE  \/ \E j \in DOMAIN queue_' : queue_'[j] = <<q, n>>
                      \/ \E d \in Consumers : \E i \in DOMAIN got'[d] : got'[d][i] = <<q, n>>
    BY <1>2 DEF Fifo!NothingLost
  <2>1. CASE \E j \in DOMAIN queue_ : queue_[j] = <<q, n>>
    <3>1. PICK j \in DOMAIN queue_ : queue_[j] = <<q, n>>
      BY <2>1
    <3>2. CASE j = 1
      <4>1. Len(got[c]) + 1 \in DOMAIN got'[c] /\ got'[c][Len(got[c]) + 1] = <<q, n>>
        BY <1>3, <1>4, <3>1, <3>2
      <4> QED BY <4>1
    <3>3. CASE j # 1
      <4>1. j - 1 \in DOMAIN queue_' /\ queue_'[j - 1] = queue_[j]
        BY <1>3, <3>3
      <4> QED BY <4>1, <3>1
    <3> QED BY <3>2, <3>3
  <2>2. CASE \E d \in Consumers : \E i \in DOMAIN got[d] : got[d][i] = <<q, n>>
    <3>1. PICK d \in Consumers : \E i \in DOMAIN got[d] : got[d][i] = <<q, n>>
      BY <2>2
    <3>2. PICK i \in DOMAIN got[d] : got[d][i] = <<q, n>>
      BY <3>1
    <3>3. i \in DOMAIN got'[d] /\ got'[d][i] = got[d][i]
      <4>1. CASE d = c
        <5>1. i \in 1 .. Len(got[c]) /\ i \in 1 .. Len(got[c]) + 1
          BY <1>4, <4>1
        <5> QED BY <1>4, <4>1, <5>1
      <4>2. CASE d # c
        BY <1>5, <4>2
      <4> QED BY <4>1, <4>2
    <3> QED BY <3>2, <3>3
  <2> QED BY <2>1, <2>2, <1>1 DEF Fifo!NothingLost
<1> QED BY <1>6, <1>9, <1>15, <1>17, <1>18 DEF FifoInv

-----------------------------------------------------------------------------
(* Every step of the abstract queue keeps the invariant. *)
LEMMA NextFifoInv == FifoInv /\ [Fifo!Next]_Fifo!vars => FifoInv'
<1> SUFFICES ASSUME FifoInv, [Fifo!Next]_Fifo!vars PROVE FifoInv'
  OBVIOUS
<1>1. ASSUME NEW p \in Producers, Fifo!Push(p) PROVE FifoInv'
  BY <1>1, PushFifoInv
<1>2. ASSUME NEW c \in Consumers, Fifo!Pop(c) PROVE FifoInv'
  BY <1>2, PopFifoInv
<1>3. CASE UNCHANGED Fifo!vars
  <2>1. queue_' = queue_ /\ pushed' = pushed /\ got' = got
    BY <1>3 DEF Fifo!vars
  <2>2. Fifo!TypeOK' /\ Numbered'
    BY <2>1 DEF FifoInv, Fifo!TypeOK, Numbered
  <2>3. Fifo!InOrder'
    BY <2>1 DEF FifoInv, Fifo!InOrder, Fifo!Ascending
  <2>4. Fifo!DeliveredOnce' /\ Fifo!NothingLost'
    BY <2>1 DEF FifoInv, Fifo!DeliveredOnce, Fifo!NothingLost
  <2> QED BY <2>2, <2>3, <2>4 DEF FifoInv
<1> QED BY <1>1, <1>2, <1>3 DEF Fifo!Next

(* A queue with these push and pop delivers every item once and in the     *)
(* order of its producer.                                                  *)
THEOREM FifoDelivery == Fifo!Spec => []Fifo!Delivery
<1>1. Fifo!Init => FifoInv
  BY InitFifoInv
<1>2. FifoInv /\ [Fifo!Next]_Fifo!vars => FifoInv'
  BY NextFifoInv
<1>3. FifoInv => Fifo!Delivery
  BY DEF FifoInv, Fifo!Delivery
<1> QED BY <1>1, <1>2, <1>3, PTL DEF Fifo!Spec

(* Through the refinement, the implementation inherits the delivery        *)
(* guarantee proved of the abstract queue.                                 *)
THEOREM QueueDelivery == Spec => []Delivery
  BY QueueImplementsFifo, FifoDelivery, PTL DEF ImplementsFifo, Delivery
=============================================================================
