------------------------------ MODULE FifoQueue ------------------------------
(***************************************************************************)
(* What wpi::ConcurrentQueue promises its users: push and pop are single,  *)
(* indivisible steps on a first-in first-out queue, and pop happens only   *)
(* when there is something to take.  The n-th item that producer p pushes  *)
(* is the pair <<p, n>>; the values themselves never matter to the queue.  *)
(***************************************************************************)
EXTENDS Naturals, Sequences

CONSTANTS
  Producers,  \* threads that push
  Consumers   \* threads that pop

VARIABLES
  queue,      \* the items in the queue, oldest first
  pushed,     \* pushed[p]: how many items p has pushed
  got         \* got[c]: the items c has taken, in order

vars == <<queue, pushed, got>>

Item == Producers \X (Nat \ {0})

TypeOK ==
  /\ queue \in Seq(Item)
  /\ pushed \in [Producers -> Nat]
  /\ got \in [Consumers -> Seq(Item)]

Init ==
  /\ queue = << >>
  /\ pushed = [p \in Producers |-> 0]
  /\ got = [c \in Consumers |-> << >>]

Push(p) ==
  /\ queue' = Append(queue, <<p, pushed[p] + 1>>)
  /\ pushed' = [pushed EXCEPT ![p] = @ + 1]
  /\ UNCHANGED got

Pop(c) ==
  /\ queue # << >>
  /\ got' = [got EXCEPT ![c] = Append(@, Head(queue))]
  /\ queue' = Tail(queue)
  /\ UNCHANGED pushed

Next ==
  \/ \E p \in Producers : Push(p)
  \/ \E c \in Consumers : Pop(c)

Spec == Init /\ [][Next]_vars

-----------------------------------------------------------------------------
(* x was pushed before y by the same producer *)
Before(x, y) == x[1] = y[1] /\ x[2] < y[2]

SameProducer(x, y) == x[1] = y[1]

(* The items of one producer appear in s in the order it pushed them. *)
Ascending(s) ==
  \A i, j \in DOMAIN s : i < j /\ SameProducer(s[i], s[j]) => Before(s[i], s[j])

(* Whatever one consumer has received or the queue still holds keeps the   *)
(* order of each producer, and what is still queued is newer than anything *)
(* already delivered: ConcurrentQueue never reorders a producer's items.   *)
InOrder ==
  /\ Ascending(queue)
  /\ \A c \in Consumers : Ascending(got[c])
  /\ \A c \in Consumers : \A i \in DOMAIN got[c], j \in DOMAIN queue :
       SameProducer(got[c][i], queue[j]) => Before(got[c][i], queue[j])

(* No item reaches two consumers.                                          *)
DeliveredOnce ==
  \A c, d \in Consumers : c # d =>
    \A i \in DOMAIN got[c], j \in DOMAIN got[d] : got[c][i] # got[d][j]

(* Nothing that was pushed disappears: it is queued or some consumer got it. *)
NothingLost ==
  \A p \in Producers : \A n \in 1 .. pushed[p] :
    \/ \E j \in DOMAIN queue : queue[j] = <<p, n>>
    \/ \E c \in Consumers : \E i \in DOMAIN got[c] : got[c][i] = <<p, n>>

(* The delivery guarantee of the queue in one formula. *)
Delivery == InOrder /\ DeliveredOnce /\ NothingLost
=============================================================================
