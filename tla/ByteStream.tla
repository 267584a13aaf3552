----------------------------- MODULE ByteStream -----------------------------
(***************************************************************************)
(* What a raw_socket_ostream and the raw_socket_istream at the other end   *)
(* promise together: the bytes are delivered in the order in which they    *)
(* were written, none twice, and some in between are lost only with an     *)
(* error at one of the ends.  The n-th byte that is written is n.          *)
(***************************************************************************)
EXTENDS Integers, Sequences

VARIABLES
  written,    \* how many bytes were written
  transit,    \* those that may still be delivered
  delivered,  \* what the calls of read have returned, in order
  cut,        \* the connection is over for the reader
  broken      \* an end has detected an error

vars == <<written, transit, delivered, cut, broken>>

(* the bytes m+1 .. n *)
Bytes(m, n) == [i \in 1 .. n - m |-> m + i]

Init ==
  /\ written = 0
  /\ transit = <<>>
  /\ delivered = <<>>
  /\ cut = FALSE
  /\ broken = FALSE

Write ==
  /\ written' \in Nat /\ written' > written
  /\ transit' = IF cut THEN transit ELSE transit \o Bytes(written, written')
  /\ UNCHANGED <<delivered, cut, broken>>

Deliver ==
  \E n \in 1 .. Len(transit) :
    /\ delivered' = delivered \o SubSeq(transit, 1, n)
    /\ transit' = SubSeq(transit, n + 1, Len(transit))
    /\ UNCHANGED <<written, cut, broken>>

(* the connection ends: what is delivered is only a first part of the rest *)
Cut ==
  /\ cut' = TRUE
  /\ \E n \in 0 .. Len(transit) : transit' = SubSeq(transit, 1, n)
  /\ UNCHANGED <<written, delivered, broken>>

(* an error at one of the ends: any piece of the rest may be lost *)
Lose ==
  /\ broken' = TRUE
  /\ \E i, j \in 0 .. Len(transit) :
       /\ i <= j
       /\ transit' = SubSeq(transit, 1, i) \o SubSeq(transit, j + 1, Len(transit))
  /\ UNCHANGED <<written, delivered, cut>>

Next == Write \/ Deliver \/ Cut \/ Lose

Spec == Init /\ [][Next]_vars

-----------------------------------------------------------------------------
(* Bytes are never swapped and never delivered twice.                      *)
InOrder == \A i, j \in DOMAIN delivered : i < j => delivered[i] < delivered[j]

(* As long as neither stream has an error, nothing is missing in between.  *)
NoGap == ~broken => delivered = Bytes(0, Len(delivered))
=============================================================================
