---------------------------- MODULE RawFdIstream ----------------------------
(***************************************************************************)
(* raw_fd_istream (support/raw_istream.h, .cpp): a file read through a     *)
(* buffer.  The bytes of the file are 1 .. FileSize, in this order.        *)
(***************************************************************************)
EXTENDS StringRef

CONSTANTS
  BufSize,   \* m_bufSize
  FileSize,  \* bound: the length of the file
  MaxRead    \* bound: how much one read asks for

ASSUME FdAssumption == {BufSize, FileSize, MaxRead} \subseteq Nat

VARIABLES
  file,     \* what ::read has not returned yet
  avail,    \* from m_cur to m_end
  failed,   \* m_error
  got,      \* history: what the reads returned since the last error
  overran   \* history: a read asked for more than its buffer then held

fdVars == <<file, avail, failed, got, overran>>

FdInit ==
  /\ file = [i \in 1 .. FileSize |-> i]
  /\ avail = <<>>
  /\ failed = FALSE
  /\ got = <<>>
  /\ overran = FALSE

(* bug: a byte of what is left is passed over each time around *)
CopiedShort(left, len) == [i \in 1 .. len |-> left[1 + (i % Len(left))]]

(* What read_impl copies when left is what m_cur .. m_end holds: when that *)
(* is too little it is copied and the rest asked for again, from the same  *)
(* place, for m_cur has not moved.                                         *)
Copied(left, len) == [i \in 1 .. len |-> left[1 + ((i - 1) % Len(left))]]

(* m_cur after that *)
Left(left, len) == drop_front(left, 1 + ((len - 1) % Len(left)))

Take(left, len) ==
  /\ got' = got \o Copied(left, len)
  /\ avail' = Left(left, len)
  /\ overran' = (overran \/ len > Len(left))
  /\ UNCHANGED failed

(* read_impl, with an empty buffer: one ::read returns some of the file *)
ReadFile(len) ==
  /\ avail = <<>>
  /\ \E n \in 1 .. Min({BufSize, Len(file)}) :
       /\ Take(SubSeq(file, 1, n), len)
       /\ file' = drop_front(file, n)

(* the same at the end of the file, or when ::read fails *)
ReadFails ==
  /\ avail = <<>>
  /\ failed' = TRUE
  /\ UNCHANGED <<file, avail, got, overran>>

(* read_impl, with something in the buffer *)
ReadBuffer(len) == avail # <<>> /\ Take(avail, len) /\ UNCHANGED file

(* readsome, which never asks for more than in_avail *)
Readsome(len) ==
  /\ avail # <<>>
  /\ Take(avail, Min({len, Len(avail)}))
  /\ UNCHANGED file

FdNext ==
  /\ Len(got) < FileSize
  /\ \/ \E len \in 1 .. MaxRead : ReadFile(len) \/ ReadBuffer(len) \/ Readsome(len)
     \/ ReadFails

FdSpec == FdInit /\ [][FdNext]_fdVars

-----------------------------------------------------------------------------
(* As long as no read asks for more than the buffer holds, and no longer,  *)
(* the reader gets the bytes of the file in their order, each once: what   *)
(* is then in the buffer goes before what is still in the file.            *)
InOrderUnlessOverran ==
  (got \o avail \o file = [i \in 1 .. FileSize |-> i]) <=> ~overran
=============================================================================
