------------------------------- MODULE Leb128 -------------------------------
(***************************************************************************)
(* support/leb128.cpp.  A uint64_t is the sequence of its digits to base   *)
(* 128, the lowest first, without zeros at its high end.                   *)
(***************************************************************************)
EXTENDS StringRef, SequencesExt

Digits(values, n) ==
  {<<0>>} \cup {d \in SeqOf(values, n) : d # <<>> /\ d[Len(d)] # 0}

SizeUleb128(val) == Len(val)

(* each byte but the last is marked: more bytes follow *)
WriteUleb128(val) == [i \in DOMAIN val |-> IF i < Len(val) THEN val[i] + 128 ELSE val[i]]

(* What ReadUleb128 reads from bytes that go on: those up to the first     *)
(* that is not marked.  They are put together in a uint32_t, which has 4   *)
(* bits for the fifth digit; the shift of a sixth is undefined.  Without   *)
(* such a byte the variant that reads a stream fails.                      *)
ReadUleb128(bytes) ==
  LET ends == {i \in DOMAIN bytes : bytes[i] < 128}
      count == Min(ends)
      Digit(i) == IF i = 5 THEN (bytes[i] % 128) % 16 ELSE bytes[i] % 128
      highest == Max({1} \cup {i \in 1 .. count : Digit(i) # 0})
  IN  IF ends = {} THEN [outcome |-> "error"]
      ELSE IF count > 5 THEN [outcome |-> "undefined", count |-> count]
      ELSE [outcome |-> "read", count |-> count, val |-> [i \in 1 .. highest |-> Digit(i)]]

Below32Bits(val) == Len(val) < 5 \/ (Len(val) = 5 /\ val[5] < 16)

(* What is written is read again, for exactly the numbers below 2^32, and  *)
(* neither side ever takes the bytes that follow for its own.              *)
LebInverse(val) ==
  LET bytes == WriteUleb128(val)
      read == ReadUleb128(bytes \o <<127, 128>>)
  IN  /\ Len(bytes) = SizeUleb128(val)
      /\ read.outcome # "error" /\ read.count = Len(bytes)
      /\ (read.outcome = "read" /\ read.val = val) <=> Below32Bits(val)
      /\ ReadUleb128(take_front(bytes, Len(bytes) - 1)).outcome = "error"
=============================================================================
