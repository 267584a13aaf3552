------------------------------ MODULE StringRef ------------------------------
(***************************************************************************)
(* The operations of llvm::StringRef (llvm/StringRef.h) that the parsers   *)
(* of support are built from, on strings as sequences of characters.       *)
(***************************************************************************)
EXTENDS Integers, Sequences, FiniteSetsExt

drop_front(s, n) == SubSeq(s, n + 1, Len(s))
take_front(s, n) == SubSeq(s, 1, n)

(* the places of a character *)
Occurrences(s, c) == {i \in DOMAIN s : s[i] = c}

(* split: at the first place of the separator; all and nothing without one *)
split(s, c) ==
  IF Occurrences(s, c) = {} THEN <<s, <<>>>>
  ELSE LET i == Min(Occurrences(s, c)) IN <<take_front(s, i - 1), drop_front(s, i)>>

(* rsplit: at the last place of it *)
rsplit(s, c) ==
  IF Occurrences(s, c) = {} THEN <<s, <<>>>>
  ELSE LET i == Max(Occurrences(s, c)) IN <<take_front(s, i - 1), drop_front(s, i)>>
=============================================================================
