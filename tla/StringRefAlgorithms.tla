------------------------ MODULE StringRefAlgorithms ------------------------
(***************************************************************************)
(* The algorithms of llvm::StringRef (cpp/llvm/StringRef.cpp): the search  *)
(* for a string, splitting at every separator, the conversion to integers, *)
(* and the comparisons that ignore case or read digits as numbers.         *)
(* Characters are their codes, and places are counted from 0.              *)
(***************************************************************************)
EXTENDS StringRef, SequencesExt

CONSTANTS
  ShortHaystack,  \* bound: what is shorter is searched naively; 16 in the code
  MaxNeedle,      \* bound: the largest number in a table of skips; 255 in the code
  IntegerBits     \* bound: the width of the widest integers; 64 in the code

npos == -1

-----------------------------------------------------------------------------
(* Searching *)

(* memcmp(Start, Needle, N) == 0 *)
Matches(s, str, at) == SubSeq(s, at + 1, at + Len(str)) = str

(* bug: the first of the other characters that is c counts, not the last *)
BadCharSkipFirst(str, c) ==
  LET others == Occurrences(str, c) \ {Len(str)} IN
  (IF others = {} THEN Len(str) ELSE Len(str) - Min(others)) % (MaxNeedle + 1)

(* BadCharSkip[c]: how far the last of the other characters that is c is   *)
(* from the end                                                            *)
BadCharSkip(str, c) ==
  Min({Len(str)} \cup {Len(str) - i : i \in Occurrences(str, c) \ {Len(str)}}) % (MaxNeedle + 1)

find(s, str, from) ==
  LET last == Len(s) - Len(str)
      naive == Len(s) - from < ShortHaystack \/ Len(str) > MaxNeedle
      Stride(at) == IF naive THEN 1 ELSE BadCharSkip(str, s[at + Len(str)])
      search[at \in from .. Len(s)] ==
        IF at > last THEN npos
        ELSE IF Matches(s, str, at) THEN at ELSE search[at + Stride(at)]
  IN  IF from > Len(s) THEN npos ELSE IF str = <<>> THEN from ELSE search[from]

(* The first place where the string is, behind whatever was skipped. *)
FindsFirst(s, str) ==
  \A from \in 0 .. Len(s) + 1 :
    LET places == {at \in from .. Len(s) - Len(str) : Matches(s, str, at)}
    IN  find(s, str, from) = IF places = {} THEN npos ELSE Min(places)

-----------------------------------------------------------------------------
(* split into a vector: at most maxSplit times, or without end for -1.  An *)
(* empty part that is not kept is a split as well.                         *)
splitAll(s, separator, maxSplit, keepEmpty) ==
  LET Part(t) == IF keepEmpty \/ t # <<>> THEN <<t>> ELSE <<>>
      parts[n \in 0 .. Len(s), left \in -1 - Len(s) .. Max({0, maxSplit})] ==
        LET at == IF left = 0 THEN npos ELSE find(s, separator, n)
        IN  IF at = npos THEN Part(drop_front(s, n))
            ELSE Part(SubSeq(s, n + 1, at)) \o parts[at + Len(separator), left - 1]
  IN  parts[0, maxSplit]

Joined(parts, separator) ==
  FoldLeft(LAMBDA all, part : all \o separator \o part, Head(parts), Tail(parts))

(* llvm/StringRef.h:489-498: the parts joined again are the string, no     *)
(* more of them than was asked for, and as many as there can be; to leave  *)
(* out the empty ones changes nothing else.                                *)
SplitInverse(s, separator) ==
  \A maxSplit \in -1 .. 2 :
    LET parts == splitAll(s, separator, maxSplit, TRUE)
        Uncut(t) == \A at \in 0 .. Len(t) - Len(separator) : ~Matches(t, separator, at)
    IN  /\ Joined(parts, separator) = s
        /\ maxSplit # -1 => Len(parts) <= maxSplit + 1
        /\ \A i \in 1 .. Len(parts) - 1 : Uncut(parts[i])
        /\ Len(parts) # maxSplit + 1 => Uncut(Last(parts))
        /\ splitAll(s, separator, maxSplit, FALSE) = SelectSeq(parts, LAMBDA t : t # <<>>)

-----------------------------------------------------------------------------
(* Integers *)

MINUS == 45
ascii_isdigit(c) == c \in 48 .. 57

(* the value of a digit or letter, and of none a number no radix exceeds *)
CharVal(c) ==
  IF ascii_isdigit(c) THEN c - 48
  ELSE IF c \in 97 .. 122 THEN c - 87
  ELSE IF c \in 65 .. 90 THEN c - 55
  ELSE 36

(* a prefix, and the radix it stands for *)
RadixPrefixes ==
  {<<<<48, 120>>, 16>>, <<<<48, 88>>, 16>>, <<<<48, 98>>, 2>>, <<<<48, 66>>, 2>>, <<<<48, 111>>, 8>>}

GetAutoSenseRadix(s) ==
  IF \E p \in RadixPrefixes : Matches(s, p[1], 0)
  THEN LET p == CHOOSE q \in RadixPrefixes : Matches(s, q[1], 0)
       IN  [radix |-> p[2], rest |-> drop_front(s, Len(p[1]))]
  ELSE [radix |-> IF Matches(s, <<48>>, 0) THEN 8 ELSE 10, rest |-> s]

error == -1

(* getAsUnsignedInteger: a digit that makes the number too large to keep   *)
(* is noticed because it cannot be divided off again                       *)
getAsUnsignedInteger(s, givenRadix) ==
  LET sensed == IF givenRadix = 0 THEN GetAutoSenseRadix(s) ELSE [radix |-> givenRadix, rest |-> s]
      radix == sensed.radix
      Next(prev, c) ==
        LET result == (prev * radix + CharVal(c)) % 2 ^ IntegerBits
        IN  IF prev = error \/ CharVal(c) >= radix \/ result \div radix < prev THEN error
            ELSE result
  IN  IF sensed.rest = <<>> THEN error ELSE FoldLeft(Next, 0, sensed.rest)

(* the cast to long long *)
Signed(u) == IF u < 2 ^ (IntegerBits - 1) THEN u ELSE u - 2 ^ IntegerBits

(* getAsSignedInteger: the number, as a set that is empty after an error *)
SignedIntegers(s, radix) ==
  LET negative == s # <<>> /\ s[1] = MINUS
      u == getAsUnsignedInteger(IF negative THEN drop_front(s, 1) ELSE s, radix)
      v == Signed(IF negative THEN (2 ^ IntegerBits - u) % 2 ^ IntegerBits ELSE u)
  IN  IF u = error \/ (IF negative THEN v > 0 ELSE v < 0) THEN {} ELSE {v}

(* getAsInteger of a signed type with so many bits *)
getAsInteger(s, radix, bits) ==
  SignedIntegers(s, radix) \cap -(2 ^ (bits - 1)) .. 2 ^ (bits - 1) - 1

(* What is read is what is written, in each radix and behind each prefix,  *)
(* if it fits; all else is an error.                                       *)
IntegerExact(s) ==
  LET negative == s # <<>> /\ s[1] = MINUS
      digits == IF negative THEN drop_front(s, 1) ELSE s
      Value(radix) == FoldLeft(LAMBDA n, c : n * radix + CharVal(c), 0, digits)
      Written(radix) ==
        IF digits # <<>> /\ \A i \in DOMAIN digits : CharVal(digits[i]) < radix
        THEN {IF negative THEN -Value(radix) ELSE Value(radix)} ELSE {}
  IN  \A bits \in {IntegerBits, IntegerBits - 1} :
        LET fitting == -(2 ^ (bits - 1)) .. 2 ^ (bits - 1) - 1 IN
        /\ \A radix \in {2, 8, 10, 16} : getAsInteger(s, radix, bits) = Written(radix) \cap fitting
        /\ ~negative => \A p \in RadixPrefixes :
             getAsInteger(<<MINUS>> \o p[1] \o s, 0, bits)
               = {-v : v \in Written(p[2])} \cap fitting

-----------------------------------------------------------------------------
(* compare_numeric *)

Sign(a, b) == IF a < b THEN -1 ELSE IF a > b THEN 1 ELSE 0

compare(s, t) ==
  LET differ == {i \in 1 .. Min({Len(s), Len(t)}) : s[i] # t[i]}
  IN  IF differ = {} THEN Sign(Len(s), Len(t)) ELSE Sign(s[Min(differ)], t[Min(differ)])

(* the first place behind i without a digit *)
RunEnd(s, i) == Min({j \in i + 1 .. Len(s) + 1 : j > Len(s) \/ ~ascii_isdigit(s[j])})

(* the longer of two runs of digits is the larger *)
compare_numeric(s, t) ==
  LET end == Min({Len(s), Len(t)}) + 1
      from[i \in 1 .. end] ==
        IF i = end THEN Sign(Len(s), Len(t))
        ELSE IF ascii_isdigit(s[i]) /\ ascii_isdigit(t[i])
        THEN LET j == RunEnd(s, i) IN
             IF j # RunEnd(t, i) THEN Sign(j, RunEnd(t, i))
             ELSE IF SubSeq(s, i, j - 1) = SubSeq(t, i, j - 1) THEN from[j]
             ELSE compare(SubSeq(s, i, j - 1), SubSeq(t, i, j - 1))
        ELSE IF s[i] # t[i] THEN Sign(s[i], t[i]) ELSE from[i + 1]
  IN  from[1]

IsNumeral(s) == /\ s # <<>> /\ s[1] # 48
                /\ \A i \in DOMAIN s : ascii_isdigit(s[i])

(* compare_numeric orders strings: of two different ones one comes first,  *)
(* and what comes before something that comes first does so too.           *)
NumericOrder(a, others) ==
  \A b \in others :
    /\ compare_numeric(a, b) = -compare_numeric(b, a)
    /\ compare_numeric(a, b) = 0 <=> a = b
    /\ compare_numeric(a, b) = -1 =>
         \A c \in others : compare_numeric(b, c) = -1 => compare_numeric(a, c) = -1

(* Numbers in the same text come by their values. *)
NumeralsByValue(a, others) ==
  \A b \in others : IsNumeral(a) /\ IsNumeral(b) =>
    LET Value(s) == FoldLeft(LAMBDA n, c : n * 10 + CharVal(c), 0, s)
    IN  compare_numeric(<<47>> \o a \o <<97>>, <<47>> \o b) =
          IF a = b THEN 1 ELSE Sign(Value(a), Value(b))
=============================================================================
