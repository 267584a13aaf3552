------------------------------- MODULE Coders -------------------------------
(***************************************************************************)
(* The coders and searches of support that are one walk over their input:  *)
(* LEB128, Base64, StringRef::find, compare_numeric and the numbers and    *)
(* strings of the JSON lexer.  A unit is given a sample and gives its      *)
(* answer at once.                                                         *)
(***************************************************************************)
EXTENDS StringRef, SequencesExt

CONSTANTS ShortHaystack, MaxNeedle, IntegerBits

VARIABLES
  unit,    \* the unit that runs
  sample   \* what it is given

LB == INSTANCE Leb128
B64 == INSTANCE Base64
SA == INSTANCE StringRefAlgorithms
LX == INSTANCE JsonLexer

ASSUME NeedleAssumption == MaxNeedle \in Nat

NumberChars == {"-", "+", ".", "e"} \cup LX!Digit

(* what the strings are compared with: digits, and what comes before and   *)
(* after them                                                              *)
NumericTexts == SeqOf({47, 48, 49}, 3) \cup {<<97>>, <<49, 97>>}

(* What each of the units may be given: a number without zeros at its high *)
(* end, bytes, two strings, a string, a text, bytes, a code point.         *)
Given(u, x) ==
  /\ u = "leb128" => x \in Seq(0 .. 127) /\ x # <<>> /\ (Len(x) = 1 \/ x[Len(x)] # 0)
  /\ u = "Base64" => x \in Seq(0 .. 255)
  /\ u = "StringRef::find" => x \in Seq(Nat) \X Seq(Nat)
  /\ u = "compare_numeric" => x \in Seq(Nat)
  /\ u = "scan_number" => x \in Seq(NumberChars)
  /\ u = "scan_string" => x \in Seq(0 .. 255)
  /\ u = "get_codepoint" => x \in Nat /\ x <= 1114111

(* ReadUleb128 and Base64Decode give back what WriteUleb128 and            *)
(* Base64Encode were given, except numbers from 2^32 in LEB128, and what   *)
(* is cut off is not taken for something else.  StringRef::find: the first *)
(* place of the string is found, whatever is skipped on the way.           *)
(* compare_numeric has all the laws of an order.  scan_number takes for a  *)
(* number exactly what RFC 7159 says is one, as an integer if it is one    *)
(* that fits, and scan_string reads what the serializer wrote as the       *)
(* string it was given, if and only if that is valid UTF-8; an escaped     *)
(* code point is read as the bytes that stand for it.                      *)
CodersExact ==
  /\ unit = "leb128" => LB!LebInverse(sample)
  /\ unit = "Base64" => B64!Base64Inverse(sample)
  /\ unit = "StringRef::find" => SA!FindsFirst(sample[1], sample[2])
  /\ unit = "compare_numeric" => SA!NumericOrder(sample, NumericTexts)
  /\ unit = "scan_number" => LX!NumberByGrammar(sample)
  /\ unit = "scan_string" => LX!StringInverse(sample)
  /\ unit = "get_codepoint" => LX!EscapeInverse(sample)
=============================================================================
