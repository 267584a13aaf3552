---------------------------- MODULE JsonCompare ----------------------------
(***************************************************************************)
(* Equality and order of JSON values (support/json.cpp, and for objects    *)
(* those of llvm/StringMap.h).  A number is a std::int64_t, std::uint64_t  *)
(* or double, with fewer bits here; a double is given in halves, so that   *)
(* some stand between the integers.  A string is its place in the order.   *)
(***************************************************************************)
EXTENDS Integers, FiniteSetsExt, SequencesExt

CONSTANTS
  IntegerBits,     \* bound: the bits of an integer, 64 in the code
  DoubleBits  \* bound: the bits of a double's significand, 53 in the code

Null == [type |-> "null"]
Boolean(b) == [type |-> "boolean", value |-> b]       \* 0 or 1
Integer(i) == [type |-> "number_integer", value |-> i]
Unsigned(i) == [type |-> "number_unsigned", value |-> i]
Float(halves) == [type |-> "number_float", value |-> halves]
NaN == [type |-> "number_float"]
String(rank) == [type |-> "string", value |-> rank]
Array(elements) == [type |-> "array", elements |-> elements]
Object(members) == [type |-> "object", members |-> members]
Discarded == [type |-> "discarded"]

Numbers == {"number_integer", "number_unsigned", "number_float"}

(* value_t's order; discarded values have none *)
Order(type) ==
  CASE type = "null" -> 0 [] type = "boolean" -> 1 [] type \in Numbers -> 2
    [] type = "object" -> 3 [] type = "array" -> 4 [] type = "string" -> 5

(* static_cast<std::int64_t> of an unsigned number *)
Signed(i) == IF i < 2 ^ (IntegerBits - 1) THEN i ELSE i - 2 ^ IntegerBits

(* static_cast<double> of an integer, in halves: to the nearest number of  *)
(* DoubleBits bits, and between two of them to the even one                 *)
ToDouble(i) ==
  LET abs == IF i < 0 THEN -i ELSE i
      ulp == 2 ^ Min({e \in 0 .. IntegerBits : abs < 2 ^ (DoubleBits + e)})
      down == abs \div ulp
      up == 2 * (abs % ulp) > ulp \/ (2 * (abs % ulp) = ulp /\ down % 2 = 1)
      rounded == ulp * (IF up THEN down + 1 ELSE down)
  IN  2 * (IF i < 0 THEN -rounded ELSE rounded)

(* A number as it is converted for a comparison with another: a double if  *)
(* one of the two is, else signed if one of them is.                       *)
As(n, other) ==
  CASE n.type = "number_float" -> n.value
    [] n.type # "number_float" /\ other.type = "number_float" -> ToDouble(n.value)
    [] n.type = "number_unsigned" /\ other.type = "number_integer" -> Signed(n.value)
    [] OTHER -> n.value

(* bug: operator== has no case for a double and an unsigned number *)
EqualNumbersOneWay(a, b) ==
  /\ NaN \notin {a, b} /\ As(a, b) = As(b, a)
  /\ ~(a.type = "number_float" /\ b.type = "number_unsigned")

EqualNumbers(a, b) == NaN \notin {a, b} /\ As(a, b) = As(b, a)
LessNumbers(a, b) == NaN \notin {a, b} /\ As(a, b) < As(b, a)

-----------------------------------------------------------------------------
(* operator==, of two values or of one with itself: an object is equal to  *)
(* itself whatever it holds                                                *)
RECURSIVE Equal(_, _, _), Less(_, _)

Equal(a, b, same) ==
  IF a.type \in Numbers /\ b.type \in Numbers THEN EqualNumbers(a, b)
  ELSE IF a.type # b.type THEN FALSE
  ELSE CASE a.type = "null" -> TRUE
         [] a.type \in {"string", "boolean"} -> a.value = b.value
         [] a.type = "array" ->
              /\ Len(a.elements) = Len(b.elements)
              /\ \A i \in DOMAIN a.elements : Equal(a.elements[i], b.elements[i], same)
         [] a.type = "object" ->
              \/ same
              \/ /\ DOMAIN a.members = DOMAIN b.members
                 /\ \A k \in DOMAIN a.members : Equal(a.members[k], b.members[k], same)
         [] a.type = "discarded" -> FALSE

(* the keys of an object in their order, which is all that StringMap's <   *)
(* looks at                                                                *)
SortedKeys(a) ==
  LET keys == SetToSortSeq(DOMAIN a.members, <) IN Array([i \in DOMAIN keys |-> String(keys[i])])

(* operator<; values of different types go by the order of the types *)
Less(a, b) ==
  IF a.type \in Numbers /\ b.type \in Numbers THEN LessNumbers(a, b)
  ELSE IF "discarded" \in {a.type, b.type} THEN FALSE
  ELSE IF a.type # b.type THEN Order(a.type) < Order(b.type)
  ELSE CASE a.type = "null" -> FALSE
         [] a.type \in {"string", "boolean"} -> a.value < b.value
         [] a.type = "object" -> Less(SortedKeys(a), SortedKeys(b))
         [] a.type = "array" ->  \* std::vector's <
              \E i \in DOMAIN b.elements :
                /\ i <= Len(a.elements) + 1
                /\ \A k \in 1 .. i - 1 : /\ ~Less(a.elements[k], b.elements[k])
                                        /\ ~Less(b.elements[k], a.elements[k])
                /\ i = Len(a.elements) + 1 \/ Less(a.elements[i], b.elements[i])

-----------------------------------------------------------------------------
(* What a value says, without the type of its numbers; and what of it is   *)
(* ordered, which leaves out what is in its objects.                       *)
RECURSIVE Atoms(_), Meaning(_), Ordered(_)

(* the values in a that are not arrays or objects *)
Atoms(a) ==
  CASE a.type = "array" -> UNION {Atoms(a.elements[i]) : i \in DOMAIN a.elements}
    [] a.type = "object" -> UNION {Atoms(a.members[k]) : k \in DOMAIN a.members}
    [] OTHER -> {a}

Number(a) == IF a.type = "number_float" THEN a.value ELSE 2 * a.value

Meaning(a) ==
  CASE a.type \in Numbers -> <<"number", Number(a)>>
    [] a.type = "array" -> <<"array", [i \in DOMAIN a.elements |-> Meaning(a.elements[i])]>>
    [] a.type = "object" -> <<"object", [k \in DOMAIN a.members |-> Meaning(a.members[k])]>>
    [] OTHER -> <<a.type, a>>

Ordered(a) ==
  CASE a.type = "array" -> <<"array", [i \in DOMAIN a.elements |-> Ordered(a.elements[i])]>>
    [] a.type = "object" -> <<"object", DOMAIN a.members>>
    [] OTHER -> Meaning(a)

(* no number, and nothing that is equal to itself *)
Incomparable == {NaN, Discarded}

(* a number that a conversion may change *)
IsInexact(a) ==
  \/ a.type \in {"number_integer", "number_unsigned"} /\ ToDouble(a.value) # 2 * a.value
  \/ a.type = "number_unsigned" /\ Signed(a.value) # a.value

IsComparable(a) == Atoms(a) \cap Incomparable = {}
IsExact(a) == IsComparable(a) /\ \A n \in Atoms(a) : ~IsInexact(n)

(* What the conversions of numbers and the order of objects leave of the   *)
(* laws of an order.  Always: == goes both ways, < goes at most one way    *)
(* and not between equals, and a value without NaN is its own equal.     *)
(* For values with exact numbers: == means the same value, < is an order   *)
(* in which only values that differ inside their objects are alike.        *)
ComparisonLaws(a, others) ==
  /\ IsComparable(a) => Equal(a, a, FALSE) /\ Equal(a, a, TRUE)
  /\ \A b \in others :
       /\ Equal(a, b, FALSE) = Equal(b, a, FALSE)
       /\ ~(Less(a, b) /\ Less(b, a))
       /\ Equal(a, b, FALSE) => ~Less(a, b)
  /\ IsExact(a) => \A b \in {x \in others : IsExact(x)} :
       /\ Equal(a, b, FALSE) <=> Meaning(a) = Meaning(b)
       /\ ~Less(a, b) /\ ~Less(b, a) <=> Ordered(a) = Ordered(b)
       /\ Less(a, b) => \A c \in others : IsExact(c) /\ Less(b, c) => Less(a, c)
=============================================================================
