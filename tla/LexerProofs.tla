---------------------------- MODULE LexerProofs ----------------------------
(***************************************************************************)
(* The JSON lexer, for texts of every length; and that all the coders are  *)
(* exact.  What the lexer computes is a recursive function on the places   *)
(* of a text or on what is left of it: Recursion says that it is defined,  *)
(* and FromFront is the induction along it.  scan_number: each state says  *)
(* what form the characters up to it have.  scan_string: what was written  *)
(* of a string is read character by character, for CharLength sees the     *)
(* same in the text as in the string.                                      *)
(***************************************************************************)
EXTENDS CoderProofs

(***************************************************************************)
(* scan_number                                                             *)
(***************************************************************************)

(* the values of a function at the places below k *)
Earlier(f, k) == [i \in 0 .. k - 1 |-> f[i]]

(* each step gives a value from those at smaller places, and f takes them  *)
StepsIn(step, n, V) == \A k \in 0 .. n : \A g \in [0 .. k - 1 -> V] : step[k][g] \in V
Recurs(f, step, n, V) ==
  f \in [0 .. n -> V] /\ \A k \in 0 .. n : f[k] = step[k][Earlier(f, k)]

(* A recursive function on 0 .. n each of whose values is made of those at *)
(* smaller places is defined.                                              *)
LEMMA Recursion ==
  ASSUME NEW V, NEW n \in Nat, NEW step, StepsIn(step, n, V)
  PROVE  \E f : Recurs(f, step, n, V)
<1> USE DEF StepsIn, Recurs
<1> DEFINE Made(f, m) == f \in [0 .. m - 1 -> V] /\ \A k \in 0 .. m - 1 : f[k] = step[k][Earlier(f, k)]
           bad == {m \in 0 .. n + 1 : ~ \E f : Made(f, m)}
<1>1. SUFFICES bad = {}
  <2>1. n + 1 \in 0 .. n + 1 /\ n + 1 - 1 = n
    OBVIOUS
  <2>2. n + 1 \notin bad
    BY <1>1
  <2>3. PICK f : Made(f, n + 1)
    BY <2>1, <2>2
  <2>4. f \in [0 .. n -> V] /\ \A k \in 0 .. n : f[k] = step[k][Earlier(f, k)]
    BY <2>1, <2>3
  <2> QED BY <2>4
<1>2. SUFFICES ASSUME bad # {} PROVE FALSE
  OBVIOUS
<1> DEFINE m == Min(bad)
<1>3. m \in bad /\ \A j \in bad : m <= j
  <2>1. bad \in SUBSET Nat
    OBVIOUS
  <2> HIDE DEF bad
  <2> QED BY <1>2, <2>1, Least
<1>4. m \in 0 .. n + 1 /\ ~ \E f : Made(f, m)
  BY <1>3
<1> HIDE DEF m
<1>5. CASE m = 0
  <2>1. 0 .. m - 1 = {}
    BY <1>5
  <2>2. [i \in {} |-> 0] \in [0 .. m - 1 -> V] /\ \A k \in 0 .. m - 1 : FALSE
    BY <2>1
  <2> QED BY <1>4, <2>2
<1>6. CASE m # 0
  <2>1. m - 1 \in 0 .. n /\ m - 1 < m /\ m - 1 \in 0 .. n + 1
    BY <1>4, <1>6
  <2>2. \E f : Made(f, m - 1)
    <3>1. m - 1 \notin bad
      <4> HIDE DEF bad
      <4> QED BY <1>3, <1>4, <2>1
    <3> QED BY <2>1, <3>1
  <2>3. PICK f : Made(f, m - 1)
    BY <2>2
  <2> DEFINE g == [k \in 0 .. m - 1 |-> IF k = m - 1 THEN step[m - 1][f] ELSE f[k]]
  <2>4. 0 .. m - 1 - 1 = 0 .. m - 2 /\ f \in [0 .. m - 2 -> V]
    <3>1. m - 1 - 1 = m - 2
      BY <1>4
    <3> QED BY <2>3, <3>1
  <2>5. \A k \in 0 .. m - 1 : k # m - 1 => k \in 0 .. m - 2
    BY <1>4
  <2>6. step[m - 1][f] \in V
    BY <2>1, <2>3
  <2>7. g \in [0 .. m - 1 -> V]
    BY <2>4, <2>5, <2>6
  <2>8. \A k \in 0 .. m - 1 : Earlier(g, k) = Earlier(f, k)
    <3> SUFFICES ASSUME NEW k \in 0 .. m - 1 PROVE Earlier(g, k) = Earlier(f, k)
      OBVIOUS
    <3>1. \A i \in 0 .. k - 1 : i \in 0 .. m - 1 /\ i # m - 1
      BY <2>1
    <3>2. \A i \in 0 .. k - 1 : g[i] = f[i]
      BY <3>1
    <3> HIDE DEF g
    <3> QED BY <3>2 DEF Earlier
  <2>9. Earlier(f, m - 1) = f
    BY <2>3, <2>4 DEF Earlier
  <2>10. \A k \in 0 .. m - 1 : g[k] = step[k][Earlier(g, k)]
    <3> SUFFICES ASSUME NEW k \in 0 .. m - 1 PROVE g[k] = step[k][Earlier(f, k)]
      BY <2>8
    <3>1. CASE k = m - 1
      BY <2>9, <3>1
    <3>2. CASE k # m - 1
      <4>1. k \in 0 .. m - 1 - 1
        BY <2>4, <2>5, <3>2
      <4>2. f[k] = step[k][Earlier(f, k)]
        BY <2>3, <4>1
      <4> QED BY <3>2, <4>2
    <3> QED BY <3>1, <3>2
  <2> HIDE DEF g
  <2>11. Made(g, m)
    BY <2>7, <2>10
  <2> HIDE DEF Made
  <2> QED BY <1>4, <2>11
<1> QED BY <1>5, <1>6

(* the digits, and the other characters of a number *)
LEMMA DigitsAre ==
  /\ "0" \in LX!Digit
  /\ \A c \in {"-", "+", ".", "e", "end"} : c \notin LX!Digit
<1>1. DOMAIN LX!Numerals = 1 .. 10 /\ LX!Numerals[1] = "0"
  BY DEF LX!Numerals
<1>2. LX!Digit = {LX!Numerals[i] : i \in 1 .. 10}
  BY <1>1 DEF LX!Digit, LX!Range
<1>3. \A i \in 1 .. 10 : LX!Numerals[i] \notin {"-", "+", ".", "e", "end"}
  BY DEF LX!Numerals
<1> QED BY <1>1, <1>2, <1>3

Ending == {"zero", "any1", "decimal2", "any2"}
Ended == {"done", "error"}
NumberStates == Ending \cup Ended \cup {"init", "minus", "decimal1", "exponent", "sign"}

(* where scan_number goes from a state with a character, *)
LEMMA StepsFrom ==
  ASSUME NEW q \in NumberStates, NEW c \in NumberChars \cup {"end"}
  PROVE  /\ LX!Step(q, c) \in NumberStates
         /\ c \in LX!Digit =>
              /\ q \in {"init", "minus"} => LX!Step(q, c) = IF c = "0" THEN "zero" ELSE "any1"
              /\ q = "any1" => LX!Step(q, c) = "any1"
              /\ q \in {"decimal1", "decimal2"} => LX!Step(q, c) = "decimal2"
              /\ q \in {"exponent", "sign", "any2"} => LX!Step(q, c) = "any2"
         /\ q = "init" /\ c = "-" => LX!Step(q, c) = "minus"
         /\ q \in {"zero", "any1"} /\ c = "." => LX!Step(q, c) = "decimal1"
         /\ q \in {"zero", "any1", "decimal2"} /\ c = "e" => LX!Step(q, c) = "exponent"
         /\ q = "exponent" /\ c \in {"+", "-"} => LX!Step(q, c) = "sign"
         /\ LX!Step(q, "end") # "error" <=> q \in Ending
<1> USE DEF NumberStates, NumberChars, Ending, Ended
<1>1. LX!Step(q, c) \in NumberStates
  BY DigitsAre DEF LX!Step
<1>2. c \in LX!Digit =>
        /\ q \in {"init", "minus"} => LX!Step(q, c) = IF c = "0" THEN "zero" ELSE "any1"
        /\ q = "any1" => LX!Step(q, c) = "any1"
  BY DigitsAre DEF LX!Step
<1>3. c \in LX!Digit =>
        /\ q \in {"decimal1", "decimal2"} => LX!Step(q, c) = "decimal2"
        /\ q \in {"exponent", "sign", "any2"} => LX!Step(q, c) = "any2"
  BY DigitsAre DEF LX!Step
<1>4. /\ q = "init" /\ c = "-" => LX!Step(q, c) = "minus"
      /\ q \in {"zero", "any1"} /\ c = "." => LX!Step(q, c) = "decimal1"
      /\ q \in {"zero", "any1", "decimal2"} /\ c = "e" => LX!Step(q, c) = "exponent"
      /\ q = "exponent" /\ c \in {"+", "-"} => LX!Step(q, c) = "sign"
  BY DigitsAre DEF LX!Step
<1>5. LX!Step(q, "end") # "error" <=> q \in Ending
  BY DigitsAre DEF LX!Step
<1> QED BY <1>1, <1>2, <1>3, <1>4, <1>5

(* and from where it comes to a state *)
LEMMA StepsTo ==
  ASSUME NEW q \in NumberStates, NEW c \in NumberChars
  PROVE  /\ LX!Step(q, c) \notin {"init"}
         /\ LX!Step(q, c) = "minus" => q = "init" /\ c = "-"
         /\ LX!Step(q, c) = "zero" => q \in {"init", "minus"} /\ c = "0"
         /\ LX!Step(q, c) = "any1" => (q \in {"init", "minus"} /\ c \in LX!Digit \ {"0"}) \/ (q = "any1" /\ c \in LX!Digit)
         /\ LX!Step(q, c) = "decimal1" => q \in {"zero", "any1"} /\ c = "."
         /\ LX!Step(q, c) = "decimal2" => q \in {"decimal1", "decimal2"} /\ c \in LX!Digit
         /\ LX!Step(q, c) = "exponent" => q \in {"zero", "any1", "decimal2"} /\ c = "e"
         /\ LX!Step(q, c) = "sign" => q = "exponent" /\ c \in {"+", "-"}
         /\ LX!Step(q, c) = "any2" => q \in {"exponent", "sign", "any2"} /\ c \in LX!Digit
         /\ c = "." => LX!Step(q, c) \in Ended \cup {"decimal1"}
         /\ c = "e" => LX!Step(q, c) \in Ended \cup {"exponent"}
<1> USE DigitsAre DEF LX!Step, NumberStates, NumberChars, Ending, Ended
<1>1. /\ LX!Step(q, c) \notin {"init"}
      /\ LX!Step(q, c) = "minus" => q = "init" /\ c = "-"
      /\ LX!Step(q, c) = "zero" => q \in {"init", "minus"} /\ c = "0"
  OBVIOUS
<1>2. /\ LX!Step(q, c) = "any1" => (q \in {"init", "minus"} /\ c \in LX!Digit \ {"0"}) \/ (q = "any1" /\ c \in LX!Digit)
      /\ LX!Step(q, c) = "decimal1" => q \in {"zero", "any1"} /\ c = "."
  OBVIOUS
<1>3. /\ LX!Step(q, c) = "decimal2" => q \in {"decimal1", "decimal2"} /\ c \in LX!Digit
      /\ LX!Step(q, c) = "exponent" => q \in {"zero", "any1", "decimal2"} /\ c = "e"
  OBVIOUS
<1>4. /\ LX!Step(q, c) = "sign" => q = "exponent" /\ c \in {"+", "-"}
      /\ LX!Step(q, c) = "any2" => q \in {"exponent", "sign", "any2"} /\ c \in LX!Digit
  OBVIOUS
<1>5. /\ c = "." => LX!Step(q, c) \in Ended \cup {"decimal1"}
      /\ c = "e" => LX!Step(q, c) \in Ended \cup {"exponent"}
  OBVIOUS
<1> QED BY <1>1, <1>2, <1>3, <1>4, <1>5, Zenon

(* What holds at the first place, and at each that follows one where it    *)
(* holds, holds everywhere.                                                *)
LEMMA FromFront ==
  ASSUME NEW a \in Int, NEW n \in Int, NEW S, a <= n => a \in S,
         \A i \in a .. n - 1 : i \in S => i + 1 \in S
  PROVE  \A i \in a .. n : i \in S
<1> DEFINE bad == {k \in 0 .. n - a : a + k \notin S}
<1>1. bad = {}
  <2> SUFFICES ASSUME bad # {} PROVE FALSE
    OBVIOUS
  <2> DEFINE k == Min(bad)
  <2>1. k \in bad /\ \A j \in bad : k <= j
    <3>1. bad \in SUBSET Nat
      OBVIOUS
    <3> HIDE DEF bad
    <3> QED BY <3>1, Least
  <2> HIDE DEF k
  <2>2. k \in 0 .. n - a /\ a + k \notin S
    BY <2>1
  <2>3. k # 0
    BY <2>2
  <2>4. k - 1 \in 0 .. n - a /\ k - 1 < k /\ a + (k - 1) \in a .. n - 1 /\ a + (k - 1) + 1 = a + k
    BY <2>2, <2>3
  <2>5. k - 1 \notin bad
    <3> HIDE DEF bad
    <3> QED BY <2>1, <2>2, <2>4
  <2>6. a + (k - 1) \in S
    BY <2>4, <2>5
  <2> QED BY <2>2, <2>4, <2>6
<1>2. SUFFICES ASSUME NEW i \in a .. n PROVE i \in S
  OBVIOUS
<1>3. i - a \in 0 .. n - a /\ a + (i - a) = i
  OBVIOUS
<1> QED BY <1>1, <1>3

(* the states of scan_number behind the first characters of a text *)
States(q, str) ==
  /\ q \in [0 .. Len(str) -> NumberStates]
  /\ q[0] = "init"
  /\ \A i \in 1 .. Len(str) :
       q[i] = IF q[i - 1] \in Ended THEN q[i - 1] ELSE LX!Step(q[i - 1], str[i])

(* what scan_number makes of them *)
Scanned(q, str) ==
  LET length == LX!Max({i \in 0 .. Len(str) : q[i] \notin {"done", "error"}})
      last == LX!Step(q[length], "end")
      passed == {q[i] : i \in 0 .. length}
  IN  IF q[Len(str)] = "error" \/ last = "error" THEN [type |-> "parse_error", length |-> 0]
      ELSE [length |-> length,
            type |-> IF \/ {"decimal1", "exponent"} \cap passed # {}
                        \/ ~LX!Fits(LX!take_front(str, length)) THEN "value_float"
                     ELSE IF "minus" \in passed THEN "value_integer"
                     ELSE "value_unsigned"]

LEMMA NumberScans ==
  ASSUME NEW str \in Seq(NumberChars)
  PROVE  \E q : States(q, str) /\ LX!ScanNumber(str) = Scanned(q, str)
<1> DEFINE n == Len(str)
           Body(q, i) == IF i = 0 THEN "init"
                         ELSE IF q[i - 1] \in {"done", "error"} THEN q[i - 1]
                         ELSE LX!Step(q[i - 1], str[i])
           Is(q) == q = [i \in 0 .. n |-> Body(q, i)]
           from == CHOOSE q : Is(q)
           step == [i \in 0 .. n |-> [q \in [0 .. i - 1 -> NumberStates] |-> Body(q, i)]]
<1>1. n \in Nat
  BY LenProperties
<1>2. \A i \in 1 .. n : str[i] \in NumberChars
  BY ElementOfSeq
<1> HIDE DEF n
<1>3. \A i \in 0 .. n : \A q \in [0 .. i - 1 -> NumberStates] :
        Body(q, i) \in NumberStates /\ step[i][q] = Body(q, i)
  <2> SUFFICES ASSUME NEW i \in 0 .. n, NEW q \in [0 .. i - 1 -> NumberStates]
               PROVE  Body(q, i) \in NumberStates
    BY Zenon
  <2>1. CASE i = 0
    BY <2>1 DEF NumberStates
  <2>2. CASE i # 0
    <3>1. i \in 1 .. n /\ i - 1 \in 0 .. i - 1
      BY <1>1, <2>2
    <3>2. q[i - 1] \in NumberStates /\ str[i] \in NumberChars \cup {"end"}
      BY <1>2, <3>1
    <3>3. LX!Step(q[i - 1], str[i]) \in NumberStates
      BY <3>2, StepsFrom
    <3> QED BY <2>2, <3>2, <3>3
  <2> QED BY <2>1, <2>2
<1>4. \E q : Recurs(q, step, n, NumberStates)
  <2> HIDE DEF step, Body
  <2>1. StepsIn(step, n, NumberStates)
    BY <1>3 DEF StepsIn
  <2> QED BY <1>1, <2>1, Recursion
<1>5. PICK q \in [0 .. n -> NumberStates] : \A i \in 0 .. n : q[i] = step[i][Earlier(q, i)]
  <2> HIDE DEF step
  <2> QED BY <1>4 DEF Recurs
<1>6. \A i \in 0 .. n : q[i] = Body(q, i)
  <2> SUFFICES ASSUME NEW i \in 0 .. n PROVE q[i] = Body(q, i)
    OBVIOUS
  <2>1. Earlier(q, i) \in [0 .. i - 1 -> NumberStates]
    <3>1. \A k \in 0 .. i - 1 : q[k] \in NumberStates
      BY <1>1
    <3> QED BY <3>1 DEF Earlier
  <2>2. q[i] = Body(Earlier(q, i), i)
    <3> HIDE DEF step, Body
    <3> QED BY <1>3, <1>5, <2>1
  <2>3. CASE i = 0
    BY <2>2, <2>3
  <2>4. CASE i # 0
    <3>1. i - 1 \in 0 .. i - 1
      BY <2>4
    <3>2. Earlier(q, i)[i - 1] = q[i - 1]
      BY <3>1 DEF Earlier
    <3> QED BY <2>2, <3>2
  <2> QED BY <2>3, <2>4
<1>7. Is(q)
  <2> HIDE DEF Body
  <2> QED BY <1>5, <1>6
<1>8. Is(from)
  <2> HIDE DEF Is
  <2> QED BY <1>7
<1>9. LX!ScanNumber(str) = Scanned(from, str)
  BY Zenon DEF LX!ScanNumber, Scanned, n
<1> HIDE DEF from
<1>10. from = q
  <2> DEFINE S == {i \in 0 .. n : from[i] = q[i]}
  <2>1. \A i \in 0 .. n : from[i] = Body(from, i)
    <3> HIDE DEF Body
    <3> QED BY <1>8
  <2>2. 0 <= n => 0 \in S
    BY <1>1, <1>6, <2>1
  <2>3. \A i \in 0 .. n - 1 : i \in S => i + 1 \in S
    <3> SUFFICES ASSUME NEW i \in 0 .. n - 1, from[i] = q[i] PROVE i + 1 \in S
      OBVIOUS
    <3>1. i + 1 \in 0 .. n /\ i + 1 # 0 /\ i + 1 - 1 = i
      BY <1>1
    <3>2. from[i + 1] = Body(from, i + 1) /\ q[i + 1] = Body(q, i + 1)
      <4> HIDE DEF Body
      <4> QED BY <1>6, <2>1, <3>1
    <3>3. Body(from, i + 1) = Body(q, i + 1)
      BY <3>1
    <3> QED BY <3>1, <3>2, <3>3
  <2>4. \A i \in 0 .. n : i \in S
    <3> HIDE DEF S
    <3>1. 0 \in Int /\ n \in Int
      BY <1>1
    <3> QED BY <2>2, <2>3, <3>1, FromFront
  <2>5. DOMAIN from = 0 .. n /\ from = [i \in 0 .. n |-> from[i]]
    <3> HIDE DEF Body
    <3> QED BY <1>8
  <2> HIDE DEF S
  <2>6. \A i \in 0 .. n : from[i] = q[i]
    <3> QED BY <2>4 DEF S
  <2> QED BY <1>5, <2>5, <2>6
<1>11. States(q, str)
  <2>1. q[0] = "init"
    BY <1>1, <1>6
  <2>2. \A i \in 1 .. n : q[i] = IF q[i - 1] \in Ended THEN q[i - 1] ELSE LX!Step(q[i - 1], str[i])
    <3> SUFFICES ASSUME NEW i \in 1 .. n
                 PROVE  q[i] = IF q[i - 1] \in Ended THEN q[i - 1] ELSE LX!Step(q[i - 1], str[i])
      OBVIOUS
    <3>1. i \in 0 .. n /\ i # 0
      OBVIOUS
    <3>2. q[i] = Body(q, i)
      <4> HIDE DEF Body
      <4> QED BY <1>6, <3>1
    <3> QED BY <3>1, <3>2 DEF Ended
  <2> HIDE DEF Is
  <2> QED BY <1>5, <2>1, <2>2 DEF States, n
<1> QED BY <1>9, <1>10, <1>11

(* The parts of a number: [ minus ] int [ frac ] [ exp ], the minus up to  *)
(* m, the int up to p, the frac up to r, and the exp up to n.              *)
DigitsIn(str, a, b) == \A k \in a .. b : str[k] \in LX!Digit
MinusEnd(str) == IF Len(str) > 0 /\ str[1] = "-" THEN 1 ELSE 0
IntPart(str, m, p) == p > m /\ DigitsIn(str, m + 1, p) /\ (str[m + 1] = "0" => p = m + 1)
FracPart(str, p, r) ==
  r = p \/ (r >= p + 2 /\ str[p + 1] = "." /\ DigitsIn(str, p + 2, r))
ExpPart(str, r, n) ==
  /\ str[r + 1] = "e"
  /\ \/ n >= r + 2 /\ DigitsIn(str, r + 2, n)
     \/ n >= r + 3 /\ str[r + 2] \in {"+", "-"} /\ DigitsIn(str, r + 3, n)
Mantissa(str, p, r) == p <= r /\ IntPart(str, MinusEnd(str), p) /\ FracPart(str, p, r)
IsInParts(str) ==
  \E p, r \in 1 .. Len(str) : Mantissa(str, p, r) /\ (r = Len(str) \/ ExpPart(str, r, Len(str)))

(* what the first k characters are in each state *)
FormAt(str, k, s) ==
  /\ s = "init" => k = 0
  /\ s = "minus" => k = 1 /\ MinusEnd(str) = 1
  /\ s = "zero" => k = MinusEnd(str) + 1 /\ str[k] = "0"
  /\ s = "any1" => IntPart(str, MinusEnd(str), k) /\ str[MinusEnd(str) + 1] # "0"
  /\ s = "decimal1" =>
       \E p \in 1 .. k : IntPart(str, MinusEnd(str), p) /\ k = p + 1 /\ str[k] = "."
  /\ s = "decimal2" =>
       \E p \in 1 .. k : /\ IntPart(str, MinusEnd(str), p)
                         /\ k >= p + 2 /\ str[p + 1] = "." /\ DigitsIn(str, p + 2, k)
  /\ s = "exponent" => \E p, r \in 1 .. k : Mantissa(str, p, r) /\ k = r + 1 /\ str[k] = "e"
  /\ s = "sign" =>
       \E p, r \in 1 .. k : /\ Mantissa(str, p, r) /\ k = r + 2
                            /\ str[r + 1] = "e" /\ str[k] \in {"+", "-"}
  /\ s = "any2" => \E p, r \in 1 .. k : Mantissa(str, p, r) /\ ExpPart(str, r, k)

LEMMA DigitsOn ==
  ASSUME NEW str, NEW a \in Int, NEW k \in Int, DigitsIn(str, a, k), str[k + 1] \in LX!Digit
  PROVE  DigitsIn(str, a, k + 1)
<1> SUFFICES ASSUME NEW i \in a .. k + 1 PROVE str[i] \in LX!Digit
  BY DEF DigitsIn
<1>1. i = k + 1 \/ i \in a .. k
  OBVIOUS
<1> QED BY <1>1 DEF DigitsIn

(* a digit alone *)
LEMMA DigitAlone ==
  ASSUME NEW str, NEW k \in Int, str[k] \in LX!Digit
  PROVE  DigitsIn(str, k, k)
<1>1. \A i \in k .. k : i = k
  OBVIOUS
<1> QED BY <1>1 DEF DigitsIn

LEMMA FormOn ==
  ASSUME NEW str \in Seq(NumberChars), NEW k \in 0 .. Len(str) - 1, NEW s \in NumberStates,
         FormAt(str, k, s)
  PROVE  FormAt(str, k + 1, LX!Step(s, str[k + 1]))
<1> DEFINE c == str[k + 1]
           t == LX!Step(s, c)
           m == MinusEnd(str)
           j == k + 1
<1>1. Len(str) \in Nat /\ k \in Nat /\ j \in 1 .. Len(str) /\ m \in {0, 1}
  BY LenProperties DEF MinusEnd
<1>2. c \in NumberChars
  BY <1>1, ElementOfSeq
<1> HIDE DEF c
<1>3. /\ t \notin {"init"}
      /\ t = "minus" => s = "init" /\ c = "-"
      /\ t = "zero" => s \in {"init", "minus"} /\ c = "0"
      /\ t = "any1" => (s \in {"init", "minus"} /\ c \in LX!Digit \ {"0"}) \/ (s = "any1" /\ c \in LX!Digit)
      /\ t = "decimal1" => s \in {"zero", "any1"} /\ c = "."
      /\ t = "decimal2" => s \in {"decimal1", "decimal2"} /\ c \in LX!Digit
      /\ t = "exponent" => s \in {"zero", "any1", "decimal2"} /\ c = "e"
      /\ t = "sign" => s = "exponent" /\ c \in {"+", "-"}
      /\ t = "any2" => s \in {"exponent", "sign", "any2"} /\ c \in LX!Digit
  BY <1>2, StepsTo
<1> HIDE DEF t
<1>4. str[j] = c
  BY DEF c
<1>5. s = "init" => k = 0 /\ (c # "-" => m = 0) /\ (c = "-" => m = 1)
  BY <1>1, <1>4 DEF FormAt, MinusEnd
<1>6. s \in {"init", "minus"} /\ c # "-" => k = m
  BY <1>1, <1>5 DEF FormAt
<1> HIDE DEF j
<1>j. j = k + 1
  BY DEF j
(* the part before the point *)
<1>7. s \in {"zero", "any1"} => k \in 1 .. k /\ IntPart(str, m, k) /\ Mantissa(str, k, k)
  <2> SUFFICES ASSUME s \in {"zero", "any1"} PROVE k \in 1 .. k /\ IntPart(str, m, k) /\ Mantissa(str, k, k)
    OBVIOUS
  <2>1. CASE s = "zero"
    <3>1. k = m + 1 /\ str[k] = "0"
      BY <2>1 DEF FormAt
    <3>2. DigitsIn(str, m + 1, k)
      BY <1>1, <3>1, DigitAlone, DigitsAre
    <3> QED BY <1>1, <3>1, <3>2 DEF IntPart, Mantissa, FracPart
  <2>2. CASE s = "any1"
    <3>1. IntPart(str, m, k)
      BY <2>2 DEF FormAt
    <3>2. k > m
      BY <3>1 DEF IntPart
    <3> QED BY <1>1, <3>1, <3>2 DEF Mantissa, FracPart
  <2> QED BY <2>1, <2>2
<1>8. s = "decimal2" => \E p \in 1 .. k : Mantissa(str, p, k)
  <2> SUFFICES ASSUME s = "decimal2" PROVE \E p \in 1 .. k : Mantissa(str, p, k)
    OBVIOUS
  <2>1. PICK p \in 1 .. k : /\ IntPart(str, m, p)
                            /\ k >= p + 2 /\ str[p + 1] = "." /\ DigitsIn(str, p + 2, k)
    BY DEF FormAt
  <2>2. Mantissa(str, p, k)
    BY <1>1, <2>1 DEF Mantissa, FracPart
  <2> QED BY <2>2
<1>9. CASE t \in Ended \cup {"minus"}
  <2>1. t = "minus" => j = 1 /\ m = 1
    BY <1>3, <1>5, <1>j
  <2>2. FormAt(str, j, t)
    BY <1>9, <2>1 DEF FormAt, Ended
  <2> QED BY <2>2 DEF t, c, j
<1>10. CASE t = "zero"
  <2>1. s \in {"init", "minus"} /\ c = "0"
    BY <1>3, <1>10
  <2>2. j = m + 1 /\ str[j] = "0"
    BY <1>4, <1>6, <1>j, <2>1
  <2>3. FormAt(str, j, t)
    BY <1>10, <2>2 DEF FormAt
  <2> QED BY <2>3 DEF t, c, j
<1>11. CASE t = "any1"
  <2>1. IntPart(str, m, j) /\ str[m + 1] # "0"
    <3>1. CASE s \in {"init", "minus"} /\ c \in LX!Digit \ {"0"}
      <4>1. j = m + 1 /\ str[j] \in LX!Digit \ {"0"}
        BY <1>4, <1>6, <1>j, <3>1, DigitsAre
      <4>2. DigitsIn(str, m + 1, j)
        BY <1>1, <4>1, DigitAlone
      <4> QED BY <1>1, <4>1, <4>2 DEF IntPart
    <3>2. CASE s = "any1" /\ c \in LX!Digit
      <4>1. IntPart(str, m, k) /\ str[m + 1] # "0"
        BY <3>2 DEF FormAt
      <4>2. DigitsIn(str, m + 1, j)
        <5>1. m + 1 \in Int /\ k \in Int /\ str[k + 1] \in LX!Digit /\ DigitsIn(str, m + 1, k)
          BY <1>1, <3>2, <4>1 DEF c, IntPart
        <5> QED BY <5>1, DigitsOn DEF j
      <4> QED BY <1>1, <1>j, <4>1, <4>2 DEF IntPart
    <3> QED BY <1>3, <1>11, <3>1, <3>2
  <2>2. FormAt(str, j, t)
    BY <1>11, <2>1 DEF FormAt
  <2> QED BY <2>2 DEF t, c, j
<1>12. CASE t = "decimal1"
  <2>1. IntPart(str, m, k) /\ k \in 1 .. j /\ c = "."
    BY <1>1, <1>3, <1>7, <1>12, <1>j
  <2>2. FormAt(str, j, t)
    BY <1>4, <1>12, <1>j, <2>1 DEF FormAt
  <2> QED BY <2>2 DEF t, c, j
<1>13. CASE t = "decimal2"
  <2>1. s \in {"decimal1", "decimal2"} /\ c \in LX!Digit
    BY <1>3, <1>13
  <2>2. PICK p \in 1 .. k : IntPart(str, m, p) /\ str[p + 1] = "."
          /\ (k = p + 1 \/ (k >= p + 2 /\ DigitsIn(str, p + 2, k)))
    BY <2>1 DEF FormAt
  <2>3. DigitsIn(str, p + 2, j)
    <3>1. CASE k = p + 1
      <4>1. j = p + 2 /\ str[p + 2] \in LX!Digit /\ p + 2 \in Int
        BY <1>1, <1>4, <1>j, <2>1, <3>1
      <4> QED BY <4>1, DigitAlone
    <3>2. CASE DigitsIn(str, p + 2, k)
      <4>1. p + 2 \in Int /\ k \in Int /\ str[k + 1] \in LX!Digit
        BY <1>1, <2>1 DEF c
      <4> QED BY <3>2, <4>1, DigitsOn DEF j
    <3> QED BY <2>2, <3>1, <3>2
  <2>4. p \in 1 .. j /\ j >= p + 2
    BY <1>1, <1>j, <2>2
  <2>5. FormAt(str, j, t)
    BY <1>13, <2>2, <2>3, <2>4 DEF FormAt
  <2> QED BY <2>5 DEF t, c, j
<1>14. CASE t = "exponent"
  <2>1. s \in {"zero", "any1", "decimal2"} /\ c = "e"
    BY <1>3, <1>14
  <2>2. PICK p \in 1 .. k : k \in 1 .. k /\ Mantissa(str, p, k)
    BY <1>1, <1>7, <1>8, <2>1
  <2>3. p \in 1 .. j /\ k \in 1 .. j
    BY <1>1, <1>j, <2>2
  <2>4. FormAt(str, j, t)
    BY <1>4, <1>14, <1>j, <2>1, <2>2, <2>3 DEF FormAt
  <2> QED BY <2>4 DEF t, c, j
<1>15. CASE t = "sign"
  <2>1. s = "exponent" /\ c \in {"+", "-"}
    BY <1>3, <1>15
  <2>2. PICK p \in 1 .. k, r \in 1 .. k : Mantissa(str, p, r) /\ k = r + 1 /\ str[k] = "e"
    BY <2>1 DEF FormAt
  <2>3. p \in 1 .. j /\ r \in 1 .. j /\ j = r + 2
    BY <1>1, <1>j, <2>2
  <2>4. FormAt(str, j, t)
    BY <1>4, <1>15, <2>1, <2>2, <2>3 DEF FormAt
  <2> QED BY <2>4 DEF t, c, j
<1>16. CASE t = "any2"
  <2>1. s \in {"exponent", "sign", "any2"} /\ c \in LX!Digit
    BY <1>3, <1>16
  <2>2. \E p, r \in 1 .. k : Mantissa(str, p, r) /\ ExpPart(str, r, j)
    <3>1. CASE s = "exponent"
      <4>1. PICK p \in 1 .. k, r \in 1 .. k : Mantissa(str, p, r) /\ k = r + 1 /\ str[k] = "e"
        BY <3>1 DEF FormAt
      <4>2. j = r + 2 /\ j \in Int /\ str[r + 1] = "e"
        BY <1>1, <1>j, <4>1
      <4>3. DigitsIn(str, r + 2, j)
        BY <1>4, <2>1, <4>2, DigitAlone
      <4> QED BY <4>1, <4>2, <4>3 DEF ExpPart
    <3>2. CASE s = "sign"
      <4>1. PICK p \in 1 .. k, r \in 1 .. k :
              Mantissa(str, p, r) /\ k = r + 2 /\ str[r + 1] = "e" /\ str[k] \in {"+", "-"}
        BY <3>2 DEF FormAt
      <4>2. j = r + 3 /\ j \in Int /\ str[r + 2] \in {"+", "-"}
        BY <1>1, <1>j, <4>1
      <4>3. DigitsIn(str, r + 3, j)
        BY <1>4, <2>1, <4>2, DigitAlone
      <4> QED BY <4>1, <4>2, <4>3 DEF ExpPart
    <3>3. CASE s = "any2"
      <4>1. PICK p \in 1 .. k, r \in 1 .. k : Mantissa(str, p, r) /\ ExpPart(str, r, k)
        BY <3>3 DEF FormAt
      <4>2. \A a \in Int : DigitsIn(str, a, k) => DigitsIn(str, a, j)
        <5>1. k \in Int /\ str[k + 1] \in LX!Digit
          BY <1>1, <2>1 DEF c
        <5> QED BY <5>1, DigitsOn DEF j
      <4>3. r + 2 \in Int /\ r + 3 \in Int /\ (k >= r + 2 => j >= r + 2) /\ (k >= r + 3 => j >= r + 3)
        BY <1>1, <1>j
      <4>4. ExpPart(str, r, j)
        BY <4>1, <4>2, <4>3, Zenon DEF ExpPart
      <4> QED BY <4>1, <4>4
    <3> QED BY <2>1, <3>1, <3>2, <3>3
  <2>3. \E p, r \in 1 .. j : Mantissa(str, p, r) /\ ExpPart(str, r, j)
    <3>1. \A p \in 1 .. k : p \in 1 .. j
      BY <1>1, <1>j
    <3> QED BY <2>2, <3>1
  <2>4. FormAt(str, j, t)
    BY <1>16, <2>3 DEF FormAt
  <2> QED BY <2>4 DEF t, c, j
<1>17. t \in NumberStates
  BY <1>2, StepsFrom DEF t
<1> QED
  <2>1. t # "init"
    BY <1>3
  <2> QED BY <1>9, <1>10, <1>11, <1>12, <1>13, <1>14, <1>15, <1>16, <1>17, <2>1 DEF NumberStates, Ending, Ended

(* What ends where a number may end is a number. *)
LEMMA AcceptedInParts ==
  ASSUME NEW str \in Seq(NumberChars), NEW q, States(q, str)
  PROVE  /\ \A k \in 0 .. Len(str) : FormAt(str, k, q[k])
         /\ q[Len(str)] \in Ending => IsInParts(str)
<1> DEFINE n == Len(str)
           S == {k \in 0 .. n : FormAt(str, k, q[k])}
<1>1. n \in Nat
  BY LenProperties
<1>2. /\ q[0] = "init" /\ \A i \in 0 .. n : q[i] \in NumberStates
      /\ \A i \in 1 .. n : q[i] = IF q[i - 1] \in Ended THEN q[i - 1] ELSE LX!Step(q[i - 1], str[i])
  BY DEF States
<1>3. FormAt(str, 0, q[0])
  BY <1>2 DEF FormAt
<1> HIDE DEF n
<1>4. \A k \in 0 .. n - 1 : k \in S => k + 1 \in S
  <2> SUFFICES ASSUME NEW k \in 0 .. n - 1, FormAt(str, k, q[k]) PROVE FormAt(str, k + 1, q[k + 1])
    BY <1>1
  <2>1. k + 1 \in 1 .. n /\ k + 1 - 1 = k /\ k \in 0 .. n
    BY <1>1
  <2>2. q[k + 1] = IF q[k] \in Ended THEN q[k] ELSE LX!Step(q[k], str[k + 1])
    BY <1>2, <2>1
  <2>3. CASE q[k] \in Ended
    BY <2>2, <2>3 DEF FormAt, Ended
  <2>4. CASE q[k] \notin Ended
    <3>1. FormAt(str, k + 1, LX!Step(q[k], str[k + 1]))
      BY <1>2, <2>1, FormOn DEF n
    <3> QED BY <2>2, <2>4, <3>1
  <2> QED BY <2>3, <2>4
<1>5. \A k \in 0 .. n : FormAt(str, k, q[k])
  <2>1. 0 <= n => 0 \in S
    BY <1>1, <1>3
  <2>2. \A k \in 0 .. n : k \in S
    <3> HIDE DEF S
    <3>1. 0 \in Int /\ n \in Int
      BY <1>1
    <3> QED BY <1>4, <2>1, <3>1, FromFront
  <2> QED BY <2>2
<1>6. ASSUME q[n] \in Ending PROVE IsInParts(str)
  <2> DEFINE m == MinusEnd(str)
  <2>1. FormAt(str, n, q[n]) /\ m \in {0, 1}
    BY <1>1, <1>5 DEF MinusEnd
  <2>2. CASE q[n] \in {"zero", "any1"}
    <3>1. IntPart(str, m, n)
      <4>1. CASE q[n] = "zero"
        <5>1. n = m + 1 /\ str[n] = "0"
          BY <2>1, <4>1 DEF FormAt
        <5>2. DigitsIn(str, m + 1, n)
          BY <1>1, <5>1, DigitAlone, DigitsAre
        <5> QED BY <2>1, <5>1, <5>2 DEF IntPart
      <4>2. CASE q[n] = "any1"
        BY <2>1, <4>2 DEF FormAt
      <4> QED BY <2>2, <4>1, <4>2
    <3>2. n > m
      BY <3>1 DEF IntPart
    <3>3. n \in 1 .. n /\ Mantissa(str, n, n)
      BY <1>1, <2>1, <3>1, <3>2 DEF Mantissa, FracPart
    <3> QED BY <3>3 DEF IsInParts, n
  <2>3. CASE q[n] = "decimal2"
    <3>1. PICK p \in 1 .. n : /\ IntPart(str, m, p)
                              /\ n >= p + 2 /\ str[p + 1] = "." /\ DigitsIn(str, p + 2, n)
      BY <2>1, <2>3 DEF FormAt
    <3>2. n \in 1 .. n /\ Mantissa(str, p, n)
      BY <1>1, <3>1 DEF Mantissa, FracPart
    <3> QED BY <3>2 DEF IsInParts, n
  <2>4. CASE q[n] = "any2"
    <3>1. PICK p \in 1 .. n, r \in 1 .. n : Mantissa(str, p, r) /\ ExpPart(str, r, n)
      BY <2>1, <2>4 DEF FormAt
    <3> QED BY <3>1 DEF IsInParts, n
  <2> QED BY <1>6, <2>2, <2>3, <2>4 DEF Ending
<1> QED BY <1>5, <1>6 DEF n

(* A number is read as one. *)
LEMMA InPartsAccepted ==
  ASSUME NEW str \in Seq(NumberChars), NEW q, States(q, str), IsInParts(str)
  PROVE  q[Len(str)] \in Ending
<1> DEFINE n == Len(str)
           m == MinusEnd(str)
<1>1. n \in Nat /\ m \in {0, 1} /\ \A i \in 1 .. n : str[i] \in NumberChars
  BY LenProperties, ElementOfSeq DEF MinusEnd
<1>2. q[0] = "init" /\ \A i \in 0 .. n : q[i] \in NumberStates
  BY DEF States
<1>3. \A i \in 0 .. n - 1 : q[i] \notin Ended => q[i + 1] = LX!Step(q[i], str[i + 1])
  <2> SUFFICES ASSUME NEW i \in 0 .. n - 1, q[i] \notin Ended PROVE q[i + 1] = LX!Step(q[i], str[i + 1])
    OBVIOUS
  <2>1. i + 1 \in 1 .. n /\ i + 1 - 1 = i
    BY <1>1
  <2> QED BY <2>1 DEF States
<1>4. PICK p \in 1 .. n, r \in 1 .. n : Mantissa(str, p, r) /\ (r = n \/ ExpPart(str, r, n))
  BY DEF IsInParts
<1>5. /\ p <= r /\ p > m /\ DigitsIn(str, m + 1, p) /\ (str[m + 1] = "0" => p = m + 1)
      /\ (r = p \/ (r >= p + 2 /\ str[p + 1] = "." /\ DigitsIn(str, p + 2, r)))
  BY <1>4 DEF Mantissa, IntPart, FracPart
<1> HIDE DEF n
(* a step with a digit *)
<1>6. \A i \in 0 .. n - 1 : str[i + 1] \in LX!Digit =>
        /\ q[i] \in {"init", "minus"} => q[i + 1] = IF str[i + 1] = "0" THEN "zero" ELSE "any1"
        /\ q[i] = "any1" => q[i + 1] = "any1"
        /\ q[i] \in {"decimal1", "decimal2"} => q[i + 1] = "decimal2"
        /\ q[i] \in {"exponent", "sign", "any2"} => q[i + 1] = "any2"
  <2> SUFFICES ASSUME NEW i \in 0 .. n - 1, str[i + 1] \in LX!Digit
               PROVE  /\ q[i] \in {"init", "minus"} => q[i + 1] = IF str[i + 1] = "0" THEN "zero" ELSE "any1"
                      /\ q[i] = "any1" => q[i + 1] = "any1"
                      /\ q[i] \in {"decimal1", "decimal2"} => q[i + 1] = "decimal2"
                      /\ q[i] \in {"exponent", "sign", "any2"} => q[i + 1] = "any2"
    OBVIOUS
  <2>1. q[i] \in NumberStates /\ str[i + 1] \in NumberChars \cup {"end"}
    BY <1>1, <1>2
  <2>2. /\ q[i] \in {"init", "minus"} => LX!Step(q[i], str[i + 1]) = IF str[i + 1] = "0" THEN "zero" ELSE "any1"
        /\ q[i] = "any1" => LX!Step(q[i], str[i + 1]) = "any1"
        /\ q[i] \in {"decimal1", "decimal2"} => LX!Step(q[i], str[i + 1]) = "decimal2"
        /\ q[i] \in {"exponent", "sign", "any2"} => LX!Step(q[i], str[i + 1]) = "any2"
    BY <2>1, StepsFrom
  <2>3. q[i] \in {"init", "minus", "any1", "decimal1", "decimal2", "exponent", "sign", "any2"}
          => q[i + 1] = LX!Step(q[i], str[i + 1])
    BY <1>3 DEF Ended
  <2> QED BY <2>2, <2>3
(* a step with another character *)
<1>7. \A i \in 0 .. n - 1 :
        /\ q[i] = "init" /\ str[i + 1] = "-" => q[i + 1] = "minus"
        /\ q[i] \in {"zero", "any1"} /\ str[i + 1] = "." => q[i + 1] = "decimal1"
        /\ q[i] \in {"zero", "any1", "decimal2"} /\ str[i + 1] = "e" => q[i + 1] = "exponent"
        /\ q[i] = "exponent" /\ str[i + 1] \in {"+", "-"} => q[i + 1] = "sign"
  <2> SUFFICES ASSUME NEW i \in 0 .. n - 1
               PROVE  /\ q[i] = "init" /\ str[i + 1] = "-" => q[i + 1] = "minus"
                      /\ q[i] \in {"zero", "any1"} /\ str[i + 1] = "." => q[i + 1] = "decimal1"
                      /\ q[i] \in {"zero", "any1", "decimal2"} /\ str[i + 1] = "e" => q[i + 1] = "exponent"
                      /\ q[i] = "exponent" /\ str[i + 1] \in {"+", "-"} => q[i + 1] = "sign"
    OBVIOUS
  <2>1. q[i] \in NumberStates /\ str[i + 1] \in NumberChars \cup {"end"}
    BY <1>1, <1>2
  <2>2. /\ q[i] = "init" /\ str[i + 1] = "-" => LX!Step(q[i], str[i + 1]) = "minus"
        /\ q[i] \in {"zero", "any1"} /\ str[i + 1] = "." => LX!Step(q[i], str[i + 1]) = "decimal1"
        /\ q[i] \in {"zero", "any1", "decimal2"} /\ str[i + 1] = "e" => LX!Step(q[i], str[i + 1]) = "exponent"
        /\ q[i] = "exponent" /\ str[i + 1] \in {"+", "-"} => LX!Step(q[i], str[i + 1]) = "sign"
    BY <2>1, StepsFrom
  <2>3. q[i] \in {"init", "zero", "any1", "decimal2", "exponent"} => q[i + 1] = LX!Step(q[i], str[i + 1])
    BY <1>3 DEF Ended
  <2> QED BY <2>2, <2>3
<1> HIDE DEF m
<1>8. q[m] \in {"init", "minus"} /\ m \in 0 .. n - 1
  <2>1. m \in 0 .. n - 1
    BY <1>1, <1>5
  <2>2. CASE m = 0
    BY <1>2, <2>1, <2>2
  <2>3. CASE m = 1
    <3>1. str[0 + 1] = "-" /\ 0 \in 0 .. n - 1 /\ 0 + 1 = 1
      BY <1>1, <2>1, <2>3 DEF m, n, MinusEnd
    <3>2. q[0 + 1] = "minus"
      BY <1>2, <1>7, <3>1
    <3> QED BY <2>1, <2>3, <3>1, <3>2
  <2> QED BY <1>1, <2>2, <2>3
<1>9. q[p] \in {"zero", "any1"}
  <2> DEFINE S == {k \in m + 1 .. p : q[k] \in {"zero", "any1"} /\ (q[k] = "zero" => k = p)}
  <2>1. \A k \in m + 1 .. p : str[k] \in LX!Digit
    BY <1>5 DEF DigitsIn
  <2>2. m + 1 <= p => m + 1 \in S
    <3>1. m + 1 \in m + 1 .. p /\ str[m + 1] \in LX!Digit
      BY <1>1, <1>5, <2>1
    <3>2. q[m + 1] = IF str[m + 1] = "0" THEN "zero" ELSE "any1"
      BY <1>6, <1>8, <3>1
    <3> QED BY <1>5, <3>1, <3>2
  <2>3. \A k \in m + 1 .. p - 1 : k \in S => k + 1 \in S
    <3> SUFFICES ASSUME NEW k \in m + 1 .. p - 1, q[k] \in {"zero", "any1"} /\ (q[k] = "zero" => k = p)
                 PROVE  k + 1 \in S
      OBVIOUS
    <3>1. k + 1 \in m + 1 .. p /\ k \in 0 .. n - 1 /\ k # p
      BY <1>1
    <3>2. q[k] = "any1"
      BY <3>1
    <3>3. q[k + 1] = "any1"
      BY <1>6, <2>1, <3>1, <3>2
    <3> QED BY <3>1, <3>3
  <2>4. \A k \in m + 1 .. p : k \in S
    <3> HIDE DEF S
    <3>1. m + 1 \in Int /\ p \in Int
      BY <1>1
    <3> QED BY <2>2, <2>3, <3>1, FromFront
  <2>5. p \in m + 1 .. p
    BY <1>1, <1>5
  <2> QED BY <2>4, <2>5
<1>10. q[r] \in {"zero", "any1", "decimal2"}
  <2>1. CASE r = p
    BY <1>9, <2>1
  <2>2. CASE r >= p + 2 /\ str[p + 1] = "." /\ DigitsIn(str, p + 2, r)
    <3> DEFINE S == {k \in p + 1 .. r : q[k] \in {"decimal1", "decimal2"} /\ (q[k] = "decimal1" => k = p + 1)}
    <3>1. p \in 0 .. n - 1 /\ p + 1 \in p + 1 .. r
      BY <1>1, <2>2
    <3>2. q[p + 1] = "decimal1"
      BY <1>7, <1>9, <2>2, <3>1
    <3>3. \A k \in p + 1 .. r - 1 : k \in S => k + 1 \in S
      <4> SUFFICES ASSUME NEW k \in p + 1 .. r - 1, q[k] \in {"decimal1", "decimal2"} PROVE k + 1 \in S
        OBVIOUS
      <4>1. k + 1 \in p + 2 .. r /\ k \in 0 .. n - 1 /\ k + 1 \in p + 1 .. r
        BY <1>1
      <4>2. str[k + 1] \in LX!Digit
        BY <2>2, <4>1 DEF DigitsIn
      <4>3. q[k + 1] = "decimal2"
        BY <1>6, <4>1, <4>2
      <4> QED BY <4>1, <4>3
    <3>4. \A k \in p + 1 .. r : k \in S
      <4>1. p + 1 <= r => p + 1 \in S
        BY <3>1, <3>2
      <4> HIDE DEF S
      <4>2. p + 1 \in Int /\ r \in Int
        BY <1>1
      <4> QED BY <3>3, <4>1, <4>2, FromFront
    <3>5. r \in p + 1 .. r /\ r # p + 1
      BY <1>1, <2>2
    <3> QED BY <3>4, <3>5
  <2> QED BY <1>5, <2>1, <2>2
<1>11. CASE r = n
  BY <1>10, <1>11 DEF Ending, n
<1>12. CASE ExpPart(str, r, n)
  <2>1. PICK a \in {r + 2, r + 3} :
          /\ n >= a /\ DigitsIn(str, a, n) /\ str[r + 1] = "e"
          /\ a = r + 3 => str[r + 2] \in {"+", "-"}
    <3>1. r + 2 # r + 3
      BY <1>1
    <3> QED BY <1>12, <3>1 DEF ExpPart
  <2>2. /\ r \in 0 .. n - 1 /\ r + 1 \in 0 .. n - 1 /\ r + 1 + 1 = r + 2
        /\ a - 1 \in 0 .. n - 1 /\ a - 1 + 1 = a /\ a \in Int
    BY <1>1, <2>1
  <2>3. q[r + 1] = "exponent"
    BY <1>7, <1>10, <2>1, <2>2
  <2>4. q[a - 1] \in {"exponent", "sign"}
    <3>1. CASE a = r + 2
      <4>1. a - 1 = r + 1
        BY <1>1, <3>1
      <4> QED BY <2>3, <4>1
    <3>2. CASE a = r + 3
      <4>1. a - 1 = r + 2 /\ str[r + 1 + 1] \in {"+", "-"}
        BY <1>1, <2>1, <2>2, <3>2
      <4>2. q[r + 1 + 1] = "sign"
        BY <1>7, <2>2, <2>3, <4>1
      <4> QED BY <2>2, <4>1, <4>2
    <3> QED BY <3>1, <3>2
  <2> DEFINE S == {k \in a .. n : q[k] = "any2"}
  <2>5. \A k \in a .. n : str[k] \in LX!Digit
    BY <2>1 DEF DigitsIn
  <2>6. a <= n => a \in S
    <3>1. a \in a .. n /\ str[a - 1 + 1] \in LX!Digit
      BY <1>1, <2>1, <2>2, <2>5
    <3>2. q[a - 1 + 1] = "any2"
      BY <1>6, <2>2, <2>4, <3>1
    <3> QED BY <2>2, <3>1, <3>2
  <2>7. \A k \in a .. n - 1 : k \in S => k + 1 \in S
    <3> SUFFICES ASSUME NEW k \in a .. n - 1, q[k] = "any2" PROVE k + 1 \in S
      OBVIOUS
    <3>1. k + 1 \in a .. n /\ k \in 0 .. n - 1
      BY <1>1, <2>2
    <3> QED BY <1>6, <2>5, <3>1
  <2>8. \A k \in a .. n : k \in S
    <3> HIDE DEF S
    <3> QED BY <1>1, <2>2, <2>6, <2>7, FromFront
  <2>9. n \in a .. n
    BY <1>1, <2>1, <2>2
  <2> QED BY <2>8, <2>9 DEF Ending, n
<1> QED BY <1>4, <1>11, <1>12

(* Once ended the scan stays so, so that before the end it goes on. *)
LEMMA ScanGoesOn ==
  ASSUME NEW str \in Seq(NumberChars), NEW q, States(q, str), q[Len(str)] \notin Ended
  PROVE  /\ \A i \in 0 .. Len(str) : q[i] \notin Ended
         /\ \A i \in 1 .. Len(str) : q[i] = LX!Step(q[i - 1], str[i])
<1> DEFINE n == Len(str)
           S == {i \in 0 .. n : q[i] \notin Ended}
<1>1. n \in Nat
  BY LenProperties
<1>2. \A i \in 1 .. n : q[i] = IF q[i - 1] \in Ended THEN q[i - 1] ELSE LX!Step(q[i - 1], str[i])
  BY DEF States
<1>3. n \in S
  BY <1>1
<1> HIDE DEF n
<1>4. \A i \in 0 .. n : (\A j \in i + 1 .. n : j \in S) => i \in S
  <2> SUFFICES ASSUME NEW i \in 0 .. n, \A j \in i + 1 .. n : j \in S PROVE i \in S
    OBVIOUS
  <2>1. CASE i = n
    BY <1>3, <2>1
  <2>2. CASE i # n
    <3>1. i + 1 \in i + 1 .. n /\ i + 1 \in 1 .. n /\ i + 1 - 1 = i
      BY <1>1, <2>2
    <3>2. q[i + 1] \notin Ended
      BY <3>1
    <3>3. q[i + 1] = IF q[i] \in Ended THEN q[i] ELSE LX!Step(q[i], str[i + 1])
      BY <1>2, <3>1
    <3> QED BY <3>2, <3>3
  <2> QED BY <2>1, <2>2
<1>5. \A i \in 0 .. n : i \in S
  <2> HIDE DEF S
  <2>1. 0 \in Int /\ n \in Int
    BY <1>1
  <2> QED BY <1>4, <2>1, FromBehind
<1>6. \A i \in 1 .. n : i - 1 \in 0 .. n
  BY <1>1
<1> QED BY <1>2, <1>5, <1>6 DEF n

(* t is the l characters of a text behind the first b *)
PartOf(t, str, b, l) ==
  t \in Seq(NumberChars) /\ Len(t) = l /\ \A k \in 1 .. l : t[k] = str[b + k]

LEMMA PartDigits ==
  ASSUME NEW str, NEW b \in Nat, NEW l \in Nat, NEW t, PartOf(t, str, b, l)
  PROVE  LX!Digits(t) <=> l >= 1 /\ DigitsIn(str, b + 1, b + l)
<1>1. t \in Seq(NumberChars) /\ Len(t) = l /\ DOMAIN t = 1 .. l /\ \A k \in 1 .. l : t[k] = str[b + k]
  BY LenProperties DEF PartOf
<1>2. t # <<>> <=> l >= 1
  BY <1>1, EmptySeq
<1>3. (\A k \in 1 .. l : str[b + k] \in LX!Digit) <=> DigitsIn(str, b + 1, b + l)
  <2>1. \A k \in 1 .. l : b + k \in b + 1 .. b + l
    OBVIOUS
  <2>2. \A i \in b + 1 .. b + l : i - b \in 1 .. l /\ b + (i - b) = i
    OBVIOUS
  <2> QED BY <2>1, <2>2 DEF DigitsIn
<1>4. (\A k \in 1 .. l : t[k] \in LX!Digit) <=> \A k \in 1 .. l : str[b + k] \in LX!Digit
  BY <1>1
<1>5. LX!Digits(t) <=> t # <<>> /\ \A k \in 1 .. l : t[k] \in LX!Digit
  BY <1>1 DEF LX!Digits
<1> QED BY <1>2, <1>3, <1>4, <1>5, Zenon

LEMMA PartTail ==
  ASSUME NEW str, NEW b \in Nat, NEW l \in Nat \ {0}, NEW t, PartOf(t, str, b, l)
  PROVE  PartOf(Tail(t), str, b + 1, l - 1)
<1>1. t \in Seq(NumberChars) /\ t # <<>> /\ Len(t) = l /\ \A k \in 1 .. l : t[k] = str[b + k]
  BY EmptySeq DEF PartOf
<1>2. /\ Tail(t) \in Seq(NumberChars) /\ Len(Tail(t)) = l - 1
      /\ \A k \in 1 .. l - 1 : Tail(t)[k] = t[k + 1]
  BY <1>1, HeadTailProperties
<1>3. \A k \in 1 .. l - 1 : k + 1 \in 1 .. l /\ b + (k + 1) = b + 1 + k
  OBVIOUS
<1>4. \A k \in 1 .. l - 1 : Tail(t)[k] = str[b + 1 + k]
  BY <1>1, <1>2, <1>3
<1> QED BY <1>2, <1>4 DEF PartOf

LEMMA PartCut ==
  ASSUME NEW str, NEW b \in Nat, NEW l \in Nat, NEW t, PartOf(t, str, b, l),
         NEW x \in 1 .. l + 1, NEW y \in 0 .. l, x <= y + 1
  PROVE  PartOf(SubSeq(t, x, y), str, b + x - 1, y - x + 1)
<1>1. t \in Seq(NumberChars) /\ Len(t) = l /\ \A k \in 1 .. l : t[k] = str[b + k]
  BY DEF PartOf
<1>2. /\ SubSeq(t, x, y) \in Seq(NumberChars) /\ Len(SubSeq(t, x, y)) = y - x + 1
      /\ \A k \in 1 .. y - x + 1 : SubSeq(t, x, y)[k] = t[x + k - 1]
  BY <1>1, CutString
<1>3. \A k \in 1 .. y - x + 1 : x + k - 1 \in 1 .. l /\ b + (x + k - 1) = b + x - 1 + k
  OBVIOUS
<1>4. \A k \in 1 .. y - x + 1 : SubSeq(t, x, y)[k] = str[b + x - 1 + k]
  BY <1>1, <1>2, <1>3
<1> QED BY <1>2, <1>4 DEF PartOf

LEMMA PartFraction ==
  ASSUME NEW str, NEW b \in Nat, NEW l \in Nat, NEW t, PartOf(t, str, b, l)
  PROVE  LX!Fraction(t) <=> FracPart(str, b, b + l)
<1>1. Len(t) = l /\ (t # <<>> <=> l # 0)
  BY EmptySeq DEF PartOf
<1>2. CASE l = 0
  BY <1>1, <1>2 DEF LX!Fraction, FracPart
<1>3. CASE l # 0
  <2>1. t[1] = str[b + 1]
    <3>1. 1 \in 1 .. l
      BY <1>3
    <3> QED BY <3>1 DEF PartOf
  <2>2. PartOf(Tail(t), str, b + 1, l - 1) /\ l - 1 \in Nat /\ b + 1 \in Nat
    BY <1>3, PartTail
  <2>3. LX!Digits(Tail(t)) <=> l - 1 >= 1 /\ DigitsIn(str, b + 1 + 1, b + 1 + (l - 1))
    BY <2>2, PartDigits
  <2>4. b + 1 + 1 = b + 2 /\ b + 1 + (l - 1) = b + l /\ (l - 1 >= 1 <=> b + l >= b + 2) /\ b + l # b
    BY <1>3
  <2> QED BY <1>1, <1>3, <2>1, <2>3, <2>4 DEF LX!Fraction, FracPart
<1> QED BY <1>2, <1>3

LEMMA PartExponent ==
  ASSUME NEW str, NEW b \in Nat, NEW l \in Nat, NEW t, PartOf(t, str, b, l)
  PROVE  LX!Exponent(t) <=> l = 0 \/ ExpPart(str, b, b + l)
<1>1. Len(t) = l /\ (t # <<>> <=> l # 0) /\ \A k \in 1 .. l : t[k] = str[b + k]
  BY EmptySeq DEF PartOf
<1>2. CASE l = 0
  BY <1>1, <1>2 DEF LX!Exponent
<1>3. CASE l # 0
  <2>1. t[1] = str[b + 1]
    BY <1>1, <1>3
  <2>2. LX!Digits(Tail(t)) <=> b + l >= b + 2 /\ DigitsIn(str, b + 2, b + l)
    <3>1. PartOf(Tail(t), str, b + 1, l - 1) /\ l - 1 \in Nat /\ b + 1 \in Nat
      BY <1>3, PartTail
    <3>2. LX!Digits(Tail(t)) <=> l - 1 >= 1 /\ DigitsIn(str, b + 1 + 1, b + 1 + (l - 1))
      BY <3>1, PartDigits
    <3>3. b + 1 + 1 = b + 2 /\ b + 1 + (l - 1) = b + l /\ (l - 1 >= 1 <=> b + l >= b + 2)
      OBVIOUS
    <3> QED BY <3>2, <3>3
  <2>3. (Len(t) > 2 /\ t[2] \in {"+", "-"} /\ LX!Digits(LX!drop_front(t, 2)))
          <=> b + l >= b + 3 /\ str[b + 2] \in {"+", "-"} /\ DigitsIn(str, b + 3, b + l)
    <3>1. CASE l <= 2
      <4>1. ~(Len(t) > 2) /\ ~(b + l >= b + 3)
        BY <1>1, <3>1
      <4> QED BY <4>1, Zenon
    <3>2. CASE l > 2
      <4>1. t[2] = str[b + 2] /\ 3 \in 1 .. l + 1 /\ l \in 0 .. l /\ 3 <= l + 1
        BY <1>1, <3>2
      <4>2. PartOf(SubSeq(t, 3, l), str, b + 3 - 1, l - 3 + 1)
        BY <4>1, PartCut
      <4>3. LX!drop_front(t, 2) = SubSeq(t, 3, l)
        BY <1>1 DEF LX!drop_front
      <4>4. /\ b + 3 - 1 \in Nat /\ l - 3 + 1 \in Nat /\ l - 3 + 1 >= 1 /\ b + 3 - 1 + 1 = b + 3
            /\ b + 3 - 1 + (l - 3 + 1) = b + l /\ b + l >= b + 3
        BY <3>2
      <4>5. LX!Digits(SubSeq(t, 3, l)) <=> DigitsIn(str, b + 3 - 1 + 1, b + 3 - 1 + (l - 3 + 1))
        BY <4>2, <4>4, PartDigits
      <4> QED BY <1>1, <3>2, <4>1, <4>3, <4>4, <4>5
    <3> QED BY <3>1, <3>2
  <2> QED BY <1>1, <1>3, <2>1, <2>2, <2>3, Zenon DEF LX!Exponent, ExpPart
<1> QED BY <1>2, <1>3

(* The grammar of RFC 7159, by the ends of the parts *)
LEMMA GrammarInParts ==
  ASSUME NEW str \in Seq(NumberChars)
  PROVE  LX!IsNumber(str) <=> IsInParts(str)
<1> DEFINE n == Len(str)
           m == MinusEnd(str)
           abs == IF str # <<>> /\ str[1] = "-" THEN Tail(str) ELSE str
<1>1. n \in Nat /\ m \in {0, 1} /\ m <= n /\ (str # <<>> <=> n > 0)
  BY LenProperties, EmptySeq DEF MinusEnd
<1>2. PartOf(str, str, 0, n)
  BY <1>1 DEF PartOf
<1>3. PartOf(abs, str, m, n - m)
  <2>1. CASE m = 0
    BY <1>1, <1>2, <2>1 DEF MinusEnd
  <2>2. CASE m = 1
    <3>1. abs = Tail(str) /\ n \in Nat \ {0}
      BY <1>1, <2>2 DEF MinusEnd
    <3>2. PartOf(Tail(str), str, 0 + 1, n - 1)
      BY <1>2, <3>1, PartTail
    <3> QED BY <2>2, <3>1, <3>2
  <2> QED BY <1>1, <2>1, <2>2
<1> DEFINE L == n - m
           Form(i, j) == /\ LX!Digits(LX!take_front(abs, i)) /\ (abs[1] = "0" => i = 1)
                         /\ LX!Fraction(SubSeq(abs, i + 1, j))
                         /\ LX!Exponent(LX!drop_front(abs, j))
<1>4. LX!IsNumber(str) <=> \E i \in 1 .. Len(abs) : \E j \in i .. Len(abs) : Form(i, j)
  BY Zenon DEF LX!IsNumber
<1>5. Len(abs) = L /\ L \in Nat /\ \A k \in 1 .. L : abs[k] = str[m + k]
  BY <1>1, <1>3 DEF PartOf
<1> HIDE DEF abs, m, n
<1>6. ASSUME NEW i \in 1 .. L, NEW j \in i .. L
      PROVE  Form(i, j) <=> Mantissa(str, m + i, m + j) /\ (m + j = n \/ ExpPart(str, m + j, n))
  <2>1. LX!Digits(LX!take_front(abs, i)) <=> DigitsIn(str, m + 1, m + i)
    <3>1. 1 \in 1 .. L + 1 /\ i \in 0 .. L /\ 1 <= i + 1 /\ m \in Nat /\ i - 1 + 1 = i /\ m + 1 - 1 = m
      BY <1>1, <1>5
    <3>2. PartOf(SubSeq(abs, 1, i), str, m + 1 - 1, i - 1 + 1)
      BY <1>3, <1>5, <3>1, PartCut
    <3>3. PartOf(SubSeq(abs, 1, i), str, m, i) /\ i \in Nat /\ i >= 1
      BY <3>1, <3>2
    <3>4. LX!Digits(SubSeq(abs, 1, i)) <=> i >= 1 /\ DigitsIn(str, m + 1, m + i)
      BY <3>1, <3>3, PartDigits
    <3> QED BY <3>3, <3>4 DEF LX!take_front
  <2>2. (abs[1] = "0" => i = 1) <=> (str[m + 1] = "0" => m + i = m + 1)
    <3>1. 1 \in 1 .. L /\ (i = 1 <=> m + i = m + 1)
      BY <1>1, <1>5
    <3> QED BY <1>5, <3>1
  <2>3. LX!Fraction(SubSeq(abs, i + 1, j)) <=> FracPart(str, m + i, m + j)
    <3>1. /\ i + 1 \in 1 .. L + 1 /\ j \in 0 .. L /\ i + 1 <= j + 1 /\ m \in Nat
          /\ m + (i + 1) - 1 = m + i /\ j - (i + 1) + 1 = j - i
          /\ m + i \in Nat /\ j - i \in Nat /\ m + i + (j - i) = m + j
      BY <1>1, <1>5
    <3>2. PartOf(SubSeq(abs, i + 1, j), str, m + (i + 1) - 1, j - (i + 1) + 1)
      BY <1>3, <1>5, <3>1, PartCut
    <3>3. PartOf(SubSeq(abs, i + 1, j), str, m + i, j - i)
      BY <3>1, <3>2
    <3>4. LX!Fraction(SubSeq(abs, i + 1, j)) <=> FracPart(str, m + i, m + i + (j - i))
      BY <3>1, <3>3, PartFraction
    <3> QED BY <3>1, <3>4
  <2>4. LX!Exponent(LX!drop_front(abs, j)) <=> m + j = n \/ ExpPart(str, m + j, n)
    <3>1. /\ j + 1 \in 1 .. L + 1 /\ L \in 0 .. L /\ j + 1 <= L + 1 /\ m \in Nat
          /\ m + (j + 1) - 1 = m + j /\ L - (j + 1) + 1 = L - j
          /\ m + j \in Nat /\ L - j \in Nat /\ m + j + (L - j) = n /\ (L - j = 0 <=> m + j = n)
      BY <1>1, <1>5
    <3>2. PartOf(SubSeq(abs, j + 1, L), str, m + (j + 1) - 1, L - (j + 1) + 1)
      BY <1>3, <1>5, <3>1, PartCut
    <3>3. PartOf(SubSeq(abs, j + 1, L), str, m + j, L - j)
      BY <3>1, <3>2
    <3>4. LX!Exponent(SubSeq(abs, j + 1, L)) <=> L - j = 0 \/ ExpPart(str, m + j, m + j + (L - j))
      BY <3>1, <3>3, PartExponent
    <3>5. LX!drop_front(abs, j) = SubSeq(abs, j + 1, L)
      BY <1>5 DEF LX!drop_front
    <3> QED BY <3>1, <3>4, <3>5
  <2>5. m + i <= m + j /\ m + i > m
    BY <1>1, <1>5
  <2>6. m = MinusEnd(str)
    BY DEF m
  <2> QED BY <2>1, <2>2, <2>3, <2>4, <2>5, <2>6, Zenon DEF Mantissa, IntPart
<1> HIDE DEF Form
<1>7. ASSUME LX!IsNumber(str) PROVE IsInParts(str)
  <2>1. PICK i \in 1 .. L : \E j \in i .. L : Form(i, j)
    BY <1>4, <1>5, <1>7
  <2>j. PICK j \in i .. L : Form(i, j)
    BY <2>1
  <2>2. m + i \in 1 .. n /\ m + j \in 1 .. n
    BY <1>1, <1>5
  <2>3. Mantissa(str, m + i, m + j) /\ (m + j = n \/ ExpPart(str, m + j, n))
    BY <1>6, <2>j
  <2> QED BY <2>2, <2>3 DEF IsInParts, n
<1>8. ASSUME IsInParts(str) PROVE LX!IsNumber(str)
  <2>1. PICK p \in 1 .. n, r \in 1 .. n : Mantissa(str, p, r) /\ (r = n \/ ExpPart(str, r, n))
    BY <1>8 DEF IsInParts, n
  <2>2. p <= r /\ p > m
    BY <2>1 DEF Mantissa, IntPart, m
  <2>3. p - m \in 1 .. L /\ r - m \in (p - m) .. L /\ m + (p - m) = p /\ m + (r - m) = r
    BY <1>1, <2>2
  <2>4. Form(p - m, r - m)
    BY <1>6, <2>1, <2>3
  <2> QED BY <1>4, <1>5, <2>3, <2>4
<1> QED BY <1>7, <1>8

(* An unbroken scan has passed each of its states, and the last of them is *)
(* where the text ends.                                                    *)
LEMMA ScannedWhole ==
  ASSUME NEW str \in Seq(NumberChars), NEW q, States(q, str)
  PROVE  /\ (Scanned(q, str).type # "parse_error" /\ Scanned(q, str).length = Len(str))
              <=> q[Len(str)] \in Ending
         /\ q[Len(str)] \in Ending =>
              Scanned(q, str).type =
                IF (\E i \in 0 .. Len(str) : q[i] \in {"decimal1", "exponent"}) \/ ~LX!Fits(str)
                THEN "value_float"
                ELSE IF \E i \in 0 .. Len(str) : q[i] = "minus" THEN "value_integer"
                ELSE "value_unsigned"
<1> DEFINE n == Len(str)
           going == {i \in 0 .. n : q[i] \notin {"done", "error"}}
           length == LX!Max(going)
<1>1. n \in Nat /\ q[0] = "init" /\ \A i \in 0 .. n : q[i] \in NumberStates
  BY LenProperties DEF States
<1> HIDE DEF n
<1>2. 0 \in going
  BY <1>1
<1>3. length \in going /\ \A i \in going : length >= i
  <2>1. \E x \in going : \A y \in going : x >= y
    <3> DEFINE back == {i \in 0 .. n : n - i \in going}
    <3>1. n \in back
      BY <1>1, <1>2
    <3>2. back \in SUBSET Nat
      BY <1>1
    <3>3. \A i : i \in back <=> i \in 0 .. n /\ n - i \in going
      OBVIOUS
    <3> HIDE DEF back
    <3>4. Min(back) \in back /\ \A i \in back : Min(back) <= i
      BY <3>1, <3>2, Least
    <3> DEFINE k == Min(back)
    <3> HIDE DEF k
    <3>5. k \in 0 .. n /\ n - k \in going /\ \A i \in back : k <= i
      BY <3>3, <3>4 DEF k
    <3>6. \A y \in going : y \in 0 .. n /\ n - y \in back
      <4>1. \A y \in going : y \in 0 .. n /\ n - y \in 0 .. n /\ n - (n - y) = y
        BY <1>1
      <4> HIDE DEF going
      <4> QED BY <3>3, <4>1
    <3>7. \A y \in going : n - k >= y
      <4> HIDE DEF going
      <4> SUFFICES ASSUME NEW y \in going PROVE n - k >= y
        OBVIOUS
      <4>1. k <= n - y /\ y \in 0 .. n
        BY <3>5, <3>6
      <4> QED BY <1>1, <3>5, <4>1
    <3> QED BY <3>5, <3>7
  <2> HIDE DEF going
  <2> QED BY <2>1 DEF LX!Max
<1> DEFINE last == LX!Step(q[length], "end")
           passed == {q[i] : i \in 0 .. length}
           fits == LX!Fits(LX!take_front(str, length))
           number == [length |-> length,
                      type |-> IF {"decimal1", "exponent"} \cap passed # {} \/ ~fits THEN "value_float"
                               ELSE IF "minus" \in passed THEN "value_integer"
                               ELSE "value_unsigned"]
           none == [type |-> "parse_error", length |-> 0]
<1>4. Scanned(q, str) = IF q[n] = "error" \/ last = "error" THEN none ELSE number
  BY Zenon DEF Scanned, n
<1>5. none.type = "parse_error" /\ number.type # "parse_error" /\ number.length = length
  BY Zenon
<1>6. number.type =
        IF (\E i \in 0 .. length : q[i] \in {"decimal1", "exponent"}) \/ ~fits THEN "value_float"
        ELSE IF \E i \in 0 .. length : q[i] = "minus" THEN "value_integer"
        ELSE "value_unsigned"
  <2>1. number.type =
          IF {"decimal1", "exponent"} \cap passed # {} \/ ~fits THEN "value_float"
          ELSE IF "minus" \in passed THEN "value_integer"
          ELSE "value_unsigned"
    <3> HIDE DEF passed, length, fits
    <3> QED OBVIOUS
  <2>3. "minus" \in passed <=> \E i \in 0 .. length : q[i] = "minus"
    <3> HIDE DEF length
    <3> QED OBVIOUS
  <2>2. {"decimal1", "exponent"} \cap passed # {} <=> \E i \in 0 .. length : q[i] \in {"decimal1", "exponent"}
    <3> HIDE DEF length
    <3> QED OBVIOUS
  <2> HIDE DEF number, passed, length, fits
  <2> QED BY <2>1, <2>2, <2>3, Zenon
<1>7. length \in 0 .. n /\ q[length] \in NumberStates /\ q[length] \notin Ended
  <2> HIDE DEF length
  <2> QED BY <1>1, <1>3 DEF Ended
<1>8. last # "error" <=> q[length] \in Ending
  <2>1. "end" \in NumberChars \cup {"end"}
    OBVIOUS
  <2> HIDE DEF length
  <2> QED BY <1>7, <2>1, StepsFrom
<1>9. q[n] \in Ending => length = n
  <2> HIDE DEF length
  <2>1. ASSUME q[n] \in Ending PROVE n \in going
    BY <1>1, <2>1 DEF Ending
  <2>2. ASSUME n \in going PROVE length = n
    BY <1>1, <1>3, <1>7, <2>2
  <2> QED BY <2>1, <2>2
<1>12. length = n => LX!take_front(str, length) = str
  <2> HIDE DEF length
  <2> QED BY SubSeqFull DEF LX!take_front, n
<1>13. length = n => (fits <=> LX!Fits(str))
  <2> HIDE DEF length
  <2> QED BY <1>12
<1> HIDE DEF length, number, none, last, fits
<1>10. ASSUME Scanned(q, str).type # "parse_error", Scanned(q, str).length = n PROVE q[n] \in Ending
  <2>1. last # "error" /\ Scanned(q, str) = number
    BY <1>4, <1>5, <1>10, Zenon
  <2>2. length = n
    BY <1>5, <1>10, <2>1
  <2> QED BY <1>8, <2>1, <2>2
<1>11. ASSUME q[n] \in Ending PROVE Scanned(q, str) = number /\ length = n
  <2>1. length = n /\ last # "error" /\ q[n] # "error"
    BY <1>8, <1>9, <1>11 DEF Ending
  <2> QED BY <1>4, <2>1
<1> QED
  <2>1. ASSUME q[n] \in Ending
        PROVE  /\ Scanned(q, str).type # "parse_error" /\ Scanned(q, str).length = n
               /\ Scanned(q, str).type =
                    IF (\E i \in 0 .. n : q[i] \in {"decimal1", "exponent"}) \/ ~LX!Fits(str) THEN "value_float"
                    ELSE IF \E i \in 0 .. n : q[i] = "minus" THEN "value_integer"
                    ELSE "value_unsigned"
    <3>1. Scanned(q, str) = number /\ length = n
      BY <1>11, <2>1
    <3>2. Scanned(q, str).type # "parse_error" /\ Scanned(q, str).length = n
      BY <1>5, <3>1
    <3> QED BY <1>6, <1>13, <3>1, <3>2, Zenon
  <2> QED BY <1>10, <2>1 DEF n

(* scan_number reads all of a text as a number if and only if it is one by *)
(* the grammar of RFC 7159, and gives it the type (json::lexer::           *)
(* scan_number): value_float when it has a fraction or an exponent, or is  *)
(* an integer that does not fit, else value_integer with a minus and       *)
(* value_unsigned without.  This holds of every text made of the           *)
(* characters of a number, of any length, and for integers of every width. *)
THEOREM NumbersByGrammar ==
  ASSUME NEW str \in Seq(NumberChars)
  PROVE  LX!NumberByGrammar(str)
<1>1. PICK q : States(q, str) /\ LX!ScanNumber(str) = Scanned(q, str)
  BY NumberScans
<1> DEFINE n == Len(str)
           scanned == LX!ScanNumber(str)
<1>2. (scanned.type # "parse_error" /\ scanned.length = n) <=> q[n] \in Ending
  BY <1>1, ScannedWhole
<1>3. LX!IsNumber(str) <=> q[n] \in Ending
  BY <1>1, AcceptedInParts, InPartsAccepted, GrammarInParts
<1>4. ASSUME q[n] \in Ending
      PROVE  scanned.type =
               IF (\E i \in DOMAIN str : str[i] \in {".", "e"}) \/ ~LX!Fits(str) THEN "value_float"
               ELSE IF str[1] = "-" THEN "value_integer"
               ELSE "value_unsigned"
  <2>1. scanned.type =
          IF (\E i \in 0 .. n : q[i] \in {"decimal1", "exponent"}) \/ ~LX!Fits(str) THEN "value_float"
          ELSE IF \E i \in 0 .. n : q[i] = "minus" THEN "value_integer"
          ELSE "value_unsigned"
    BY <1>1, <1>4, ScannedWhole
  <2>2. n \in Nat /\ DOMAIN str = 1 .. n /\ q[0] = "init" /\ q[n] \notin Ended
    BY <1>1, <1>4, LenProperties DEF States, Ending, Ended
  <2>3. \A i \in 0 .. n : q[i] \in NumberStates /\ q[i] \notin Ended
    BY <1>1, <2>2, ScanGoesOn DEF States
  <2>4. \A i \in 1 .. n : /\ q[i] = LX!Step(q[i - 1], str[i]) /\ i - 1 \in 0 .. n
                          /\ i \in 0 .. n /\ str[i] \in NumberChars
    <3>1. \A i \in 1 .. n : i - 1 \in 0 .. n /\ i \in 0 .. n /\ str[i] \in NumberChars
      BY <2>2, ElementOfSeq
    <3> QED BY <1>1, <2>2, <3>1, ScanGoesOn
  <2>5. \A i \in 1 .. n : q[i] \in {"decimal1", "exponent"} <=> str[i] \in {".", "e"}
    <3> HIDE DEF n
    <3> SUFFICES ASSUME NEW i \in 1 .. n PROVE q[i] \in {"decimal1", "exponent"} <=> str[i] \in {".", "e"}
      OBVIOUS
    <3>1. /\ q[i - 1] \in NumberStates /\ str[i] \in NumberChars
          /\ q[i] = LX!Step(q[i - 1], str[i]) /\ q[i] \notin Ended
      BY <2>3, <2>4
    <3>2. /\ LX!Step(q[i - 1], str[i]) = "decimal1" => str[i] = "."
          /\ LX!Step(q[i - 1], str[i]) = "exponent" => str[i] = "e"
          /\ str[i] = "." => LX!Step(q[i - 1], str[i]) \in Ended \cup {"decimal1"}
          /\ str[i] = "e" => LX!Step(q[i - 1], str[i]) \in Ended \cup {"exponent"}
      BY <3>1, StepsTo
    <3> QED BY <3>1, <3>2
  <2>6. \A i \in 0 .. n : q[i] \in {"decimal1", "exponent", "minus"} => i \in 1 .. n
    BY <2>2
  <2>7. (\E i \in 0 .. n : q[i] \in {"decimal1", "exponent"})
          <=> \E i \in DOMAIN str : str[i] \in {".", "e"}
    BY <2>2, <2>4, <2>5, <2>6
  <2>8. ASSUME str[1] = "-" PROVE 1 \in 0 .. n /\ q[1] = "minus"
    <3>1. n # 0
      BY <1>4, <2>2 DEF Ending
    <3>2. 1 \in 1 .. n /\ 1 \in 0 .. n /\ 1 - 1 = 0
      BY <2>2, <3>1
    <3>3. q[1] = LX!Step("init", str[1]) /\ str[1] \in NumberChars \cup {"end"}
      BY <2>2, <2>4, <3>2
    <3>4. "init" \in NumberStates
      BY DEF NumberStates
    <3> QED BY <2>8, <3>2, <3>3, <3>4, StepsFrom
  <2>9. ASSUME NEW i \in 0 .. n, q[i] = "minus" PROVE str[1] = "-"
    <3>1. i \in 1 .. n
      BY <2>6, <2>9
    <3>2. q[i] = LX!Step(q[i - 1], str[i]) /\ i - 1 \in 0 .. n /\ str[i] \in NumberChars
      BY <2>4, <3>1
    <3>3. q[i - 1] = "init" /\ str[i] = "-"
      BY <2>3, <2>9, <3>2, StepsTo
    <3>4. i - 1 = 0
      <4>1. ASSUME i - 1 \in 1 .. n PROVE FALSE
        <5>1. q[i - 1] = LX!Step(q[i - 1 - 1], str[i - 1]) /\ i - 1 - 1 \in 0 .. n /\ str[i - 1] \in NumberChars
          BY <2>4, <4>1
        <5>2. q[i - 1] \notin {"init"}
          BY <2>3, <5>1, StepsTo
        <5> QED BY <3>3, <5>2
      <4> QED BY <2>2, <3>1, <3>2, <4>1
    <3>5. i = 1
      BY <3>1, <3>4
    <3> QED BY <3>3, <3>5
  <2>10. (\E i \in 0 .. n : q[i] = "minus") <=> str[1] = "-"
    BY <2>8, <2>9
  <2> HIDE DEF n, scanned
  <2> QED BY <2>1, <2>7, <2>10, Zenon
<1> QED BY <1>2, <1>3, <1>4, Zenon DEF LX!NumberByGrammar

(***************************************************************************)
(* get_codepoint and the bytes of a code point                             *)
(***************************************************************************)

(* numbers below a bound; a bound on a literal interval would be listed *)
Below(n) == {i \in Nat : i < n}
ByteValue == Below(256)

(* hex digits *)
LEMMA HexDigits ==
  ASSUME NEW v \in Nat, v < 16
  PROVE  /\ LX!hexdigit(v) \in Nat /\ LX!hexdigit(v) < 256
         /\ LX!HexValue(LX!hexdigit(v)) = v
  BY SMT DEF LX!hexdigit, LX!HexValue

(* a character is a hex digit or none *)
LEMMA HexValues ==
  ASSUME NEW c \in Nat
  PROVE  LX!HexValue(c) = -1 \/ (LX!HexValue(c) \in Nat /\ LX!HexValue(c) < 16)
  BY SMT DEF LX!HexValue

(* get_codepoint puts four hex digits together *)
LEMMA CodePointOfDigits ==
  ASSUME NEW a \in Nat, NEW b \in Nat, NEW c \in Nat, NEW d \in Nat,
         a < 16, b < 16, c < 16, d < 16, NEW digits, Len(digits) = 4,
         digits[1] = LX!hexdigit(a), digits[2] = LX!hexdigit(b),
         digits[3] = LX!hexdigit(c), digits[4] = LX!hexdigit(d)
  PROVE  LX!get_codepoint(digits) = a * 4096 + b * 256 + c * 16 + d
<1>1. /\ LX!HexValue(digits[1]) = a /\ LX!HexValue(digits[2]) = b
      /\ LX!HexValue(digits[3]) = c /\ LX!HexValue(digits[4]) = d
  BY HexDigits
<1>2. \A i \in 1 .. 4 : LX!HexValue(digits[i]) # -1
  BY <1>1
<1>3. ~ (Len(digits) < 4 \/ \E i \in 1 .. 4 : LX!HexValue(digits[i]) = -1)
  BY <1>2
<1>4. LX!get_codepoint(digits) = LX!HexValue(digits[1]) * 4096 + LX!HexValue(digits[2]) * 256
                                   + LX!HexValue(digits[3]) * 16 + LX!HexValue(digits[4])
  BY <1>3 DEF LX!get_codepoint
<1> QED BY <1>1, <1>4

(* get_codepoint gives 16 bits or -1, and -1 when fewer than four          *)
(* characters are left                                                     *)
LEMMA CodePoints16 ==
  ASSUME NEW digits \in Seq(Nat)
  PROVE  /\ \/ LX!get_codepoint(digits) = -1
            \/ LX!get_codepoint(digits) \in Nat /\ LX!get_codepoint(digits) < 65536
         /\ Len(digits) < 4 => LX!get_codepoint(digits) = -1
<1>1. Len(digits) < 4 => LX!get_codepoint(digits) = -1
  BY DEF LX!get_codepoint
<1>2. CASE Len(digits) >= 4 /\ \A i \in 1 .. 4 : LX!HexValue(digits[i]) # -1
  <2> DEFINE h(i) == LX!HexValue(digits[i])
  <2>1. ASSUME NEW i \in 1 .. 4 PROVE h(i) \in Nat /\ h(i) < 16
    <3>1. i \in 1 .. Len(digits)
      BY <1>2, LenProperties
    <3>2. digits[i] \in Nat
      BY <3>1, ElementOfSeq
    <3> QED BY <1>2, <3>2, HexValues
  <2>2. ~ (Len(digits) < 4 \/ \E i \in 1 .. 4 : LX!HexValue(digits[i]) = -1)
    BY <1>2, LenProperties
  <2>3. LX!get_codepoint(digits) = h(1) * 4096 + h(2) * 256 + h(3) * 16 + h(4)
    BY <2>2 DEF LX!get_codepoint
  <2>4. /\ h(1) \in Nat /\ h(1) < 16 /\ h(2) \in Nat /\ h(2) < 16
        /\ h(3) \in Nat /\ h(3) < 16 /\ h(4) \in Nat /\ h(4) < 16
    BY <2>1
  <2> HIDE DEF h
  <2>5. LX!get_codepoint(digits) \in Nat /\ LX!get_codepoint(digits) < 65536
    BY <2>3, <2>4, SMT
  <2> QED BY <1>2, <2>5
<1>3. CASE ~ (Len(digits) >= 4 /\ \A i \in 1 .. 4 : LX!HexValue(digits[i]) # -1)
  <2>1. Len(digits) < 4 \/ \E i \in 1 .. 4 : LX!HexValue(digits[i]) = -1
    BY <1>3, LenProperties
  <2>2. LX!get_codepoint(digits) = -1
    BY <2>1 DEF LX!get_codepoint
  <2> QED BY <2>2
<1> QED BY <1>1, <1>2, <1>3

(* the four digits of a number of 16 bits *)
LEMMA Nibbles ==
  ASSUME NEW v \in Nat, v < 65536
  PROVE  /\ v \div 4096 \in Nat /\ v \div 4096 < 16
         /\ (v \div 256) % 16 \in Nat /\ (v \div 256) % 16 < 16
         /\ (v \div 16) % 16 \in Nat /\ (v \div 16) % 16 < 16
         /\ v % 16 \in Nat /\ v % 16 < 16
         /\ v = (v \div 4096) * 4096 + ((v \div 256) % 16) * 256 + ((v \div 16) % 16) * 16 + (v % 16)
  BY SMT

(* the bytes of a code point have its value, in the shortest form *)
LEMMA ValueOfUtf8 ==
  ASSUME NEW cp \in Nat, cp <= 1114111
  PROVE  /\ LX!Utf8(cp) \in Seq(ByteValue) /\ Len(LX!Utf8(cp)) \in 1 .. 4
         /\ LX!Value(LX!Utf8(cp)) = cp /\ LX!Shortest(LX!Utf8(cp))
<1> DEFINE u == LX!Utf8(cp)
<1>1. CASE cp < 128
  <2>1. u = <<cp>>
    BY <1>1, SMT DEF LX!Utf8
  <2>2. u \in Seq(ByteValue) /\ Len(u) = 1 /\ u[1] = cp
    <3>1. cp \in ByteValue
      BY <1>1, SMT DEF ByteValue, Below
    <3> QED BY <2>1, <3>1
  <2> HIDE DEF u
  <2>3. LX!Value(u) = cp
    BY <1>1, <2>2, SMT DEF LX!Value
  <2>4. LX!Shortest(u)
    BY <1>1, <2>2, <2>3, SMT DEF LX!Shortest
  <2> QED BY <2>2, <2>3, <2>4 DEF u
<1>2. CASE 128 <= cp /\ cp < 2048
  <2> DEFINE p == 192 + cp \div 64
             q == 128 + (cp % 64)
  <2>1. /\ p \in Nat /\ 192 <= p /\ p <= 223 /\ q \in Nat /\ 128 <= q /\ q <= 191
        /\ cp = (p - 192) * 64 + (q - 128)
    BY <1>2, SMT
  <2>2. u = <<p, q>>
    BY <1>2, SMT DEF LX!Utf8
  <2> HIDE DEF p, q
  <2>3. u \in Seq(ByteValue) /\ Len(u) = 2 /\ u[1] = p /\ u[2] = q
    <3>1. p \in ByteValue /\ q \in ByteValue
      BY <2>1, SMT DEF ByteValue, Below
    <3> QED BY <2>2, <3>1
  <2> HIDE DEF u
  <2>4. LX!Value(u) = (p - 192) * 64 + q - 128
    BY <2>1, <2>3, SMT DEF LX!Value, LX!IsCont
  <2>5. LX!Value(u) = cp
    BY <2>1, <2>4, SMT
  <2>6. LX!Shortest(u)
    BY <1>2, <2>3, <2>5, SMT DEF LX!Shortest
  <2> QED BY <2>3, <2>5, <2>6 DEF u
<1>3. CASE 2048 <= cp /\ cp < 65536
  <2> DEFINE p == 224 + cp \div 4096
             q == 128 + ((cp \div 64) % 64)
             r == 128 + (cp % 64)
  <2>1. /\ p \in Nat /\ 224 <= p /\ p <= 239 /\ q \in Nat /\ 128 <= q /\ q <= 191
        /\ r \in Nat /\ 128 <= r /\ r <= 191
        /\ cp = (p - 224) * 4096 + (q - 128) * 64 + (r - 128)
    BY <1>3, SMT
  <2>2. u = <<p, q, r>>
    BY <1>3, SMT DEF LX!Utf8
  <2> HIDE DEF p, q, r
  <2>3. u \in Seq(ByteValue) /\ Len(u) = 3 /\ u[1] = p /\ u[2] = q /\ u[3] = r
    <3>1. p \in ByteValue /\ q \in ByteValue /\ r \in ByteValue
      BY <2>1, SMT DEF ByteValue, Below
    <3> QED BY <2>2, <3>1
  <2> HIDE DEF u
  <2>4. LX!Value(u) = (p - 224) * 4096 + (q - 128) * 64 + r - 128
    BY <2>1, <2>3, SMT DEF LX!Value, LX!IsCont
  <2>5. LX!Value(u) = cp
    BY <2>1, <2>4, SMT
  <2>6. LX!Shortest(u)
    BY <1>3, <2>3, <2>5, SMT DEF LX!Shortest
  <2> QED BY <2>3, <2>5, <2>6 DEF u
<1>4. CASE 65536 <= cp
  <2> DEFINE p == 240 + cp \div 262144
             q == 128 + ((cp \div 4096) % 64)
             r == 128 + ((cp \div 64) % 64)
             t == 128 + (cp % 64)
  <2>1. /\ p \in Nat /\ 240 <= p /\ p <= 244 /\ q \in Nat /\ 128 <= q /\ q <= 191
        /\ r \in Nat /\ 128 <= r /\ r <= 191 /\ t \in Nat /\ 128 <= t /\ t <= 191
        /\ cp = (p - 240) * 262144 + (q - 128) * 4096 + (r - 128) * 64 + (t - 128)
    BY <1>4, SMT
  <2>2. u = <<p, q, r, t>>
    BY <1>4, SMT DEF LX!Utf8
  <2> HIDE DEF p, q, r, t
  <2>3. u \in Seq(ByteValue) /\ Len(u) = 4 /\ u[1] = p /\ u[2] = q /\ u[3] = r /\ u[4] = t
    <3>1. p \in ByteValue /\ q \in ByteValue /\ r \in ByteValue /\ t \in ByteValue
      BY <2>1, SMT DEF ByteValue, Below
    <3> QED BY <2>2, <3>1
  <2> HIDE DEF u
  <2>4. LX!Value(u) = (p - 240) * 262144 + (q - 128) * 4096 + (r - 128) * 64 + t - 128
    BY <2>1, <2>3, SMT DEF LX!Value, LX!IsCont
  <2>5. LX!Value(u) = cp
    BY <2>1, <2>4, SMT
  <2>6. LX!Shortest(u)
    BY <1>4, <2>3, <2>5, SMT DEF LX!Shortest
  <2> QED BY <2>3, <2>5, <2>6, SMT DEF u
<1> QED BY <1>1, <1>2, <1>3, <1>4, SMT

(***************************************************************************)
(* One escape, one character                                               *)
(***************************************************************************)

(* where a slice ends *)
LEMMA EndOfSlice ==
  ASSUME NEW m \in Nat, NEW n \in Nat
  PROVE  LX!Min({m, n}) = IF m <= n THEN m ELSE n
<1> DEFINE x == LX!Min({m, n})
<1>1. x \in {m, n} /\ \A y \in {m, n} : x <= y
  <2>1. \E z \in {m, n} : \A y \in {m, n} : z <= y
    BY SMT
  <2> QED BY <2>1 DEF LX!Min
<1> HIDE DEF x
<1>2. x = IF m <= n THEN m ELSE n
  BY <1>1
<1> QED BY <1>2 DEF x

(* what is left of the characters i .. j of t *)
Slice(t, i, j) == SubSeq(t, i, LX!Min({j, Len(t)}))
(* a slice has all its characters unless the text ends before *)
LEMMA Slices ==
  ASSUME NEW t \in Seq(Nat), NEW i \in Nat, NEW j \in Nat, 1 <= i, i <= j
  PROVE  /\ Slice(t, i, j) \in Seq(Nat)
         /\ j <= Len(t) => Len(Slice(t, i, j)) = j - i + 1
         /\ j > Len(t) => Len(Slice(t, i, j)) < j - i + 1
         /\ \A k \in 1 .. Len(Slice(t, i, j)) : Slice(t, i, j)[k] = t[i + k - 1]
<1> DEFINE n == LX!Min({j, Len(t)})
<1>1. Len(t) \in Nat
  BY LenProperties
<1>2. n = IF j <= Len(t) THEN j ELSE Len(t)
  BY <1>1, EndOfSlice
<1> HIDE DEF n
<1>3. n \in Int /\ n <= Len(t) /\ i \in Int
  BY <1>1, <1>2
<1>4. \A k \in i .. n : t[k] \in Nat
  <2>1. \A k \in i .. n : k \in 1 .. Len(t)
    BY <1>1, <1>3
  <2> QED BY <2>1, ElementOfSeq
<1>5. /\ SubSeq(t, i, n) \in Seq(Nat)
      /\ Len(SubSeq(t, i, n)) = IF i <= n THEN n - i + 1 ELSE 0
      /\ \A k \in 1 .. n - i + 1 : SubSeq(t, i, n)[k] = t[i + k - 1]
  BY <1>3, <1>4, SubSeqProperties
<1>6. \A k \in 1 .. Len(SubSeq(t, i, n)) : k \in 1 .. n - i + 1
  BY <1>1, <1>3, <1>5
<1> DEFINE part == SubSeq(t, i, n)
<1>7. Slice(t, i, j) = part
  BY DEF Slice, n
<1> HIDE DEF part
<1>8. /\ part \in Seq(Nat) /\ Len(part) = (IF i <= n THEN n - i + 1 ELSE 0)
      /\ \A k \in 1 .. Len(part) : part[k] = t[i + k - 1]
  BY <1>5, <1>6 DEF part
<1>9. (j <= Len(t) => Len(part) = j - i + 1) /\ (j > Len(t) => Len(part) < j - i + 1)
  BY <1>1, <1>2, <1>3, <1>8
<1> QED BY <1>7, <1>8, <1>9

(* what Escape does, by the characters it looks at *)
NoEscape == [bytes |-> <<>>, length |-> 0]
(* Escape, decided by the characters it looks at one after the other *)
LEMMA EscapeCases ==
  ASSUME NEW t \in Seq(Nat)
  PROVE  LET cp1 == LX!get_codepoint(Slice(t, 2, 5))
             cp2 == LX!get_codepoint(Slice(t, 8, 11))
         IN  LX!Escape(t) =
               IF t = <<>> THEN NoEscape
               ELSE IF t[1] \in {34, 92, 47} THEN [bytes |-> <<t[1]>>, length |-> 1]
               ELSE IF \E c \in LX!Named : t[1] = LX!Letter(c)
                    THEN [bytes |-> <<LX!Unnamed(t[1])>>, length |-> 1]
               ELSE IF t[1] # 117 \/ cp1 = -1 \/ LX!IsLowSurrogate(cp1) THEN NoEscape
               ELSE IF ~LX!IsHighSurrogate(cp1) THEN [bytes |-> LX!Utf8(cp1), length |-> 5]
               ELSE IF Slice(t, 6, 7) # <<92, 117>> \/ ~LX!IsLowSurrogate(cp2) THEN NoEscape
               ELSE [bytes |-> LX!Utf8(cp1 * 1024 + cp2 - 56613888), length |-> 11]
  BY SMT DEF LX!Escape, Slice, NoEscape, LX!Quote, LX!Backslash

(* the letters behind a backslash that stand for control characters *)
LEMMA EscapeLetters ==
  /\ LX!Named = {8, 9, 10, 12, 13}
  /\ LX!Letter(8) = 98 /\ LX!Letter(12) = 102 /\ LX!Letter(10) = 110 /\ LX!Letter(13) = 114
  /\ LX!Letter(9) = 116
  BY SMT DEF LX!Named, LX!Letter

(* the letter that dump_escaped writes is read as the control character again *)
LEMMA NamedLetters ==
  ASSUME NEW c \in LX!Named
  PROVE  LX!Letter(c) \in Nat /\ LX!Letter(c) < 117 /\ LX!Letter(c) > 92 /\ LX!Unnamed(LX!Letter(c)) = c
<1>1. LX!Letter(c) \in Nat /\ LX!Letter(c) < 117 /\ LX!Letter(c) > 92
  BY EscapeLetters, SMT
<1>2. \A d \in LX!Named : LX!Letter(c) = LX!Letter(d) => d = c
  BY EscapeLetters, SMT
<1>3. LX!Unnamed(LX!Letter(c)) = c
  BY <1>2, Zenon DEF LX!Unnamed
<1> QED BY <1>1, <1>3

(* an escape is no longer than what is left *)
LEMMA EscapeEnds ==
  ASSUME NEW t \in Seq(Nat)
  PROVE  /\ LX!Escape(t).length \in Nat /\ LX!Escape(t).length <= Len(t)
         /\ LX!Escape(t).bytes \in Seq(Nat)
<1> DEFINE cp1 == LX!get_codepoint(Slice(t, 2, 5))
           cp2 == LX!get_codepoint(Slice(t, 8, 11))
           e == LX!Escape(t)
<1>1. e = IF t = <<>> THEN NoEscape
          ELSE IF t[1] \in {34, 92, 47} THEN [bytes |-> <<t[1]>>, length |-> 1]
          ELSE IF \E c \in LX!Named : t[1] = LX!Letter(c)
               THEN [bytes |-> <<LX!Unnamed(t[1])>>, length |-> 1]
          ELSE IF t[1] # 117 \/ cp1 = -1 \/ LX!IsLowSurrogate(cp1) THEN NoEscape
          ELSE IF ~LX!IsHighSurrogate(cp1) THEN [bytes |-> LX!Utf8(cp1), length |-> 5]
          ELSE IF Slice(t, 6, 7) # <<92, 117>> \/ ~LX!IsLowSurrogate(cp2) THEN NoEscape
          ELSE [bytes |-> LX!Utf8(cp1 * 1024 + cp2 - 56613888), length |-> 11]
  BY EscapeCases, SMT
<1>2. Len(t) \in Nat /\ (t # <<>> => Len(t) >= 1 /\ t[1] \in Nat)
  <2>1. t # <<>> => Len(t) >= 1
    BY LenProperties
  <2>2. Len(t) >= 1 => t[1] \in Nat
    BY LenProperties, ElementOfSeq
  <2> QED BY <2>1, <2>2, LenProperties
<1>3. cp1 = -1 \/ (cp1 \in Nat /\ cp1 < 65536 /\ Len(t) >= 5)
  <2>1. Slice(t, 2, 5) \in Seq(Nat) /\ (5 > Len(t) => Len(Slice(t, 2, 5)) < 4)
    BY Slices, SMT
  <2> QED BY <1>2, <2>1, CodePoints16, SMT
<1>4. cp2 = -1 \/ (cp2 \in Nat /\ cp2 < 65536 /\ Len(t) >= 11)
  <2>1. Slice(t, 8, 11) \in Seq(Nat) /\ (11 > Len(t) => Len(Slice(t, 8, 11)) < 4)
    BY Slices, SMT
  <2> QED BY <1>2, <2>1, CodePoints16, SMT
<1> HIDE DEF cp1, cp2
<1> DEFINE Fine(r) == r.length \in Nat /\ r.length <= Len(t) /\ r.bytes \in Seq(Nat)
<1>5. Fine(NoEscape)
  BY <1>2 DEF NoEscape
<1>6. ASSUME NEW c \in Nat, t # <<>> PROVE Fine([bytes |-> <<c>>, length |-> 1])
  BY <1>2, <1>6
<1>7. ASSUME NEW c \in LX!Named, t[1] = LX!Letter(c) PROVE LX!Unnamed(t[1]) \in Nat
  <2>1. c \in Nat
    BY EscapeLetters, SMT
  <2> QED BY <1>7, <2>1, NamedLetters
<1>8. ASSUME cp1 # -1 PROVE Fine([bytes |-> LX!Utf8(cp1), length |-> 5])
  <2>1. cp1 \in Nat /\ cp1 <= 1114111 /\ Len(t) >= 5
    BY <1>3, <1>8, SMT
  <2>2. LX!Utf8(cp1) \in Seq(ByteValue)
    BY <2>1, ValueOfUtf8, SMT
  <2>3. LX!Utf8(cp1) \in Seq(Nat)
    BY <2>2, SeqMonotonic DEF ByteValue, Below
  <2> QED BY <1>2, <2>1, <2>3, SMT
<1>9. ASSUME cp1 # -1, LX!IsHighSurrogate(cp1), LX!IsLowSurrogate(cp2)
      PROVE  Fine([bytes |-> LX!Utf8(cp1 * 1024 + cp2 - 56613888), length |-> 11])
  <2> DEFINE cp == cp1 * 1024 + cp2 - 56613888
  <2>0. /\ cp1 \in Nat /\ 55296 <= cp1 /\ cp1 <= 56319
        /\ cp2 \in Nat /\ 56320 <= cp2 /\ cp2 <= 57343 /\ Len(t) >= 11
    <3>1. 55296 <= cp1 /\ cp1 <= 56319 /\ 56320 <= cp2 /\ cp2 <= 57343
      BY <1>9 DEF LX!IsHighSurrogate, LX!IsLowSurrogate
    <3> QED BY <1>3, <1>4, <3>1, SMT
  <2>1. cp \in Nat /\ cp <= 1114111 /\ Len(t) >= 11
    BY <2>0, SMT
  <2> HIDE DEF cp
  <2>2. LX!Utf8(cp) \in Seq(ByteValue)
    BY <2>1, ValueOfUtf8, SMT
  <2>3. LX!Utf8(cp) \in Seq(Nat)
    BY <2>2, SeqMonotonic DEF ByteValue, Below
  <2>4. Fine([bytes |-> LX!Utf8(cp), length |-> 11])
    BY <1>2, <2>1, <2>3, SMT
  <2> QED BY <2>4 DEF cp
<1> HIDE DEF Fine, e
<1>10. Fine(e)
  BY <1>1, <1>2, <1>5, <1>6, <1>7, <1>8, <1>9, SMT
<1> QED BY <1>10 DEF Fine, e

(* a character is no longer than what is left *)
LEMMA CharEnds ==
  ASSUME NEW t \in Seq(Nat), t # <<>>
  PROVE  LX!CharLength(t) \in Nat /\ LX!CharLength(t) <= Len(t)
<1>1. Len(t) \in Nat /\ Len(t) >= 1
  BY LenProperties
<1> QED BY <1>1, SMT DEF LX!CharLength

(***************************************************************************)
(* scan_string as a recursive function on what is left                     *)
(***************************************************************************)

(* the last k characters, and what is read at their front: how much, and   *)
(* what it stands for                                                      *)
Rest(s, k) == LX!drop_front(s, Len(s) - k)
ReadLength(s, k) ==
  IF Rest(s, k)[1] = 92
  THEN LET l == LX!Escape(Tail(Rest(s, k))).length IN IF l = 0 THEN 0 ELSE 1 + l
  ELSE LX!CharLength(Rest(s, k))
ReadBytes(s, k) ==
  IF Rest(s, k)[1] = 92 THEN LX!Escape(Tail(Rest(s, k))).bytes
  ELSE LX!take_front(Rest(s, k), LX!CharLength(Rest(s, k)))

(* scan_string in rounds: the result from the one behind the character *)
ScanResults == [ok : BOOLEAN, str : Seq(Nat)]
Unscanned == [ok |-> FALSE, str |-> <<>>]
AfterBytes(bytes, others) ==
  IF others.ok THEN [ok |-> TRUE, str |-> bytes \o others.str] ELSE Unscanned
ScanRound(s, k, f) ==
  IF k = 0 THEN Unscanned
  ELSE IF Rest(s, k)[1] = 34 THEN [ok |-> TRUE, str |-> <<>>]
  ELSE IF ReadLength(s, k) = 0 THEN Unscanned
  ELSE AfterBytes(ReadBytes(s, k), f[k - ReadLength(s, k)])
Scans(f, s) ==
  f \in [0 .. Len(s) -> ScanResults] /\ \A k \in 0 .. Len(s) : f[k] = ScanRound(s, k, f)

(* the characters of what is left *)
LEMMA RestIs ==
  ASSUME NEW s \in Seq(Nat), NEW k \in 0 .. Len(s)
  PROVE  /\ Rest(s, k) \in Seq(Nat) /\ Len(Rest(s, k)) = k
         /\ \A i \in 1 .. k : Rest(s, k)[i] = s[Len(s) - k + i]
<1>1. Len(s) \in Nat
  BY LenProperties
<1> DEFINE m == Len(s) - k + 1
           n == Len(s)
<1>2. m \in 1 .. Len(s) + 1 /\ n \in 0 .. Len(s) /\ m <= n + 1 /\ n - m + 1 = k
      /\ \A i \in 1 .. k : m + i - 1 = Len(s) - k + i
  BY <1>1
<1>3. Rest(s, k) = SubSeq(s, m, n)
  BY DEF Rest, LX!drop_front
<1> HIDE DEF m, n
<1>4. SubSeq(s, m, n) \in Seq(Nat) /\ Len(SubSeq(s, m, n)) = n - m + 1
      /\ \A i \in 1 .. n - m + 1 : SubSeq(s, m, n)[i] = s[m + i - 1]
  BY <1>2, CutString
<1> QED BY <1>2, <1>3, <1>4

(* the characters behind the first *)
LEMMA TailIs ==
  ASSUME NEW t \in Seq(Nat), Len(t) >= 1
  PROVE  Tail(t) \in Seq(Nat) /\ Len(Tail(t)) = Len(t) - 1 /\ \A i \in 1 .. Len(t) - 1 : Tail(t)[i] = t[i + 1]
<1>1. t # <<>>
  BY LenProperties
<1>2. Tail(t) \in Seq(Nat) /\ Len(Tail(t)) = Len(t) - 1 /\ \A i \in 1 .. Len(Tail(t)) : Tail(t)[i] = t[i + 1]
  BY <1>1, HeadTailProperties
<1> QED BY <1>2

(* scan_string reads no further than to the end *)
LEMMA ReadEnds ==
  ASSUME NEW s \in Seq(Nat), NEW k \in 1 .. Len(s)
  PROVE  /\ ReadLength(s, k) \in 0 .. k
         /\ ReadBytes(s, k) \in Seq(Nat)
<1> DEFINE t == Rest(s, k)
<1>1. Len(s) \in Nat /\ k \in 0 .. Len(s)
  BY LenProperties
<1>2. t \in Seq(Nat) /\ Len(t) = k /\ t # <<>>
  BY <1>1, RestIs, LenProperties
<1> HIDE DEF t
<1>3. Tail(t) \in Seq(Nat) /\ Len(Tail(t)) = k - 1
  BY <1>2, TailIs
<1>4. CASE t[1] = 92
  <2> DEFINE e == LX!Escape(Tail(t))
  <2>1. e.length \in Nat /\ e.length <= k - 1 /\ e.bytes \in Seq(Nat)
    BY <1>3, EscapeEnds
  <2> HIDE DEF e
  <2>2. ReadLength(s, k) = (IF e.length = 0 THEN 0 ELSE 1 + e.length) /\ ReadBytes(s, k) = e.bytes
    BY <1>4 DEF ReadLength, ReadBytes, t, e
  <2> QED BY <2>1, <2>2
<1>5. CASE t[1] # 92
  <2> DEFINE l == LX!CharLength(t)
  <2>1. l \in Nat /\ l <= k
    BY <1>2, CharEnds
  <2> HIDE DEF l
  <2>2. ReadLength(s, k) = l /\ ReadBytes(s, k) = SubSeq(t, 1, l)
    BY <1>5 DEF ReadLength, ReadBytes, LX!take_front, t, l
  <2>3. 1 \in 1 .. Len(t) + 1 /\ l \in 0 .. Len(t) /\ 1 <= l + 1
    BY <1>2, <2>1
  <2>4. SubSeq(t, 1, l) \in Seq(Nat)
    BY <1>2, <2>3, CutString
  <2> QED BY <2>1, <2>2, <2>4
<1> QED BY <1>4, <1>5

(* a round gives a result, from the one at a smaller place *)
LEMMA ScanRounds ==
  ASSUME NEW s \in Seq(Nat), NEW k \in 0 .. Len(s), NEW f, NEW g,
         \A i \in 0 .. k - 1 : f[i] = g[i] /\ f[i] \in ScanResults
  PROVE  ScanRound(s, k, f) = ScanRound(s, k, g) /\ ScanRound(s, k, f) \in ScanResults
<1>1. Len(s) \in Nat
  BY LenProperties
<1>2. Unscanned \in ScanResults /\ [ok |-> TRUE, str |-> <<>>] \in ScanResults
  BY DEF ScanResults, Unscanned
<1>3. CASE k = 0 \/ Rest(s, k)[1] = 34 \/ ReadLength(s, k) = 0
  BY <1>2, <1>3 DEF ScanRound
<1>4. CASE ~ (k = 0 \/ Rest(s, k)[1] = 34 \/ ReadLength(s, k) = 0)
  <2> DEFINE j == k - ReadLength(s, k)
             bytes == ReadBytes(s, k)
  <2>1. k \in 1 .. Len(s)
    BY <1>1, <1>4
  <2>2. ReadLength(s, k) \in 0 .. k /\ bytes \in Seq(Nat)
    BY <2>1, ReadEnds
  <2>3. j \in 0 .. k - 1
    BY <1>4, <2>1, <2>2
  <2>4. ScanRound(s, k, f) = AfterBytes(bytes, f[j]) /\ ScanRound(s, k, g) = AfterBytes(bytes, g[j])
    BY <1>4 DEF ScanRound
  <2> HIDE DEF j, bytes
  <2>5. f[j] = g[j] /\ f[j] \in ScanResults
    BY <2>3
  <2>6. AfterBytes(bytes, f[j]) \in ScanResults
    <3>1. f[j].str \in Seq(Nat)
      BY <2>5 DEF ScanResults
    <3>2. bytes \o f[j].str \in Seq(Nat)
      BY <2>2, <3>1, ConcatProperties
    <3>3. [ok |-> TRUE, str |-> bytes \o f[j].str] \in ScanResults
      BY <3>2 DEF ScanResults
    <3> QED BY <1>2, <3>3 DEF AfterBytes
  <2> QED BY <2>4, <2>5, <2>6
<1> QED BY <1>3, <1>4

(* ScanString is a recursive function on what is left, which exists *)
LEMMA StringScans ==
  ASSUME NEW s \in Seq(Nat)
  PROVE  \E f : Scans(f, s) /\ LX!ScanString(s) = f[Len(s)]
<1> DEFINE n == Len(s)
           Is(f) == f = [k \in 0 .. n |-> ScanRound(s, k, f)]
           from == CHOOSE f : Is(f)
           step == [k \in 0 .. n |-> [f \in [0 .. k - 1 -> ScanResults] |-> ScanRound(s, k, f)]]
<1>1. n \in Nat
  BY LenProperties
<1> HIDE DEF n
<1>2. \A k \in 0 .. n : \A f \in [0 .. k - 1 -> ScanResults] :
        step[k][f] = ScanRound(s, k, f) /\ ScanRound(s, k, f) \in ScanResults
  <2> SUFFICES ASSUME NEW k \in 0 .. n, NEW f \in [0 .. k - 1 -> ScanResults]
               PROVE  ScanRound(s, k, f) \in ScanResults
    BY Zenon
  <2>1. \A i \in 0 .. k - 1 : f[i] \in ScanResults
    OBVIOUS
  <2> QED BY <2>1, ScanRounds DEF n
<1>3. \E f : Recurs(f, step, n, ScanResults)
  <2> HIDE DEF step
  <2>1. StepsIn(step, n, ScanResults)
    BY <1>2 DEF StepsIn
  <2> QED BY <1>1, <2>1, Recursion
<1>4. PICK f \in [0 .. n -> ScanResults] : \A k \in 0 .. n : f[k] = step[k][Earlier(f, k)]
  <2> HIDE DEF step
  <2> QED BY <1>3 DEF Recurs
<1>5. \A k \in 0 .. n : f[k] = ScanRound(s, k, f)
  <2> SUFFICES ASSUME NEW k \in 0 .. n PROVE f[k] = ScanRound(s, k, f)
    OBVIOUS
  <2>1. \A i \in 0 .. k - 1 : i \in 0 .. n
    BY <1>1
  <2>2. \A i \in 0 .. k - 1 : f[i] = Earlier(f, k)[i] /\ f[i] \in ScanResults
    BY <2>1 DEF Earlier
  <2>3. Earlier(f, k) \in [0 .. k - 1 -> ScanResults]
    BY <2>2 DEF Earlier
  <2>4. f[k] = ScanRound(s, k, Earlier(f, k))
    <3> HIDE DEF step
    <3> QED BY <1>2, <1>4, <2>3
  <2>5. ScanRound(s, k, f) = ScanRound(s, k, Earlier(f, k))
    BY <2>2, ScanRounds DEF n
  <2> QED BY <2>4, <2>5
<1>6. Is(f)
  BY <1>4, <1>5
<1>7. Is(from)
  <2> HIDE DEF Is
  <2> QED BY <1>6
<1>8. LX!ScanString(s) = from[n]
  <2> DEFINE Own(g) == g = [k \in 0 .. n |->
        LET rest == LX!drop_front(s, n - k)
            escape == LX!Escape(Tail(rest))
        IN  IF k = 0 THEN Unscanned
            ELSE IF rest[1] = 34 THEN [ok |-> TRUE, str |-> <<>>]
            ELSE IF rest[1] = 92
                 THEN IF escape.length = 0 THEN Unscanned
                      ELSE AfterBytes(escape.bytes, g[k - 1 - escape.length])
            ELSE IF LX!CharLength(rest) = 0 THEN Unscanned
            ELSE AfterBytes(LX!take_front(rest, LX!CharLength(rest)), g[k - LX!CharLength(rest)])]
  <2>1. LX!ScanString(s) = (CHOOSE g : Own(g))[n]
    BY Zenon DEF LX!ScanString, n, Unscanned, AfterBytes, LX!Quote, LX!Backslash
  <2>2. \A g : Own(g) <=> Is(g)
    <3> SUFFICES ASSUME NEW g PROVE Own(g) <=> Is(g)
      OBVIOUS
    <3> DEFINE Round(k) ==
          LET rest == LX!drop_front(s, n - k)
              escape == LX!Escape(Tail(rest))
          IN  IF k = 0 THEN Unscanned
              ELSE IF rest[1] = 34 THEN [ok |-> TRUE, str |-> <<>>]
              ELSE IF rest[1] = 92
                   THEN IF escape.length = 0 THEN Unscanned
                        ELSE AfterBytes(escape.bytes, g[k - 1 - escape.length])
              ELSE IF LX!CharLength(rest) = 0 THEN Unscanned
              ELSE AfterBytes(LX!take_front(rest, LX!CharLength(rest)), g[k - LX!CharLength(rest)])
    <3>1. ASSUME NEW k \in 0 .. n PROVE Round(k) = ScanRound(s, k, g)
      <4> DEFINE t == Rest(s, k)
                 e == LX!Escape(Tail(t))
      <4>1. t = LX!drop_front(s, n - k)
        BY DEF Rest, n
      <4>2. CASE k = 0
        BY <4>2 DEF ScanRound
      <4>3. CASE k # 0
        <5>1. t \in Seq(Nat) /\ Len(t) = k /\ k \in 1 .. n
          BY <1>1, <4>3, RestIs DEF n
        <5>2. Tail(t) \in Seq(Nat)
          BY <5>1, TailIs
        <5>3. e.length \in Nat
          BY <5>2, EscapeEnds
        <5> HIDE DEF t, e
        <5>4. k - 1 - e.length = k - (1 + e.length) /\ (e.length # 0 => 1 + e.length # 0)
          BY <5>1, <5>3
        <5>5. Round(k) = IF t[1] = 34 THEN [ok |-> TRUE, str |-> <<>>]
                         ELSE IF t[1] = 92
                              THEN IF e.length = 0 THEN Unscanned
                                   ELSE AfterBytes(e.bytes, g[k - 1 - e.length])
                         ELSE IF LX!CharLength(t) = 0 THEN Unscanned
                         ELSE AfterBytes(LX!take_front(t, LX!CharLength(t)), g[k - LX!CharLength(t)])
          BY <4>1, <4>3, Zenon DEF e
        <5>6. ScanRound(s, k, g) = IF t[1] = 34 THEN [ok |-> TRUE, str |-> <<>>]
                                   ELSE IF ReadLength(s, k) = 0 THEN Unscanned
                                   ELSE AfterBytes(ReadBytes(s, k), g[k - ReadLength(s, k)])
          BY <4>3, Zenon DEF ScanRound, t
        <5>7. ReadLength(s, k) = IF t[1] = 92 THEN (IF e.length = 0 THEN 0 ELSE 1 + e.length)
                                 ELSE LX!CharLength(t)
          BY Zenon DEF ReadLength, t, e
        <5>8. ReadBytes(s, k) = IF t[1] = 92 THEN e.bytes ELSE LX!take_front(t, LX!CharLength(t))
          BY Zenon DEF ReadBytes, t, e
        <5> HIDE DEF Round
        <5>9. CASE t[1] = 92
          BY <5>4, <5>5, <5>6, <5>7, <5>8, <5>9
        <5>10. CASE t[1] # 92
          BY <5>5, <5>6, <5>7, <5>8, <5>10
        <5> QED BY <5>9, <5>10
      <4> QED BY <4>2, <4>3
    <3>2. Own(g) <=> g = [k \in 0 .. n |-> Round(k)]
      BY Zenon
    <3> HIDE DEF Round, Own
    <3>3. [k \in 0 .. n |-> Round(k)] = [k \in 0 .. n |-> ScanRound(s, k, g)]
      BY <3>1, Zenon
    <3> QED BY <3>2, <3>3, Zenon
  <2> HIDE DEF Own, Is
  <2>3. (CHOOSE g : Own(g)) = (CHOOSE g : Is(g))
    BY <2>2, Zenon
  <2> QED BY <2>1, <2>3, Zenon
<1> HIDE DEF from
<1>9. from \in [0 .. n -> ScanResults] /\ \A k \in 0 .. n : from[k] = ScanRound(s, k, from)
  <2>1. DOMAIN from = 0 .. n /\ from = [k \in 0 .. n |-> from[k]] /\ \A k \in 0 .. n : from[k] = ScanRound(s, k, from)
    BY <1>7
  <2> HIDE DEF Is
  <2>2. ASSUME NEW k \in 0 .. n PROVE from[k] \in ScanResults
    <3> DEFINE back == {i \in Int : from[n - i] \in ScanResults}
    <3>1. \A i \in 0 .. n : (\A j \in i + 1 .. n : j \in back) => i \in back
      <4> SUFFICES ASSUME NEW i \in 0 .. n, \A j \in i + 1 .. n : j \in back PROVE i \in back
        OBVIOUS
      <4>1. n - i \in 0 .. n /\ i \in Int
        BY <1>1
      <4>2. \A m \in 0 .. n - i - 1 : from[m] \in ScanResults
        <5> SUFFICES ASSUME NEW m \in 0 .. n - i - 1 PROVE from[m] \in ScanResults
          OBVIOUS
        <5>1. n - m \in i + 1 .. n /\ n - (n - m) = m
          BY <1>1
        <5> QED BY <5>1
      <4>3. ScanRound(s, n - i, from) \in ScanResults
        BY <4>1, <4>2, ScanRounds DEF n
      <4> QED BY <2>1, <4>1, <4>3
    <3> HIDE DEF back
    <3>2. 0 \in Int /\ n \in Int
      BY <1>1
    <3>3. \A i \in 0 .. n : i \in back
      BY <3>1, <3>2, FromBehind
    <3>4. n - k \in 0 .. n /\ n - (n - k) = k
      BY <1>1
    <3> QED BY <3>3, <3>4 DEF back
  <2> QED BY <2>1, <2>2
<1> QED BY <1>8, <1>9 DEF Scans, n

(***************************************************************************)
(* Well-formed strings                                                     *)
(***************************************************************************)

(* well-formed bytes, from the well-formed ones in front of the last *)
IsChar(b) == LX!IsScalar(LX!Value(b)) /\ LX!Shortest(b)
FormRound(s, k, to) ==
  k = 0 \/ \E l \in 1 .. 4 : l <= k /\ to[k - l] /\ IsChar(SubSeq(s, k - l + 1, k))
Forms(to, s) ==
  to \in [0 .. Len(s) -> BOOLEAN] /\ \A k \in 0 .. Len(s) : to[k] <=> FormRound(s, k, to)

(* two truth values *)
LEMMA SameTruth ==
  ASSUME NEW a \in BOOLEAN, NEW b \in BOOLEAN, a <=> b
  PROVE  a = b
OBVIOUS

(* WellFormed is a recursive function on what precedes, which exists *)
LEMMA StringForms ==
  ASSUME NEW s \in Seq(Nat)
  PROVE  \E to : Forms(to, s) /\ (LX!WellFormed(s) <=> to[Len(s)])
<1> DEFINE n == Len(s)
           Is(to) == to = [k \in 0 .. n |-> FormRound(s, k, to)]
           Own(to) == to = [k \in 0 .. n |->
             k = 0 \/ \E l \in 1 .. LX!Min({4, k}) :
               LET b == SubSeq(s, k - l + 1, k) IN
               to[k - l] /\ LX!IsScalar(LX!Value(b)) /\ LX!Shortest(b)]
           step == [k \in 0 .. n |-> [to \in [0 .. k - 1 -> BOOLEAN] |-> FormRound(s, k, to)]]
<1>1. n \in Nat
  BY LenProperties
<1> HIDE DEF n
<1>2. \A k \in 0 .. n : \A to \in [0 .. k - 1 -> BOOLEAN] :
        step[k][to] = FormRound(s, k, to) /\ FormRound(s, k, to) \in BOOLEAN
  BY Zenon DEF FormRound
<1>3. \E to : Recurs(to, step, n, BOOLEAN)
  <2> HIDE DEF step
  <2>1. StepsIn(step, n, BOOLEAN)
    BY <1>2, Zenon DEF StepsIn
  <2> QED BY <1>1, <2>1, Recursion
<1>4. PICK to \in [0 .. n -> BOOLEAN] : \A k \in 0 .. n : to[k] = step[k][Earlier(to, k)]
  <2> HIDE DEF step
  <2> QED BY <1>3, Zenon DEF Recurs
<1>5. \A k \in 0 .. n : to[k] = FormRound(s, k, to)
  <2> SUFFICES ASSUME NEW k \in 0 .. n PROVE to[k] = FormRound(s, k, to)
    OBVIOUS
  <2>1. \A i \in 0 .. k - 1 : i \in 0 .. n
    BY <1>1
  <2>2. \A i \in 0 .. k - 1 : Earlier(to, k)[i] = to[i] /\ to[i] \in BOOLEAN
    BY <2>1, Zenon DEF Earlier
  <2>3. Earlier(to, k) \in [0 .. k - 1 -> BOOLEAN]
    BY <2>2, Zenon DEF Earlier
  <2>4. to[k] = FormRound(s, k, Earlier(to, k))
    <3> HIDE DEF step
    <3> QED BY <1>2, <1>4, <2>3, Zenon
  <2>5. FormRound(s, k, Earlier(to, k)) <=> FormRound(s, k, to)
    <3>1. \A l \in 1 .. 4 : l <= k => k - l \in 0 .. k - 1
      BY <1>1
    <3>2. \A l \in 1 .. 4 : l <= k => (Earlier(to, k)[k - l] <=> to[k - l])
      BY <2>2, <3>1, Zenon
    <3> QED BY <3>2, Zenon DEF FormRound
  <2>6. FormRound(s, k, Earlier(to, k)) \in BOOLEAN /\ FormRound(s, k, to) \in BOOLEAN
    BY Zenon DEF FormRound
  <2> QED BY <2>4, <2>5, <2>6, Zenon
<1>6. Is(to)
  BY <1>4, <1>5, Zenon
<1>7. \A g : Own(g) <=> Is(g)
  <2> SUFFICES ASSUME NEW g PROVE Own(g) <=> Is(g)
    OBVIOUS
  <2> DEFINE Round(k) ==
        k = 0 \/ \E l \in 1 .. LX!Min({4, k}) :
          LET b == SubSeq(s, k - l + 1, k) IN
          g[k - l] /\ LX!IsScalar(LX!Value(b)) /\ LX!Shortest(b)
  <2>1. ASSUME NEW k \in 0 .. n PROVE Round(k) = FormRound(s, k, g)
    <3>1. \A l : l \in 1 .. LX!Min({4, k}) <=> l \in 1 .. 4 /\ l <= k
      <4>1. k \in Nat /\ LX!Min({4, k}) = IF 4 <= k THEN 4 ELSE k
        BY <1>1, EndOfSlice
      <4> QED BY <4>1
    <3> DEFINE ends == 1 .. LX!Min({4, k})
    <3> HIDE DEF ends
    <3>2. \A l : l \in ends <=> l \in 1 .. 4 /\ l <= k
      BY <3>1 DEF ends
    <3>3. Round(k) <=> FormRound(s, k, g)
      BY <3>2, Zenon DEF FormRound, IsChar, ends
    <3>4. Round(k) \in BOOLEAN /\ FormRound(s, k, g) \in BOOLEAN
      BY Zenon DEF FormRound
    <3> HIDE DEF Round
    <3> QED BY <3>3, <3>4, SameTruth, Zenon
  <2>2. Own(g) <=> g = [k \in 0 .. n |-> Round(k)]
    BY Zenon
  <2> HIDE DEF Round, Own
  <2>3. [k \in 0 .. n |-> Round(k)] = [k \in 0 .. n |-> FormRound(s, k, g)]
    BY <2>1, Zenon
  <2> QED BY <2>2, <2>3, Zenon
<1> DEFINE from == CHOOSE g : Is(g)
<1>8. LX!WellFormed(s) <=> from[n]
  <2>1. LX!WellFormed(s) <=> (CHOOSE g : Own(g))[n]
    BY Zenon DEF LX!WellFormed, n
  <2> HIDE DEF Own, Is
  <2>2. (CHOOSE g : Own(g)) = (CHOOSE g : Is(g))
    BY <1>7, Zenon
  <2> QED BY <2>1, <2>2, Zenon
<1>9. Is(from)
  <2> HIDE DEF Is
  <2> QED BY <1>6, Zenon
<1> HIDE DEF from
<1>10. from \in [0 .. n -> BOOLEAN] /\ \A k \in 0 .. n : from[k] <=> FormRound(s, k, from)
  <2>1. \A k \in 0 .. n : FormRound(s, k, from) \in BOOLEAN
    BY Zenon DEF FormRound
  <2> QED BY <1>9, <2>1, Zenon
<1> QED BY <1>8, <1>10, Zenon DEF Forms, n

(* one character is a well-formed string *)
LEMMA CharIsWellFormed ==
  ASSUME NEW s \in Seq(Nat), Len(s) \in 1 .. 4, IsChar(s)
  PROVE  LX!WellFormed(s)
<1> DEFINE n == Len(s)
<1>1. PICK to : Forms(to, s) /\ (LX!WellFormed(s) <=> to[n])
  BY StringForms
<1>2. 0 \in 0 .. n /\ n \in 0 .. n /\ n <= n /\ n - n = 0 /\ n - n + 1 = 1
  OBVIOUS
<1>3. SubSeq(s, n - n + 1, n) = s
  BY <1>2, SubSeqFull
<1>4. to[0] <=> FormRound(s, 0, to)
  BY <1>1, <1>2, Zenon DEF Forms
<1>5. to[n] <=> FormRound(s, n, to)
  BY <1>1, <1>2, Zenon DEF Forms
<1>6. to[0]
  BY <1>4, Zenon DEF FormRound
<1> HIDE DEF n
<1>7. n \in 1 .. 4 /\ n <= n /\ to[n - n] /\ IsChar(SubSeq(s, n - n + 1, n))
  BY <1>2, <1>3, <1>6, Zenon DEF n
<1>8. to[n]
  BY <1>5, <1>7, Zenon DEF FormRound
<1> QED BY <1>1, <1>8, Zenon DEF n

(***************************************************************************)
(* Parts of a text                                                         *)
(***************************************************************************)

(* texts and strings, of any numbers *)
Text == Seq(Nat)

(* the characters of a concatenation *)
LEMMA Joined ==
  ASSUME NEW a \in Text, NEW b \in Text
  PROVE  /\ a \o b \in Text /\ Len(a \o b) = Len(a) + Len(b)
         /\ Len(a) \in Nat /\ Len(b) \in Nat
         /\ \A i \in 1 .. Len(a) : (a \o b)[i] = a[i]
         /\ \A i \in 1 .. Len(b) : (a \o b)[Len(a) + i] = b[i]
<1>1. Len(a) \in Nat /\ Len(b) \in Nat
  BY LenProperties DEF Text
<1> DEFINE x == a \o b
<1>2. x \in Seq(Nat) /\ Len(x) = Len(a) + Len(b)
      /\ \A i \in 1 .. Len(a) + Len(b) : x[i] = IF i <= Len(a) THEN a[i] ELSE b[i - Len(a)]
  BY ConcatProperties DEF Text
<1> HIDE DEF x
<1>3. ASSUME NEW i \in 1 .. Len(a) PROVE x[i] = a[i]
  BY <1>1, <1>2, SMT
<1>4. ASSUME NEW i \in 1 .. Len(b) PROVE x[Len(a) + i] = b[i]
  <2> DEFINE j == Len(a) + i
  <2>1. j \in 1 .. Len(a) + Len(b) /\ ~(j <= Len(a)) /\ j - Len(a) = i
    BY <1>1, SMT
  <2> HIDE DEF j
  <2>2. x[j] = b[i]
    BY <1>2, <2>1, SMT
  <2> QED BY <2>2 DEF j
<1> QED BY <1>1, <1>2, <1>3, <1>4 DEF x, Text

(* a concatenation of three texts *)
LEMMA Reassociated ==
  \A a, b, c \in Seq(Nat) : (a \o b) \o c = a \o (b \o c)
  BY ConcatAssociative, SMTT(30)

(* a text of one character *)
LEMMA OneCharacter ==
  ASSUME NEW c \in Nat
  PROVE  <<c>> \in Text /\ Len(<<c>>) = 1 /\ <<c>>[1] = c
  BY SMT DEF Text

(* a text of two characters *)
LEMMA TwoCharacters ==
  ASSUME NEW c \in Nat, NEW d \in Nat
  PROVE  /\ <<c, d>> \in Text /\ Len(<<c, d>>) = 2
         /\ <<c, d>> = <<c>> \o <<d>>
<1>1. <<c, d>> \in Text /\ Len(<<c, d>>) = 2
  BY SMT DEF Text
<1>2. <<c, d>> = <<c>> \o <<d>>
  <2> DEFINE x == <<c, d>>
             p == <<c>>
             q == <<d>>
             y == p \o q
  <2>1. /\ p \in Text /\ Len(p) = 1 /\ p[1] = c
        /\ q \in Text /\ Len(q) = 1 /\ q[1] = d
    BY OneCharacter
  <2>2. x[1] = c /\ x[2] = d /\ x \in Seq(Nat) /\ Len(x) = 2
    BY SMT
  <2> HIDE DEF x, p, q
  <2>3. /\ y \in Text /\ Len(y) = Len(p) + Len(q)
        /\ (\A i \in 1 .. Len(p) : y[i] = p[i]) /\ \A i \in 1 .. Len(q) : y[Len(p) + i] = q[i]
    BY <2>1, Joined
  <2> HIDE DEF y
  <2>4. y \in Seq(Nat) /\ Len(y) = 2 /\ y[1] = c /\ y[2] = d
    BY <2>1, <2>3, SMT DEF Text
  <2>5. \A i \in 1 .. Len(x) : x[i] = y[i]
    BY <2>2, <2>4, SMT
  <2>6. x = y
    BY <2>2, <2>4, <2>5, SeqEqual, Zenon
  <2> QED BY <2>6 DEF x, y, p, q
<1> QED BY <1>1, <1>2

(* a text behind one character *)
LEMMA TextBehind ==
  ASSUME NEW c \in Nat, NEW t \in Text
  PROVE  /\ <<c>> \o t \in Text /\ Len(<<c>> \o t) = Len(t) + 1
         /\ (<<c>> \o t)[1] = c /\ Tail(<<c>> \o t) = t
<1> DEFINE x == <<c>>
           s == x \o t
           r == Tail(s)
<1>1. x \in Text /\ Len(x) = 1 /\ x[1] = c
  BY OneCharacter
<1> HIDE DEF x
<1>2. /\ s \in Text /\ Len(s) = Len(x) + Len(t) /\ Len(t) \in Nat
      /\ (\A i \in 1 .. Len(x) : s[i] = x[i]) /\ \A i \in 1 .. Len(t) : s[Len(x) + i] = t[i]
  BY <1>1, Joined
<1> HIDE DEF s
<1>3. s[1] = c /\ \A i \in 1 .. Len(t) : s[1 + i] = t[i]
  <2>1. 1 \in 1 .. Len(x)
    BY <1>1, SMT
  <2> QED BY <1>1, <1>2, <2>1
<1>4. Len(s) >= 1 /\ Len(s) - 1 = Len(t)
  BY <1>1, <1>2, SMT
<1>5. r \in Text /\ Len(r) = Len(t) /\ \A i \in 1 .. Len(t) : r[i] = s[i + 1]
  BY <1>2, <1>4, TailIs DEF Text
<1> HIDE DEF r
<1>6. \A i \in 1 .. Len(r) : r[i] = t[i]
  BY <1>2, <1>3, <1>5, SMT
<1>7. r = t
  <2>1. r \in Seq(Nat) /\ t \in Seq(Nat) /\ Len(r) = Len(t)
    BY <1>5 DEF Text
  <2> QED BY <1>6, <2>1, SeqEqual, Zenon
<1>8. Len(s) = Len(t) + 1
  BY <1>1, <1>2, SMT
<1> QED BY <1>2, <1>3, <1>7, <1>8 DEF r, s, x

(* a part of a text, cut out again *)
LEMMA PartIsText ==
  ASSUME NEW a \in Text, NEW b \in Text, NEW c \in Text, Len(b) > 0,
         NEW i \in Nat, NEW j \in Nat, i = Len(a) + 1, j = Len(a) + Len(b)
  PROVE  Slice((a \o b) \o c, i, j) = b
<1> DEFINE x == a \o b
           t == x \o c
           p == Slice(t, i, j)
<1>1. /\ x \in Text /\ Len(x) = Len(a) + Len(b) /\ Len(a) \in Nat /\ Len(b) \in Nat
      /\ \A k \in 1 .. Len(b) : x[Len(a) + k] = b[k]
  BY Joined
<1> HIDE DEF x
<1>2. /\ t \in Text /\ Len(t) = Len(x) + Len(c) /\ Len(c) \in Nat
      /\ \A k \in 1 .. Len(x) : t[k] = x[k]
  BY <1>1, Joined
<1> HIDE DEF t
<1>3. 1 <= i /\ i <= j /\ j <= Len(t) /\ Len(b) = j - i + 1
  BY <1>1, <1>2, SMT
<1>4. p \in Seq(Nat) /\ Len(p) = j - i + 1 /\ \A k \in 1 .. Len(p) : p[k] = t[i + k - 1]
  <2>1. t \in Seq(Nat)
    BY <1>2 DEF Text
  <2>2. /\ Slice(t, i, j) \in Seq(Nat)
        /\ j <= Len(t) => Len(Slice(t, i, j)) = j - i + 1
        /\ \A k \in 1 .. Len(Slice(t, i, j)) : Slice(t, i, j)[k] = t[i + k - 1]
    BY <1>3, <2>1, Slices, Zenon
  <2> QED BY <1>3, <2>2, Zenon
<1> HIDE DEF p
<1>5. \A k \in 1 .. Len(p) : p[k] = b[k]
  <2> SUFFICES ASSUME NEW k \in 1 .. Len(p) PROVE p[k] = b[k]
    OBVIOUS
  <2> DEFINE m == Len(a) + k
  <2>1. k \in 1 .. Len(b) /\ m \in 1 .. Len(x) /\ i + k - 1 = m
    BY <1>1, <1>3, <1>4, SMT
  <2>2. x[m] = b[k]
    BY <1>1, <2>1
  <2> HIDE DEF m
  <2>3. t[m] = x[m]
    BY <1>2, <2>1
  <2> QED BY <1>4, <2>1, <2>2, <2>3
<1>6. b \in Seq(Nat) /\ Len(p) = Len(b)
  BY <1>3, <1>4 DEF Text
<1>7. p = b
  BY <1>4, <1>5, <1>6, SeqEqual, Zenon
<1> QED BY <1>7 DEF p, t, x

(***************************************************************************)
(* The escape of a code point                                              *)
(***************************************************************************)

(* numbers of 16 bits *)
Word == Below(65536)

(* the four digits of a number are read as it *)
LEMMA HexText ==
  ASSUME NEW v \in Word
  PROVE  /\ LX!Hex4(v) \in Text /\ Len(LX!Hex4(v)) = 4
         /\ LX!get_codepoint(LX!Hex4(v)) = v
<1> DEFINE a == v \div 4096
           b == (v \div 256) % 16
           c == (v \div 16) % 16
           d == v % 16
           h == <<LX!hexdigit(a), LX!hexdigit(b), LX!hexdigit(c), LX!hexdigit(d)>>
<1>1. LX!Hex4(v) = h
  BY SMT DEF LX!Hex4
<1>0. v \in Nat /\ v < 65536
  BY SMT DEF Word, Below
<1>2. /\ a \in Nat /\ a < 16 /\ b \in Nat /\ b < 16 /\ c \in Nat /\ c < 16 /\ d \in Nat /\ d < 16
      /\ v = a * 4096 + b * 256 + c * 16 + d
  BY <1>0, Nibbles, SMT
<1> HIDE DEF a, b, c, d
<1>3. LX!hexdigit(a) \in Nat /\ LX!hexdigit(b) \in Nat /\ LX!hexdigit(c) \in Nat /\ LX!hexdigit(d) \in Nat
  BY <1>2, HexDigits, SMT
<1>4. h \in Text /\ Len(h) = 4
      /\ h[1] = LX!hexdigit(a) /\ h[2] = LX!hexdigit(b) /\ h[3] = LX!hexdigit(c) /\ h[4] = LX!hexdigit(d)
  BY <1>3, SMT DEF Text
<1> HIDE DEF h
<1>5. LX!get_codepoint(h) = a * 4096 + b * 256 + c * 16 + d
  BY <1>2, <1>4, CodePointOfDigits, SMT
<1> QED BY <1>1, <1>2, <1>4, <1>5

(* Escape behind the letter u *)
LEMMA HexCases ==
  ASSUME NEW t \in Seq(Nat), t # <<>>, t[1] = 117
  PROVE  LET cp1 == LX!get_codepoint(Slice(t, 2, 5))
             cp2 == LX!get_codepoint(Slice(t, 8, 11))
         IN  LX!Escape(t) =
               IF cp1 = -1 \/ LX!IsLowSurrogate(cp1) THEN NoEscape
               ELSE IF ~LX!IsHighSurrogate(cp1) THEN [bytes |-> LX!Utf8(cp1), length |-> 5]
               ELSE IF Slice(t, 6, 7) # <<92, 117>> \/ ~LX!IsLowSurrogate(cp2) THEN NoEscape
               ELSE [bytes |-> LX!Utf8(cp1 * 1024 + cp2 - 56613888), length |-> 11]
<1> DEFINE cp1 == LX!get_codepoint(Slice(t, 2, 5))
           cp2 == LX!get_codepoint(Slice(t, 8, 11))
           both == Slice(t, 6, 7)
           c == t[1]
<1>1. LX!Escape(t) =
        IF t = <<>> THEN NoEscape
        ELSE IF c \in {34, 92, 47} THEN [bytes |-> <<c>>, length |-> 1]
        ELSE IF \E d \in LX!Named : c = LX!Letter(d)
             THEN [bytes |-> <<LX!Unnamed(c)>>, length |-> 1]
        ELSE IF c # 117 \/ cp1 = -1 \/ LX!IsLowSurrogate(cp1) THEN NoEscape
        ELSE IF ~LX!IsHighSurrogate(cp1) THEN [bytes |-> LX!Utf8(cp1), length |-> 5]
        ELSE IF both # <<92, 117>> \/ ~LX!IsLowSurrogate(cp2) THEN NoEscape
        ELSE [bytes |-> LX!Utf8(cp1 * 1024 + cp2 - 56613888), length |-> 11]
  BY EscapeCases, SMT
<1>2. c = 117
  OBVIOUS
<1> HIDE DEF cp1, cp2, both, c
<1>3. ~ \E d \in LX!Named : c = LX!Letter(d)
  BY <1>2, NamedLetters, SMT
<1>4. LX!Escape(t) =
        IF cp1 = -1 \/ LX!IsLowSurrogate(cp1) THEN NoEscape
        ELSE IF ~LX!IsHighSurrogate(cp1) THEN [bytes |-> LX!Utf8(cp1), length |-> 5]
        ELSE IF both # <<92, 117>> \/ ~LX!IsLowSurrogate(cp2) THEN NoEscape
        ELSE [bytes |-> LX!Utf8(cp1 * 1024 + cp2 - 56613888), length |-> 11]
  BY <1>1, <1>2, <1>3, SMT
<1> QED BY <1>4 DEF cp1, cp2, both

(* four hex digits behind the u of an escape *)
Hexed(v, c) == (<<117>> \o LX!Hex4(v)) \o c
(* the digits behind the letter u are read as the number, whatever follows *)
LEMMA HexFront ==
  ASSUME NEW v \in Word, NEW c \in Text
  PROVE  /\ Hexed(v, c) \in Text /\ Len(Hexed(v, c)) = Len(c) + 5
         /\ Hexed(v, c)[1] = 117 /\ Hexed(v, c) # <<>>
         /\ LX!get_codepoint(Slice(Hexed(v, c), 2, 5)) = v
<1> DEFINE h == LX!Hex4(v)
           a == <<117>>
           x == a \o h
           t == x \o c
<1>1. h \in Text /\ Len(h) = 4 /\ LX!get_codepoint(h) = v
  BY HexText
<1> HIDE DEF h
<1>2. a \in Text /\ Len(a) = 1 /\ a[1] = 117
  BY OneCharacter, SMT
<1> HIDE DEF a
<1>3. x \in Text /\ Len(x) = Len(a) + Len(h) /\ \A i \in 1 .. Len(a) : x[i] = a[i]
  <2>1. a \in Text /\ h \in Text
    BY <1>1, <1>2, Zenon
  <2> QED BY <2>1, Joined
<1>4. Slice(t, 2, 5) = h
  <2>1. Len(h) > 0 /\ 2 \in Nat /\ 5 \in Nat /\ 2 = Len(a) + 1 /\ 5 = Len(a) + Len(h)
    BY <1>1, <1>2, SMT
  <2>2. a \in Text /\ h \in Text
    BY <1>1, <1>2, Zenon
  <2> QED BY <2>1, <2>2, PartIsText, SMT
<1> HIDE DEF x
<1>5. x[1] = 117 /\ 1 \in 1 .. Len(x) /\ Len(x) = 5
  BY <1>1, <1>2, <1>3, SMT
<1>6. t \in Text /\ Len(t) = Len(x) + Len(c) /\ Len(c) \in Nat /\ \A i \in 1 .. Len(x) : t[i] = x[i]
  BY <1>3, Joined
<1> HIDE DEF t
<1>7. t[1] = 117 /\ Len(t) = Len(c) + 5 /\ Len(t) # 0
  BY <1>5, <1>6, SMT
<1>8. t # <<>>
  BY <1>7, SMT
<1>9. Hexed(v, c) = t
  BY DEF Hexed, t, x, a, h
<1> QED BY <1>1, <1>4, <1>6, <1>7, <1>8, <1>9

(* a text that is one escape and the closing quote *)
LEMMA OneEscape ==
  ASSUME NEW t \in Text, Len(t) > 1, t[Len(t)] = 34, LX!Escape(t).length \in {0, Len(t) - 1}
  PROVE  /\ LX!ScanString(<<92>> \o t).ok <=> LX!Escape(t).length = Len(t) - 1
         /\ LX!ScanString(<<92>> \o t).ok => LX!ScanString(<<92>> \o t).str = LX!Escape(t).bytes
<1>a. PICK e : e = LX!Escape(t)
  OBVIOUS
<1>b. PICK s : s = <<92>> \o t
  OBVIOUS
<1>c. PICK m \in Nat : m = Len(t) - 1 /\ m # 0
  <2>1. Len(t) - 1 \in Nat /\ Len(t) - 1 # 0
    BY LenProperties, SMT DEF Text
  <2> QED BY <2>1, Zenon
<1>d. e.length \in {0, m}
  BY <1>a, <1>c, Zenon
<1> USE <1>a, <1>b, <1>c, <1>d
<1> DEFINE n == Len(s)
<1>1. s \in Seq(Nat) /\ Len(s) = Len(t) + 1 /\ s[1] = 92 /\ Tail(s) = t
  BY TextBehind, SMT DEF Text
<1>2. n = m + 2 /\ n \in Nat /\ 1 \in 0 .. n /\ n \in 0 .. n /\ n - n = 0
  <2>1. Len(t) \in Nat
    BY LenProperties DEF Text
  <2> QED BY <1>1, <2>1, SMT
<1>3. PICK f : Scans(f, s) /\ LX!ScanString(s) = f[n]
  BY <1>1, StringScans
<1>4. Rest(s, n) = s
  <2>1. n - n + 1 = 1
    BY <1>2, SMT
  <2>2. Rest(s, n) = SubSeq(s, n - n + 1, n)
    BY DEF Rest, LX!drop_front
  <2>3. SubSeq(s, 1, n) = s
    BY <1>1, SubSeqFull
  <2> QED BY <2>1, <2>2, <2>3, Zenon
<1>5. e.bytes \in Seq(Nat)
  <2>1. t \in Seq(Nat)
    BY DEF Text
  <2>2. LX!Escape(t).bytes \in Seq(Nat)
    BY <2>1, EscapeEnds, Zenon
  <2> QED BY <2>2
<1>6. Rest(s, 1)[1] = 34
  <2>1. \A i \in 1 .. 1 : Rest(s, 1)[i] = s[n - 1 + i]
    BY <1>1, <1>2, RestIs, Zenon
  <2>2. Rest(s, 1)[1] = s[n]
    BY <1>2, <2>1, SMT
  <2>3. s[n] = t[Len(t)]
    <3> DEFINE x == <<92>>
               y == x \o t
    <3>1. x \in Text /\ Len(x) = 1
      BY OneCharacter, SMT
    <3>2. s = y
      OBVIOUS
    <3> HIDE DEF x
    <3>3. \A i \in 1 .. Len(t) : y[Len(x) + i] = t[i]
      BY <3>1, Joined
    <3> HIDE DEF y
    <3>4. Len(t) \in 1 .. Len(t) /\ Len(x) + Len(t) = n
      BY <1>1, <1>2, <3>1, SMT
    <3> QED BY <3>2, <3>3, <3>4, Zenon
  <2> QED BY <2>2, <2>3
<1>7. f[1] = ScanRound(s, 1, f) /\ f[n] = ScanRound(s, n, f)
  BY <1>2, <1>3, Zenon DEF Scans
<1> HIDE DEF n
<1>8. f[1] = [ok |-> TRUE, str |-> <<>>]
  BY <1>6, <1>7, SMT DEF ScanRound
<1> DEFINE l == ReadLength(s, n)
<1>9. l = (IF e.length = 0 THEN 0 ELSE 1 + e.length) /\ ReadBytes(s, n) = e.bytes
  <2>1. Rest(s, n)[1] = 92 /\ LX!Escape(Tail(Rest(s, n))) = e
    BY <1>1, <1>4
  <2> QED BY <2>1, SMT DEF ReadLength, ReadBytes
<1>10. f[n] = IF l = 0 THEN Unscanned ELSE AfterBytes(e.bytes, f[n - l])
  <2>1. n # 0 /\ Rest(s, n)[1] # 34
    BY <1>1, <1>2, <1>4, SMT
  <2>2. f[n] = IF n = 0 THEN Unscanned
               ELSE IF Rest(s, n)[1] = 34 THEN [ok |-> TRUE, str |-> <<>>]
               ELSE IF l = 0 THEN Unscanned
               ELSE AfterBytes(ReadBytes(s, n), f[n - l])
    BY <1>7, Zenon DEF ScanRound
  <2> QED BY <1>9, <2>1, <2>2, Zenon
<1> HIDE DEF l
<1>11. CASE e.length = 0
  <2>1. f[n] = Unscanned
    BY <1>9, <1>10, <1>11, SMT
  <2>2. f[n].ok = FALSE
    BY <2>1, SMT DEF Unscanned
  <2> QED BY <1>3, <1>11, <2>2, SMT
<1>12. CASE e.length = m
  <2>1. l # 0 /\ n - l = 1
    BY <1>2, <1>9, <1>12, SMT
  <2>2. f[n] = AfterBytes(e.bytes, f[1])
    BY <1>10, <2>1, Zenon
  <2> DEFINE b == e.bytes
  <2>3. b \o <<>> = b
    BY <1>5, ConcatEmptySeq
  <2> HIDE DEF b
  <2>4. f[n] = [ok |-> TRUE, str |-> b \o <<>>]
    BY <1>8, <2>2, SMT DEF AfterBytes, b
  <2>5. f[n].ok = TRUE /\ f[n].str = b
    BY <2>3, <2>4, SMT
  <2> QED BY <1>3, <1>12, <2>5 DEF b
<1>13. /\ LX!ScanString(s).ok <=> e.length = m
       /\ LX!ScanString(s).ok => LX!ScanString(s).str = e.bytes
  BY <1>11, <1>12, SMT
<1> QED BY <1>13, Zenon

(* the code points of Unicode *)
CodePoint == {cp \in Nat : cp <= 1114111}
(* the bytes that add() is given for a code point are well formed and stand for it *)
LEMMA Utf8IsChar ==
  ASSUME NEW cp \in CodePoint, LX!IsScalar(cp)
  PROVE  LX!Value(LX!Utf8(cp)) = cp /\ LX!WellFormed(LX!Utf8(cp))
<1> DEFINE u == LX!Utf8(cp)
<1>1. u \in Seq(ByteValue) /\ Len(u) \in 1 .. 4 /\ LX!Value(u) = cp /\ LX!Shortest(u)
  BY ValueOfUtf8, SMT DEF CodePoint
<1> HIDE DEF u
<1>2. u \in Seq(Nat)
  <2>1. ByteValue \subseteq Nat
    BY SMT DEF ByteValue, Below
  <2> QED BY <1>1, <2>1, SeqMonotonic, Zenon
<1>3. IsChar(u)
  BY <1>1, Zenon DEF IsChar
<1>4. LX!WellFormed(u)
  BY <1>1, <1>2, <1>3, CharIsWellFormed, SMT
<1> QED BY <1>1, <1>4, SMT DEF u

(* what an escape is read as decides whether it stands for its code point *)
LEMMA ReadAs ==
  ASSUME NEW cp \in CodePoint, NEW r,
         r.ok <=> LX!IsScalar(cp), r.ok => r.str = LX!Utf8(cp)
  PROVE  /\ r.ok <=> LX!IsScalar(cp)
         /\ r.ok => LX!Value(r.str) = cp /\ LX!WellFormed(r.str)
<1>1. LX!IsScalar(cp) => LX!Value(LX!Utf8(cp)) = cp /\ LX!WellFormed(LX!Utf8(cp))
  BY Utf8IsChar, Zenon
<1> QED BY <1>1, Zenon

(* a code point that has one escape *)
LEMMA EscapeOf16 ==
  ASSUME NEW cp \in Word
  PROVE  LX!EscapeInverse(cp)
<1> DEFINE h == LX!Hex4(cp)
           z == <<34>>
           t == Hexed(cp, z)
           e == LX!Escape(t)
           s == <<92>> \o t
           r == LX!ScanString(s)
<1>1. cp \in CodePoint
  BY SMT DEF CodePoint, Word, Below
<1>2. LX!Hex4(cp) \in Text
  BY HexText
<1>3. z \in Text /\ Len(z) = 1 /\ z[1] = 34
  BY OneCharacter, SMT
<1>4. LX!EscapeInverse(cp) <=>
        /\ r.ok <=> LX!IsScalar(cp)
        /\ r.ok => LX!Value(r.str) = cp /\ LX!WellFormed(r.str)
  <2> DEFINE own == LX!ScanString(Append(<<92, 117>> \o LX!Hex4(cp), 34))
  <2>0. cp < 65536
    BY SMT DEF Word, Below
  <2>1. LX!EscapeInverse(cp) <=>
          /\ own.ok <=> LX!IsScalar(cp)
          /\ own.ok => LX!Value(own.str) = cp /\ LX!WellFormed(own.str)
    BY <2>0, SMT DEF LX!EscapeInverse, LX!Quote, LX!Backslash
  <2> DEFINE p == <<92>>
             q == <<117>>
             u == <<92, 117>>
             x == u \o h
  <2>2. /\ p \in Seq(Nat) /\ q \in Seq(Nat) /\ h \in Seq(Nat) /\ z \in Seq(Nat)
        /\ u \in Seq(Nat) /\ u = p \o q
    BY <1>2, <1>3, OneCharacter, TwoCharacters, SMT DEF Text
  <2> HIDE DEF p, q, h, z, u
  <2>3. x \in Seq(Nat) /\ q \o h \in Seq(Nat)
    BY <2>2, ConcatProperties
  <2>4. x = p \o (q \o h)
    BY <2>2, Reassociated
  <2>5. Append(x, 34) = x \o z
    <3>1. Append(x, 34) = x \o <<34>>
      <4> HIDE DEF x
      <4> QED BY <2>3, AppendIsConcat, SMT
    <3> QED BY <3>1, Zenon DEF z
  <2>6. x \o z = p \o ((q \o h) \o z)
    <3> DEFINE y == q \o h
    <3>1. y \in Seq(Nat) /\ x = p \o y
      BY <2>3, <2>4
    <3> HIDE DEF y, x
    <3>2. (p \o y) \o z = p \o (y \o z)
      <4>1. p \in Seq(Nat) /\ y \in Seq(Nat) /\ z \in Seq(Nat)
        BY <2>2, <3>1, Zenon
      <4> QED BY <4>1, Reassociated
    <3>3. x \o z = p \o (y \o z)
      BY <3>1, <3>2, Zenon
    <3> QED BY <3>3, Zenon DEF y
  <2>7. own = LX!ScanString(Append(x, 34))
    BY Zenon DEF u, h
  <2>8. t = (q \o h) \o z
    BY Zenon DEF Hexed, q, h
  <2>9. r = LX!ScanString(p \o t)
    BY Zenon DEF p
  <2> HIDE DEF own, r, t, x
  <2>10. own = r
    BY <2>5, <2>6, <2>7, <2>8, <2>9, Zenon
  <2> QED BY <2>1, <2>10, Zenon
<1> HIDE DEF z
<1>5. t \in Text /\ Len(t) = 6 /\ t[1] = 117 /\ t # <<>> /\ LX!get_codepoint(Slice(t, 2, 5)) = cp
      /\ t[6] = 34
  <2>1. /\ t \in Text /\ Len(t) = Len(z) + 5 /\ t[1] = 117 /\ t # <<>>
        /\ LX!get_codepoint(Slice(t, 2, 5)) = cp
    <3>1. z \in Text
      BY <1>3
    <3> QED BY <3>1, HexFront
  <2> DEFINE x == <<117>> \o LX!Hex4(cp)
  <2>2. x \in Text /\ Len(x) = 5
    <3> DEFINE a == <<117>>
    <3>1. a \in Text /\ Len(a) = 1
      BY OneCharacter, SMT
    <3> HIDE DEF a
    <3>2. h \in Text /\ Len(h) = 4
      BY HexText, Zenon
    <3> HIDE DEF h
    <3>3. a \o h \in Text /\ Len(a \o h) = Len(a) + Len(h)
      BY <3>1, <3>2, Joined, Zenon
    <3>4. a \o h \in Text /\ Len(a \o h) = 5
      BY <3>1, <3>2, <3>3, SMT
    <3> QED BY <3>4, Zenon DEF a, h
  <2>3. t = x \o z
    BY Zenon DEF Hexed
  <2> HIDE DEF x, t
  <2>4. \A i \in 1 .. Len(z) : (x \o z)[Len(x) + i] = z[i]
    BY <1>3, <2>2, Joined, Zenon
  <2>5. t[6] = 34
    <3>1. 1 \in 1 .. Len(z) /\ Len(x) + 1 = 6
      BY <1>3, <2>2, SMT
    <3>2. (x \o z)[Len(x) + 1] = z[1]
      BY <2>4, <3>1, Zenon
    <3> QED BY <1>3, <2>3, <3>1, <3>2, Zenon
  <2> QED BY <1>3, <2>1, <2>5, SMT
<1> HIDE DEF t
<1>6. Slice(t, 6, 7) # <<92, 117>>
  <2> DEFINE x == Slice(t, 6, 7)
  <2>1. t \in Seq(Nat) /\ 6 \in Nat /\ 7 \in Nat /\ 1 <= 6 /\ 6 <= 7 /\ 7 > Len(t) /\ 7 - 6 + 1 = 2
    BY <1>5, SMT DEF Text
  <2>2. x \in Seq(Nat) /\ Len(x) < 7 - 6 + 1
    BY <2>1, Slices, Zenon
  <2> HIDE DEF x
  <2>3. x # <<92, 117>>
    <3> DEFINE pair == <<92, 117>>
    <3>1. Len(pair) = 2
      BY SMT
    <3>2. Len(x) # 2
      BY <2>2, LenProperties, SMT
    <3> HIDE DEF pair
    <3>3. x # pair
      BY <3>1, <3>2, Zenon
    <3> QED BY <3>3 DEF pair
  <2> QED BY <2>3 DEF x
<1>7. LX!IsScalar(cp) <=> ~LX!IsHighSurrogate(cp) /\ ~LX!IsLowSurrogate(cp)
  BY <1>1, SMT DEF LX!IsScalar, CodePoint
<1>8. e = IF LX!IsScalar(cp) THEN [bytes |-> LX!Utf8(cp), length |-> 5] ELSE NoEscape
  <2>1. t \in Seq(Nat)
    BY <1>5, Zenon DEF Text
  <2> DEFINE cp1 == LX!get_codepoint(Slice(t, 2, 5))
             cp2 == LX!get_codepoint(Slice(t, 8, 11))
             both == Slice(t, 6, 7)
  <2>2. e = IF cp1 = -1 \/ LX!IsLowSurrogate(cp1) THEN NoEscape
            ELSE IF ~LX!IsHighSurrogate(cp1) THEN [bytes |-> LX!Utf8(cp1), length |-> 5]
            ELSE IF both # <<92, 117>> \/ ~LX!IsLowSurrogate(cp2) THEN NoEscape
            ELSE [bytes |-> LX!Utf8(cp1 * 1024 + cp2 - 56613888), length |-> 11]
    BY <1>5, <2>1, HexCases, SMT
  <2>3. cp1 = cp /\ cp1 # -1 /\ both # <<92, 117>>
    BY <1>1, <1>5, <1>6, SMT DEF CodePoint
  <2> HIDE DEF cp1, cp2, both, e
  <2> QED BY <1>7, <2>2, <2>3, SMT
<1> HIDE DEF e
<1>9. e.length = (IF LX!IsScalar(cp) THEN 5 ELSE 0) /\ (LX!IsScalar(cp) => e.bytes = LX!Utf8(cp))
  BY <1>8, SMT DEF NoEscape
<1>10. /\ r.ok <=> e.length = 5
       /\ r.ok => r.str = e.bytes
  <2>1. LX!Escape(t).length \in {0, Len(t) - 1} /\ Len(t) - 1 = 5 /\ t[Len(t)] = 34 /\ Len(t) > 1
    BY <1>5, <1>9, SMT DEF e
  <2>2. t \in Text
    BY <1>5, Zenon
  <2>3. /\ r.ok <=> e.length = Len(t) - 1
        /\ r.ok => r.str = e.bytes
    BY <2>1, <2>2, OneEscape, Zenon DEF e
  <2> QED BY <2>1, <2>3, Zenon
<1> HIDE DEF r
<1>11. /\ r.ok <=> LX!IsScalar(cp)
       /\ r.ok => r.str = LX!Utf8(cp)
  BY <1>9, <1>10, SMT
<1> QED BY <1>1, <1>4, <1>11, ReadAs, SMT

(* the middle one of three texts, cut out again *)
LEMMA PartIs ==
  ASSUME NEW a \in Text, NEW b \in Text, NEW c \in Text, Len(b) > 0
  PROVE  Slice((a \o b) \o c, Len(a) + 1, Len(a) + Len(b)) = b
<1>1. PICK i \in Nat : i = Len(a) + 1
  BY LenProperties DEF Text
<1>2. PICK j \in Nat : j = Len(a) + Len(b)
  BY LenProperties DEF Text
<1>3. Slice((a \o b) \o c, i, j) = b
  BY <1>1, <1>2, PartIsText
<1> QED BY <1>1, <1>2, <1>3, Zenon

(* the surrogates that stand for a code point *)
LEMMA Surrogates ==
  ASSUME NEW cp \in CodePoint, cp \notin Word
  PROVE  LET hi == 55296 + (cp - 65536) \div 1024
             lo == 56320 + ((cp - 65536) % 1024)
         IN  /\ hi \in Word /\ LX!IsHighSurrogate(hi) /\ ~LX!IsLowSurrogate(hi) /\ hi # -1
             /\ lo \in Word /\ LX!IsLowSurrogate(lo)
             /\ hi * 1024 + lo - 56613888 = cp
  BY SMT DEF LX!IsHighSurrogate, LX!IsLowSurrogate, CodePoint, Word, Below

(* two escapes of four digits, taken apart *)
Escapes(g, h) == Append(<<92, 117>> \o g \o <<92, 117>> \o h, 34)
SecondEscape(h) == (<<92, 117>> \o h) \o <<34>>
InEscapes(g, h) == (<<117>> \o g) \o SecondEscape(h)
(* where the second escape of a pair stands *)
LEMMA PairText ==
  ASSUME NEW g \in Text, NEW h \in Text, Len(g) = 4, Len(h) = 4
  PROVE  /\ Escapes(g, h) = <<92>> \o InEscapes(g, h)
         /\ Slice(InEscapes(g, h), 6, 7) = <<92, 117>> /\ Slice(InEscapes(g, h), 8, 11) = h
         /\ InEscapes(g, h) \in Text /\ Len(InEscapes(g, h)) = 12
         /\ InEscapes(g, h)[Len(InEscapes(g, h))] = 34
<1> DEFINE p == <<92>>
           q == <<117>>
           u == <<92, 117>>
           z == <<34>>
           a == q \o g
           b == a \o u
           d == b \o h
           c == (u \o h) \o z
           t == a \o c
<1>1. /\ p \in Text /\ q \in Text /\ z \in Text /\ u \in Text /\ u = p \o q
      /\ Len(q) = 1 /\ Len(u) = 2 /\ Len(z) = 1 /\ z[1] = 34
  BY OneCharacter, TwoCharacters, SMT
<1> HIDE DEF p, q, u
<1>2. a \in Text /\ Len(a) = 5
  <2>1. a \in Text /\ Len(a) = Len(q) + Len(g)
    BY <1>1, Joined, Zenon
  <2> QED BY <1>1, <2>1, SMT
<1>3. p \o a = u \o g
  <2>1. (p \o q) \o g = p \o (q \o g)
    <3>1. p \in Seq(Nat) /\ q \in Seq(Nat) /\ g \in Seq(Nat)
      BY <1>1, Zenon DEF Text
    <3> QED BY <3>1, Reassociated
  <2> QED BY <1>1, <2>1, Zenon
<1> HIDE DEF a
<1>4. b \in Text /\ Len(b) = 7
  <2>1. b \in Text /\ Len(b) = Len(a) + Len(u)
    BY <1>1, <1>2, Joined, Zenon
  <2> QED BY <1>1, <1>2, <2>1, SMT
<1>5. d \in Text /\ Len(d) = 11
  <2> HIDE DEF b
  <2>1. d \in Text /\ Len(d) = Len(b) + Len(h)
    BY <1>4, Joined, Zenon
  <2> QED BY <1>4, <2>1, SMT
<1>6. u \o h \in Text /\ h \o z \in Text
  BY <1>1, Joined, Zenon
<1>7. /\ p \in Seq(Nat) /\ a \in Seq(Nat) /\ u \in Seq(Nat) /\ h \in Seq(Nat) /\ z \in Seq(Nat)
      /\ b \in Seq(Nat) /\ d \in Seq(Nat) /\ h \o z \in Seq(Nat)
  BY <1>1, <1>2, <1>4, <1>5, <1>6, Zenon DEF Text
<1> HIDE DEF z
<1>8. t = d \o z
  <2>1. (u \o h) \o z = u \o (h \o z)
    <3>1. u \in Seq(Nat) /\ h \in Seq(Nat) /\ z \in Seq(Nat)
      BY <1>7, Zenon
    <3> QED BY <3>1, Reassociated
  <2>2. (a \o u) \o (h \o z) = a \o (u \o (h \o z))
    <3>1. a \in Seq(Nat) /\ u \in Seq(Nat) /\ (h \o z) \in Seq(Nat)
      BY <1>7, Zenon
    <3> QED BY <3>1, Reassociated
  <2>3. (b \o h) \o z = b \o (h \o z)
    <3> HIDE DEF b
    <3>1. b \in Seq(Nat) /\ h \in Seq(Nat) /\ z \in Seq(Nat)
      BY <1>7, Zenon
    <3> QED BY <3>1, Reassociated
  <2> QED BY <2>1, <2>2, <2>3, Zenon
<1>9. Append(u \o g \o u \o h, 34) = p \o t
  <2>1. (p \o a) \o u = p \o (a \o u)
    <3>1. p \in Seq(Nat) /\ a \in Seq(Nat) /\ u \in Seq(Nat)
      BY <1>7, Zenon
    <3> QED BY <3>1, Reassociated
  <2>2. (p \o b) \o h = p \o (b \o h)
    <3> HIDE DEF b
    <3>1. p \in Seq(Nat) /\ b \in Seq(Nat) /\ h \in Seq(Nat)
      BY <1>7, Zenon
    <3> QED BY <3>1, Reassociated
  <2>3. (p \o d) \o z = p \o (d \o z)
    <3> HIDE DEF d
    <3>1. p \in Seq(Nat) /\ d \in Seq(Nat) /\ z \in Seq(Nat)
      BY <1>7, Zenon
    <3> QED BY <3>1, Reassociated
  <2>4. u \o g \o u \o h = p \o d
    BY <1>3, <2>1, <2>2, Zenon
  <2>5. Append(p \o d, 34) = (p \o d) \o z
    <3> DEFINE x == p \o d
    <3>1. x \in Text
      BY <1>1, <1>5, Joined, Zenon
    <3>2. x \in Seq(Nat)
      BY <3>1, Zenon DEF Text
    <3> HIDE DEF x
    <3>3. Append(x, 34) = x \o <<34>>
      BY <3>2, AppendIsConcat, SMT
    <3> QED BY <3>3, Zenon DEF x, z
  <2> QED BY <1>8, <2>3, <2>4, <2>5, Zenon
<1> HIDE DEF d
<1>10. t \in Text /\ Len(t) = 12 /\ t[Len(t)] = 34
  <2> DEFINE x == d \o z
  <2>1. /\ x \in Text /\ Len(x) = Len(d) + Len(z)
        /\ \A i \in 1 .. Len(z) : x[Len(d) + i] = z[i]
    BY <1>1, <1>5, Joined, Zenon
  <2>2. Len(d) + Len(z) = 12 /\ 1 \in 1 .. Len(z) /\ Len(d) + 1 = 12
    BY <1>1, <1>5, SMT
  <2>3. x[Len(d) + 1] = z[1]
    BY <2>1, <2>2, Zenon
  <2> HIDE DEF x
  <2>4. x \in Text /\ Len(x) = 12 /\ x[Len(x)] = 34
    BY <1>1, <2>1, <2>2, <2>3, Zenon
  <2> QED BY <1>8, <2>4, Zenon DEF x
<1>11. Slice(t, 6, 7) = u
  <2>1. Len(u) > 0 /\ 6 \in Nat /\ 7 \in Nat /\ 6 = Len(a) + 1 /\ 7 = Len(a) + Len(u)
    BY <1>1, <1>2, SMT
  <2>2. a \in Text /\ u \in Text /\ h \o z \in Text
    BY <1>1, <1>2, <1>6, Zenon
  <2>3. Slice((a \o u) \o (h \o z), 6, 7) = u
    <3> DEFINE y == h \o z
    <3>1. y \in Text
      BY <2>2
    <3> HIDE DEF y
    <3>2. Slice((a \o u) \o y, 6, 7) = u
      BY <2>1, <2>2, <3>1, PartIsText, SMT
    <3> QED BY <3>2 DEF y
  <2>4. (b \o h) \o z = b \o (h \o z)
    <3> HIDE DEF b
    <3>1. b \in Seq(Nat) /\ h \in Seq(Nat) /\ z \in Seq(Nat)
      BY <1>7, Zenon
    <3> QED BY <3>1, Reassociated
  <2> QED BY <1>8, <2>3, <2>4, Zenon DEF d
<1>12. Slice(t, 8, 11) = h
  <2> HIDE DEF b
  <2>1. Len(h) > 0 /\ 8 \in Nat /\ 11 \in Nat /\ 8 = Len(b) + 1 /\ 11 = Len(b) + Len(h)
    BY <1>4, SMT
  <2>2. b \in Text /\ z \in Text /\ h \in Text
    BY <1>1, <1>4, Zenon
  <2>3. Slice((b \o h) \o z, Len(b) + 1, Len(b) + Len(h)) = h
    BY <2>1, <2>2, PartIs, Zenon
  <2>4. Slice((b \o h) \o z, 8, 11) = h
    BY <2>1, <2>3, Zenon
  <2> QED BY <1>8, <2>4, Zenon DEF d
<1> HIDE DEF t
<1>13. InEscapes(g, h) = t
  BY Zenon DEF InEscapes, SecondEscape, t, a, p, q, u, z
<1>14. Escapes(g, h) = Append(u \o g \o u \o h, 34)
  BY Zenon DEF Escapes, u
<1>15. Escapes(g, h) = p \o t
  BY <1>9, <1>14, Zenon
<1> QED BY <1>10, <1>11, <1>12, <1>13, <1>15, Zenon DEF p, u

(* a code point that has two escapes *)
LEMMA EscapeOfPair ==
  ASSUME NEW cp \in CodePoint, cp \notin Word
  PROVE  LX!EscapeInverse(cp)
<1> DEFINE hi == 55296 + (cp - 65536) \div 1024
           lo == 56320 + ((cp - 65536) % 1024)
           g == LX!Hex4(hi)
           h == LX!Hex4(lo)
           u == <<92, 117>>
           c == SecondEscape(h)
           t == Hexed(hi, c)
           e == LX!Escape(t)
           s == Escapes(g, h)
           r == LX!ScanString(s)
<1>1. /\ hi \in Word /\ LX!IsHighSurrogate(hi) /\ ~LX!IsLowSurrogate(hi) /\ hi # -1
      /\ lo \in Word /\ LX!IsLowSurrogate(lo)
      /\ hi * 1024 + lo - 56613888 = cp
  BY Surrogates, SMT
<1>2. LX!IsScalar(cp)
  BY SMT DEF LX!IsScalar, LX!IsHighSurrogate, LX!IsLowSurrogate, CodePoint, Word, Below
<1>3. LX!EscapeInverse(cp) <=>
        /\ r.ok <=> LX!IsScalar(cp)
        /\ r.ok => LX!Value(r.str) = cp /\ LX!WellFormed(r.str)
  <2>1. ~ (cp < 65536)
    BY SMT DEF CodePoint, Word, Below
  <2> QED BY <2>1, SMT DEF LX!EscapeInverse, LX!Quote, LX!Backslash, Escapes
<1> HIDE DEF hi, lo
<1>4. g \in Text /\ Len(g) = 4 /\ h \in Text /\ Len(h) = 4 /\ LX!get_codepoint(h) = lo
  <2>1. hi \in Word /\ lo \in Word
    BY <1>1
  <2> QED BY <2>1, HexText
<1>5. t = InEscapes(g, h)
  BY Zenon DEF Hexed, InEscapes
<1> HIDE DEF g, h
<1>6. s = <<92>> \o t /\ Slice(t, 6, 7) = u /\ Slice(t, 8, 11) = h
      /\ t \in Text /\ Len(t) = 12 /\ t[Len(t)] = 34
  <2> HIDE DEF t
  <2> QED BY <1>4, <1>5, PairText, Zenon
<1>7. c \in Text
  <2> DEFINE z == <<34>>
  <2>1. u \in Text /\ z \in Text
    <3>1. 92 \in Nat /\ 117 \in Nat /\ 34 \in Nat
      BY SMT
    <3> QED BY <3>1, OneCharacter, TwoCharacters, Zenon
  <2> HIDE DEF u, z
  <2>2. u \o h \in Text
    BY <1>4, <2>1, Joined, Zenon
  <2>3. (u \o h) \o z \in Text
    BY <2>1, <2>2, Joined, Zenon
  <2> QED BY <2>3, Zenon DEF u, z, SecondEscape
<1> HIDE DEF c
<1>8. t # <<>> /\ t[1] = 117 /\ LX!get_codepoint(Slice(t, 2, 5)) = hi
  <2>1. hi \in Word
    BY <1>1
  <2> QED BY <1>7, <2>1, HexFront
<1> HIDE DEF t
<1>9. e = [bytes |-> LX!Utf8(cp), length |-> 11]
  <2>1. t \in Seq(Nat)
    BY <1>6, Zenon DEF Text
  <2> DEFINE cp1 == LX!get_codepoint(Slice(t, 2, 5))
             cp2 == LX!get_codepoint(Slice(t, 8, 11))
             both == Slice(t, 6, 7)
  <2>2. e = IF cp1 = -1 \/ LX!IsLowSurrogate(cp1) THEN NoEscape
            ELSE IF ~LX!IsHighSurrogate(cp1) THEN [bytes |-> LX!Utf8(cp1), length |-> 5]
            ELSE IF both # <<92, 117>> \/ ~LX!IsLowSurrogate(cp2) THEN NoEscape
            ELSE [bytes |-> LX!Utf8(cp1 * 1024 + cp2 - 56613888), length |-> 11]
    BY <1>8, <2>1, HexCases, SMT
  <2>3. cp1 = hi /\ cp2 = lo /\ ~(both # <<92, 117>>)
    BY <1>4, <1>6, <1>8, Zenon
  <2> HIDE DEF cp1, cp2, both, e
  <2>4. e = [bytes |-> LX!Utf8(hi * 1024 + lo - 56613888), length |-> 11]
    BY <1>1, <2>2, <2>3, SMT
  <2> QED BY <1>1, <2>4, SMT
<1>10. e.length = 11 /\ e.bytes = LX!Utf8(cp)
  <2> HIDE DEF e
  <2> QED BY <1>9, SMT
<1>11. r.ok /\ r.str = LX!Utf8(cp)
  <2> DEFINE own == LX!ScanString(<<92>> \o t)
  <2>1. e.length \in {0, Len(t) - 1} /\ Len(t) - 1 = 11 /\ t[Len(t)] = 34 /\ Len(t) > 1
    <3> HIDE DEF e
    <3> QED BY <1>6, <1>10, SMT
  <2>2. t \in Text
    BY <1>6, Zenon
  <2>3. /\ own.ok <=> e.length = Len(t) - 1
        /\ own.ok => own.str = e.bytes
    BY <2>1, <2>2, OneEscape, Zenon
  <2>4. own = r
    <3> HIDE DEF s
    <3> QED BY <1>6, Zenon
  <2> HIDE DEF own, e, r
  <2> QED BY <1>10, <2>1, <2>3, <2>4, Zenon
<1> HIDE DEF r
<1>12. /\ r.ok <=> LX!IsScalar(cp)
       /\ r.ok => r.str = LX!Utf8(cp)
  BY <1>2, <1>11, Zenon
<1> QED BY <1>3, <1>12, ReadAs, SMT

(* The escape of a code point, or the two of its surrogates, is read by    *)
(* scan_string as the bytes in UTF-8 that stand for this code point, if    *)
(* and only if it is no surrogate itself: no other code point up to        *)
(* U+10FFFF is refused or confused.                                        *)
THEOREM EscapeIsInverse ==
  ASSUME NEW cp \in Nat, cp <= 1114111
  PROVE  LX!EscapeInverse(cp)
<1>1. cp \in CodePoint
  BY SMT DEF CodePoint
<1> QED BY <1>1, EscapeOf16, EscapeOfPair, SMT

(***************************************************************************)
(* scan_string, one character or escape at a time                          *)
(***************************************************************************)

(* what is left behind a place does not depend on what precedes it *)
LEMMA RestBehind ==
  ASSUME NEW a \in Text, NEW u \in Text, NEW j \in 0 .. Len(u)
  PROVE  Rest(a \o u, j) = Rest(u, j)
<1> DEFINE t == a \o u
           p == Rest(t, j)
           q == Rest(u, j)
<1>1. /\ t \in Text /\ Len(t) = Len(a) + Len(u) /\ Len(a) \in Nat /\ Len(u) \in Nat
      /\ \A i \in 1 .. Len(u) : t[Len(a) + i] = u[i]
  BY Joined, Zenon
<1> HIDE DEF t
<1>2. t \in Seq(Nat) /\ u \in Seq(Nat) /\ j \in 0 .. Len(t)
  <2>1. j \in 0 .. Len(t)
    BY <1>1, SMT
  <2> QED BY <1>1, <2>1 DEF Text
<1>3. /\ p \in Seq(Nat) /\ Len(p) = j /\ \A i \in 1 .. j : p[i] = t[Len(t) - j + i]
  BY <1>2, RestIs, Zenon
<1>4. /\ q \in Seq(Nat) /\ Len(q) = j /\ \A i \in 1 .. j : q[i] = u[Len(u) - j + i]
  BY <1>2, RestIs, Zenon
<1> HIDE DEF p, q
<1>5. \A i \in 1 .. Len(p) : p[i] = q[i]
  <2> SUFFICES ASSUME NEW i \in 1 .. Len(p) PROVE p[i] = q[i]
    OBVIOUS
  <2> DEFINE m == Len(u) - j + i
  <2>1. i \in 1 .. j /\ m \in 1 .. Len(u) /\ Len(t) - j + i = Len(a) + m
    BY <1>1, <1>3, SMT
  <2>2. t[Len(a) + m] = u[m]
    BY <1>1, <2>1, Zenon
  <2>3. p[i] = t[Len(t) - j + i] /\ q[i] = u[m]
    BY <1>3, <1>4, <2>1, Zenon
  <2> QED BY <2>1, <2>2, <2>3, Zenon
<1>6. p = q
  BY <1>3, <1>4, <1>5, SeqEqual, Zenon
<1> QED BY <1>6, Zenon DEF p, q, t

(* what comes before a place does not matter behind it *)
LEMMA ScansBehind ==
  ASSUME NEW a \in Text, NEW u \in Text, NEW f, NEW g, Scans(f, a \o u), Scans(g, u)
  PROVE  \A j \in 0 .. Len(u) : f[j] = g[j]
<1> DEFINE t == a \o u
           n == Len(u)
           same == {i \in Int : f[n - i] = g[n - i]}
<1>1. t \in Text /\ Len(t) = Len(a) + n /\ Len(a) \in Nat /\ n \in Nat
  BY Joined, Zenon
<1>2. \A j \in 0 .. n : Rest(t, j) = Rest(u, j)
  BY RestBehind, Zenon
<1>3. Scans(f, t)
  OBVIOUS
<1> HIDE DEF t
<1>4. \A i \in 0 .. n : (\A k \in i + 1 .. n : k \in same) => i \in same
  <2> SUFFICES ASSUME NEW i \in 0 .. n, \A k \in i + 1 .. n : k \in same PROVE f[n - i] = g[n - i]
    BY <1>1, SMT
  <2> DEFINE j == n - i
  <2>1. j \in 0 .. n /\ j \in 0 .. Len(t)
    BY <1>1, SMT
  <2>2. ASSUME NEW m \in 0 .. j - 1 PROVE f[m] = g[m] /\ f[m] \in ScanResults
    <3> DEFINE k == n - m
    <3>1. k \in i + 1 .. n /\ n - k = m /\ m \in 0 .. Len(t)
      BY <1>1, <2>1, SMT
    <3>2. f[m] = g[m]
      <4> HIDE DEF k, n
      <4> QED BY <3>1
    <3>3. f[m] \in ScanResults
      <4>1. f \in [0 .. Len(t) -> ScanResults]
        BY <1>3, Zenon DEF Scans
      <4> QED BY <3>1, <4>1, Zenon
    <3> QED BY <3>2, <3>3
  <2> HIDE DEF j
  <2>3. f[j] = ScanRound(t, j, f) /\ g[j] = ScanRound(u, j, g)
    BY <1>3, <2>1, Zenon DEF Scans
  <2>4. u \in Seq(Nat) /\ t \in Seq(Nat)
    BY <1>1, Zenon DEF Text
  <2>5. ScanRound(u, j, f) = ScanRound(u, j, g)
    BY <2>1, <2>2, <2>4, ScanRounds, Zenon
  <2>6. ScanRound(t, j, f) = ScanRound(u, j, f)
    <3>1. Rest(t, j) = Rest(u, j)
      BY <1>2, <2>1, Zenon
    <3> QED BY <3>1, Zenon DEF ScanRound, ReadLength, ReadBytes
  <2>7. f[j] = g[j]
    BY <2>3, <2>5, <2>6, Zenon
  <2> QED BY <2>7 DEF j
<1> HIDE DEF same
<1>5. 0 \in Int /\ n \in Int
  BY <1>1, SMT
<1>6. \A i \in 0 .. n : i \in same
  BY <1>4, <1>5, FromBehind, Zenon
<1> SUFFICES ASSUME NEW j \in 0 .. n PROVE f[j] = g[j]
  BY Zenon
<1>7. n - j \in 0 .. n /\ n - (n - j) = j
  BY <1>1, SMT
<1>8. n - j \in same
  BY <1>6, <1>7, Zenon
<1> HIDE DEF n
<1> QED BY <1>7, <1>8 DEF same

(* how far scan_string gets at the front of a text, and what it finds      *)
FrontLength(t) ==
  IF t[1] = 92 THEN IF LX!Escape(Tail(t)).length = 0 THEN 0 ELSE 1 + LX!Escape(Tail(t)).length
  ELSE LX!CharLength(t)
FrontBytes(t) ==
  IF t[1] = 92 THEN LX!Escape(Tail(t)).bytes ELSE LX!take_front(t, LX!CharLength(t))

(* scan_string on a text whose first part is read at once *)
LEMMA ScanFront ==
  ASSUME NEW a \in Text, NEW u \in Text, Len(a) > 0,
         FrontLength(a \o u) \in {0, Len(a)}
  PROVE  LX!ScanString(a \o u) =
           IF (a \o u)[1] = 34 THEN [ok |-> TRUE, str |-> <<>>]
           ELSE IF FrontLength(a \o u) = 0 THEN Unscanned
           ELSE AfterBytes(FrontBytes(a \o u), LX!ScanString(u))
<1> DEFINE t == a \o u
           n == Len(t)
           l == FrontLength(t)
<1>1. t \in Text /\ n = Len(a) + Len(u) /\ Len(a) \in Nat /\ Len(u) \in Nat
  BY Joined, Zenon
<1>2. l = 0 \/ l = Len(a)
  BY Zenon
<1>3. t \in Seq(Nat) /\ u \in Seq(Nat)
  BY <1>1, Zenon DEF Text
<1>4. PICK f : Scans(f, t) /\ LX!ScanString(t) = f[n]
  BY <1>3, StringScans, Zenon
<1>5. PICK g : Scans(g, u) /\ LX!ScanString(u) = g[Len(u)]
  BY <1>3, StringScans, Zenon
<1>6. \A j \in 0 .. Len(u) : f[j] = g[j]
  <2>1. Scans(f, a \o u) /\ Scans(g, u)
    BY <1>4, <1>5, Zenon
  <2> QED BY <2>1, ScansBehind
<1> HIDE DEF t
<1>7. Rest(t, n) = t
  <2>1. n - n + 1 = 1
    BY <1>1, SMT
  <2>2. Rest(t, n) = SubSeq(t, n - n + 1, n)
    BY Zenon DEF Rest, LX!drop_front
  <2>3. SubSeq(t, 1, n) = t
    BY <1>3, SubSeqFull, Zenon
  <2> QED BY <2>1, <2>2, <2>3, Zenon
<1>8. ReadLength(t, n) = l /\ ReadBytes(t, n) = FrontBytes(t)
  BY <1>7, Zenon DEF ReadLength, ReadBytes, FrontLength, FrontBytes
<1>9. n \in 0 .. n /\ n # 0 /\ Len(u) \in 0 .. Len(u) /\ n - Len(a) = Len(u)
  BY <1>1, SMT
<1>10. f[n] = ScanRound(t, n, f)
  BY <1>4, <1>9, Zenon DEF Scans
<1> HIDE DEF n, l
<1>11. f[n] = IF t[1] = 34 THEN [ok |-> TRUE, str |-> <<>>]
              ELSE IF l = 0 THEN Unscanned
              ELSE AfterBytes(FrontBytes(t), f[n - l])
  BY <1>7, <1>8, <1>9, <1>10, Zenon DEF ScanRound
<1>12. l # 0 => f[n - l] = LX!ScanString(u)
  BY <1>2, <1>5, <1>6, <1>9, Zenon
<1>13. LX!ScanString(t) = IF t[1] = 34 THEN [ok |-> TRUE, str |-> <<>>]
                          ELSE IF l = 0 THEN Unscanned
                          ELSE AfterBytes(FrontBytes(t), LX!ScanString(u))
  BY <1>4, <1>11, <1>12, Zenon
<1> QED BY <1>13, Zenon DEF t, l

(***************************************************************************)
(* The characters of a string, and what dump_escaped makes of them         *)
(***************************************************************************)

(* the length of the character at the front of a string; its first bytes *)
SourceLength(r) == IF r[1] < 128 THEN 1 ELSE LX!CharLength(r)
FrontOf(b, r) == Len(b) <= Len(r) /\ \A j \in 1 .. Len(b) : b[j] = r[j]

(* a byte is a character by itself if and only if it is below 128 *)
LEMMA CharOfOne ==
  ASSUME NEW r \in Text, NEW b \in Text, Len(b) = 1, FrontOf(b, r)
  PROVE  IsChar(b) <=> SourceLength(r) = 1
<1>1. b \in Seq(Nat) /\ r \in Seq(Nat) /\ Len(r) \in Nat
  BY LenProperties DEF Text
<1>2. b[1] = r[1] /\ b[1] \in Nat /\ Len(r) >= 1
  BY <1>1, ElementOfSeq, SMT DEF FrontOf
<1> QED BY <1>1, <1>2, SMT
        DEF IsChar, SourceLength, LX!IsScalar, LX!Value, LX!Shortest, LX!CharLength, LX!IsCont,
            LX!IsHighSurrogate, LX!IsLowSurrogate

(* the number that bytes stand for, and when it has no shorter form *)
ShortLength(v) == IF v < 128 THEN 1 ELSE IF v < 2048 THEN 2 ELSE IF v < 65536 THEN 3 ELSE 4
Number2(c, d) ==
  IF 192 <= c /\ c <= 223 /\ 128 <= d /\ d <= 191 THEN (c - 192) * 64 + d - 128 ELSE -1
Number3(c, d, e) ==
  IF 224 <= c /\ c <= 239 /\ 128 <= d /\ d <= 191 /\ 128 <= e /\ e <= 191
  THEN (c - 224) * 4096 + (d - 128) * 64 + e - 128 ELSE -1
Number4(c, d, e, g) ==
  IF 240 <= c /\ c <= 247 /\ 128 <= d /\ d <= 191 /\ 128 <= e /\ e <= 191 /\ 128 <= g /\ g <= 191
  THEN (c - 240) * 262144 + (d - 128) * 4096 + (e - 128) * 64 + g - 128 ELSE -1
Form2(c, d) == 194 <= c /\ c <= 223 /\ 128 <= d /\ d <= 191
Form3(c, d, e) ==
  /\ 224 <= c /\ c <= 239 /\ 128 <= d /\ d <= 191 /\ 128 <= e /\ e <= 191
  /\ (c = 224 => 160 <= d) /\ (c = 237 => d <= 159)
Form4(c, d, e, g) ==
  /\ 240 <= c /\ c <= 244 /\ 128 <= d /\ d <= 191 /\ 128 <= e /\ e <= 191
  /\ 128 <= g /\ g <= 191 /\ (c = 240 => 144 <= d) /\ (c = 244 => d <= 143)

(* two bytes stand for a code point in its shortest form *)
LEMMA TwoBytes ==
  ASSUME NEW c \in Nat, NEW d \in Nat
  PROVE  LX!IsScalar(Number2(c, d)) /\ ShortLength(Number2(c, d)) = 2
         <=> Form2(c, d)
  BY SMT DEF LX!IsScalar, LX!IsHighSurrogate, LX!IsLowSurrogate, ShortLength, Number2, Form2

(* three bytes stand for a code point in its shortest form that is no surrogate *)
LEMMA ThreeBytes ==
  ASSUME NEW c \in Nat, NEW d \in Nat, NEW e \in Nat
  PROVE  LX!IsScalar(Number3(c, d, e)) /\ ShortLength(Number3(c, d, e)) = 3
         <=> Form3(c, d, e)
  BY SMT DEF LX!IsScalar, LX!IsHighSurrogate, LX!IsLowSurrogate, ShortLength, Number3, Form3

(* four bytes stand for a code point in its shortest form up to U+10FFFF *)
LEMMA FourBytes ==
  ASSUME NEW c \in Nat, NEW d \in Nat, NEW e \in Nat, NEW g \in Nat
  PROVE  LX!IsScalar(Number4(c, d, e, g)) /\ ShortLength(Number4(c, d, e, g)) = 4
         <=> Form4(c, d, e, g)
  BY SMT DEF LX!IsScalar, LX!IsHighSurrogate, LX!IsLowSurrogate, ShortLength, Number4, Form4

(* CharLength sees a character of two bytes exactly where one stands *)
LEMMA CharOfTwo ==
  ASSUME NEW r \in Text, NEW b \in Text, Len(b) = 2, FrontOf(b, r)
  PROVE  IsChar(b) <=> SourceLength(r) = 2
<1>1. b \in Seq(Nat) /\ r \in Seq(Nat) /\ Len(r) \in Nat
  BY LenProperties DEF Text
<1>2. /\ b[1] = r[1] /\ b[1] \in Nat /\ b[2] = r[2] /\ b[2] \in Nat
      /\ Len(r) >= 2
  BY <1>1, ElementOfSeq, SMT DEF FrontOf
<1>3. SourceLength(r) = 2 <=> Form2(r[1], r[2])
  BY <1>1, <1>2, SMT DEF SourceLength, LX!CharLength, Form2
<1>4. IsChar(b) <=> Form2(b[1], b[2])
  <2>1. LX!Value(b) = Number2(b[1], b[2])
    BY <1>1, <1>2, SMT DEF LX!Value, LX!IsCont, Number2
  <2>2. IsChar(b) <=> LX!IsScalar(LX!Value(b)) /\ ShortLength(LX!Value(b)) = 2
    BY SMT DEF IsChar, LX!Shortest, ShortLength
  <2> QED BY <1>2, <2>1, <2>2, TwoBytes, Zenon
<1> QED BY <1>2, <1>3, <1>4, Zenon

(* CharLength sees a character of three bytes exactly where one stands *)
LEMMA CharOfThree ==
  ASSUME NEW r \in Text, NEW b \in Text, Len(b) = 3, FrontOf(b, r)
  PROVE  IsChar(b) <=> SourceLength(r) = 3
<1>1. b \in Seq(Nat) /\ r \in Seq(Nat) /\ Len(r) \in Nat
  BY LenProperties DEF Text
<1>2. /\ b[1] = r[1] /\ b[1] \in Nat /\ b[2] = r[2] /\ b[2] \in Nat /\ b[3] = r[3] /\ b[3] \in Nat
      /\ Len(r) >= 3
  BY <1>1, ElementOfSeq, SMT DEF FrontOf
<1>3. SourceLength(r) = 3 <=> Form3(r[1], r[2], r[3])
  <2>1. CASE r[1] = 224
    BY <1>1, <1>2, <2>1, SMT DEF SourceLength, LX!CharLength, Form3
  <2>2. CASE r[1] = 237
    BY <1>1, <1>2, <2>2, SMT DEF SourceLength, LX!CharLength, Form3
  <2>3. CASE r[1] # 224 /\ r[1] # 237 /\ 224 <= r[1] /\ r[1] <= 239
    BY <1>1, <1>2, <2>3, SMT DEF SourceLength, LX!CharLength, Form3
  <2>4. CASE r[1] < 224
    BY <1>1, <1>2, <2>4, SMT DEF SourceLength, LX!CharLength, Form3
  <2>5. CASE r[1] > 239
    BY <1>1, <1>2, <2>5, SMT DEF SourceLength, LX!CharLength, Form3
  <2> QED BY <1>2, <2>1, <2>2, <2>3, <2>4, <2>5, SMT
<1>4. IsChar(b) <=> Form3(b[1], b[2], b[3])
  <2>1. LX!Value(b) = Number3(b[1], b[2], b[3])
    BY <1>1, <1>2, SMT DEF LX!Value, LX!IsCont, Number3
  <2>2. IsChar(b) <=> LX!IsScalar(LX!Value(b)) /\ ShortLength(LX!Value(b)) = 3
    BY SMT DEF IsChar, LX!Shortest, ShortLength
  <2>3. b[1] \in Nat /\ b[2] \in Nat /\ b[3] \in Nat
    BY <1>2, Zenon
  <2>4. LX!IsScalar(Number3(b[1], b[2], b[3])) /\ ShortLength(Number3(b[1], b[2], b[3])) = 3
        <=> Form3(b[1], b[2], b[3])
    BY <2>3, ThreeBytes
  <2> QED BY <2>1, <2>2, <2>4, Zenon
<1> QED BY <1>2, <1>3, <1>4, Zenon

(* CharLength sees a character of four bytes exactly where one stands *)
LEMMA CharOfFour ==
  ASSUME NEW r \in Text, NEW b \in Text, Len(b) = 4, FrontOf(b, r)
  PROVE  IsChar(b) <=> SourceLength(r) = 4
<1>1. b \in Seq(Nat) /\ r \in Seq(Nat) /\ Len(r) \in Nat
  BY LenProperties DEF Text
<1>2. /\ b[1] = r[1] /\ b[1] \in Nat /\ b[2] = r[2] /\ b[2] \in Nat /\ b[3] = r[3] /\ b[3] \in Nat /\ b[4] = r[4] /\ b[4] \in Nat
      /\ Len(r) >= 4
  BY <1>1, ElementOfSeq, SMT DEF FrontOf
<1>3. SourceLength(r) = 4 <=> Form4(r[1], r[2], r[3], r[4])
  <2>1. CASE r[1] = 240
    BY <1>1, <1>2, <2>1, SMT DEF SourceLength, LX!CharLength, Form4
  <2>2. CASE r[1] = 244
    BY <1>1, <1>2, <2>2, SMT DEF SourceLength, LX!CharLength, Form4
  <2>3. CASE r[1] # 240 /\ r[1] # 244 /\ 240 <= r[1] /\ r[1] <= 244
    BY <1>1, <1>2, <2>3, SMTT(30) DEF SourceLength, LX!CharLength, Form4
  <2>4. CASE r[1] < 240
    BY <1>1, <1>2, <2>4, SMT DEF SourceLength, LX!CharLength, Form4
  <2>5. CASE r[1] > 244
    BY <1>1, <1>2, <2>5, SMT DEF SourceLength, LX!CharLength, Form4
  <2> QED BY <1>2, <2>1, <2>2, <2>3, <2>4, <2>5, SMT
<1>4. IsChar(b) <=> Form4(b[1], b[2], b[3], b[4])
  <2>1. LX!Value(b) = Number4(b[1], b[2], b[3], b[4])
    BY <1>1, <1>2, SMT DEF LX!Value, LX!IsCont, Number4
  <2>2. IsChar(b) <=> LX!IsScalar(LX!Value(b)) /\ ShortLength(LX!Value(b)) = 4
    BY SMT DEF IsChar, LX!Shortest, ShortLength
  <2>3. b[1] \in Nat /\ b[2] \in Nat /\ b[3] \in Nat /\ b[4] \in Nat
    BY <1>2, Zenon
  <2>4. LX!IsScalar(Number4(b[1], b[2], b[3], b[4])) /\ ShortLength(Number4(b[1], b[2], b[3], b[4])) = 4
        <=> Form4(b[1], b[2], b[3], b[4])
    BY <2>3, FourBytes
  <2> QED BY <2>1, <2>2, <2>4, Zenon
<1> QED BY <1>2, <1>3, <1>4, Zenon

(* CharLength looks no further than bytes that can go on *)
At(t, i) == IF i <= Len(t) /\ t[i] >= 128 THEN t[i] ELSE 0
(* two texts look alike to CharLength if they have the same bytes up to    *)
(* the first that cannot go on                                             *)
LEMMA SameCharLength ==
  ASSUME NEW r \in Text, NEW t \in Text, Len(r) >= 1, Len(t) >= 1, t[1] = r[1], r[1] >= 128,
         At(t, 2) = At(r, 2),
         At(r, 2) # 0 => At(t, 3) = At(r, 3),
         At(r, 2) # 0 /\ At(r, 3) # 0 => At(t, 4) = At(r, 4)
  PROVE  LX!CharLength(t) = LX!CharLength(r)
<1>1. r \in Seq(Nat) /\ t \in Seq(Nat) /\ Len(r) \in Nat /\ Len(t) \in Nat
  BY LenProperties DEF Text
<1>2. /\ \A i \in 1 .. Len(r) : r[i] \in Nat
      /\ \A i \in 1 .. Len(t) : t[i] \in Nat
  BY <1>1, ElementOfSeq
<1>3. /\ r[1] \in Nat /\ (Len(r) >= 2 => r[2] \in Nat)
      /\ (Len(r) >= 3 => r[3] \in Nat) /\ (Len(r) >= 4 => r[4] \in Nat)
      /\ (Len(t) >= 2 => t[2] \in Nat)
      /\ (Len(t) >= 3 => t[3] \in Nat) /\ (Len(t) >= 4 => t[4] \in Nat)
  BY <1>1, <1>2, SMT
<1> DEFINE Goes(i, low, high) == i <= Len(r) /\ low <= r[i] /\ r[i] <= high
           Goes2 == 2 <= Len(r) /\ 128 <= r[2]
           Went(i, low, high) == i <= Len(t) /\ low <= t[i] /\ t[i] <= high
<1>4. \A low, high \in Nat : low >= 128 => (Goes(2, low, high) <=> Went(2, low, high))
  BY <1>1, <1>3, SMT DEF At
<1>a. Goes2 => At(r, 2) # 0
  BY <1>1, <1>3, SMT DEF At
<1>b. Goes(3, 128, 191) => At(r, 3) # 0
  BY <1>1, <1>3, SMT DEF At
<1>5. Goes2 => (Goes(3, 128, 191) <=> Went(3, 128, 191))
  <2>1. At(t, 3) = At(r, 3) => (Goes(3, 128, 191) <=> Went(3, 128, 191))
    BY <1>1, <1>3, SMT DEF At
  <2> QED BY <1>a, <2>1, Zenon
<1>6. Goes2 /\ Goes(3, 128, 191) => (Goes(4, 128, 191) <=> Went(4, 128, 191))
  <2>1. At(t, 4) = At(r, 4) => (Goes(4, 128, 191) <=> Went(4, 128, 191))
    BY <1>1, <1>3, SMT DEF At
  <2> QED BY <1>a, <1>b, <2>1, Zenon
<1> DEFINE c == r[1]
           low3 == IF c = 224 THEN 160 ELSE 128
           high3 == IF c = 237 THEN 159 ELSE 191
           low4 == IF c = 240 THEN 144 ELSE 128
           high4 == IF c = 244 THEN 143 ELSE 191
<1>7. /\ low3 \in Nat /\ low3 >= 128 /\ high3 \in Nat /\ high3 <= 191
      /\ low4 \in Nat /\ low4 >= 128 /\ high4 \in Nat /\ high4 <= 191
  BY SMT
<1>8. LX!CharLength(r) =
        IF 32 <= c /\ c <= 127 THEN 1
        ELSE IF 194 <= c /\ c <= 223 /\ Goes(2, 128, 191) THEN 2
        ELSE IF 224 <= c /\ c <= 239 /\ Goes(2, low3, high3) /\ Goes(3, 128, 191) THEN 3
        ELSE IF 240 <= c /\ c <= 244 /\ Goes(2, low4, high4) /\ Goes(3, 128, 191) /\ Goes(4, 128, 191)
             THEN 4
        ELSE 0
  BY SMT DEF LX!CharLength
<1>9. LX!CharLength(t) =
        IF 32 <= c /\ c <= 127 THEN 1
        ELSE IF 194 <= c /\ c <= 223 /\ Went(2, 128, 191) THEN 2
        ELSE IF 224 <= c /\ c <= 239 /\ Went(2, low3, high3) /\ Went(3, 128, 191) THEN 3
        ELSE IF 240 <= c /\ c <= 244 /\ Went(2, low4, high4) /\ Went(3, 128, 191) /\ Went(4, 128, 191)
             THEN 4
        ELSE 0
  BY SMT DEF LX!CharLength
<1>10. Goes(2, low3, high3) => Goes2
  BY <1>1, <1>3, <1>7, SMT
<1>11. Goes(2, low4, high4) => Goes2
  BY <1>1, <1>3, <1>7, SMT
<1>12. /\ Goes(2, 128, 191) <=> Went(2, 128, 191)
       /\ Goes(2, low3, high3) <=> Went(2, low3, high3)
       /\ Goes(2, low4, high4) <=> Went(2, low4, high4)
  <2>1. 128 \in Nat /\ 191 \in Nat /\ 128 >= 128
    BY SMT
  <2> HIDE DEF Goes, Went, Goes2, low3, high3, low4, high4
  <2> QED BY <1>4, <1>7, <2>1, Zenon
<1> HIDE DEF Goes, Went, Goes2, low3, high3, low4, high4, c
<1> QED BY <1>5, <1>6, <1>8, <1>9, <1>10, <1>11, <1>12, SMT

(* CharLength takes 2 to 4 bytes, none of which is a character by itself *)
LEMMA CharBytes ==
  ASSUME NEW r \in Text, Len(r) >= 1, r[1] >= 128, LX!CharLength(r) # 0
  PROVE  LET l == LX!CharLength(r) IN
         l \in Nat /\ l >= 2 /\ l <= 4 /\ l <= Len(r) /\ \A i \in 1 .. l : r[i] >= 128
<1> DEFINE l == LX!CharLength(r)
<1>1. r \in Seq(Nat) /\ Len(r) \in Nat
  BY LenProperties DEF Text
<1>2. \A i \in 1 .. Len(r) : r[i] \in Nat
  BY <1>1, ElementOfSeq
<1>3. /\ r[1] \in Nat /\ (Len(r) >= 2 => r[2] \in Nat)
      /\ (Len(r) >= 3 => r[3] \in Nat) /\ (Len(r) >= 4 => r[4] \in Nat)
  BY <1>1, <1>2, SMT
<1>4. \/ l = 2 /\ Len(r) >= 2 /\ r[2] >= 128
      \/ l = 3 /\ Len(r) >= 3 /\ r[2] >= 128 /\ r[3] >= 128
      \/ l = 4 /\ Len(r) >= 4 /\ r[2] >= 128 /\ r[3] >= 128 /\ r[4] >= 128
  BY <1>1, <1>3, SMT DEF LX!CharLength
<1> HIDE DEF l
<1>5. l \in Nat /\ l >= 2 /\ l <= 4 /\ l <= Len(r)
  BY <1>1, <1>4, SMT
<1>6. ASSUME NEW i \in 1 .. l PROVE r[i] >= 128
  <2>1. i = 1 \/ i = 2 \/ i = 3 \/ i = 4
    BY <1>5, SMT
  <2>2. CASE i = 1
    BY <2>2
  <2>3. CASE i = 2
    BY <1>4, <2>3
  <2>4. CASE i = 3
    BY <1>4, <2>4, SMT
  <2>5. CASE i = 4
    BY <1>4, <2>5, SMT
  <2> QED BY <2>1, <2>2, <2>3, <2>4, <2>5
<1> QED BY <1>5, <1>6, Zenon DEF l

(* an escape of valid form is read as its bytes *)
LEMMA EscapeFront ==
  ASSUME NEW x \in Text, NEW u \in Text, NEW bytes, Len(x) > 0,
         LX!Escape(x \o u) = [bytes |-> bytes, length |-> Len(x)]
  PROVE  LX!ScanString((<<92>> \o x) \o u) = AfterBytes(bytes, LX!ScanString(u))
<1> DEFINE p == <<92>>
           a == p \o x
           w == x \o u
           t == p \o w
           e == LX!Escape(w)
<1>1. p \in Text /\ Len(p) = 1
  BY OneCharacter, SMT
<1>2. a \in Text /\ Len(a) = Len(p) + Len(x) /\ Len(x) \in Nat /\ w \in Text
  BY <1>1, Joined, Zenon
<1>3. t[1] = 92 /\ Tail(t) = w
  <2>1. 92 \in Nat /\ w \in Text
    BY <1>2, SMT
  <2> HIDE DEF w
  <2> QED BY <2>1, TextBehind
<1>4. a \o u = t
  <2>1. p \in Seq(Nat) /\ x \in Seq(Nat) /\ u \in Seq(Nat)
    BY <1>1, Zenon DEF Text
  <2> HIDE DEF p
  <2> QED BY <2>1, Reassociated
<1>5. e.length = Len(x) /\ e.bytes = bytes
  <2>1. e = [bytes |-> bytes, length |-> Len(x)]
    OBVIOUS
  <2> HIDE DEF e
  <2> QED BY <2>1, Zenon
<1> HIDE DEF t, w
<1>6. FrontLength(t) = 1 + Len(x) /\ FrontBytes(t) = bytes
  <2>1. Len(x) # 0
    BY SMT
  <2> QED BY <1>3, <1>5, <2>1, Zenon DEF FrontLength, FrontBytes, e
<1>7. Len(a) = 1 + Len(x) /\ Len(a) > 0 /\ 1 + Len(x) # 0 /\ t[1] # 34
  BY <1>1, <1>2, <1>3, SMT
<1> HIDE DEF a
<1>8. FrontLength(a \o u) \in {0, Len(a)}
  BY <1>4, <1>6, <1>7, Zenon
<1>9. LX!ScanString(a \o u) =
        IF (a \o u)[1] = 34 THEN [ok |-> TRUE, str |-> <<>>]
        ELSE IF FrontLength(a \o u) = 0 THEN Unscanned
        ELSE AfterBytes(FrontBytes(a \o u), LX!ScanString(u))
  BY <1>2, <1>7, <1>8, ScanFront, Zenon
<1>10. LX!ScanString(a \o u) = AfterBytes(bytes, LX!ScanString(u))
  BY <1>4, <1>6, <1>7, <1>9, Zenon
<1> QED BY <1>10, Zenon DEF a, p

(* the escapes of two characters *)
LEMMA ShortEscape ==
  ASSUME NEW t \in Text, Len(t) >= 1
  PROVE  /\ t[1] \in {34, 92} => LX!Escape(t) = [bytes |-> <<t[1]>>, length |-> 1]
         /\ \A c \in LX!Named : t[1] = LX!Letter(c) => LX!Escape(t) = [bytes |-> <<c>>, length |-> 1]
<1> DEFINE cp1 == LX!get_codepoint(Slice(t, 2, 5))
           cp2 == LX!get_codepoint(Slice(t, 8, 11))
           both == Slice(t, 6, 7)
           x == t[1]
           rest == IF x # 117 \/ cp1 = -1 \/ LX!IsLowSurrogate(cp1) THEN NoEscape
                   ELSE IF ~LX!IsHighSurrogate(cp1) THEN [bytes |-> LX!Utf8(cp1), length |-> 5]
                   ELSE IF both # <<92, 117>> \/ ~LX!IsLowSurrogate(cp2) THEN NoEscape
                   ELSE [bytes |-> LX!Utf8(cp1 * 1024 + cp2 - 56613888), length |-> 11]
<1>1. t \in Seq(Nat) /\ t # <<>>
  <2>1. t \in Seq(Nat)
    BY Zenon DEF Text
  <2> QED BY <2>1, LenProperties
<1>2. LX!Escape(t) =
        IF t = <<>> THEN NoEscape
        ELSE IF x \in {34, 92, 47} THEN [bytes |-> <<x>>, length |-> 1]
        ELSE IF \E c \in LX!Named : x = LX!Letter(c)
             THEN [bytes |-> <<LX!Unnamed(x)>>, length |-> 1]
        ELSE rest
  BY <1>1, EscapeCases, SMT
<1> HIDE DEF x, rest
<1>3. x \in {34, 92} => LX!Escape(t) = [bytes |-> <<x>>, length |-> 1]
  BY <1>1, <1>2, SMT
<1>4. ASSUME NEW c \in LX!Named, x = LX!Letter(c)
      PROVE  LX!Escape(t) = [bytes |-> <<c>>, length |-> 1]
  <2>1. x \in Nat /\ x > 92 /\ LX!Unnamed(x) = c
    BY <1>4, NamedLetters
  <2>2. x \notin {34, 92, 47}
    BY <2>1, SMT
  <2> QED BY <1>1, <1>2, <1>4, <2>1, <2>2, Zenon
<1> QED BY <1>3, <1>4, Zenon DEF x

(* the first of two texts *)
LEMMA TakeIs ==
  ASSUME NEW a \in Text, NEW u \in Text
  PROVE  LX!take_front(a \o u, Len(a)) = a
<1> DEFINE t == a \o u
           n == Len(a)
           p == SubSeq(t, 1, n)
<1>1. /\ t \in Text /\ Len(t) = n + Len(u) /\ n \in Nat /\ Len(u) \in Nat
      /\ \A i \in 1 .. n : t[i] = a[i]
  BY Joined, Zenon
<1> HIDE DEF t
<1>2. t \in Seq(Nat) /\ a \in Seq(Nat) /\ 1 \in 1 .. Len(t) + 1 /\ n \in 0 .. Len(t) /\ 1 <= n + 1
  BY <1>1, SMT DEF Text
<1>3. p \in Seq(Nat) /\ Len(p) = n - 1 + 1 /\ \A i \in 1 .. n - 1 + 1 : p[i] = t[1 + i - 1]
  BY <1>2, CutString
<1> HIDE DEF p, n
<1>4. Len(p) = n /\ \A i \in 1 .. Len(p) : p[i] = a[i]
  <2>1. Len(p) = n
    BY <1>1, <1>3, SMT
  <2> SUFFICES ASSUME NEW i \in 1 .. n PROVE p[i] = a[i]
    BY <2>1, Zenon
  <2>2. i \in 1 .. n - 1 + 1 /\ 1 + i - 1 = i
    BY <1>1, SMT
  <2>3. p[i] = t[1 + i - 1]
    BY <1>3, <2>2, Zenon
  <2> QED BY <1>1, <2>2, <2>3, Zenon
<1>5. p = a
  BY <1>2, <1>3, <1>4, SeqEqual, Zenon DEF n
<1> QED BY <1>5, Zenon DEF p, t, n, LX!take_front

(* the forms of dump_escaped *)
LEMMA SixCharacters ==
  ASSUME NEW e \in Nat, NEW g \in Nat
  PROVE  <<92, 117, 48, 48, e, g>> = <<92>> \o (<<117>> \o <<48, 48, e, g>>)
<1> DEFINE a == 92
           b == 117
           c == 48
           d == 48
           p == <<a>>
           q == <<b>>
           h == <<c, d, e, g>>
           x == q \o h
           y == p \o x
           s == <<a, b, c, d, e, g>>
<1>1. p \in Text /\ Len(p) = 1 /\ p[1] = a /\ q \in Text /\ Len(q) = 1 /\ q[1] = b
  <2>1. a \in Nat /\ b \in Nat
    BY SMT
  <2> HIDE DEF a, b
  <2> QED BY <2>1, OneCharacter
<1>2. h \in Text /\ Len(h) = 4 /\ h[1] = c /\ h[2] = d /\ h[3] = e /\ h[4] = g
  BY SMT DEF Text
<1>3. /\ s \in Text /\ Len(s) = 6 /\ s[1] = a /\ s[2] = b /\ s[3] = c /\ s[4] = d /\ s[5] = e /\ s[6] = g
  BY SMT DEF Text
<1> HIDE DEF p, q, h, s, a, b, c, d
<1>4. x \in Text /\ Len(x) = Len(q) + Len(h)
      /\ (\A i \in 1 .. Len(q) : x[i] = q[i]) /\ \A i \in 1 .. Len(h) : x[Len(q) + i] = h[i]
  <2>1. q \in Text /\ h \in Text
    BY <1>1, <1>2, Zenon
  <2> QED BY <2>1, Joined
<1>5. Len(x) = 5 /\ x[1] = b /\ x[2] = c /\ x[3] = d /\ x[4] = e /\ x[5] = g
  BY <1>1, <1>2, <1>4, SMT
<1> HIDE DEF x
<1>6. y \in Text /\ Len(y) = Len(p) + Len(x)
      /\ (\A i \in 1 .. Len(p) : y[i] = p[i]) /\ \A i \in 1 .. Len(x) : y[Len(p) + i] = x[i]
  <2>1. p \in Text /\ x \in Text
    BY <1>1, <1>4, Zenon
  <2> QED BY <2>1, Joined
<1>7. Len(y) = 6 /\ y[1] = a /\ y[2] = b /\ y[3] = c /\ y[4] = d /\ y[5] = e /\ y[6] = g
  BY <1>1, <1>5, <1>6, SMT
<1> HIDE DEF y
<1>8. \A i \in 1 .. Len(s) : s[i] = y[i]
  <2> SUFFICES ASSUME NEW i \in 1 .. 6 PROVE s[i] = y[i]
    BY <1>3, Zenon
  <2>1. i = 1 \/ i = 2 \/ i = 3 \/ i = 4 \/ i = 5 \/ i = 6
    BY SMT
  <2> QED BY <1>3, <1>7, <2>1
<1>9. s \in Seq(Nat) /\ y \in Seq(Nat) /\ Len(s) = Len(y)
  BY <1>3, <1>6, <1>7 DEF Text
<1>10. s = y
  BY <1>8, <1>9, SeqEqual, Zenon
<1> QED BY <1>10 DEF s, y, x, p, q, h, a, b, c, d

(* characters that are escaped by a letter, and by a backslash *)
IsNamed(c) == c \in LX!Named
IsQuoted(c) == c \in {34, 92}
(* dump_escaped: a backslash and the character, a letter, four digits, or  *)
(* the character itself                                                    *)
LEMMA DumpedCases ==
  ASSUME NEW c \in Nat
  PROVE  /\ c \in {34, 92} => LX!Dumped(c) = <<92>> \o <<c>>
         /\ IsNamed(c) => LX!Dumped(c) = <<92>> \o <<LX!Letter(c)>>
         /\ c < 32 /\ ~IsNamed(c) => LX!Dumped(c) = <<92>> \o (<<117>> \o LX!Hex4(c))
         /\ c >= 32 /\ c \notin {34, 92} => LX!Dumped(c) = <<c>>
         /\ IsNamed(c) => c < 32 /\ LX!Letter(c) \in Nat
<1>1. LX!Dumped(c) = IF c \in {34, 92} THEN <<92, c>>
                     ELSE IF IsNamed(c) THEN <<92, LX!Letter(c)>>
                     ELSE IF c < 32 THEN <<92, 117, 48, 48, LX!hexdigit(c \div 16), LX!hexdigit(c % 16)>>
                     ELSE <<c>>
  BY Zenon DEF LX!Dumped, LX!Quote, LX!Backslash, IsNamed
<1>2. IsNamed(c) => c < 32 /\ c \notin {34, 92} /\ LX!Letter(c) \in Nat
  <2>1. IsNamed(c) => c < 32 /\ c \notin {34, 92}
    BY EscapeLetters, SMT DEF IsNamed
  <2> QED BY <2>1, NamedLetters DEF IsNamed
<1>3. c \in {34, 92} => LX!Dumped(c) = <<92>> \o <<c>>
  <2>1. 92 \in Nat
    BY SMT
  <2>2. <<92, c>> = <<92>> \o <<c>>
    BY <2>1, TwoCharacters
  <2> QED BY <1>1, <2>2
<1>4. ASSUME IsNamed(c) PROVE LX!Dumped(c) = <<92>> \o <<LX!Letter(c)>>
  <2>1. 92 \in Nat /\ LX!Letter(c) \in Nat
    BY <1>2, <1>4, SMT
  <2>2. <<92, LX!Letter(c)>> = <<92>> \o <<LX!Letter(c)>>
    BY <2>1, TwoCharacters
  <2> QED BY <1>1, <1>2, <1>4, <2>2
<1>5. ASSUME c < 32, ~IsNamed(c) PROVE LX!Dumped(c) = <<92>> \o (<<117>> \o LX!Hex4(c))
  <2> DEFINE d == LX!hexdigit(c \div 16)
             e == LX!hexdigit(c % 16)
  <2>1. c \div 4096 = 0 /\ (c \div 256) % 16 = 0 /\ (c \div 16) % 16 = c \div 16
        /\ c \div 16 \in Nat /\ c \div 16 < 16 /\ c % 16 \in Nat /\ c % 16 < 16
    BY <1>5, SMT
  <2>2. LX!hexdigit(0) = 48
    BY SMT DEF LX!hexdigit
  <2>3. LX!Hex4(c) = <<48, 48, d, e>>
    BY <2>1, <2>2, SMT DEF LX!Hex4
  <2>4. d \in Nat /\ e \in Nat
    BY <2>1, HexDigits
  <2> HIDE DEF d, e
  <2>5. <<92, 117, 48, 48, d, e>> = <<92>> \o (<<117>> \o <<48, 48, d, e>>)
    BY <2>4, SixCharacters, Zenon
  <2>6. c \notin {34, 92}
    BY <1>5, SMT
  <2>7. LX!Dumped(c) = <<92, 117, 48, 48, d, e>>
    BY <1>1, <1>5, <2>6, Zenon DEF d, e
  <2> QED BY <2>3, <2>5, <2>7
<1>6. ASSUME c >= 32, c \notin {34, 92} PROVE LX!Dumped(c) = <<c>>
  <2>1. ~(c < 32) /\ ~IsNamed(c)
    BY <1>2, <1>6, SMT
  <2> QED BY <1>1, <1>6, <2>1, Zenon
<1> QED BY <1>2, <1>3, <1>4, <1>5, <1>6, Zenon

(* what stands for one byte that is a character by itself is read as it *)
LEMMA ScanEscaped ==
  ASSUME NEW c \in Nat, c < 32, NEW u \in Text
  PROVE  LX!ScanString((<<92>> \o (<<117>> \o LX!Hex4(c))) \o u) = AfterBytes(<<c>>, LX!ScanString(u))
<1> DEFINE x == <<117>> \o LX!Hex4(c)
           t == x \o u
           cp1 == LX!get_codepoint(Slice(t, 2, 5))
<1>1. c \in Word
  BY SMT DEF Word, Below
<1>2. x \in Text /\ Len(x) = 5
  <2> DEFINE p == <<117>>
             h == LX!Hex4(c)
  <2>1. p \in Text /\ Len(p) = 1
    BY OneCharacter, SMT
  <2>2. h \in Text /\ Len(h) = 4
    BY <1>1, HexText
  <2> HIDE DEF p, h
  <2>3. p \o h \in Text /\ Len(p \o h) = Len(p) + Len(h)
    BY <2>1, <2>2, Joined, Zenon
  <2>4. Len(p \o h) = 5
    BY <2>1, <2>2, <2>3, SMT
  <2> QED BY <2>3, <2>4 DEF p, h
<1>3. t = Hexed(c, u)
  BY DEF Hexed
<1>4. t \in Text /\ t[1] = 117 /\ t # <<>> /\ cp1 = c
  <2>1. /\ Hexed(c, u) \in Text /\ Hexed(c, u)[1] = 117 /\ Hexed(c, u) # <<>>
        /\ LX!get_codepoint(Slice(Hexed(c, u), 2, 5)) = c
    BY <1>1, HexFront, SMT
  <2> HIDE DEF t
  <2> QED BY <1>3, <2>1, Zenon
<1> HIDE DEF t
<1> DEFINE cp2 == LX!get_codepoint(Slice(t, 8, 11))
           both == Slice(t, 6, 7)
<1>5. LX!Escape(t) =
        IF cp1 = -1 \/ LX!IsLowSurrogate(cp1) THEN NoEscape
        ELSE IF ~LX!IsHighSurrogate(cp1) THEN [bytes |-> LX!Utf8(cp1), length |-> 5]
        ELSE IF both # <<92, 117>> \/ ~LX!IsLowSurrogate(cp2) THEN NoEscape
        ELSE [bytes |-> LX!Utf8(cp1 * 1024 + cp2 - 56613888), length |-> 11]
  <2>1. t \in Seq(Nat)
    BY <1>4, Zenon DEF Text
  <2> QED BY <1>4, <2>1, HexCases, SMT
<1>6. cp1 # -1 /\ ~LX!IsLowSurrogate(cp1) /\ ~LX!IsHighSurrogate(cp1) /\ LX!Utf8(cp1) = <<c>>
  <2> HIDE DEF cp1
  <2> QED BY <1>4, SMT DEF LX!IsLowSurrogate, LX!IsHighSurrogate, LX!Utf8
<1> HIDE DEF cp1, cp2, both
<1>7. LX!Escape(t) = [bytes |-> <<c>>, length |-> 5]
  <2> DEFINE e == LX!Escape(t)
  <2>1. e = IF cp1 = -1 \/ LX!IsLowSurrogate(cp1) THEN NoEscape
        ELSE IF ~LX!IsHighSurrogate(cp1) THEN [bytes |-> LX!Utf8(cp1), length |-> 5]
        ELSE IF both # <<92, 117>> \/ ~LX!IsLowSurrogate(cp2) THEN NoEscape
        ELSE [bytes |-> LX!Utf8(cp1 * 1024 + cp2 - 56613888), length |-> 11]
    BY <1>5, SMT
  <2> HIDE DEF e
  <2>2. e = [bytes |-> LX!Utf8(cp1), length |-> 5]
    BY <1>6, <2>1, SMT
  <2> QED BY <1>6, <2>2, Zenon DEF e
<1> HIDE DEF t
<1> HIDE DEF x
<1>8. LX!Escape(x \o u) = [bytes |-> <<c>>, length |-> Len(x)] /\ Len(x) > 0
  <2>1. Len(x) > 0
    BY <1>2, SMT
  <2> QED BY <1>2, <1>7, <2>1, Zenon DEF t
<1>9. LX!ScanString((<<92>> \o x) \o u) = AfterBytes(<<c>>, LX!ScanString(u))
  BY <1>2, <1>8, EscapeFront, Zenon
<1> QED BY <1>9 DEF x

(* d behind a backslash stands for c *)
StandsFor(d, c) == (IsQuoted(c) /\ d = c) \/ (IsNamed(c) /\ d = LX!Letter(c))
(* an escape of two characters is read as what it stands for *)
LEMMA ScanShort ==
  ASSUME NEW c \in Nat, NEW d \in Nat, NEW u \in Text,
         StandsFor(d, c)
  PROVE  LX!ScanString((<<92>> \o <<d>>) \o u) = AfterBytes(<<c>>, LX!ScanString(u))
<1> DEFINE x == <<d>>
           t == x \o u
<1>1. x \in Text /\ Len(x) = 1
  BY OneCharacter
<1>2. t \in Text /\ Len(t) = Len(u) + 1 /\ t[1] = d
  BY TextBehind
<1>3. Len(t) >= 1
  BY <1>2, LenProperties, SMT DEF Text
<1> HIDE DEF t
<1>4. LX!Escape(t) = [bytes |-> <<c>>, length |-> 1]
  <2>1. /\ t[1] \in {34, 92} => LX!Escape(t) = [bytes |-> <<t[1]>>, length |-> 1]
        /\ \A b \in LX!Named : t[1] = LX!Letter(b) => LX!Escape(t) = [bytes |-> <<b>>, length |-> 1]
    BY <1>2, <1>3, ShortEscape
  <2>2. CASE IsQuoted(c) /\ d = c
    BY <1>2, <2>1, <2>2, Zenon DEF IsQuoted
  <2>3. CASE IsNamed(c) /\ d = LX!Letter(c)
    BY <1>2, <2>1, <2>3, Zenon DEF IsNamed
  <2> QED BY <2>2, <2>3, Zenon DEF StandsFor
<1> HIDE DEF x
<1>5. LX!Escape(x \o u) = [bytes |-> <<c>>, length |-> Len(x)] /\ Len(x) > 0
  <2>1. Len(x) > 0
    BY <1>1, SMT
  <2> QED BY <1>1, <1>4, <2>1, Zenon DEF t
<1>6. LX!ScanString((<<92>> \o x) \o u) = AfterBytes(<<c>>, LX!ScanString(u))
  BY <1>1, <1>5, EscapeFront, Zenon
<1> QED BY <1>6 DEF x

(* a character that needs no escape is read as it is *)
LEMMA ScanPlain ==
  ASSUME NEW c \in Nat, 32 <= c, c < 128, c \notin {34, 92}, NEW u \in Text
  PROVE  LX!ScanString(<<c>> \o u) = AfterBytes(<<c>>, LX!ScanString(u))
<1> DEFINE x == <<c>>
           t == x \o u
<1>1. x \in Text /\ Len(x) = 1 /\ Len(x) > 0
  BY OneCharacter
<1>2. t \in Text /\ t[1] = c
  BY TextBehind
<1> HIDE DEF t
<1>3. LX!CharLength(t) = 1 /\ t[1] # 34 /\ t[1] # 92
  BY <1>2, SMT DEF LX!CharLength
<1>4. FrontLength(t) = 1 /\ FrontBytes(t) = LX!take_front(t, 1)
  BY <1>3, Zenon DEF FrontLength, FrontBytes
<1> HIDE DEF x
<1>5. LX!take_front(x \o u, Len(x)) = x
  BY <1>1, TakeIs
<1>6. LX!take_front(t, 1) = x
  BY <1>1, <1>5 DEF t
<1>7. FrontLength(x \o u) \in {0, Len(x)}
  BY <1>1, <1>4, Zenon DEF t
<1>8. LX!ScanString(x \o u) =
           IF (x \o u)[1] = 34 THEN [ok |-> TRUE, str |-> <<>>]
           ELSE IF FrontLength(x \o u) = 0 THEN Unscanned
           ELSE AfterBytes(FrontBytes(x \o u), LX!ScanString(u))
  BY <1>1, <1>7, ScanFront, Zenon
<1>9. LX!ScanString(x \o u) =
           IF t[1] = 34 THEN [ok |-> TRUE, str |-> <<>>]
           ELSE IF FrontLength(t) = 0 THEN Unscanned
           ELSE AfterBytes(FrontBytes(t), LX!ScanString(u))
  BY <1>8, Zenon DEF t
<1>10. 1 # 0
  BY SMT
<1>11. LX!ScanString(x \o u) = AfterBytes(x, LX!ScanString(u))
  BY <1>3, <1>4, <1>6, <1>9, <1>10, Zenon
<1> QED BY <1>11 DEF x

(* bytes that are characters by themselves *)
Ascii == Below(128)
(* what dump_escaped writes of a byte below 128 is read as this byte *)
LEMMA ScanByte ==
  ASSUME NEW c \in Ascii, NEW u \in Text
  PROVE  LX!ScanString(LX!Dumped(c) \o u) = AfterBytes(<<c>>, LX!ScanString(u))
<1>0. c \in Nat /\ c < 128
  BY SMT DEF Ascii, Below
<1>6. c \in Nat
  BY <1>0
<1>1. CASE IsQuoted(c)
  <2>1. LX!Dumped(c) = <<92>> \o <<c>>
    BY <1>0, <1>1, DumpedCases DEF IsQuoted
  <2>2. LX!ScanString((<<92>> \o <<c>>) \o u) = AfterBytes(<<c>>, LX!ScanString(u))
    <3>1. StandsFor(c, c)
      BY <1>1, Zenon DEF StandsFor
    <3> QED BY <1>6, <3>1, ScanShort
  <2> QED BY <2>1, <2>2
<1>2. CASE IsNamed(c)
  <2>1. LX!Dumped(c) = <<92>> \o <<LX!Letter(c)>> /\ LX!Letter(c) \in Nat
    BY <1>0, <1>2, DumpedCases
  <2>2. LX!ScanString((<<92>> \o <<LX!Letter(c)>>) \o u) = AfterBytes(<<c>>, LX!ScanString(u))
    <3>1. StandsFor(LX!Letter(c), c)
      BY <1>2, Zenon DEF StandsFor
    <3> QED BY <1>6, <2>1, <3>1, ScanShort
  <2> QED BY <2>1, <2>2
<1>3. CASE c < 32 /\ ~IsNamed(c)
  <2>1. LX!Dumped(c) = <<92>> \o (<<117>> \o LX!Hex4(c))
    BY <1>0, <1>3, DumpedCases
  <2>2. LX!ScanString((<<92>> \o (<<117>> \o LX!Hex4(c))) \o u) = AfterBytes(<<c>>, LX!ScanString(u))
    BY <1>0, <1>3, ScanEscaped
  <2> QED BY <2>1, <2>2
<1>4. CASE c >= 32 /\ ~IsQuoted(c)
  <2>1. LX!Dumped(c) = <<c>>
    BY <1>0, <1>4, DumpedCases DEF IsQuoted
  <2>2. LX!ScanString(<<c>> \o u) = AfterBytes(<<c>>, LX!ScanString(u))
    BY <1>0, <1>4, ScanPlain DEF IsQuoted
  <2> QED BY <2>1, <2>2
<1>5. c < 32 \/ c >= 32
  BY <1>0, SMT
<1> QED BY <1>1, <1>2, <1>3, <1>4, <1>5, Zenon

(***************************************************************************)
(* What is written of a string, from the front and from behind             *)
(***************************************************************************)

(* what is written is a text *)
LEMMA DumpedText ==
  ASSUME NEW c \in Nat
  PROVE  LX!Dumped(c) \in Text
<1>1. LX!Dumped(c) = IF IsQuoted(c) THEN <<92, c>>
                     ELSE IF IsNamed(c) THEN <<92, LX!Letter(c)>>
                     ELSE IF c < 32 THEN <<92, 117, 48, 48, LX!hexdigit(c \div 16), LX!hexdigit(c % 16)>>
                     ELSE <<c>>
  BY Zenon DEF LX!Dumped, LX!Quote, LX!Backslash, IsNamed, IsQuoted
<1>2. IsNamed(c) => LX!Letter(c) \in Nat
  BY DumpedCases
<1>3. c < 32 => LX!hexdigit(c \div 16) \in Nat /\ LX!hexdigit(c % 16) \in Nat
  <2>1. c < 32 => c \div 16 \in Nat /\ c \div 16 < 16 /\ c % 16 \in Nat /\ c % 16 < 16
    BY SMT
  <2> QED BY <2>1, HexDigits
<1>4. <<92, c>> \in Text /\ <<c>> \in Text
  BY SMT DEF Text
<1>5. IsNamed(c) => <<92, LX!Letter(c)>> \in Text
  BY <1>2, SMT DEF Text
<1>6. c < 32 => <<92, 117, 48, 48, LX!hexdigit(c \div 16), LX!hexdigit(c % 16)>> \in Text
  <2> DEFINE d == LX!hexdigit(c \div 16)
             e == LX!hexdigit(c % 16)
  <2>1. c < 32 => d \in Nat /\ e \in Nat
    BY <1>3
  <2> HIDE DEF d, e
  <2>2. c < 32 => <<92, 117, 48, 48, d, e>> \in Text
    BY <2>1, SMT DEF Text
  <2> QED BY <2>2, SMT DEF d, e
<1> QED BY <1>1, <1>4, <1>5, <1>6

(* the texts in front of and from each character on *)
WrittenTo(f, s) ==
  /\ f \in [0 .. Len(s) -> Text] /\ f[0] = <<>>
  /\ \A i \in 1 .. Len(s) : f[i] = f[i - 1] \o LX!Dumped(s[i])
WrittenFrom(e, s) ==
  /\ e \in [0 .. Len(s) -> Text] /\ e[0] = <<34>>
  /\ \A k \in 1 .. Len(s) : e[k] = LX!Dumped(s[Len(s) - k + 1]) \o e[k - 1]

(* the empty text *)
LEMMA NoText == <<>> \in Text /\ \A t \in Text : <<>> \o t = t /\ t \o <<>> = t
  BY ConcatEmptySeq DEF Text

(* each text made of the one before *)
Goes(next, n) == \A k \in 1 .. n : \A t \in Text : next[k][t] \in Text
Chained(e, n, first, next) ==
  e \in [0 .. n -> Text] /\ e[0] = first /\ \A k \in 1 .. n : e[k] = next[k][e[k - 1]]
(* texts that grow step by step *)
LEMMA Chain ==
  ASSUME NEW n \in Nat, NEW first \in Text, NEW next, Goes(next, n)
  PROVE  \E e : Chained(e, n, first, next)
<1> USE DEF Goes, Chained
<1> DEFINE Round(k, e) == IF k = 0 THEN first ELSE next[k][e[k - 1]]
           step == [k \in 0 .. n |-> [e \in [0 .. k - 1 -> Text] |-> Round(k, e)]]
<1>1. \A k \in 0 .. n : \A e \in [0 .. k - 1 -> Text] : step[k][e] = Round(k, e) /\ Round(k, e) \in Text
  <2> SUFFICES ASSUME NEW k \in 0 .. n, NEW e \in [0 .. k - 1 -> Text]
               PROVE  Round(k, e) \in Text
    BY Zenon
  <2>1. CASE k = 0
    BY <2>1
  <2>2. CASE k # 0
    <3>1. k - 1 \in 0 .. k - 1 /\ k \in 1 .. n
      BY <2>2, SMT
    <3>2. e[k - 1] \in Text
      BY <3>1
    <3>3. next[k][e[k - 1]] \in Text
      BY <3>1, <3>2
    <3> QED BY <2>2, <3>3
  <2> QED BY <2>1, <2>2
<1> HIDE DEF Round
<1>2. PICK e : Recurs(e, step, n, Text)
  <2> HIDE DEF step
  <2>1. StepsIn(step, n, Text)
    BY <1>1 DEF StepsIn
  <2> QED BY <2>1, Recursion
<1>3. e \in [0 .. n -> Text] /\ \A k \in 0 .. n : e[k] = step[k][Earlier(e, k)]
  <2> HIDE DEF step
  <2> QED BY <1>2, Zenon DEF Recurs
<1>4. ASSUME NEW k \in 0 .. n PROVE e[k] = Round(k, Earlier(e, k))
  <2>1. \A i \in 0 .. k - 1 : i \in 0 .. n
    BY SMT
  <2>2. \A i \in 0 .. k - 1 : e[i] \in Text
    BY <1>3, <2>1
  <2>3. Earlier(e, k) \in [0 .. k - 1 -> Text]
    BY <2>2 DEF Earlier
  <2> HIDE DEF step
  <2> QED BY <1>1, <1>3, <2>3
<1>5. e[0] = first
  <2>1. 0 \in 0 .. n
    BY SMT
  <2>2. e[0] = Round(0, Earlier(e, 0))
    BY <1>4, <2>1
  <2> QED BY <2>2, Zenon DEF Round
<1>6. ASSUME NEW k \in 1 .. n PROVE e[k] = next[k][e[k - 1]]
  <2>1. k \in 0 .. n /\ k # 0 /\ k - 1 \in 0 .. k - 1
    BY SMT
  <2>2. e[k] = Round(k, Earlier(e, k))
    BY <1>4, <2>1
  <2>3. Earlier(e, k)[k - 1] = e[k - 1]
    BY <2>1, Zenon DEF Earlier
  <2> QED BY <2>1, <2>2, <2>3, Zenon DEF Round
<1> QED BY <1>3, <1>5, <1>6, Zenon

(* the texts that dump_escaped writes, built from the front and from behind *)
LEMMA Writings ==
  ASSUME NEW s \in Text
  PROVE  (\E e : WrittenFrom(e, s)) /\ \E f : WrittenTo(f, s)
<1> DEFINE n == Len(s)
<1>1. n \in Nat /\ s \in Seq(Nat)
  BY LenProperties DEF Text
<1>2. \A i \in 1 .. n : LX!Dumped(s[i]) \in Text
  BY <1>1, ElementOfSeq, DumpedText
<1>3. \A k \in 1 .. n : n - k + 1 \in 1 .. n
  BY <1>1, SMT
<1>4. \E e : WrittenFrom(e, s)
  <2> DEFINE d(k) == LX!Dumped(s[n - k + 1])
             next == [k \in 1 .. n |-> [t \in Text |-> d(k) \o t]]
  <2>1. \A k \in 1 .. n : d(k) \in Text
    BY <1>2, <1>3, Zenon
  <2> HIDE DEF d, n
  <2>2. \A k \in 1 .. n : \A t \in Text : next[k][t] = d(k) \o t /\ next[k][t] \in Text
    BY <2>1, Joined, Zenon
  <2>3. <<34>> \in Text
    BY OneCharacter, SMT
  <2> HIDE DEF next
  <2>4. PICK e : e \in [0 .. n -> Text] /\ e[0] = <<34>> /\ \A k \in 1 .. n : e[k] = next[k][e[k - 1]]
    <3> DEFINE first == <<34>>
    <3>1. Goes(next, n)
      BY <2>2, Zenon DEF Goes
    <3>2. first \in Text
      BY <2>3
    <3> HIDE DEF first
    <3>3. \E g : Chained(g, n, first, next)
      BY <1>1, <3>1, <3>2, Chain
    <3> QED BY <3>3, Zenon DEF Chained, first
  <2>5. ASSUME NEW k \in 1 .. n PROVE e[k] = d(k) \o e[k - 1]
    <3>1. k - 1 \in 0 .. n
      BY <1>1, SMT
    <3>2. e[k - 1] \in Text
      BY <2>4, <3>1, Zenon
    <3> QED BY <2>2, <2>4, <3>2, Zenon
  <2> QED BY <2>4, <2>5, Zenon DEF WrittenFrom, d, n
<1>5. \E f : WrittenTo(f, s)
  <2> DEFINE d(k) == LX!Dumped(s[k])
             next == [k \in 1 .. n |-> [t \in Text |-> t \o d(k)]]
  <2>1. \A k \in 1 .. n : d(k) \in Text
    BY <1>2, Zenon
  <2> HIDE DEF d, n
  <2>2. \A k \in 1 .. n : \A t \in Text : next[k][t] = t \o d(k) /\ next[k][t] \in Text
    BY <2>1, Joined, Zenon
  <2>3. <<>> \in Text
    BY NoText
  <2> HIDE DEF next
  <2>4. PICK f : f \in [0 .. n -> Text] /\ f[0] = <<>> /\ \A k \in 1 .. n : f[k] = next[k][f[k - 1]]
    <3> DEFINE first == <<>>
    <3>1. Goes(next, n)
      BY <2>2, Zenon DEF Goes
    <3>2. first \in Text
      BY <2>3
    <3> HIDE DEF first
    <3>3. \E g : Chained(g, n, first, next)
      BY <1>1, <3>1, <3>2, Chain
    <3> QED BY <3>3, Zenon DEF Chained, first
  <2>5. ASSUME NEW k \in 1 .. n PROVE f[k] = f[k - 1] \o d(k)
    <3>1. k - 1 \in 0 .. n
      BY <1>1, SMT
    <3>2. f[k - 1] \in Text
      BY <2>4, <3>1, Zenon
    <3> QED BY <2>2, <2>4, <3>2, Zenon
  <2> QED BY <2>4, <2>5, Zenon DEF WrittenTo, d, n
<1> QED BY <1>4, <1>5

(* the two meet anywhere in the text *)
LEMMA WrittenMeet ==
  ASSUME NEW s \in Text, NEW e, NEW f, WrittenFrom(e, s), WrittenTo(f, s)
  PROVE  f[Len(s)] \o <<34>> = e[Len(s)]
<1> DEFINE n == Len(s)
           meet == {i \in Int : f[i] \o e[n - i] = e[n]}
<1>1. n \in Nat
  BY LenProperties DEF Text
<1>2. /\ e \in [0 .. n -> Text] /\ e[0] = <<34>>
      /\ \A k \in 1 .. n : e[k] = LX!Dumped(s[n - k + 1]) \o e[k - 1]
      /\ f \in [0 .. n -> Text] /\ f[0] = <<>>
      /\ \A i \in 1 .. n : f[i] = f[i - 1] \o LX!Dumped(s[i])
  BY Zenon DEF WrittenFrom, WrittenTo
<1> HIDE DEF n
<1>3. 0 \in Int /\ n \in Int /\ 0 \in 0 .. n /\ n \in 0 .. n /\ n - 0 = n /\ n - n = 0
  BY <1>1, SMT
<1>4. 0 \in meet
  <2>1. e[n] \in Text
    BY <1>2, <1>3, Zenon
  <2>2. f[0] \o e[n - 0] = e[n]
    BY <1>2, <1>3, <2>1, NoText, Zenon
  <2> QED BY <1>3, <2>2, Zenon
<1>5. ASSUME NEW i \in 0 .. n - 1, i \in meet PROVE i + 1 \in meet
  <2> DEFINE j == i + 1
             k == n - i
  <2>1. /\ j \in 1 .. n /\ j - 1 = i /\ k \in 1 .. n /\ k - 1 = n - j /\ n - k + 1 = j
        /\ i \in 0 .. n /\ k - 1 \in 0 .. n /\ j \in Int
    BY <1>1, SMT
  <2> DEFINE d == LX!Dumped(s[j])
  <2>2. f[i] \o e[k] = e[n]
    BY <1>5
  <2> HIDE DEF j, k
  <2>3. e[k] = d \o e[k - 1] /\ f[j] = f[i] \o d
    BY <1>2, <2>1, Zenon
  <2>4. f[i] \in Text /\ e[k - 1] \in Text
    BY <1>2, <2>1, Zenon
  <2>5. d \in Text
    <3>1. s[j] \in Nat
      BY <2>1, ElementOfSeq DEF Text, n
    <3> QED BY <3>1, DumpedText
  <2> HIDE DEF d
  <2>6. (f[i] \o d) \o e[k - 1] = f[i] \o (d \o e[k - 1])
    <3> DEFINE x == f[i]
               y == e[k - 1]
    <3>1. x \in Seq(Nat) /\ d \in Seq(Nat) /\ y \in Seq(Nat)
      BY <2>4, <2>5, Zenon DEF Text
    <3> HIDE DEF x, y
    <3>2. (x \o d) \o y = x \o (d \o y)
      BY <3>1, Reassociated
    <3> QED BY <3>2 DEF x, y
  <2>7. f[j] \o e[n - j] = e[n]
    BY <2>1, <2>2, <2>3, <2>6, Zenon
  <2>8. j \in meet
    BY <2>1, <2>7, Zenon
  <2> QED BY <2>8, Zenon DEF j
<1> HIDE DEF meet
<1>6. \A i \in 0 .. n : i \in meet
  <2>1. \A i \in 0 .. n - 1 : i \in meet => i + 1 \in meet
    BY <1>5
  <2> QED BY <1>3, <1>4, <2>1, FromFront
<1>7. f[n] \o e[n - n] = e[n]
  BY <1>3, <1>6, Zenon DEF meet
<1> QED BY <1>2, <1>3, <1>7, Zenon DEF n

(* the text of a string is what is written to its end, and the quote *)
LEMMA WrittenText ==
  ASSUME NEW s \in Text, NEW f, WrittenTo(f, s)
  PROVE  LX!dump_escaped(s) = f[Len(s)]
<1> DEFINE n == Len(s)
           parts == [i \in DOMAIN s |-> LX!Dumped(s[i])]
           Is(g) == g = [i \in 1 .. Len(parts) |-> IF i = 1 THEN parts[i] ELSE g[i - 1] \o parts[i]]
           flat == CHOOSE g : Is(g)
           own == [i \in 1 .. n |-> f[i]]
<1>1. n \in Nat /\ DOMAIN s = 1 .. n /\ Len(parts) = n
  <2>1. n \in Nat /\ DOMAIN s = 1 .. n
    BY LenProperties DEF Text
  <2>2. parts = [i \in 1 .. n |-> LX!Dumped(s[i])]
    BY <2>1
  <2> QED BY <2>1, <2>2
<1>2. \A i \in 1 .. n : parts[i] = LX!Dumped(s[i]) /\ parts[i] \in Text
  <2> SUFFICES ASSUME NEW i \in 1 .. n PROVE LX!Dumped(s[i]) \in Text
    BY <1>1
  <2>1. s[i] \in Nat
    BY ElementOfSeq DEF Text
  <2> QED BY <2>1, DumpedText
<1>3. LX!dump_escaped(s) = IF n = 0 THEN parts ELSE flat[n]
  <2>1. LX!dump_escaped(s) = IF Len(parts) = 0 THEN parts ELSE flat[Len(parts)]
    BY Zenon DEF LX!dump_escaped, LX!FlattenSeq
  <2> HIDE DEF parts, flat, n
  <2> QED BY <1>1, <2>1, Zenon
<1>4. /\ f \in [0 .. n -> Text] /\ f[0] = <<>>
      /\ \A i \in 1 .. n : f[i] = f[i - 1] \o LX!Dumped(s[i])
  BY Zenon DEF WrittenTo
<1>5. CASE n = 0
  <2>1. parts = <<>>
    BY <1>1, <1>5
  <2> QED BY <1>3, <1>4, <1>5, <2>1
<1>6. CASE n # 0
  <2> HIDE DEF n, parts
  <2>1. ASSUME NEW i \in 1 .. n PROVE own[i] = IF i = 1 THEN parts[i] ELSE own[i - 1] \o parts[i]
    <3>1. f[i] = f[i - 1] \o parts[i]
      BY <1>2, <1>4, Zenon
    <3>2. CASE i = 1
      <4>1. i - 1 = 0
        BY <3>2, SMT
      <4> QED BY <1>2, <1>4, <3>1, <3>2, <4>1, NoText, Zenon
    <3>3. CASE i # 1
      <4>1. i - 1 \in 1 .. n
        BY <1>1, <3>3, SMT
      <4> QED BY <3>1, <3>3, <4>1, Zenon
    <3> QED BY <3>2, <3>3
  <2>2. Is(own)
    <3>1. own = [i \in 1 .. n |-> IF i = 1 THEN parts[i] ELSE own[i - 1] \o parts[i]]
      BY <2>1, Zenon
    <3> HIDE DEF own
    <3> QED BY <1>1, <3>1, Zenon
  <2>3. Is(flat)
    <3> HIDE DEF Is, own
    <3> QED BY <2>2, Zenon
  <2>4. \A i \in 1 .. n : flat[i] = IF i = 1 THEN parts[i] ELSE flat[i - 1] \o parts[i]
    <3>1. flat = [i \in 1 .. Len(parts) |-> IF i = 1 THEN parts[i] ELSE flat[i - 1] \o parts[i]]
      BY <2>3, Zenon
    <3> HIDE DEF flat
    <3> QED BY <1>1, <3>1, Zenon
  <2> HIDE DEF flat, Is, own
  <2> DEFINE same == {i \in Int : flat[i] = f[i]}
  <2>5. 1 \in Int /\ n \in Int /\ 1 \in 1 .. n /\ n \in 1 .. n /\ 1 - 1 = 0 /\ 1 <= n
    BY <1>1, <1>6, SMT
  <2>6. 1 \in same
    <3>1. f[1] = f[1 - 1] \o parts[1] /\ parts[1] \in Text
      BY <1>2, <1>4, <2>5, Zenon
    <3>2. f[1] = parts[1]
      BY <1>4, <2>5, <3>1, NoText, Zenon
    <3>3. flat[1] = parts[1]
      BY <2>4, <2>5, Zenon
    <3> QED BY <2>5, <3>2, <3>3, Zenon
  <2>7. ASSUME NEW i \in 1 .. n - 1, i \in same PROVE i + 1 \in same
    <3> DEFINE j == i + 1
    <3>1. j \in 1 .. n /\ j # 1 /\ j - 1 = i /\ j \in Int
      BY <1>1, SMT
    <3> HIDE DEF j
    <3>2. flat[j] = flat[i] \o parts[j] /\ f[j] = f[i] \o parts[j]
      BY <1>2, <1>4, <2>4, <3>1, Zenon
    <3>3. flat[j] = f[j]
      BY <2>7, <3>2, Zenon
    <3> QED BY <3>1, <3>3 DEF j
  <2> HIDE DEF same
  <2>8. \A i \in 1 .. n : i \in same
    <3>1. \A i \in 1 .. n - 1 : i \in same => i + 1 \in same
      BY <2>7
    <3> QED BY <2>5, <2>6, <3>1, FromFront
  <2>9. flat[n] = f[n]
    BY <2>5, <2>8, Zenon DEF same
  <2> QED BY <1>3, <1>6, <2>9, Zenon DEF n
<1> QED BY <1>5, <1>6

(* what dump_escaped writes, with the closing quote, is the text built from behind *)
LEMMA WrittenString ==
  ASSUME NEW s \in Text
  PROVE  \E e : WrittenFrom(e, s) /\ Append(LX!dump_escaped(s), LX!Quote) = e[Len(s)]
<1>1. PICK e : WrittenFrom(e, s)
  BY Writings
<1>2. PICK f : WrittenTo(f, s)
  BY Writings
<1>3. f[Len(s)] \o <<34>> = e[Len(s)]
  BY <1>1, <1>2, WrittenMeet
<1>4. LX!dump_escaped(s) = f[Len(s)]
  BY <1>2, WrittenText
<1>5. f[Len(s)] \in Text
  <2>1. Len(s) \in 0 .. Len(s)
    BY LenProperties, SMT DEF Text
  <2>2. f \in [0 .. Len(s) -> Text]
    BY <1>2, Zenon DEF WrittenTo
  <2> QED BY <2>1, <2>2, Zenon
<1>6. ASSUME NEW x \in Text PROVE Append(x, 34) = x \o <<34>>
  <2>1. x \in Seq(Nat) /\ 34 \in Nat
    BY SMT DEF Text
  <2> QED BY <2>1, AppendIsConcat
<1>7. Append(LX!dump_escaped(s), LX!Quote) = e[Len(s)]
  BY <1>3, <1>4, <1>5, <1>6, SMT DEF LX!Quote
<1> QED BY <1>1, <1>7

(* only a byte that is no character by itself is written as one that can go on *)
LEMMA DumpedFirst ==
  ASSUME NEW c \in Nat, NEW u \in Text
  PROVE  /\ LX!Dumped(c) \o u \in Text /\ Len(LX!Dumped(c) \o u) >= 1
         /\ c >= 128 => LX!Dumped(c) = <<c>>
         /\ At(LX!Dumped(c) \o u, 1) = IF c >= 128 THEN c ELSE 0
<1> DEFINE d == LX!Dumped(c)
           t == d \o u
<1>1. d = IF IsQuoted(c) THEN <<92, c>>
          ELSE IF IsNamed(c) THEN <<92, LX!Letter(c)>>
          ELSE IF c < 32 THEN <<92, 117, 48, 48, LX!hexdigit(c \div 16), LX!hexdigit(c % 16)>>
          ELSE <<c>>
  BY Zenon DEF LX!Dumped, LX!Quote, LX!Backslash, IsNamed, IsQuoted
<1>2. c >= 128 => d = <<c>>
  <2>1. c >= 128 => c >= 32 /\ c \notin {34, 92}
    BY SMT
  <2> QED BY <2>1, DumpedCases
<1>3. d \in Text
  BY DumpedText
<1>4. Len(d) >= 1 /\ d[1] \in {92, c} /\ (c < 128 => d[1] < 128)
  <2> HIDE DEF d
  <2> DEFINE l == LX!Letter(c)
             x == LX!hexdigit(c \div 16)
             y == LX!hexdigit(c % 16)
  <2>1. d = IF IsQuoted(c) THEN <<92, c>> ELSE IF IsNamed(c) THEN <<92, l>>
            ELSE IF c < 32 THEN <<92, 117, 48, 48, x, y>> ELSE <<c>>
    BY <1>1
  <2> HIDE DEF l, x, y
  <2>2. CASE d = <<92, c>>
    BY <2>2, SMT
  <2>3. CASE d = <<92, l>>
    BY <2>3, SMT
  <2>4. CASE d = <<92, 117, 48, 48, x, y>>
    BY <2>4, SMT
  <2>5. CASE d = <<c>>
    BY <2>5, SMT
  <2> QED BY <2>1, <2>2, <2>3, <2>4, <2>5, Zenon
<1> HIDE DEF d
<1>5. /\ t \in Text /\ Len(t) = Len(d) + Len(u) /\ Len(d) \in Nat /\ Len(u) \in Nat
      /\ \A i \in 1 .. Len(d) : t[i] = d[i]
  BY <1>3, Joined, Zenon
<1> HIDE DEF t
<1>6. Len(t) >= 1 /\ 1 \in 1 .. Len(d)
  BY <1>4, <1>5, SMT
<1>7. t[1] = d[1]
  BY <1>5, <1>6, Zenon
<1>8. c >= 128 => d[1] = c
  BY <1>2, OneCharacter
<1>9. At(t, 1) = IF c >= 128 THEN c ELSE 0
  BY <1>4, <1>6, <1>7, <1>8, SMT DEF At
<1> QED BY <1>2, <1>5, <1>6, <1>9, Zenon DEF t, d

(* the bytes behind a first one *)
LEMMA AtBehind ==
  ASSUME NEW c \in Nat, NEW u \in Text, NEW i \in Nat \ {0}
  PROVE  At(<<c>> \o u, i + 1) = At(u, i)
<1> DEFINE p == <<c>>
           t == p \o u
<1>1. p \in Text /\ Len(p) = 1
  BY OneCharacter
<1> HIDE DEF p
<1>2. /\ t \in Text /\ Len(t) = Len(p) + Len(u) /\ Len(u) \in Nat
      /\ \A j \in 1 .. Len(u) : t[Len(p) + j] = u[j]
  BY <1>1, Joined, Zenon
<1> HIDE DEF t
<1>3. i <= Len(u) => t[i + 1] = u[i]
  <2>1. i <= Len(u) => i \in 1 .. Len(u) /\ Len(p) + i = i + 1
    BY <1>1, <1>2, SMT
  <2> QED BY <1>2, <2>1, Zenon
<1>4. i + 1 <= Len(t) <=> i <= Len(u)
  BY <1>1, <1>2, SMT
<1>5. At(t, i + 1) = At(u, i)
  BY <1>3, <1>4, Zenon DEF At
<1> QED BY <1>5 DEF t, p

(* the places of a string *)
LEMMA PlaceIs ==
  ASSUME NEW s \in Text, NEW k \in 1 .. Len(s)
  PROVE  /\ Rest(s, k) \in Text /\ Len(Rest(s, k)) = k
         /\ Rest(s, k)[1] = s[Len(s) - k + 1] /\ s[Len(s) - k + 1] \in Nat
         /\ \A i \in Nat \ {0} : At(Rest(s, k), i + 1) = At(Rest(s, k - 1), i)
<1> DEFINE n == Len(s)
           r == Rest(s, k)
           u == Rest(s, k - 1)
<1>1. n \in Nat /\ s \in Seq(Nat)
  BY LenProperties DEF Text
<1>2. k \in 0 .. n /\ k - 1 \in 0 .. n /\ n - k + 1 \in 1 .. n /\ 1 \in 1 .. k
  BY <1>1, SMT
<1>3. r \in Seq(Nat) /\ Len(r) = k /\ \A i \in 1 .. k : r[i] = s[n - k + i]
  BY <1>1, <1>2, RestIs, Zenon
<1>4. u \in Seq(Nat) /\ Len(u) = k - 1 /\ \A i \in 1 .. k - 1 : u[i] = s[n - (k - 1) + i]
  BY <1>1, <1>2, RestIs, Zenon
<1> HIDE DEF r, u
<1>5. s[n - k + 1] \in Nat
  BY <1>1, <1>2, ElementOfSeq
<1> HIDE DEF n
<1>6. ASSUME NEW i \in Nat \ {0} PROVE At(r, i + 1) = At(u, i)
  <2>1. CASE i <= k - 1
    <3>1. i \in 1 .. k - 1 /\ i + 1 \in 1 .. k /\ n - (k - 1) + i = n - k + (i + 1)
      BY <1>1, <2>1, SMT
    <3>2. r[i + 1] = u[i]
      <4>1. r[i + 1] = s[n - k + (i + 1)] /\ u[i] = s[n - (k - 1) + i]
        BY <1>3, <1>4, <3>1
      <4> QED BY <3>1, <4>1, Zenon
    <3>3. i + 1 <= Len(r) /\ i <= Len(u)
      BY <1>3, <1>4, <2>1, SMT
    <3> QED BY <3>2, <3>3, Zenon DEF At
  <2>2. CASE ~(i <= k - 1)
    <3>1. ~(i + 1 <= Len(r)) /\ ~(i <= Len(u))
      BY <1>3, <1>4, <2>2, SMT
    <3> QED BY <3>1, Zenon DEF At
  <2> QED BY <2>1, <2>2
<1> QED BY <1>2, <1>3, <1>5, <1>6, Zenon DEF r, u, n, Text

(* a place of the text is a place of the string *)
LEMMA WrittenPlace ==
  ASSUME NEW s \in Text, NEW e, WrittenFrom(e, s), NEW k \in 1 .. Len(s)
  PROVE  LET c == Rest(s, k)[1] IN
         /\ e[k] = LX!Dumped(c) \o e[k - 1] /\ e[k] \in Text /\ e[k - 1] \in Text
         /\ Len(e[k]) >= 1 /\ c \in Nat /\ At(e[k], 1) = At(Rest(s, k), 1)
         /\ c >= 128 => e[k] = <<c>> \o e[k - 1]
<1> DEFINE c == Rest(s, k)[1]
           n == Len(s)
           r == Rest(s, k)
<1>1. n \in Nat /\ k \in 0 .. n /\ k - 1 \in 0 .. n
  <2>1. n \in Nat
    BY LenProperties DEF Text
  <2> QED BY <2>1, SMT
<1>2. c = s[n - k + 1] /\ c \in Nat /\ Len(r) = k
  BY PlaceIs, Zenon
<1>3. e[k] = LX!Dumped(s[n - k + 1]) \o e[k - 1] /\ e[k] \in Text /\ e[k - 1] \in Text
  BY <1>1, Zenon DEF WrittenFrom
<1>4. e[k] = LX!Dumped(c) \o e[k - 1]
  BY <1>2, <1>3, Zenon
<1> HIDE DEF c, r
<1>5. /\ Len(e[k]) >= 1 /\ (c >= 128 => LX!Dumped(c) = <<c>>)
      /\ At(e[k], 1) = IF c >= 128 THEN c ELSE 0
  <2> DEFINE u == e[k - 1]
  <2>1. u \in Text
    BY <1>3
  <2> HIDE DEF u
  <2>2. /\ Len(LX!Dumped(c) \o u) >= 1
        /\ c >= 128 => LX!Dumped(c) = <<c>>
        /\ At(LX!Dumped(c) \o u, 1) = IF c >= 128 THEN c ELSE 0
    BY <1>2, <2>1, DumpedFirst
  <2> QED BY <1>4, <2>2 DEF u
<1>6. At(r, 1) = IF c >= 128 THEN c ELSE 0
  <2>1. 1 <= Len(r)
    BY <1>2, SMT
  <2>2. r[1] = c
    BY DEF r, c
  <2> QED BY <2>1, <2>2, Zenon DEF At
<1>7. At(e[k], 1) = At(r, 1)
  BY <1>5, <1>6
<1>8. c >= 128 => e[k] = <<c>> \o e[k - 1]
  BY <1>4, <1>5, Zenon
<1> QED BY <1>2, <1>3, <1>4, <1>5, <1>7, <1>8, Zenon DEF c, r

(* the bytes that CharLength looks at are the same in the string and in    *)
(* what is written of it                                                   *)
LEMMA PlaceOn ==
  ASSUME NEW s \in Text, NEW e, WrittenFrom(e, s), NEW k \in 1 .. Len(s), Rest(s, k)[1] >= 128,
         NEW i \in Nat \ {0}
  PROVE  /\ At(e[k], i + 1) = At(e[k - 1], i)
         /\ At(Rest(s, k), i + 1) = At(Rest(s, k - 1), i)
<1> DEFINE c == Rest(s, k)[1]
           u == e[k - 1]
<1>1. c \in Nat /\ u \in Text /\ e[k] = <<c>> \o u
  BY WrittenPlace, Zenon
<1>2. At(Rest(s, k), i + 1) = At(Rest(s, k - 1), i)
  BY PlaceIs, Zenon
<1> HIDE DEF c, u
<1>3. At(<<c>> \o u, i + 1) = At(u, i)
  BY <1>1, AtBehind, Zenon
<1> QED BY <1>1, <1>2, <1>3, Zenon DEF u

(* a byte that can go on stands at the front of the string if and only if  *)
(* it stands at the front of what is written of it                         *)
LEMMA SameFirst ==
  ASSUME NEW s \in Text, NEW e, WrittenFrom(e, s), NEW k \in 0 .. Len(s)
  PROVE  At(e[k], 1) = At(Rest(s, k), 1)
<1>1. Len(s) \in Nat /\ s \in Seq(Nat)
  BY LenProperties DEF Text
<1>2. CASE k = 0
  <2>1. Len(Rest(s, k)) = 0
    BY <1>1, <1>2, RestIs
  <2>2. At(Rest(s, k), 1) = 0
    BY <2>1, SMT DEF At
  <2>3. e[k] = <<34>>
    BY <1>2, Zenon DEF WrittenFrom
  <2>4. At(e[k], 1) = 0
    BY <2>3, SMT DEF At
  <2> QED BY <2>2, <2>4
<1>3. CASE k # 0
  <2>1. k \in 1 .. Len(s)
    BY <1>1, <1>3, SMT
  <2> QED BY <2>1, WrittenPlace, Zenon
<1> QED BY <1>2, <1>3

(* no character by itself begins here *)
Wide(s, k) == At(Rest(s, k), 1) # 0
(* where such a byte stands *)
LEMMA WidePlace ==
  ASSUME NEW s \in Text, NEW k \in 0 .. Len(s), Wide(s, k)
  PROVE  k \in 1 .. Len(s) /\ Rest(s, k)[1] >= 128
<1>1. Len(s) \in Nat /\ s \in Seq(Nat)
  BY LenProperties DEF Text
<1>2. Len(Rest(s, k)) = k
  BY <1>1, RestIs
<1> DEFINE r == Rest(s, k)
<1>3. 1 <= Len(r) /\ r[1] >= 128
  BY SMT DEF Wide, At
<1> QED BY <1>1, <1>2, <1>3, SMT

(* the second byte of a character in the string and in the text *)
LEMMA SameSecond ==
  ASSUME NEW s \in Text, NEW e, WrittenFrom(e, s), NEW k \in 0 .. Len(s), Wide(s, k)
  PROVE  At(e[k], 2) = At(Rest(s, k), 2) /\ At(Rest(s, k), 2) = At(Rest(s, k - 1), 1)
<1>1. k \in 1 .. Len(s) /\ Rest(s, k)[1] >= 128
  BY WidePlace, Zenon
<1>2. k - 1 \in 0 .. Len(s)
  BY <1>1, LenProperties, SMT DEF Text
<1>3. 1 \in Nat \ {0} /\ 1 + 1 = 2
  BY SMT
<1>4. At(e[k], 1 + 1) = At(e[k - 1], 1) /\ At(Rest(s, k), 1 + 1) = At(Rest(s, k - 1), 1)
  BY <1>1, <1>3, PlaceOn
<1>5. At(e[k - 1], 1) = At(Rest(s, k - 1), 1)
  BY <1>2, SameFirst
<1> QED BY <1>3, <1>4, <1>5

(* the third byte of a character in the string and in the text *)
LEMMA SameThird ==
  ASSUME NEW s \in Text, NEW e, WrittenFrom(e, s), NEW k \in 0 .. Len(s), Wide(s, k),
         At(Rest(s, k), 2) # 0
  PROVE  At(e[k], 3) = At(Rest(s, k), 3) /\ At(Rest(s, k), 3) = At(Rest(s, k - 1), 2)
<1>1. k \in 1 .. Len(s) /\ Rest(s, k)[1] >= 128
  BY WidePlace, Zenon
<1>2. k - 1 \in 0 .. Len(s)
  BY <1>1, LenProperties, SMT DEF Text
<1>3. 2 \in Nat \ {0} /\ 2 + 1 = 3
  BY SMT
<1>4. At(e[k], 2 + 1) = At(e[k - 1], 2) /\ At(Rest(s, k), 2 + 1) = At(Rest(s, k - 1), 2)
  BY <1>1, <1>3, PlaceOn
<1>5. Wide(s, k - 1)
  BY SameSecond DEF Wide
<1>6. At(e[k - 1], 2) = At(Rest(s, k - 1), 2)
  BY <1>2, <1>5, SameSecond
<1> QED BY <1>3, <1>4, <1>6

(* the fourth byte of a character in the string and in the text *)
LEMMA SameFourth ==
  ASSUME NEW s \in Text, NEW e, WrittenFrom(e, s), NEW k \in 0 .. Len(s), Wide(s, k),
         At(Rest(s, k), 2) # 0, At(Rest(s, k), 3) # 0
  PROVE  At(e[k], 4) = At(Rest(s, k), 4)
<1>1. k \in 1 .. Len(s) /\ Rest(s, k)[1] >= 128
  BY WidePlace, Zenon
<1>2. k - 1 \in 0 .. Len(s)
  BY <1>1, LenProperties, SMT DEF Text
<1>3. 3 \in Nat \ {0} /\ 3 + 1 = 4
  BY SMT
<1>4. At(e[k], 3 + 1) = At(e[k - 1], 3) /\ At(Rest(s, k), 3 + 1) = At(Rest(s, k - 1), 3)
  BY <1>1, <1>3, PlaceOn
<1>5. Wide(s, k - 1) /\ At(Rest(s, k - 1), 2) # 0
  BY SameSecond, SameThird DEF Wide
<1>6. At(e[k - 1], 3) = At(Rest(s, k - 1), 3)
  BY <1>2, <1>5, SameThird
<1> QED BY <1>3, <1>4, <1>6

(* CharLength sees the same in the text as in the string *)
LEMMA WideLength ==
  ASSUME NEW s \in Text, NEW e, WrittenFrom(e, s), NEW k \in 1 .. Len(s), Rest(s, k)[1] >= 128
  PROVE  LX!CharLength(e[k]) = LX!CharLength(Rest(s, k))
<1> DEFINE r == Rest(s, k)
           t == e[k]
           c == r[1]
<1>1. r \in Text /\ Len(r) = k /\ c \in Nat /\ t = <<c>> \o e[k - 1] /\ t \in Text /\ Len(t) >= 1 /\ e[k - 1] \in Text
  BY PlaceIs, WrittenPlace, Zenon
<1>6. c >= 128
  OBVIOUS
<1>2. k \in 0 .. Len(s) /\ Len(r) >= 1
  BY <1>1, LenProperties, SMT DEF Text
<1>3. t[1] = c
  <2> DEFINE u == e[k - 1]
  <2>1. u \in Text /\ c \in Nat
    BY <1>1
  <2> HIDE DEF u, c
  <2>2. (<<c>> \o u)[1] = c
    BY <2>1, TextBehind
  <2> QED BY <1>1, <2>2 DEF u
<1>4. Wide(s, k)
  <2>1. At(r, 1) = c /\ c # 0
    <3> HIDE DEF r
    <3> QED BY <1>1, <1>2, <1>6, SMT DEF At
  <2> QED BY <2>1 DEF Wide
<1>5. /\ At(t, 2) = At(r, 2)
      /\ At(r, 2) # 0 => At(t, 3) = At(r, 3)
      /\ At(r, 2) # 0 /\ At(r, 3) # 0 => At(t, 4) = At(r, 4)
  BY <1>2, <1>4, SameSecond, SameThird, SameFourth, Zenon
<1> HIDE DEF r, t
<1> QED BY <1>1, <1>2, <1>3, <1>5, <1>6, SameCharLength, Zenon DEF c, r, t

(* the characters of a part of a string *)
LEMMA CutText ==
  ASSUME NEW r \in Text, NEW l \in 0 .. Len(r)
  PROVE  /\ SubSeq(r, 1, l) \in Text /\ Len(SubSeq(r, 1, l)) = l
         /\ \A i \in 1 .. l : SubSeq(r, 1, l)[i] = r[i]
<1>1. r \in Seq(Nat) /\ Len(r) \in Nat
  BY LenProperties DEF Text
<1>2. 1 \in 1 .. Len(r) + 1 /\ 1 <= l + 1 /\ l - 1 + 1 = l /\ \A i \in 1 .. l : 1 + i - 1 = i
  BY <1>1, SMT
<1> DEFINE b == SubSeq(r, 1, l)
<1>3. b \in Seq(Nat) /\ Len(b) = l - 1 + 1 /\ \A i \in 1 .. l - 1 + 1 : b[i] = r[1 + i - 1]
  BY <1>1, <1>2, CutString
<1> HIDE DEF b
<1>4. \A i \in 1 .. l : b[i] = r[i]
  <2> SUFFICES ASSUME NEW i \in 1 .. l PROVE b[i] = r[i]
    OBVIOUS
  <2>1. b[i] = r[1 + i - 1]
    BY <1>2, <1>3, Zenon
  <2> QED BY <1>2, <2>1, Zenon
<1> QED BY <1>2, <1>3, <1>4, Zenon DEF b, Text

(* a cut that is one character longer *)
LEMMA CutOn ==
  ASSUME NEW r \in Text, NEW i \in Nat, i < Len(r)
  PROVE  SubSeq(r, 1, i) \o <<r[i + 1]>> = SubSeq(r, 1, i + 1)
<1> DEFINE a == SubSeq(r, 1, i)
           c == r[i + 1]
           p == <<c>>
           x == a \o p
           y == SubSeq(r, 1, i + 1)
<1>1. Len(r) \in Nat /\ r \in Seq(Nat)
  BY LenProperties DEF Text
<1>2. i \in 0 .. Len(r) /\ i + 1 \in 0 .. Len(r) /\ i + 1 \in 1 .. Len(r)
  BY <1>1, SMT
<1>3. a \in Text /\ Len(a) = i /\ \A j \in 1 .. i : a[j] = r[j]
  BY <1>2, CutText, Zenon
<1>4. y \in Text /\ Len(y) = i + 1 /\ \A j \in 1 .. i + 1 : y[j] = r[j]
  BY <1>2, CutText, Zenon
<1>5. p \in Text /\ Len(p) = 1 /\ p[1] = c
  <2>1. c \in Nat
    BY <1>1, <1>2, ElementOfSeq
  <2> HIDE DEF c
  <2> QED BY <2>1, OneCharacter
<1> HIDE DEF a, p, y
<1>6. /\ x \in Text /\ Len(x) = Len(a) + Len(p)
      /\ (\A j \in 1 .. Len(a) : x[j] = a[j]) /\ \A j \in 1 .. Len(p) : x[Len(a) + j] = p[j]
  BY <1>3, <1>5, Joined, Zenon
<1> HIDE DEF x
<1>7. \A j \in 1 .. Len(x) : x[j] = y[j]
  <2> SUFFICES ASSUME NEW j \in 1 .. Len(x) PROVE x[j] = y[j]
    OBVIOUS
  <2>1. CASE j = i + 1
    <3>1. 1 \in 1 .. Len(p) /\ Len(a) + 1 = j /\ j \in 1 .. i + 1
      BY <1>3, <1>5, <2>1, SMT
    <3>2. x[j] = p[1] /\ y[j] = r[j]
      BY <1>4, <1>6, <3>1, Zenon
    <3> QED BY <1>5, <2>1, <3>2, Zenon DEF c
  <2>2. CASE j # i + 1
    <3>1. j \in 1 .. Len(a) /\ j \in 1 .. i /\ j \in 1 .. i + 1
      BY <1>3, <1>5, <1>6, <2>2, SMT
    <3>2. x[j] = a[j] /\ a[j] = r[j] /\ y[j] = r[j]
      BY <1>3, <1>4, <1>6, <3>1, Zenon
    <3> QED BY <3>2, Zenon
  <2> QED BY <2>1, <2>2
<1>8. x \in Seq(Nat) /\ y \in Seq(Nat) /\ Len(x) = Len(y)
  <2>1. Len(x) = Len(y)
    BY <1>3, <1>4, <1>5, <1>6, SMT
  <2> QED BY <1>4, <1>6, <2>1, Zenon DEF Text
<1>9. x = y
  BY <1>7, <1>8, SeqEqual, Zenon
<1> QED BY <1>9 DEF x, y, a, p, c

(* a cut of one character *)
LEMMA CutFirst ==
  ASSUME NEW r \in Text, 0 < Len(r)
  PROVE  SubSeq(r, 1, 1) = <<r[1]>>
<1> DEFINE a == SubSeq(r, 1, 0)
           q == <<r[1]>>
<1>1. Len(r) \in Nat /\ r \in Seq(Nat)
  BY LenProperties DEF Text
<1>2. 0 \in Nat /\ 0 + 1 = 1 /\ 0 \in 0 .. Len(r) /\ 1 \in 1 .. Len(r)
  BY <1>1, SMT
<1>3. a \o q = SubSeq(r, 1, 1)
  BY <1>2, CutOn, Zenon
<1>4. a = <<>>
  <2>1. a \in Text /\ Len(a) = 0
    BY <1>2, CutText, Zenon
  <2> HIDE DEF a
  <2> QED BY <2>1, EmptySeq DEF Text
<1>5. q \in Text
  <2>1. r[1] \in Nat
    BY <1>1, <1>2, ElementOfSeq
  <2> QED BY <2>1, OneCharacter, Zenon
<1> HIDE DEF a, q
<1>6. a \o q = q
  BY <1>4, <1>5, NoText, Zenon
<1> QED BY <1>3, <1>6, Zenon DEF q

(* bytes that are no characters by themselves are written as they are *)
LEMMA WideRun ==
  ASSUME NEW s \in Text, NEW e, WrittenFrom(e, s), NEW k \in 1 .. Len(s), NEW l \in 1 .. k,
         \A i \in 1 .. l : Rest(s, k)[i] >= 128
  PROVE  e[k] = SubSeq(Rest(s, k), 1, l) \o e[k - l]
<1> DEFINE r == Rest(s, k)
           n == Len(s)
           run == {i \in Int : e[k] = SubSeq(r, 1, i) \o e[k - i]}
<1>1. n \in Nat /\ s \in Seq(Nat)
  BY LenProperties DEF Text
<1>2. r \in Text /\ Len(r) = k
  BY PlaceIs, Zenon
<1>3. \A i \in 1 .. k : r[i] = s[n - k + i]
  <2>1. k \in 0 .. n
    BY <1>1, SMT
  <2> QED BY <1>1, <2>1, RestIs, Zenon
<1>4. \A i \in 1 .. l : r[i] >= 128
  OBVIOUS
<1>5. ASSUME NEW j \in 1 .. n PROVE /\ e[j] \in Text /\ e[j - 1] \in Text /\ Rest(s, j)[1] = s[n - j + 1]
                                    /\ (s[n - j + 1] >= 128 => e[j] = <<s[n - j + 1]>> \o e[j - 1])
                                    /\ s[n - j + 1] \in Nat
  <2> DEFINE c == Rest(s, j)[1]
  <2>1. c = s[n - j + 1]
    BY PlaceIs, Zenon
  <2>2. e[j] \in Text /\ e[j - 1] \in Text /\ c \in Nat /\ (c >= 128 => e[j] = <<c>> \o e[j - 1])
    BY WrittenPlace, Zenon
  <2> HIDE DEF c
  <2>3. (s[n - j + 1] >= 128 => e[j] = <<s[n - j + 1]>> \o e[j - 1]) /\ s[n - j + 1] \in Nat
    BY <2>1, <2>2
  <2> QED BY <2>1, <2>2, <2>3, Zenon DEF c
<1> HIDE DEF r, n
<1>6. ASSUME NEW i \in 0 .. l - 1 PROVE e[k - i] = <<r[i + 1]>> \o e[k - (i + 1)] /\ r[i + 1] \in Nat
                                        /\ e[k - (i + 1)] \in Text /\ e[k - i] \in Text
  <2> DEFINE j == k - i
  <2>1. j \in 1 .. n /\ n - j + 1 = n - k + (i + 1) /\ i + 1 \in 1 .. l /\ i + 1 \in 1 .. k /\ j - 1 = k - (i + 1)
    BY <1>1, SMT DEF n
  <2>2. r[i + 1] = s[n - j + 1] /\ r[i + 1] >= 128
    <3>1. r[i + 1] = s[n - k + (i + 1)] /\ r[i + 1] >= 128
      BY <1>3, <1>4, <2>1, Zenon
    <3> QED BY <2>1, <3>1, Zenon
  <2> HIDE DEF j
  <2>3. s[n - j + 1] >= 128
    BY <2>2, SMT
  <2>4. e[j] = <<s[n - j + 1]>> \o e[j - 1] /\ s[n - j + 1] \in Nat /\ e[j - 1] \in Text /\ e[j] \in Text
    BY <1>5, <2>1, <2>3, Zenon
  <2> QED BY <2>1, <2>2, <2>4, Zenon DEF j
<1>7. 1 \in run
  <2>1. 0 \in 0 .. l - 1 /\ k - 0 = k /\ 0 + 1 = 1 /\ 0 \in Nat /\ 0 < Len(r) /\ 0 \in 0 .. Len(r)
    BY <1>2, SMT
  <2>2. e[k] = <<r[1]>> \o e[k - 1]
    BY <1>6, <2>1, Zenon
  <2>3. SubSeq(r, 1, 1) = <<r[1]>>
    BY <1>2, <2>1, CutFirst, Zenon
  <2>4. 1 \in Int
    BY SMT
  <2> QED BY <2>2, <2>3, <2>4, Zenon
<1>8. ASSUME NEW i \in 1 .. l - 1, i \in run PROVE i + 1 \in run
  <2> DEFINE a == SubSeq(r, 1, i)
             p == <<r[i + 1]>>
             u == e[k - (i + 1)]
  <2>1. i \in 0 .. l - 1 /\ i \in Nat /\ i < Len(r) /\ i \in 0 .. Len(r) /\ i + 1 \in Int
    BY <1>2, SMT
  <2>2. e[k - i] = p \o u /\ p \in Text /\ u \in Text
    BY <1>6, <2>1, OneCharacter, Zenon
  <2>3. a \o p = SubSeq(r, 1, i + 1) /\ a \in Text
    BY <1>2, <2>1, CutOn, CutText, Zenon
  <2>4. e[k] = a \o e[k - i]
    BY <1>8
  <2> HIDE DEF a, p, u
  <2>5. (a \o p) \o u = a \o (p \o u)
    <3>1. a \in Seq(Nat) /\ p \in Seq(Nat) /\ u \in Seq(Nat)
      BY <2>2, <2>3, Zenon DEF Text
    <3> QED BY <3>1, Reassociated
  <2>6. e[k] = SubSeq(r, 1, i + 1) \o u
    BY <2>2, <2>3, <2>4, <2>5, Zenon
  <2> QED BY <2>1, <2>6, Zenon DEF u
<1> HIDE DEF run
<1>9. \A i \in 1 .. l : i \in run
  <2>1. 1 \in Int /\ l \in Int /\ 1 <= l
    BY SMT
  <2>2. \A i \in 1 .. l - 1 : i \in run => i + 1 \in run
    BY <1>8
  <2> QED BY <1>7, <2>1, <2>2, FromFront
<1>10. l \in 1 .. l
  BY SMT
<1> QED BY <1>9, <1>10, Zenon DEF run, r

(* the character at a place of the string: how long it is, none if it is   *)
(* ill-formed, and its bytes                                               *)
Steps(s, k) == SourceLength(Rest(s, k))
Piece(s, k) == SubSeq(Rest(s, k), 1, Steps(s, k))

(* a character of the string ends in the string *)
LEMMA StepsAre ==
  ASSUME NEW s \in Text, NEW k \in 1 .. Len(s)
  PROVE  Steps(s, k) \in 0 .. k /\ Piece(s, k) \in Text /\ Len(Piece(s, k)) = Steps(s, k)
<1> DEFINE r == Rest(s, k)
           l == SourceLength(r)
<1>1. r \in Text /\ Len(r) = k /\ r \in Seq(Nat)
  BY PlaceIs, Zenon DEF Text
<1>2. k \in Nat /\ k >= 1
  BY SMT
<1> HIDE DEF r
<1>3. r # <<>>
  BY <1>1, <1>2, LenProperties
<1>4. LX!CharLength(r) \in Nat /\ LX!CharLength(r) <= k
  BY <1>1, <1>3, CharEnds
<1>5. l \in 0 .. k
  BY <1>2, <1>4, SMT DEF SourceLength
<1> HIDE DEF l
<1>6. SubSeq(r, 1, l) \in Text /\ Len(SubSeq(r, 1, l)) = l
  BY <1>1, <1>5, CutText, Zenon
<1> QED BY <1>5, <1>6, Zenon DEF Steps, Piece, l, r

(* scan_string goes on behind a character that is one byte *)
LEMMA ScanOnAscii ==
  ASSUME NEW s \in Text, NEW e, WrittenFrom(e, s), NEW k \in 1 .. Len(s), Rest(s, k)[1] < 128
  PROVE  /\ Steps(s, k) = 1
         /\ LX!ScanString(e[k]) = AfterBytes(Piece(s, k), LX!ScanString(e[k - 1]))
<1> DEFINE r == Rest(s, k)
           c == r[1]
           u == e[k - 1]
<1>1. r \in Text /\ Len(r) = k
  BY PlaceIs, Zenon
<1>2. c \in Nat /\ u \in Text /\ e[k] = LX!Dumped(c) \o u
  BY WrittenPlace, Zenon
<1>3. SourceLength(r) = 1
  BY SMT DEF SourceLength
<1>4. SubSeq(r, 1, 1) = <<c>>
  <2>1. 0 < Len(r)
    BY <1>1, SMT
  <2> HIDE DEF r
  <2> QED BY <1>1, <2>1, CutFirst DEF c
<1>5. c \in Ascii
  <2>1. c < 128
    OBVIOUS
  <2> HIDE DEF c
  <2> QED BY <1>2, <2>1, SMT DEF Ascii, Below
<1> HIDE DEF c, u
<1>6. LX!ScanString(LX!Dumped(c) \o u) = AfterBytes(<<c>>, LX!ScanString(u))
  BY <1>2, <1>5, ScanByte
<1>7. Steps(s, k) = 1 /\ Piece(s, k) = <<c>>
  BY <1>3, <1>4, Zenon DEF Steps, Piece
<1> QED BY <1>2, <1>6, <1>7, Zenon DEF u

(* scan_string goes on behind a character of several bytes, or fails *)
LEMMA ScanOnWide ==
  ASSUME NEW s \in Text, NEW e, WrittenFrom(e, s), NEW k \in 1 .. Len(s), Rest(s, k)[1] >= 128
  PROVE  LX!ScanString(e[k]) = IF Steps(s, k) = 0 THEN Unscanned
                               ELSE AfterBytes(Piece(s, k), LX!ScanString(e[k - Steps(s, k)]))
<1> DEFINE r == Rest(s, k)
           c == r[1]
           l == Steps(s, k)
           b == Piece(s, k)
           t == e[k]
<1>1. r \in Text /\ Len(r) = k
  BY PlaceIs, Zenon
<1>2. c \in Nat /\ e[k - 1] \in Text /\ t \in Text /\ t = <<c>> \o e[k - 1] /\ c >= 128
  BY WrittenPlace, Zenon
<1>3. l \in 0 .. k /\ b \in Text /\ Len(b) = l
  BY StepsAre, Zenon
<1>4. l = LX!CharLength(r)
  <2>1. ~(c < 128)
    <3>1. c \in Nat /\ c >= 128
      BY <1>2
    <3> HIDE DEF c
    <3> QED BY <3>1, SMT
  <2> QED BY <2>1, Zenon DEF Steps, SourceLength
<1>5. LX!CharLength(t) = l
  BY <1>4, WideLength, Zenon
<1>6. t[1] = c
  <2> DEFINE u == e[k - 1]
  <2>1. u \in Text /\ c \in Nat
    BY <1>2, Zenon
  <2> HIDE DEF u, c
  <2>2. (<<c>> \o u)[1] = c
    BY <2>1, TextBehind
  <2> QED BY <1>2, <2>2 DEF u
<1>7. t[1] # 34 /\ t[1] # 92
  <2> HIDE DEF c, t
  <2> QED BY <1>2, <1>6, SMT
<1>8. FrontLength(t) = l /\ FrontBytes(t) = LX!take_front(t, l)
  BY <1>5, <1>7, Zenon DEF FrontLength, FrontBytes
<1>9. CASE l = 0
  <2> DEFINE a == <<c>>
             u == e[k - 1]
  <2>1. a \in Text /\ Len(a) > 0 /\ u \in Text /\ t = a \o u
    <3>1. a \in Text /\ Len(a) = 1
      BY <1>2, OneCharacter, Zenon
    <3> QED BY <1>2, <3>1, SMT
  <2> HIDE DEF a, u, t, l
  <2>2. FrontLength(a \o u) = 0 /\ (a \o u)[1] # 34
    BY <1>7, <1>8, <1>9, <2>1
  <2>3. LX!ScanString(a \o u) =
           IF (a \o u)[1] = 34 THEN [ok |-> TRUE, str |-> <<>>]
           ELSE IF FrontLength(a \o u) = 0 THEN Unscanned
           ELSE AfterBytes(FrontBytes(a \o u), LX!ScanString(u))
    BY <2>1, <2>2, ScanFront
  <2> QED BY <1>9, <2>1, <2>2, <2>3, Zenon DEF t, l
<1>10. CASE l # 0
  <2> DEFINE u == e[k - l]
  <2>1. l \in 1 .. k
    BY <1>3, <1>10, SMT
  <2>2. \A i \in 1 .. l : r[i] >= 128
    <3>1. Len(r) >= 1
      BY <1>1, SMT
    <3>2. LX!CharLength(r) # 0
      BY <1>4, <1>10
    <3>3. r[1] >= 128
      BY <1>2
    <3> HIDE DEF r, l
    <3>4. \A i \in 1 .. LX!CharLength(r) : r[i] >= 128
      BY <1>1, <3>1, <3>2, <3>3, CharBytes, Zenon
    <3> QED BY <1>4, <3>4
  <2>3. t = SubSeq(r, 1, l) \o u
    <3> HIDE DEF l
    <3> QED BY <2>1, <2>2, WideRun, Zenon
  <2>4. b = SubSeq(r, 1, l)
    BY Zenon DEF Piece
  <2>5. u \in Text
    <3>1. k - l \in 0 .. Len(s)
      BY <2>1, LenProperties, SMT DEF Text
    <3> QED BY <3>1, Zenon DEF WrittenFrom
  <2> HIDE DEF b, u, t, l, r
  <2>6. t = b \o u
    BY <2>3, <2>4, Zenon
  <2>7. FrontLength(b \o u) = Len(b) /\ Len(b) > 0 /\ Len(b) # 0 /\ (b \o u)[1] # 34
    BY <1>3, <1>7, <1>8, <2>1, <2>6, SMT
  <2>8. FrontBytes(b \o u) = b
    <3>1. LX!take_front(b \o u, Len(b)) = b
      BY <1>3, <2>5, TakeIs, Zenon
    <3> QED BY <1>3, <1>8, <2>6, <3>1, Zenon
  <2>9. LX!ScanString(b \o u) =
           IF (b \o u)[1] = 34 THEN [ok |-> TRUE, str |-> <<>>]
           ELSE IF FrontLength(b \o u) = 0 THEN Unscanned
           ELSE AfterBytes(FrontBytes(b \o u), LX!ScanString(u))
    BY <1>3, <2>5, <2>7, ScanFront, Zenon
  <2>10. LX!ScanString(t) = AfterBytes(b, LX!ScanString(u))
    BY <2>6, <2>7, <2>8, <2>9, Zenon
  <2> QED BY <1>10, <2>10, Zenon DEF b, u, t, l
<1> QED BY <1>9, <1>10, Zenon

(* scan_string goes through the text character by character of the string *)
LEMMA ScanOn ==
  ASSUME NEW s \in Text, NEW e, WrittenFrom(e, s), NEW k \in 1 .. Len(s)
  PROVE  LX!ScanString(e[k]) = IF Steps(s, k) = 0 THEN Unscanned
                               ELSE AfterBytes(Piece(s, k), LX!ScanString(e[k - Steps(s, k)]))
<1>1. CASE Rest(s, k)[1] < 128
  <2>1. /\ Steps(s, k) = 1
        /\ LX!ScanString(e[k]) = AfterBytes(Piece(s, k), LX!ScanString(e[k - 1]))
    BY <1>1, ScanOnAscii, Zenon
  <2>2. 1 # 0
    BY SMT
  <2> QED BY <2>1, <2>2, Zenon
<1>2. CASE Rest(s, k)[1] >= 128
  BY <1>2, ScanOnWide, Zenon
<1>3. Rest(s, k)[1] \in Nat
  BY WrittenPlace, Zenon
<1>4. Rest(s, k)[1] < 128 \/ Rest(s, k)[1] >= 128
  <2> DEFINE c == Rest(s, k)[1]
  <2>1. c \in Nat
    BY <1>3
  <2> HIDE DEF c
  <2>2. c < 128 \/ c >= 128
    BY <2>1, SMT
  <2> QED BY <2>2 DEF c
<1> QED BY <1>1, <1>2, <1>4, Zenon

(* the closing quote *)
LEMMA ScanEnd == LX!ScanString(<<34>>) = [ok |-> TRUE, str |-> <<>>]
<1> DEFINE t == <<34>>
<1>1. t \in Text /\ Len(t) = 1 /\ t[1] = 34
  BY OneCharacter, SMT
<1>2. LX!CharLength(t) = 1
  BY SMT DEF LX!CharLength
<1> HIDE DEF t
<1>3. t[1] # 92
  BY <1>1, SMT
<1>4. FrontLength(t) = Len(t) /\ Len(t) > 0
  <2>1. FrontLength(t) = 1
    BY <1>2, <1>3, Zenon DEF FrontLength
  <2> QED BY <1>1, <2>1, SMT
<1>5. t \o <<>> = t /\ <<>> \in Text
  BY <1>1, NoText, Zenon
<1>6. FrontLength(t \o <<>>) \in {0, Len(t)}
  BY <1>4, <1>5, Zenon
<1> DEFINE u == <<>>
<1> HIDE DEF u
<1>7. u \in Text /\ t \o u = t /\ FrontLength(t \o u) \in {0, Len(t)}
  BY <1>5, <1>6, Zenon DEF u
<1>8. LX!ScanString(t \o u) =
           IF (t \o u)[1] = 34 THEN [ok |-> TRUE, str |-> <<>>]
           ELSE IF FrontLength(t \o u) = 0 THEN Unscanned
           ELSE AfterBytes(FrontBytes(t \o u), LX!ScanString(u))
  BY <1>1, <1>4, <1>7, ScanFront, Zenon
<1>9. LX!ScanString(t) = [ok |-> TRUE, str |-> <<>>]
  BY <1>1, <1>7, <1>8, Zenon
<1> QED BY <1>9, Zenon DEF t

(* a result with bytes in front of it *)
LEMMA AfterIs ==
  ASSUME NEW b, NEW x
  PROVE  /\ AfterBytes(b, x).ok <=> x.ok
         /\ x.ok => AfterBytes(b, x).str = b \o x.str
         /\ ~Unscanned.ok
<1>1. ~Unscanned.ok
  BY SMT DEF Unscanned
<1>2. x.ok => AfterBytes(b, x) = [ok |-> TRUE, str |-> b \o x.str]
  BY Zenon DEF AfterBytes
<1>3. ~x.ok => AfterBytes(b, x) = Unscanned
  BY Zenon DEF AfterBytes
<1>4. x.ok => AfterBytes(b, x).ok /\ AfterBytes(b, x).str = b \o x.str
  <2> DEFINE y == b \o x.str
             z == AfterBytes(b, x)
  <2> HIDE DEF y, z
  <2>1. z = [ok |-> TRUE, str |-> y] => z.ok /\ z.str = y
    BY SMT
  <2>2. x.ok => z = [ok |-> TRUE, str |-> y]
    BY <1>2, Zenon DEF y, z
  <2>3. x.ok => z.ok /\ z.str = y
    BY <2>1, <2>2, Zenon
  <2> QED BY <2>3, Zenon DEF y, z
<1> QED BY <1>1, <1>3, <1>4, Zenon

(* the text from a place on: whether it is valid, and what it is read as *)
Ok(e, k) == LX!ScanString(e[k]).ok
Str(e, k) == LX!ScanString(e[k]).str
(* the text is valid from a place on if and only if the character there is *)
(* well formed and the text is valid from behind it on                     *)
LEMMA OkOn ==
  ASSUME NEW s \in Text, NEW e, WrittenFrom(e, s), NEW k \in 1 .. Len(s)
  PROVE  /\ Ok(e, k) <=> Steps(s, k) # 0 /\ Ok(e, k - Steps(s, k))
         /\ Ok(e, k) => Str(e, k) = Piece(s, k) \o Str(e, k - Steps(s, k))
<1> DEFINE l == Steps(s, k)
           b == Piece(s, k)
           x == LX!ScanString(e[k - l])
<1>1. LX!ScanString(e[k]) = IF l = 0 THEN Unscanned ELSE AfterBytes(b, x)
  BY ScanOn, Zenon
<1>2. Ok(e, k - l) <=> x.ok
  BY Zenon DEF Ok
<1>3. Str(e, k - l) = x.str
  BY Zenon DEF Str
<1> HIDE DEF l, b, x
<1>4. CASE l = 0
  <2>1. LX!ScanString(e[k]) = Unscanned
    BY <1>1, <1>4, Zenon
  <2>2. ~Ok(e, k)
    BY <2>1, AfterIs, Zenon DEF Ok
  <2> QED BY <1>4, <2>2, Zenon DEF l
<1>5. CASE l # 0
  <2>1. LX!ScanString(e[k]) = AfterBytes(b, x)
    BY <1>1, <1>5, Zenon
  <2>2. (Ok(e, k) <=> x.ok) /\ (Ok(e, k) => Str(e, k) = b \o x.str)
    BY <2>1, AfterIs, Zenon DEF Ok, Str
  <2> QED BY <1>2, <1>3, <1>5, <2>2, Zenon DEF l, b
<1> QED BY <1>4, <1>5

(* a character and what follows it *)
LEMMA PieceRest ==
  ASSUME NEW s \in Text, NEW k \in 1 .. Len(s), Steps(s, k) # 0
  PROVE  Piece(s, k) \o Rest(s, k - Steps(s, k)) = Rest(s, k)
<1> DEFINE n == Len(s)
           l == Steps(s, k)
           b == Piece(s, k)
           r == Rest(s, k)
           u == Rest(s, k - l)
           x == b \o u
<1>1. n \in Nat /\ s \in Seq(Nat)
  BY LenProperties DEF Text
<1>2. l \in 0 .. k /\ b \in Text /\ Len(b) = l
  BY StepsAre, Zenon
<1> HIDE DEF l
<1>3. l \in 1 .. k /\ k \in 0 .. n /\ k - l \in 0 .. n /\ l \in 0 .. k /\ k \in Nat
  BY <1>1, <1>2, SMT DEF l
<1> HIDE DEF n
<1>4. r \in Seq(Nat) /\ Len(r) = k /\ \A i \in 1 .. k : r[i] = s[n - k + i]
  BY <1>1, <1>3, RestIs, Zenon DEF n
<1>5. u \in Seq(Nat) /\ Len(u) = k - l /\ \A i \in 1 .. k - l : u[i] = s[n - (k - l) + i]
  BY <1>1, <1>3, RestIs, Zenon DEF n
<1>6. \A i \in 1 .. l : b[i] = r[i]
  <2>1. b = SubSeq(r, 1, l)
    BY Zenon DEF Piece, l
  <2> HIDE DEF r, b
  <2>2. r \in Text /\ l \in 0 .. Len(r)
    BY <1>3, <1>4, Zenon DEF Text
  <2> QED BY <2>1, <2>2, CutText, Zenon
<1> HIDE DEF b, r, u
<1>7. /\ x \in Text /\ Len(x) = Len(b) + Len(u)
      /\ (\A i \in 1 .. Len(b) : x[i] = b[i]) /\ \A i \in 1 .. Len(u) : x[Len(b) + i] = u[i]
  BY <1>2, <1>5, Joined, Zenon DEF Text
<1> HIDE DEF x
<1>8. Len(x) = k
  BY <1>2, <1>3, <1>5, <1>7, SMT
<1>9. \A i \in 1 .. Len(x) : x[i] = r[i]
  <2> SUFFICES ASSUME NEW i \in 1 .. k PROVE x[i] = r[i]
    BY <1>8, Zenon
  <2>1. CASE i <= l
    <3>1. i \in 1 .. Len(b) /\ i \in 1 .. l
      BY <1>2, <1>3, <2>1, SMT
    <3>2. x[i] = b[i] /\ b[i] = r[i]
      BY <1>6, <1>7, <3>1, Zenon
    <3> QED BY <3>2, Zenon
  <2>2. CASE ~(i <= l)
    <3> DEFINE j == i - l
    <3>1. j \in 1 .. Len(u) /\ j \in 1 .. k - l /\ Len(b) + j = i /\ n - (k - l) + j = n - k + i
      BY <1>1, <1>2, <1>3, <1>5, <2>2, SMT
    <3> HIDE DEF j
    <3>2. x[Len(b) + j] = u[j] /\ u[j] = s[n - (k - l) + j] /\ r[i] = s[n - k + i]
      BY <1>4, <1>5, <1>7, <3>1, Zenon
    <3> QED BY <3>1, <3>2, Zenon
  <2> QED BY <2>1, <2>2
<1>10. x \in Seq(Nat) /\ Len(x) = Len(r)
  BY <1>4, <1>7, <1>8, Zenon DEF Text
<1>11. x = r
  BY <1>4, <1>9, <1>10, SeqEqual, Zenon
<1> QED BY <1>11, Zenon DEF x, b, u, r, l

(* what is read is the string *)
LEMMA ReadsBack ==
  ASSUME NEW s \in Text, NEW e, WrittenFrom(e, s), Ok(e, Len(s))
  PROVE  Str(e, Len(s)) = s
<1> DEFINE n == Len(s)
           Back(k) == Ok(e, k) => Str(e, k) = Rest(s, k)
           back == {i \in Int : Back(n - i)}
<1>1. n \in Nat /\ s \in Seq(Nat)
  BY LenProperties DEF Text
<1> HIDE DEF n
<1>2. ASSUME NEW i \in 0 .. n, \A j \in i + 1 .. n : j \in back PROVE i \in back
  <2> DEFINE k == n - i
  <2>1. k \in 0 .. n /\ i \in Int
    BY <1>1, SMT
  <2>2. CASE k = 0
    <3>1. e[k] = <<34>>
      BY <2>2, Zenon DEF WrittenFrom
    <3>2. Str(e, k) = <<>>
      <4> DEFINE x == LX!ScanString(e[k])
      <4>1. x = [ok |-> TRUE, str |-> <<>>]
        BY <3>1, ScanEnd
      <4> HIDE DEF x
      <4>2. x.str = <<>>
        BY <4>1, SMT
      <4> QED BY <4>2, Zenon DEF Str, x
    <3>3. Rest(s, k) = <<>>
      <4>1. Rest(s, k) \in Seq(Nat) /\ Len(Rest(s, k)) = 0
        BY <1>1, <2>1, <2>2, RestIs DEF n
      <4> QED BY <4>1, EmptySeq
    <3>4. Back(k)
      BY <3>2, <3>3, Zenon
    <3> QED BY <2>1, <3>4, Zenon
  <2>3. CASE k # 0
    <3> DEFINE l == Steps(s, k)
               m == n - (k - l)
    <3>1. k \in 1 .. n
      BY <1>1, <2>1, <2>3, SMT
    <3>2. l \in 0 .. k
      BY <3>1, StepsAre, Zenon DEF n
    <3>3. /\ Ok(e, k) <=> l # 0 /\ Ok(e, k - l)
          /\ Ok(e, k) => Str(e, k) = Piece(s, k) \o Str(e, k - l)
      BY <3>1, OkOn, Zenon DEF n
    <3>4. l # 0 => Piece(s, k) \o Rest(s, k - l) = Rest(s, k)
      BY <3>1, PieceRest, Zenon DEF n
    <3>5. l # 0 => m \in i + 1 .. n /\ n - m = k - l
      <4> HIDE DEF l
      <4> QED BY <1>1, <3>1, <3>2, SMT
    <3>6. l # 0 => Back(k - l)
      <4> HIDE DEF k, l, m, Back
      <4>1. l # 0 => m \in back
        BY <1>2, <3>5, Zenon
      <4>2. l # 0 => Back(n - m)
        BY <4>1, Zenon
      <4> QED BY <3>5, <4>2, Zenon
    <3> HIDE DEF k, l
    <3>7. Back(k)
      BY <3>3, <3>4, <3>6, Zenon
    <3> QED BY <2>1, <3>7, Zenon DEF k
  <2> QED BY <2>2, <2>3
<1>3. 0 \in Int /\ n \in Int /\ 0 \in 0 .. n /\ n - 0 = n /\ n \in 0 .. n
  BY <1>1, SMT
<1> HIDE DEF back
<1>4. 0 \in back
  <2>1. \A i \in 0 .. n : (\A j \in i + 1 .. n : j \in back) => i \in back
    BY <1>2
  <2>2. \A i \in 0 .. n : i \in back
    BY <1>3, <2>1, FromBehind
  <2> QED BY <1>3, <2>2
<1>5. Rest(s, n) = s
  <2>1. n - n + 1 = 1
    BY <1>1, SMT
  <2>2. Rest(s, n) = SubSeq(s, n - n + 1, n)
    BY DEF Rest, LX!drop_front, n
  <2>3. SubSeq(s, 1, n) = s
    BY <1>1, SubSeqFull DEF n
  <2> QED BY <2>1, <2>2, <2>3, Zenon
<1>6. Back(n)
  <2> HIDE DEF Back
  <2>1. Back(n - 0)
    BY <1>4, Zenon DEF back
  <2> QED BY <1>3, <2>1, Zenon
<1> QED BY <1>5, <1>6, Zenon DEF n

(* a character is at most four bytes *)
LEMMA StepsAtMost ==
  ASSUME NEW s \in Text, NEW k \in 1 .. Len(s)
  PROVE  Steps(s, k) <= 4 /\ Steps(s, k) \in Nat
<1> DEFINE r == Rest(s, k)
<1>1. r \in Text /\ Len(r) = k /\ Steps(s, k) \in 0 .. k /\ r[1] \in Nat
  BY PlaceIs, StepsAre, Zenon
<1>2. Len(r) >= 1
  BY <1>1, SMT
<1> HIDE DEF r
<1>3. r[1] >= 128 /\ LX!CharLength(r) # 0 => LX!CharLength(r) <= 4
  BY <1>1, <1>2, CharBytes
<1>4. SourceLength(r) <= 4
  BY <1>1, <1>3, SMT DEF SourceLength
<1>5. Steps(s, k) <= 4
  BY <1>4, Zenon DEF Steps, r
<1>6. Steps(s, k) \in Nat
  BY <1>1, SMT
<1> QED BY <1>5, <1>6

(* the bytes in front are a character if and only if CharLength sees one   *)
(* of this length                                                          *)
LEMMA CharLengths ==
  ASSUME NEW r \in Text, NEW b \in Text, Len(b) \in 1 .. 4, FrontOf(b, r)
  PROVE  IsChar(b) <=> SourceLength(r) = Len(b)
<1>1. Len(b) = 1 \/ Len(b) = 2 \/ Len(b) = 3 \/ Len(b) = 4
  BY SMT
<1>2. Len(b) = 1 => (IsChar(b) <=> SourceLength(r) = 1)
  BY CharOfOne
<1>3. Len(b) = 2 => (IsChar(b) <=> SourceLength(r) = 2)
  BY CharOfTwo
<1>4. Len(b) = 3 => (IsChar(b) <=> SourceLength(r) = 3)
  BY CharOfThree
<1>5. Len(b) = 4 => (IsChar(b) <=> SourceLength(r) = 4)
  BY CharOfFour
<1> QED BY <1>1, <1>2, <1>3, <1>4, <1>5, Zenon

(* the l bytes up to a place are a character if and only if that is what   *)
(* CharLength sees in front of them                                        *)
LEMMA WrittenChar ==
  ASSUME NEW s \in Text, NEW p \in 1 .. Len(s), NEW l \in 1 .. 4, l <= p
  PROVE  IsChar(SubSeq(s, p - l + 1, p)) <=> Steps(s, Len(s) - p + l) = l
<1> DEFINE n == Len(s)
           k == n - p + l
           r == Rest(s, k)
           m == p - l + 1
           b == SubSeq(s, m, p)
<1>1. n \in Nat /\ s \in Seq(Nat)
  BY LenProperties DEF Text
<1>2. /\ k \in 0 .. n /\ k \in 1 .. n /\ m \in 1 .. n + 1 /\ p \in 0 .. n /\ m <= p + 1 /\ p - m + 1 = l
      /\ l <= k /\ \A i \in 1 .. l : m + i - 1 = n - k + i /\ i \in 1 .. k
  BY <1>1, SMT
<1>3. r \in Seq(Nat) /\ Len(r) = k /\ \A i \in 1 .. k : r[i] = s[n - k + i]
  BY <1>1, <1>2, RestIs, Zenon
<1> HIDE DEF m, k
<1>4. b \in Seq(Nat) /\ Len(b) = p - m + 1 /\ \A i \in 1 .. p - m + 1 : b[i] = s[m + i - 1]
  <2>1. m \in 1 .. Len(s) + 1 /\ p \in 0 .. Len(s)
    BY <1>2
  <2> QED BY <1>1, <1>2, <2>1, CutString
<1> HIDE DEF b, r, n
<1>5. \A i \in 1 .. l : b[i] = r[i]
  <2> SUFFICES ASSUME NEW i \in 1 .. l PROVE b[i] = r[i]
    OBVIOUS
  <2>1. m + i - 1 = n - k + i /\ i \in 1 .. k /\ i \in 1 .. p - m + 1
    BY <1>2, Zenon
  <2>2. b[i] = s[m + i - 1] /\ r[i] = s[n - k + i]
    BY <1>3, <1>4, <2>1, Zenon
  <2> QED BY <2>1, <2>2, Zenon
<1>6. Len(b) = l
  BY <1>2, <1>4, Zenon
<1>7. FrontOf(b, r)
  BY <1>2, <1>3, <1>5, <1>6, Zenon DEF FrontOf
<1>8. IsChar(b) <=> SourceLength(r) = l
  <2>1. Len(b) \in 1 .. 4 /\ b \in Text /\ r \in Text
    BY <1>3, <1>4, <1>6, Zenon DEF Text
  <2> QED BY <1>6, <1>7, <2>1, CharLengths, Zenon
<1> QED BY <1>8, Zenon DEF b, r, m, k, n, Steps

(* what is valid from a place on and well formed up to it is well formed *)
LEMMA ReadIsFormed ==
  ASSUME NEW s \in Text, NEW e, WrittenFrom(e, s), NEW to, Forms(to, s), Ok(e, Len(s))
  PROVE  to[Len(s)]
<1> DEFINE n == Len(s)
           on == {p \in Int : to[p] /\ Ok(e, n - p) => to[n]}
<1>1. n \in Nat /\ s \in Seq(Nat)
  BY LenProperties DEF Text
<1>2. \A k \in 0 .. n : to[k] <=> FormRound(s, k, to)
  BY Zenon DEF Forms
<1> HIDE DEF n
<1>3. ASSUME NEW p \in 0 .. n, \A q \in p + 1 .. n : q \in on PROVE p \in on
  <2>1. p \in Int
    BY SMT
  <2>2. SUFFICES ASSUME to[p], Ok(e, n - p) PROVE to[n]
    BY <2>1, Zenon
  <2>3. CASE p = n
    BY <2>2, <2>3
  <2>4. CASE p # n
    <3> DEFINE k == n - p
               l == Steps(s, k)
               q == p + l
    <3>1. k \in 1 .. n
      BY <1>1, <2>4, SMT
    <3>2. l \in 0 .. k /\ l <= 4 /\ l # 0 /\ Ok(e, k - l)
      BY <2>2, <3>1, StepsAre, StepsAtMost, OkOn, Zenon DEF n
    <3> HIDE DEF l
    <3>3. /\ q \in p + 1 .. n /\ q \in 1 .. n /\ q \in 0 .. n /\ n - q = k - l /\ q - l = p /\ l \in 1 .. 4 /\ l <= q
          /\ n - q + l = k
      BY <1>1, <3>1, <3>2, SMT
    <3> HIDE DEF q, k
    <3>4. IsChar(SubSeq(s, q - l + 1, q)) <=> Steps(s, n - q + l) = l
      BY <3>3, WrittenChar, Zenon DEF n
    <3>5. IsChar(SubSeq(s, q - l + 1, q))
      BY <3>3, <3>4, Zenon DEF l
    <3>6. to[q - l]
      BY <2>2, <3>3, Zenon
    <3>7. FormRound(s, q, to)
      BY <3>3, <3>5, <3>6, Zenon DEF FormRound
    <3>8. to[q]
      BY <1>2, <3>3, <3>7, Zenon
    <3>9. Ok(e, n - q)
      BY <3>2, <3>3, Zenon
    <3>10. to[q] /\ Ok(e, n - q) => to[n]
      BY <1>3, <3>3, Zenon
    <3> QED BY <3>8, <3>9, <3>10, Zenon
  <2> QED BY <2>3, <2>4
<1>4. 0 \in Int /\ n \in Int /\ 0 \in 0 .. n /\ n - 0 = n
  BY <1>1, SMT
<1>5. to[0]
  <2>1. FormRound(s, 0, to)
    BY Zenon DEF FormRound
  <2> QED BY <1>2, <1>4, <2>1, Zenon
<1> HIDE DEF on
<1>6. 0 \in on
  <2>1. \A p \in 0 .. n : (\A q \in p + 1 .. n : q \in on) => p \in on
    BY <1>3
  <2>2. \A p \in 0 .. n : p \in on
    BY <1>4, <2>1, FromBehind
  <2> QED BY <1>4, <2>2
<1>7. Ok(e, n - 0)
  BY <1>4, Zenon DEF n
<1>8. to[0] /\ Ok(e, n - 0) => to[n]
  BY <1>6, Zenon DEF on
<1> QED BY <1>5, <1>7, <1>8, Zenon DEF n

(* what is well formed up to a place and valid from it on is valid *)
LEMMA FormedIsRead ==
  ASSUME NEW s \in Text, NEW e, WrittenFrom(e, s), NEW to, Forms(to, s), to[Len(s)]
  PROVE  Ok(e, Len(s))
<1> DEFINE n == Len(s)
           on == {i \in Int : to[n - i] /\ Ok(e, i) => Ok(e, n)}
<1>1. n \in Nat /\ s \in Seq(Nat)
  BY LenProperties DEF Text
<1>2. \A k \in 0 .. n : to[k] <=> FormRound(s, k, to)
  BY Zenon DEF Forms
<1> HIDE DEF n
<1>3. ASSUME NEW i \in 0 .. n, \A j \in i + 1 .. n : j \in on PROVE i \in on
  <2>1. i \in Int
    BY SMT
  <2>2. SUFFICES ASSUME to[n - i], Ok(e, i) PROVE Ok(e, n)
    BY <2>1, Zenon
  <2>3. CASE i = n
    BY <2>2, <2>3
  <2>4. CASE i # n
    <3> DEFINE p == n - i
    <3>1. p \in 1 .. n /\ p \in 0 .. n /\ p # 0
      BY <1>1, <2>4, SMT
    <3>2. FormRound(s, p, to)
      BY <1>2, <2>2, <3>1, Zenon
    <3> HIDE DEF p
    <3>3. PICK l \in 1 .. 4 : l <= p /\ to[p - l] /\ IsChar(SubSeq(s, p - l + 1, p))
      BY <3>1, <3>2, Zenon DEF FormRound
    <3> DEFINE k == i + l
    <3>4. k \in i + 1 .. n /\ k \in 1 .. n /\ k - l = i /\ n - k = p - l /\ n - p + l = k /\ l # 0
      BY <1>1, <3>1, <3>3, SMT DEF p
    <3> HIDE DEF k
    <3>5. IsChar(SubSeq(s, p - l + 1, p)) <=> Steps(s, n - p + l) = l
      BY <3>1, <3>3, WrittenChar, Zenon DEF n
    <3>6. Steps(s, k) = l
      BY <3>3, <3>4, <3>5, Zenon
    <3>7. Ok(e, k) <=> Steps(s, k) # 0 /\ Ok(e, k - Steps(s, k))
      BY <3>4, OkOn, Zenon DEF n
    <3>8. Ok(e, k)
      BY <2>2, <3>4, <3>6, <3>7, Zenon
    <3>9. to[n - k]
      BY <3>3, <3>4, Zenon
    <3>10. to[n - k] /\ Ok(e, k) => Ok(e, n)
      BY <1>3, <3>4, Zenon
    <3> QED BY <3>8, <3>9, <3>10, Zenon
  <2> QED BY <2>3, <2>4
<1>4. 0 \in Int /\ n \in Int /\ 0 \in 0 .. n /\ n - 0 = n
  BY <1>1, SMT
<1>5. Ok(e, 0)
  <2> DEFINE x == LX!ScanString(e[0])
  <2>1. e[0] = <<34>>
    BY Zenon DEF WrittenFrom
  <2>2. x = [ok |-> TRUE, str |-> <<>>]
    BY <2>1, ScanEnd
  <2> HIDE DEF x
  <2>3. x.ok
    BY <2>2, SMT
  <2> QED BY <2>3, Zenon DEF Ok, x
<1> HIDE DEF on
<1>6. 0 \in on
  <2>1. \A i \in 0 .. n : (\A j \in i + 1 .. n : j \in on) => i \in on
    BY <1>3
  <2>2. \A i \in 0 .. n : i \in on
    BY <1>4, <2>1, FromBehind
  <2> QED BY <1>4, <2>2
<1>7. to[n - 0]
  BY <1>4, Zenon DEF n
<1>8. to[n - 0] /\ Ok(e, 0) => Ok(e, n)
  BY <1>6, Zenon DEF on
<1> QED BY <1>5, <1>7, <1>8, Zenon DEF n

(* What dump_escaped writes of a string is accepted by scan_string if and  *)
(* only if the string is valid UTF-8, and is then read as that string      *)
(* again, byte by byte, for strings of every length: no escape is read as  *)
(* another one, and no byte of a character is lost in front of an escape   *)
(* or of the closing quote.                                                *)
THEOREM StringIsInverse ==
  ASSUME NEW s \in Text
  PROVE  LX!StringInverse(s)
<1> DEFINE n == Len(s)
           text == Append(LX!dump_escaped(s), LX!Quote)
           scanned == LX!ScanString(text)
<1>1. PICK e : WrittenFrom(e, s) /\ text = e[n]
  BY WrittenString
<1>2. PICK to : Forms(to, s) /\ (LX!WellFormed(s) <=> to[n])
  <2>1. s \in Seq(Nat)
    BY DEF Text
  <2> QED BY <2>1, StringForms
<1>3. (Ok(e, n) <=> to[n]) /\ (Ok(e, n) => Str(e, n) = s)
  BY <1>1, <1>2, ReadIsFormed, FormedIsRead, ReadsBack, Zenon
<1>4. (Ok(e, n) <=> scanned.ok) /\ Str(e, n) = scanned.str
  BY <1>1, Zenon DEF Ok, Str
<1> HIDE DEF n, scanned
<1>5. (scanned.ok <=> LX!WellFormed(s)) /\ (scanned.ok => scanned.str = s)
  BY <1>2, <1>3, <1>4, Zenon
<1> QED BY <1>5, Zenon DEF LX!StringInverse, scanned

(***************************************************************************)
(* Coders                                                                  *)
(***************************************************************************)

(* a sequence over a set, as one over a larger set *)
LEMMA SequenceWidens ==
  ASSUME NEW S, NEW T, S \subseteq T, NEW s \in Seq(S)
  PROVE  s \in Seq(T) /\ \A i \in 1 .. Len(s) : s[i] \in S
  BY ElementOfSeq, SeqMonotonic

(* the texts that compare_numeric is compared on *)
LEMMA TextsAreStrings == NumericTexts \subseteq Seq(Nat)
<1>1. <<97>> \in Seq(Nat) /\ <<49, 97>> \in Seq(Nat)
  OBVIOUS
<1>2. ASSUME NEW s \in SeqOf({47, 48, 49}, 3) PROVE s \in Seq(Nat)
  <2>1. PICK n \in 0 .. 3 : s \in [1 .. n -> {47, 48, 49}]
    BY DEF SeqOf
  <2>2. n \in Nat /\ s \in [1 .. n -> Nat]
    BY <2>1
  <2> QED BY <2>2, SeqDef
<1> QED BY <1>1, <1>2 DEF NumericTexts

(* What ReadUleb128, Base64Decode, StringRef::find, compare_numeric,       *)
(* scan_number and scan_string answer is right for every input they may be *)
(* given, of any length, and for every size of the tables and integers.    *)
THEOREM CodersAreExact == Given(unit, sample) => CodersExact
<1> SUFFICES ASSUME Given(unit, sample) PROVE CodersExact
  OBVIOUS
<1>1. ASSUME unit = "leb128" PROVE LB!LebInverse(sample)
  <2>1. sample \in Seq(0 .. 127) /\ sample # <<>> /\ (Len(sample) = 1 \/ sample[Len(sample)] # 0)
    BY <1>1, SMT DEF Given
  <2> DEFINE Digit == 0 .. 127
  <2>2. Digit \subseteq Nat /\ (\A x \in Digit : x < 128) /\ sample \in Seq(Digit)
    <3>1. Digit \subseteq Nat /\ \A x \in Digit : x < 128
      OBVIOUS
    <3> QED BY <2>1, <3>1, Zenon
  <2> HIDE DEF Digit
  <2>3. sample \in Seq(Nat) /\ \A i \in 1 .. Len(sample) : sample[i] < 128
    BY <2>2, SequenceWidens
  <2> QED BY <2>1, <2>3, LebIsInverse, Zenon
<1>2. ASSUME unit = "Base64" PROVE B64!Base64Inverse(sample)
  <2>1. sample \in Seq(0 .. 255)
    BY <1>2, SMT DEF Given
  <2> DEFINE Octet == 0 .. 255
  <2>2. Octet \subseteq Nat /\ (\A x \in Octet : x < 256) /\ sample \in Seq(Octet)
    <3>1. Octet \subseteq Nat /\ \A x \in Octet : x < 256
      OBVIOUS
    <3> QED BY <2>1, <3>1, Zenon
  <2> HIDE DEF Octet
  <2>3. sample \in Seq(Nat) /\ \A i \in 1 .. Len(sample) : sample[i] < 256
    BY <2>2, SequenceWidens
  <2> QED BY <2>3, Base64IsInverse
<1>3. ASSUME unit = "StringRef::find" PROVE SA!FindsFirst(sample[1], sample[2])
  <2>1. sample[1] \in Seq(Nat) /\ sample[2] \in Seq(Nat)
    BY <1>3, SMT DEF Given
  <2> QED BY <2>1, NeedleAssumption, FindIsFirst
<1>4. ASSUME unit = "compare_numeric" PROVE SA!NumericOrder(sample, NumericTexts)
  <2>1. sample \in Seq(Nat)
    BY <1>4, SMT DEF Given
  <2> HIDE DEF NumericTexts
  <2>2. \A b \in NumericTexts : \A c \in NumericTexts :
          /\ SA!compare_numeric(sample, b) = -SA!compare_numeric(b, sample)
          /\ SA!compare_numeric(sample, b) = 0 <=> sample = b
          /\ SA!compare_numeric(sample, b) = -1 /\ SA!compare_numeric(b, c) = -1
               => SA!compare_numeric(sample, c) = -1
    BY <2>1, TextsAreStrings, NumericIsAnOrder
  <2> QED BY <2>2 DEF SA!NumericOrder
<1>5. ASSUME unit = "scan_number" PROVE LX!NumberByGrammar(sample)
  <2>1. sample \in Seq(NumberChars)
    BY <1>5, SMT DEF Given
  <2> QED BY <2>1, NumbersByGrammar
<1>6. ASSUME unit = "scan_string" PROVE LX!StringInverse(sample)
  <2>1. sample \in Seq(0 .. 255)
    BY <1>6, SMT DEF Given
  <2> DEFINE Octet == 0 .. 255
  <2>2. Octet \subseteq Nat /\ sample \in Seq(Octet)
    <3>1. Octet \subseteq Nat
      OBVIOUS
    <3> QED BY <2>1, <3>1, Zenon
  <2> HIDE DEF Octet
  <2>3. sample \in Text
    BY <2>2, SequenceWidens DEF Text
  <2> QED BY <2>3, StringIsInverse
<1>7. ASSUME unit = "get_codepoint" PROVE LX!EscapeInverse(sample)
  <2>1. sample \in Nat /\ sample <= 1114111
    BY <1>7, SMT DEF Given
  <2> QED BY <2>1, EscapeIsInverse, SMT
<1> QED BY <1>1, <1>2, <1>3, <1>4, <1>5, <1>6, <1>7, Zenon DEF CodersExact
=============================================================================
