---------------------------- MODULE CoderProofs ----------------------------
(***************************************************************************)
(* The coders and searches, for every input and every size of their tables *)
(* and integers.  A walk over a string is a recursive function on the      *)
(* places of the string: Walk says that it is defined, and FromBehind is   *)
(* the induction along it.  StringRef::find: no skip passes a place over.  *)
(* LEB128 and Base64: the digits and groups come back one by one.          *)
(* compare_numeric: what decides is the first place where the kinds of the *)
(* characters, the ends of their runs of digits or the characters differ.  *)
(***************************************************************************)
EXTENDS Coders, FiniteSetTheorems, SequenceTheorems, WellFoundedInduction, TLAPS

(***************************************************************************)
(* Numbers and sequences                                                   *)
(***************************************************************************)

(* a division *)
LEMMA Division ==
  ASSUME NEW a \in Nat, NEW n \in Nat \ {0}
  PROVE  /\ a \div n \in Nat /\ a % n \in 0 .. n - 1
         /\ a = n * (a \div n) + (a % n)
         /\ a < n => a % n = a
<1>1. a \div n \in Nat
  OBVIOUS
<1>2. a % n \in 0 .. n - 1
  OBVIOUS
<1>3. a = n * (a \div n) + (a % n)
  OBVIOUS
<1>4. a < n => a % n = a
  OBVIOUS
<1> QED BY <1>1, <1>2, <1>3, <1>4

(* a set of numbers has a smallest *)
LEMMA Least ==
  ASSUME NEW S \in SUBSET Nat, S # {}
  PROVE  Min(S) \in S /\ \A y \in S : Min(S) <= y
<1>1. PICK R : R = OpToRel(<, Nat)
  OBVIOUS
<1>2. IsWellFoundedOn(R, Nat)
  BY <1>1, NatLessThanWellFounded
<1>3. \A m, n \in Nat : m < n => <<m, n>> \in R
  BY <1>1 DEF OpToRel
<1>4. PICK x \in S : \A y \in S : ~ (<<y, x>> \in R)
  BY <1>2, WFMin
<1>5. ASSUME NEW y \in S PROVE x <= y
  <2>1. x \in Nat /\ y \in Nat /\ ~ (y < x)
    BY <1>3, <1>4
  <2> QED BY <2>1
<1> QED BY <1>5 DEF Min

(* how long the parts of a concatenation are together *)
LEMMA JoinedLength ==
  ASSUME NEW s \in Seq(Nat), NEW t \in Seq(Nat)
  PROVE  s \o t \in Seq(Nat) /\ Len(s \o t) = Len(s) + Len(t) /\ Len(s) \in Nat /\ Len(t) \in Nat
  BY ConcatProperties, LenProperties

(* the elements of a concatenation *)
LEMMA JoinedElements ==
  ASSUME NEW s \in Seq(Nat), NEW t \in Seq(Nat)
  PROVE  /\ \A i \in 1 .. Len(s) : (s \o t)[i] = s[i]
         /\ \A i \in 1 .. Len(t) : (s \o t)[Len(s) + i] = t[i]
  BY ConcatProperties, LenProperties

(***************************************************************************)
(* Scanning                                                                *)
(***************************************************************************)

(* f goes on from each of the places a .. n to the next one, unless it     *)
(* stops there.                                                            *)
Walks(f, a, n, stops, answer, next) ==
  f = [i \in a .. n |-> IF stops[i] THEN answer[i] ELSE f[next[i]]]
Forward(a, n, stops, next) == \A i \in a .. n : ~stops[i] => next[i] \in i + 1 .. n

(* A recursive function on the places a .. n that goes from each place to  *)
(* a later one, or stops there, is defined.                                *)
LEMMA Walk ==
  ASSUME NEW a \in Int, NEW n \in Int, NEW stops, NEW answer, NEW next,
         Forward(a, n, stops, next)
  PROVE  \E f : Walks(f, a, n, stops, answer, next)
<1> USE DEF Walks, Forward
<1> DEFINE Eq(f, m) == f = [i \in m .. n |-> IF stops[i] THEN answer[i] ELSE f[next[i]]]
           bad == {k \in 0 .. n - a : ~ \E f : Eq(f, n - k)}
<1>1. CASE n < a
  <2>1. a .. n = {}
    BY <1>1
  <2>2. Eq([i \in a .. n |-> 0], a)
    BY <2>1
  <2> QED BY <2>2
<1>2. CASE n >= a
  <2>1. SUFFICES bad = {}
    <3>1. n - a \in 0 .. n - a /\ n - (n - a) = a
      BY <1>2
    <3>2. \E f : Eq(f, n - (n - a))
      BY <2>1, <3>1
    <3> HIDE DEF bad
    <3> QED BY <3>1, <3>2
  <2>2. SUFFICES ASSUME bad # {} PROVE FALSE
    OBVIOUS
  <2> DEFINE k == Min(bad)
             m == n - k
  <2>3. k \in bad /\ \A j \in bad : k <= j
    <3>1. bad \in SUBSET Nat
      OBVIOUS
    <3> HIDE DEF bad
    <3> QED BY <2>2, <3>1, Least
  <2>4. k \in 0 .. n - a /\ ~ \E f : Eq(f, m)
    BY <2>3
  <2>5. m \in a .. n
    BY <2>4
  <2> HIDE DEF k
  <2>6. \E g : \A i \in m + 1 .. n :
          /\ g[i] = IF stops[i] THEN answer[i] ELSE g[next[i]]
    <3>1. CASE m = n
      <4>1. m + 1 .. n = {}
        BY <2>5, <3>1
      <4> QED BY <4>1
    <3>2. CASE m # n
      <4>1. k - 1 \in 0 .. n - a /\ k - 1 \notin bad /\ n - (k - 1) = m + 1
        <5> HIDE DEF bad
        <5> QED BY <2>3, <2>4, <2>5, <3>2
      <4>2. \E f : Eq(f, n - (k - 1))
        BY <4>1
      <4>3. PICK f : Eq(f, m + 1)
        BY <4>1, <4>2
      <4>4. \A i \in m + 1 .. n : f[i] = IF stops[i] THEN answer[i] ELSE f[next[i]]
        BY <4>3
      <4> QED BY <4>4
    <3> QED BY <3>1, <3>2
  <2>7. PICK g : \A i \in m + 1 .. n : g[i] = IF stops[i] THEN answer[i] ELSE g[next[i]]
    BY <2>6
  <2> DEFINE f == [i \in m .. n |-> IF i = m THEN IF stops[m] THEN answer[m] ELSE g[next[m]] ELSE g[i]]
  <2> HIDE DEF bad, m
  <2>8. \A i \in m .. n : f[i] = IF stops[i] THEN answer[i] ELSE f[next[i]]
    <3> SUFFICES ASSUME NEW i \in m .. n PROVE f[i] = IF stops[i] THEN answer[i] ELSE f[next[i]]
      OBVIOUS
    <3>1. stops[i] \/ (next[i] \in m .. n /\ next[i] # m)
      BY <2>5
    <3>2. stops[i] \/ f[next[i]] = g[next[i]]
      BY <3>1
    <3>3. CASE i = m
      BY <3>2, <3>3
    <3>4. CASE i # m
      <4>1. i \in m + 1 .. n /\ f[i] = g[i]
        BY <2>5, <3>4
      <4> QED BY <2>7, <3>2, <4>1
    <3> QED BY <3>3, <3>4
  <2>9. f = [i \in m .. n |-> f[i]]
    OBVIOUS
  <2> HIDE DEF f
  <2>10. Eq(f, m)
    BY <2>8, <2>9
  <2> QED BY <2>4, <2>10 DEF m
<1> QED BY <1>1, <1>2

(* What holds at a place when it holds at all later ones holds everywhere. *)
LEMMA FromBehind ==
  ASSUME NEW a \in Int, NEW n \in Int, NEW S,
         \A i \in a .. n : (\A j \in i + 1 .. n : j \in S) => i \in S
  PROVE  \A i \in a .. n : i \in S
<1> DEFINE bad == {k \in 0 .. n - a : n - k \notin S}
<1>1. bad = {}
  <2> SUFFICES ASSUME bad # {} PROVE FALSE
    OBVIOUS
  <2> DEFINE k == Min(bad)
  <2>1. k \in bad /\ \A j \in bad : k <= j
    <3>1. bad \in SUBSET Nat
      OBVIOUS
    <3> HIDE DEF bad
    <3> QED BY <3>1, Least
  <2> HIDE DEF k
  <2>2. k \in 0 .. n - a /\ n - k \notin S
    BY <2>1
  <2>3. \A j \in n - k + 1 .. n : j \in S
    <3> SUFFICES ASSUME NEW j \in n - k + 1 .. n PROVE j \in S
      OBVIOUS
    <3>1. n - j \in 0 .. n - a /\ n - j < k /\ n - (n - j) = j
      BY <2>2
    <3>2. n - j \notin bad
      <4> HIDE DEF bad
      <4> QED BY <2>1, <2>2, <3>1
    <3> QED BY <3>1, <3>2
  <2>4. n - k \in a .. n
    BY <2>2
  <2> QED BY <2>2, <2>3, <2>4
<1>2. SUFFICES ASSUME NEW i \in a .. n PROVE i \in S
  OBVIOUS
<1>3. n - i \in 0 .. n - a /\ n - (n - i) = i
  OBVIOUS
<1> QED BY <1>1, <1>3

(***************************************************************************)
(* StringRef::find                                                         *)
(***************************************************************************)

(* a part of a sequence, element by element *)
LEMMA CutString ==
  ASSUME NEW C, NEW s \in Seq(C), NEW m \in 1 .. Len(s) + 1, NEW n \in 0 .. Len(s), m <= n + 1
  PROVE  /\ SubSeq(s, m, n) \in Seq(C) /\ Len(SubSeq(s, m, n)) = n - m + 1
         /\ \A i \in 1 .. n - m + 1 : SubSeq(s, m, n)[i] = s[m + i - 1]
<1>1. Len(s) \in Nat /\ m \in Int /\ n \in Int
  BY LenProperties
<1>2. \A i \in m .. n : s[i] \in C
  BY <1>1, ElementOfSeq
<1>3. /\ SubSeq(s, m, n) \in Seq(C)
      /\ Len(SubSeq(s, m, n)) = IF m <= n THEN n - m + 1 ELSE 0
      /\ \A i \in 1 .. n - m + 1 : SubSeq(s, m, n)[i] = s[m + i - 1]
  BY <1>1, <1>2, SubSeqProperties
<1> QED BY <1>1, <1>3

(* What matches does so character by character. *)
LEMMA MatchedText ==
  ASSUME NEW s \in Seq(Nat), NEW str \in Seq(Nat), NEW at \in 0 .. Len(s) - Len(str),
         SA!Matches(s, str, at), NEW i \in 1 .. Len(str)
  PROVE  s[at + i] = str[i]
<1>1. Len(s) \in Nat /\ Len(str) \in Nat
  BY LenProperties
<1> DEFINE m == at + 1
           n == at + Len(str)
<1>2. m \in 1 .. Len(s) + 1 /\ n \in 0 .. Len(s) /\ m <= n + 1 /\ n - m + 1 = Len(str)
      /\ m + i - 1 = at + i
  BY <1>1
<1>3. SubSeq(s, m, n) = str
  BY DEF SA!Matches
<1> HIDE DEF m, n
<1>4. SubSeq(s, m, n)[i] = s[m + i - 1]
  BY <1>2, CutString
<1> QED BY <1>2, <1>3, <1>4

(* A search goes on by one place at least and by the length of the string  *)
(* at most, and the string is at none of the places between.               *)
LEMMA SkipsNothing ==
  ASSUME NEW s \in Seq(Nat), NEW str \in Seq(Nat), str # <<>>,
         MaxNeedle \in Nat, Len(str) <= MaxNeedle, NEW at \in 0 .. Len(s) - Len(str)
  PROVE  LET skip == SA!BadCharSkip(str, s[at + Len(str)]) IN
         /\ skip \in 1 .. Len(str)
         /\ \A p \in at + 1 .. at + skip - 1 : p <= Len(s) - Len(str) => ~SA!Matches(s, str, p)
<1> DEFINE L == Len(str)
           c == s[at + L]
           places == Occurrences(str, c) \ {L}
           far == {L} \cup {L - i : i \in places}
           skip == SA!BadCharSkip(str, c)
<1>1. L \in Nat /\ L > 0 /\ Len(s) \in Nat
  BY LenProperties, EmptySeq
<1>2. DOMAIN str = 1 .. L
  BY LenProperties
<1>3. \A i : i \in places <=> i \in 1 .. L - 1 /\ str[i] = c
  <2> HIDE DEF c
  <2> QED BY <1>1, <1>2 DEF Occurrences
<1> HIDE DEF places
<1>4. \A x \in far : x \in 1 .. L
  <2> HIDE DEF L
  <2> QED BY <1>1, <1>3, SMTT(30)
<1>5. Min(far) \in far /\ \A x \in far : Min(far) <= x
  <2>1. far \in SUBSET Nat /\ far # {}
    BY <1>4
  <2> HIDE DEF far
  <2> QED BY <2>1, Least
<1>6. skip = Min(far)
  <2>1. skip = Min(far) % (MaxNeedle + 1)
    BY Zenon DEF SA!BadCharSkip, SA!Occurrences, SA!Min, Min, Occurrences, places
  <2>2. Min(far) \in Nat /\ MaxNeedle + 1 \in Nat \ {0} /\ Min(far) < MaxNeedle + 1
    <3> HIDE DEF far
    <3> QED BY <1>1, <1>4, <1>5
  <2> HIDE DEF far, skip
  <2> QED BY <2>1, <2>2, Division
<1>7. skip \in 1 .. L
  <2> HIDE DEF far, skip
  <2> QED BY <1>4, <1>5, <1>6
<1>8. ASSUME NEW p \in at + 1 .. at + skip - 1, p <= Len(s) - L, SA!Matches(s, str, p)
      PROVE  FALSE
  <2> HIDE DEF skip, L
  <2> DEFINE i == L - (p - at)
  <2>1. i \in 1 .. L - 1 /\ p + i = at + L /\ p \in 0 .. Len(s) - L
    BY <1>1, <1>7, <1>8
  <2>2. s[p + i] = str[i]
    <3>1. p \in 0 .. Len(s) - Len(str) /\ i \in 1 .. Len(str)
      BY <1>1, <2>1 DEF L
    <3> HIDE DEF i
    <3> QED BY <1>8, <3>1, MatchedText
  <2>3. i \in places
    BY <1>3, <2>1, <2>2
  <2>4. L - i \in far /\ L - i = p - at
    BY <1>1, <2>1, <2>3
  <2> HIDE DEF far, i
  <2>5. skip <= p - at
    BY <1>5, <1>6, <2>4
  <2> QED BY <1>7, <1>8, <2>5
<1> QED BY <1>7, <1>8

(* StringRef::find returns the first place of the string at or behind      *)
(* `from', or npos if there is none, whatever the size of the table of     *)
(* skips and the length from which it is used: no skip passes a place over. *)
THEOREM FindIsFirst ==
  ASSUME MaxNeedle \in Nat, NEW s \in Seq(Nat), NEW str \in Seq(Nat)
  PROVE  SA!FindsFirst(s, str)
<1> DEFINE Hits(at) == {p \in at .. Len(s) - Len(str) : SA!Matches(s, str, p)}
           Earliest(at) == IF Hits(at) = {} THEN SA!npos ELSE SA!Min(Hits(at))
<1> SUFFICES ASSUME NEW from \in 0 .. Len(s) + 1 PROVE SA!find(s, str, from) = Earliest(from)
  BY DEF SA!FindsFirst
<1>0. Len(s) \in Nat /\ Len(str) \in Nat
  BY LenProperties
<1>m. \A at \in Nat : Hits(at) # {} =>
        SA!Min(Hits(at)) \in Hits(at) /\ \A p \in Hits(at) : SA!Min(Hits(at)) <= p
  <2> SUFFICES ASSUME NEW at \in Nat, Hits(at) # {}
               PROVE  SA!Min(Hits(at)) \in Hits(at) /\ \A p \in Hits(at) : SA!Min(Hits(at)) <= p
    OBVIOUS
  <2> DEFINE P == Hits(at)
  <2>1. P \in SUBSET Nat /\ P # {}
    BY <1>0
  <2> HIDE DEF P
  <2>2. Min(P) \in P /\ \A p \in P : Min(P) <= p
    BY <2>1, Least
  <2> QED BY <2>2 DEF Min, SA!Min, P
<1>1. CASE from > Len(s)
  <2>1. Hits(from) = {}
    BY <1>0, <1>1
  <2> QED BY <1>1, <2>1 DEF SA!find
<1>2. CASE ~(from > Len(s)) /\ str = <<>>
  <2>1. from \in 0 .. Len(s) /\ Len(str) = 0
    BY <1>0, <1>2
  <2>2. SubSeq(s, from + 1, from + Len(str)) = str
    <3>1. from + 1 \in Int /\ from + Len(str) \in Int /\ from + Len(str) < from + 1
      BY <2>1
    <3> QED BY <1>2, <2>1, <3>1, EmptySeq, SubSeqProperties
  <2>3. from \in Hits(from)
    BY <1>0, <2>1, <2>2 DEF SA!Matches
  <2>4. SA!Min(Hits(from)) = from
    <3>1. \A p \in Hits(from) : p \in Nat /\ from <= p
      BY <1>0
    <3>2. SA!Min(Hits(from)) \in Hits(from) /\ SA!Min(Hits(from)) <= from
      <4>1. from \in Nat
        BY <2>1
      <4> HIDE DEF Hits
      <4> QED BY <1>m, <2>3, <4>1
    <3> HIDE DEF Hits
    <3> QED BY <3>1, <3>2
  <2>5. SA!find(s, str, from) = from
    BY <1>2, Zenon DEF SA!find
  <2> HIDE DEF Hits
  <2> QED BY <2>3, <2>4, <2>5
<1>3. CASE ~(from > Len(s)) /\ str # <<>>
  <2> DEFINE n == Len(s)
             last == Len(s) - Len(str)
             naive == Len(s) - from < ShortHaystack \/ Len(str) > MaxNeedle
             Stride(at) == IF naive THEN 1 ELSE SA!BadCharSkip(str, s[at + Len(str)])
             stops == [at \in from .. n |-> at > last \/ SA!Matches(s, str, at)]
             answer == [at \in from .. n |-> IF at > last THEN SA!npos ELSE at]
             next == [at \in from .. n |-> at + Stride(at)]
             search == CHOOSE f : f = [at \in from .. n |->
                         IF at > last THEN SA!npos
                         ELSE IF SA!Matches(s, str, at) THEN at ELSE f[at + Stride(at)]]
  <2>1. SA!find(s, str, from) = search[from]
    BY <1>3, Zenon DEF SA!find
  <2>2. n \in Nat /\ from \in 0 .. n /\ Len(str) >= 1
    BY <1>0, <1>3, EmptySeq
  <2>3. \A at \in from .. n : at <= last =>
          /\ Stride(at) \in 1 .. Len(str)
          /\ \A p \in at + 1 .. at + Stride(at) - 1 : p <= last => ~SA!Matches(s, str, p)
    <3> SUFFICES ASSUME NEW at \in from .. n, at <= last
                 PROVE  /\ Stride(at) \in 1 .. Len(str)
                        /\ \A p \in at + 1 .. at + Stride(at) - 1 : p <= last => ~SA!Matches(s, str, p)
      OBVIOUS
    <3>1. CASE naive
      <4>1. Stride(at) = 1
        BY <3>1
      <4> HIDE DEF Stride, naive
      <4> QED BY <2>2, <1>0, <4>1
    <3>2. CASE ~naive
      <4>1. Stride(at) = SA!BadCharSkip(str, s[at + Len(str)])
        BY <3>2
      <4>2. Len(str) <= MaxNeedle /\ at \in 0 .. Len(s) - Len(str)
        BY <1>0, <2>2, <3>2
      <4> HIDE DEF Stride, naive
      <4> QED BY <1>3, <4>1, <4>2, SkipsNothing
    <3> QED BY <3>1, <3>2
  <2>4. search = [at \in from .. n |->
                    IF at > last THEN SA!npos
                    ELSE IF SA!Matches(s, str, at) THEN at ELSE search[at + Stride(at)]]
    <3>1. \A at \in from .. n : ~stops[at] => next[at] \in at + 1 .. n
      <4> SUFFICES ASSUME NEW at \in from .. n, ~stops[at] PROVE next[at] \in at + 1 .. n
        OBVIOUS
      <4>0. ~(at > last) /\ at \in Int /\ last \in Int
        <5>1. ~(at > last)
          BY Zenon
        <5> QED BY <1>0, <2>2, <5>1
      <4>1. at <= last /\ next[at] = at + Stride(at)
        <5> HIDE DEF Stride, last, stops
        <5> QED BY <4>0
      <4>2. Stride(at) \in 1 .. Len(str)
        BY <2>3, <4>1
      <4> HIDE DEF Stride, next, stops
      <4> QED BY <1>0, <2>2, <4>1, <4>2
    <3>2. \E f : f = [at \in from .. n |-> IF stops[at] THEN answer[at] ELSE f[next[at]]]
      <4>1. from \in Int /\ n \in Int
        BY <2>2
      <4> HIDE DEF stops, answer, next, n
      <4>2. Forward(from, n, stops, next)
        BY <3>1 DEF Forward
      <4>3. \E f : Walks(f, from, n, stops, answer, next)
        BY <4>1, <4>2, Walk
      <4> QED BY <4>3 DEF Walks
    <3>3. PICK f : f = [at \in from .. n |-> IF stops[at] THEN answer[at] ELSE f[next[at]]]
      BY <3>2
    <3>4. \A at \in from .. n :
            (IF stops[at] THEN answer[at] ELSE f[next[at]])
              = IF at > last THEN SA!npos
                ELSE IF SA!Matches(s, str, at) THEN at ELSE f[at + Stride(at)]
      <4> HIDE DEF Stride, last
      <4> QED BY DEF stops, answer, next
    <3>5. f = [at \in from .. n |-> IF at > last THEN SA!npos
                ELSE IF SA!Matches(s, str, at) THEN at ELSE f[at + Stride(at)]]
      <4> HIDE DEF Stride, last, stops, answer, next
      <4> QED BY <3>3, <3>4
    <3> HIDE DEF Stride, last, n
    <3> QED BY <3>5
  <2> HIDE DEF search
  <2> DEFINE S == {at \in from .. n : search[at] = Earliest(at)}
  <2>5. ASSUME NEW at \in from .. n, \A p \in at + 1 .. n : p \in S
        PROVE  search[at] = Earliest(at)
    <3>1. search[at] = IF at > last THEN SA!npos
                       ELSE IF SA!Matches(s, str, at) THEN at ELSE search[at + Stride(at)]
      BY <2>4
    <3>2. at \in Nat /\ last \in Int
      BY <1>0, <2>2
    <3>3. CASE at > last
      <4>1. Hits(at) = {}
        BY <3>2, <3>3
      <4> QED BY <3>1, <3>3, <4>1
    <3>4. CASE ~(at > last) /\ SA!Matches(s, str, at)
      <4>1. at \in Hits(at) /\ \A p \in Hits(at) : p \in Nat /\ at <= p
        BY <3>2, <3>4
      <4>2. SA!Min(Hits(at)) \in Hits(at) /\ SA!Min(Hits(at)) <= at
        BY <1>m, <3>2, <4>1
      <4> HIDE DEF Hits
      <4>3. SA!Min(Hits(at)) = at
        BY <3>2, <4>1, <4>2
      <4> QED BY <3>1, <3>4, <4>1, <4>3
    <3>5. CASE ~(at > last) /\ ~SA!Matches(s, str, at)
      <4> DEFINE q == at + Stride(at)
      <4>1. /\ Stride(at) \in 1 .. Len(str)
            /\ \A p \in at + 1 .. at + Stride(at) - 1 : p <= last => ~SA!Matches(s, str, p)
        BY <2>3, <3>2, <3>5
      <4> HIDE DEF Stride
      <4>2. q \in at + 1 .. n
        BY <1>0, <2>2, <3>2, <3>5, <4>1, SMTT(30)
      <4>3. search[at] = Earliest(q)
        <5> HIDE DEF Earliest
        <5> QED BY <2>5, <3>1, <3>5, <4>2
      <4>4. Hits(at) = Hits(q)
        <5>1. \A p \in at .. last : p \in q .. last \/ ~SA!Matches(s, str, p)
          <6> SUFFICES ASSUME NEW p \in at .. last, p \notin q .. last PROVE ~SA!Matches(s, str, p)
            OBVIOUS
          <6>1. p = at \/ p \in at + 1 .. at + Stride(at) - 1
            BY <3>2, <4>1
          <6>2. p <= last
            BY <3>2
          <6> QED BY <3>5, <4>1, <6>1, <6>2
        <5>2. \A p \in q .. last : p \in at .. last
          BY <3>2, <4>1
        <5> HIDE DEF q
        <5> QED BY <5>1, <5>2
      <4> HIDE DEF Hits, q
      <4> QED BY <4>3, <4>4
    <3> QED BY <3>3, <3>4, <3>5
  <2>6. \A at \in from .. n : at \in S
    <3>1. \A at \in from .. n : (\A p \in at + 1 .. n : p \in S) => at \in S
      <4> HIDE DEF Earliest
      <4> QED BY <2>5
    <3>2. from \in Int /\ n \in Int
      BY <2>2
    <3> HIDE DEF S, n
    <3> QED BY <3>1, <3>2, FromBehind
  <2> HIDE DEF Earliest
  <2> QED BY <2>1, <2>2, <2>6
<1> QED BY <1>1, <1>2, <1>3

(***************************************************************************)
(* LEB128                                                                  *)
(***************************************************************************)

(* the seven low bits of a byte, and the four of the fifth one *)
LEMMA LowBits ==
  ASSUME NEW v \in Nat, v < 128
  PROVE  v % 128 = v /\ (v + 128) % 128 = v /\ v % 16 < 16 /\ (v < 16 => v % 16 = v)
  OBVIOUS

(* ReadUleb128 on bytes whose first unmarked one is known. *)
LEMMA LebRead ==
  ASSUME NEW s \in Seq(Nat), NEW n \in 1 .. Len(s), s[n] < 128,
         \A i \in 1 .. n - 1 : s[i] >= 128
  PROVE  LET Digit(i) == IF i = 5 THEN (s[i] % 128) % 16 ELSE s[i] % 128
             highest == LB!Max({1} \cup {i \in 1 .. n : Digit(i) # 0})
         IN  LB!ReadUleb128(s) =
               IF n > 5 THEN [outcome |-> "undefined", count |-> n]
               ELSE [outcome |-> "read", count |-> n, val |-> [i \in 1 .. highest |-> Digit(i)]]
<1> DEFINE ends == {i \in DOMAIN s : s[i] < 128}
<1>1. DOMAIN s = 1 .. Len(s) /\ Len(s) \in Nat
  BY LenProperties
<1>2. \A i \in 1 .. Len(s) : s[i] \in Nat
  BY ElementOfSeq
<1>3. n \in ends /\ \A i \in ends : n <= i /\ i \in Nat
  BY <1>1, <1>2
<1>4. ends # {}
  BY <1>3
<1>5. LB!Min(ends) = n
  <2> HIDE DEF ends
  <2>1. n \in Nat
    BY <1>1
  <2>2. \E x \in ends : \A y \in ends : x <= y
    BY <1>3
  <2>3. LB!Min(ends) \in ends /\ \A y \in ends : LB!Min(ends) <= y
    BY <2>2 DEF LB!Min
  <2>4. LB!Min(ends) \in Nat /\ LB!Min(ends) <= n /\ n <= LB!Min(ends)
    BY <1>3, <2>3
  <2> QED BY <2>1, <2>4
<1> HIDE DEF ends
<1>6. LB!ReadUleb128(s) =
        LET taken == LB!Min(ends)
            Digit(i) == IF i = 5 THEN (s[i] % 128) % 16 ELSE s[i] % 128
            highest == LB!Max({1} \cup {i \in 1 .. taken : Digit(i) # 0})
        IN  IF ends = {} THEN [outcome |-> "error"]
            ELSE IF taken > 5 THEN [outcome |-> "undefined", count |-> taken]
            ELSE [outcome |-> "read", count |-> taken, val |-> [i \in 1 .. highest |-> Digit(i)]]
  BY Zenon DEF LB!ReadUleb128, ends
<1> QED BY <1>4, <1>5, <1>6, Zenon

(* ReadUleb128 gives back what WriteUleb128 was given, a number of any     *)
(* length, exactly if it is below 2^32; it leaves what follows, and takes  *)
(* nothing that is cut off for a number.                                   *)
THEOREM LebIsInverse ==
  ASSUME NEW val \in Seq(Nat), val # <<>>, \A i \in 1 .. Len(val) : val[i] < 128,
         Len(val) = 1 \/ val[Len(val)] # 0
  PROVE  LB!LebInverse(val)
<1> DEFINE n == Len(val)
           bytes == LB!WriteUleb128(val)
           whole == bytes \o <<127, 128>>
           read == LB!ReadUleb128(whole)
           Digit(i) == IF i = 5 THEN (whole[i] % 128) % 16 ELSE whole[i] % 128
           highest == LB!Max({1} \cup {i \in 1 .. n : Digit(i) # 0})
<1>1. n \in Nat /\ n >= 1 /\ DOMAIN val = 1 .. n
  BY LenProperties, EmptySeq
<1>2. \A i \in 1 .. n : val[i] \in Nat /\ val[i] < 128
  BY ElementOfSeq
<1> HIDE DEF n
<1>3. bytes \in Seq(Nat) /\ Len(bytes) = n /\ \A i \in 1 .. n : bytes[i] = IF i < n THEN val[i] + 128 ELSE val[i]
  <2>1. bytes = [i \in 1 .. n |-> IF i < n THEN val[i] + 128 ELSE val[i]]
    BY <1>1 DEF LB!WriteUleb128, n
  <2>2. \A i \in 1 .. n : (IF i < n THEN val[i] + 128 ELSE val[i]) \in Nat
    <3> SUFFICES ASSUME NEW i \in 1 .. n PROVE val[i] + 128 \in Nat /\ val[i] \in Nat
      OBVIOUS
    <3>1. val[i] \in Nat /\ val[i] < 128
      BY <1>2
    <3> QED BY <3>1
  <2> HIDE DEF bytes
  <2>3. bytes \in [1 .. n -> Nat]
    BY <2>1, <2>2
  <2>4. bytes \in Seq(Nat)
    BY <1>1, <2>3, IsASeq
  <2>5. Len(bytes) = n
    BY <1>1, <2>1, <2>4, LenProperties
  <2> QED BY <2>1, <2>4, <2>5
<1> HIDE DEF bytes
<1>4. /\ whole \in Seq(Nat) /\ Len(whole) = n + 2
      /\ \A i \in 1 .. n : whole[i] = bytes[i]
  <2>1. <<127, 128>> \in Seq(Nat) /\ Len(<<127, 128>>) = 2
    OBVIOUS
  <2> QED BY <1>3, <2>1, JoinedLength, JoinedElements
<1> HIDE DEF whole
<1>5. read = IF n > 5 THEN [outcome |-> "undefined", count |-> n]
             ELSE [outcome |-> "read", count |-> n, val |-> [i \in 1 .. highest |-> Digit(i)]]
  <2>1. n \in 1 .. Len(whole) /\ n \in 1 .. n
    BY <1>1, <1>4
  <2>2. whole[n] < 128
    <3>1. whole[n] = val[n] /\ val[n] \in Nat /\ val[n] < 128
      BY <1>1, <1>2, <1>3, <1>4, <2>1
    <3> QED BY <3>1
  <2>3. ASSUME NEW i \in 1 .. n - 1 PROVE whole[i] >= 128
    <3>1. i \in 1 .. n /\ i < n
      BY <1>1
    <3>2. whole[i] = val[i] + 128 /\ val[i] \in Nat /\ val[i] < 128
      BY <1>2, <1>3, <1>4, <3>1
    <3> QED BY <3>2
  <2> QED BY <1>4, <2>1, <2>2, <2>3, LebRead, Zenon
<1> HIDE DEF read
<1>6. read.outcome # "error" /\ read.count = n
  BY <1>5
<1>7. \A i \in 1 .. n : Digit(i) = IF i = 5 THEN val[i] % 16 ELSE val[i]
  <2> SUFFICES ASSUME NEW i \in 1 .. n PROVE whole[i] % 128 = val[i]
    OBVIOUS
  <2>1. whole[i] = val[i] + 128 \/ whole[i] = val[i]
    BY <1>3, <1>4
  <2>2. val[i] % 128 = val[i] /\ (val[i] + 128) % 128 = val[i]
    BY <1>2, LowBits
  <2> QED BY <2>1, <2>2
<1>8. (read.outcome = "read" /\ read.val = val) <=> LB!Below32Bits(val)
  <2>1. CASE n > 5
    <3>1. read.outcome # "read"
      BY <1>5, <2>1
    <3>2. ~(n < 5) /\ n # 5
      BY <1>1, <2>1
    <3>3. ~LB!Below32Bits(val)
      BY <3>2, Zenon DEF LB!Below32Bits, n
    <3> QED BY <3>1, <3>3
  <2>2. CASE ~(n > 5)
    <3>1. read.outcome = "read" /\ read.val = [i \in 1 .. highest |-> Digit(i)]
      BY <1>5, <2>2
    <3>2. CASE n = 5 /\ val[5] >= 16
      <4>1. 5 \in 1 .. n /\ val[5] \in Nat /\ val[5] < 128
        BY <1>1, <1>2, <3>2
      <4>2. Digit(5) # val[5]
        <5>1. Digit(5) = val[5] % 16
          BY <1>7, <4>1
        <5>2. val[5] % 16 < 16
          BY <4>1, LowBits
        <5> HIDE DEF Digit
        <5>3. val[5] % 16 # val[5]
          BY <3>2, <4>1, <5>2
        <5> QED BY <5>1, <5>3
      <4>3. read.val # val
        <5> SUFFICES ASSUME read.val = val PROVE FALSE
          OBVIOUS
        <5>1. DOMAIN val = 1 .. highest
          BY <3>1
        <5>2. 5 \in 1 .. highest
          BY <1>1, <4>1, <5>1
        <5> HIDE DEF highest
        <5>3. val[5] = Digit(5)
          BY <3>1, <5>2
        <5> QED BY <4>2, <5>3
      <4>4. ~LB!Below32Bits(val)
        <5>1. ~(n < 5) /\ ~(val[5] < 16)
          BY <3>2, <4>1
        <5> QED BY <5>1 DEF LB!Below32Bits, n
      <4> QED BY <4>3, <4>4
    <3>3. CASE ~(n = 5 /\ val[5] >= 16)
      <4>1. LB!Below32Bits(val)
        <5>1. n < 5 \/ (n = 5 /\ val[5] < 16)
          <6>1. CASE n = 5
            <7>1. val[5] \in Nat /\ val[5] < 128
              BY <1>2, <6>1
            <7> QED BY <3>3, <6>1, <7>1
          <6>2. CASE n # 5
            BY <1>1, <2>2, <6>2
          <6> QED BY <6>1, <6>2
        <5> QED BY <5>1 DEF LB!Below32Bits, n
      <4>2. \A i \in 1 .. n : Digit(i) = val[i]
        <5> SUFFICES ASSUME NEW i \in 1 .. n PROVE Digit(i) = val[i]
          OBVIOUS
        <5>1. Digit(i) = IF i = 5 THEN val[i] % 16 ELSE val[i]
          BY <1>7
        <5> HIDE DEF Digit
        <5>2. CASE i = 5
          <6>1. n = 5 /\ val[5] \in Nat /\ val[5] < 128
            BY <1>1, <1>2, <2>2, <5>2
          <6>2. val[5] < 16
            BY <3>3, <6>1
          <6>3. val[5] % 16 = val[5]
            BY <6>1, <6>2, LowBits
          <6> QED BY <5>1, <5>2, <6>3
        <5>3. CASE i # 5
          BY <5>1, <5>3
        <5> QED BY <5>2, <5>3
      <4>3. highest = n
        <5> DEFINE T == {1} \cup {i \in 1 .. n : Digit(i) # 0}
        <5>1. \A i \in T : i \in Int /\ i <= n
          BY <1>1
        <5>2. n \in T
          <6>1. val[n] # 0 \/ n = 1
            BY <1>1 DEF n
          <6> QED BY <1>1, <4>2, <6>1
        <5>3. \E x \in T : \A y \in T : x >= y
          BY <1>1, <5>1, <5>2
        <5>4. LB!Max(T) \in T /\ \A y \in T : LB!Max(T) >= y
          <6> HIDE DEF T
          <6> QED BY <5>3 DEF LB!Max
        <5>5. LB!Max(T) = n
          <6> HIDE DEF T
          <6>1. LB!Max(T) \in Int /\ LB!Max(T) <= n /\ LB!Max(T) >= n
            BY <5>1, <5>2, <5>4
          <6> QED BY <1>1, <6>1
        <5> QED BY <5>5
      <4> HIDE DEF highest, Digit
      <4>4. [i \in 1 .. highest |-> Digit(i)] = val
        <5>1. val = [i \in 1 .. n |-> val[i]]
          BY <1>1
        <5> QED BY <4>2, <4>3, <5>1
      <4> QED BY <3>1, <4>1, <4>4
    <3> QED BY <3>2, <3>3
  <2> QED BY <2>1, <2>2
<1>9. LB!ReadUleb128(LB!take_front(bytes, n - 1)).outcome = "error"
  <2> DEFINE s == LB!take_front(bytes, n - 1)
             ends == {i \in DOMAIN s : s[i] < 128}
  <2>1. DOMAIN s = 1 .. n - 1 /\ \A i \in 1 .. n - 1 : s[i] = bytes[i]
    <3> DEFINE k == n - 1
    <3>1. k \in 0 .. Len(bytes) /\ 1 \in 1 .. Len(bytes) + 1 /\ 1 <= k + 1 /\ k \in Nat
      BY <1>1, <1>3
    <3>2. s = SubSeq(bytes, 1, k)
      BY DEF LB!take_front
    <3> HIDE DEF s, k
    <3>3. /\ SubSeq(bytes, 1, k) \in Seq(Nat) /\ Len(SubSeq(bytes, 1, k)) = k - 1 + 1
          /\ \A i \in 1 .. k - 1 + 1 : SubSeq(bytes, 1, k)[i] = bytes[1 + i - 1]
      BY <1>3, <3>1, CutString, SMTT(30)
    <3>4. s \in Seq(Nat) /\ Len(s) = k /\ \A i \in 1 .. k : s[i] = bytes[i]
      BY <3>1, <3>2, <3>3
    <3> USE DEF k
    <3> QED BY <3>4, LenProperties
  <2>2. ends = {}
    <3> SUFFICES ASSUME NEW i \in 1 .. n - 1 PROVE ~(s[i] < 128)
      BY <2>1
    <3> HIDE DEF s
    <3>1. i \in 1 .. n /\ i < n
      BY <1>1
    <3>2. s[i] = val[i] + 128 /\ val[i] \in Nat /\ val[i] < 128
      BY <1>2, <1>3, <2>1, <3>1
    <3> QED BY <3>2
  <2>3. LB!ReadUleb128(s) = [outcome |-> "error"]
    <3> HIDE DEF s
    <3> QED BY <2>2, Zenon DEF LB!ReadUleb128
  <2> QED BY <2>3
<1> QED BY <1>1, <1>3, <1>6, <1>8, <1>9 DEF LB!LebInverse, LB!SizeUleb128, bytes, whole, read, n

(***************************************************************************)
(* Base64                                                                  *)
(***************************************************************************)

(* a text is made of bytes; with zeros behind its end; and the three of    *)
(* them that are coded together                                            *)
OfBytes(plain) == \A i \in 1 .. Len(plain) : plain[i] < 256
Byte(plain, i) == IF i > Len(plain) THEN 0 ELSE plain[i]
Coded(plain, g) ==
  B64!Sextets(Byte(plain, 3 * g + 1), Byte(plain, 3 * g + 2), Byte(plain, 3 * g + 3))

(* the code of a text of 3q + r bytes, character by character *)
CodeOf(e, plain, q, r) ==
  /\ e \in Seq(Nat) /\ Len(e) = 4 * (q + 1)
  /\ \A k \in 1 .. Len(e) :
       e[k] = IF k > 4 * q + r + 1 THEN 64 ELSE Coded(plain, (k - 1) \div 4)[1 + ((k - 1) % 4)]

(* d is in the alphabet up to p; what is read of it, with zeros behind     *)
Letters(d, p) == (\A i \in 1 .. p : d[i] # 64) /\ (p = Len(d) \/ d[p + 1] = 64)
Char(d, p, i) == IF i > p THEN 0 ELSE d[i]
Group(d, p, g) ==
  B64!Octets(<<Char(d, p, 4 * g + 1), Char(d, p, 4 * g + 2), Char(d, p, 4 * g + 3), Char(d, p, 4 * g + 4)>>)

(* the characters of three bytes, *)
LEMMA SextetsAre ==
  ASSUME NEW a \in Nat, a < 256, NEW b \in Nat, b < 256, NEW c \in Nat, c < 256, NEW i \in 1 .. 4
  PROVE  B64!Sextets(a, b, c)[i] \in Nat /\ B64!Sextets(a, b, c)[i] < 64
<1> DEFINE s1 == a \div 4
           s2 == (a % 4) * 16 + b \div 16
           s3 == (b % 16) * 4 + c \div 64
           s4 == c % 64
           s == <<s1, s2, s3, s4>>
<1>1. /\ s1 \in Nat /\ s1 < 64 /\ s2 \in Nat /\ s2 < 64
      /\ s3 \in Nat /\ s3 < 64 /\ s4 \in Nat /\ s4 < 64
  OBVIOUS
<1>2. s = B64!Sextets(a, b, c)
  BY DEF B64!Sextets
<1> HIDE DEF s1, s2, s3, s4
<1>3. s[1] = s1 /\ s[2] = s2 /\ s[3] = s3 /\ s[4] = s4
  OBVIOUS
<1> HIDE DEF s
<1>4. i = 1 \/ i = 2 \/ i = 3 \/ i = 4
  OBVIOUS
<1>5. s[i] \in Nat /\ s[i] < 64
  BY <1>1, <1>3, <1>4
<1> QED BY <1>2, <1>5

(* the zeros among them, *)
LEMMA SextetsEnd ==
  ASSUME NEW a \in Nat, a < 256, NEW b \in Nat, b < 256
  PROVE  B64!Sextets(a, b, 0)[4] = 0 /\ (b = 0 => B64!Sextets(a, b, 0)[3] = 0)
<1>1. B64!Sextets(a, b, 0) = <<a \div 4, (a % 4) * 16 + b \div 16, (b % 16) * 4 + 0 \div 64, 0 % 64>>
  BY DEF B64!Sextets
<1>2. 0 % 64 = 0 /\ (b = 0 => (b % 16) * 4 + 0 \div 64 = 0)
  OBVIOUS
<1> QED BY <1>1, <1>2

(* and the bytes again *)
LEMMA OctetsOfSextets ==
  ASSUME NEW a \in Nat, a < 256, NEW b \in Nat, b < 256, NEW c \in Nat, c < 256,
         NEW s, s = B64!Sextets(a, b, c)
  PROVE  LET o == B64!Octets(<<s[1], s[2], s[3], s[4]>>) IN o[1] = a /\ o[2] = b /\ o[3] = c
<1> DEFINE s1 == a \div 4
           s2 == (a % 4) * 16 + b \div 16
           s3 == (b % 16) * 4 + c \div 64
           s4 == c % 64
           t == <<s[1], s[2], s[3], s[4]>>
           o == B64!Octets(t)
<1>1. (s1 * 4 + s2 \div 16) % 256 = a
  OBVIOUS
<1>2. (s2 * 16 + s3 \div 4) % 256 = b
  OBVIOUS
<1>3. (s3 * 64 + s4) % 256 = c
  OBVIOUS
<1>4. s = <<s1, s2, s3, s4>>
  BY DEF B64!Sextets
<1> HIDE DEF s1, s2, s3, s4
<1>5. s[1] = s1 /\ s[2] = s2 /\ s[3] = s3 /\ s[4] = s4
  BY <1>4
<1>6. t[1] = s1 /\ t[2] = s2 /\ t[3] = s3 /\ t[4] = s4
  BY <1>5
<1> HIDE DEF t
<1>7. o = <<(s1 * 4 + s2 \div 16) % 256, (s2 * 16 + s3 \div 4) % 256, (s3 * 64 + s4) % 256>>
  BY <1>6, Zenon DEF B64!Octets
<1>8. o = <<a, b, c>>
  BY <1>1, <1>2, <1>3, <1>7, Zenon
<1> HIDE DEF o
<1>9. o[1] = a /\ o[2] = b /\ o[3] = c
  BY <1>8
<1> QED BY <1>9 DEF o, t

(* A byte is one, also behind the end of the text, *)
LEMMA BytesAre ==
  ASSUME NEW plain \in Seq(Nat), OfBytes(plain), NEW j \in Nat \ {0}
  PROVE  Byte(plain, j) \in Nat /\ Byte(plain, j) < 256
<1>1. Len(plain) \in Nat
  BY LenProperties
<1>2. CASE j > Len(plain)
  BY <1>2 DEF Byte
<1>3. CASE ~(j > Len(plain))
  <2>1. j \in 1 .. Len(plain)
    BY <1>1, <1>3
  <2>2. plain[j] \in Nat /\ plain[j] < 256
    BY <2>1, ElementOfSeq DEF OfBytes
  <2> QED BY <1>3, <2>2 DEF Byte
<1> QED BY <1>2, <1>3

(* and three of them are four letters. *)
LEMMA CodedAre ==
  ASSUME NEW plain \in Seq(Nat), OfBytes(plain), NEW g \in Nat, NEW i \in 1 .. 4
  PROVE  Coded(plain, g)[i] \in Nat /\ Coded(plain, g)[i] < 64
<1>1. 3 * g + 1 \in Nat \ {0} /\ 3 * g + 2 \in Nat \ {0} /\ 3 * g + 3 \in Nat \ {0}
  OBVIOUS
<1>2. /\ Byte(plain, 3 * g + 1) \in Nat /\ Byte(plain, 3 * g + 1) < 256
      /\ Byte(plain, 3 * g + 2) \in Nat /\ Byte(plain, 3 * g + 2) < 256
      /\ Byte(plain, 3 * g + 3) \in Nat /\ Byte(plain, 3 * g + 3) < 256
  BY <1>1, BytesAre
<1> QED BY <1>2, SextetsAre DEF Coded

(* numbers in groups of three and of four *)
LEMMA Triples ==
  ASSUME NEW n \in Nat \ {0}
  PROVE  \E q \in Nat, r \in 1 .. 3 : n = 3 * q + r
<1>1. n - 1 \in Nat
  OBVIOUS
<1>2. (n - 1) \div 3 \in Nat /\ ((n - 1) % 3) + 1 \in 1 .. 3
  BY <1>1
<1>3. n = 3 * ((n - 1) \div 3) + (((n - 1) % 3) + 1)
  BY <1>1
<1> QED BY <1>2, <1>3

LEMMA InTriples ==
  ASSUME NEW q \in Nat, NEW r \in 1 .. 3, NEW j \in 1 .. 3 * q + r
  PROVE  /\ (j - 1) \div 3 \in 0 .. q /\ 1 + ((j - 1) % 3) \in 1 .. 3
         /\ 3 * ((j - 1) \div 3) + (1 + ((j - 1) % 3)) = j
  OBVIOUS

LEMMA InFours ==
  ASSUME NEW q \in Nat, NEW k \in 1 .. 4 * (q + 1)
  PROVE  (k - 1) \div 4 \in 0 .. q /\ 1 + ((k - 1) % 4) \in 1 .. 4
  OBVIOUS

LEMMA OfFours ==
  ASSUME NEW q \in Nat, NEW g \in 0 .. q, NEW i \in 1 .. 4
  PROVE  4 * g + i \in 1 .. 4 * (q + 1) /\ (4 * g + i - 1) \div 4 = g /\ 1 + ((4 * g + i - 1) % 4) = i
  OBVIOUS

(* Base64Encode, character by character *)
LEMMA EncodedGroups ==
  ASSUME NEW plain \in Seq(Nat), NEW q \in Nat, NEW r \in 1 .. 3, Len(plain) = 3 * q + r, OfBytes(plain)
  PROVE  CodeOf(B64!Base64Encode(plain), plain, q, r)
<1> DEFINE n == Len(plain)
           size == 4 * ((n + 2) \div 3)
           e == [k \in 1 .. size |->
                   IF k > size - B64!Pads(n) THEN 64 ELSE Coded(plain, (k - 1) \div 4)[1 + ((k - 1) % 4)]]
<1>1. e = B64!Base64Encode(plain)
  BY Zenon DEF B64!Base64Encode, Coded, Byte
<1>2. size = 4 * (q + 1)
  OBVIOUS
<1>3. size - B64!Pads(n) = 4 * q + r + 1
  <2>1. B64!Pads(n) = 3 - r
    BY DEF B64!Pads
  <2> QED BY <1>2, <2>1
<1> HIDE DEF n, size
<1>4. ASSUME NEW k \in 1 .. size PROVE e[k] \in Nat
  <2> DEFINE g == (k - 1) \div 4
             i == 1 + ((k - 1) % 4)
  <2>1. g \in Nat /\ i \in 1 .. 4
    BY <1>2, InFours
  <2> HIDE DEF g, i
  <2>2. Coded(plain, g)[i] \in Nat
    BY <2>1, CodedAre
  <2>3. e[k] = 64 \/ e[k] = Coded(plain, g)[i]
    BY DEF g, i
  <2> HIDE DEF e
  <2> QED BY <2>2, <2>3
<1>5. e \in Seq(Nat) /\ Len(e) = size
  <2>1. size \in Nat
    BY <1>2
  <2>2. e = [k \in 1 .. size |-> e[k]] /\ DOMAIN e = 1 .. size
    OBVIOUS
  <2> HIDE DEF e
  <2>3. e \in [1 .. size -> Nat]
    BY <1>4, <2>2
  <2>4. e \in Seq(Nat)
    BY <2>1, <2>3, IsASeq
  <2> QED BY <2>1, <2>2, <2>4, LenProperties
<1>6. \A k \in 1 .. size :
        e[k] = IF k > 4 * q + r + 1 THEN 64 ELSE Coded(plain, (k - 1) \div 4)[1 + ((k - 1) % 4)]
  <2> SUFFICES ASSUME NEW k \in 1 .. size
               PROVE  e[k] = IF k > size - B64!Pads(n) THEN 64
                             ELSE Coded(plain, (k - 1) \div 4)[1 + ((k - 1) % 4)]
    BY <1>3
  <2> QED OBVIOUS
<1> HIDE DEF e
<1>7. CodeOf(e, plain, q, r)
  BY <1>2, <1>5, <1>6, Zenon DEF CodeOf
<1> QED BY <1>1, <1>7

(* Base64Decode of what is in the alphabet up to a place, byte by byte *)
LEMMA DecodedGroups ==
  ASSUME NEW d \in Seq(Nat), NEW q \in Nat, NEW r \in 1 .. 3, NEW p \in Nat, p <= Len(d),
         p = 4 * q + r + 1, Letters(d, p)
  PROVE  B64!Base64Decode(d)
           = [plain |-> [j \in 1 .. 3 * q + r |-> Group(d, p, (j - 1) \div 3)[1 + ((j - 1) % 3)]],
              read |-> 4 * (q + 1)]
<1> DEFINE stops == {i - 1 : i \in B64!Occurrences(d, 64)} \cup {Len(d)}
           nprbytes == B64!Min(stops)
           loops == IF nprbytes = 0 THEN 0 ELSE (nprbytes - 1) \div 4
           rest == nprbytes - 4 * loops
           size == 3 * loops + (IF rest > 1 THEN rest - 1 ELSE 0)
<1>1. DOMAIN d = 1 .. Len(d) /\ Len(d) \in Nat
  BY LenProperties
<1>2. \A i : i \in B64!Occurrences(d, 64) <=> i \in 1 .. Len(d) /\ d[i] = 64
  BY <1>1 DEF B64!Occurrences
<1>3. p \in stops /\ \A x \in stops : x \in Int /\ p <= x
  <2>1. p \in stops
    <3>1. CASE p = Len(d)
      BY <3>1
    <3>2. CASE p # Len(d)
      <4>1. p + 1 \in 1 .. Len(d) /\ (p + 1) - 1 = p
        <5>1. Len(d) \in Nat
          BY <1>1
        <5>2. p < Len(d)
          BY <3>2, <5>1
        <5> QED BY <5>1, <5>2
      <4>3. d[p + 1] = 64
        BY <3>2 DEF Letters
      <4>2. p + 1 \in B64!Occurrences(d, 64)
        BY <1>2, <4>1, <4>3
      <4> QED BY <4>1, <4>2
    <3> QED BY <3>1, <3>2
  <2>2. ASSUME NEW x \in stops PROVE x \in Int /\ p <= x
    <3>1. CASE x = Len(d)
      BY <1>1, <3>1
    <3>2. CASE x # Len(d)
      <4>1. PICK i \in B64!Occurrences(d, 64) : x = i - 1
        BY <3>2
      <4>2. i \in 1 .. Len(d) /\ d[i] = 64
        BY <1>2, <4>1
      <4>3. ~(i \in 1 .. p)
        BY <4>2 DEF Letters
      <4>4. i \in Int /\ i >= p + 1
        BY <1>1, <4>2, <4>3
      <4> QED BY <1>1, <4>1, <4>4
    <3> QED BY <3>1, <3>2
  <2> QED BY <2>1, <2>2
<1>4. nprbytes = p
  <2> HIDE DEF stops
  <2>1. \E x \in stops : \A y \in stops : x <= y
    BY <1>3
  <2>2. nprbytes \in stops /\ \A y \in stops : nprbytes <= y
    BY <2>1 DEF B64!Min
  <2> HIDE DEF nprbytes
  <2>3. nprbytes \in Int /\ nprbytes <= p /\ p <= nprbytes
    BY <1>3, <2>2
  <2> QED BY <1>1, <2>3
<1>5. B64!Base64Decode(d)
        = [plain |-> [j \in 1 .. size |-> Group(d, nprbytes, (j - 1) \div 3)[1 + ((j - 1) % 3)]],
           read |-> IF nprbytes = 0 THEN 0 ELSE nprbytes + ((4 - rest) % 4)]
  BY Zenon DEF B64!Base64Decode, Group, Char
<1> HIDE DEF nprbytes, stops
<1>6. loops = q
  <2>1. (p - 1) \div 4 = q /\ p # 0
    OBVIOUS
  <2> QED BY <1>4, <2>1
<1> HIDE DEF loops
<1>7. rest = r + 1
  BY <1>4, <1>6
<1> HIDE DEF rest
<1>8. size = 3 * q + r
  BY <1>6, <1>7
<1>9. (IF nprbytes = 0 THEN 0 ELSE nprbytes + ((4 - rest) % 4)) = 4 * (q + 1)
  <2>1. p # 0 /\ p + ((4 - (r + 1)) % 4) = 4 * (q + 1)
    OBVIOUS
  <2> QED BY <1>4, <1>7, <2>1
<1> HIDE DEF size
<1> QED BY <1>4, <1>5, <1>8, <1>9, Zenon

(* What is encoded is decoded again, whatever the bytes and their number,  *)
(* and all of it is read, whether or not something follows that is not in  *)
(* the alphabet.                                                           *)
THEOREM Base64IsInverse ==
  ASSUME NEW plain \in Seq(Nat), \A i \in 1 .. Len(plain) : plain[i] < 256
  PROVE  B64!Base64Inverse(plain)
<1> DEFINE e == B64!Base64Encode(plain)
<1>b. OfBytes(plain)
  BY DEF OfBytes
<1> SUFFICES ASSUME NEW after \in Seq(Nat), after = <<>> \/ (Len(after) >= 1 /\ after[1] = 64)
             PROVE  B64!Base64Decode(e \o after) = [plain |-> plain, read |-> Len(e)]
  <2>1. <<>> \in Seq(Nat)
    BY EmptySeq
  <2>2. <<64>> \in Seq(Nat) /\ Len(<<64>>) >= 1 /\ <<64>>[1] = 64
    OBVIOUS
  <2>3. <<64, 1>> \in Seq(Nat) /\ Len(<<64, 1>>) >= 1 /\ <<64, 1>>[1] = 64
    OBVIOUS
  <2> HIDE DEF e
  <2>4. \A after \in {<<>>, <<64>>, <<64, 1>>} :
          after \in Seq(Nat) /\ (after = <<>> \/ (Len(after) >= 1 /\ after[1] = 64))
    BY <2>1, <2>2, <2>3
  <2>5. \A after \in {<<>>, <<64>>, <<64, 1>>} :
          B64!Base64Decode(e \o after) = [plain |-> plain, read |-> Len(e)]
    BY <2>4, Zenon
  <2> QED BY <2>5, Zenon DEF B64!Base64Inverse, e
<1> DEFINE d == e \o after
<1>0. Len(plain) \in Nat
  BY LenProperties
<1>1. CASE Len(plain) = 0
  <2>1. e = <<>>
    <3> DEFINE n == Len(plain)
               size == 4 * ((n + 2) \div 3)
               f(k) == IF k > size - B64!Pads(n) THEN 64 ELSE Coded(plain, (k - 1) \div 4)[1 + ((k - 1) % 4)]
    <3>1. e = [k \in 1 .. size |-> f(k)]
      BY Zenon DEF B64!Base64Encode, Coded, Byte
    <3>2. 1 .. size = {}
      BY <1>1
    <3> HIDE DEF e, size, f
    <3>3. e \in [1 .. 0 -> Nat]
      BY <3>1, <3>2
    <3>4. e \in Seq(Nat) /\ DOMAIN e = 1 .. 0
      BY <3>3, IsASeq
    <3>5. Len(e) = 0
      BY <3>4, LenProperties
    <3> QED BY <3>4, <3>5, EmptySeq
  <2> HIDE DEF e
  <2>2. d = after
    BY <2>1, ConcatEmptySeq
  <2> DEFINE stops == {i - 1 : i \in B64!Occurrences(d, 64)} \cup {Len(d)}
             nprbytes == B64!Min(stops)
             loops == IF nprbytes = 0 THEN 0 ELSE (nprbytes - 1) \div 4
             rest == nprbytes - 4 * loops
             size == 3 * loops + (IF rest > 1 THEN rest - 1 ELSE 0)
             G(g) == Group(d, nprbytes, g)
  <2> HIDE DEF d
  <2>3. DOMAIN d = 1 .. Len(d) /\ Len(d) \in Nat
    BY <2>2, LenProperties
  <2>4. 0 \in stops /\ \A x \in stops : x \in Int /\ 0 <= x
    <3>1. \A i \in B64!Occurrences(d, 64) : i \in 1 .. Len(d)
      BY <2>3 DEF B64!Occurrences
    <3>2. after = <<>> => Len(d) = 0
      BY <2>2, EmptySeq
    <3>3. after # <<>> => 1 \in B64!Occurrences(d, 64) /\ 1 - 1 = 0
      <4> SUFFICES ASSUME after # <<>> PROVE 1 \in DOMAIN d /\ d[1] = 64
        BY DEF B64!Occurrences
      <4> QED BY <2>2, <2>3
    <3> QED BY <2>3, <3>1, <3>2, <3>3
  <2>5. nprbytes = 0
    <3> HIDE DEF stops
    <3>1. \E x \in stops : \A y \in stops : x <= y
      BY <2>4
    <3>2. nprbytes \in stops /\ \A y \in stops : nprbytes <= y
      BY <3>1 DEF B64!Min
    <3> HIDE DEF nprbytes
    <3>3. nprbytes \in Int /\ nprbytes <= 0 /\ 0 <= nprbytes
      BY <2>4, <3>2
    <3> QED BY <3>3
  <2>6. B64!Base64Decode(d)
          = [plain |-> [j \in 1 .. size |-> G((j - 1) \div 3)[1 + ((j - 1) % 3)]],
             read |-> IF nprbytes = 0 THEN 0 ELSE nprbytes + ((4 - rest) % 4)]
    BY Zenon DEF B64!Base64Decode, Group, Char
  <2> HIDE DEF nprbytes, stops
  <2>7. 1 .. size = {}
    BY <2>5
  <2> HIDE DEF size, rest, loops
  <2>8. [j \in 1 .. size |-> G((j - 1) \div 3)[1 + ((j - 1) % 3)]] = plain
    <3> DEFINE w == [j \in 1 .. size |-> G((j - 1) \div 3)[1 + ((j - 1) % 3)]]
    <3>1. w \in [1 .. 0 -> Nat]
      <4> HIDE DEF G
      <4> QED BY <2>7
    <3> HIDE DEF w
    <3>2. w \in Seq(Nat) /\ DOMAIN w = 1 .. 0
      BY <3>1, IsASeq
    <3>3. Len(w) = 0
      BY <3>2, LenProperties
    <3>4. w = <<>> /\ plain = <<>>
      BY <1>1, <3>2, <3>3, EmptySeq
    <3> QED BY <3>4 DEF w
  <2> HIDE DEF G
  <2>9. Len(e) = 0
    BY <2>1, EmptySeq
  <2>10. B64!Base64Decode(d) = [plain |-> plain, read |-> Len(e)]
    BY <2>5, <2>6, <2>8, <2>9, Zenon
  <2> QED BY <2>10 DEF d
<1>2. CASE Len(plain) # 0
  <2>1. PICK q \in Nat, r \in 1 .. 3 : Len(plain) = 3 * q + r
    BY <1>0, <1>2, Triples
  <2> DEFINE p == 4 * q + r + 1
             n == 3 * q + r
  <2>2. CodeOf(e, plain, q, r)
    BY <1>b, <2>1, EncodedGroups
  <2> HIDE DEF e
  <2>3. e \in Seq(Nat) /\ Len(e) = 4 * (q + 1)
    BY <2>2 DEF CodeOf
  <2>4. /\ d \in Seq(Nat) /\ Len(d) = Len(e) + Len(after) /\ Len(after) \in Nat
        /\ \A i \in 1 .. Len(e) : d[i] = e[i]
        /\ \A i \in 1 .. Len(after) : d[Len(e) + i] = after[i]
    <3>1. e \in Seq(Nat)
      BY <2>3
    <3>2. d \in Seq(Nat) /\ Len(d) = Len(e) + Len(after) /\ Len(after) \in Nat
      BY <3>1, JoinedLength
    <3>3. (\A i \in 1 .. Len(e) : d[i] = e[i]) /\ (\A i \in 1 .. Len(after) : d[Len(e) + i] = after[i])
      BY <3>1, JoinedElements
    <3> QED BY <3>2, <3>3
  <2> HIDE DEF d
  <2>5. p \in Nat /\ p >= 1 /\ p <= Len(e) /\ p <= Len(d)
    BY <2>3, <2>4
  <2>6. \A k \in 1 .. Len(e) :
          d[k] = IF k > p THEN 64 ELSE Coded(plain, (k - 1) \div 4)[1 + ((k - 1) % 4)]
    BY <2>2, <2>4, Zenon DEF CodeOf
  <2>7. ASSUME NEW g \in 0 .. q, NEW i \in 1 .. 4 PROVE Char(d, p, 4 * g + i) = Coded(plain, g)[i]
    <3> DEFINE k == 4 * g + i
    <3>1. k \in 1 .. Len(e) /\ (k - 1) \div 4 = g /\ 1 + ((k - 1) % 4) = i
      <4>1. k \in 1 .. 4 * (q + 1) /\ (k - 1) \div 4 = g /\ 1 + ((k - 1) % 4) = i
        BY SMTT(30), OfFours
      <4> HIDE DEF k
      <4> QED BY <2>3, <4>1
    <3>2. CASE ~(k > p)
      <4> HIDE DEF k, p
      <4>1. d[k] = Coded(plain, g)[i]
        BY <2>6, <3>1, <3>2
      <4> QED BY <3>2, <4>1 DEF Char, k
    <3>3. CASE k > p
      <4>1. g = q /\ ((r = 1 /\ i \in {3, 4}) \/ (r = 2 /\ i = 4))
        BY <3>3
      <4> DEFINE a == Byte(plain, 3 * q + 1)
                 b == Byte(plain, 3 * q + 2)
                 c == Byte(plain, 3 * q + 3)
      <4>2. c = 0 /\ (r = 1 => b = 0)
        BY <2>1, <4>1 DEF Byte
      <4>3. a \in Nat /\ a < 256 /\ b \in Nat /\ b < 256
        <5>1. 3 * q + 1 \in Nat \ {0} /\ 3 * q + 2 \in Nat \ {0}
          OBVIOUS
        <5> QED BY <1>b, <5>1, BytesAre
      <4>4. Coded(plain, q) = B64!Sextets(a, b, c)
        BY Zenon DEF Coded
      <4> HIDE DEF a, b, c
      <4>5. Coded(plain, q)[4] = 0 /\ (b = 0 => Coded(plain, q)[3] = 0)
        BY <4>2, <4>3, <4>4, SextetsEnd
      <4>6. Coded(plain, g)[i] = 0
        BY <4>1, <4>2, <4>5
      <4> HIDE DEF p
      <4> QED BY <3>3, <4>6 DEF Char
    <3> QED BY <3>2, <3>3
  <2>8. ASSUME NEW g \in 0 .. q
        PROVE  /\ Group(d, p, g)[1] = Byte(plain, 3 * g + 1)
               /\ Group(d, p, g)[2] = Byte(plain, 3 * g + 2)
               /\ Group(d, p, g)[3] = Byte(plain, 3 * g + 3)
    <3> DEFINE a == Byte(plain, 3 * g + 1)
               b == Byte(plain, 3 * g + 2)
               c == Byte(plain, 3 * g + 3)
               s == Coded(plain, g)
    <3>1. a \in Nat /\ a < 256 /\ b \in Nat /\ b < 256 /\ c \in Nat /\ c < 256
      <4>1. 3 * g + 1 \in Nat \ {0} /\ 3 * g + 2 \in Nat \ {0} /\ 3 * g + 3 \in Nat \ {0}
        OBVIOUS
      <4> QED BY <1>b, <4>1, BytesAre
    <3>2. s = B64!Sextets(a, b, c)
      BY Zenon DEF Coded
    <3> HIDE DEF p
    <3>3. Char(d, p, 4 * g + 1) = s[1]
      BY <2>7
    <3>4. Char(d, p, 4 * g + 2) = s[2]
      BY <2>7
    <3>5. Char(d, p, 4 * g + 3) = s[3]
      BY <2>7
    <3>6. Char(d, p, 4 * g + 4) = s[4]
      BY <2>7
    <3>7. Group(d, p, g) = B64!Octets(<<s[1], s[2], s[3], s[4]>>)
      BY <3>3, <3>4, <3>5, <3>6, Zenon DEF Group
    <3> HIDE DEF a, b, c, s
    <3>8. LET o == B64!Octets(<<s[1], s[2], s[3], s[4]>>) IN o[1] = a /\ o[2] = b /\ o[3] = c
      BY <3>1, <3>2, OctetsOfSextets
    <3> QED BY <3>7, <3>8, Zenon DEF a, b, c
  <2>9. Letters(d, p)
    <3>1. ASSUME NEW k \in 1 .. p PROVE d[k] # 64
      <4> DEFINE g == (k - 1) \div 4
                 i == 1 + ((k - 1) % 4)
      <4>1. g \in Nat /\ i \in 1 .. 4 /\ k \in 1 .. Len(e) /\ ~(k > p)
        <5>1. k \in 1 .. 4 * (q + 1) /\ ~(k > p)
          BY <2>3, <2>5
        <5> QED BY <2>3, <5>1, InFours
      <4> HIDE DEF p
      <4>2. d[k] = Coded(plain, g)[i]
        BY <2>6, <4>1
      <4> HIDE DEF g, i
      <4>3. Coded(plain, g)[i] \in Nat /\ Coded(plain, g)[i] < 64
        BY <1>b, <4>1, CodedAre
      <4> QED BY <4>2, <4>3
    <3>2. p = Len(d) \/ d[p + 1] = 64
      <4>1. CASE r = 3 /\ after = <<>>
        <5>1. Len(after) = 0 /\ p = Len(e)
          BY <2>3, <4>1, EmptySeq
        <5> QED BY <2>3, <2>4, <5>1
      <4>2. CASE r = 3 /\ after # <<>>
        <5>1. 1 \in 1 .. Len(after) /\ after[1] = 64
          BY <2>4, <4>2
        <5>2. p = Len(e)
          BY <2>3, <4>2
        <5>3. d[Len(e) + 1] = after[1]
          BY <2>4, <5>1
        <5> HIDE DEF p
        <5> QED BY <5>1, <5>2, <5>3
      <4>3. CASE r # 3
        <5>1. p + 1 \in 1 .. Len(e) /\ p + 1 > p
          BY <2>3, <4>3
        <5> HIDE DEF p
        <5> QED BY <2>6, <5>1
      <4> QED BY <4>1, <4>2, <4>3
    <3> HIDE DEF p
    <3> QED BY <3>1, <3>2 DEF Letters
  <2>10. B64!Base64Decode(d)
           = [plain |-> [j \in 1 .. n |-> Group(d, p, (j - 1) \div 3)[1 + ((j - 1) % 3)]], read |-> 4 * (q + 1)]
    <3>1. p = 4 * q + r + 1
      BY Zenon
    <3>2. d \in Seq(Nat)
      BY <2>4, Zenon
    <3> HIDE DEF p
    <3>3. p \in Nat /\ p <= Len(d) /\ q \in Nat /\ r \in 1 .. 3
      BY <2>5
    <3>4. B64!Base64Decode(d)
            = [plain |-> [j \in 1 .. 3 * q + r |-> Group(d, p, (j - 1) \div 3)[1 + ((j - 1) % 3)]],
               read |-> 4 * (q + 1)]
      BY <2>9, <3>1, <3>2, <3>3, DecodedGroups, ZenonT(60)
    <3> QED BY <3>4, Zenon
  <2>11. [j \in 1 .. n |-> Group(d, p, (j - 1) \div 3)[1 + ((j - 1) % 3)]] = plain
    <3>1. DOMAIN plain = 1 .. n
      BY <2>1, LenProperties
    <3>2. plain = [j \in 1 .. n |-> plain[j]]
      BY <3>1
    <3>3. ASSUME NEW j \in 1 .. n PROVE Group(d, p, (j - 1) \div 3)[1 + ((j - 1) % 3)] = plain[j]
      <4> DEFINE g == (j - 1) \div 3
                 o == 1 + ((j - 1) % 3)
      <4>1. g \in 0 .. q /\ o \in 1 .. 3 /\ 3 * g + o = j
        BY InTriples
      <4>2. ~(j > Len(plain))
        BY <2>1
      <4> HIDE DEF g, o, p, n
      <4>3. Group(d, p, g)[o] = Byte(plain, 3 * g + o)
        <5>1. o = 1 \/ o = 2 \/ o = 3
          BY <4>1
        <5> QED BY <2>8, <4>1, <5>1
      <4>4. Byte(plain, j) = plain[j]
        BY <4>2 DEF Byte
      <4> QED BY <4>1, <4>3, <4>4 DEF g, o
    <3> HIDE DEF p, n
    <3> QED BY <3>2, <3>3
  <2> HIDE DEF p, n
  <2> QED BY <2>3, <2>10, <2>11, Zenon DEF d
<1> QED BY <1>0, <1>1, <1>2

(***************************************************************************)
(* compare_numeric                                                         *)
(***************************************************************************)

(* A character of a text: what kind it is, all digits being of one and the *)
(* end of the text of the least; where the run of digits ends in which it  *)
(* is, if it is a digit; and the character.                                *)
Digital(s, i) == i <= Len(s) /\ SA!ascii_isdigit(s[i])
CharAt(s, i) == IF i > Len(s) THEN -1 ELSE s[i]
KindAt(s, i) == IF Digital(s, i) THEN 48 ELSE CharAt(s, i)
EndAt(s, i) == IF Digital(s, i) THEN SA!RunEnd(s, i) ELSE 0

(* Strings are ordered by the first place where they differ in one of the  *)
(* three.                                                                  *)
Alike(s, t, i) == KindAt(s, i) = KindAt(t, i) /\ EndAt(s, i) = EndAt(t, i) /\ CharAt(s, i) = CharAt(t, i)
Smaller(s, t, i) ==
  \/ KindAt(s, i) < KindAt(t, i)
  \/ KindAt(s, i) = KindAt(t, i) /\ EndAt(s, i) < EndAt(t, i)
  \/ KindAt(s, i) = KindAt(t, i) /\ EndAt(s, i) = EndAt(t, i) /\ CharAt(s, i) < CharAt(t, i)
AlikeTo(s, t, d) == \A i \in 1 .. d - 1 : Alike(s, t, i)
Before(s, t, d) == AlikeTo(s, t, d) /\ Smaller(s, t, d)

(* Where a run of digits ends there is no digit, and one up to there. *)
LEMMA RunEnds ==
  ASSUME NEW s \in Seq(Nat), NEW i \in 1 .. Len(s)
  PROVE  /\ SA!RunEnd(s, i) \in i + 1 .. Len(s) + 1
         /\ ~Digital(s, SA!RunEnd(s, i))
         /\ \A k \in i + 1 .. SA!RunEnd(s, i) - 1 : Digital(s, k)
<1> DEFINE P == {j \in i + 1 .. Len(s) + 1 : j > Len(s) \/ ~SA!ascii_isdigit(s[j])}
<1>1. Len(s) \in Nat
  BY LenProperties
<1>2. P \in SUBSET Nat /\ Len(s) + 1 \in P
  BY <1>1
<1>3. SA!RunEnd(s, i) = SA!Min(P)
  BY Zenon DEF SA!RunEnd
<1>4. SA!Min(P) \in P /\ \A p \in P : SA!Min(P) <= p
  <2> HIDE DEF P
  <2>1. Min(P) \in P /\ \A p \in P : Min(P) <= p
    BY <1>2, Least
  <2> QED BY <2>1 DEF Min, SA!Min
<1> DEFINE e == SA!RunEnd(s, i)
<1>5. e \in P /\ \A p \in P : e <= p
  BY <1>3, <1>4, Zenon
<1> HIDE DEF e
<1>6. e \in i + 1 .. Len(s) + 1 /\ (e > Len(s) \/ ~SA!ascii_isdigit(s[e]))
  BY <1>5
<1>7. ~Digital(s, e)
  BY <1>1, <1>6 DEF Digital
<1>8. \A k \in i + 1 .. e - 1 : Digital(s, k)
  <2> SUFFICES ASSUME NEW k \in i + 1 .. e - 1 PROVE Digital(s, k)
    OBVIOUS
  <2>1. k < e /\ k \in i + 1 .. Len(s) + 1 /\ k <= Len(s)
    BY <1>1, <1>6
  <2>2. k \notin P
    <3>1. k \in Int /\ e \in Int
      BY <1>6
    <3> HIDE DEF P
    <3> QED BY <1>5, <2>1, <3>1
  <2>3. SA!ascii_isdigit(s[k])
    BY <2>1, <2>2, Zenon
  <2> QED BY <2>1, <2>3 DEF Digital
<1> QED BY <1>6, <1>7, <1>8 DEF e

(* The end is the only such place. *)
LEMMA RunEndIs ==
  ASSUME NEW s \in Seq(Nat), NEW i \in 1 .. Len(s), NEW e \in i + 1 .. Len(s) + 1,
         ~Digital(s, e), \A k \in i + 1 .. e - 1 : Digital(s, k)
  PROVE  SA!RunEnd(s, i) = e
<1> DEFINE f == SA!RunEnd(s, i)
<1>1. Len(s) \in Nat
  BY LenProperties
<1>2. f \in i + 1 .. Len(s) + 1 /\ ~Digital(s, f) /\ \A k \in i + 1 .. f - 1 : Digital(s, k)
  BY RunEnds
<1> HIDE DEF f
<1>3. ~(f < e)
  BY <1>1, <1>2
<1>4. ~(e < f)
  BY <1>1, <1>2
<1>5. f = e
  BY <1>1, <1>2, <1>3, <1>4
<1> QED BY <1>5 DEF f

(* what the three are *)
LEMMA KeyNumbers ==
  ASSUME NEW s \in Seq(Nat), NEW i \in Nat \ {0}
  PROVE  /\ CharAt(s, i) \in Int /\ CharAt(s, i) >= -1 /\ KindAt(s, i) \in Int
         /\ EndAt(s, i) \in Int /\ EndAt(s, i) >= 0
         /\ CharAt(s, i) = -1 <=> i > Len(s)
         /\ Digital(s, i) <=> CharAt(s, i) \in 48 .. 57
         /\ Digital(s, i) => EndAt(s, i) = SA!RunEnd(s, i) /\ EndAt(s, i) > i
         /\ ~Digital(s, i) => EndAt(s, i) = 0
<1>1. Len(s) \in Nat
  BY LenProperties
<1>2. i <= Len(s) => s[i] \in Nat
  <2>1. i <= Len(s) => i \in 1 .. Len(s)
    BY <1>1
  <2> QED BY <2>1, ElementOfSeq
<1>3. CharAt(s, i) \in Int /\ CharAt(s, i) >= -1 /\ (CharAt(s, i) = -1 <=> i > Len(s))
  BY <1>1, <1>2 DEF CharAt
<1>4. Digital(s, i) <=> CharAt(s, i) \in 48 .. 57
  BY <1>1, <1>2 DEF Digital, CharAt, SA!ascii_isdigit
<1>5. KindAt(s, i) \in Int
  BY <1>3 DEF KindAt
<1>6. Digital(s, i) => EndAt(s, i) \in Int /\ EndAt(s, i) = SA!RunEnd(s, i) /\ EndAt(s, i) > i
  <2> SUFFICES ASSUME Digital(s, i)
               PROVE  EndAt(s, i) \in Int /\ EndAt(s, i) = SA!RunEnd(s, i) /\ EndAt(s, i) > i
    OBVIOUS
  <2>1. i \in 1 .. Len(s)
    BY <1>1 DEF Digital
  <2>2. SA!RunEnd(s, i) \in i + 1 .. Len(s) + 1
    BY <2>1, RunEnds
  <2>3. EndAt(s, i) = SA!RunEnd(s, i)
    BY DEF EndAt
  <2> QED BY <1>1, <2>2, <2>3
<1>7. ~Digital(s, i) => EndAt(s, i) = 0
  BY DEF EndAt
<1>8. EndAt(s, i) \in Int /\ EndAt(s, i) >= 0
  BY <1>6, <1>7
<1> QED BY <1>3, <1>4, <1>5, <1>6, <1>7, <1>8

(* The order of the places makes one of the strings: nothing is before     *)
(* what is before it,                                                      *)
LEMMA BeforeOneWay ==
  ASSUME NEW a \in Seq(Nat), NEW b \in Seq(Nat), NEW d \in Nat \ {0}, NEW e \in Nat \ {0},
         Before(a, b, d), Before(b, a, e)
  PROVE  FALSE
<1>1. \A i \in Nat \ {0} :
                          /\ CharAt(a, i) \in Int /\ KindAt(a, i) \in Int /\ EndAt(a, i) \in Int
                          /\ CharAt(b, i) \in Int /\ KindAt(b, i) \in Int /\ EndAt(b, i) \in Int
  BY KeyNumbers
<1>2. CASE d < e
  <2>1. d \in 1 .. e - 1
    BY <1>2
  <2>2. Alike(b, a, d) /\ Smaller(a, b, d)
    BY <2>1 DEF Before, AlikeTo
  <2> QED BY <1>1, <2>2, SMTT(30) DEF Alike, Smaller
<1>3. CASE e < d
  <2>1. e \in 1 .. d - 1
    BY <1>3
  <2>2. Alike(a, b, e) /\ Smaller(b, a, e)
    BY <2>1 DEF Before, AlikeTo
  <2> QED BY <1>1, <2>2, SMTT(30) DEF Alike, Smaller
<1>4. CASE d = e
  <2>1. Smaller(a, b, d) /\ Smaller(b, a, d)
    BY <1>4 DEF Before
  <2>2. /\ CharAt(a, d) \in Int /\ KindAt(a, d) \in Int /\ EndAt(a, d) \in Int
        /\ CharAt(b, d) \in Int /\ KindAt(b, d) \in Int /\ EndAt(b, d) \in Int
    BY <1>1
  <2> QED BY <2>1, <2>2 DEF Smaller
<1> QED BY <1>2, <1>3, <1>4

(* what is before that which is before another is before the other,        *)
LEMMA BeforeGoesOn ==
  ASSUME NEW a \in Seq(Nat), NEW b \in Seq(Nat), NEW c \in Seq(Nat),
         NEW d \in Nat \ {0}, NEW e \in Nat \ {0}, Before(a, b, d), Before(b, c, e)
  PROVE  \E f \in Nat \ {0} : Before(a, c, f)
<1>1. \A i \in Nat \ {0} :
                          /\ CharAt(a, i) \in Int /\ KindAt(a, i) \in Int /\ EndAt(a, i) \in Int
                          /\ CharAt(b, i) \in Int /\ KindAt(b, i) \in Int /\ EndAt(b, i) \in Int
                          /\ CharAt(c, i) \in Int /\ KindAt(c, i) \in Int /\ EndAt(c, i) \in Int
  BY KeyNumbers
<1> DEFINE f == IF d < e THEN d ELSE e
<1>2. f \in Nat \ {0} /\ f <= d /\ f <= e
  OBVIOUS
<1>3. AlikeTo(a, c, f)
  <2> SUFFICES ASSUME NEW i \in 1 .. f - 1 PROVE Alike(a, c, i)
    BY DEF AlikeTo
  <2>1. i \in 1 .. d - 1 /\ i \in 1 .. e - 1
    BY <1>2
  <2>2. Alike(a, b, i) /\ Alike(b, c, i)
    BY <2>1 DEF Before, AlikeTo
  <2> QED BY <2>2 DEF Alike
<1>4. \/ Alike(a, b, f) /\ Smaller(b, c, f)
      \/ Smaller(a, b, f) /\ Alike(b, c, f)
      \/ Smaller(a, b, f) /\ Smaller(b, c, f)
  <2>1. CASE d < e
    <3>1. d \in 1 .. e - 1
      BY <2>1
    <3> QED BY <2>1, <3>1 DEF Before, AlikeTo
  <2>2. CASE e < d
    <3>1. e \in 1 .. d - 1
      BY <2>2
    <3> QED BY <2>2, <3>1 DEF Before, AlikeTo
  <2>3. CASE d = e
    BY <2>3 DEF Before
  <2> QED BY <2>1, <2>2, <2>3
<1>5. Smaller(a, c, f)
  <2> HIDE DEF f
  <2>1. /\ CharAt(a, f) \in Int /\ KindAt(a, f) \in Int /\ EndAt(a, f) \in Int
        /\ CharAt(b, f) \in Int /\ KindAt(b, f) \in Int /\ EndAt(b, f) \in Int
        /\ CharAt(c, f) \in Int /\ KindAt(c, f) \in Int /\ EndAt(c, f) \in Int
    BY <1>1, <1>2
  <2> QED BY <1>4, <2>1 DEF Alike, Smaller
<1> HIDE DEF f
<1> QED BY <1>2, <1>3, <1>5 DEF Before

(* and of two that differ one is before the other.                         *)
LEMMA BeforeOneOrOther ==
  ASSUME NEW a \in Seq(Nat), NEW b \in Seq(Nat), a # b
  PROVE  \E d \in Nat \ {0} : d <= Len(a) + 1 /\ d <= Len(b) + 1 /\ (Before(a, b, d) \/ Before(b, a, d))
<1>0. Len(a) \in Nat /\ Len(b) \in Nat
  BY LenProperties
<1> DEFINE D == {i \in Nat \ {0} : ~Alike(a, b, i)}
           d == Min(D)
<1>1. \A i \in Nat \ {0} :
                          /\ CharAt(a, i) \in Int /\ KindAt(a, i) \in Int /\ EndAt(a, i) \in Int
                          /\ CharAt(b, i) \in Int /\ KindAt(b, i) \in Int /\ EndAt(b, i) \in Int
                          /\ CharAt(a, i) = -1 <=> i > Len(a)
                          /\ CharAt(b, i) = -1 <=> i > Len(b)
  BY KeyNumbers
<1>2. D # {}
  <2> SUFFICES ASSUME D = {} PROVE FALSE
    OBVIOUS
  <2>1. \A i \in Nat \ {0} : CharAt(a, i) = CharAt(b, i)
    BY DEF Alike
  <2>2. Len(a) = Len(b)
    <3>1. ~(Len(a) < Len(b))
      <4> SUFFICES ASSUME Len(a) < Len(b) PROVE FALSE
        OBVIOUS
      <4>1. Len(a) + 1 \in Nat \ {0} /\ Len(a) + 1 > Len(a) /\ ~(Len(a) + 1 > Len(b))
        BY <1>0
      <4> QED BY <1>1, <2>1, <4>1
    <3>2. ~(Len(b) < Len(a))
      <4> SUFFICES ASSUME Len(b) < Len(a) PROVE FALSE
        OBVIOUS
      <4>1. Len(b) + 1 \in Nat \ {0} /\ Len(b) + 1 > Len(b) /\ ~(Len(b) + 1 > Len(a))
        BY <1>0
      <4> QED BY <1>1, <2>1, <4>1
    <3> QED BY <1>0, <3>1, <3>2
  <2>3. \A i \in 1 .. Len(a) : a[i] = b[i]
    <3> SUFFICES ASSUME NEW i \in 1 .. Len(a) PROVE a[i] = b[i]
      OBVIOUS
    <3>1. i \in Nat \ {0} /\ ~(i > Len(a)) /\ ~(i > Len(b))
      BY <1>0, <2>2
    <3> QED BY <2>1, <3>1 DEF CharAt
  <2> QED BY <2>2, <2>3, SeqEqual
<1>3. d \in D /\ \A i \in D : d <= i
  <2>1. D \in SUBSET Nat
    OBVIOUS
  <2> HIDE DEF D
  <2> QED BY <1>2, <2>1, Least
<1> HIDE DEF d
<1>4. d \in Nat \ {0} /\ ~Alike(a, b, d)
  BY <1>3
<1>5. AlikeTo(a, b, d) /\ AlikeTo(b, a, d)
  <2>1. \A i \in 1 .. d - 1 : Alike(a, b, i)
    <3> SUFFICES ASSUME NEW i \in 1 .. d - 1, ~Alike(a, b, i) PROVE FALSE
      OBVIOUS
    <3>1. i \in D /\ i < d
      BY <1>4
    <3>2. d <= i
      <4> HIDE DEF D
      <4> QED BY <1>3, <3>1
    <3> QED BY <1>4, <3>1, <3>2
  <2> QED BY <2>1 DEF AlikeTo, Alike
<1>6. Smaller(a, b, d) \/ Smaller(b, a, d)
  BY <1>1, <1>4 DEF Alike, Smaller
<1>7. d <= Len(a) + 1 /\ d <= Len(b) + 1
  <2>1. CASE d > Len(a) + 1
    <3>1. Len(a) + 1 \in 1 .. d - 1 /\ Len(a) + 1 \in Nat \ {0} /\ d > Len(a) /\ Len(a) + 1 > Len(a)
      BY <1>0, <1>4, <2>1
    <3>2. Len(a) + 1 > Len(b)
      BY <1>1, <1>5, <3>1 DEF AlikeTo, Alike
    <3>3. d > Len(b)
      BY <1>0, <1>4, <2>1, <3>2
    <3>4. Alike(a, b, d)
      BY <1>0, <1>4, <3>1, <3>3 DEF Alike, KindAt, EndAt, CharAt, Digital
    <3> QED BY <1>4, <3>4
  <2>2. CASE d > Len(b) + 1
    <3>1. Len(b) + 1 \in 1 .. d - 1 /\ Len(b) + 1 \in Nat \ {0} /\ d > Len(b) /\ Len(b) + 1 > Len(b)
      BY <1>0, <1>4, <2>2
    <3>2. Len(b) + 1 > Len(a)
      BY <1>1, <1>5, <3>1 DEF AlikeTo, Alike
    <3>3. d > Len(a)
      BY <1>0, <1>4, <2>2, <3>2
    <3>4. Alike(a, b, d)
      BY <1>0, <1>4, <3>1, <3>3 DEF Alike, KindAt, EndAt, CharAt, Digital
    <3> QED BY <1>4, <3>4
  <2> QED BY <1>0, <1>4, <2>1, <2>2
<1> QED BY <1>4, <1>5, <1>6, <1>7 DEF Before

(* the smallest of some numbers *)
LEMMA LeastNumber ==
  ASSUME NEW S \in SUBSET Nat, S # {}
  PROVE  SA!Min(S) \in S /\ \A x \in S : SA!Min(S) <= x
<1>1. Min(S) \in S /\ \A x \in S : Min(S) <= x
  BY Least
<1> QED BY <1>1 DEF Min, SA!Min

LEMMA SmallerOfTwo ==
  ASSUME NEW m \in Nat, NEW n \in Nat
  PROVE  SA!Min({m, n}) = IF m <= n THEN m ELSE n
<1> DEFINE x == SA!Min({m, n})
<1>1. x \in {m, n} /\ \A y \in {m, n} : x <= y
  <2>1. {m, n} \in SUBSET Nat /\ {m, n} # {}
    OBVIOUS
  <2> QED BY <2>1, LeastNumber
<1> HIDE DEF x
<1>2. x = IF m <= n THEN m ELSE n
  BY <1>1
<1> QED BY <1>2 DEF x

(* Strings of the same length are compared where they differ first. *)
LEMMA ComparedAt ==
  ASSUME NEW u \in Seq(Nat), NEW v \in Seq(Nat), Len(u) = Len(v),
         NEW k \in 1 .. Len(u), u[k] # v[k], \A i \in 1 .. k - 1 : u[i] = v[i]
  PROVE  SA!compare(u, v) = SA!Sign(u[k], v[k])
<1> DEFINE differ == {i \in 1 .. SA!Min({Len(u), Len(v)}) : u[i] # v[i]}
<1>1. Len(u) \in Nat
  BY LenProperties
<1>2. SA!Min({Len(u), Len(v)}) = Len(u)
  BY <1>1, SmallerOfTwo
<1>3. differ = {i \in 1 .. Len(u) : u[i] # v[i]}
  BY <1>2
<1>4. differ \in SUBSET Nat /\ k \in differ /\ \A i \in differ : k <= i
  <2> DEFINE C == {i \in 1 .. Len(u) : u[i] # v[i]}
  <2>1. C \in SUBSET Nat /\ k \in C /\ \A i \in C : k <= i
    BY <1>1
  <2> HIDE DEF differ
  <2> QED BY <1>3, <2>1
<1>5. SA!compare(u, v) = IF differ = {} THEN SA!Sign(Len(u), Len(v))
                         ELSE SA!Sign(u[SA!Min(differ)], v[SA!Min(differ)])
  BY Zenon DEF SA!compare
<1> HIDE DEF differ
<1>6. SA!Min(differ) \in differ /\ \A i \in differ : SA!Min(differ) <= i
  BY <1>4, LeastNumber
<1>7. SA!Min(differ) = k
  <2>1. SA!Min(differ) <= k /\ k <= SA!Min(differ) /\ SA!Min(differ) \in Nat
    BY <1>4, <1>6
  <2> QED BY <2>1
<1> QED BY <1>4, <1>5, <1>7, Zenon

(* what compare_numeric is at each place, in terms of the three *)
NumericScan(f, s, t, end) ==
  \A i \in 1 .. end :
    f[i] = IF i = end THEN SA!Sign(Len(s), Len(t))
           ELSE IF Digital(s, i) /\ Digital(t, i)
           THEN IF EndAt(s, i) # EndAt(t, i) THEN SA!Sign(EndAt(s, i), EndAt(t, i))
                ELSE IF SubSeq(s, i, EndAt(s, i) - 1) = SubSeq(t, i, EndAt(s, i) - 1) THEN f[EndAt(s, i)]
                ELSE SA!compare(SubSeq(s, i, EndAt(s, i) - 1), SubSeq(t, i, EndAt(s, i) - 1))
           ELSE IF s[i] # t[i] THEN SA!Sign(s[i], t[i]) ELSE f[i + 1]
Behind(s, t) == IF Len(s) <= Len(t) THEN Len(s) + 1 ELSE Len(t) + 1

LEMMA NumericScans ==
  ASSUME NEW s \in Seq(Nat), NEW t \in Seq(Nat)
  PROVE  \E f : SA!compare_numeric(s, t) = f[1] /\ NumericScan(f, s, t, Behind(s, t))
<1> DEFINE end == SA!Min({Len(s), Len(t)}) + 1
           Both(i) == SA!ascii_isdigit(s[i]) /\ SA!ascii_isdigit(t[i])
           j(i) == SA!RunEnd(s, i)
           sub(i) == SubSeq(s, i, j(i) - 1)
           tub(i) == SubSeq(t, i, j(i) - 1)
           stops == [i \in 1 .. end |->
                       i = end \/ (Both(i) /\ (j(i) # SA!RunEnd(t, i) \/ sub(i) # tub(i)))
                               \/ (~Both(i) /\ s[i] # t[i])]
           answer == [i \in 1 .. end |->
                       IF i = end THEN SA!Sign(Len(s), Len(t))
                       ELSE IF Both(i)
                       THEN IF j(i) # SA!RunEnd(t, i) THEN SA!Sign(j(i), SA!RunEnd(t, i))
                            ELSE SA!compare(sub(i), tub(i))
                       ELSE SA!Sign(s[i], t[i])]
           next == [i \in 1 .. end |-> IF Both(i) THEN j(i) ELSE i + 1]
           Is(f) == f = [i \in 1 .. end |->
             IF i = end THEN SA!Sign(Len(s), Len(t))
             ELSE IF SA!ascii_isdigit(s[i]) /\ SA!ascii_isdigit(t[i])
             THEN IF j(i) # SA!RunEnd(t, i) THEN SA!Sign(j(i), SA!RunEnd(t, i))
                  ELSE IF sub(i) = tub(i) THEN f[j(i)]
                  ELSE SA!compare(sub(i), tub(i))
             ELSE IF s[i] # t[i] THEN SA!Sign(s[i], t[i]) ELSE f[i + 1]]
           g == CHOOSE f : Is(f)
<1>1. SA!compare_numeric(s, t) = g[1]
  BY Zenon DEF SA!compare_numeric
<1>2. Len(s) \in Nat /\ Len(t) \in Nat
  BY LenProperties
<1>3. end = Behind(s, t) /\ end \in Nat /\ end >= 1 /\ end <= Len(s) + 1 /\ end <= Len(t) + 1
  <2>1. SA!Min({Len(s), Len(t)}) = IF Len(s) <= Len(t) THEN Len(s) ELSE Len(t)
    BY <1>2, SmallerOfTwo
  <2> QED BY <1>2, <2>1 DEF Behind
<1>4. end - 1 = Len(s) \/ end - 1 = Len(t)
  BY <1>2, <1>3 DEF Behind
<1>5. \A i \in 1 .. end - 1 :
        /\ j(i) \in i + 1 .. Len(s) + 1 /\ SA!RunEnd(t, i) \in i + 1 .. Len(t) + 1
        /\ Digital(s, i) <=> SA!ascii_isdigit(s[i])
        /\ Digital(t, i) <=> SA!ascii_isdigit(t[i])
  <2> SUFFICES ASSUME NEW i \in 1 .. end - 1
               PROVE  /\ j(i) \in i + 1 .. Len(s) + 1 /\ SA!RunEnd(t, i) \in i + 1 .. Len(t) + 1
                      /\ Digital(s, i) <=> SA!ascii_isdigit(s[i])
                      /\ Digital(t, i) <=> SA!ascii_isdigit(t[i])
    BY Zenon
  <2>1. i \in 1 .. Len(s) /\ i \in 1 .. Len(t)
    BY <1>2, <1>3
  <2>2. j(i) \in i + 1 .. Len(s) + 1 /\ SA!RunEnd(t, i) \in i + 1 .. Len(t) + 1
    BY <2>1, RunEnds
  <2>3. i <= Len(s) /\ i <= Len(t)
    BY <2>1
  <2> QED BY <2>2, <2>3 DEF Digital
<1> HIDE DEF end
<1>6. \E f : Is(f)
  <2>1. Forward(1, end, stops, next)
    <3> SUFFICES ASSUME NEW i \in 1 .. end, ~stops[i] PROVE next[i] \in i + 1 .. end
      BY DEF Forward
    <3>1. i # end /\ (Both(i) => j(i) = SA!RunEnd(t, i))
      <4> HIDE DEF Both, j, sub, tub
      <4> QED OBVIOUS
    <3>2. i \in 1 .. end - 1 /\ next[i] = IF Both(i) THEN j(i) ELSE i + 1
      <4> HIDE DEF Both, j, stops
      <4> QED BY <1>3, <3>1
    <3> HIDE DEF Both, stops, next
    <3>3. j(i) \in i + 1 .. Len(s) + 1 /\ SA!RunEnd(t, i) \in i + 1 .. Len(t) + 1
      BY <1>5, <3>2
    <3> HIDE DEF j
    <3>4. CASE Both(i)
      <4>1. next[i] = j(i) /\ j(i) = SA!RunEnd(t, i)
        BY <3>1, <3>2, <3>4
      <4>2. j(i) \in i + 1 .. end
        BY <1>2, <1>3, <1>4, <3>2, <3>3, <4>1
      <4> QED BY <4>1, <4>2
    <3>5. CASE ~Both(i)
      <4>1. next[i] = i + 1
        BY <3>2, <3>5
      <4> QED BY <1>3, <3>2, <4>1
    <3> QED BY <3>4, <3>5
  <2>2. PICK f : Walks(f, 1, end, stops, answer, next)
    <3> HIDE DEF stops, answer, next
    <3>1. 1 \in Int /\ end \in Int
      BY <1>3
    <3> QED BY <2>1, <3>1, Walk
  <2>3. \A i \in 1 .. end :
          (IF stops[i] THEN answer[i] ELSE f[next[i]])
            = IF i = end THEN SA!Sign(Len(s), Len(t))
              ELSE IF Both(i)
              THEN IF j(i) # SA!RunEnd(t, i) THEN SA!Sign(j(i), SA!RunEnd(t, i))
                   ELSE IF sub(i) = tub(i) THEN f[j(i)]
                   ELSE SA!compare(sub(i), tub(i))
              ELSE IF s[i] # t[i] THEN SA!Sign(s[i], t[i]) ELSE f[i + 1]
    <3> HIDE DEF Both, j, sub, tub
    <3> QED OBVIOUS
  <2>4. f = [i \in 1 .. end |-> IF stops[i] THEN answer[i] ELSE f[next[i]]]
    BY <2>2 DEF Walks
  <2>5. Is(f)
    <3> HIDE DEF stops, answer, next, j, sub, tub
    <3> QED BY <2>3, <2>4
  <2> HIDE DEF Is
  <2> QED BY <2>5
<1>7. Is(g)
  <2> HIDE DEF Is
  <2> QED BY <1>6
<1> HIDE DEF g
<1>8. NumericScan(g, s, t, end)
  <2> SUFFICES ASSUME NEW i \in 1 .. end
        PROVE g[i] = IF i = end THEN SA!Sign(Len(s), Len(t))
           ELSE IF Digital(s, i) /\ Digital(t, i)
           THEN IF EndAt(s, i) # EndAt(t, i) THEN SA!Sign(EndAt(s, i), EndAt(t, i))
                ELSE IF SubSeq(s, i, EndAt(s, i) - 1) = SubSeq(t, i, EndAt(s, i) - 1) THEN g[EndAt(s, i)]
                ELSE SA!compare(SubSeq(s, i, EndAt(s, i) - 1), SubSeq(t, i, EndAt(s, i) - 1))
           ELSE IF s[i] # t[i] THEN SA!Sign(s[i], t[i]) ELSE g[i + 1]
    BY Zenon DEF NumericScan
  <2>1. g[i] = IF i = end THEN SA!Sign(Len(s), Len(t))
              ELSE IF Both(i)
              THEN IF j(i) # SA!RunEnd(t, i) THEN SA!Sign(j(i), SA!RunEnd(t, i))
                   ELSE IF sub(i) = tub(i) THEN g[j(i)]
                   ELSE SA!compare(sub(i), tub(i))
              ELSE IF s[i] # t[i] THEN SA!Sign(s[i], t[i]) ELSE g[i + 1]
    <3> HIDE DEF j, sub, tub
    <3> QED BY <1>7
  <2>2. CASE i = end
    BY <2>1, <2>2
  <2>3. CASE i # end
    <3>1. i \in 1 .. end - 1
      BY <1>3, <2>3
    <3>2. Both(i) <=> Digital(s, i) /\ Digital(t, i)
      BY <1>5, <3>1, Zenon
    <3>3. Both(i) => EndAt(s, i) = j(i) /\ EndAt(t, i) = SA!RunEnd(t, i)
      BY <3>2 DEF EndAt
    <3> HIDE DEF Both, j
    <3> QED BY <2>1, <2>3, <3>2, <3>3
  <2> QED BY <2>2, <2>3
<1> QED BY <1>1, <1>3, <1>8

(* Where two strings are alike from i up to a place behind it, they have   *)
(* the same characters.                                                    *)
LEMMA AlikeText ==
  ASSUME NEW s \in Seq(Nat), NEW t \in Seq(Nat), NEW i \in Nat \ {0}, NEW e \in Nat, i <= e,
         e <= Len(s) + 1, e <= Len(t) + 1, \A k \in i .. e - 1 : CharAt(s, k) = CharAt(t, k)
  PROVE  SubSeq(s, i, e - 1) = SubSeq(t, i, e - 1)
<1>0. Len(s) \in Nat /\ Len(t) \in Nat
  BY LenProperties
<1> DEFINE u == SubSeq(s, i, e - 1)
           v == SubSeq(t, i, e - 1)
           m == e - 1
<1>1. i \in 1 .. Len(s) + 1 /\ m \in 0 .. Len(s) /\ i <= m + 1
  BY <1>0
<1>2. i \in 1 .. Len(t) + 1 /\ m \in 0 .. Len(t) /\ i <= m + 1
  BY <1>0
<1> HIDE DEF m
<1>3. /\ SubSeq(s, i, m) \in Seq(Nat) /\ Len(SubSeq(s, i, m)) = m - i + 1
      /\ \A k \in 1 .. m - i + 1 : SubSeq(s, i, m)[k] = s[i + k - 1]
  BY <1>1, CutString
<1>4. /\ SubSeq(t, i, m) \in Seq(Nat) /\ Len(SubSeq(t, i, m)) = m - i + 1
      /\ \A k \in 1 .. m - i + 1 : SubSeq(t, i, m)[k] = t[i + k - 1]
  BY <1>2, CutString
<1>5. \A k \in 1 .. m - i + 1 : s[i + k - 1] = t[i + k - 1]
  <2> SUFFICES ASSUME NEW k \in 1 .. m - i + 1 PROVE s[i + k - 1] = t[i + k - 1]
    OBVIOUS
  <2>1. i + k - 1 \in i .. e - 1 /\ ~(i + k - 1 > Len(s)) /\ ~(i + k - 1 > Len(t))
    BY <1>0, <1>1, <1>2 DEF m
  <2>2. CharAt(s, i + k - 1) = CharAt(t, i + k - 1)
    BY <2>1
  <2> QED BY <2>1, <2>2 DEF CharAt
<1>6. SubSeq(s, i, m) = SubSeq(t, i, m)
  <2> DEFINE a == SubSeq(s, i, m)
             b == SubSeq(t, i, m)
  <2>1. a \in Seq(Nat) /\ b \in Seq(Nat) /\ Len(a) = Len(b) /\ \A k \in 1 .. Len(a) : a[k] = b[k]
    BY <1>3, <1>4, <1>5
  <2> HIDE DEF a, b
  <2>2. a = b
    BY <2>1, SeqEqual
  <2> QED BY <2>2 DEF a, b
<1> QED BY <1>6 DEF m

(* What is alike differs in no step: both have digits there, whose runs    *)
(* end at the same place, or both have the same other character.           *)
LEMMA AlikeStep ==
  ASSUME NEW s \in Seq(Nat), NEW t \in Seq(Nat), NEW i \in 1 .. Behind(s, t) - 1, Alike(s, t, i)
  PROVE  /\ s[i] = t[i] /\ (Digital(s, i) <=> Digital(t, i)) /\ EndAt(s, i) = EndAt(t, i)
         /\ Digital(s, i) =>
              /\ EndAt(s, i) \in i + 1 .. Behind(s, t)
              /\ \A k \in i .. EndAt(s, i) - 1 : Digital(s, k) /\ Digital(t, k)
              /\ \A k \in i .. EndAt(s, i) - 1 : EndAt(s, k) = EndAt(s, i) /\ EndAt(t, k) = EndAt(s, i)
<1>0. Len(s) \in Nat /\ Len(t) \in Nat
  BY LenProperties
<1>1. i \in 1 .. Len(s) /\ i \in 1 .. Len(t) /\ i \in Nat \ {0}
  BY <1>0 DEF Behind
<1>2. s[i] = t[i]
  BY <1>0, <1>1 DEF Alike, CharAt
<1>3. Digital(s, i) <=> Digital(t, i)
  BY <1>0, <1>1, <1>2 DEF Digital
<1>4. EndAt(s, i) = EndAt(t, i)
  BY DEF Alike
<1>5. ASSUME Digital(s, i)
      PROVE  /\ EndAt(s, i) \in i + 1 .. Behind(s, t)
             /\ \A k \in i .. EndAt(s, i) - 1 : Digital(s, k) /\ Digital(t, k)
             /\ \A k \in i .. EndAt(s, i) - 1 : EndAt(s, k) = EndAt(s, i) /\ EndAt(t, k) = EndAt(s, i)
  <2> DEFINE e == EndAt(s, i)
  <2>1. e = SA!RunEnd(s, i) /\ e = SA!RunEnd(t, i)
    BY <1>3, <1>4, <1>5 DEF EndAt
  <2>2. /\ e \in i + 1 .. Len(s) + 1 /\ ~Digital(s, e)
        /\ \A k \in i + 1 .. e - 1 : Digital(s, k)
    BY <1>1, <2>1, RunEnds
  <2>3. /\ e \in i + 1 .. Len(t) + 1 /\ ~Digital(t, e)
        /\ \A k \in i + 1 .. e - 1 : Digital(t, k)
    BY <1>1, <2>1, RunEnds
  <2> HIDE DEF e
  <2>4. e \in i + 1 .. Behind(s, t)
    BY <1>0, <2>2, <2>3 DEF Behind
  <2>5. \A k \in i .. e - 1 : Digital(s, k) /\ Digital(t, k)
    <3> SUFFICES ASSUME NEW k \in i .. e - 1 PROVE Digital(s, k) /\ Digital(t, k)
      OBVIOUS
    <3>1. k = i \/ k \in i + 1 .. e - 1
      BY <1>1, <2>4
    <3> QED BY <1>3, <1>5, <2>2, <2>3, <3>1
  <2>6. \A k \in i .. e - 1 : EndAt(s, k) = e /\ EndAt(t, k) = e
    <3> SUFFICES ASSUME NEW k \in i .. e - 1 PROVE EndAt(s, k) = e /\ EndAt(t, k) = e
      OBVIOUS
    <3>1. k \in 1 .. Len(s) /\ e \in k + 1 .. Len(s) + 1 /\ \A j \in k + 1 .. e - 1 : Digital(s, j)
      BY <1>0, <1>1, <2>2, <2>5
    <3>2. k \in 1 .. Len(t) /\ e \in k + 1 .. Len(t) + 1 /\ \A j \in k + 1 .. e - 1 : Digital(t, j)
      BY <1>0, <1>1, <2>3, <2>5
    <3>3. SA!RunEnd(s, k) = e
      BY <2>2, <3>1, RunEndIs
    <3>4. SA!RunEnd(t, k) = e
      BY <2>3, <3>2, RunEndIs
    <3> QED BY <2>5, <3>3, <3>4 DEF EndAt
  <2> QED BY <2>4, <2>5, <2>6 DEF e
<1> QED BY <1>2, <1>3, <1>4, <1>5

(* A string is the same as itself. *)
LEMMA NumericSame ==
  ASSUME NEW s \in Seq(Nat)
  PROVE  SA!compare_numeric(s, s) = 0
<1> DEFINE end == Behind(s, s)
<1>0. Len(s) \in Nat /\ end = Len(s) + 1
  BY LenProperties DEF Behind
<1>1. PICK f : SA!compare_numeric(s, s) = f[1] /\ NumericScan(f, s, s, end)
  BY NumericScans
<1> DEFINE S == {i \in 1 .. end : f[i] = 0}
<1>2. ASSUME NEW i \in 1 .. end, \A k \in i + 1 .. end : k \in S
      PROVE  f[i] = 0
  <2>1. f[i] = IF i = end THEN SA!Sign(Len(s), Len(s))
           ELSE IF Digital(s, i) THEN f[EndAt(s, i)] ELSE f[i + 1]
    BY <1>1, Zenon DEF NumericScan
  <2>2. CASE i = end
    BY <1>0, <2>1, <2>2 DEF SA!Sign
  <2>3. CASE i # end /\ Digital(s, i)
    <3>1. i \in 1 .. Behind(s, s) - 1 /\ Alike(s, s, i)
      BY <1>0, <2>3 DEF Alike
    <3>2. EndAt(s, i) \in i + 1 .. end
      BY <2>3, <3>1, AlikeStep
    <3> HIDE DEF end
    <3> QED BY <1>2, <2>1, <2>3, <3>2
  <2>4. CASE i # end /\ ~Digital(s, i)
    <3>1. i + 1 \in i + 1 .. end
      BY <1>0, <2>4
    <3> HIDE DEF end
    <3> QED BY <1>2, <2>1, <2>4, <3>1
  <2> QED BY <2>2, <2>3, <2>4
<1>3. \A i \in 1 .. end : (\A k \in i + 1 .. end : k \in S) => i \in S
  BY <1>2
<1>4. 1 \in 1 .. end /\ end \in Int /\ 1 \in Int
  BY <1>0
<1>5. \A i \in 1 .. end : i \in S
  <2> HIDE DEF S, end
  <2> QED BY <1>3, <1>4, FromBehind
<1> QED BY <1>1, <1>4, <1>5

(* Two runs of digits of the same length are compared where they differ.   *)
LEMMA RunsCompared ==
  ASSUME NEW s \in Seq(Nat), NEW t \in Seq(Nat), NEW i \in Nat \ {0}, NEW d \in Nat, NEW e \in Nat,
         i <= d, d < e, e <= Len(s) + 1, e <= Len(t) + 1,
         s[d] # t[d], \A k \in i .. d - 1 : s[k] = t[k]
  PROVE  /\ SubSeq(s, i, e - 1) # SubSeq(t, i, e - 1)
         /\ SA!compare(SubSeq(s, i, e - 1), SubSeq(t, i, e - 1)) = SA!Sign(s[d], t[d])
<1>0. Len(s) \in Nat /\ Len(t) \in Nat
  BY LenProperties
<1> DEFINE m == e - 1
           u == SubSeq(s, i, m)
           v == SubSeq(t, i, m)
           n == d - i + 1
<1>1. i \in 1 .. Len(s) + 1 /\ m \in 0 .. Len(s) /\ i <= m + 1
  BY <1>0, SMTT(30)
<1>2. i \in 1 .. Len(t) + 1 /\ m \in 0 .. Len(t) /\ i <= m + 1
  BY <1>0, SMTT(30)
<1>3. n \in 1 .. m - i + 1 /\ i + n - 1 = d
  OBVIOUS
<1>4. \A k \in 1 .. n - 1 : i + k - 1 \in i .. d - 1
  OBVIOUS
<1>5. \A k \in 1 .. n - 1 : k \in 1 .. m - i + 1
  OBVIOUS
<1> HIDE DEF m
<1>6. u \in Seq(Nat) /\ Len(u) = m - i + 1 /\ \A k \in 1 .. m - i + 1 : u[k] = s[i + k - 1]
  BY <1>1, CutString
<1>7. v \in Seq(Nat) /\ Len(v) = m - i + 1 /\ \A k \in 1 .. m - i + 1 : v[k] = t[i + k - 1]
  BY <1>2, CutString
<1> HIDE DEF u, v, n
<1>8. u[n] = s[d] /\ v[n] = t[d]
  BY <1>3, <1>6, <1>7
<1>9. \A k \in 1 .. n - 1 : u[k] = v[k]
  BY <1>4, <1>5, <1>6, <1>7
<1>10. n \in 1 .. Len(u) /\ u[n] # v[n] /\ Len(u) = Len(v)
  BY <1>3, <1>6, <1>7, <1>8
<1>11. SA!compare(u, v) = SA!Sign(u[n], v[n])
  BY <1>6, <1>7, <1>9, <1>10, ComparedAt
<1>12. u # v
  BY <1>10
<1> QED BY <1>8, <1>11, <1>12 DEF u, v, m

(* Of two strings the one that is before the other is the smaller.         *)
LEMMA NumericDecided ==
  ASSUME NEW s \in Seq(Nat), NEW t \in Seq(Nat), NEW d \in Nat \ {0}, d <= Behind(s, t),
         AlikeTo(s, t, d), NEW v \in Int,
         (Smaller(s, t, d) /\ v = -1) \/ (Smaller(t, s, d) /\ v = 1)
  PROVE  SA!compare_numeric(s, t) = v
<1> DEFINE end == Behind(s, t)
<1>0. /\ Len(s) \in Nat /\ Len(t) \in Nat /\ end \in Nat \ {0}
      /\ end <= Len(s) + 1 /\ end <= Len(t) + 1 /\ (end = Len(s) + 1 \/ end = Len(t) + 1)
  BY LenProperties DEF Behind
<1>1. PICK f : SA!compare_numeric(s, t) = f[1] /\ NumericScan(f, s, t, end)
  BY NumericScans
<1>2. /\ CharAt(s, d) \in Int /\ CharAt(s, d) >= -1 /\ (CharAt(s, d) = -1 <=> d > Len(s))
      /\ CharAt(t, d) \in Int /\ CharAt(t, d) >= -1 /\ (CharAt(t, d) = -1 <=> d > Len(t))
      /\ (Digital(s, d) <=> CharAt(s, d) \in 48 .. 57)
      /\ (Digital(t, d) <=> CharAt(t, d) \in 48 .. 57)
  BY KeyNumbers
<1>3. /\ EndAt(s, d) \in Int /\ (Digital(s, d) => EndAt(s, d) = SA!RunEnd(s, d) /\ EndAt(s, d) > d)
      /\ (~Digital(s, d) => EndAt(s, d) = 0)
      /\ EndAt(t, d) \in Int /\ (Digital(t, d) => EndAt(t, d) = SA!RunEnd(t, d) /\ EndAt(t, d) > d)
      /\ (~Digital(t, d) => EndAt(t, d) = 0)
  BY KeyNumbers
<1>4. /\ KindAt(s, d) = IF Digital(s, d) THEN 48 ELSE CharAt(s, d)
      /\ KindAt(t, d) = IF Digital(t, d) THEN 48 ELSE CharAt(t, d)
  BY DEF KindAt
<1>5. d < end => d \in 1 .. Len(s) /\ d \in 1 .. Len(t) /\ s[d] = CharAt(s, d) /\ t[d] = CharAt(t, d)
  BY <1>0 DEF CharAt
<1>6. d < end => /\ \/ s[d] < t[d] /\ SA!Sign(s[d], t[d]) = -1
                    \/ s[d] = t[d] /\ SA!Sign(s[d], t[d]) = 0
                    \/ s[d] > t[d] /\ SA!Sign(s[d], t[d]) = 1
                 /\ s[d] = CharAt(s, d) /\ t[d] = CharAt(t, d)
  BY <1>2, <1>5 DEF SA!Sign
<1> HIDE DEF end
(* in a run of digits of one length *)
<1>7. ASSUME d < end, Digital(s, d), Digital(t, d), EndAt(s, d) = EndAt(t, d)
      PROVE  s[d] # t[d] /\ SA!Sign(s[d], t[d]) = v
  <2>1. KindAt(s, d) = 48 /\ KindAt(t, d) = 48
    BY <1>4, <1>7
  <2>2. (CharAt(s, d) < CharAt(t, d) /\ v = -1) \/ (CharAt(t, d) < CharAt(s, d) /\ v = 1)
    BY <1>3, <1>7, <2>1 DEF Smaller
  <2> QED BY <1>2, <1>6, <1>7, <2>2
<1>8. f[d] = v
  <2>1. d \in 1 .. end
    BY <1>0 DEF end
  <2>2. f[d] = IF d = end THEN SA!Sign(Len(s), Len(t))
           ELSE IF Digital(s, d) /\ Digital(t, d)
           THEN IF EndAt(s, d) # EndAt(t, d) THEN SA!Sign(EndAt(s, d), EndAt(t, d))
                ELSE IF SubSeq(s, d, EndAt(s, d) - 1) = SubSeq(t, d, EndAt(s, d) - 1) THEN f[EndAt(s, d)]
                ELSE SA!compare(SubSeq(s, d, EndAt(s, d) - 1), SubSeq(t, d, EndAt(s, d) - 1))
           ELSE IF s[d] # t[d] THEN SA!Sign(s[d], t[d]) ELSE f[d + 1]
    BY <1>1, <2>1, Zenon DEF NumericScan
  <2>3. CASE d = end
    <3>1. CASE Len(s) < Len(t)
      <4>1. d > Len(s) /\ ~(d > Len(t))
        BY <1>0, <2>3, <3>1
      <4>2. CharAt(s, d) = -1 /\ CharAt(t, d) >= 0 /\ CharAt(t, d) \in Int
        BY <1>2, <4>1
      <4>3. ~Digital(s, d)
        BY <1>2, <4>2
      <4>4. KindAt(s, d) = -1 /\ KindAt(t, d) \in Int /\ KindAt(t, d) >= 0
        BY <1>4, <4>2, <4>3
      <4>5. v = -1
        BY <4>4 DEF Smaller
      <4> QED BY <1>0, <2>2, <2>3, <3>1, <4>5 DEF SA!Sign
    <3>2. CASE Len(t) < Len(s)
      <4>1. d > Len(t) /\ ~(d > Len(s))
        BY <1>0, <2>3, <3>2
      <4>2. CharAt(t, d) = -1 /\ CharAt(s, d) >= 0 /\ CharAt(s, d) \in Int
        BY <1>2, <4>1
      <4>3. ~Digital(t, d)
        BY <1>2, <4>2
      <4>4. KindAt(t, d) = -1 /\ KindAt(s, d) \in Int /\ KindAt(s, d) >= 0
        BY <1>4, <4>2, <4>3
      <4>5. v = 1
        BY <4>4 DEF Smaller
      <4> QED BY <1>0, <2>2, <2>3, <3>2, <4>5 DEF SA!Sign
    <3>3. CASE Len(t) = Len(s)
      <4>1. d > Len(t) /\ d > Len(s)
        BY <1>0, <2>3, <3>3
      <4>2. CharAt(s, d) = -1 /\ CharAt(t, d) = -1 /\ ~Digital(s, d) /\ ~Digital(t, d)
        BY <1>2, <4>1
      <4>3. KindAt(s, d) = -1 /\ KindAt(t, d) = -1 /\ EndAt(s, d) = 0 /\ EndAt(t, d) = 0
        BY <1>3, <1>4, <4>2
      <4> QED BY <4>2, <4>3 DEF Smaller
    <3> QED BY <1>0, <3>1, <3>2, <3>3
  <2>4. CASE d # end
    <3>1. d < end
      BY <1>0, <2>1, <2>4
    <3>2. CASE Digital(s, d) /\ Digital(t, d) /\ EndAt(s, d) # EndAt(t, d)
      <4>1. KindAt(s, d) = KindAt(t, d)
        BY <1>4, <3>2
      <4>2. (EndAt(s, d) < EndAt(t, d) /\ v = -1) \/ (EndAt(t, d) < EndAt(s, d) /\ v = 1)
        BY <1>2, <1>3, <1>4, <3>2, <4>1 DEF Smaller
      <4>3. SA!Sign(EndAt(s, d), EndAt(t, d)) = v
        BY <1>3, <4>2 DEF SA!Sign
      <4> QED BY <2>2, <2>4, <3>2, <4>3
    <3>3. CASE Digital(s, d) /\ Digital(t, d) /\ EndAt(s, d) = EndAt(t, d)
      <4> DEFINE e == EndAt(s, d)
      <4>1. e \in d + 1 .. Len(s) + 1 /\ e \in d + 1 .. Len(t) + 1
        <5>1. e = SA!RunEnd(s, d) /\ e = SA!RunEnd(t, d) /\ d \in 1 .. Len(s) /\ d \in 1 .. Len(t)
          BY <1>3, <1>5, <3>1, <3>3
        <5> HIDE DEF e
        <5>2. SA!RunEnd(s, d) \in d + 1 .. Len(s) + 1 /\ SA!RunEnd(t, d) \in d + 1 .. Len(t) + 1
          BY <5>1, RunEnds
        <5> QED BY <5>1, <5>2
      <4>2. s[d] # t[d] /\ SA!Sign(s[d], t[d]) = v
        BY <1>7, <3>1, <3>3
      <4>3. e \in Nat /\ d < e /\ e <= Len(s) + 1 /\ e <= Len(t) + 1 /\ \A k \in d .. d - 1 : s[k] = t[k]
        BY <1>0, <4>1
      <4> HIDE DEF e
      <4>4. /\ SubSeq(s, d, e - 1) # SubSeq(t, d, e - 1)
            /\ SA!compare(SubSeq(s, d, e - 1), SubSeq(t, d, e - 1)) = SA!Sign(s[d], t[d])
        <5>1. d \in Nat /\ d <= d
          OBVIOUS
        <5> QED BY <4>2, <4>3, <5>1, RunsCompared
      <4> QED BY <2>2, <2>4, <3>3, <4>2, <4>4, Zenon DEF e
    <3>4. CASE ~(Digital(s, d) /\ Digital(t, d))
      <4>1. s[d] # t[d] /\ SA!Sign(s[d], t[d]) = v
        <5>1. (CharAt(s, d) < CharAt(t, d) /\ v = -1) \/ (CharAt(t, d) < CharAt(s, d) /\ v = 1)
          <6>1. CASE ~Digital(s, d) /\ ~Digital(t, d)
            <7>1. EndAt(s, d) = EndAt(t, d) /\ KindAt(s, d) = CharAt(s, d) /\ KindAt(t, d) = CharAt(t, d)
              BY <1>3, <1>4, <6>1
            <7>2. EndAt(s, d) \in Int
              BY <1>3
            <7>3. Smaller(s, t, d) => CharAt(s, d) < CharAt(t, d)
              BY <7>1, <7>2 DEF Smaller
            <7>4. Smaller(t, s, d) => CharAt(t, d) < CharAt(s, d)
              BY <7>1, <7>2 DEF Smaller
            <7> QED BY <7>3, <7>4
          <6>2. CASE Digital(s, d) /\ ~Digital(t, d)
            <7>1. KindAt(s, d) = 48 /\ KindAt(t, d) = CharAt(t, d)
              BY <1>4, <6>2
            <7>2. CharAt(s, d) \in 48 .. 57 /\ CharAt(t, d) \notin 48 .. 57 /\ CharAt(t, d) \in Int
              BY <1>2, <6>2, Zenon
            <7>3. CharAt(t, d) < 48 \/ CharAt(t, d) > 57
              BY <7>2, SMTT(30)
            <7> QED BY <7>1, <7>2, <7>3 DEF Smaller
          <6>3. CASE ~Digital(s, d) /\ Digital(t, d)
            <7>1. KindAt(t, d) = 48 /\ KindAt(s, d) = CharAt(s, d)
              BY <1>4, <6>3
            <7>2. CharAt(t, d) \in 48 .. 57 /\ CharAt(s, d) \notin 48 .. 57 /\ CharAt(s, d) \in Int
              BY <1>2, <6>3, Zenon
            <7>3. CharAt(s, d) < 48 \/ CharAt(s, d) > 57
              BY <7>2, SMTT(30)
            <7> QED BY <7>1, <7>2, <7>3 DEF Smaller
          <6> QED BY <3>4, <6>1, <6>2, <6>3
        <5> QED BY <1>2, <1>6, <3>1, <5>1
      <4> QED BY <2>2, <2>4, <3>4, <4>1, Zenon
    <3> QED BY <3>2, <3>3, <3>4
  <2> QED BY <2>3, <2>4
<1> DEFINE S == {i \in 1 .. end : i <= d => f[i] = v}
<1>9. ASSUME NEW i \in 1 .. end, \A k \in i + 1 .. end : k \in S, i <= d
      PROVE  f[i] = v
  <2>1. CASE i = d
    BY <1>8, <2>1
  <2>2. CASE i # d
    <3>1. i \in 1 .. d - 1 /\ i \in 1 .. Behind(s, t) - 1 /\ i # end /\ i \in Nat \ {0} /\ d <= end
      BY <1>0, <1>9, <2>2 DEF end
    <3>2. \A k \in i .. d - 1 : k \in 1 .. Behind(s, t) - 1 /\ Alike(s, t, k)
      BY <1>0, <3>1, SMTT(30) DEF AlikeTo, end
    <3>3. Alike(s, t, i)
      BY <3>1 DEF AlikeTo
    <3>4. s[i] = t[i] /\ (Digital(s, i) <=> Digital(t, i)) /\ EndAt(s, i) = EndAt(t, i)
      BY <3>1, <3>3, AlikeStep
    <3>5. f[i] = IF Digital(s, i)
           THEN IF SubSeq(s, i, EndAt(s, i) - 1) = SubSeq(t, i, EndAt(s, i) - 1) THEN f[EndAt(s, i)]
                ELSE SA!compare(SubSeq(s, i, EndAt(s, i) - 1), SubSeq(t, i, EndAt(s, i) - 1))
           ELSE f[i + 1]
      BY <1>1, <3>1, <3>4, Zenon DEF NumericScan
    <3>6. CASE ~Digital(s, i)
      <4>1. i + 1 \in i + 1 .. end /\ i + 1 <= d
        BY <1>0, <3>1
      <4> QED BY <1>9, <3>5, <3>6, <4>1
    <3>7. CASE Digital(s, i)
      <4> DEFINE e == EndAt(s, i)
      <4>1. /\ e \in i + 1 .. Behind(s, t)
            /\ \A k \in i .. e - 1 : Digital(s, k) /\ Digital(t, k)
            /\ \A k \in i .. e - 1 : EndAt(s, k) = e /\ EndAt(t, k) = e
        BY <3>1, <3>3, <3>7, AlikeStep
      <4>2. e = EndAt(s, i)
        OBVIOUS
      <4> HIDE DEF e
      <4>3. e \in i + 1 .. end /\ e \in Nat /\ i <= e /\ e <= Len(s) + 1 /\ e <= Len(t) + 1
        BY <1>0, <3>1, <4>1, SMTT(30) DEF end
      <4>4. CASE e <= d
        <5>1. \A k \in i .. e - 1 : CharAt(s, k) = CharAt(t, k)
          BY <3>1, <3>2, <4>3, <4>4 DEF Alike
        <5>2. SubSeq(s, i, e - 1) = SubSeq(t, i, e - 1)
          BY <3>1, <4>3, <5>1, AlikeText
        <5>3. f[i] = f[e]
          BY <3>5, <3>7, <4>2, <5>2, Zenon
        <5> QED BY <1>9, <4>3, <4>4, <5>3
      <4>5. CASE ~(e <= d)
        <5>1. d \in i .. e - 1 /\ d < end /\ i <= d /\ d < e
          BY <1>0, <3>1, <4>3, <4>5
        <5>2. Digital(s, d) /\ Digital(t, d) /\ EndAt(s, d) = EndAt(t, d)
          BY <4>1, <5>1
        <5>3. s[d] # t[d] /\ SA!Sign(s[d], t[d]) = v
          BY <1>7, <5>1, <5>2
        <5>4. \A k \in i .. d - 1 : s[k] = t[k]
          BY <3>2, AlikeStep
        <5>5. /\ SubSeq(s, i, e - 1) # SubSeq(t, i, e - 1)
              /\ SA!compare(SubSeq(s, i, e - 1), SubSeq(t, i, e - 1)) = SA!Sign(s[d], t[d])
          <6>1. d \in Nat
            OBVIOUS
          <6> QED BY <3>1, <4>3, <5>1, <5>3, <5>4, <6>1, RunsCompared, SMTT(30)
        <5> QED BY <3>5, <3>7, <4>2, <5>3, <5>5, Zenon
      <4> QED BY <4>4, <4>5
    <3> QED BY <3>6, <3>7
  <2> QED BY <2>1, <2>2
<1>10. \A i \in 1 .. end : (\A k \in i + 1 .. end : k \in S) => i \in S
  BY <1>9
<1>11. 1 \in 1 .. end /\ end \in Int /\ 1 \in Int /\ 1 <= d
  BY <1>0
<1>12. \A i \in 1 .. end : i \in S
  <2> HIDE DEF S
  <2> QED BY <1>10, <1>11, FromBehind
<1> QED BY <1>1, <1>11, <1>12

(* compare_numeric orders the strings: one is smaller than another if and  *)
(* only if the other is larger than it, it is the same as itself only, and *)
(* what is smaller than something smaller is smaller.                      *)
THEOREM NumericIsAnOrder ==
  ASSUME NEW a \in Seq(Nat), NEW b \in Seq(Nat), NEW c \in Seq(Nat)
  PROVE  /\ SA!compare_numeric(a, b) \in {-1, 0, 1}
         /\ SA!compare_numeric(a, b) = -SA!compare_numeric(b, a)
         /\ SA!compare_numeric(a, b) = 0 <=> a = b
         /\ SA!compare_numeric(a, b) = -1 /\ SA!compare_numeric(b, c) = -1
              => SA!compare_numeric(a, c) = -1
<1> DEFINE Less(s, t) == \E d \in Nat \ {0} : Before(s, t, d)
(* the order of the strings is that of the places where they differ *)
<1>1. ASSUME NEW s \in Seq(Nat), NEW t \in Seq(Nat), s # t
      PROVE  \/ /\ Less(s, t) /\ ~Less(t, s)
                /\ SA!compare_numeric(s, t) = -1 /\ SA!compare_numeric(t, s) = 1
             \/ /\ Less(t, s) /\ ~Less(s, t)
                /\ SA!compare_numeric(s, t) = 1 /\ SA!compare_numeric(t, s) = -1
  <2>1. PICK d \in Nat \ {0} : d <= Len(s) + 1 /\ d <= Len(t) + 1 /\ (Before(s, t, d) \/ Before(t, s, d))
    BY <1>1, BeforeOneOrOther
  <2>2. d <= Behind(s, t) /\ d <= Behind(t, s)
    BY <2>1 DEF Behind
  <2>3. AlikeTo(s, t, d) /\ AlikeTo(t, s, d)
    BY <2>1 DEF Before, AlikeTo, Alike
  <2>4. -1 \in Int /\ 1 \in Int
    OBVIOUS
  <2>5. CASE Before(s, t, d)
    <3>1. Smaller(s, t, d)
      BY <2>5 DEF Before
    <3>2. SA!compare_numeric(s, t) = -1 /\ SA!compare_numeric(t, s) = 1
      BY <2>2, <2>3, <2>4, <3>1, NumericDecided
    <3>3. Less(s, t)
      BY <2>5
    <3>4. ~Less(t, s)
      BY <2>5, BeforeOneWay
    <3> HIDE DEF Less
    <3> QED BY <3>2, <3>3, <3>4
  <2>6. CASE Before(t, s, d)
    <3>1. Smaller(t, s, d)
      BY <2>6 DEF Before
    <3>2. SA!compare_numeric(s, t) = 1 /\ SA!compare_numeric(t, s) = -1
      BY <2>2, <2>3, <2>4, <3>1, NumericDecided
    <3>3. Less(t, s)
      BY <2>6
    <3>4. ~Less(s, t)
      BY <2>6, BeforeOneWay
    <3> HIDE DEF Less
    <3> QED BY <3>2, <3>3, <3>4
  <2> QED BY <2>1, <2>5, <2>6
<1>2. ASSUME NEW s \in Seq(Nat)
      PROVE  SA!compare_numeric(s, s) = 0 /\ ~Less(s, s)
  BY NumericSame, BeforeOneWay
<1>3. Less(a, b) /\ Less(b, c) => Less(a, c)
  BY BeforeGoesOn
<1> HIDE DEF Less
<1>4. SA!compare_numeric(a, b) \in {-1, 0, 1} /\ SA!compare_numeric(a, b) = -SA!compare_numeric(b, a)
  BY <1>1, <1>2
<1>5. SA!compare_numeric(a, b) = 0 <=> a = b
  BY <1>1, <1>2
<1>6. SA!compare_numeric(a, b) = -1 <=> Less(a, b)
  BY <1>1, <1>2
<1>7. SA!compare_numeric(b, c) = -1 <=> Less(b, c)
  BY <1>1, <1>2
<1>8. SA!compare_numeric(a, c) = -1 <=> Less(a, c)
  BY <1>1, <1>2
<1> QED BY <1>3, <1>4, <1>5, <1>6, <1>7, <1>8
=============================================================================
