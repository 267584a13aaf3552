------------------------------ MODULE UnitProofs ------------------------------
(***************************************************************************)
(* The containers, the buffered stream and the hash, for every value of    *)
(* their constants. UidVector: the freelist names the erased slots, each   *)
(* once, and the one erased first is used again first. raw_fd_istream:     *)
(* reads are in order unless one of them fails. SHA1: what is hashed is    *)
(* what was written, padded to whole blocks. StringMap and SmallSet: what  *)
(* is found is what was inserted and not erased, and a lookup ends.        *)
(* FindMultipartBoundary: no boundary is passed over.  json::parser: what  *)
(* the callback is told of the depth is true.                              *)
(***************************************************************************)
EXTENDS UidVector, Containers, RawFdIstream, Sha1, Multipart, JsonParser,
        FiniteSetTheorems, SequenceTheorems, WellFoundedInduction, TLAPS

(***************************************************************************)
(* UidVector                                                               *)
(***************************************************************************)

UidTyped ==
  /\ m_vector \in Seq(Nat)
  /\ m_free \in Seq(Nat)
  /\ m_active_count \in Int
  /\ emplaced \in Nat
  /\ since \in Seq(Nat)
  /\ Len(since) = Len(m_vector)

(* FreelistExact, element by element *)
NamesErased ==
  \A i \in 1 .. Len(m_free) :
    m_free[i] + 1 \in 1 .. Len(m_vector) /\ m_vector[m_free[i] + 1] = 0
NamesAll ==
  \A n \in 1 .. Len(m_vector) :
    m_vector[n] = 0 => \E i \in 1 .. Len(m_free) : m_free[i] = n - 1
NamesOnce == \A i, j \in 1 .. Len(m_free) : m_free[i] = m_free[j] => i = j
UidCounted == m_active_count = Len(m_vector) - Len(m_free)

(* The freelist is in the order of the erasures: those behind an entry     *)
(* came after it.                                                          *)
UidOrdered ==
  \A i \in 1 .. Len(m_free) : since[m_free[i] + 1] >= Len(m_free) - i

UidInv == UidTyped /\ NamesErased /\ NamesAll /\ NamesOnce /\ UidCounted /\ UidOrdered

(* the parts of the invariant, and the types element by element *)
Elementwise ==
  /\ NamesErased /\ NamesAll /\ NamesOnce /\ UidCounted /\ UidOrdered
  /\ Len(m_vector) \in Nat /\ DOMAIN m_vector = 1 .. Len(m_vector)
  /\ Len(m_free) \in Nat /\ DOMAIN m_free = 1 .. Len(m_free)
  /\ Len(since) = Len(m_vector) /\ DOMAIN since = 1 .. Len(m_vector)
  /\ \A i \in 1 .. Len(m_free) : m_free[i] \in Nat
  /\ \A n \in 1 .. Len(m_vector) : m_vector[n] \in Nat /\ since[n] \in Nat
  /\ m_active_count \in Int /\ emplaced \in Nat

(* The invariant, in terms of the elements of the sequences. *)
LEMMA UidElements ==
  ASSUME UidInv
  PROVE  Elementwise
<1>1. NamesErased /\ NamesAll /\ NamesOnce /\ UidCounted /\ UidOrdered
  BY DEF UidInv
<1>2. /\ m_vector \in Seq(Nat) /\ m_free \in Seq(Nat) /\ since \in Seq(Nat)
      /\ Len(since) = Len(m_vector) /\ m_active_count \in Int /\ emplaced \in Nat
  BY DEF UidInv, UidTyped
<1>3. Len(m_vector) \in Nat /\ DOMAIN m_vector = 1 .. Len(m_vector)
  BY <1>2, LenProperties
<1>4. Len(m_free) \in Nat /\ DOMAIN m_free = 1 .. Len(m_free)
  BY <1>2, LenProperties
<1>5. Len(since) = Len(m_vector) /\ DOMAIN since = 1 .. Len(m_vector)
  BY <1>2, LenProperties
<1>6. \A i \in 1 .. Len(m_free) : m_free[i] \in Nat
  BY <1>2, ElementOfSeq
<1>7. \A n \in 1 .. Len(m_vector) : m_vector[n] \in Nat /\ since[n] \in Nat
  BY <1>2, ElementOfSeq
<1> QED BY <1>1, <1>2, <1>3, <1>4, <1>5, <1>6, <1>7 DEF Elementwise

(* The freelist of such a state is exact. *)
LEMMA InvExact == UidInv => FreelistExact
<1> SUFFICES ASSUME UidInv PROVE FreelistExact
  OBVIOUS
<1>00. m_vector \in Seq(Nat) /\ m_free \in Seq(Nat) /\ since \in Seq(Nat)
  BY DEF UidInv, UidTyped
<1>0. Elementwise
  BY UidElements
<1> USE <1>0 DEF Elementwise
<1>1. DOMAIN m_free = 1 .. Len(m_free)
  BY LenProperties
<1>2. \A i \in 1 .. Len(m_free) : m_free[i] \in Empty
  BY DEF Empty, NamesErased
<1>3. \A uid \in Empty : \E i \in 1 .. Len(m_free) : m_free[i] = uid
  <2> SUFFICES ASSUME NEW uid \in Empty PROVE \E i \in 1 .. Len(m_free) : m_free[i] = uid
    OBVIOUS
  <2>1. PICK n \in 1 .. Len(m_vector) : n = uid + 1 /\ m_vector[n] = 0 /\ n - 1 = uid
    BY DEF Empty
  <2> QED BY <2>1 DEF NamesAll
<1>4. {m_free[i] : i \in DOMAIN m_free} = Empty
  BY <1>1, <1>2, <1>3
<1>5. QED BY <1>1, <1>4 DEF FreelistExact, NamesOnce, UidCounted

(* With few free uids an element gets one that was never given. *)
LEMMA EmplaceNew ==
  ASSUME UidInv, Emplace, Len(m_free) < ReuseThreshold
  PROVE  UidInv'
<1>00. m_vector \in Seq(Nat) /\ m_free \in Seq(Nat) /\ since \in Seq(Nat)
  BY DEF UidInv, UidTyped
<1>0. Elementwise
  BY UidElements
<1> USE <1>0 DEF Elementwise
<1>1. /\ m_vector' = Append(m_vector, emplaced + 1)
      /\ since' = Append(since, 0)
      /\ m_free' = m_free
      /\ emplaced' = emplaced + 1
      /\ m_active_count' = m_active_count + 1
  BY DEF Emplace
<1>2. /\ m_vector' \in Seq(Nat) /\ Len(m_vector') = Len(m_vector) + 1
      /\ \A n \in 1 .. Len(m_vector) : m_vector'[n] = m_vector[n]
      /\ m_vector'[Len(m_vector) + 1] = emplaced + 1
  BY <1>1, <1>00, emplaced + 1 \in Nat, AppendProperties
<1>3. /\ since' \in Seq(Nat) /\ Len(since') = Len(since) + 1
      /\ \A n \in 1 .. Len(m_vector) : since'[n] = since[n]
  BY <1>1, <1>00, 0 \in Nat, AppendProperties
<1>4. UidTyped'
  BY <1>00, <1>1, <1>2, <1>3 DEF UidTyped
<1>5. NamesErased' /\ UidOrdered'
  BY <1>1, <1>2, <1>3, SMTT(30) DEF NamesErased, UidOrdered
<1>6. NamesAll'
  <2> SUFFICES ASSUME NEW n \in 1 .. Len(m_vector'), m_vector'[n] = 0
               PROVE  \E i \in 1 .. Len(m_free) : m_free[i] = n - 1
    BY <1>1 DEF NamesAll
  <2>1. n \in 1 .. Len(m_vector) /\ m_vector[n] = 0
    BY <1>2
  <2> QED BY <2>1 DEF NamesAll
<1>7. NamesOnce' /\ UidCounted'
  BY <1>1, <1>2 DEF NamesOnce, UidCounted
<1>8. QED BY <1>4, <1>5, <1>6, <1>7 DEF UidInv

(* With many it gets the one that has been free longest. *)
LEMMA EmplaceReused ==
  ASSUME UidInv, Emplace, ~(Len(m_free) < ReuseThreshold)
  PROVE  /\ UidInv'
         /\ since[Head(m_free) + 1] >= ReuseThreshold - 1
         /\ \A n \in 1 .. Len(m_vector) : n # Head(m_free) + 1 => m_vector'[n] = m_vector[n]
<1>00. m_vector \in Seq(Nat) /\ m_free \in Seq(Nat) /\ since \in Seq(Nat)
  BY DEF UidInv, UidTyped
<1>0. Elementwise
  BY UidElements
<1> USE <1>0, UidAssumption DEF Elementwise
<1> DEFINE uid == Head(m_free)
<1>1. /\ m_vector' = [m_vector EXCEPT ![uid + 1] = emplaced + 1]
      /\ m_free' = Tail(m_free)
      /\ since' = since
      /\ emplaced' = emplaced + 1
      /\ m_active_count' = m_active_count + 1
  BY DEF Emplace
<1>2. m_free # <<>> /\ Len(m_free) >= 1 /\ uid = m_free[1]
  BY <1>00
<1>3. /\ m_free' \in Seq(Nat)
      /\ Len(m_free') = Len(m_free) - 1
      /\ \A i \in 1 .. Len(m_free') : m_free'[i] = m_free[i + 1]
  BY <1>00, <1>1, <1>2, HeadTailProperties
<1>4. uid \in Nat /\ uid + 1 \in 1 .. Len(m_vector)
  BY <1>2 DEF NamesErased
<1>5. /\ m_vector' \in Seq(Nat) /\ Len(m_vector') = Len(m_vector)
      /\ \A n \in 1 .. Len(m_vector) :
           m_vector'[n] = IF n = uid + 1 THEN emplaced + 1 ELSE m_vector[n]
  BY <1>1, <1>4, <1>00, emplaced + 1 \in Nat, ExceptSeq
<1>6. UidTyped'
  BY <1>00, <1>1, <1>3, <1>5 DEF UidTyped
<1>7. NamesErased'
  <2> SUFFICES ASSUME NEW i \in 1 .. Len(m_free')
               PROVE  /\ m_free'[i] + 1 \in 1 .. Len(m_vector')
                      /\ m_vector'[m_free'[i] + 1] = 0
    BY DEF NamesErased
  <2>1. i + 1 \in 1 .. Len(m_free) /\ m_free'[i] = m_free[i + 1]
    BY <1>3
  <2>2. m_free[i + 1] # uid
    BY <2>1, <1>2 DEF NamesOnce
  <2>3. PICK n \in 1 .. Len(m_vector) : n = m_free[i + 1] + 1 /\ m_vector[n] = 0
    BY <2>1 DEF NamesErased
  <2>4. n # uid + 1
    BY <2>1, <2>2, <2>3, <1>4
  <2> QED BY <2>1, <2>3, <2>4, <1>5
<1>8. NamesAll'
  <2> SUFFICES ASSUME NEW n \in 1 .. Len(m_vector'), m_vector'[n] = 0
               PROVE  \E i \in 1 .. Len(m_free') : m_free'[i] = n - 1
    BY DEF NamesAll
  <2>1. n \in 1 .. Len(m_vector) /\ n # uid + 1 /\ m_vector[n] = 0
    BY <1>5
  <2>2. PICK i \in 1 .. Len(m_free) : m_free[i] = n - 1
    BY <2>1 DEF NamesAll
  <2>3. i # 1
    BY <2>1, <2>2, <1>2, <1>4
  <2>4. i - 1 \in 1 .. Len(m_free') /\ m_free'[i - 1] = n - 1
    BY <2>2, <2>3, <1>3
  <2> QED BY <2>4
<1>9. NamesOnce' /\ UidCounted'
  BY <1>1, <1>3, <1>5 DEF NamesOnce, UidCounted
<1>10. UidOrdered'
  BY <1>1, <1>3 DEF UidOrdered
<1>11. since[uid + 1] >= ReuseThreshold - 1
  <2>1. since[m_free[1] + 1] >= Len(m_free) - 1
    BY <1>2 DEF UidOrdered
  <2>2. since[uid + 1] \in Nat
    BY <1>4
  <2> QED BY <2>1, <2>2, <1>2
<1>12. QED BY <1>5, <1>6, <1>7, <1>8, <1>9, <1>10, <1>11 DEF UidInv

(* erase puts the uid at the end of the freelist and shows no element. *)
LEMMA EraseKeeps ==
  ASSUME UidInv, NEW uid \in Nat, Erase(uid)
  PROVE  /\ UidInv'
         /\ \A n \in 1 .. Len(m_vector) : m_vector[n] = 0 => m_vector'[n] = 0
<1>00. m_vector \in Seq(Nat) /\ m_free \in Seq(Nat) /\ since \in Seq(Nat)
  BY DEF UidInv, UidTyped
<1>0. Elementwise
  BY UidElements
<1> USE <1>0 DEF Elementwise
<1>1. /\ uid + 1 \in 1 .. Len(m_vector) /\ m_vector[uid + 1] # 0
      /\ m_free' = Append(m_free, uid)
      /\ m_vector' = [m_vector EXCEPT ![uid + 1] = 0]
      /\ m_active_count' = m_active_count - 1
      /\ since' = [u \in DOMAIN since |-> IF u = uid + 1 THEN 0 ELSE since[u] + 1]
      /\ emplaced' = emplaced
  BY DEF Erase
<1>2. /\ m_vector' \in Seq(Nat) /\ Len(m_vector') = Len(m_vector)
      /\ \A n \in 1 .. Len(m_vector) : m_vector'[n] = IF n = uid + 1 THEN 0 ELSE m_vector[n]
  BY <1>00, <1>1, 0 \in Nat, ExceptSeq
<1>3. /\ m_free' \in Seq(Nat) /\ Len(m_free') = Len(m_free) + 1
      /\ \A i \in 1 .. Len(m_free) : m_free'[i] = m_free[i]
      /\ m_free'[Len(m_free) + 1] = uid
  BY <1>00, <1>1, AppendProperties
<1>4. DOMAIN since = 1 .. Len(since)
  BY LenProperties
<1>5. /\ since' \in Seq(Nat) /\ Len(since') = Len(since)
      /\ \A n \in 1 .. Len(since) : since'[n] = IF n = uid + 1 THEN 0 ELSE since[n] + 1
  <2>1. \A n \in 1 .. Len(since) : (IF n = uid + 1 THEN 0 ELSE since[n] + 1) \in Nat
    BY <1>1
  <2>2. since' = [n \in 1 .. Len(since) |-> IF n = uid + 1 THEN 0 ELSE since[n] + 1]
    BY <1>1, <1>4
  <2> QED BY <2>1, <2>2
<1>6. UidTyped'
  BY <1>1, <1>2, <1>3, <1>5 DEF UidTyped
<1>7. \A i \in 1 .. Len(m_free) : m_free[i] # uid
  BY <1>1 DEF NamesErased
<1>8. NamesErased'
  <2> SUFFICES ASSUME NEW i \in 1 .. Len(m_free')
               PROVE  /\ m_free'[i] + 1 \in 1 .. Len(m_vector')
                      /\ m_vector'[m_free'[i] + 1] = 0
    BY DEF NamesErased
  <2>1. CASE i = Len(m_free) + 1
    BY <2>1, <1>1, <1>2, <1>3
  <2>2. CASE i \in 1 .. Len(m_free)
    <3>1. m_free[i] \in Nat /\ m_free[i] < Len(m_vector) /\ m_vector[m_free[i] + 1] = 0
      BY <2>2 DEF NamesErased
    <3>2. m_free'[i] = m_free[i]
      BY <2>2, <1>3
    <3> QED BY <3>1, <3>2, <1>2, SMTT(30)
  <2> QED BY <2>1, <2>2, <1>3
<1>9. NamesAll'
  <2> SUFFICES ASSUME NEW n \in 1 .. Len(m_vector'), m_vector'[n] = 0
               PROVE  \E i \in 1 .. Len(m_free') : m_free'[i] = n - 1
    BY DEF NamesAll
  <2>1. CASE n = uid + 1
    BY <2>1, <1>3
  <2>2. CASE n # uid + 1
    <3>1. PICK i \in 1 .. Len(m_free) : m_free[i] = n - 1
      BY <2>2, <1>2 DEF NamesAll
    <3> QED BY <3>1, <1>3
  <2> QED BY <2>1, <2>2
<1>10. NamesOnce'
  <2> SUFFICES ASSUME NEW i \in 1 .. Len(m_free'), NEW j \in 1 .. Len(m_free'),
                      m_free'[i] = m_free'[j]
               PROVE  i = j
    BY DEF NamesOnce
  <2> QED BY <1>3, <1>7, SMTT(30) DEF NamesOnce
<1>11. UidCounted'
  BY <1>1, <1>2, <1>3 DEF UidCounted
<1>12. UidOrdered'
  <2> SUFFICES ASSUME NEW i \in 1 .. Len(m_free')
               PROVE  since'[m_free'[i] + 1] >= Len(m_free') - i
    BY DEF UidOrdered
  <2>1. CASE i = Len(m_free) + 1
    BY <2>1, <1>1, <1>3, <1>5
  <2>2. CASE i \in 1 .. Len(m_free)
    <3>1. PICK n \in 1 .. Len(m_vector) :
            n = m_free[i] + 1 /\ n # uid + 1 /\ since[n] >= Len(m_free) - i
      BY <2>2, <1>7 DEF NamesErased, UidOrdered
    <3>2. since'[n] = since[n] + 1
      BY <3>1, <1>5
    <3>3. since'[n] >= Len(m_free') - i
      BY <3>2, <3>1, <2>2, <1>3, SMTT(30)
    <3> QED BY <3>1, <3>3, <2>2, <1>3
  <2> QED BY <2>1, <2>2, <1>3
<1>13. QED BY <1>2, <1>6, <1>8, <1>9, <1>10, <1>11, <1>12 DEF UidInv

(* The empty vector satisfies the invariant. *)
LEMMA UidInitInv == UidInit => UidInv
BY DEF UidInit, UidInv, UidTyped, NamesErased, NamesAll, NamesOnce, UidCounted, UidOrdered

(* Every call keeps the invariant, and a uid is given again late only. *)
LEMMA UidStepInv ==
  ASSUME UidInv, [UidNext]_uidVars
  PROVE  /\ UidInv'
         /\ \A uid \in Empty : m_vector'[uid + 1] # 0 => since[uid + 1] >= ReuseThreshold - 1
<1>1. \A uid \in Empty : uid + 1 \in 1 .. Len(m_vector) /\ m_vector[uid + 1] = 0
  BY DEF Empty, UidInv, UidTyped
<1>2. CASE Emplace /\ Len(m_free) < ReuseThreshold
  <2>1. m_vector' = Append(m_vector, emplaced + 1)
    BY <1>2 DEF Emplace
  <2>2. \A n \in 1 .. Len(m_vector) : m_vector'[n] = m_vector[n]
    BY <2>1 DEF UidInv, UidTyped
  <2> QED BY <1>1, <1>2, <2>2, EmplaceNew
<1>3. CASE Emplace /\ ~(Len(m_free) < ReuseThreshold)
  <2>1. /\ UidInv' /\ since[Head(m_free) + 1] >= ReuseThreshold - 1
        /\ \A n \in 1 .. Len(m_vector) : n # Head(m_free) + 1 => m_vector'[n] = m_vector[n]
    BY <1>3, EmplaceReused
  <2> QED BY <1>1, <2>1
<1>4. CASE \E uid \in 0 .. MaxEmplaced : Erase(uid)
  <2>1. PICK uid \in Nat : Erase(uid)
    BY <1>4
  <2> QED BY <1>1, <2>1, EraseKeeps
<1>5. CASE UNCHANGED uidVars
  BY <1>1, <1>5 DEF uidVars, UidInv, UidTyped, NamesErased, NamesAll, NamesOnce, UidCounted, UidOrdered
<1>6. QED BY <1>2, <1>3, <1>4, <1>5 DEF UidNext

(* For every threshold and however many elements come and go, the freelist *)
(* names each erased uid once and nothing else: emplace_back never gives   *)
(* the uid of a live element to another one (UidVector.h).                 *)
THEOREM FreelistIsExact ==
  UidSpec => []FreelistExact
<1>1. UidInit => UidInv
  BY UidInitInv
<1>2. UidInv /\ [UidNext]_uidVars => UidInv'
  BY UidStepInv
<1>3. UidInv => FreelistExact
  BY InvExact
<1>4. QED BY <1>1, <1>2, <1>3, PTL DEF UidSpec

(* A uid that is given again has seen at least reuse_threshold - 1 others  *)
(* erased since its own element was.                                       *)
THEOREM ReuseIsLate ==
  UidSpec => LateReuse
<1> DEFINE Late ==
  \A uid \in Empty : m_vector'[uid + 1] # 0 => since[uid + 1] >= ReuseThreshold - 1
<1>1. UidInit => UidInv
  BY UidInitInv
<1>2. UidInv /\ [UidNext]_uidVars => UidInv' /\ Late
  BY UidStepInv
<1>3. QED BY <1>1, <1>2, PTL DEF UidSpec, LateReuse

(***************************************************************************)
(* Numbers                                                                 *)
(***************************************************************************)

(* a division *)
LEMMA Division ==
  ASSUME NEW a \in Nat, NEW n \in Nat \ {0}
  PROVE  /\ a \div n \in Nat /\ a % n \in 0 .. n - 1
         /\ a = n * (a \div n) + (a % n)
         /\ a < n => a % n = a
<1>1. a \div n \in Nat
  OBVIOUS
<1>2. a % n \in 0 .. n - 1
  OBVIOUS
<1>3. a = n * (a \div n) + (a % n)
  OBVIOUS
<1>4. a < n => a % n = a
  OBVIOUS
<1> QED BY <1>1, <1>2, <1>3, <1>4

(* the smaller of two numbers *)
LEMMA MinOfTwo ==
  ASSUME NEW a \in Nat, NEW b \in Nat
  PROVE  Min({a, b}) = IF a <= b THEN a ELSE b
<1>1. Min({a, b}) \in {a, b} /\ \A y \in {a, b} : Min({a, b}) <= y
  <2>1. \E x \in {a, b} : \A y \in {a, b} : x <= y
    OBVIOUS
  <2> QED BY <2>1 DEF Min
<1> QED BY <1>1

(* a product grows with its factors *)
LEMMA Times ==
  ASSUME NEW n \in Nat, NEW a \in Nat, NEW b \in Nat
  PROVE  /\ n * a \in Nat /\ n * (a + b) = n * a + n * b /\ a * n = n * a
         /\ a <= b => n * a <= n * b
<1>1. n * a \in Nat
  OBVIOUS
<1>2. n * (a + b) = n * a + n * b
  OBVIOUS
<1>3. a * n = n * a
  OBVIOUS
<1>4. ASSUME a <= b PROVE n * a <= n * b
  <2>1. PICK c \in Nat : b = a + c
    BY <1>4, b - a \in Nat
  <2>2. n * (a + c) = n * a + n * c /\ n * a \in Nat /\ n * c \in Nat
    OBVIOUS
  <2> QED BY <2>1, <2>2
<1> QED BY <1>1, <1>2, <1>3, <1>4

(* The quotient is the only number of whole parts. *)
LEMMA Quotient ==
  ASSUME NEW n \in Nat \ {0}, NEW a \in Nat, NEW r \in 0 .. n - 1
  PROVE  (n * a + r) \div n = a /\ (n * a + r) % n = r
<1> DEFINE t == n * a + r
           q == t \div n
           e == t % n
<1>1. n * a \in Nat
  BY Times
<1>2. t \in Nat
  BY <1>1
<1>3. q \in Nat /\ e \in 0 .. n - 1 /\ t = n * q + e
  <2> HIDE DEF t
  <2> QED BY <1>2, Division
<1>4. n * q \in Nat
  BY <1>3, Times
<1> HIDE DEF q, e
<1>5. q >= a
  <2> SUFFICES ASSUME q + 1 <= a PROVE FALSE
    BY <1>3
  <2>1. n * (q + 1) <= n * a
    BY <1>3, Times
  <2>2. n * (q + 1) = n * q + n
    BY <1>3
  <2> QED BY <1>1, <1>3, <1>4, <2>1, <2>2
<1>6. q <= a
  <2> SUFFICES ASSUME a + 1 <= q PROVE FALSE
    BY <1>3
  <2>1. n * (a + 1) <= n * q
    BY <1>3, Times
  <2>2. n * (a + 1) = n * a + n
    OBVIOUS
  <2> QED BY <1>1, <1>3, <1>4, <2>1, <2>2
<1>7. q = a
  BY <1>3, <1>5, <1>6
<1>8. e = r
  BY <1>1, <1>3, <1>7
<1> QED BY <1>7, <1>8 DEF q, e

(* a set of numbers has a smallest *)
LEMMA Least ==
  ASSUME NEW S \in SUBSET Nat, S # {}
  PROVE  Min(S) \in S /\ \A y \in S : Min(S) <= y
<1>1. PICK R : R = OpToRel(<, Nat)
  OBVIOUS
<1>2. IsWellFoundedOn(R, Nat)
  BY <1>1, NatLessThanWellFounded
<1>3. \A m, n \in Nat : m < n => <<m, n>> \in R
  BY <1>1 DEF OpToRel
<1>4. PICK x \in S : \A y \in S : ~ (<<y, x>> \in R)
  BY <1>2, WFMin
<1>5. ASSUME NEW y \in S PROVE x <= y
  <2>1. x \in Nat /\ y \in Nat /\ ~ (y < x)
    BY <1>3, <1>4
  <2> QED BY <2>1
<1> QED BY <1>5 DEF Min

(***************************************************************************)
(* Sequences of numbers                                                    *)
(***************************************************************************)

(* how long the parts of a concatenation are together *)
LEMMA JoinedLength ==
  ASSUME NEW s \in Seq(Nat), NEW t \in Seq(Nat)
  PROVE  s \o t \in Seq(Nat) /\ Len(s \o t) = Len(s) + Len(t) /\ Len(s) \in Nat /\ Len(t) \in Nat
  BY ConcatProperties, LenProperties

(* the elements of a concatenation *)
LEMMA JoinedElements ==
  ASSUME NEW s \in Seq(Nat), NEW t \in Seq(Nat)
  PROVE  /\ \A i \in 1 .. Len(s) : (s \o t)[i] = s[i]
         /\ \A i \in 1 .. Len(t) : (s \o t)[Len(s) + i] = t[i]
  BY ConcatProperties, LenProperties

(* A sequence is its first n elements and those after them. *)
LEMMA Split ==
  ASSUME NEW s \in Seq(Nat), NEW n \in 0 .. Len(s)
  PROVE  /\ SubSeq(s, 1, n) \in Seq(Nat) /\ Len(SubSeq(s, 1, n)) = n
         /\ drop_front(s, n) \in Seq(Nat) /\ Len(drop_front(s, n)) = Len(s) - n
         /\ SubSeq(s, 1, n) \o drop_front(s, n) = s
         /\ \A i \in 1 .. n : SubSeq(s, 1, n)[i] = s[i]
         /\ \A i \in 1 .. Len(s) - n : drop_front(s, n)[i] = s[n + i]
<1>1. Len(s) \in Nat /\ n \in Nat /\ \A i \in 1 .. Len(s) : s[i] \in Nat
  BY LenProperties, ElementOfSeq
<1>2. /\ SubSeq(s, 1, n) \in Seq(Nat) /\ Len(SubSeq(s, 1, n)) = n
      /\ \A i \in 1 .. n : SubSeq(s, 1, n)[i] = s[i]
  <2>1. 1 \in Int /\ n \in Int /\ \A i \in 1 .. n : s[i] \in Nat
    BY <1>1
  <2>2. /\ SubSeq(s, 1, n) \in Seq(Nat) /\ Len(SubSeq(s, 1, n)) = IF 1 <= n THEN n - 1 + 1 ELSE 0
        /\ \A i \in 1 .. n - 1 + 1 : SubSeq(s, 1, n)[i] = s[1 + i - 1]
    BY <2>1, SubSeqProperties
  <2> QED BY <1>1, <2>2
<1>3. /\ drop_front(s, n) \in Seq(Nat) /\ Len(drop_front(s, n)) = Len(s) - n
      /\ \A i \in 1 .. Len(s) - n : drop_front(s, n)[i] = s[n + i]
  <2>1. n + 1 \in Int /\ Len(s) \in Int /\ \A i \in n + 1 .. Len(s) : s[i] \in Nat
    BY <1>1
  <2>2. /\ SubSeq(s, n + 1, Len(s)) \in Seq(Nat)
        /\ Len(SubSeq(s, n + 1, Len(s))) = IF n + 1 <= Len(s) THEN Len(s) - (n + 1) + 1 ELSE 0
        /\ \A i \in 1 .. Len(s) - (n + 1) + 1 : SubSeq(s, n + 1, Len(s))[i] = s[n + 1 + i - 1]
    BY <2>1, SubSeqProperties
  <2> QED BY <1>1, <2>2 DEF drop_front
<1>4. SubSeq(s, 1, n) \o drop_front(s, n) = s
  <2> DEFINE p == SubSeq(s, 1, n)
             q == drop_front(s, n)
  <2>1. /\ p \in Seq(Nat) /\ Len(p) = n /\ \A i \in 1 .. n : p[i] = s[i]
        /\ q \in Seq(Nat) /\ Len(q) = Len(s) - n /\ \A i \in 1 .. Len(s) - n : q[i] = s[n + i]
    BY <1>2, <1>3
  <2> HIDE DEF p, q
  <2>2. p \o q \in Seq(Nat) /\ Len(p \o q) = Len(s)
    <3>1. p \o q \in Seq(Nat) /\ Len(p \o q) = Len(p) + Len(q)
      BY <2>1, JoinedLength
    <3> QED BY <1>1, <2>1, <3>1
  <2>3. \A i \in 1 .. Len(s) : (p \o q)[i] = s[i]
    <3> SUFFICES ASSUME NEW i \in 1 .. Len(s) PROVE (p \o q)[i] = s[i]
      OBVIOUS
    <3>1. CASE i <= n
      <4>1. i \in 1 .. Len(p) /\ i \in 1 .. n
        BY <1>1, <2>1, <3>1
      <4>2. (p \o q)[i] = p[i]
        BY <2>1, <4>1, JoinedElements
      <4> QED BY <2>1, <4>1, <4>2
    <3>2. CASE i > n
      <4>1. PICK j \in 1 .. Len(s) - n : i = n + j
        BY <1>1, <3>2, i - n \in 1 .. Len(s) - n
      <4>2. (p \o q)[n + j] = q[j]
        <5>1. j \in 1 .. Len(q)
          BY <2>1
        <5>2. (p \o q)[Len(p) + j] = q[j]
          BY <2>1, <5>1, JoinedElements
        <5> QED BY <2>1, <5>2
      <4>3. q[j] = s[n + j]
        BY <2>1, <4>1
      <4> QED BY <4>1, <4>2, <4>3
    <3>3. i <= n \/ i > n
      BY <1>1
    <3> QED BY <3>1, <3>2, <3>3, Zenon
  <2>4. p \o q = s
    BY <2>2, <2>3, SeqEqual
  <2> QED BY <2>4 DEF p, q
<1> QED BY <1>2, <1>3, <1>4

(* Concatenation is associative, *)
LEMMA Joined ==
  ASSUME NEW s \in Seq(Nat), NEW t \in Seq(Nat), NEW u \in Seq(Nat)
  PROVE  (s \o t) \o u = s \o (t \o u)
  BY ConcatAssociative, SMTT(30)

(* and nothing adds nothing. *)
LEMMA NoneJoined ==
  ASSUME NEW s \in Seq(Nat)
  PROVE  s \o <<>> = s /\ <<>> \o s = s
  BY ConcatEmptySeq

(***************************************************************************)
(* raw_fd_istream: every read is in order                                  *)
(***************************************************************************)

(* While no read has overrun the buffer nothing is doubled and nothing is  *)
(* left out; after that there are more bytes than the file has, and they   *)
(* do not become fewer.                                                    *)
FdInv ==
  /\ file \in Seq(Nat) /\ avail \in Seq(Nat) /\ got \in Seq(Nat)
  /\ overran \in BOOLEAN
  /\ ~overran => got \o avail \o file = [i \in 1 .. FileSize |-> i]
  /\ overran => Len(got) + Len(avail) + Len(file) > FileSize

(* What is copied out of the buffer and what stays there is what was in    *)
(* it, or more when it was not enough.                                     *)
LEMMA CopiedFacts ==
  ASSUME NEW left \in Seq(Nat), left # <<>>, NEW len \in Nat \ {0}
  PROVE  /\ Copied(left, len) \in Seq(Nat) /\ Len(Copied(left, len)) = len
         /\ Left(left, len) \in Seq(Nat) /\ Len(Left(left, len)) \in Nat
         /\ len <= Len(left) => Copied(left, len) \o Left(left, len) = left
         /\ len > Len(left) => len + Len(Left(left, len)) > Len(left)
<1> DEFINE L == Len(left)
<1>1. L \in Nat \ {0} /\ \A i \in 1 .. L : left[i] \in Nat
  BY LenProperties, ElementOfSeq, EmptySeq
<1>2. \A i \in 1 .. len : (i - 1) % L \in 0 .. L - 1 /\ (i <= L => (i - 1) % L = i - 1)
  <2> SUFFICES ASSUME NEW i \in 1 .. len
               PROVE  (i - 1) % L \in 0 .. L - 1 /\ (i <= L => (i - 1) % L = i - 1)
    OBVIOUS
  <2>1. i - 1 \in Nat /\ (i <= L => i - 1 < L)
    BY <1>1
  <2> HIDE DEF L
  <2> QED BY <1>1, <2>1, Division
<1>3. Copied(left, len) \in Seq(Nat) /\ Len(Copied(left, len)) = len
  <2>1. \A i \in 1 .. len : left[1 + ((i - 1) % L)] \in Nat
    <3> SUFFICES ASSUME NEW i \in 1 .. len PROVE left[1 + ((i - 1) % L)] \in Nat
      OBVIOUS
    <3>1. 1 + ((i - 1) % L) \in 1 .. L
      BY <1>1, <1>2
    <3> QED BY <1>1, <3>1
  <2> QED BY <2>1 DEF Copied
<1> DEFINE n == 1 + ((len - 1) % L)
<1>4. n \in 1 .. L /\ (len <= L => n = len)
  <2>1. len \in 1 .. len
    OBVIOUS
  <2>2. (len - 1) % L \in 0 .. L - 1 /\ (len <= L => (len - 1) % L = len - 1)
    BY <1>2, <2>1
  <2> HIDE DEF L
  <2> QED BY <1>1, <2>2
<1>5. /\ Left(left, len) \in Seq(Nat) /\ Len(Left(left, len)) = L - n
      /\ SubSeq(left, 1, n) \in Seq(Nat) /\ Len(SubSeq(left, 1, n)) = n
      /\ SubSeq(left, 1, n) \o Left(left, len) = left
      /\ \A i \in 1 .. n : SubSeq(left, 1, n)[i] = left[i]
  <2>1. n \in 0 .. Len(left) /\ Left(left, len) = drop_front(left, n)
    BY <1>1, <1>4 DEF Left
  <2> HIDE DEF n
  <2> QED BY <2>1, Split
<1>6. ASSUME len <= L
      PROVE  Copied(left, len) \o Left(left, len) = left
  <2>1. n = len
    BY <1>4, <1>6
  <2>2. \A i \in 1 .. len : Copied(left, len)[i] = left[i]
    <3> SUFFICES ASSUME NEW i \in 1 .. len PROVE Copied(left, len)[i] = left[i]
      OBVIOUS
    <3>1. i <= L /\ 1 + (i - 1) = i
      BY <1>1, <1>6
    <3>2. (i - 1) % L = i - 1
      BY <1>2, <3>1
    <3>3. Copied(left, len)[i] = left[1 + ((i - 1) % L)]
      BY DEF Copied
    <3> QED BY <3>1, <3>2, <3>3
  <2>3. Copied(left, len) = SubSeq(left, 1, n)
    BY <1>3, <1>5, <2>1, <2>2, SeqEqual
  <2> QED BY <1>5, <2>3
<1>7. L - n \in Nat /\ (len > L => len + (L - n) > L)
  BY <1>1, <1>4
<1> QED BY <1>3, <1>5, <1>6, <1>7

(* A read that finds left in the buffer, which the file goes on after.     *)
LEMMA TakeKeeps ==
  ASSUME FdInv, NEW left \in Seq(Nat), left # <<>>, NEW len \in Nat \ {0}, Take(left, len),
         file' \in Seq(Nat), left \o file' = avail \o file
  PROVE  FdInv'
<1> DEFINE c == Copied(left, len)
           l == Left(left, len)
<1>1. /\ c \in Seq(Nat) /\ Len(c) = len /\ l \in Seq(Nat) /\ Len(l) \in Nat
      /\ len <= Len(left) => c \o l = left
      /\ len > Len(left) => len + Len(l) > Len(left)
  BY CopiedFacts
<1>2. got' = got \o c /\ avail' = l /\ overran' = (overran \/ len > Len(left))
  BY DEF Take
<1> HIDE DEF c, l
<1>3. /\ file \in Seq(Nat) /\ avail \in Seq(Nat) /\ got \in Seq(Nat) /\ overran \in BOOLEAN
      /\ FileSize \in Nat
  BY FdAssumption DEF FdInv
<1>4. Len(left) + Len(file') = Len(avail) + Len(file) /\ Len(left) \in Nat /\ Len(file') \in Nat
      /\ Len(avail) \in Nat /\ Len(file) \in Nat /\ Len(got) \in Nat
  BY <1>3, JoinedLength
<1>5. got' \in Seq(Nat) /\ Len(got') = Len(got) + len
  BY <1>1, <1>2, <1>3, JoinedLength
<1>6. CASE len <= Len(left)
  <2>1. overran' = overran
    BY <1>2, <1>3, <1>4, <1>6
  <2>2. len + Len(l) = Len(left)
    BY <1>1, <1>6, JoinedLength
  <2>3. (got \o avail) \o file = got \o (avail \o file)
    BY <1>3, Joined, Zenon
  <2>4. (got' \o avail') \o file' = got \o (avail \o file)
    <3>1. (got \o c) \o l = got \o left
      <4>1. c \in Seq(Nat) /\ l \in Seq(Nat) /\ got \in Seq(Nat)
        BY <1>1, <1>3
      <4>2. (got \o c) \o l = got \o (c \o l)
        BY <4>1, Joined, Zenon
      <4> QED BY <1>1, <1>6, <4>2
    <3>2. (got \o left) \o file' = got \o (left \o file')
      BY <1>3, Joined, ZenonT(30)
    <3> QED BY <1>2, <3>1, <3>2
  <2>5. Len(got') + Len(avail') + Len(file') = Len(got) + Len(avail) + Len(file)
    <3>1. Len(avail') = Len(l)
      BY <1>2
    <3>2. Len(l) \in Nat /\ Len(got') = Len(got) + len
      BY <1>1, <1>5
    <3>3. (Len(got) + len) + Len(l) + Len(file') = Len(got) + Len(avail) + Len(file)
      <4>1. len + Len(l) + Len(file') = Len(avail) + Len(file)
        BY <1>4, <2>2
      <4>2. (Len(got) + len) + Len(l) + Len(file') = Len(got) + (len + Len(l) + Len(file'))
        BY <1>4, <3>2
      <4>3. Len(got) + (Len(avail) + Len(file)) = Len(got) + Len(avail) + Len(file)
        BY <1>4
      <4> QED BY <4>1, <4>2, <4>3
    <3> QED BY <3>1, <3>2, <3>3
  <2>6. ~overran => got' \o avail' \o file' = [i \in 1 .. FileSize |-> i]
    BY <2>3, <2>4 DEF FdInv
  <2>7. overran => Len(got') + Len(avail') + Len(file') > FileSize
    BY <2>5 DEF FdInv
  <2> QED BY <1>1, <1>2, <1>3, <1>5, <2>1, <2>6, <2>7 DEF FdInv
<1>7. CASE len > Len(left)
  <2>1. overran'
    BY <1>2, <1>7
  <2>2. Len(got) + Len(avail) + Len(file) >= FileSize
    <3>1. CASE overran
      BY <1>3, <1>4, <3>1 DEF FdInv
    <3>2. CASE ~overran
      <4>1. Len(got \o avail \o file) = Len(got) + Len(avail) + Len(file)
        <5>1. got \o avail \in Seq(Nat) /\ Len(got \o avail) = Len(got) + Len(avail)
          BY <1>3, JoinedLength
        <5> QED BY <1>3, <5>1, JoinedLength
      <4>2. Len([i \in 1 .. FileSize |-> i]) = FileSize
        BY <1>3
      <4> QED BY <1>3, <1>4, <3>2, <4>1, <4>2 DEF FdInv
    <3> QED BY <3>1, <3>2
  <2>3. Len(got') + Len(avail') + Len(file') > FileSize
    BY <1>1, <1>2, <1>3, <1>4, <1>5, <1>7, <2>2
  <2> QED BY <1>1, <1>2, <1>3, <1>5, <2>1, <2>3 DEF FdInv
<1> QED BY <1>1, <1>4, <1>6, <1>7

(* A buffer that is filled is a first part of the file. *)
LEMMA ReadFileKeeps ==
  ASSUME FdInv, NEW len \in Nat \ {0}, ReadFile(len)
  PROVE  FdInv'
<1>1. file \in Seq(Nat) /\ Len(file) \in Nat /\ BufSize \in Nat /\ avail = <<>>
  BY FdAssumption, LenProperties DEF FdInv, ReadFile
<1>2. PICK n \in 1 .. Min({BufSize, Len(file)}) :
        Take(SubSeq(file, 1, n), len) /\ file' = drop_front(file, n)
  BY DEF ReadFile
<1>3. n \in 1 .. Len(file) /\ n \in 0 .. Len(file)
  BY <1>1, MinOfTwo
<1>4. /\ SubSeq(file, 1, n) \in Seq(Nat) /\ Len(SubSeq(file, 1, n)) = n
      /\ file' \in Seq(Nat) /\ SubSeq(file, 1, n) \o file' = file
  <2>1. file' = drop_front(file, n)
    BY <1>2
  <2>2. file \in Seq(Nat) /\ n \in 0 .. Len(file)
    BY <1>1, <1>3
  <2>3. SubSeq(file, 1, n) \in Seq(Nat) /\ Len(SubSeq(file, 1, n)) = n
    BY <2>2, Split
  <2>4. drop_front(file, n) \in Seq(Nat) /\ SubSeq(file, 1, n) \o drop_front(file, n) = file
    BY <2>2, Split
  <2>5. file' \in Seq(Nat) /\ SubSeq(file, 1, n) \o file' = file
    BY <2>1, <2>4
  <2> QED BY <2>3, <2>5
<1>5. SubSeq(file, 1, n) # <<>>
  <2>1. Len(SubSeq(file, 1, n)) # 0
    BY <1>3, <1>4
  <2> QED BY <1>4, <2>1, EmptySeq
<1>6. avail \o file = file
  BY <1>1, NoneJoined
<1> QED BY <1>2, <1>4, <1>5, <1>6, TakeKeeps

(* Every read keeps the invariant. *)
LEMMA FdStepInv ==
  ASSUME FdInv, [FdNext]_fdVars
  PROVE  FdInv'
<1>1. file \in Seq(Nat) /\ avail \in Seq(Nat)
  BY DEF FdInv
<1>2. ASSUME NEW len \in 1 .. MaxRead
      PROVE  len \in Nat \ {0}
  BY FdAssumption
<1>3. ASSUME NEW len \in 1 .. MaxRead, ReadFile(len)
      PROVE  FdInv'
  BY <1>2, <1>3, ReadFileKeeps
<1>4. ASSUME NEW len \in 1 .. MaxRead, ReadBuffer(len)
      PROVE  FdInv'
  <2>1. avail # <<>> /\ Take(avail, len) /\ file' = file
    BY <1>4 DEF ReadBuffer
  <2> QED BY <1>1, <1>2, <2>1, TakeKeeps
<1>5. ASSUME NEW len \in 1 .. MaxRead, Readsome(len)
      PROVE  FdInv'
  <2> DEFINE n == Min({len, Len(avail)})
  <2>1. avail # <<>> /\ Take(avail, n) /\ file' = file
    BY <1>5 DEF Readsome
  <2>2. Len(avail) \in Nat \ {0}
    BY <1>1, <2>1, LenProperties, EmptySeq
  <2>3. n \in Nat \ {0}
    BY <1>2, <2>2, MinOfTwo
  <2> HIDE DEF n
  <2> QED BY <1>1, <2>1, <2>3, TakeKeeps
<1>6. CASE ReadFails
  BY <1>6 DEF ReadFails, FdInv
<1>7. CASE UNCHANGED fdVars
  BY <1>7 DEF fdVars, FdInv
<1> QED BY <1>3, <1>4, <1>5, <1>6, <1>7 DEF FdNext

(* The bytes of the file come in order, each once, as long as no read has  *)
(* asked for more than the buffer then held, and no longer: for files,     *)
(* buffers and reads of every size (raw_istream.cpp:128).                  *)
THEOREM ReadsAreInOrder ==
  FdSpec => []InOrderUnlessOverran
<1>1. FdInit => FdInv
  <2> SUFFICES ASSUME FdInit PROVE FdInv
    OBVIOUS
  <2> DEFINE all == [i \in 1 .. FileSize |-> i]
  <2>1. all \in Seq(Nat) /\ <<>> \in Seq(Nat)
    BY FdAssumption, EmptySeq
  <2>2. file = all /\ avail = <<>> /\ got = <<>> /\ overran = FALSE
    BY DEF FdInit
  <2> HIDE DEF all
  <2>3. (got \o avail) \o file = all
    BY <2>1, <2>2, NoneJoined
  <2> QED BY <2>1, <2>2, <2>3 DEF FdInv, all
<1>2. FdInv /\ [FdNext]_fdVars => FdInv'
  BY FdStepInv
<1>3. FdInv => InOrderUnlessOverran
  <2> SUFFICES ASSUME FdInv, overran
               PROVE  got \o avail \o file # [i \in 1 .. FileSize |-> i]
    BY DEF FdInv, InOrderUnlessOverran
  <2>1. file \in Seq(Nat) /\ avail \in Seq(Nat) /\ got \in Seq(Nat) /\ FileSize \in Nat
    BY FdAssumption DEF FdInv
  <2>2. Len(got \o avail \o file) = Len(got) + Len(avail) + Len(file)
    <3>1. got \o avail \in Seq(Nat) /\ Len(got \o avail) = Len(got) + Len(avail)
      BY <2>1, JoinedLength
    <3> QED BY <2>1, <3>1, JoinedLength
  <2>3. Len([i \in 1 .. FileSize |-> i]) = FileSize
    BY <2>1
  <2> QED BY <2>1, <2>2, <2>3 DEF FdInv
<1> QED BY <1>1, <1>2, <1>3, PTL DEF FdSpec

(***************************************************************************)
(* SHA1: what is compressed is what was written, padded, in whole blocks   *)
(***************************************************************************)

(* where block b lies in a sequence of k blocks *)
LEMMA Within ==
  ASSUME NEW k \in Nat, NEW b \in 1 .. k
  PROVE  /\ BlockBytes \in Nat /\ BlockBytes >= 2
         /\ (b - 1) * BlockBytes \in Nat
         /\ b * BlockBytes = (b - 1) * BlockBytes + BlockBytes
         /\ b * BlockBytes <= k * BlockBytes /\ k * BlockBytes \in Nat
         /\ (b - 1) * BlockBytes + 1 \in Nat /\ b * BlockBytes \in Nat
         /\ 1 <= (b - 1) * BlockBytes + 1
         /\ (b - 1) * BlockBytes + 1 <= b * BlockBytes
<1>1. BlockBytes \in Nat /\ BlockBytes >= 2
  BY ShaAssumption
<1>2. b - 1 \in Nat /\ b \in Nat /\ b <= k
  OBVIOUS
<1>3. (b - 1) * BlockBytes \in Nat /\ k * BlockBytes \in Nat
  BY <1>1, <1>2, Times
<1>4. b * BlockBytes <= k * BlockBytes
  BY <1>1, <1>2, Times
<1>5. b * BlockBytes = (b - 1) * BlockBytes + BlockBytes
  <2> DEFINE c == b - 1
  <2>1. BlockBytes * (c + 1) = BlockBytes * c + BlockBytes * 1
    BY <1>1, <1>2, Times
  <2>2. (c + 1) * BlockBytes = BlockBytes * (c + 1) /\ c * BlockBytes = BlockBytes * c
    BY <1>1, <1>2, Times
  <2>3. c + 1 = b
    BY <1>2
  <2>4. BlockBytes * 1 = BlockBytes
    BY <1>1
  <2> QED BY <2>1, <2>2, <2>3, <2>4
<1>6. /\ (b - 1) * BlockBytes + 1 \in Nat /\ b * BlockBytes \in Nat
      /\ 1 <= (b - 1) * BlockBytes + 1
      /\ (b - 1) * BlockBytes + 1 <= b * BlockBytes
  <2> DEFINE c == (b - 1) * BlockBytes
  <2> HIDE DEF c
  <2>1. c \in Nat /\ b * BlockBytes = c + BlockBytes
    BY <1>3, <1>5 DEF c
  <2>2. c + BlockBytes \in Nat /\ c + 1 \in Nat /\ 1 <= c + 1 /\ c + 1 <= c + BlockBytes
    BY <1>1, <2>1
  <2> QED BY <2>1, <2>2 DEF c
<1> QED BY <1>1, <1>3, <1>4, <1>5, <1>6

(* a piece of a sequence *)
LEMMA Piece ==
  ASSUME NEW s, NEW m \in Int, NEW n \in Int, m <= n, \A i \in m .. n : s[i] \in Nat
  PROVE  /\ SubSeq(s, m, n) \in Seq(Nat) /\ Len(SubSeq(s, m, n)) = n - m + 1
         /\ \A i \in 1 .. n - m + 1 : SubSeq(s, m, n)[i] = s[m + i - 1]
  BY SubSeqProperties

(* Two pieces are the same if their elements are. *)
LEMMA SamePiece ==
  ASSUME NEW s \in Seq(Nat), NEW t \in Seq(Nat), Len(s) = Len(t),
         \A i \in 1 .. Len(s) : s[i] = t[i]
  PROVE  s = t
  BY SeqEqual

(* The blocks of a first part are the blocks of the whole, *)
LEMMA NthLeft ==
  ASSUME NEW p \in Seq(Nat), NEW q \in Seq(Nat), NEW k \in Nat, NEW b \in 1 .. k,
         Len(p) = k * BlockBytes
  PROVE  Nth(p \o q, b) = Nth(p, b)
<1> DEFINE m == (b - 1) * BlockBytes + 1
           n == b * BlockBytes
<1>1. m \in Nat /\ n \in Nat /\ 1 <= m /\ m <= n /\ n <= Len(p)
  <2> HIDE DEF m, n
  <2> QED BY Within DEF m, n
<1> HIDE DEF m, n
<1>2. m \in Int /\ n \in Int /\ m <= n /\ 1 <= m
  BY <1>1
<1>3. Len(p) \in Nat /\ Len(p \o q) = Len(p) + Len(q) /\ Len(q) \in Nat
  BY JoinedLength
<1>4. \A i \in m .. n : (p \o q)[i] = p[i] /\ p[i] \in Nat
  <2> SUFFICES ASSUME NEW i \in m .. n PROVE (p \o q)[i] = p[i] /\ p[i] \in Nat
    OBVIOUS
  <2>1. i \in 1 .. Len(p)
    BY <1>1, <1>3
  <2> QED BY <2>1, JoinedElements, ElementOfSeq
<1>5. SubSeq(p \o q, m, n) = SubSeq(p, m, n)
  <2>1. /\ SubSeq(p, m, n) \in Seq(Nat) /\ Len(SubSeq(p, m, n)) = n - m + 1
        /\ \A i \in 1 .. n - m + 1 : SubSeq(p, m, n)[i] = p[m + i - 1]
    BY <1>2, <1>4, SubSeqProperties
  <2>2. /\ SubSeq(p \o q, m, n) \in Seq(Nat) /\ Len(SubSeq(p \o q, m, n)) = n - m + 1
        /\ \A i \in 1 .. n - m + 1 : SubSeq(p \o q, m, n)[i] = (p \o q)[m + i - 1]
    <3>1. \A i \in m .. n : (p \o q)[i] \in Nat
      BY <1>4
    <3> QED BY <1>2, <3>1, Piece, Zenon
  <2>3. \A i \in 1 .. n - m + 1 : m + i - 1 \in m .. n
    BY <1>2
  <2> QED BY <1>4, <2>1, <2>2, <2>3, SeqEqual
<1> QED BY <1>5 DEF Nth, m, n

(* those of the part after k blocks follow, *)
LEMMA NthRight ==
  ASSUME NEW p \in Seq(Nat), NEW q \in Seq(Nat), NEW k \in Nat, NEW j \in Nat, NEW b \in 1 .. j,
         Len(p) = k * BlockBytes, Len(q) = j * BlockBytes
  PROVE  Nth(p \o q, k + b) = Nth(q, b)
<1> DEFINE m == (b - 1) * BlockBytes + 1
           n == b * BlockBytes
           L == k * BlockBytes
<1>1. m \in Nat /\ n \in Nat /\ 1 <= m /\ m <= n /\ n <= Len(q)
  <2> HIDE DEF m, n
  <2> QED BY Within DEF m, n
<1>2. L \in Nat /\ ((k + b) - 1) * BlockBytes + 1 = L + m /\ (k + b) * BlockBytes = L + n
  <2>1. b - 1 \in Nat /\ b \in Nat /\ BlockBytes \in Nat
    BY Within
  <2>2. L = BlockBytes * k /\ L \in Nat
    BY <2>1, Times
  <2>3. n = BlockBytes * b /\ (b - 1) * BlockBytes = BlockBytes * (b - 1)
    BY <2>1, Times
  <2>4. (k + b) * BlockBytes = L + n
    <3>1. (k + b) * BlockBytes = BlockBytes * (k + b) /\ k + b \in Nat
      BY <2>1, Times
    <3>2. BlockBytes * (k + b) = BlockBytes * k + BlockBytes * b
      BY <2>1, Times
    <3> QED BY <2>2, <2>3, <3>1, <3>2
  <2>5. ((k + b) - 1) * BlockBytes = L + (b - 1) * BlockBytes
    <3> DEFINE c == b - 1
    <3>0. c \in Nat /\ (k + b) - 1 = k + c
      BY <2>1
    <3>1. (k + c) * BlockBytes = BlockBytes * (k + c) /\ k + c \in Nat
      BY <2>1, <3>0, Times
    <3>2. BlockBytes * (k + c) = BlockBytes * k + BlockBytes * c
      BY <2>1, <3>0, Times
    <3>3. c * BlockBytes = BlockBytes * c
      BY <2>3
    <3> QED BY <2>2, <3>0, <3>1, <3>2, <3>3
  <2>6. (b - 1) * BlockBytes \in Nat
    BY Within
  <2> QED BY <2>2, <2>4, <2>5, <2>6
<1> HIDE DEF m, n, L
<1>3. Len(p) = L
  BY DEF L
<1>4. Len(p) \in Nat /\ Len(p \o q) = L + Len(q) /\ Len(q) \in Nat
  BY <1>3, JoinedLength
<1>5. \A i \in m .. n : (p \o q)[L + i] = q[i] /\ q[i] \in Nat
  <2> SUFFICES ASSUME NEW i \in m .. n PROVE (p \o q)[L + i] = q[i] /\ q[i] \in Nat
    OBVIOUS
  <2>1. i \in 1 .. Len(q)
    BY <1>1, <1>4
  <2>2. (p \o q)[Len(p) + i] = q[i]
    BY <2>1, JoinedElements
  <2> QED BY <1>3, <2>1, <2>2, ElementOfSeq
<1>6. SubSeq(p \o q, L + m, L + n) = SubSeq(q, m, n)
  <2>1. /\ SubSeq(q, m, n) \in Seq(Nat) /\ Len(SubSeq(q, m, n)) = n - m + 1
        /\ \A i \in 1 .. n - m + 1 : SubSeq(q, m, n)[i] = q[m + i - 1]
    BY <1>1, <1>5, SubSeqProperties
  <2>2. \A i \in L + m .. L + n : (p \o q)[i] \in Nat
    <3> SUFFICES ASSUME NEW i \in L + m .. L + n PROVE (p \o q)[i] \in Nat
      OBVIOUS
    <3>1. PICK c \in m .. n : i = L + c
      BY <1>1, <1>2, i - L \in m .. n
    <3> QED BY <1>5, <3>1
  <2>3. /\ SubSeq(p \o q, L + m, L + n) \in Seq(Nat)
        /\ Len(SubSeq(p \o q, L + m, L + n)) = (L + n) - (L + m) + 1
        /\ \A i \in 1 .. (L + n) - (L + m) + 1 :
             SubSeq(p \o q, L + m, L + n)[i] = (p \o q)[(L + m) + i - 1]
    <3>1. L + m \in Int /\ L + n \in Int /\ L + m <= L + n
      BY <1>1, <1>2
    <3> QED BY <2>2, <3>1, Piece, Zenon
  <2>4. (L + n) - (L + m) + 1 = n - m + 1
    BY <1>1, <1>2
  <2>5. \A i \in 1 .. n - m + 1 : (L + m) + i - 1 = L + (m + i - 1) /\ m + i - 1 \in m .. n
    BY <1>1, <1>2
  <2>6. \A i \in 1 .. n - m + 1 : (p \o q)[(L + m) + i - 1] = q[m + i - 1]
    BY <1>5, <2>5, Zenon
  <2>7. \A i \in 1 .. n - m + 1 :
          SubSeq(p \o q, L + m, L + n)[i] = (p \o q)[(L + m) + i - 1]
    BY <2>3, <2>4, Zenon
  <2> QED BY <2>1, <2>3, <2>4, <2>6, <2>7, SamePiece, ZenonT(30)
<1>7. Nth(p \o q, k + b) = SubSeq(p \o q, L + m, L + n)
  <2>1. Nth(p \o q, k + b)
          = SubSeq(p \o q, ((k + b) - 1) * BlockBytes + 1, (k + b) * BlockBytes)
    BY Zenon DEF Nth
  <2> QED BY <1>2, <2>1, Zenon
<1> QED BY <1>6, <1>7 DEF Nth, m, n

(* and one block is itself. *)
LEMMA NthWhole ==
  ASSUME NEW p \in Seq(Nat), Len(p) = BlockBytes
  PROVE  Nth(p, 1) = p
<1>1. BlockBytes \in Nat /\ (1 - 1) * BlockBytes + 1 = 1 /\ 1 * BlockBytes = BlockBytes
  BY ShaAssumption
<1>2. Nth(p, 1) = SubSeq(p, 1, Len(p))
  BY <1>1 DEF Nth
<1> QED BY <1>2, SubSeqFull

(* sequences of anything, element by element *)
LEMMA JoinedBlocks ==
  ASSUME NEW S, NEW k \in Nat, NEW f \in Nat
  PROVE  \A s \in [1 .. k -> S], t \in [1 .. f -> S], w \in [1 .. k + f -> S] :
           (\A b \in 1 .. k : w[b] = s[b]) /\ (\A c \in 1 .. f : w[k + c] = t[c])
             => s \o t = w
<1> SUFFICES ASSUME NEW s \in [1 .. k -> S], NEW t \in [1 .. f -> S],
                    NEW w \in [1 .. k + f -> S],
                    (\A b \in 1 .. k : w[b] = s[b]) /\ (\A c \in 1 .. f : w[k + c] = t[c])
             PROVE  s \o t = w
  OBVIOUS
<1>1. s \in Seq(S) /\ Len(s) = k
  BY LenProperties
<1>2. t \in Seq(S) /\ Len(t) = f
  BY LenProperties
<1>3. w \in Seq(S) /\ Len(w) = k + f
  BY LenProperties
<1>4. /\ s \o t \in Seq(S) /\ Len(s \o t) = Len(s) + Len(t)
      /\ \A i \in 1 .. Len(s) + Len(t) :
           (s \o t)[i] = IF i <= Len(s) THEN s[i] ELSE t[i - Len(s)]
  BY <1>1, <1>2, ConcatProperties
<1>5. \A b \in 1 .. k + f : (s \o t)[b] = w[b]
  <2> SUFFICES ASSUME NEW b \in 1 .. k + f PROVE (s \o t)[b] = w[b]
    OBVIOUS
  <2>1. (s \o t)[b] = IF b <= k THEN s[b] ELSE t[b - k]
    BY <1>1, <1>2, <1>4
  <2>2. CASE b <= k
    BY <2>1, <2>2
  <2>3. CASE b > k
    <3>1. PICK c \in 1 .. f : b = k + c /\ b - k = c /\ ~(b <= k)
      BY <2>3, b - k \in 1 .. f
    <3> QED BY <2>1, <3>1
  <2> QED BY <2>2, <2>3
<1> QED BY <1>1, <1>2, <1>3, <1>4, <1>5, SeqEqual

(* a block of a sequence of k of them *)
LEMMA NthType ==
  ASSUME NEW p \in Seq(Nat), NEW k \in Nat, NEW b \in 1 .. k, Len(p) >= k * BlockBytes
  PROVE  Nth(p, b) \in Seq(Nat) /\ Len(Nth(p, b)) = BlockBytes
<1> DEFINE m == (b - 1) * BlockBytes + 1
           n == b * BlockBytes
<1>1. /\ BlockBytes \in Nat /\ (b - 1) * BlockBytes \in Nat
      /\ n = (b - 1) * BlockBytes + BlockBytes /\ m \in Nat /\ n \in Nat
      /\ 1 <= m /\ m <= n
  <2> HIDE DEF m, n
  <2> QED BY Within DEF m, n
<1>2. n <= Len(p) /\ Len(p) \in Nat
  <2>1. n <= k * BlockBytes /\ k * BlockBytes \in Nat
    <3> HIDE DEF m, n
    <3> QED BY Within DEF n
  <2>2. Len(p) \in Nat
    BY LenProperties
  <2> HIDE DEF n
  <2> DEFINE l == k * BlockBytes
  <2>3. l \in Nat /\ n <= l /\ l <= Len(p)
    BY <2>1
  <2> HIDE DEF l
  <2> QED BY <1>1, <2>2, <2>3
<1>3. n - m + 1 = BlockBytes
  <2> DEFINE c == (b - 1) * BlockBytes
  <2>1. c \in Nat /\ n = c + BlockBytes /\ m = c + 1
    BY <1>1
  <2> HIDE DEF c, m, n
  <2> QED BY <1>1, <2>1
<1> HIDE DEF m, n
<1>4. \A i \in m .. n : p[i] \in Nat
  BY <1>1, <1>2, ElementOfSeq
<1>5. SubSeq(p, m, n) \in Seq(Nat) /\ Len(SubSeq(p, m, n)) = n - m + 1
  BY <1>1, <1>4, Piece
<1> QED BY <1>3, <1>5 DEF Nth, m, n

(* The blocks that were transformed are those of a first part of the       *)
(* message, and the buffer holds the rest of it, less than a block.        *)
Cut(m, buf, dig) ==
  \E p \in Seq(Nat), k \in Nat :
    /\ Len(p) = k * BlockBytes
    /\ buf \in Seq(Nat) /\ Len(buf) < BlockBytes
    /\ m = p \o buf
    /\ dig = [b \in 1 .. k |-> Block(Nth(p, b))]

ShaInv ==
  /\ Cut(message, buffer, digest)
  /\ result.digest # <<>> => result.digest = Padded(result.of)

(* the blocks of a sequence of k blocks, as a sequence *)
LEMMA WholeBlocks ==
  ASSUME NEW p \in Seq(Nat), NEW k \in Nat, Len(p) = k * BlockBytes
  PROVE  [b \in 1 .. k |-> Block(Nth(p, b))] \in [1 .. k -> {Block(x) : x \in Seq(Nat)}]
<1>1. \A b \in 1 .. k : Nth(p, b) \in Seq(Nat)
  <2> SUFFICES ASSUME NEW b \in 1 .. k PROVE Nth(p, b) \in Seq(Nat)
    OBVIOUS
  <2>1. Len(p) \in Nat
    BY LenProperties
  <2>2. Len(p) >= k * BlockBytes
    <3> DEFINE l == k * BlockBytes
    <3>1. Len(p) = l
      OBVIOUS
    <3> HIDE DEF l
    <3>2. Len(p) >= l
      BY <2>1, <3>1
    <3> QED BY <3>2 DEF l
  <2> QED BY <2>2, NthType
<1> QED BY <1>1

(* Update cuts the longer message. *)
LEMMA UpdatedCuts ==
  ASSUME NEW m, NEW buf, NEW dig, Cut(m, buf, dig), NEW s \in Seq(Nat)
  PROVE  Cut(m \o s, Updated(buf, dig, s).buffer, Updated(buf, dig, s).digest)
<1>1. PICK p \in Seq(Nat), k \in Nat :
        /\ Len(p) = k * BlockBytes
        /\ buf \in Seq(Nat) /\ Len(buf) < BlockBytes
        /\ m = p \o buf
        /\ dig = [b \in 1 .. k |-> Block(Nth(p, b))]
  BY DEF Cut
<1> DEFINE all == buf \o s
           full == Len(all) \div BlockBytes
           q == SubSeq(all, 1, full * BlockBytes)
           rest == drop_front(all, full * BlockBytes)
           new == dig \o [b \in 1 .. full |-> Block(Nth(all, b))]
<1>2. BlockBytes \in Nat \ {0}
  BY ShaAssumption
<1>3. all \in Seq(Nat) /\ Len(all) \in Nat
  BY <1>1, JoinedLength, LenProperties
<1>4. Updated(buf, dig, s).buffer = rest /\ Updated(buf, dig, s).digest = new
  BY DEF Updated
<1>5. /\ full \in Nat /\ full * BlockBytes \in 0 .. Len(all)
      /\ Len(all) - full * BlockBytes < BlockBytes
  <2> DEFINE a == Len(all)
  <2> HIDE DEF all
  <2>1. a \div BlockBytes \in Nat /\ a % BlockBytes \in 0 .. BlockBytes - 1
        /\ a = BlockBytes * (a \div BlockBytes) + (a % BlockBytes)
    BY <1>2, <1>3, Division
  <2>2. full * BlockBytes = BlockBytes * full /\ BlockBytes * full \in Nat
    BY <1>2, <2>1, Times
  <2> DEFINE x == BlockBytes * full
             y == a % BlockBytes
  <2>3. a = x + y /\ x \in Nat /\ y \in 0 .. BlockBytes - 1
    BY <2>1, <2>2
  <2> HIDE DEF x, y, a
  <2>4. x \in 0 .. a /\ a - x < BlockBytes
    BY <1>2, <2>3
  <2> QED BY <2>1, <2>2, <2>4 DEF x, a
<1> HIDE DEF full, all
<1>6. /\ q \in Seq(Nat) /\ Len(q) = full * BlockBytes
      /\ rest \in Seq(Nat) /\ Len(rest) = Len(all) - full * BlockBytes
      /\ q \o rest = all
  BY <1>3, <1>5, Split
<1> HIDE DEF q, rest
<1>7. Len(rest) < BlockBytes
  BY <1>5, <1>6
<1>8. m \o s = (p \o q) \o rest
  <2>1. (p \o buf) \o s = p \o (buf \o s)
    BY <1>1, Joined, Zenon
  <2>2. (p \o q) \o rest = p \o (q \o rest)
    BY <1>6, Joined, Zenon
  <2> QED BY <1>1, <1>6, <2>1, <2>2, Zenon DEF all
<1>9. p \o q \in Seq(Nat) /\ Len(p \o q) = (k + full) * BlockBytes
  <2>1. p \o q \in Seq(Nat) /\ Len(p \o q) = k * BlockBytes + full * BlockBytes
    BY <1>1, <1>6, JoinedLength
  <2>2. BlockBytes * (k + full) = BlockBytes * k + BlockBytes * full
    BY <1>2, <1>5, Times
  <2>3. /\ (k + full) * BlockBytes = BlockBytes * (k + full)
        /\ k * BlockBytes = BlockBytes * k /\ full * BlockBytes = BlockBytes * full
    BY <1>2, <1>5, Times
  <2> QED BY <2>1, <2>2, <2>3
<1>10. new = [b \in 1 .. k + full |-> Block(Nth(p \o q, b))]
  <2> DEFINE t == [b \in 1 .. full |-> Block(Nth(all, b))]
             w == [b \in 1 .. k + full |-> Block(Nth(p \o q, b))]
  <2>1. \A b \in 1 .. k : w[b] = dig[b]
    <3> SUFFICES ASSUME NEW b \in 1 .. k PROVE w[b] = dig[b]
      OBVIOUS
    <3>1. Nth(p \o q, b) = Nth(p, b)
      BY <1>1, <1>6, NthLeft
    <3>2. b \in 1 .. k + full
      BY <1>5
    <3>3. w[b] = Block(Nth(p \o q, b)) /\ dig[b] = Block(Nth(p, b))
      BY <1>1, <3>2
    <3> QED BY <3>1, <3>3
  <2>2. \A b \in 1 .. full : w[k + b] = t[b]
    <3> SUFFICES ASSUME NEW b \in 1 .. full PROVE w[k + b] = t[b]
      OBVIOUS
    <3>1. Nth(p \o q, k + b) = Nth(q, b)
      BY <1>1, <1>5, <1>6, NthRight, SMTT(30)
    <3>2. Nth(q \o rest, b) = Nth(q, b)
      BY <1>5, <1>6, NthLeft
    <3>3. k + b \in 1 .. k + full
      BY <1>5
    <3>4. w[k + b] = Block(Nth(p \o q, k + b))
      BY <3>3
    <3>5. t[b] = Block(Nth(q \o rest, b))
      BY <1>6
    <3> QED BY <3>1, <3>2, <3>4, <3>5
  <2> DEFINE S == {Block(x) : x \in Seq(Nat)}
  <2>3. dig \in [1 .. k -> S]
    BY <1>1, WholeBlocks
  <2>4. t \in [1 .. full -> S]
    <3>1. t = [b \in 1 .. full |-> Block(Nth(q, b))]
      BY <1>5, <1>6, NthLeft
    <3> QED BY <1>5, <1>6, <3>1, WholeBlocks
  <2>5. w \in [1 .. k + full -> S]
    <3>1. k + full \in Nat
      BY <1>5
    <3> QED BY <1>9, <3>1, WholeBlocks, Zenon
  <2> HIDE DEF t, w, S
  <2>6. dig \o t = w
    <3>1. k \in Nat /\ full \in Nat
      BY <1>5
    <3>2. (\A b \in 1 .. k : w[b] = dig[b]) /\ (\A c \in 1 .. full : w[k + c] = t[c])
      BY <2>1, <2>2
    <3>3. \A u \in [1 .. k -> S], v \in [1 .. full -> S], x \in [1 .. k + full -> S] :
            (\A b \in 1 .. k : x[b] = u[b]) /\ (\A c \in 1 .. full : x[k + c] = v[c])
              => u \o v = x
      BY <3>1, JoinedBlocks
    <3> QED BY <2>3, <2>4, <2>5, <3>2, <3>3
  <2> QED BY <2>6 DEF t, w
<1> HIDE DEF new
<1>11. k + full \in Nat
  BY <1>5
<1>12. Cut(m \o s, rest, new)
  BY <1>6, <1>7, <1>8, <1>9, <1>10, <1>11 DEF Cut
<1> QED BY <1>4, <1>12

(* zeros *)
LEMMA ZeroFacts ==
  ASSUME NEW n \in Nat
  PROVE  /\ Zeros(n) \in Seq(Nat) /\ Len(Zeros(n)) = n
         /\ \A i \in Nat : Zeros(n + i) = Zeros(n) \o Zeros(i)
<1>1. \A i \in Nat : Zeros(i) \in Seq(Nat) /\ Len(Zeros(i)) = i
  BY DEF Zeros
<1>2. ASSUME NEW i \in Nat
      PROVE  Zeros(n + i) = Zeros(n) \o Zeros(i)
  <2>1. n + i \in Nat
    OBVIOUS
  <2>2. Zeros(n) \in [1 .. n -> Nat] /\ Zeros(i) \in [1 .. i -> Nat]
        /\ Zeros(n + i) \in [1 .. n + i -> Nat]
    BY DEF Zeros
  <2>3. /\ \A b \in 1 .. n : Zeros(n + i)[b] = Zeros(n)[b]
        /\ \A c \in 1 .. i : Zeros(n + i)[n + c] = Zeros(i)[c]
    BY DEF Zeros
  <2>4. \A u \in [1 .. n -> Nat], v \in [1 .. i -> Nat], x \in [1 .. n + i -> Nat] :
          (\A b \in 1 .. n : x[b] = u[b]) /\ (\A c \in 1 .. i : x[n + c] = v[c])
            => u \o v = x
    BY JoinedBlocks
  <2>5. Zeros(n) \o Zeros(i) = Zeros(n + i)
    BY <2>2, <2>3, <2>4
  <2> QED BY <2>5
<1> QED BY <1>1, <1>2

(* the number of zeros that FIPS 180 asks for *)
LEMMA PadLength ==
  ASSUME NEW k \in Nat, NEW l \in 1 .. BlockBytes
  PROVE  ZerosAfter(k * BlockBytes + l)
         = (IF l <= BlockBytes - LengthBytes THEN BlockBytes ELSE 2 * BlockBytes) - LengthBytes - l
<1> DEFINE B == BlockBytes
           Z == (IF l <= B - LengthBytes THEN B ELSE 2 * B) - LengthBytes - l
           P(z) == (k * BlockBytes + l + z + LengthBytes) % BlockBytes = 0
<1>1. B \in Nat \ {0} /\ LengthBytes \in 1 .. B - 1 /\ l \in 1 .. B
  BY ShaAssumption
<1> HIDE DEF B
<1>2. Z \in 0 .. B - 1
  BY <1>1
<1>3. ASSUME NEW y \in Nat
      PROVE  (k * B + y) % B = y % B
  <2>1. y % B \in 0 .. B - 1 /\ y \div B \in Nat /\ y = B * (y \div B) + (y % B)
    BY <1>1, Division
  <2> DEFINE q == y \div B
             e == y % B
  <2> HIDE DEF q, e
  <2>2. q \in Nat /\ e \in 0 .. B - 1 /\ y = B * q + e
    BY <2>1 DEF q, e
  <2>3. k + q \in Nat /\ B * (k + q) = B * k + B * q /\ k * B = B * k /\ B * k \in Nat /\ B * q \in Nat
    BY <1>1, <2>2, Times
  <2>4. k * B + y = B * (k + q) + e
    <3> DEFINE u == B * k
               v == B * q
    <3>1. u \in Nat /\ v \in Nat /\ k * B = u /\ y = v + e /\ B * (k + q) = u + v
      BY <2>2, <2>3
    <3> HIDE DEF u, v
    <3>2. u + (v + e) = (u + v) + e
      BY <2>2, <3>1
    <3> QED BY <3>1, <3>2
  <2>5. (B * (k + q) + e) % B = e
    BY <1>1, <2>2, <2>3, Quotient
  <2> QED BY <2>4, <2>5 DEF e
<1>4. ASSUME NEW z \in 0 .. B - 1
      PROVE  P(z) <=> (l + z + LengthBytes) % B = 0
  <2> DEFINE y == l + z + LengthBytes
             x == k * B
  <2>1. y \in Nat /\ x \in Nat
    BY <1>1, Times
  <2> HIDE DEF x
  <2>2. x + l + z + LengthBytes = x + y
    BY <1>1, <2>1
  <2> HIDE DEF y
  <2>3. (x + y) % B = y % B
    BY <1>3, <2>1 DEF x
  <2> QED BY <2>2, <2>3 DEF x, y, B
<1>5. P(Z)
  <2>1. l + Z + LengthBytes = B \/ l + Z + LengthBytes = 2 * B
    BY <1>1
  <2>2. B % B = 0 /\ (2 * B) % B = 0
    <3>1. (B * 1 + 0) % B = 0 /\ (B * 2 + 0) % B = 0
      BY <1>1, Quotient
    <3>2. B * 1 + 0 = B /\ B * 2 + 0 = 2 * B
      BY <1>1
    <3> QED BY <3>1, <3>2
  <2> HIDE DEF Z
  <2>3. (l + Z + LengthBytes) % B = 0
    BY <2>1, <2>2
  <2> HIDE DEF P
  <2> QED BY <1>2, <1>4, <2>3
<1>6. ASSUME NEW z \in 0 .. B - 1, P(z)
      PROVE  z = Z
  <2> DEFINE y == l + z + LengthBytes
             q == y \div B
  <2>1. y \in Nat /\ y % B = 0
    <3>1. (l + z + LengthBytes) % B = 0
      <4> HIDE DEF P
      <4> QED BY <1>4, <1>6
    <3> QED BY <1>1, <3>1
  <2>2. q \in Nat /\ y = B * q
    <3> HIDE DEF y
    <3>1. y = B * (y \div B) + (y % B) /\ y \div B \in Nat
      BY <1>1, <2>1, Division
    <3>2. B * (y \div B) \in Nat
      BY <1>1, <3>1, Times
    <3> QED BY <2>1, <3>1, <3>2
  <2> HIDE DEF q
  <2>3. q # 0
    <3>1. y # 0
      BY <1>1
    <3>2. B * 0 = 0
      BY <1>1
    <3> HIDE DEF y
    <3> QED BY <2>2, <3>1, <3>2
  <2>4. q < 3
    <3> SUFFICES ASSUME 3 <= q PROVE FALSE
      BY <2>2
    <3>1. B * 3 <= B * q
      BY <1>1, <2>2, Times
    <3>2. B * 3 = 3 * B
      BY <1>1
    <3>3. y < 3 * B
      BY <1>1
    <3> HIDE DEF y
    <3> QED BY <1>1, <2>1, <2>2, <3>1, <3>2, <3>3
  <2>5. q = 1 \/ q = 2
    BY <2>2, <2>3, <2>4
  <2>6. y = B \/ y = 2 * B
    <3>1. B * 1 = B /\ B * 2 = 2 * B
      BY <1>1
    <3> QED BY <2>2, <2>5, <3>1
  <2> QED BY <1>1, <2>6
<1>7. (CHOOSE z \in 0 .. B - 1 : P(z)) = Z
  <2> HIDE DEF P, Z
  <2> QED BY <1>2, <1>5, <1>6
<1> QED BY <1>7 DEF B, ZerosAfter

(* the rest of a message with its padding byte and the zeros up to a block *)
Filled(buf) == Append(buf, 128) \o Zeros(BlockBytes - (Len(buf) + 1))

(* A buffer with its end mark fills up to a block. *)
LEMMA FilledFacts ==
  ASSUME NEW buf \in Seq(Nat), Len(buf) < BlockBytes
  PROVE  /\ Append(buf, 128) \in Seq(Nat) /\ Len(Append(buf, 128)) = Len(buf) + 1
         /\ Len(buf) \in Nat
         /\ Filled(buf) \in Seq(Nat) /\ Len(Filled(buf)) = BlockBytes
<1>1. Len(buf) \in Nat /\ BlockBytes \in Nat
  BY ShaAssumption, LenProperties
<1>2. Append(buf, 128) \in Seq(Nat) /\ Len(Append(buf, 128)) = Len(buf) + 1
  BY AppendProperties
<1> DEFINE n == BlockBytes - (Len(buf) + 1)
<1>3. n \in Nat /\ (Len(buf) + 1) + n = BlockBytes
  BY <1>1
<1>4. Zeros(n) \in Seq(Nat) /\ Len(Zeros(n)) = n
  BY <1>3, ZeroFacts
<1> HIDE DEF n
<1>5. Append(buf, 128) \o Zeros(n) \in Seq(Nat) /\ Len(Append(buf, 128) \o Zeros(n)) = BlockBytes
  <2> DEFINE a == Append(buf, 128)
             o == Zeros(n)
  <2>1. a \in Seq(Nat) /\ o \in Seq(Nat) /\ Len(a) = Len(buf) + 1 /\ Len(o) = n
    BY <1>2, <1>4
  <2> HIDE DEF a, o
  <2>2. a \o o \in Seq(Nat) /\ Len(a \o o) = Len(a) + Len(o)
    BY <2>1, JoinedLength
  <2> QED BY <1>3, <2>1, <2>2 DEF a, o
<1> QED BY <1>1, <1>2, <1>5 DEF Filled, n

(* The digest of a message that takes j blocks more when it is padded.     *)
Digested(m, p, q, k, j) ==
  [b \in 1 .. k + j |-> IF b = k + j THEN LastBlock(Nth(q, j), 8 * Len(m))
                         ELSE IF b <= k THEN Block(Nth(p, b)) ELSE Block(Nth(q, b - k))]

(* What is padded in one piece is what was compressed and the last blocks. *)
LEMMA PaddedBlocks ==
  ASSUME NEW m \in Seq(Nat), NEW p \in Seq(Nat), NEW q \in Seq(Nat),
         NEW k \in Nat, NEW j \in 1 .. 2,
         Len(p) = k * BlockBytes, Len(q) = j * BlockBytes,
         Append(m, 128) \o Zeros(ZerosAfter(Len(Append(m, 128))) + LengthBytes) = p \o q
  PROVE  Padded(m) = Digested(m, p, q, k, j)
<1> DEFINE all == p \o q
           n == Len(all) \div BlockBytes
<1>1. j \in Nat /\ BlockBytes \in Nat \ {0}
  BY ShaAssumption
<1>2. n = k + j
  <2>1. Len(all) = k * BlockBytes + j * BlockBytes
    BY JoinedLength
  <2>2. /\ BlockBytes * (k + j) = BlockBytes * k + BlockBytes * j
        /\ k * BlockBytes = BlockBytes * k /\ j * BlockBytes = BlockBytes * j
        /\ BlockBytes * (k + j) \in Nat /\ k + j \in Nat
    BY <1>1, Times
  <2>3. (BlockBytes * (k + j) + 0) \div BlockBytes = k + j
    BY <1>1, <2>2, Quotient
  <2>4. Len(all) = BlockBytes * (k + j)
    BY <2>1, <2>2
  <2>5. BlockBytes * (k + j) + 0 = BlockBytes * (k + j)
    BY <2>2
  <2> QED BY <2>3, <2>4, <2>5
<1>3. Padded(m) = [b \in 1 .. n |-> IF b = n THEN LastBlock(Nth(all, n), 8 * Len(m))
                                   ELSE Block(Nth(all, b))]
  BY Zenon DEF Padded
<1> HIDE DEF n
<1>4. \A b \in 1 .. k : Nth(all, b) = Nth(p, b)
  BY NthLeft
<1>5. \A c \in 1 .. j : Nth(all, k + c) = Nth(q, c)
  <2> SUFFICES ASSUME NEW c \in 1 .. j PROVE Nth(p \o q, k + c) = Nth(q, c)
    BY DEF all
  <2>1. k \in Nat /\ j \in Nat /\ c \in 1 .. j /\ p \in Seq(Nat) /\ q \in Seq(Nat)
        /\ Len(p) = k * BlockBytes /\ Len(q) = j * BlockBytes
    BY <1>1
  <2> QED BY <2>1, NthRight, ZenonT(30)
<1> HIDE DEF all
<1>6. Nth(all, n) = Nth(q, j)
  BY <1>1, <1>2, <1>5
<1>7. ASSUME NEW b \in 1 .. k + j, b # k + j, ~(b <= k)
      PROVE  Nth(all, b) = Nth(q, b - k)
  <2>1. PICK c \in 1 .. j : b = k + c /\ b - k = c
    BY <1>1, <1>7, b - k \in 1 .. j
  <2> QED BY <1>5, <2>1
<1>8. \A b \in 1 .. k + j : b <= k => b \in 1 .. k
  BY <1>1
<1> QED BY <1>2, <1>3, <1>4, <1>6, <1>7, <1>8 DEF Digested

(* What Final digests of what Update has left is the padded message.       *)
LEMMA FinalizedPads ==
  ASSUME NEW m, NEW buf, NEW dig, Cut(m, buf, dig)
  PROVE  Finalized(buf, dig) = Padded(m)
<1>1. PICK p \in Seq(Nat), k \in Nat :
        /\ Len(p) = k * BlockBytes
        /\ buf \in Seq(Nat) /\ Len(buf) < BlockBytes
        /\ m = p \o buf
        /\ dig = [b \in 1 .. k |-> Block(Nth(p, b))]
  BY DEF Cut
<1> DEFINE B == BlockBytes
           l == Len(buf) + 1
           w == Filled(buf)
           bits == 8 * Len(m)
           o == Zeros(B)
<1>2. B \in Nat \ {0} /\ LengthBytes \in 1 .. B - 1 /\ Len(buf) \in Nat /\ l \in 1 .. B
  BY <1>1, ShaAssumption, LenProperties
<1>3. /\ Append(buf, 128) \in Seq(Nat) /\ Len(Append(buf, 128)) = l
      /\ w \in Seq(Nat) /\ Len(w) = B
  BY <1>1, FilledFacts
<1>4. k * B \in Nat
  BY <1>2, Times
<1>5. m \in Seq(Nat) /\ Len(m) = k * B + Len(buf)
  BY <1>1, JoinedLength
<1>6. Append(m, 128) = p \o Append(buf, 128)
  <2>1. \A s \in Seq(Nat) : Append(s, 128) = s \o <<128>>
    BY AppendIsConcat, ZenonT(30)
  <2>2. <<128>> \in Seq(Nat)
    OBVIOUS
  <2>3. (p \o buf) \o <<128>> = p \o (buf \o <<128>>)
    <3>1. p \in Seq(Nat) /\ buf \in Seq(Nat)
      BY <1>1
    <3> QED BY <2>2, <3>1, Joined
  <2> QED BY <1>1, <1>5, <2>1, <2>3
<1>7. Len(Append(m, 128)) = k * B + l
  <2>1. Len(Append(m, 128)) = Len(m) + 1
    BY <1>5, AppendProperties
  <2> DEFINE x == k * B
  <2> HIDE DEF x
  <2>2. Len(m) = x + Len(buf) /\ x \in Nat
    BY <1>4, <1>5 DEF x
  <2>3. Len(m) + 1 = x + l
    BY <1>2, <2>2
  <2> QED BY <2>1, <2>3 DEF x
<1>8. Len(dig) = k
  BY <1>1
<1>9. (Len(dig) * B + Len(buf)) * 8 = bits
  <2> DEFINE x == k * B
  <2>1. Len(dig) * B + Len(buf) = x + Len(buf)
    BY <1>8
  <2> HIDE DEF x
  <2>2. x \in Nat /\ Len(m) = x + Len(buf)
    BY <1>4, <1>5 DEF x
  <2>3. (x + Len(buf)) * 8 = 8 * (x + Len(buf))
    BY <1>2, <2>2
  <2> QED BY <2>1, <2>2, <2>3
<1>10. o \in Seq(Nat) /\ Len(o) = B
  BY <1>2, ZeroFacts
<1>11. Append(buf, 128) \o Zeros(B - Len(Append(buf, 128))) = w
  BY <1>3 DEF Filled
<1>12. \A b \in 1 .. k : dig[b] = Block(Nth(p, b))
  BY <1>1
<1> DEFINE zeros == ZerosAfter(Len(Append(m, 128))) + LengthBytes
           S == UNION {{Block(x), LastBlock(x, bits)} : x \in Seq(Nat)}
<1>13. zeros = (IF l <= B - LengthBytes THEN B ELSE 2 * B) - l
  <2>1. ZerosAfter(k * B + l) = (IF l <= B - LengthBytes THEN B ELSE 2 * B) - LengthBytes - l
    BY <1>2, PadLength
  <2> HIDE DEF B, l
  <2>2. ((IF l <= B - LengthBytes THEN B ELSE 2 * B) - LengthBytes - l) + LengthBytes
        = (IF l <= B - LengthBytes THEN B ELSE 2 * B) - l
    BY <1>2
  <2> QED BY <1>7, <2>1, <2>2
<1>14. dig \in [1 .. k -> S]
  <2>1. dig \in [1 .. k -> {Block(x) : x \in Seq(Nat)}]
    BY <1>1, WholeBlocks
  <2>2. {Block(x) : x \in Seq(Nat)} \subseteq S
    OBVIOUS
  <2> HIDE DEF S
  <2> QED BY <2>1, <2>2
<1>15. Nth(w, 1) = w /\ Nth(o, 1) = o
  BY <1>3, <1>10, NthWhole
<1> HIDE DEF B, w, o, bits, zeros
<1>16. Finalized(buf, dig)
       = IF l > B - LengthBytes
         THEN dig \o <<Block(w), LastBlock(o, bits)>>
         ELSE Append(dig, LastBlock(w, bits))
  <2>1. Finalized(buf, dig)
        = IF Len(Append(buf, 128)) > BlockBytes - LengthBytes
          THEN dig \o <<Block(Append(buf, 128) \o Zeros(BlockBytes - Len(Append(buf, 128)))),
                        LastBlock(Zeros(BlockBytes), (Len(dig) * BlockBytes + Len(buf)) * 8)>>
          ELSE Append(dig, LastBlock(Append(buf, 128) \o Zeros(BlockBytes - Len(Append(buf, 128))),
                                     (Len(dig) * BlockBytes + Len(buf)) * 8))
    BY Zenon DEF Finalized
  <2>2. (Len(dig) * BlockBytes + Len(buf)) * 8 = bits
    BY <1>9 DEF B
  <2>3. Append(buf, 128) \o Zeros(BlockBytes - Len(Append(buf, 128))) = w
    BY <1>11 DEF B
  <2> QED BY <1>3, <2>1, <2>2, <2>3 DEF B, o
<1>17. CASE l <= B - LengthBytes
  <2>1. zeros = B - l
    BY <1>13, <1>17
  <2>2. Append(m, 128) \o Zeros(zeros) = p \o w
    <3> DEFINE a == Append(buf, 128)
               z == Zeros(B - l)
    <3>1. a \in Seq(Nat) /\ z \in Seq(Nat)
      <4>1. B - l \in Nat
        BY <1>2
      <4> QED BY <1>3, <4>1, ZeroFacts
    <3>2. Append(m, 128) = p \o a /\ Zeros(zeros) = z /\ w = a \o z
      BY <1>6, <2>1 DEF w, Filled, B
    <3> HIDE DEF a, z
    <3>3. (p \o a) \o z = p \o (a \o z)
      BY <3>1, Joined, Zenon
    <3> QED BY <3>2, <3>3
  <2>3. Len(w) = 1 * BlockBytes /\ 1 \in 1 .. 2
    BY <1>2, <1>3 DEF B
  <2> DEFINE d == [b \in 1 .. k + 1 |-> IF b = k + 1 THEN LastBlock(Nth(w, 1), bits)
                                ELSE IF b <= k THEN Block(Nth(p, b)) ELSE Block(Nth(w, b - k))]
  <2>4. Padded(m) = d
    <3>1. Append(m, 128) \o Zeros(ZerosAfter(Len(Append(m, 128))) + LengthBytes) = p \o w
      BY <2>2 DEF zeros
    <3>2. /\ m \in Seq(Nat) /\ p \in Seq(Nat) /\ w \in Seq(Nat) /\ k \in Nat /\ 1 \in 1 .. 2
          /\ Len(p) = k * BlockBytes /\ Len(w) = 1 * BlockBytes
      BY <1>1, <1>3, <1>5, <2>3
    <3>3. Padded(m) = Digested(m, p, w, k, 1)
      BY <3>1, <3>2, PaddedBlocks, Zenon
    <3> QED BY <3>3, Zenon DEF bits, Digested
  <2>5. Finalized(buf, dig) = Append(dig, LastBlock(w, bits))
    BY <1>2, <1>16, <1>17 DEF B
  <2>6. Append(dig, LastBlock(w, bits)) = d
    <3>1. dig \in Seq(S) /\ LastBlock(w, bits) \in S
      <4>1. LastBlock(w, bits) \in S
        BY <1>3
      <4> HIDE DEF S
      <4> QED BY <1>14, <4>1, LenProperties
    <3> HIDE DEF S
    <3>2. /\ Append(dig, LastBlock(w, bits)) \in Seq(S)
          /\ Len(Append(dig, LastBlock(w, bits))) = k + 1
          /\ \A i \in 1 .. k : Append(dig, LastBlock(w, bits))[i] = dig[i]
          /\ Append(dig, LastBlock(w, bits))[k + 1] = LastBlock(w, bits)
      BY <1>8, <3>1, AppendProperties
    <3>3. d[k + 1] = LastBlock(w, bits) /\ \A i \in 1 .. k : d[i] = dig[i]
      BY <1>12, <1>15
    <3>4. d \in Seq(S) /\ Len(d) = k + 1
      <4>1. \A i \in 1 .. k + 1 : i \in 1 .. k \/ i = k + 1
        OBVIOUS
      <4>2. \A i \in 1 .. k + 1 : d[i] \in S
        BY <1>14, <3>1, <3>3, <4>1
      <4>3. d \in [1 .. k + 1 -> S]
        BY <4>2
      <4> HIDE DEF d
      <4> QED BY <4>3, LenProperties
    <3> HIDE DEF d
    <3>5. \A i \in 1 .. k + 1 : Append(dig, LastBlock(w, bits))[i] = d[i]
      <4>1. \A i \in 1 .. k + 1 : i \in 1 .. k \/ i = k + 1
        OBVIOUS
      <4> QED BY <3>2, <3>3, <4>1
    <3> QED BY <3>2, <3>4, <3>5, SeqEqual
  <2> QED BY <2>4, <2>5, <2>6
<1>18. CASE ~(l <= B - LengthBytes)
  <2>1. zeros = 2 * B - l
    BY <1>13, <1>18
  <2>2. Append(m, 128) \o Zeros(zeros) = p \o (w \o o)
    <3> DEFINE a == Append(buf, 128)
               z == Zeros(B - l)
    <3>1. a \in Seq(Nat) /\ z \in Seq(Nat) /\ Zeros(zeros) = z \o o
      <4>1. B - l \in Nat /\ (B - l) + B = 2 * B - l
        BY <1>2
      <4>2. Zeros((B - l) + B) = z \o o /\ z \in Seq(Nat)
        BY <1>2, <4>1, ZeroFacts DEF o
      <4> QED BY <1>3, <2>1, <4>1, <4>2
    <3>2. Append(m, 128) = p \o a /\ w = a \o z
      BY <1>6 DEF w, Filled, B
    <3> HIDE DEF a, z
    <3>3. (p \o a) \o (z \o o) = p \o (a \o (z \o o))
      <4>1. z \o o \in Seq(Nat)
        BY <1>10, <3>1, JoinedLength
      <4> QED BY <3>1, <4>1, Joined, Zenon
    <3>4. a \o (z \o o) = (a \o z) \o o
      BY <1>10, <3>1, Joined, Zenon
    <3> QED BY <3>1, <3>2, <3>3, <3>4
  <2>3. w \o o \in Seq(Nat) /\ Len(w \o o) = 2 * BlockBytes /\ 2 \in 1 .. 2
    <3>1. w \o o \in Seq(Nat) /\ Len(w \o o) = Len(w) + Len(o)
      BY <1>3, <1>10, JoinedLength, Zenon
    <3> QED BY <1>2, <1>3, <1>10, <3>1 DEF B
  <2>4. Nth(w \o o, 1) = w /\ Nth(w \o o, 2) = o
    <3>1. Len(w) = 1 * BlockBytes /\ Len(o) = 1 * BlockBytes /\ 1 \in Nat /\ 1 \in 1 .. 1
      BY <1>2, <1>3, <1>10 DEF B
    <3>2. Nth(w \o o, 1) = Nth(w, 1)
      BY <1>3, <1>10, <3>1, NthLeft, Zenon
    <3>3. Nth(w \o o, 1 + 1) = Nth(o, 1)
      BY <1>3, <1>10, <3>1, NthRight
    <3> QED BY <1>15, <3>2, <3>3
  <2> DEFINE d == [b \in 1 .. k + 2 |-> IF b = k + 2 THEN LastBlock(Nth(w \o o, 2), bits)
                                ELSE IF b <= k THEN Block(Nth(p, b)) ELSE Block(Nth(w \o o, b - k))]
  <2>5. Padded(m) = d
    <3>1. Append(m, 128) \o Zeros(ZerosAfter(Len(Append(m, 128))) + LengthBytes) = p \o (w \o o)
      BY <2>2 DEF zeros
    <3> DEFINE q == w \o o
    <3>2. /\ m \in Seq(Nat) /\ p \in Seq(Nat) /\ q \in Seq(Nat) /\ k \in Nat /\ 2 \in 1 .. 2
          /\ Len(p) = k * BlockBytes /\ Len(q) = 2 * BlockBytes
      BY <1>1, <1>5, <2>3
    <3>4. Append(m, 128) \o Zeros(ZerosAfter(Len(Append(m, 128))) + LengthBytes) = p \o q
      BY <3>1
    <3> HIDE DEF q
    <3>3. Padded(m) = Digested(m, p, q, k, 2)
      BY <3>2, <3>4, PaddedBlocks, Zenon
    <3> QED BY <3>3, Zenon DEF q, bits, Digested
  <2> DEFINE t == <<Block(w), LastBlock(o, bits)>>
  <2>6. Finalized(buf, dig) = dig \o t
    BY <1>2, <1>16, <1>18 DEF B
  <2>7. dig \o t = d
    <3>1. t \in [1 .. 2 -> S]
      <4>1. Block(w) \in S /\ LastBlock(o, bits) \in S
        BY <1>3, <1>10
      <4> HIDE DEF S
      <4> QED BY <4>1
    <3>2. /\ \A i \in 1 .. k : d[i] = dig[i]
          /\ d[k + 1] = t[1] /\ d[k + 2] = t[2]
      <4>1. \A i \in 1 .. k : d[i] = dig[i]
        BY <1>12
      <4>2. d[k + 1] = Block(Nth(w \o o, 1))
        <5>1. k + 1 \in 1 .. k + 2 /\ k + 1 # k + 2 /\ ~(k + 1 <= k) /\ (k + 1) - k = 1
          OBVIOUS
        <5> QED BY <5>1
      <4>3. d[k + 2] = LastBlock(Nth(w \o o, 2), bits)
        OBVIOUS
      <4> QED BY <2>4, <4>1, <4>2, <4>3
    <3>3. d \in [1 .. k + 2 -> S]
      <4>1. \A i \in 1 .. k + 2 : i \in 1 .. k \/ i = k + 1 \/ i = k + 2
        OBVIOUS
      <4>2. t[1] \in S /\ t[2] \in S
        BY <3>1
      <4> HIDE DEF S, t
      <4>3. \A i \in 1 .. k + 2 : d[i] \in S
        BY <1>14, <3>2, <4>1, <4>2
      <4> QED BY <4>3
    <3>4. \A c \in 1 .. 2 : d[k + c] = t[c]
      <4>1. \A c \in 1 .. 2 : c = 1 \/ c = 2
        OBVIOUS
      <4> QED BY <3>2, <4>1
    <3> HIDE DEF S, t, d
    <3>5. \A u \in [1 .. k -> S], v \in [1 .. 2 -> S], x \in [1 .. k + 2 -> S] :
            (\A b \in 1 .. k : x[b] = u[b]) /\ (\A c \in 1 .. 2 : x[k + c] = v[c])
              => u \o v = x
      <4>1. k \in Nat /\ 2 \in Nat
        OBVIOUS
      <4> QED BY <4>1, JoinedBlocks, Zenon
    <3> QED BY <1>14, <3>1, <3>2, <3>3, <3>4, <3>5
  <2> QED BY <2>5, <2>6, <2>7
<1> QED BY <1>17, <1>18

(* Nothing is a message of no block. *)
LEMMA EmptyCut == Cut(<<>>, <<>>, <<>>)
<1> DEFINE none == <<>>
<1>1. none \in Seq(Nat) /\ Len(none) = 0 /\ none = none \o none
  OBVIOUS
<1>2. BlockBytes \in Nat \ {0} /\ 0 * BlockBytes = 0
  BY ShaAssumption
<1>3. none = [b \in 1 .. 0 |-> Block(Nth(none, b))]
  OBVIOUS
<1> HIDE DEF none
<1>4. /\ Len(none) = 0 * BlockBytes /\ none \in Seq(Nat) /\ Len(none) < BlockBytes
      /\ none = none \o none /\ none = [b \in 1 .. 0 |-> Block(Nth(none, b))] /\ 0 \in Nat
  BY <1>1, <1>2, <1>3
<1>5. Cut(none, none, none)
  BY <1>4, Zenon DEF Cut
<1> QED BY <1>5 DEF none

(* Update, Final and FromFile keep the invariant. *)
LEMMA ShaStepInv ==
  ASSUME ShaInv, [ShaNext]_shaVars
  PROVE  ShaInv'
<1>1. Cut(<<>>, <<>>, <<>>)
  BY EmptyCut
<1>2. ASSUME NEW n \in 0 .. MaxMessage - Len(message),
             Update([i \in 1 .. n |-> Len(message) + i])
      PROVE  ShaInv'
  <2> DEFINE s == [i \in 1 .. n |-> Len(message) + i]
  <2>1. s \in Seq(Nat)
    <3>1. PICK p \in Seq(Nat) : message = p \o buffer /\ buffer \in Seq(Nat)
      BY DEF ShaInv, Cut
    <3>2. Len(message) \in Nat
      BY <3>1, JoinedLength, LenProperties
    <3>3. \A i \in 1 .. n : Len(message) + i \in Nat
      BY <3>2
    <3> QED BY <3>3
  <2> HIDE DEF s
  <2>2. Cut(message \o s, Updated(buffer, digest, s).buffer, Updated(buffer, digest, s).digest)
    BY <2>1, UpdatedCuts DEF ShaInv
  <2>3. /\ message' = message \o s /\ buffer' = Updated(buffer, digest, s).buffer
        /\ digest' = Updated(buffer, digest, s).digest /\ result' = result
    BY <1>2 DEF Update, s
  <2> QED BY <2>2, <2>3 DEF ShaInv
<1>3. CASE Final
  <2>1. Finalized(buffer, digest) = Padded(message)
    BY FinalizedPads DEF ShaInv
  <2>2. result'.digest = Padded(message) /\ result'.of = message
    BY <1>3, <2>1 DEF Final
  <2>3. Cut(message', buffer', digest')
    BY <1>1, <1>3 DEF Final
  <2> QED BY <2>2, <2>3 DEF ShaInv
<1>4. CASE FromFile(<<>>)
  <2> DEFINE after == Updated(<<>>, <<>>, <<>>)
  <2>1. <<>> \o <<>> = <<>> /\ <<>> \in Seq(Nat)
    OBVIOUS
  <2>2. Cut(<<>> \o <<>>, after.buffer, after.digest)
    BY <1>1, <2>1, UpdatedCuts, Zenon
  <2>3. Cut(<<>>, after.buffer, after.digest)
    BY <2>1, <2>2
  <2> HIDE DEF after
  <2>4. Finalized(after.buffer, after.digest) = Padded(<<>>)
    BY <2>3, FinalizedPads
  <2>5. /\ result' = [of |-> <<>>, digest |-> Finalized(after.buffer, after.digest)]
        /\ message' = message /\ buffer' = buffer /\ digest' = digest
    BY <1>4 DEF FromFile, after
  <2>6. result'.digest = Padded(result'.of)
    BY <2>4, <2>5
  <2> QED BY <2>5, <2>6 DEF ShaInv
<1>5. CASE UNCHANGED shaVars
  BY <1>5 DEF shaVars, ShaInv
<1> QED BY <1>2, <1>3, <1>4, <1>5 DEF ShaNext

(* Whatever the size of the block and of its length field, and however     *)
(* the message is cut up among the calls of Update, Final digests the      *)
(* message that FIPS 180 pads (sha1.cpp:198, 233).                         *)
THEOREM DigestsArePadded ==
  ShaSpec => []HashesPadded
<1>1. ShaInit => ShaInv
  BY EmptyCut DEF ShaInit, ShaInv
<1>2. ShaInv /\ [ShaNext]_shaVars => ShaInv'
  BY ShaStepInv
<1>3. ShaInv => HashesPadded
  BY DEF ShaInv, HashesPadded
<1> QED BY <1>1, <1>2, <1>3, PTL DEF ShaSpec

(***************************************************************************)
(* StringMap: probing. The i-th probe adds i, so that after i probes the   *)
(* triangular number of i is added. In a table whose size is a power of 2  *)
(* two of the first size probes never meet, and so every bucket is         *)
(* visited.                                                                *)
(***************************************************************************)

Divides(d, n) == \E q \in Nat : n = d * q

(* Divides is what % tells. *)
LEMMA DividesIsMod ==
  ASSUME NEW n \in Nat, NEW d \in Nat \ {0}
  PROVE  n % d = 0 <=> Divides(d, n)
<1>1. ASSUME n % d = 0
      PROVE  Divides(d, n)
  <2>1. n \div d \in Nat /\ n = d * (n \div d) + (n % d)
    BY Division
  <2>2. d * (n \div d) \in Nat
    BY <2>1, Times
  <2>3. n = d * (n \div d)
    BY <1>1, <2>1, <2>2
  <2> QED BY <2>1, <2>3 DEF Divides
<1>2. ASSUME Divides(d, n)
      PROVE  n % d = 0
  <2>1. PICK q \in Nat : n = d * q
    BY <1>2 DEF Divides
  <2>2. d * q \in Nat /\ d * q + 0 = d * q
    BY Times
  <2>3. (d * q + 0) % d = 0
    BY Quotient
  <2> QED BY <2>1, <2>2, <2>3
<1> QED BY <1>1, <1>2

(* A multiple that is smaller is nothing. *)
LEMMA SmallMultiple ==
  ASSUME NEW n \in Nat, NEW d \in Nat \ {0}, Divides(d, n), n < d
  PROVE  n = 0
<1>1. n % d = 0 /\ n % d = n
  BY DividesIsMod, Division
<1> QED BY <1>1

(* even and odd *)
LEMMA Parity ==
  ASSUME NEW n \in Nat
  PROVE  \/ n % 2 = 0 /\ \E k \in Nat : n = 2 * k
         \/ n % 2 = 1 /\ \E k \in Nat : n = 2 * k + 1
<1>1. n \div 2 \in Nat /\ n = 2 * (n \div 2) + (n % 2) /\ n % 2 \in 0 .. 1
  OBVIOUS
<1>2. CASE n % 2 = 0
  BY <1>1, <1>2
<1>3. CASE n % 2 = 1
  BY <1>1, <1>3
<1> QED BY <1>1, <1>2, <1>3

(* A number is even or odd. *)
LEMMA EvenOrOdd ==
  ASSUME NEW k \in Nat
  PROVE  (2 * k) % 2 = 0 /\ (2 * k + 1) % 2 = 1
  OBVIOUS

(* the halves of a power of 2 *)
LEMMA HalfPower ==
  ASSUME NEW m \in Nat, IsPowerOf2(m), m # 1
  PROVE  \E n \in Nat \ {0} : n < m /\ m = 2 * n /\ IsPowerOf2(n)
<1>1. m >= 2 /\ m \in 2 .. m
  BY DEF IsPowerOf2
<1>2. m % 2 = 0
  <2>1. Divides(m, m)
    BY m = m * 1, 1 \in Nat DEF Divides
  <2>2. m % m = 0
    BY <1>1, <2>1, DividesIsMod
  <2> QED BY <1>1, <2>2 DEF IsPowerOf2
<1>3. PICK n \in Nat : m = 2 * n
  BY <1>2, Parity
<1>4. n \in Nat \ {0} /\ n < m
  BY <1>1, <1>3
<1>5. ASSUME NEW d \in 2 .. n, n % d = 0
      PROVE  d % 2 = 0
  <2>1. d \in Nat \ {0}
    BY <1>5
  <2>2. PICK q \in Nat : n = d * q
    BY <1>5, <2>1, DividesIsMod DEF Divides
  <2>3. 2 * (d * q) = d * (2 * q) /\ 2 * q \in Nat
    BY <2>1
  <2>4. Divides(d, m)
    BY <1>3, <2>2, <2>3 DEF Divides
  <2>5. m % d = 0 /\ d \in 2 .. m
    BY <1>4, <2>1, <2>4, DividesIsMod
  <2> QED BY <2>5 DEF IsPowerOf2
<1>6. IsPowerOf2(n)
  BY <1>4, <1>5 DEF IsPowerOf2
<1> QED BY <1>3, <1>4, <1>6

(* An odd factor does not help to divide by a power of 2. *)
LEMMA OddFactor ==
  ASSUME NEW a \in Nat, a % 2 = 1
  PROVE  \A m \in Nat \ {0}, b \in Nat : IsPowerOf2(m) /\ Divides(m, a * b) => Divides(m, b)
<1> DEFINE Bad == {m \in Nat : /\ m # 0 /\ IsPowerOf2(m)
                              /\ \E b \in Nat : Divides(m, a * b) /\ ~ Divides(m, b)}
<1>1. SUFFICES ASSUME Bad # {} PROVE FALSE
  OBVIOUS
<1>2. PICK m \in Bad : \A n \in Bad : m <= n
  <2>1. Bad \in SUBSET Nat
    OBVIOUS
  <2> HIDE DEF Bad
  <2> QED BY <1>1, <2>1, Least
<1>3. PICK b \in Nat : Divides(m, a * b) /\ ~ Divides(m, b)
  OBVIOUS
<1>4. m \in Nat /\ m # 0 /\ IsPowerOf2(m)
  OBVIOUS
<1>5. m # 1
  <2>1. b = 1 * b
    OBVIOUS
  <2> QED BY <1>3, <2>1 DEF Divides
<1>6. PICK n \in Nat \ {0} : n < m /\ m = 2 * n /\ IsPowerOf2(n)
  BY <1>4, <1>5, HalfPower
<1>7. PICK q \in Nat : a * b = m * q
  BY <1>3 DEF Divides
<1>8. PICK c \in Nat : a = 2 * c + 1
  BY Parity
<1>9. b % 2 = 0
  <2> SUFFICES ASSUME b % 2 = 1 PROVE FALSE
    BY Parity
  <2>1. PICK e \in Nat : b = 2 * e + 1
    BY Parity
  <2>2. (2 * c + 1) * (2 * e + 1) = 2 * (c * (2 * e + 1) + e) + 1
    OBVIOUS
  <2>3. m * q = 2 * (n * q)
    BY <1>4, <1>6
  <2>4. c * (2 * e + 1) + e \in Nat /\ n * q \in Nat
    BY <1>6
  <2>5. (m * q) % 2 = 0
    BY <2>3, <2>4, EvenOrOdd
  <2>6. (a * b) % 2 = 1
    BY <1>8, <2>1, <2>2, <2>4, EvenOrOdd
  <2> QED BY <1>7, <2>5, <2>6
<1>10. PICK e \in Nat : b = 2 * e
  BY <1>9, Parity
<1>11. a * e = n * q
  <2>1. a * b = 2 * (a * e) /\ m * q = 2 * (n * q) /\ a * e \in Nat /\ n * q \in Nat
    BY <1>6, <1>10
  <2> QED BY <1>7, <2>1
<1>12. Divides(n, a * e)
  BY <1>11 DEF Divides
<1>13. n \notin Bad
  <2> HIDE DEF Bad
  <2>1. ~ (m <= n)
    BY <1>4, <1>6
  <2> QED BY <1>2, <2>1
<1>14. Divides(n, e)
  BY <1>6, <1>12, <1>13
<1>15. PICK r \in Nat : e = n * r
  BY <1>14 DEF Divides
<1>16. b = m * r
  BY <1>6, <1>10, <1>15
<1> QED BY <1>3, <1>16 DEF Divides

(* twice a power of 2 *)
LEMMA TwicePower ==
  ASSUME NEW n \in Nat, IsPowerOf2(n)
  PROVE  IsPowerOf2(2 * n) /\ n \in Nat \ {0} /\ 2 * n \in Nat \ {0}
<1>1. n \in Nat \ {0} /\ 2 * n \in Nat \ {0}
  BY DEF IsPowerOf2
<1>2. ASSUME NEW d \in 2 .. 2 * n, (2 * n) % d = 0, d % 2 = 1
      PROVE  FALSE
  <2>1. d \in Nat \ {0}
    BY <1>2
  <2>2. PICK q \in Nat : 2 * n = d * q
    BY <1>1, <1>2, <2>1, DividesIsMod DEF Divides
  <2>3. PICK c \in Nat : d = 2 * c + 1
    BY <1>2, <2>1, Parity
  <2>4. q % 2 = 0
    <3> SUFFICES ASSUME q % 2 = 1 PROVE FALSE
      BY Parity
    <3>1. PICK e \in Nat : q = 2 * e + 1
      BY Parity
    <3>2. (2 * c + 1) * (2 * e + 1) = 2 * (c * (2 * e + 1) + e) + 1
      OBVIOUS
    <3>3. c * (2 * e + 1) + e \in Nat
      OBVIOUS
    <3>4. (2 * n) % 2 = 0
      BY EvenOrOdd
    <3>5. (d * q) % 2 = 1
      BY <2>3, <3>1, <3>2, <3>3, EvenOrOdd
    <3> QED BY <2>2, <3>4, <3>5
  <2>5. PICK r \in Nat : q = 2 * r
    BY <2>4, Parity
  <2>6. n = d * r
    <3>1. d * q = 2 * (d * r) /\ d * r \in Nat
      BY <2>1, <2>5
    <3> QED BY <2>2, <3>1
  <2>7. n % d = 0
    BY <2>1, <2>6, DividesIsMod DEF Divides
  <2>8. d <= n
    <3>1. r # 0
      <4>1. d * 0 = 0
        BY <2>1
      <4> QED BY <1>1, <2>6, <4>1
    <3>2. d * 1 <= d * r
      BY <2>1, <3>1, Times
    <3>3. d * 1 = d
      BY <2>1
    <3> QED BY <2>6, <3>2, <3>3
  <2>9. d \in 2 .. n
    BY <2>1, <2>8
  <2> QED BY <1>2, <2>7, <2>9 DEF IsPowerOf2
<1>3. \A d \in 2 .. 2 * n : d \in Nat
  OBVIOUS
<1> QED BY <1>1, <1>2, <1>3, Parity DEF IsPowerOf2

(* the i-th triangular number, which the first i probes add up to *)
LEMMA Triangle ==
  ASSUME NEW i \in Nat
  PROVE  (i * (i + 1)) \div 2 \in Nat /\ 2 * ((i * (i + 1)) \div 2) = i * (i + 1)
<1>1. \E t \in Nat : i * (i + 1) = 2 * t
  <2>1. CASE \E k \in Nat : i = 2 * k
    <3>1. PICK k \in Nat : i = 2 * k
      BY <2>1
    <3>2. i * (i + 1) = 2 * (k * (i + 1)) /\ k * (i + 1) \in Nat
      BY <3>1
    <3> QED BY <3>2
  <2>2. CASE \E k \in Nat : i = 2 * k + 1
    <3>1. PICK k \in Nat : i = 2 * k + 1
      BY <2>2
    <3>2. i + 1 = 2 * (k + 1)
      BY <3>1
    <3>3. i * (2 * (k + 1)) = 2 * (i * (k + 1)) /\ i * (k + 1) \in Nat
      OBVIOUS
    <3> QED BY <3>2, <3>3
  <2> QED BY <2>1, <2>2, Parity
<1>2. PICK t \in Nat : i * (i + 1) = 2 * t
  BY <1>1
<1>3. (2 * t + 0) \div 2 = t
  BY Quotient
<1>4. 2 * t + 0 = 2 * t
  OBVIOUS
<1> QED BY <1>2, <1>3, <1>4

(* Two numbers with one remainder differ by a multiple. *)
LEMMA SameRemainder ==
  ASSUME NEW n \in Nat \ {0}, NEW x \in Nat, NEW y \in Nat, x <= y, x % n = y % n
  PROVE  Divides(n, y - x)
<1> DEFINE p == x \div n
           q == y \div n
           r == x % n
<1>1. p \in Nat /\ q \in Nat /\ r \in 0 .. n - 1 /\ x = n * p + r /\ y = n * q + r
  BY Division
<1> HIDE DEF p, q, r
<1>2. n * p \in Nat /\ n * q \in Nat
  BY <1>1, Times
<1>3. p <= q
  <2> SUFFICES ASSUME q + 1 <= p PROVE FALSE
    BY <1>1
  <2>1. n * (q + 1) <= n * p
    BY <1>1, Times
  <2>2. n * (q + 1) = n * q + n
    BY <1>1
  <2> QED BY <1>1, <1>2, <2>1, <2>2
<1>4. PICK c \in Nat : q = p + c
  BY <1>1, <1>3, q - p \in Nat
<1>5. n * q = n * p + n * c /\ n * c \in Nat
  BY <1>1, <1>4, Times
<1>6. y - x = n * c
  BY <1>1, <1>2, <1>5
<1> QED BY <1>6 DEF Divides

(* The first n probes of a table of n buckets are all different. *)
LEMMA ProbesDiffer ==
  ASSUME NEW n \in Nat, IsPowerOf2(n), NEW h \in Nat, NEW i \in Nat, NEW j \in Nat,
         i < j, j < n
  PROVE  (h + (i * (i + 1)) \div 2) % n # (h + (j * (j + 1)) \div 2) % n
<1> DEFINE s == (i * (i + 1)) \div 2
           t == (j * (j + 1)) \div 2
<1>1. s \in Nat /\ t \in Nat /\ 2 * s = i * (i + 1) /\ 2 * t = j * (j + 1)
  BY Triangle
<1>2. PICK a \in Nat : j = i + a /\ a # 0 /\ a < n
  BY j - i \in Nat
<1> DEFINE b == i + j + 1
<1>3. b \in Nat /\ b # 0 /\ b < 2 * n /\ a < 2 * n /\ 2 * n \in Nat \ {0} /\ n \in Nat \ {0}
  BY <1>2
<1>4. j * (j + 1) = i * (i + 1) + a * b
  BY <1>2
<1>5. a * b \in Nat
  BY <1>2
<1>6. SUFFICES ASSUME (h + s) % n = (h + t) % n PROVE FALSE
  OBVIOUS
<1>7. s <= t /\ h + s <= h + t /\ h + s \in Nat /\ h + t \in Nat /\ (h + t) - (h + s) = t - s
      /\ 2 * (t - s) = a * b /\ t - s \in Nat
  <2> HIDE DEF s, t, b
  <2> DEFINE u == i * (i + 1)
             v == j * (j + 1)
             w == a * b
  <2>1. u = 2 * s /\ v = 2 * t /\ v = u + w /\ w \in Nat
    BY <1>1, <1>4, <1>5
  <2> HIDE DEF u, v, w
  <2>2. s <= t /\ 2 * (t - s) = w
    BY <1>1, <2>1
  <2> QED BY <1>1, <2>2 DEF w
<1> HIDE DEF s, t
<1>8. PICK q \in Nat : t - s = n * q
  <2>1. Divides(n, (h + t) - (h + s))
    BY <1>3, <1>6, <1>7, SameRemainder
  <2> QED BY <1>7, <2>1 DEF Divides
<1>9. Divides(2 * n, a * b)
  <2>1. a * b = 2 * (n * q)
    BY <1>7, <1>8
  <2>2. 2 * (n * q) = (2 * n) * q
    OBVIOUS
  <2> QED BY <2>1, <2>2 DEF Divides
<1>10. IsPowerOf2(2 * n)
  BY TwicePower
<1>11. CASE a % 2 = 1
  <2> HIDE DEF b
  <2>1. Divides(2 * n, b)
    BY <1>3, <1>9, <1>10, <1>11, OddFactor
  <2> QED BY <1>3, <2>1, SmallMultiple
<1>12. CASE a % 2 = 0
  <2>1. PICK c \in Nat : a = 2 * c
    BY <1>2, <1>12, Parity
  <2>2. b = 2 * (i + c) + 1 /\ i + c \in Nat
    BY <1>2, <2>1
  <2> HIDE DEF b
  <2>3. b % 2 = 1
    BY <2>2, EvenOrOdd
  <2>4. Divides(2 * n, b * a)
    BY <1>3, <1>9, b * a = a * b
  <2>5. Divides(2 * n, a)
    BY <1>3, <1>10, <2>3, <2>4, OddFactor
  <2> QED BY <1>2, <1>3, <2>5, SmallMultiple
<1> QED BY <1>2, <1>11, <1>12, Parity

(***************************************************************************)
(* StringMap: tables                                                       *)
(***************************************************************************)

(* a table of n buckets *)
Table(t, n) == n \in Nat /\ IsPowerOf2(n) /\ t \in [0 .. n - 1 -> Bucket]

(* In a table as large as a power of 2 the probes visit every bucket. *)
LEMMA ProbesVisit ==
  ASSUME NEW t, NEW n, Table(t, n), NEW h \in Nat
  PROVE  /\ n \in Nat \ {0} /\ DOMAIN t = 0 .. n - 1 /\ Cardinality(DOMAIN t) = n
         /\ \A i \in 0 .. n - 1 : Probe(t, h, i) \in 0 .. n - 1
         /\ \A b \in 0 .. n - 1 : \E i \in 0 .. n - 1 : Probe(t, h, i) = b
<1>1. n \in Nat \ {0} /\ DOMAIN t = 0 .. n - 1
  BY DEF Table, IsPowerOf2
<1>2. IsFiniteSet(0 .. n - 1) /\ Cardinality(0 .. n - 1) = n
  <2>1. 0 \in Int /\ n - 1 \in Int /\ ~ (0 > n - 1) /\ n - 1 - 0 + 1 = n
    BY <1>1
  <2> QED BY <2>1, FS_Interval
<1>3. Cardinality(DOMAIN t) = n
  BY <1>1, <1>2
<1>4. \A i \in Nat : Probe(t, h, i) = (h + (i * (i + 1)) \div 2) % n
  BY <1>3 DEF Probe
<1>5. \A i \in 0 .. n - 1 : Probe(t, h, i) \in 0 .. n - 1
  <2> SUFFICES ASSUME NEW i \in 0 .. n - 1 PROVE Probe(t, h, i) \in 0 .. n - 1
    OBVIOUS
  <2>1. i \in Nat
    OBVIOUS
  <2> DEFINE s == (i * (i + 1)) \div 2
  <2>2. s \in Nat /\ Probe(t, h, i) = (h + s) % n
    BY <1>4, <2>1, Triangle
  <2> HIDE DEF s
  <2>3. h + s \in Nat
    BY <2>2
  <2> QED BY <1>1, <2>2, <2>3, Division
<1> DEFINE S == 0 .. n - 1
           f == [i \in S |-> Probe(t, h, i)]
<1>6. f \in [S -> S]
  BY <1>5
<1>7. \A i, j \in S : f[i] = f[j] => i = j
  <2> SUFFICES ASSUME NEW i \in S, NEW j \in S, i < j, f[i] = f[j] PROVE FALSE
    <3>1. \A i, j \in S : i < j \/ j < i \/ i = j
      OBVIOUS
    <3> QED BY <3>1
  <2>1. i \in Nat /\ j \in Nat /\ j < n
    BY <1>1
  <2>2. Probe(t, h, i) = Probe(t, h, j)
    OBVIOUS
  <2> QED BY <1>4, <2>1, <2>2, ProbesDiffer DEF Table
<1> HIDE DEF f
<1>8. f \in Surjection(S, S)
  <2>1. f \in Injection(S, S)
    BY <1>6, <1>7 DEF Injection, IsInjective
  <2> HIDE DEF S
  <2> QED BY <1>2, <2>1, FS_Injection DEF S
<1>9. \A b \in S : \E i \in S : f[i] = b
  BY <1>8 DEF Surjection
<1> QED BY <1>1, <1>3, <1>5, <1>9 DEF f

(* the buckets with an entry, those with a tombstone, and the entries *)
Entries(t) == {b \in DOMAIN t : t[b].kind = "entry"}
Tombs(t) == {b \in DOMAIN t : t[b] = Tombstone}
Contents(t) == {t[b] : b \in Entries(t)}

(* No key has two entries. *)
Unique(t) == \A b, c \in Entries(t) : t[b].key = t[c].key => b = c

(* Bucket b is met by the probes for k before an empty one. *)
Met(t, k, b) ==
  \E i \in DOMAIN t :
    /\ Probe(t, hash[k], i) = b
    /\ \A j \in 0 .. i - 1 : t[Probe(t, hash[k], j)] # NoEntry

Reached(t) == \A b \in Entries(t) : Met(t, t[b].key, b)

HasEmpty(t) == \E b \in DOMAIN t : t[b] = NoEntry

HashOK == hash \in [Keys -> Nat]

(* what a bucket may be *)
LEMMA BucketKinds ==
  ASSUME NEW x \in Bucket
  PROVE  /\ x.kind \in {"empty", "tombstone", "entry"}
         /\ x.kind = "empty" <=> x = NoEntry
         /\ x.kind = "tombstone" <=> x = Tombstone
         /\ x.kind = "entry" => /\ x.key \in Keys /\ x.value \in Values
                                /\ x = Entry(x.key, x.value)
  BY DEF Bucket, NoEntry, Tombstone, Entry

(* The three kinds of buckets differ. *)
LEMMA BucketNew ==
  /\ NoEntry \in Bucket /\ NoEntry.kind = "empty"
  /\ Tombstone \in Bucket /\ Tombstone.kind = "tombstone" /\ Tombstone # NoEntry
  /\ \A k \in Keys, v \in Values :
       /\ Entry(k, v) \in Bucket /\ Entry(k, v).kind = "entry"
       /\ Entry(k, v).key = k /\ Entry(k, v).value = v
       /\ Entry(k, v) # NoEntry /\ Entry(k, v) # Tombstone
  BY DEF Bucket, NoEntry, Tombstone, Entry

(* the buckets with an entry and those with a tombstone can be counted *)
LEMMA CountedTable ==
  ASSUME NEW t, NEW n, Table(t, n)
  PROVE  /\ IsFiniteSet(Entries(t)) /\ Cardinality(Entries(t)) \in Nat
         /\ IsFiniteSet(Tombs(t)) /\ Cardinality(Tombs(t)) \in Nat
         /\ IsFiniteSet(DOMAIN t) /\ Cardinality(DOMAIN t) = n
         /\ n \in Nat \ {0} /\ DOMAIN t = 0 .. n - 1
<1>1. n \in Nat \ {0} /\ DOMAIN t = 0 .. n - 1 /\ Cardinality(DOMAIN t) = n
  BY ProbesVisit, 0 \in Nat
<1>2. IsFiniteSet(DOMAIN t)
  BY <1>1, FS_Interval
<1>3. Entries(t) \in SUBSET DOMAIN t /\ Tombs(t) \in SUBSET DOMAIN t
  BY DEF Entries, Tombs
<1>4. IsFiniteSet(Entries(t)) /\ IsFiniteSet(Tombs(t))
  BY <1>2, <1>3, FS_Subset
<1> QED BY <1>1, <1>2, <1>4, FS_CardinalityType

(* A table with fewer entries and tombstones than buckets has an empty one. *)
LEMMA SomeEmpty ==
  ASSUME NEW t, NEW n, Table(t, n), Cardinality(Entries(t)) + Cardinality(Tombs(t)) < n
  PROVE  HasEmpty(t)
<1> SUFFICES ASSUME ~ HasEmpty(t) PROVE FALSE
  OBVIOUS
<1>1. \A b \in DOMAIN t : t[b] \in Bucket
  BY DEF Table
<1>2. \A b \in DOMAIN t : b \in Entries(t) \/ b \in Tombs(t)
  BY <1>1, BucketKinds DEF HasEmpty, Entries, Tombs
<1>3. DOMAIN t = Entries(t) \cup Tombs(t)
  BY <1>2 DEF Entries, Tombs
<1>4. Entries(t) \cap Tombs(t) = {}
  BY BucketNew DEF Entries, Tombs
<1>5. Cardinality(Entries(t) \cup Tombs(t))
      = Cardinality(Entries(t)) + Cardinality(Tombs(t)) - Cardinality(Entries(t) \cap Tombs(t))
  BY CountedTable, FS_Union
<1>6. Cardinality(Entries(t) \cap Tombs(t)) = 0
  BY <1>4, FS_EmptySet
<1> QED BY <1>3, <1>5, <1>6, CountedTable

(* where the probes for a key end *)
LEMMA EndsFacts ==
  ASSUME NEW t, NEW n, Table(t, n), HasEmpty(t), HashOK, NEW k \in Keys
  PROVE  LET last == Min(Ends(t, k))
             end == Probe(t, hash[k], last)
         IN  /\ Ends(t, k) # {}
             /\ last \in 0 .. n - 1 /\ last \in DOMAIN t /\ end \in 0 .. n - 1 /\ end \in DOMAIN t
             /\ t[end] = NoEntry \/ Holds(t[end], k)
             /\ \A j \in 0 .. last - 1 :
                  /\ t[Probe(t, hash[k], j)] # NoEntry
                  /\ ~ Holds(t[Probe(t, hash[k], j)], k)
<1> DEFINE last == Min(Ends(t, k))
           end == Probe(t, hash[k], last)
<1>1. hash[k] \in Nat
  BY DEF HashOK
<1>2. /\ n \in Nat \ {0} /\ DOMAIN t = 0 .. n - 1
      /\ \A i \in 0 .. n - 1 : Probe(t, hash[k], i) \in 0 .. n - 1
      /\ \A b \in 0 .. n - 1 : \E i \in 0 .. n - 1 : Probe(t, hash[k], i) = b
  BY <1>1, ProbesVisit, ZenonT(40)
<1>3. \A i \in 0 .. n - 1 : t[Probe(t, hash[k], i)] \in Bucket
  BY <1>2 DEF Table
<1>4. Ends(t, k) \subseteq 0 .. n - 1
  BY <1>2 DEF Ends, Probes
<1>5. \A i \in 0 .. n - 1 :
        i \in Ends(t, k) <=> \/ t[Probe(t, hash[k], i)] = NoEntry
                             \/ Holds(t[Probe(t, hash[k], i)], k)
  BY <1>2, <1>3, BucketKinds DEF Ends, Probes
<1>6. Ends(t, k) # {}
  <2>1. PICK b \in 0 .. n - 1 : t[b] = NoEntry
    BY <1>2 DEF HasEmpty
  <2>2. PICK i \in 0 .. n - 1 : Probe(t, hash[k], i) = b
    BY <1>2
  <2> QED BY <1>5, <2>1, <2>2
<1>7. last \in Ends(t, k) /\ \A i \in Ends(t, k) : last <= i
  BY <1>4, <1>6, Least
<1> HIDE DEF last
<1>8. last \in 0 .. n - 1
  BY <1>4, <1>7
<1>9. \A j \in 0 .. last - 1 : j \in 0 .. n - 1 /\ j \notin Ends(t, k)
  <2> SUFFICES ASSUME NEW j \in 0 .. last - 1 PROVE j \in 0 .. n - 1 /\ j \notin Ends(t, k)
    OBVIOUS
  <2>1. j \in 0 .. n - 1 /\ ~ (last <= j)
    BY <1>2, <1>8
  <2> QED BY <1>7, <2>1
<1>10. end \in 0 .. n - 1 /\ (t[end] = NoEntry \/ Holds(t[end], k))
  BY <1>2, <1>5, <1>7, <1>8
<1>11. \A j \in 0 .. last - 1 : /\ t[Probe(t, hash[k], j)] # NoEntry
                               /\ ~ Holds(t[Probe(t, hash[k], j)], k)
  BY <1>5, <1>9
<1> QED BY <1>2, <1>6, <1>8, <1>10, <1>11 DEF last

(* The probes for a key that has an entry end there. *)
LEMMA EndsAtEntry ==
  ASSUME NEW t, NEW n, Table(t, n), HasEmpty(t), HashOK, Unique(t), Reached(t),
         NEW k \in Keys, NEW b \in DOMAIN t, Holds(t[b], k)
  PROVE  Probe(t, hash[k], Min(Ends(t, k))) = b
<1> DEFINE last == Min(Ends(t, k))
           end == Probe(t, hash[k], last)
<1>1. b \in Entries(t) /\ t[b].key = k
  BY DEF Holds, Entries
<1>2. PICK i \in DOMAIN t :
        /\ Probe(t, hash[k], i) = b
        /\ \A j \in 0 .. i - 1 : t[Probe(t, hash[k], j)] # NoEntry
  BY <1>1 DEF Reached, Met
<1>3. /\ last \in 0 .. n - 1 /\ end \in DOMAIN t
      /\ t[end] = NoEntry \/ Holds(t[end], k)
      /\ \A j \in 0 .. last - 1 : ~ Holds(t[Probe(t, hash[k], j)], k)
  BY EndsFacts
<1>4. DOMAIN t = 0 .. n - 1 /\ n \in Nat
  BY CountedTable
<1> HIDE DEF last
<1>5. last <= i
  <2> SUFFICES ASSUME i < last PROVE FALSE
    BY <1>3, <1>4
  <2>1. i \in 0 .. last - 1
    BY <1>3, <1>4
  <2> QED BY <1>2, <1>3, <2>1
<1>6. CASE last = i
  BY <1>2, <1>6 DEF last
<1>7. CASE last < i
  <2>1. last \in 0 .. i - 1
    BY <1>3, <1>4, <1>7
  <2>2. Holds(t[end], k)
    BY <1>2, <1>3, <2>1
  <2>3. end \in Entries(t) /\ t[end].key = k
    BY <1>3, <2>2 DEF Holds, Entries
  <2> QED BY <1>1, <2>3 DEF Unique, last
<1>8. last = i \/ last < i
  BY <1>3, <1>4, <1>5
<1> QED BY <1>6, <1>7, <1>8

(* FindKey finds the bucket of the key, and nothing else. *)
LEMMA FindFacts ==
  ASSUME NEW t, NEW n, Table(t, n), HasEmpty(t), HashOK, Unique(t), Reached(t), NEW k \in Keys
  PROVE  /\ FindKey(t, k) # -1 => FindKey(t, k) \in DOMAIN t /\ Holds(t[FindKey(t, k)], k)
         /\ \A b \in DOMAIN t : Holds(t[b], k) => FindKey(t, k) = b /\ b # -1
<1> DEFINE end == Probe(t, hash[k], Min(Ends(t, k)))
<1>1. DOMAIN t = 0 .. n - 1 /\ n \in Nat \ {0}
  BY CountedTable
<1>2. DOMAIN t # {} /\ Ends(t, k) # {} /\ end \in DOMAIN t
  <2>1. Ends(t, k) # {} /\ end \in DOMAIN t
    BY EndsFacts
  <2> QED BY <2>1
<1>3. FindKey(t, k) = IF Holds(t[end], k) THEN end ELSE -1
  BY <1>2 DEF FindKey
<1> HIDE DEF end
<1>4. \A b \in DOMAIN t : b # -1
  BY <1>1
<1>5. \A b \in DOMAIN t : Holds(t[b], k) => end = b
  BY EndsAtEntry DEF end
<1> QED BY <1>2, <1>3, <1>4, <1>5

(* LookupBucketFor finds the bucket of the key, or one that the probes for *)
(* it meet and that has no entry.                                          *)
LEMMA LookupFacts ==
  ASSUME NEW t, NEW n, Table(t, n), HasEmpty(t), HashOK, Unique(t), Reached(t), NEW k \in Keys
  PROVE  LET b == LookupBucketFor(t, k)
         IN  /\ b \in DOMAIN t
             /\ ~ Holds(t[b], k) => /\ t[b] = NoEntry \/ t[b] = Tombstone
                                    /\ \A c \in DOMAIN t : ~ Holds(t[c], k)
                                    /\ Met(t, k, b)
<1> DEFINE last == Min(Ends(t, k))
           end == Probe(t, hash[k], last)
           tombs == {i \in 0 .. last : t[Probe(t, hash[k], i)] = Tombstone}
           b == LookupBucketFor(t, k)
<1>1. /\ last \in 0 .. n - 1 /\ last \in DOMAIN t /\ end \in DOMAIN t
      /\ t[end] = NoEntry \/ Holds(t[end], k)
      /\ \A j \in 0 .. last - 1 : t[Probe(t, hash[k], j)] # NoEntry
  BY EndsFacts
<1>2. /\ n \in Nat \ {0} /\ DOMAIN t = 0 .. n - 1
      /\ \A i \in 0 .. n - 1 : Probe(t, hash[k], i) \in 0 .. n - 1
  BY ProbesVisit DEF HashOK
<1>3. b = IF Holds(t[end], k) \/ tombs = {} THEN end ELSE Probe(t, hash[k], Min(tombs))
  BY DEF LookupBucketFor
<1>4. \A c \in DOMAIN t : Holds(t[c], k) => end = c
  BY EndsAtEntry
<1>5. ~ Holds(NoEntry, k) /\ ~ Holds(Tombstone, k)
  BY BucketNew DEF Holds
<1> HIDE DEF last, b
<1>6. CASE Holds(t[end], k)
  BY <1>1, <1>3, <1>6 DEF b
<1>7. CASE ~ Holds(t[end], k) /\ tombs = {}
  <2>1. b = end /\ t[b] = NoEntry
    BY <1>1, <1>3, <1>7
  <2>2. Met(t, k, b)
    BY <1>1, <2>1 DEF Met
  <2>3. \A c \in DOMAIN t : ~ Holds(t[c], k)
    BY <1>4, <1>7
  <2> QED BY <1>1, <2>1, <2>2, <2>3 DEF b
<1>8. CASE ~ Holds(t[end], k) /\ tombs # {}
  <2> DEFINE i == Min(tombs)
  <2>1. i \in tombs
    <3>1. tombs \in SUBSET Nat
      BY <1>1
    <3> HIDE DEF tombs
    <3> QED BY <1>8, <3>1, Least
  <2>2. b = Probe(t, hash[k], i)
    BY <1>3, <1>8
  <2> HIDE DEF i
  <2>3. i \in 0 .. last /\ t[b] = Tombstone
    BY <2>1, <2>2
  <2>4. i \in 0 .. n - 1 /\ \A j \in 0 .. i - 1 : j \in 0 .. last - 1
    BY <1>1, <1>2, <2>3, SMTT(30)
  <2>5. b \in DOMAIN t
    BY <1>2, <2>2, <2>4
  <2>6. Met(t, k, b)
    BY <1>1, <1>2, <2>2, <2>4 DEF Met
  <2>7. \A c \in DOMAIN t : ~ Holds(t[c], k)
    BY <1>4, <1>8
  <2> QED BY <2>3, <2>5, <2>6, <2>7 DEF b
<1> QED BY <1>6, <1>7, <1>8

(* What is met stays so when no bucket becomes empty. *)
LEMMA StaysMet ==
  ASSUME NEW t, NEW n, Table(t, n), HashOK, NEW u, DOMAIN u = DOMAIN t,
         \A x \in DOMAIN t : t[x] # NoEntry => u[x] # NoEntry,
         NEW k \in Keys, NEW b, Met(t, k, b)
  PROVE  Met(u, k, b)
<1>1. PICK i \in DOMAIN t : /\ Probe(t, hash[k], i) = b
                            /\ \A j \in 0 .. i - 1 : t[Probe(t, hash[k], j)] # NoEntry
  BY DEF Met
<1>2. \A j : Probe(u, hash[k], j) = Probe(t, hash[k], j)
  BY DEF Probe
<1>3. \A j \in 0 .. i - 1 : Probe(t, hash[k], j) \in DOMAIN t
  <2>1. DOMAIN t = 0 .. n - 1 /\ n \in Nat /\ \A j \in 0 .. n - 1 : Probe(t, hash[k], j) \in 0 .. n - 1
    BY ProbesVisit DEF HashOK
  <2> QED BY <2>1
<1>4. \A j \in 0 .. i - 1 : u[Probe(u, hash[k], j)] # NoEntry
  BY <1>1, <1>2, <1>3
<1> QED BY <1>1, <1>2, <1>4 DEF Met

(* An entry in a bucket that had none and that the probes meet. *)
LEMMA PutFacts ==
  ASSUME NEW t, NEW n, Table(t, n), HashOK, Unique(t), Reached(t),
         NEW e \in Bucket, e.kind = "entry", NEW c \in DOMAIN t,
         t[c] = NoEntry \/ t[c] = Tombstone, Met(t, e.key, c),
         \A b \in DOMAIN t : ~ Holds(t[b], e.key)
  PROVE  LET u == [t EXCEPT ![c] = e]
         IN  /\ Table(u, n) /\ Unique(u) /\ Reached(u)
             /\ Entries(u) = Entries(t) \cup {c} /\ c \notin Entries(t)
             /\ Tombs(u) = Tombs(t) \ {c}
             /\ Contents(u) = Contents(t) \cup {e}
<1> DEFINE u == [t EXCEPT ![c] = e]
<1>1. DOMAIN u = DOMAIN t /\ u[c] = e /\ \A b \in DOMAIN t : b # c => u[b] = t[b]
  OBVIOUS
<1>2. Table(u, n)
  BY DEF Table
<1>3. t[c].kind # "entry" /\ e # Tombstone /\ e # NoEntry
  BY BucketNew
<1> HIDE DEF u
<1>4. Entries(u) = Entries(t) \cup {c} /\ c \notin Entries(t)
  BY <1>1, <1>3 DEF Entries
<1>5. Tombs(u) = Tombs(t) \ {c}
  BY <1>1, <1>3 DEF Tombs
<1>6. Contents(u) = Contents(t) \cup {e}
  <2>1. \A b \in Entries(t) : b # c /\ u[b] = t[b]
    BY <1>1, <1>4 DEF Entries
  <2> QED BY <1>1, <1>4, <2>1 DEF Contents
<1>7. Unique(u)
  <2> SUFFICES ASSUME NEW b \in Entries(u), NEW d \in Entries(u), u[b].key = u[d].key
               PROVE  b = d
    BY DEF Unique
  <2>1. \A x \in Entries(t) : t[x].key # e.key /\ x # c /\ u[x] = t[x]
    BY <1>1, <1>4 DEF Entries, Holds
  <2>2. CASE b = c /\ d # c
    BY <1>1, <1>4, <2>1, <2>2
  <2>3. CASE b # c /\ d = c
    BY <1>1, <1>4, <2>1, <2>3
  <2>4. CASE b # c /\ d # c
    BY <1>1, <1>4, <2>1, <2>4 DEF Unique
  <2> QED BY <2>2, <2>3, <2>4
<1>8. ASSUME NEW k \in Keys, NEW b, Met(t, k, b)
      PROVE  Met(u, k, b)
  <2>1. \A x \in DOMAIN t : t[x] # NoEntry => u[x] # NoEntry
    BY <1>1, <1>3
  <2> QED BY <1>1, <1>8, <2>1, StaysMet
<1>9. Reached(u)
  <2> SUFFICES ASSUME NEW b \in Entries(u) PROVE Met(u, u[b].key, b)
    BY DEF Reached
  <2>1. CASE b = c
    <3>1. e.key \in Keys
      BY BucketKinds
    <3> QED BY <1>1, <1>8, <2>1, <3>1
  <2>2. CASE b # c
    <3>1. b \in Entries(t) /\ u[b] = t[b] /\ t[b] \in Bucket /\ t[b].kind = "entry"
      BY <1>1, <1>4, <2>2 DEF Entries, Table
    <3>2. t[b].key \in Keys /\ Met(t, t[b].key, b)
      BY <3>1, BucketKinds DEF Reached
    <3> QED BY <1>8, <3>1, <3>2
  <2> QED BY <2>1, <2>2
<1> QED BY <1>2, <1>4, <1>5, <1>6, <1>7, <1>9 DEF u

(* A tombstone in place of an entry. *)
LEMMA BuryFacts ==
  ASSUME NEW t, NEW n, Table(t, n), HashOK, Unique(t), Reached(t), NEW c, c \in Entries(t),
         NEW u, u = [t EXCEPT ![c] = Tombstone]
  PROVE  /\ Table(u, n) /\ Unique(u) /\ Reached(u)
         /\ Entries(u) = Entries(t) \ {c}
         /\ Tombs(u) = Tombs(t) \cup {c} /\ c \notin Tombs(t)
<1>1. /\ c \in DOMAIN t /\ t[c].kind = "entry"
      /\ DOMAIN u = DOMAIN t /\ u[c] = Tombstone /\ \A b \in DOMAIN t : b # c => u[b] = t[b]
  BY DEF Entries
<1>2. Table(u, n)
  BY BucketNew DEF Table
<1>3. Entries(u) = Entries(t) \ {c}
  BY <1>1, BucketNew DEF Entries
<1>4. Tombs(u) = Tombs(t) \cup {c} /\ c \notin Tombs(t)
  BY <1>1, BucketNew DEF Tombs
<1>5. \A b \in Entries(u) : b \in Entries(t) /\ b # c /\ u[b] = t[b]
  BY <1>1, <1>3 DEF Entries
<1>6. Unique(u)
  BY <1>5 DEF Unique
<1>7. Reached(u)
  <2> SUFFICES ASSUME NEW b \in Entries(u) PROVE Met(u, u[b].key, b)
    BY DEF Reached
  <2>1. t[b] \in Bucket /\ t[b].kind = "entry" /\ u[b] = t[b] /\ Met(t, t[b].key, b)
    BY <1>5 DEF Entries, Table, Reached
  <2>2. t[b].key \in Keys
    BY <2>1, BucketKinds
  <2>3. \A x \in DOMAIN t : t[x] # NoEntry => u[x] # NoEntry
    BY <1>1, BucketNew
  <2> QED BY <1>1, <2>1, <2>2, <2>3, StaysMet
<1> QED BY <1>2, <1>3, <1>4, <1>6, <1>7

(* an empty table *)
LEMMA FreshFacts ==
  ASSUME NEW n \in Nat, IsPowerOf2(n)
  PROVE  /\ Table(Fresh(n), n) /\ Unique(Fresh(n)) /\ Reached(Fresh(n))
         /\ Entries(Fresh(n)) = {} /\ Tombs(Fresh(n)) = {} /\ Contents(Fresh(n)) = {}
<1>1. Table(Fresh(n), n)
  BY BucketNew DEF Table, Fresh
<1>2. \A b \in DOMAIN Fresh(n) : Fresh(n)[b] = NoEntry
  BY DEF Fresh
<1>3. Entries(Fresh(n)) = {} /\ Tombs(Fresh(n)) = {}
  BY <1>2, BucketNew DEF Entries, Tombs
<1> QED BY <1>1, <1>3 DEF Unique, Reached, Contents

(***************************************************************************)
(* StringMap: moving to another table                                      *)
(***************************************************************************)

(* A set of numbers with 0 and the next of each of its numbers is all.     *)
LEMMA EveryNumber ==
  ASSUME NEW S \in SUBSET Nat, 0 \in S, \A n \in S : n + 1 \in S
  PROVE  S = Nat
<1> DEFINE T == Nat \ S
<1>1. SUFFICES ASSUME T # {} PROVE FALSE
  OBVIOUS
<1>2. PICK m \in T : \A n \in T : m <= n
  <2>1. T \in SUBSET Nat
    OBVIOUS
  <2> HIDE DEF T
  <2> QED BY <1>1, <2>1, Least
<1>3. m \in Nat /\ m # 0 /\ m - 1 \in Nat /\ ~ (m <= m - 1) /\ (m - 1) + 1 = m
  OBVIOUS
<1>4. m - 1 \in S
  BY <1>2, <1>3
<1>5. (m - 1) + 1 \in S
  BY <1>4
<1> QED BY <1>3, <1>5

(* An entry is placed in an empty bucket. *)
LEMMA PlaceFacts ==
  ASSUME NEW u, NEW m, Table(u, m), HashOK, Unique(u), Reached(u), Tombs(u) = {},
         Cardinality(Entries(u)) < m, NEW e \in Bucket, e.kind = "entry",
         \A x \in Contents(u) : x.key # e.key
  PROVE  LET v == Place(u, e)
         IN  /\ Table(v, m) /\ Unique(v) /\ Reached(v) /\ Tombs(v) = {}
             /\ Contents(v) = Contents(u) \cup {e}
             /\ Cardinality(Entries(v)) = Cardinality(Entries(u)) + 1
<1> DEFINE k == e.key
           free == {i \in Probes(u) : u[Probe(u, hash[k], i)] = NoEntry}
           i == Min(free)
           c == Probe(u, hash[k], i)
<1>1. k \in Keys /\ hash[k] \in Nat
  BY BucketKinds DEF HashOK
<1>2. /\ m \in Nat \ {0} /\ DOMAIN u = 0 .. m - 1
      /\ \A j \in 0 .. m - 1 : Probe(u, hash[k], j) \in 0 .. m - 1
      /\ \A b \in 0 .. m - 1 : \E j \in 0 .. m - 1 : Probe(u, hash[k], j) = b
  BY <1>1, ProbesVisit, ZenonT(40)
<1>3. HasEmpty(u)
  <2>1. Cardinality(Tombs(u)) = 0
    BY FS_EmptySet
  <2>2. Cardinality(Entries(u)) + Cardinality(Tombs(u)) < m
    BY <2>1, CountedTable
  <2> QED BY <2>2, SomeEmpty
<1>4. free \in SUBSET Nat /\ free # {} /\ free \subseteq 0 .. m - 1
  <2>1. PICK b \in 0 .. m - 1 : u[b] = NoEntry
    BY <1>2, <1>3 DEF HasEmpty
  <2>2. PICK j \in 0 .. m - 1 : Probe(u, hash[k], j) = b
    BY <1>2
  <2>3. j \in free
    BY <1>2, <2>1, <2>2 DEF Probes
  <2>4. free \subseteq 0 .. m - 1
    BY <1>2 DEF Probes
  <2>5. 0 .. m - 1 \subseteq Nat
    BY <1>2
  <2> HIDE DEF free
  <2> QED BY <2>3, <2>4, <2>5
<1>5. i \in free /\ \A j \in free : i <= j
  <2> HIDE DEF free
  <2> QED BY <1>4, Least
<1>6. Place(u, e) = [u EXCEPT ![c] = e]
  BY DEF Place
<1> HIDE DEF i
<1>7. i \in 0 .. m - 1 /\ u[c] = NoEntry /\ c \in DOMAIN u
  BY <1>2, <1>4, <1>5
<1>8. Met(u, k, c)
  <2>1. \A j \in 0 .. i - 1 : u[Probe(u, hash[k], j)] # NoEntry
    <3> SUFFICES ASSUME NEW j \in 0 .. i - 1 PROVE u[Probe(u, hash[k], j)] # NoEntry
      OBVIOUS
    <3>1. j \in 0 .. m - 1 /\ ~ (i <= j)
      BY <1>2, <1>7
    <3>2. j \notin free
      BY <1>5, <3>1
    <3> QED BY <1>2, <3>1, <3>2 DEF Probes
  <2> QED BY <1>2, <1>7, <2>1 DEF Met
<1>9. \A b \in DOMAIN u : ~ Holds(u[b], k)
  BY DEF Holds, Contents, Entries
<1> HIDE DEF c, k, free
<1> DEFINE v == [u EXCEPT ![c] = e]
<1>10. /\ Table(v, m) /\ Unique(v) /\ Reached(v)
       /\ Entries(v) = Entries(u) \cup {c} /\ c \notin Entries(u)
       /\ Tombs(v) = Tombs(u) \ {c}
       /\ Contents(v) = Contents(u) \cup {e}
  BY <1>7, <1>8, <1>9, PutFacts DEF k
<1> HIDE DEF v
<1>11. Cardinality(Entries(v)) = Cardinality(Entries(u)) + 1
  BY <1>10, CountedTable, FS_AddElement
<1> QED BY <1>6, <1>10, <1>11 DEF v

(* the table after its first n buckets were moved *)
IsMoved(f, t, size, m) ==
  f = [n \in 0 .. m |-> IF n = 0 THEN Fresh(size) ELSE Place(f[n - 1], t[n - 1])]

(* Rehashed moves the buckets one after another. *)
LEMMA MovedExists ==
  ASSUME NEW t, NEW size
  PROVE  \A m \in Nat : \E f : IsMoved(f, t, size, m)
<1> DEFINE S == {m \in Nat : \E f : IsMoved(f, t, size, m)}
<1>1. 0 \in S
  <2> DEFINE f == [n \in 0 .. 0 |-> Fresh(size)]
  <2>1. IsMoved(f, t, size, 0)
    BY DEF IsMoved
  <2> QED BY <2>1
<1>2. ASSUME NEW m \in S
      PROVE  m + 1 \in S
  <2>1. PICK f : IsMoved(f, t, size, m)
    OBVIOUS
  <2> DEFINE g == [n \in 0 .. m + 1 |-> IF n <= m THEN f[n] ELSE Place(f[m], t[m])]
  <2>2. m \in Nat
    OBVIOUS
  <2>3. \A n \in 0 .. m : g[n] = f[n]
    BY <2>2
  <2>4. \A n \in 0 .. m : f[n] = IF n = 0 THEN Fresh(size) ELSE Place(f[n - 1], t[n - 1])
    BY <2>1 DEF IsMoved
  <2>5. ASSUME NEW n \in 0 .. m + 1
        PROVE  g[n] = IF n = 0 THEN Fresh(size) ELSE Place(g[n - 1], t[n - 1])
    <3>1. CASE n <= m
      <4>1. n \in 0 .. m /\ (n = 0 \/ n - 1 \in 0 .. m)
        BY <2>2, <3>1
      <4>2. g[n] = f[n] /\ (n = 0 \/ g[n - 1] = f[n - 1])
        BY <2>3, <4>1
      <4> HIDE DEF g
      <4> QED BY <2>4, <4>1, <4>2
    <3>2. CASE n = m + 1
      <4>1. m \in 0 .. m /\ n # 0 /\ ~ (n <= m) /\ n - 1 = m
        BY <2>2, <3>2
      <4>2. g[n] = Place(f[m], t[m]) /\ g[m] = f[m]
        BY <2>3, <4>1
      <4> HIDE DEF g
      <4> QED BY <4>1, <4>2
    <3> QED BY <2>2, <3>1, <3>2
  <2>6. g = [n \in 0 .. m + 1 |-> g[n]]
    OBVIOUS
  <2> HIDE DEF g
  <2>7. g = [n \in 0 .. m + 1 |-> IF n = 0 THEN Fresh(size) ELSE Place(g[n - 1], t[n - 1])]
    BY <2>5, <2>6
  <2>8. IsMoved(g, t, size, m + 1)
    BY <2>7 DEF IsMoved
  <2> QED BY <2>2, <2>8
<1> HIDE DEF S
<1>3. S \in SUBSET Nat
  BY DEF S
<1>4. S = Nat
  BY <1>1, <1>2, <1>3, EveryNumber
<1> QED BY <1>4 DEF S

(* RehashTable: the entries, all of them and no more, in a table without   *)
(* tombstones.                                                             *)
LEMMA RehashFacts ==
  ASSUME NEW t, NEW n, Table(t, n), HashOK, Unique(t),
         NEW m \in Nat, IsPowerOf2(m), Cardinality(Entries(t)) < m
  PROVE  LET v == Rehashed(t, m)
         IN  /\ Table(v, m) /\ Unique(v) /\ Reached(v) /\ Tombs(v) = {}
             /\ Contents(v) = Contents(t)
             /\ Cardinality(Entries(v)) = Cardinality(Entries(t))
<1>1. /\ n \in Nat \ {0} /\ DOMAIN t = 0 .. n - 1 /\ Cardinality(DOMAIN t) = n
      /\ IsFiniteSet(Entries(t)) /\ Cardinality(Entries(t)) \in Nat
  BY CountedTable
<1> DEFINE moved == CHOOSE f : IsMoved(f, t, m, n)
<1>2. Rehashed(t, m) = moved[n]
  BY <1>1 DEF Rehashed, IsMoved
<1>3. IsMoved(moved, t, m, n)
  <2>1. \E f : IsMoved(f, t, m, n)
    BY <1>1, MovedExists
  <2> QED BY <2>1
<1> HIDE DEF moved
<1>4. moved[0] = Fresh(m) /\ \A i \in 0 .. n - 1 : moved[i + 1] = Place(moved[i], t[i])
  <2>1. \A i \in 0 .. n : moved[i] = IF i = 0 THEN Fresh(m) ELSE Place(moved[i - 1], t[i - 1])
    BY <1>3 DEF IsMoved
  <2>2. 0 \in 0 .. n /\ \A i \in 0 .. n - 1 : i + 1 \in 0 .. n /\ i + 1 # 0 /\ (i + 1) - 1 = i
    BY <1>1
  <2> HIDE DEF IsMoved
  <2>3. moved[0] = Fresh(m)
    BY <2>1, <2>2
  <2>4. ASSUME NEW i \in 0 .. n - 1
        PROVE  moved[i + 1] = Place(moved[i], t[i])
    <3>1. moved[i + 1] = IF i + 1 = 0 THEN Fresh(m) ELSE Place(moved[(i + 1) - 1], t[(i + 1) - 1])
      BY <2>1, <2>2
    <3> QED BY <2>2, <3>1
  <2> QED BY <2>3, <2>4
<1> DEFINE EntriesBefore(i) == {b \in Entries(t) : b < i}
           Good(i) == /\ Table(moved[i], m) /\ Unique(moved[i]) /\ Reached(moved[i])
                      /\ Tombs(moved[i]) = {}
                      /\ Contents(moved[i]) = {t[b] : b \in EntriesBefore(i)}
                      /\ Cardinality(Entries(moved[i])) = Cardinality(EntriesBefore(i))
           S == {i \in Nat : i <= n => Good(i)}
<1>5. 0 \in S
  <2>1. EntriesBefore(0) = {}
    BY <1>1 DEF Entries
  <2> HIDE DEF EntriesBefore
  <2>2. Good(0)
    BY <1>4, <2>1, FreshFacts
  <2> QED BY <2>2
<1>6. ASSUME NEW i \in S
      PROVE  i + 1 \in S
  <2> SUFFICES ASSUME i + 1 <= n PROVE Good(i + 1)
    OBVIOUS
  <2>1. i \in Nat /\ i \in 0 .. n - 1 /\ i \in DOMAIN t
    BY <1>1
  <2>2. Good(i)
    BY <1>1, <2>1
  <2>3. moved[i + 1] = Place(moved[i], t[i])
    BY <1>4, <2>1
  <2>4. EntriesBefore(i + 1) = IF t[i].kind = "entry" THEN EntriesBefore(i) \cup {i} ELSE EntriesBefore(i)
    BY <1>1, <2>1 DEF Entries
  <2>5. CASE t[i].kind # "entry"
    <3>1. moved[i + 1] = moved[i]
      BY <2>3, <2>5 DEF Place
    <3>2. EntriesBefore(i + 1) = EntriesBefore(i)
      BY <2>4, <2>5
    <3> HIDE DEF EntriesBefore
    <3> QED BY <2>2, <3>1, <3>2
  <2>6. CASE t[i].kind = "entry"
    <3>1. t[i] \in Bucket /\ i \in Entries(t) /\ i \notin EntriesBefore(i)
      BY <2>1, <2>6 DEF Table, Entries
    <3>2. EntriesBefore(i) \in SUBSET Entries(t) /\ EntriesBefore(i) # Entries(t)
      BY <3>1
    <3>3. IsFiniteSet(EntriesBefore(i)) /\ Cardinality(EntriesBefore(i)) <= Cardinality(Entries(t))
      BY <1>1, <3>2, FS_Subset
    <3>4. Cardinality(EntriesBefore(i) \cup {i}) = Cardinality(EntriesBefore(i)) + 1
      BY <3>1, <3>3, FS_AddElement
    <3>5. Cardinality(Entries(moved[i])) < m
      BY <1>1, <2>2, <3>3, FS_CardinalityType
    <3>6. \A x \in Contents(moved[i]) : x.key # t[i].key
      BY <2>2, <3>1 DEF Unique
    <3>7. EntriesBefore(i + 1) = EntriesBefore(i) \cup {i}
      BY <2>4, <2>6
    <3> HIDE DEF EntriesBefore
    <3>8. LET v == Place(moved[i], t[i])
          IN  /\ Table(v, m) /\ Unique(v) /\ Reached(v) /\ Tombs(v) = {}
              /\ Contents(v) = Contents(moved[i]) \cup {t[i]}
              /\ Cardinality(Entries(v)) = Cardinality(Entries(moved[i])) + 1
      BY <2>2, <2>6, <3>1, <3>5, <3>6, PlaceFacts
    <3>9. {t[b] : b \in EntriesBefore(i + 1)} = {t[b] : b \in EntriesBefore(i)} \cup {t[i]}
      BY <3>7
    <3> QED BY <2>2, <2>3, <3>4, <3>7, <3>8, <3>9
  <2> QED BY <2>5, <2>6
<1>7. S = Nat
  <2> HIDE DEF Good
  <2>1. S \in SUBSET Nat
    OBVIOUS
  <2> HIDE DEF S
  <2> QED BY <1>5, <1>6, <2>1, EveryNumber
<1>8. Good(n)
  <2> HIDE DEF Good
  <2> QED BY <1>1, <1>7
<1>9. EntriesBefore(n) = Entries(t)
  BY <1>1 DEF Entries
<1>10. Contents(t) = {t[b] : b \in EntriesBefore(n)}
  BY <1>9 DEF Contents
<1> HIDE DEF EntriesBefore
<1> QED BY <1>2, <1>8, <1>9, <1>10

(***************************************************************************)
(* StringMap: the operations                                               *)
(***************************************************************************)

(* a table that the counts are exact for, and which has an empty bucket *)
Kept(t, n, items, tombs) ==
  /\ Table(t, n) /\ Unique(t) /\ Reached(t)
  /\ items = Cardinality(Entries(t)) /\ tombs = Cardinality(Tombs(t))
  /\ items + tombs < n

MapInv ==
  /\ HashOK
  /\ \/ TheTable = Unallocated /\ NumItems = 0 /\ NumTombstones = 0
     \/ \E n : Kept(TheTable, n, NumItems, NumTombstones)

(* A table that is kept has as many buckets as its invariant says. *)
LEMMA KeptFacts ==
  ASSUME NEW t, NEW n, NEW items, NEW tombs, Kept(t, n, items, tombs)
  PROVE  /\ HasEmpty(t) /\ items \in Nat /\ tombs \in Nat /\ n \in Nat \ {0}
         /\ IsPowerOf2(n) /\ DOMAIN t = 0 .. n - 1 /\ Cardinality(DOMAIN t) = n
         /\ t # Unallocated
<1>1. Table(t, n) /\ Cardinality(Entries(t)) + Cardinality(Tombs(t)) < n
  BY DEF Kept
<1>2. HasEmpty(t)
  BY <1>1, SomeEmpty
<1>3. items \in Nat /\ tombs \in Nat /\ n \in Nat \ {0} /\ IsPowerOf2(n)
      /\ DOMAIN t = 0 .. n - 1 /\ Cardinality(DOMAIN t) = n
  BY <1>1, CountedTable DEF Kept, Table
<1>4. DOMAIN t # {}
  BY <1>3
<1> QED BY <1>2, <1>3, <1>4 DEF Unallocated

(* A new table is kept. *)
LEMMA FreshKept ==
  ASSUME NEW n \in Nat, IsPowerOf2(n)
  PROVE  Kept(Fresh(n), n, 0, 0) /\ Contents(Fresh(n)) = {}
<1>1. n > 0
  BY DEF IsPowerOf2
<1>2. Cardinality({}) = 0
  BY FS_EmptySet
<1> QED BY <1>1, <1>2, FreshFacts DEF Kept

(* A table without entries has no contents. *)
LEMMA NoContents ==
  /\ Entries(Unallocated) = {} /\ Tombs(Unallocated) = {} /\ Contents(Unallocated) = {}
  BY DEF Entries, Tombs, Contents, Unallocated

(* no item is counted when there is no entry *)
LEMMA NoItems ==
  ASSUME MapInv
  PROVE  NumItems = 0 => Contents(TheTable) = {}
<1>1. CASE TheTable = Unallocated
  BY <1>1, NoContents
<1>2. ASSUME NEW n, Kept(TheTable, n, NumItems, NumTombstones), NumItems = 0
      PROVE  Contents(TheTable) = {}
  <2>1. IsFiniteSet(Entries(TheTable)) /\ Cardinality(Entries(TheTable)) = 0
    BY <1>2, CountedTable DEF Kept
  <2>2. Entries(TheTable) = {}
    BY <2>1, FS_EmptySet
  <2> QED BY <2>2 DEF Contents
<1> QED BY <1>1, <1>2 DEF MapInv

(* The table that insert looks in is kept. *)
LEMMA AllocatedKept ==
  ASSUME MapInv
  PROVE  /\ \E n : Kept(Allocated, n, NumItems, NumTombstones)
         /\ Contents(Allocated) = Contents(TheTable)
<1>1. CASE TheTable = Unallocated
  <2>1. DefaultSize \in Nat /\ IsPowerOf2(DefaultSize)
    BY MapAssumption DEF IsPowerOf2
  <2>2. NumItems = 0 /\ NumTombstones = 0
    BY <1>1, KeptFacts DEF MapInv
  <2>3. Allocated = Fresh(DefaultSize)
    BY <1>1 DEF Allocated
  <2> QED BY <1>1, <2>1, <2>2, <2>3, FreshKept, NoContents
<1>2. CASE TheTable # Unallocated
  BY <1>2 DEF Allocated, MapInv
<1> QED BY <1>1, <1>2

(* RehashTable leaves room. *)
LEMMA RehashTableKept ==
  ASSUME NEW t, NEW n, Table(t, n), HashOK, Unique(t), Reached(t),
         NEW items, NEW tombs,
         items = Cardinality(Entries(t)), tombs = Cardinality(Tombs(t))
  PROVE  LET after == RehashTable(t, items, tombs)
         IN  /\ \E m : Kept(after.table, m, items, after.tombs)
             /\ Contents(after.table) = Contents(t)
<1>1. /\ n \in Nat \ {0} /\ Cardinality(DOMAIN t) = n /\ IsFiniteSet(DOMAIN t)
      /\ items \in Nat /\ tombs \in Nat /\ IsPowerOf2(n)
  BY CountedTable DEF Table
<1>2. items <= n
  <2>1. Entries(t) \in SUBSET DOMAIN t
    BY DEF Entries
  <2> QED BY <1>1, <2>1, FS_Subset
<1>3. Cardinality({}) = 0
  BY FS_EmptySet
<1>4. CASE items * 4 > n * 3
  <2>1. RehashTable(t, items, tombs) = [table |-> Rehashed(t, n * 2), tombs |-> 0]
    BY <1>1, <1>4 DEF RehashTable
  <2>2. n * 2 \in Nat /\ IsPowerOf2(n * 2) /\ items < n * 2
    <3>1. n * 2 = 2 * n
      BY <1>1
    <3> QED BY <1>1, <1>2, <3>1, TwicePower
  <2> DEFINE v == Rehashed(t, n * 2)
  <2>3. /\ Table(v, n * 2) /\ Unique(v) /\ Reached(v) /\ Tombs(v) = {}
        /\ Contents(v) = Contents(t) /\ Cardinality(Entries(v)) = items
    BY <2>2, RehashFacts
  <2> HIDE DEF v
  <2>4. Kept(v, n * 2, items, 0)
    BY <1>1, <1>3, <2>2, <2>3 DEF Kept
  <2> QED BY <2>1, <2>3, <2>4 DEF v
<1>5. CASE ~ (items * 4 > n * 3) /\ n - (items + tombs) <= n \div 8
  <2>1. RehashTable(t, items, tombs) = [table |-> Rehashed(t, n), tombs |-> 0]
    BY <1>1, <1>5 DEF RehashTable
  <2>2. n \in Nat /\ IsPowerOf2(n) /\ items < n
    BY <1>1, <1>2, <1>5
  <2> DEFINE v == Rehashed(t, n)
  <2>3. /\ Table(v, n) /\ Unique(v) /\ Reached(v) /\ Tombs(v) = {}
        /\ Contents(v) = Contents(t) /\ Cardinality(Entries(v)) = items
    BY <2>2, RehashFacts
  <2> HIDE DEF v
  <2>4. Kept(v, n, items, 0)
    BY <1>1, <1>3, <2>2, <2>3 DEF Kept
  <2> QED BY <2>1, <2>3, <2>4 DEF v
<1>6. CASE ~ (items * 4 > n * 3) /\ ~ (n - (items + tombs) <= n \div 8)
  <2>1. RehashTable(t, items, tombs) = [table |-> t, tombs |-> tombs]
    BY <1>1, <1>6 DEF RehashTable
  <2>2. items + tombs < n
    BY <1>1, <1>6
  <2>3. Kept(t, n, items, tombs)
    BY <2>2 DEF Kept
  <2> QED BY <2>1, <2>3
<1> QED BY <1>4, <1>5, <1>6

(* the invariant, of the next state *)
LEMMA NextKept ==
  ASSUME HashOK, hash' = hash,
         \/ TheTable' = Unallocated /\ NumItems' = 0 /\ NumTombstones' = 0
         \/ \E n : Kept(TheTable', n, NumItems', NumTombstones')
  PROVE  MapInv'
<1>1. HashOK'
  BY DEF HashOK
<1>2. CASE TheTable' = Unallocated /\ NumItems' = 0 /\ NumTombstones' = 0
  BY <1>1, <1>2 DEF MapInv, Unallocated, NoEntry
<1>3. CASE \E n : Kept(TheTable', n, NumItems', NumTombstones')
  <2>1. PICK n : Kept(TheTable', n, NumItems', NumTombstones')
    BY <1>3
  <2>2. Reached(TheTable)'
    BY <2>1 DEF Kept, Reached, Met, Entries, Probe, NoEntry
  <2>3. \E m : Kept(TheTable, m, NumItems, NumTombstones)'
    BY <2>1, <2>2 DEF Kept, Unique, Entries, Tombs, Table, Tombstone, Bucket
  <2> QED BY <1>1, <2>3 DEF MapInv
<1> QED BY <1>2, <1>3

(* insert adds an entry for a key that has none. *)
LEMMA InsertKeeps ==
  ASSUME MapInv, NEW k \in Keys, NEW v \in Values, Insert(k, v)
  PROVE  /\ MapInv'
         /\ (\E e \in Contents(TheTable) : e.key = k) => Contents(TheTable') = Contents(TheTable)
         /\ (\A e \in Contents(TheTable) : e.key # k)
              => Contents(TheTable') = Contents(TheTable) \cup {Entry(k, v)}
<1> DEFINE t == Allocated
           b == LookupBucketFor(t, k)
           tombs == NumTombstones - (IF t[b] = Tombstone THEN 1 ELSE 0)
           u == [t EXCEPT ![b] = Entry(k, v)]
           after == RehashTable(u, NumItems + 1, tombs)
<1>1. PICK n : Kept(t, n, NumItems, NumTombstones)
  BY AllocatedKept
<1>2. Contents(t) = Contents(TheTable)
  BY AllocatedKept
<1>3. HashOK /\ hash' = hash
  BY DEF MapInv, Insert
<1>4. IF Holds(t[b], k)
      THEN TheTable' = t /\ NumTombstones' = NumTombstones /\ NumItems' = NumItems
      ELSE TheTable' = after.table /\ NumTombstones' = after.tombs /\ NumItems' = NumItems + 1
  BY Zenon DEF Insert
<1> HIDE DEF t
<1>5. /\ Table(t, n) /\ Unique(t) /\ Reached(t) /\ HasEmpty(t)
      /\ NumItems \in Nat /\ NumTombstones \in Nat
      /\ NumItems = Cardinality(Entries(t)) /\ NumTombstones = Cardinality(Tombs(t))
  BY <1>1, KeptFacts DEF Kept
<1>6. /\ b \in DOMAIN t
      /\ ~ Holds(t[b], k) => /\ t[b] = NoEntry \/ t[b] = Tombstone
                             /\ \A c \in DOMAIN t : ~ Holds(t[c], k)
                             /\ Met(t, k, b)
  BY <1>3, <1>5, LookupFacts
<1> HIDE DEF b
<1>7. CASE Holds(t[b], k)
  <2>1. TheTable' = t /\ NumTombstones' = NumTombstones /\ NumItems' = NumItems
    BY <1>4, <1>7
  <2>2. MapInv'
    BY <1>1, <1>3, <2>1, NextKept
  <2>3. t[b] \in Contents(TheTable) /\ t[b].key = k
    BY <1>2, <1>6, <1>7 DEF Holds, Contents, Entries
  <2> QED BY <1>2, <2>1, <2>2, <2>3
<1>8. CASE ~ Holds(t[b], k)
  <2> DEFINE e == Entry(k, v)
  <2>1. e \in Bucket /\ e.kind = "entry" /\ e.key = k
    BY BucketNew
  <2> HIDE DEF e
  <2>2. /\ Table(u, n) /\ Unique(u) /\ Reached(u)
        /\ Entries(u) = Entries(t) \cup {b} /\ b \notin Entries(t)
        /\ Tombs(u) = Tombs(t) \ {b}
        /\ Contents(u) = Contents(t) \cup {e}
    <3> DEFINE w == [t EXCEPT ![b] = e]
    <3>1. /\ Table(t, n) /\ HashOK /\ Unique(t) /\ Reached(t) /\ e \in Bucket
          /\ e.kind = "entry" /\ b \in DOMAIN t /\ Met(t, e.key, b)
          /\ t[b] = NoEntry \/ t[b] = Tombstone
          /\ \A c \in DOMAIN t : ~ Holds(t[c], e.key)
      BY <1>3, <1>5, <1>6, <1>8, <2>1
    <3>2. /\ Table(w, n) /\ Unique(w) /\ Reached(w)
          /\ Entries(w) = Entries(t) \cup {b} /\ b \notin Entries(t)
          /\ Tombs(w) = Tombs(t) \ {b}
          /\ Contents(w) = Contents(t) \cup {e}
      BY <3>1, PutFacts
    <3> QED BY <3>2 DEF e
  <2> HIDE DEF u
  <2>3. Cardinality(Entries(u)) = NumItems + 1
    BY <1>5, <2>2, CountedTable, FS_AddElement
  <2>4. Cardinality(Tombs(u)) = tombs
    <3>1. b \in Tombs(t) <=> t[b] = Tombstone
      BY <1>6 DEF Tombs
    <3>2. IsFiniteSet(Tombs(t))
      BY <1>5, CountedTable
    <3>3. Cardinality(Tombs(t) \ {b})
          = IF b \in Tombs(t) THEN Cardinality(Tombs(t)) - 1 ELSE Cardinality(Tombs(t))
      BY <3>2, FS_RemoveElement
    <3> QED BY <1>5, <2>2, <3>1, <3>3
  <2> HIDE DEF tombs
  <2>5. /\ \E m : Kept(after.table, m, NumItems + 1, after.tombs)
        /\ Contents(after.table) = Contents(u)
    BY <1>3, <2>2, <2>3, <2>4, RehashTableKept
  <2>6. TheTable' = after.table /\ NumTombstones' = after.tombs /\ NumItems' = NumItems + 1
    BY <1>4, <1>8
  <2> HIDE DEF after
  <2>7. MapInv'
    BY <1>3, <2>5, <2>6, NextKept
  <2>8. \A x \in Contents(TheTable) : x.key # k
    BY <1>2, <1>6, <1>8 DEF Contents, Entries, Holds
  <2>9. Contents(TheTable') = Contents(TheTable) \cup {e}
    BY <1>2, <2>2, <2>5, <2>6
  <2> QED BY <2>7, <2>8, <2>9 DEF e
<1> QED BY <1>7, <1>8

(* What is found is what is there. *)
FoundIsThere ==
  /\ DOMAIN Found = {e.key : e \in Contents(TheTable)}
  /\ \A e \in Contents(TheTable) : Found[e.key] = e.value

(* What find answers are the contents of the table. *)
LEMMA FoundFacts ==
  MapInv => FoundIsThere
<1> SUFFICES ASSUME MapInv
             PROVE  /\ DOMAIN Found = {e.key : e \in Contents(TheTable)}
                    /\ \A e \in Contents(TheTable) : Found[e.key] = e.value
  BY DEF FoundIsThere
<1>1. CASE TheTable = Unallocated
  <2>1. \A k : FindKey(TheTable, k) = -1
    BY <1>1 DEF FindKey, Unallocated
  <2> QED BY <1>1, <2>1, NoContents DEF Found
<1>2. ASSUME NEW n, Kept(TheTable, n, NumItems, NumTombstones)
      PROVE  /\ DOMAIN Found = {e.key : e \in Contents(TheTable)}
             /\ \A e \in Contents(TheTable) : Found[e.key] = e.value
  <2>1. Table(TheTable, n) /\ Unique(TheTable) /\ Reached(TheTable) /\ HasEmpty(TheTable) /\ HashOK
    BY <1>2, KeptFacts DEF Kept, MapInv
  <2>2. ASSUME NEW k \in Keys
        PROVE  /\ FindKey(TheTable, k) # -1
                   => FindKey(TheTable, k) \in DOMAIN TheTable /\ Holds(TheTable[FindKey(TheTable, k)], k)
               /\ \A b \in DOMAIN TheTable :
                    Holds(TheTable[b], k) => FindKey(TheTable, k) = b /\ b # -1
    BY <2>1, FindFacts
  <2>3. ASSUME NEW e \in Contents(TheTable)
        PROVE  e.key \in DOMAIN Found /\ Found[e.key] = e.value
    <3>1. PICK b \in DOMAIN TheTable : e = TheTable[b] /\ e.kind = "entry"
      BY DEF Contents, Entries
    <3>2. e \in Bucket
      BY <2>1, <3>1 DEF Table
    <3>3. e.key \in Keys /\ Holds(TheTable[b], e.key)
      BY <3>1, <3>2, BucketKinds DEF Holds
    <3>4. FindKey(TheTable, e.key) = b /\ b # -1
      BY <2>2, <3>3
    <3>5. e.key \in DOMAIN Found /\ Found[e.key] = TheTable[b].value
      BY <3>3, <3>4 DEF Found
    <3> QED BY <3>1, <3>2, <3>5
  <2>4. ASSUME NEW k \in DOMAIN Found
        PROVE  \E e \in Contents(TheTable) : e.key = k
    <3>1. k \in Keys /\ FindKey(TheTable, k) # -1
      BY DEF Found
    <3> DEFINE b == FindKey(TheTable, k)
    <3>2. b \in DOMAIN TheTable /\ Holds(TheTable[b], k)
      BY <2>2, <3>1
    <3> HIDE DEF b
    <3>3. TheTable[b] \in Contents(TheTable) /\ TheTable[b].key = k
      BY <3>2 DEF Holds, Contents, Entries
    <3> QED BY <3>3
  <2> QED BY <2>3, <2>4
<1> QED BY <1>1, <1>2 DEF MapInv

(* insert, as the map sees it *)
LEMMA InsertFound ==
  ASSUME MapInv, NEW k \in Keys, NEW v \in Values, Insert(k, v)
  PROVE  AM!Insert(k, v)
<1>1. MapInv'
  BY InsertKeeps
<1>2. FoundIsThere /\ FoundIsThere'
  BY <1>1, FoundFacts, PTL
<1> DEFINE C == Contents(TheTable)
           D == Contents(TheTable')
<1>3. /\ DOMAIN Found = {e.key : e \in C} /\ \A e \in C : Found[e.key] = e.value
      /\ DOMAIN Found' = {e.key : e \in D} /\ \A e \in D : Found'[e.key] = e.value
  BY <1>2 DEF FoundIsThere
<1>4. /\ Found = [j \in DOMAIN Found |-> Found[j]]
      /\ Found' = [j \in DOMAIN Found' |-> Found'[j]]
  BY DEF Found
<1>5. /\ (\E e \in C : e.key = k) => D = C
      /\ (\A e \in C : e.key # k) => D = C \cup {Entry(k, v)}
  BY InsertKeeps
<1> HIDE DEF C, D
<1>6. Entry(k, v).key = k /\ Entry(k, v).value = v
  BY BucketNew
<1> DEFINE x == Entry(k, v)
<1> HIDE DEF x
<1>7. DOMAIN Found' = DOMAIN Found \cup {k}
  BY <1>3, <1>5, <1>6 DEF x
<1>8. ASSUME NEW j \in DOMAIN Found'
      PROVE  Found'[j] = IF j \in DOMAIN Found THEN Found[j] ELSE v
  <2>1. PICK e \in D : e.key = j /\ Found'[j] = e.value
    BY <1>3
  <2>2. CASE e \in C
    BY <1>3, <2>1, <2>2
  <2>3. CASE e \notin C
    <3>1. e = Entry(k, v) /\ \A d \in C : d.key # k
      BY <1>5, <2>1, <2>3
    <3> QED BY <1>3, <1>6, <2>1, <3>1
  <2> QED BY <2>2, <2>3
<1>9. Found' = [j \in DOMAIN Found \cup {k} |-> IF j \in DOMAIN Found THEN Found[j] ELSE v]
  <2> DEFINE f == Found
             g == Found'
  <2>1. g = [j \in DOMAIN g |-> g[j]] /\ DOMAIN g = DOMAIN f \cup {k}
        /\ \A j \in DOMAIN g : g[j] = IF j \in DOMAIN f THEN f[j] ELSE v
    BY <1>4, <1>7, <1>8
  <2> HIDE DEF f, g
  <2>2. g = [j \in DOMAIN f \cup {k} |-> IF j \in DOMAIN f THEN f[j] ELSE v]
    BY <2>1
  <2> QED BY <2>2 DEF f, g
<1> QED BY <1>9 DEF AM!Insert

(* erase removes the entry of the key. *)
LEMMA RemoveKeeps ==
  ASSUME MapInv, NEW k \in Keys, RemoveKey(k)
  PROVE  /\ MapInv'
         /\ Contents(TheTable') = {e \in Contents(TheTable) : e.key # k}
         /\ k \in DOMAIN Found
<1> DEFINE t == TheTable
           b == FindKey(t, k)
           u == [t EXCEPT ![b] = Tombstone]
<1>1. /\ b # -1 /\ TheTable' = u /\ hash' = hash
      /\ NumTombstones' = NumTombstones + 1 /\ NumItems' = NumItems - 1
  BY DEF RemoveKey
<1>2. PICK n : Kept(t, n, NumItems, NumTombstones)
  <2>1. t # Unallocated
    <3> SUFFICES ASSUME t = Unallocated PROVE FALSE
      OBVIOUS
    <3> QED BY <1>1 DEF FindKey, Unallocated
  <2> QED BY <2>1 DEF MapInv
<1>3. /\ Table(t, n) /\ HashOK /\ Unique(t) /\ Reached(t) /\ HasEmpty(t)
      /\ NumItems \in Nat /\ NumTombstones \in Nat /\ NumItems + NumTombstones < n
      /\ NumItems = Cardinality(Entries(t)) /\ NumTombstones = Cardinality(Tombs(t))
      /\ n \in Nat
  BY <1>2, KeptFacts DEF Kept, MapInv
<1>4. b \in DOMAIN t /\ Holds(t[b], k)
  BY <1>1, <1>3, FindFacts
<1>5. k \in DOMAIN Found
  BY <1>1 DEF Found
<1> HIDE DEF b, t
<1>6. b \in Entries(t) /\ t[b].key = k
  BY <1>4 DEF Holds, Entries
<1>7. /\ Table(u, n) /\ Unique(u) /\ Reached(u)
      /\ Entries(u) = Entries(t) \ {b}
      /\ Tombs(u) = Tombs(t) \cup {b} /\ b \notin Tombs(t)
      /\ \A e : e \in Contents(u) <=> e \in Contents(t) /\ e.key # k
  <2>1. Table(t, n) /\ HashOK /\ Unique(t) /\ Reached(t) /\ b \in Entries(t) /\ k = t[b].key
    BY <1>3, <1>6
  <2>2. u = [t EXCEPT ![b] = Tombstone]
    OBVIOUS
  <2> HIDE DEF u
  <2>3. Table(u, n) /\ Unique(u) /\ Reached(u)
    BY <2>1, <2>2, BuryFacts
  <2>4. Entries(u) = Entries(t) \ {b}
    BY <2>1, <2>2, BuryFacts
  <2>5. Tombs(u) = Tombs(t) \cup {b} /\ b \notin Tombs(t)
    BY <2>1, <2>2, BuryFacts
  <2>6. \A e : e \in Contents(u) <=> e \in Contents(t) /\ e.key # k
    <3>1. \A x \in Entries(u) : x \in Entries(t) /\ u[x] = t[x] /\ t[x].key # k
      BY <2>1, <2>2, <2>4 DEF Entries, Unique
    <3> QED BY <2>1, <2>4, <3>1 DEF Contents
  <2> QED BY <2>3, <2>4, <2>5, <2>6
<1> HIDE DEF u
<1>8. IsFiniteSet(Entries(t)) /\ IsFiniteSet(Tombs(t))
  BY <1>3, CountedTable
<1>9. Cardinality(Entries(u)) = NumItems - 1
  <2>1. Cardinality(Entries(t) \ {b}) = Cardinality(Entries(t)) - 1
    BY <1>6, <1>8, FS_RemoveElement
  <2> QED BY <1>3, <1>7, <2>1
<1>10. Cardinality(Tombs(u)) = NumTombstones + 1
  <2>1. Cardinality(Tombs(t) \cup {b}) = Cardinality(Tombs(t)) + 1
    BY <1>7, <1>8, FS_AddElement
  <2> QED BY <1>3, <1>7, <2>1
<1>11. (NumItems - 1) + (NumTombstones + 1) < n
  BY <1>3
<1>12. Kept(u, n, NumItems - 1, NumTombstones + 1)
  BY <1>7, <1>9, <1>10, <1>11 DEF Kept
<1>13. MapInv'
  BY <1>1, <1>3, <1>12, NextKept
<1>14. Contents(TheTable') = {e \in Contents(TheTable) : e.key # k}
  BY <1>1, <1>6, <1>7 DEF t
<1> QED BY <1>5, <1>13, <1>14

(* erase, as the map sees it *)
LEMMA RemoveFound ==
  ASSUME MapInv, NEW k \in Keys, RemoveKey(k)
  PROVE  AM!Erase(k)
<1>1. MapInv'
  BY RemoveKeeps
<1>2. FoundIsThere /\ FoundIsThere'
  BY <1>1, FoundFacts, PTL
<1> DEFINE C == Contents(TheTable)
           D == Contents(TheTable')
           f == Found
           g == Found'
<1>3. /\ DOMAIN f = {e.key : e \in C} /\ \A e \in C : f[e.key] = e.value
      /\ DOMAIN g = {e.key : e \in D} /\ \A e \in D : g[e.key] = e.value
  BY <1>2 DEF FoundIsThere
<1>4. f = [j \in DOMAIN f |-> f[j]] /\ g = [j \in DOMAIN g |-> g[j]]
  BY DEF Found
<1>5. D = {e \in C : e.key # k}
  BY RemoveKeeps
<1> HIDE DEF C, D, f, g
<1>6. DOMAIN g = DOMAIN f \ {k}
  BY <1>3, <1>5
<1>7. \A j \in DOMAIN g : g[j] = f[j]
  BY <1>3, <1>5
<1>8. g = [j \in DOMAIN f \ {k} |-> f[j]]
  BY <1>4, <1>6, <1>7
<1> QED BY <1>8 DEF AM!Erase, f, g

(* clear and a copy of an empty map leave nothing. *)
LEMMA EmptyFound ==
  ASSUME MapInv, MapInv', Contents(TheTable') = {}
  PROVE  Found' = [j \in {} |-> 0]
<1>1. FoundIsThere'
  BY FoundFacts, PTL
<1> DEFINE g == Found'
<1>2. DOMAIN g = {} /\ g = [j \in DOMAIN g |-> g[j]]
  BY <1>1 DEF FoundIsThere, Found
<1> HIDE DEF g
<1>3. g = [j \in {} |-> 0]
  BY <1>2
<1> QED BY <1>3 DEF g

(* clear leaves a table that is kept, with nothing in it. *)
LEMMA ClearKeeps ==
  ASSUME MapInv, Clear
  PROVE  MapInv' /\ Contents(TheTable') = {}
<1>1. PICK n : Kept(TheTable, n, NumItems, NumTombstones)
  BY DEF MapInv, Clear
<1>2. NumBuckets = n /\ n \in Nat /\ IsPowerOf2(n)
  BY <1>1, KeptFacts DEF NumBuckets
<1>3. TheTable' = Fresh(n) /\ NumItems' = 0 /\ NumTombstones' = 0 /\ hash' = hash
  BY <1>2 DEF Clear
<1>4. HashOK
  BY DEF MapInv
<1>5. Kept(TheTable', n, NumItems', NumTombstones') /\ Contents(TheTable') = {}
  BY <1>2, <1>3, FreshKept
<1> QED BY <1>3, <1>4, <1>5, NextKept

(* So does a copy of a map without entries. *)
LEMMA CopyKeeps ==
  ASSUME MapInv, Copy
  PROVE  MapInv' /\ Contents(TheTable') = {} /\ Contents(TheTable) = {}
<1>1. TheTable' = Unallocated /\ NumItems' = 0 /\ NumTombstones' = 0 /\ hash' = hash
      /\ NumItems = 0
  BY DEF Copy
<1>2. HashOK
  BY DEF MapInv
<1>3. Contents(TheTable') = {}
  BY <1>1, NoContents
<1> QED BY <1>1, <1>2, <1>3, NextKept, NoItems

(* Every operation keeps the invariant. *)
LEMMA MapInitInv == MapInit => MapInv
<1> SUFFICES ASSUME MapInit PROVE MapInv
  OBVIOUS
<1>1. HashOK
  BY MapAssumption DEF MapInit, HashOK
<1>2. ASSUME NEW size \in Sizes, TheTable = Fresh(size)
      PROVE  Kept(TheTable, size, NumItems, NumTombstones)
  <2>1. size \in Nat /\ IsPowerOf2(size)
    BY MapAssumption DEF IsPowerOf2
  <2> QED BY <1>2, <2>1, FreshKept DEF MapInit
<1> QED BY <1>1, <1>2 DEF MapInit, MapInv

(* Every operation of StringMap preserves the invariant. *)
LEMMA MapStepInv ==
  ASSUME MapInv, [MapNext]_mapVars
  PROVE  MapInv'
<1>1. CASE UNCHANGED mapVars
  <2>1. HashOK /\ hash' = hash /\ TheTable' = TheTable
        /\ NumItems' = NumItems /\ NumTombstones' = NumTombstones
    BY <1>1 DEF mapVars, MapInv
  <2> QED BY <2>1, NextKept DEF MapInv
<1> QED BY <1>1, InsertKeeps, RemoveKeeps, ClearKeeps, CopyKeeps DEF MapNext

(* Whatever was inserted and erased before, in a table of any size, some   *)
(* bucket is empty, so that every lookup ends, and the counts the table is *)
(* grown by are exact (StringMap.cpp:81, 168).                             *)
THEOREM TableIsNeverFull ==
  MapSpec => []NeverFull
<1>1. MapInv => NeverFull
  <2> SUFFICES ASSUME MapInv PROVE NeverFull
    OBVIOUS
  <2>1. CASE TheTable = Unallocated
    <3>1. DOMAIN TheTable = {} /\ NumItems = 0 /\ NumTombstones = 0
      BY <2>1, KeptFacts DEF MapInv, Unallocated
    <3> QED BY <2>1, <3>1, FS_EmptySet DEF NeverFull
  <2>2. ASSUME NEW n, Kept(TheTable, n, NumItems, NumTombstones)
        PROVE  NeverFull
    <3>1. HasEmpty(TheTable) /\ NumItems = Cardinality(Entries(TheTable))
          /\ NumTombstones = Cardinality(Tombs(TheTable))
      BY <2>2, KeptFacts DEF Kept
    <3> QED BY <3>1 DEF NeverFull, HasEmpty, Entries, Tombs
  <2> QED BY <2>1, <2>2 DEF MapInv
<1>2. MapInv /\ [MapNext]_mapVars => MapInv'
  BY MapStepInv
<1> QED BY <1>1, <1>2, MapInitInv, PTL DEF MapSpec

(* StringMap is the map that its operations build.                         *)
LEMMA MapRefines ==
  MapSpec => MapImplements
<1>1. MapInit => AM!Init
  <2> SUFFICES ASSUME MapInit PROVE Found = [k \in {} |-> 0]
    BY DEF AM!Init
  <2>1. MapInv
    BY MapInitInv
  <2>2. Contents(TheTable) = {}
    BY <2>1, NoItems DEF MapInit
  <2>3. DOMAIN Found = {}
    BY <2>1, <2>2, FoundFacts DEF FoundIsThere
  <2> QED BY <2>3 DEF Found
<1> DEFINE Step == /\ \A k \in Keys, v \in Values : Insert(k, v) => AM!Insert(k, v)
                   /\ \A k \in Keys : RemoveKey(k) => AM!Erase(k)
                   /\ Clear => AM!Clear
                   /\ Copy => UNCHANGED Found
<1>2. ASSUME MapInv
      PROVE  Step
  <2>1. Clear => AM!Clear
    <3> SUFFICES ASSUME Clear PROVE Found' = [j \in {} |-> 0]
      BY DEF AM!Clear
    <3> QED BY <1>2, ClearKeeps, EmptyFound
  <2>2. Copy => UNCHANGED Found
    <3> SUFFICES ASSUME Copy PROVE Found' = Found
      OBVIOUS
    <3>1. MapInv' /\ Contents(TheTable') = {} /\ Contents(TheTable) = {}
      BY <1>2, CopyKeeps
    <3>2. Found' = [j \in {} |-> 0]
      BY <1>2, <3>1, EmptyFound
    <3>3. DOMAIN Found = {}
      BY <1>2, <3>1, FoundFacts DEF FoundIsThere
    <3>4. Found = [j \in {} |-> 0]
      BY <3>3 DEF Found
    <3> QED BY <3>2, <3>4
  <2> QED BY <1>2, <2>1, <2>2, InsertFound, RemoveFound
<1>3. MapInv /\ [MapNext]_mapVars => MapInv'
  BY MapStepInv
<1>4. ASSUME MapInv, [MapNext]_mapVars
      PROVE  [AM!Next]_Found
  <2>1. Step
    BY <1>2, <1>4
  <2>2. CASE UNCHANGED mapVars
    BY <2>2 DEF mapVars, Found, FindKey, Ends, Probes, Probe, Holds
  <2>3. CASE MapNext
    BY <2>1, <2>3 DEF MapNext, AM!Next
  <2> QED BY <1>4, <2>2, <2>3
<1>5. MapSpec => AM!Spec
  BY <1>1, <1>3, <1>4, MapInitInv, PTL DEF MapSpec, AM!Spec
<1>6. MapSpec => [][Step]_mapVars
  <2>1. MapInv => [Step]_mapVars
    BY <1>2
  <2> HIDE DEF Step
  <2> QED BY <1>3, <2>1, MapInitInv, PTL DEF MapSpec
<1> QED BY <1>5, <1>6, PTL DEF MapImplements

(***************************************************************************)
(* SmallSet                                                                *)
(***************************************************************************)
NoDuplicates(s) == \A i, j \in 1 .. Len(s) : s[i] = s[j] => i = j

SetInv ==
  /\ Vector \in Seq(SetElements) /\ NoDuplicates(Vector)
  /\ Set # {} => Vector = <<>>

(* The range of a sequence, element by element. *)
LEMMA RangeFacts ==
  ASSUME NEW s \in Seq(SetElements), NEW x
  PROVE  x \in Range(s) <=> \E i \in 1 .. Len(s) : s[i] = x
<1>1. DOMAIN s = 1 .. Len(s)
  BY LenProperties
<1> QED BY <1>1 DEF Range

(* RemoveFirst leaves the other elements. *)
LEMMA RemoveFirstFacts ==
  ASSUME NEW s \in Seq(SetElements), NoDuplicates(s), NEW k
  PROVE  /\ RemoveFirst(s, k) \in Seq(SetElements) /\ NoDuplicates(RemoveFirst(s, k))
         /\ \A x : x \in Range(RemoveFirst(s, k)) <=> x \in Range(s) /\ x # k
<1> DEFINE I == {i \in 1 .. Len(s) : s[i] = k}
           r == RemoveFirst(s, k)
<1>1. Len(s) \in Nat /\ \A i \in 1 .. Len(s) : s[i] \in SetElements
  BY LenProperties, ElementOfSeq
<1>2. CASE I = {}
  <2>1. r = s
    BY <1>2 DEF RemoveFirst
  <2>2. \A x : x \in Range(s) => x # k
    BY <1>2, RangeFacts
  <2> QED BY <2>1, <2>2
<1>3. CASE I # {}
  <2> DEFINE c == Min(I)
             a == SubSeq(s, 1, c - 1)
             b == SubSeq(s, c + 1, Len(s))
  <2>1. r = a \o b
    BY <1>3 DEF RemoveFirst, RemoveAt, SelectInSeq
  <2>2. c \in I
    <3>1. I \in SUBSET Nat
      BY <1>1
    <3> HIDE DEF I
    <3> QED BY <1>3, <3>1, Least
  <2>3. c \in 1 .. Len(s) /\ c \in Int /\ s[c] = k
    BY <1>1, <2>2
  <2> HIDE DEF I, c, r
  <2>4. a \in Seq(SetElements) /\ Len(a) = c - 1 /\ \A i \in 1 .. c - 1 : a[i] = s[i]
    <3>1. \A i \in 1 .. c - 1 : s[i] \in SetElements
      BY <1>1, <2>3
    <3>2. /\ a \in Seq(SetElements) /\ Len(a) = IF 1 <= c - 1 THEN c - 1 - 1 + 1 ELSE 0
          /\ \A i \in 1 .. (c - 1) - 1 + 1 : a[i] = s[1 + i - 1]
      BY <2>3, <3>1, SubSeqProperties
    <3> HIDE DEF a
    <3> QED BY <2>3, <3>2
  <2>5. /\ b \in Seq(SetElements) /\ Len(b) = Len(s) - c
        /\ \A i \in 1 .. Len(s) - c : b[i] = s[c + i]
    <3>1. \A i \in c + 1 .. Len(s) : s[i] \in SetElements
      BY <1>1, <2>3
    <3>2. /\ b \in Seq(SetElements)
          /\ Len(b) = IF c + 1 <= Len(s) THEN Len(s) - (c + 1) + 1 ELSE 0
          /\ \A i \in 1 .. Len(s) - (c + 1) + 1 : b[i] = s[(c + 1) + i - 1]
      BY <1>1, <2>3, <3>1, SubSeqProperties
    <3> HIDE DEF b
    <3> QED BY <1>1, <2>3, <3>2
  <2> HIDE DEF a, b
  <2>6. /\ r \in Seq(SetElements) /\ Len(r) = Len(s) - 1
        /\ \A i \in 1 .. Len(r) : r[i] = IF i < c THEN s[i] ELSE s[i + 1]
    <3>1. /\ a \o b \in Seq(SetElements) /\ Len(a \o b) = Len(a) + Len(b)
          /\ \A i \in 1 .. Len(a) + Len(b) :
               (a \o b)[i] = IF i <= Len(a) THEN a[i] ELSE b[i - Len(a)]
      <4>1. a \in Seq(SetElements) /\ b \in Seq(SetElements)
        BY <2>4, <2>5
      <4> QED BY <4>1, ConcatProperties, Zenon
    <3>2. Len(r) = Len(s) - 1 /\ r \in Seq(SetElements)
      BY <1>1, <2>1, <2>3, <2>4, <2>5, <3>1
    <3>3. ASSUME NEW i \in 1 .. Len(r) PROVE r[i] = IF i < c THEN s[i] ELSE s[i + 1]
      <4>1. r[i] = IF i <= c - 1 THEN a[i] ELSE b[i - (c - 1)]
        BY <1>1, <2>1, <2>3, <2>4, <2>5, <3>1, <3>2
      <4> QED BY <1>1, <2>3, <2>4, <2>5, <3>2, <4>1
    <3> QED BY <3>2, <3>3
  <2>7. NoDuplicates(r)
    <3> SUFFICES ASSUME NEW i \in 1 .. Len(r), NEW j \in 1 .. Len(r), r[i] = r[j]
                 PROVE  i = j
      BY DEF NoDuplicates
    <3> DEFINE to(x) == IF x < c THEN x ELSE x + 1
    <3>1. \A x \in 1 .. Len(r) : to(x) \in 1 .. Len(s) /\ r[x] = s[to(x)]
      BY <1>1, <2>3, <2>6
    <3>2. to(i) = to(j)
      <4> HIDE DEF to
      <4> QED BY <3>1 DEF NoDuplicates
    <3> QED BY <1>1, <2>3, <2>6, <3>2
  <2>8. ASSUME NEW x PROVE x \in Range(r) <=> x \in Range(s) /\ x # k
    <3>1. ASSUME NEW i \in 1 .. Len(r), r[i] = x
          PROVE  x # k /\ \E j \in 1 .. Len(s) : s[j] = x
      <4> DEFINE j == IF i < c THEN i ELSE i + 1
      <4>1. j \in 1 .. Len(s) /\ r[i] = s[j] /\ j # c
        BY <1>1, <2>3, <2>6, <3>1
      <4> HIDE DEF j
      <4> QED BY <1>1, <2>3, <3>1, <4>1 DEF NoDuplicates
    <3>2. ASSUME NEW j \in 1 .. Len(s), s[j] = x, x # k
          PROVE  \E i \in 1 .. Len(r) : r[i] = x
      <4>1. CASE j < c
        BY <1>1, <2>3, <2>6, <3>2, <4>1
      <4>2. CASE j > c
        <5>1. j - 1 \in 1 .. Len(r) /\ r[j - 1] = s[j]
          BY <1>1, <2>3, <2>6, <4>2
        <5> QED BY <3>2, <5>1
      <4> QED BY <2>3, <3>2, <4>1, <4>2
    <3> QED BY <2>6, <3>1, <3>2, RangeFacts
  <2> QED BY <2>6, <2>7, <2>8 DEF r
<1> QED BY <1>2, <1>3

(* the elements that count finds *)
Members == {k \in SetElements : count(k)}

(* What count finds, wherever it is stored. *)
LEMMA MembersAre ==
  ASSUME SetInv, NEW k \in SetElements
  PROVE  k \in Members <=> k \in Set \/ \E i \in 1 .. Len(Vector) : Vector[i] = k
<1>1. CASE Set = {}
  BY <1>1, RangeFacts DEF SetInv, Members, count, isSmall
<1>2. CASE Set # {}
  <2>1. Len(Vector) = 0
    BY <1>2 DEF SetInv
  <2> QED BY <1>2, <2>1 DEF Members, count, isSmall
<1> QED BY <1>1, <1>2

(* insert adds the element *)
LEMMA SetInserts ==
  ASSUME SetInv, NEW k \in SetElements, SetInsert(k)
  PROVE  SetInv' /\ Members' = Members \cup {k}
<1>1. CASE ~ isSmall
  <2>1. Set' = Set \cup {k} /\ Vector' = Vector /\ Set # {} /\ Vector = <<>> /\ Set' # {}
    BY <1>1 DEF SetInsert, isSmall, SetInv
  <2> QED BY <2>1 DEF SetInv, Members, count, isSmall
<1>2. CASE isSmall /\ count(k)
  <2>1. Vector' = Vector /\ Set' = Set
    BY <1>2 DEF SetInsert, setVars
  <2>2. SetInv' /\ Members' = Members
    BY <2>1 DEF SetInv, Members, count, isSmall
  <2> QED BY <1>2, <2>2 DEF Members
<1>3. CASE isSmall /\ ~ count(k) /\ Len(Vector) < SmallSize
  <2>1. /\ Vector' = Append(Vector, k) /\ Set' = {} /\ Set = {} /\ Vector \in Seq(SetElements)
        /\ NoDuplicates(Vector) /\ k \notin Range(Vector)
    BY <1>3 DEF SetInsert, isSmall, count, SetInv
  <2> DEFINE v == Append(Vector, k)
  <2>2. /\ v \in Seq(SetElements) /\ Len(v) = Len(Vector) + 1 /\ v[Len(Vector) + 1] = k
        /\ \A i \in 1 .. Len(Vector) : v[i] = Vector[i]
    BY <2>1, AppendProperties
  <2>3. Len(Vector) \in Nat /\ \A i \in 1 .. Len(Vector) : Vector[i] # k
    BY <2>1, LenProperties, RangeFacts
  <2> HIDE DEF v
  <2>4. NoDuplicates(v)
    BY <2>1, <2>2, <2>3 DEF NoDuplicates
  <2>5. SetInv'
    BY <2>1, <2>2, <2>4 DEF SetInv, v
  <2>6. ASSUME NEW x
        PROVE  x \in Range(v) <=> x \in Range(Vector) \/ x = k
    BY <2>1, <2>2, <2>3, RangeFacts
  <2>7. Vector' = v
    BY <2>1 DEF v
  <2> QED BY <2>1, <2>5, <2>6, <2>7 DEF Members, count, isSmall
<1>4. CASE isSmall /\ ~ count(k) /\ ~ (Len(Vector) < SmallSize)
  <2>1. Vector' = <<>> /\ Set' = Range(Vector) \cup {k} /\ Set = {} /\ Set' # {}
    BY <1>4 DEF SetInsert, isSmall
  <2>2. SetInv'
    BY <2>1, EmptySeq DEF SetInv, NoDuplicates
  <2> QED BY <2>1, <2>2 DEF Members, count, isSmall
<1> QED BY <1>1, <1>2, <1>3, <1>4

(* erase removes it *)
LEMMA SetErases ==
  ASSUME SetInv, NEW k \in SetElements, SetErase(k)
  PROVE  SetInv' /\ Members' = Members \ {k}
<1>1. CASE isSmall
  <2>1. Vector' = RemoveFirst(Vector, k) /\ Set' = {} /\ Set = {}
    BY <1>1 DEF SetErase, isSmall
  <2>2. /\ RemoveFirst(Vector, k) \in Seq(SetElements) /\ NoDuplicates(RemoveFirst(Vector, k))
        /\ \A x : x \in Range(RemoveFirst(Vector, k)) <=> x \in Range(Vector) /\ x # k
    BY RemoveFirstFacts DEF SetInv
  <2>3. SetInv'
    BY <2>1, <2>2 DEF SetInv
  <2> QED BY <2>1, <2>2, <2>3 DEF Members, count, isSmall
<1>2. CASE ~ isSmall
  <2>1. Vector' = Vector /\ Vector = <<>> /\ Set' = Set \ {k} /\ Set # {}
    BY <1>2 DEF SetErase, isSmall, SetInv
  <2>2. SetInv'
    BY <2>1 DEF SetInv
  <2>3. Range(Vector) = {}
    BY <2>1 DEF Range
  <2> QED BY <2>1, <2>2, <2>3 DEF Members, count, isSmall
<1> QED BY <1>1, <1>2

(* clear removes every element *)
LEMMA SetClears ==
  ASSUME SetClear
  PROVE  SetInv' /\ Members' = {}
<1>1. Vector' = <<>> /\ Set' = {}
  BY DEF SetClear
<1>2. SetInv'
  BY <1>1, EmptySeq DEF SetInv, NoDuplicates
<1>3. Range(<<>>) = {}
  BY DEF Range
<1> QED BY <1>1, <1>2, <1>3 DEF Members, count, isSmall

(* a new set *)
LEMMA SetInitInv ==
  ASSUME SetInit
  PROVE  SetInv /\ Members = {}
<1>1. Vector = <<>> /\ Set = {}
  BY DEF SetInit
<1>2. Range(<<>>) = {}
  BY DEF Range
<1> QED BY <1>1, <1>2, EmptySeq DEF SetInv, NoDuplicates, Members, count, isSmall

(* Every operation of SmallSet preserves the invariant. *)
LEMMA SetStepInv == SetInv /\ [SetNext]_setVars => SetInv'
<1> SUFFICES ASSUME SetInv, [SetNext]_setVars PROVE SetInv'
  OBVIOUS
<1>1. CASE UNCHANGED setVars
  BY <1>1 DEF setVars, SetInv
<1>2. CASE SetNext
  BY <1>2, SetInserts, SetErases, SetClears DEF SetNext
<1> QED BY <1>1, <1>2

(* SmallSet is the set that its operations build.                          *)
LEMMA SetRefines ==
  SetSpec => SetImplements
<1> DEFINE member == [k \in {j \in SetElements : count(j)} |-> 1]
           Step == /\ \A k \in SetElements : SetInsert(k) => AS!Insert(k, 1)
                   /\ \A k \in SetElements : SetErase(k) => AS!Erase(k)
                   /\ SetClear => AS!Clear
<1>1. member = [k \in Members |-> 1]
  BY DEF Members
<1>2. member' = [k \in Members' |-> 1]
  BY DEF Members
<1>3. SetInit => AS!Init
  <2> SUFFICES ASSUME SetInit PROVE member = [k \in {} |-> 0]
    BY DEF AS!Init
  <2> HIDE DEF member
  <2> QED BY <1>1, SetInitInv
<1>4. ASSUME SetInv PROVE Step
  <2>1. ASSUME NEW k \in SetElements, SetInsert(k) PROVE AS!Insert(k, 1)
    <3>1. Members' = Members \cup {k}
      BY <1>4, <2>1, SetInserts
    <3> SUFFICES member' = [j \in DOMAIN member \cup {k} |-> IF j \in DOMAIN member THEN member[j] ELSE 1]
      BY DEF AS!Insert
    <3> HIDE DEF member
    <3> QED BY <1>1, <1>2, <3>1
  <2>2. ASSUME NEW k \in SetElements, SetErase(k) PROVE AS!Erase(k)
    <3>1. Members' = Members \ {k}
      BY <1>4, <2>2, SetErases
    <3> SUFFICES member' = [j \in DOMAIN member \ {k} |-> member[j]]
      BY DEF AS!Erase
    <3> HIDE DEF member
    <3> QED BY <1>1, <1>2, <3>1
  <2>3. ASSUME SetClear PROVE AS!Clear
    <3>1. Members' = {}
      BY <2>3, SetClears
    <3> SUFFICES member' = [j \in {} |-> 0]
      BY DEF AS!Clear
    <3> HIDE DEF member
    <3> QED BY <1>2, <3>1
  <2> QED BY <2>1, <2>2, <2>3
<1>5. ASSUME SetInv, [SetNext]_setVars
      PROVE  [AS!Next]_member
  <2>1. Step
    BY <1>4, <1>5
  <2>2. CASE UNCHANGED setVars
    BY <2>2 DEF setVars, count, isSmall
  <2>3. CASE SetNext
    BY <2>1, <2>3 DEF SetNext, AS!Next
  <2> QED BY <1>5, <2>2, <2>3
<1>6. SetSpec => AS!Spec
  BY <1>3, <1>5, SetInitInv, SetStepInv, PTL DEF SetSpec, AS!Spec
<1>7. SetSpec => [][Step]_setVars
  <2>1. SetInv => [Step]_setVars
    BY <1>4
  <2>2. SetInit => SetInv
    BY SetInitInv
  <2> HIDE DEF Step
  <2> QED BY <2>1, <2>2, SetStepInv, PTL DEF SetSpec
<1> QED BY <1>6, <1>7, PTL DEF SetImplements

(* The containers answer as the map and the set that their operations      *)
(* build, however the keys are hashed and whatever the table was like.     *)
THEOREM ContainersAreAbstract ==
  MapSpec /\ SetSpec => AsMap
BY MapRefines, SetRefines DEF AsMap

(***************************************************************************)
(* FindMultipartBoundary: none is passed over.  The buffer may be stale:   *)
(* when it had no dash, it is filled up from where it was filled up last,  *)
(* and begins with characters that do not precede those in the stream.     *)
(***************************************************************************)
Character == {"-", "b", "x", "n"}

(* how much of the text has been read *)
Seen == Len(text) - Len(stream)

(* The buffer holds the last of what was read. *)
Current == \A i \in 1 .. searchPos : searchBuf[i] = text[Seen - searchPos + i]

(* Or it is stale.  No boundary begins in what was read; a dash in the     *)
(* buffer is in its first place, and was read.                             *)
Stale ==
  /\ \A p \in Places : p > Seen
  /\ \A i \in 2 .. searchPos : searchBuf[i] # "-"
  /\ searchBuf[1] = "-" => \E j \in 1 .. Seen : text[j] = "-"

(* a dash that is before every boundary *)
DashBeforeAll == \E j \in 1 .. Seen : text[j] = "-" /\ \A p \in Places : p > j

PartTyped ==
  /\ text \in Seq(Character) /\ Len(stream) \in 0 .. Len(text)
  /\ stream = drop_front(text, Seen)
  /\ searchPos \in 0 .. 2 /\ searchPos <= Seen
  /\ searchBuf \in Seq(Character) /\ Len(searchBuf) >= searchPos
  /\ ret \in {"searching", "true", "false"} /\ save \in BOOLEAN

NonePassed == ret # "true" => \A p \in Places : p > Seen - searchPos

Savings ==
  ret = "searching" /\ save =>
    /\ DashBeforeAll \/ saved = SubSeq(text, 1, Seen - searchPos)
    /\ searchPos > 0 => searchBuf[1] = "-"

PartInv ==
  /\ PartTyped /\ NonePassed /\ Savings
  /\ ret = "searching" => searchPos = 0 \/ Current \/ Stale
  /\ BoundaryFound

(* a part of a text, character by character *)
LEMMA CutText ==
  ASSUME NEW s \in Seq(Character), NEW m \in 1 .. Len(s) + 1, NEW n \in 0 .. Len(s), m <= n + 1
  PROVE  /\ SubSeq(s, m, n) \in Seq(Character) /\ Len(SubSeq(s, m, n)) = n - m + 1
         /\ \A i \in 1 .. n - m + 1 : SubSeq(s, m, n)[i] = s[m + i - 1]
<1>1. Len(s) \in Nat /\ m \in Int /\ n \in Int
  BY LenProperties
<1>2. \A i \in m .. n : s[i] \in Character
  BY <1>1, ElementOfSeq
<1>3. /\ SubSeq(s, m, n) \in Seq(Character)
      /\ Len(SubSeq(s, m, n)) = IF m <= n THEN n - m + 1 ELSE 0
      /\ \A i \in 1 .. n - m + 1 : SubSeq(s, m, n)[i] = s[m + i - 1]
  BY <1>1, <1>2, SubSeqProperties
<1> QED BY <1>1, <1>3

(* two texts put together, character by character *)
LEMMA JoinTexts ==
  ASSUME NEW s \in Seq(Character), NEW t \in Seq(Character)
  PROVE  /\ s \o t \in Seq(Character) /\ Len(s \o t) = Len(s) + Len(t)
         /\ Len(s) \in Nat /\ Len(t) \in Nat
         /\ \A i \in 1 .. Len(s) : (s \o t)[i] = s[i]
         /\ \A i \in 1 .. Len(t) : (s \o t)[Len(s) + i] = t[i]
  BY ConcatProperties, LenProperties

(* A part of a text and the part behind it are one part. *)
LEMMA JoinCuts ==
  ASSUME NEW s \in Seq(Character), NEW a \in 0 .. Len(s), NEW b \in a .. Len(s)
  PROVE  SubSeq(s, 1, a) \o SubSeq(s, a + 1, b) = SubSeq(s, 1, b)
<1> DEFINE u == SubSeq(s, 1, a)
           v == SubSeq(s, a + 1, b)
           w == SubSeq(s, 1, b)
<1>1. Len(s) \in Nat /\ a \in Nat /\ b \in Nat /\ a <= b /\ b <= Len(s)
  BY LenProperties
<1>2. u \in Seq(Character) /\ Len(u) = a /\ \A i \in 1 .. a : u[i] = s[i]
  <2>1. 1 \in 1 .. Len(s) + 1 /\ a \in 0 .. Len(s) /\ 1 <= a + 1
    BY <1>1
  <2>2. u \in Seq(Character) /\ Len(u) = a - 1 + 1 /\ \A i \in 1 .. a - 1 + 1 : u[i] = s[1 + i - 1]
    BY <2>1, CutText
  <2> HIDE DEF u
  <2> QED BY <1>1, <2>2
<1>3. v \in Seq(Character) /\ Len(v) = b - a /\ \A i \in 1 .. b - a : v[i] = s[a + i]
  <2>1. a + 1 \in 1 .. Len(s) + 1 /\ b \in 0 .. Len(s) /\ a + 1 <= b + 1
    BY <1>1
  <2>2. /\ v \in Seq(Character) /\ Len(v) = b - (a + 1) + 1
        /\ \A i \in 1 .. b - (a + 1) + 1 : v[i] = s[(a + 1) + i - 1]
    BY <2>1, CutText
  <2> HIDE DEF v
  <2> QED BY <1>1, <2>2
<1>4. w \in Seq(Character) /\ Len(w) = b /\ \A i \in 1 .. b : w[i] = s[i]
  <2>1. 1 \in 1 .. Len(s) + 1 /\ b \in 0 .. Len(s) /\ 1 <= b + 1
    BY <1>1
  <2>2. w \in Seq(Character) /\ Len(w) = b - 1 + 1 /\ \A i \in 1 .. b - 1 + 1 : w[i] = s[1 + i - 1]
    BY <2>1, CutText
  <2> HIDE DEF w
  <2> QED BY <1>1, <2>2
<1> HIDE DEF u, v, w
<1>5. /\ u \o v \in Seq(Character) /\ Len(u \o v) = Len(u) + Len(v)
      /\ \A i \in 1 .. Len(u) : (u \o v)[i] = u[i]
      /\ \A i \in 1 .. Len(v) : (u \o v)[Len(u) + i] = v[i]
  BY <1>2, <1>3, JoinTexts
<1> DEFINE x == u \o v
<1>6. x \in Seq(Character) /\ Len(x) = Len(w)
  BY <1>1, <1>2, <1>3, <1>4, <1>5
<1>7. \A i \in 1 .. Len(x) : x[i] = w[i]
  <2> SUFFICES ASSUME NEW i \in 1 .. Len(x) PROVE x[i] = s[i]
    BY <1>1, <1>4, <1>6
  <2>1. CASE i <= a
    BY <1>1, <1>2, <1>5, <2>1
  <2>2. CASE i > a
    <3>1. i - a \in 1 .. b - a /\ a + (i - a) = i
      BY <1>1, <1>4, <1>6, <2>2
    <3> HIDE DEF x
    <3>2. x[a + (i - a)] = v[i - a] /\ v[i - a] = s[a + (i - a)]
      BY <1>2, <1>3, <1>5, <3>1 DEF x
    <3> QED BY <3>1, <3>2
  <2> QED BY <1>1, <1>4, <1>6, <2>1, <2>2
<1> HIDE DEF x
<1>8. x = w
  BY <1>4, <1>6, <1>7, SeqEqual
<1> QED BY <1>8 DEF x, u, v, w

(* the boundary, and where it is *)
LEMMA MarkerIs ==
  /\ Size = 3
  /\ \A s \in Seq(Character) :
       Len(s) = 3 => (s = Marker <=> s[1] = "-" /\ s[2] = "-" /\ s[3] = "b")
<1>1. Marker \in Seq(Character) /\ Len(Marker) = 3
      /\ Marker[1] = "-" /\ Marker[2] = "-" /\ Marker[3] = "b"
  BY DEF Marker, Character
<1>2. ASSUME NEW s \in Seq(Character), Len(s) = 3, s[1] = "-" /\ s[2] = "-" /\ s[3] = "b"
      PROVE  s = Marker
  <2>1. \A i \in 1 .. 3 : s[i] = Marker[i]
    BY <1>1, <1>2
  <2> QED BY <1>1, <1>2, <2>1, SeqEqual
<1> QED BY <1>1, <1>2 DEF Size

(* a boundary is where its three characters are *)
LEMMA PlacesAre ==
  ASSUME text \in Seq(Character)
  PROVE  \A p : p \in Places <=> /\ p \in 1 .. Len(text) - 2
                                 /\ text[p] = "-" /\ text[p + 1] = "-" /\ text[p + 2] = "b"
<1>1. Len(text) \in Nat
  BY LenProperties
<1>2. ASSUME NEW p \in 1 .. Len(text) - 2
      PROVE  SubSeq(text, p, p + 3 - 1) = Marker
               <=> text[p] = "-" /\ text[p + 1] = "-" /\ text[p + 2] = "b"
  <2> DEFINE s == SubSeq(text, p, p + 3 - 1)
  <2>1. p \in 1 .. Len(text) + 1 /\ p + 3 - 1 \in 0 .. Len(text) /\ p <= p + 3 - 1 + 1
    BY <1>1
  <2>2. /\ s \in Seq(Character) /\ Len(s) = (p + 3 - 1) - p + 1
        /\ \A i \in 1 .. (p + 3 - 1) - p + 1 : s[i] = text[p + i - 1]
    BY <2>1, CutText
  <2> HIDE DEF s
  <2>3. Len(s) = 3 /\ s[1] = text[p] /\ s[2] = text[p + 1] /\ s[3] = text[p + 2]
    BY <1>1, <2>2
  <2>4. s = Marker <=> text[p] = "-" /\ text[p + 1] = "-" /\ text[p + 2] = "b"
    BY <2>2, <2>3, MarkerIs
  <2> QED BY <2>4 DEF s
<1>3. Places = {i \in 1 .. Len(text) - 3 + 1 : SubSeq(text, i, i + 3 - 1) = Marker}
  <2>1. Size = 3
    BY MarkerIs
  <2> QED BY <2>1 DEF Places
<1>4. Len(text) - 3 + 1 = Len(text) - 2
  BY <1>1
<1>5. ASSUME NEW p
      PROVE  p \in Places <=> p \in 1 .. Len(text) - 2 /\ SubSeq(text, p, p + 3 - 1) = Marker
  BY <1>3, <1>4
<1> QED BY <1>2, <1>5

(* What is in the stream, and what the buffer is when it is full. *)
LEMMA StreamFacts ==
  ASSUME PartTyped
  PROVE  /\ Len(text) \in Nat /\ Len(stream) \in Nat /\ Seen \in 0 .. Len(text)
         /\ Len(stream) = Len(text) - Seen /\ stream \in Seq(Character)
         /\ \A i \in 1 .. Len(stream) : stream[i] = text[Seen + i]
<1>1. Len(text) \in Nat /\ Len(stream) \in 0 .. Len(text) /\ text \in Seq(Character)
      /\ stream = SubSeq(text, Seen + 1, Len(text))
  BY LenProperties DEF PartTyped, drop_front
<1>2. Seen \in 0 .. Len(text) /\ Len(stream) = Len(text) - Seen
  BY <1>1 DEF Seen
<1> HIDE DEF Seen
<1>3. Seen + 1 \in 1 .. Len(text) + 1 /\ Len(text) \in 0 .. Len(text) /\ Seen + 1 <= Len(text) + 1
  BY <1>1, <1>2
<1> DEFINE s == SubSeq(text, Seen + 1, Len(text))
<1>4. /\ s \in Seq(Character) /\ \A i \in 1 .. Len(text) - (Seen + 1) + 1 : s[i] = text[(Seen + 1) + i - 1]
  BY <1>1, <1>3, CutText
<1> HIDE DEF s
<1>5. stream = s
  BY <1>1 DEF s
<1> QED BY <1>1, <1>2, <1>4, <1>5

(* the buffer when it is filled: what it held, then what is next *)
LEMMA BufferFacts ==
  ASSUME PartTyped, Len(stream) >= 3 - searchPos,
         NEW buf, buf = take_front(searchBuf, searchPos) \o take_front(stream, 3 - searchPos)
  PROVE  /\ buf \in Seq(Character) /\ Len(buf) = 3
         /\ \A i \in 1 .. searchPos : buf[i] = searchBuf[i]
         /\ \A i \in searchPos + 1 .. 3 : buf[i] = text[Seen - searchPos + i]
<1> DEFINE u == SubSeq(searchBuf, 1, searchPos)
           v == SubSeq(stream, 1, 3 - searchPos)
           n == 3 - searchPos
<1>1. /\ searchPos \in 0 .. 2 /\ searchBuf \in Seq(Character) /\ Len(searchBuf) >= searchPos
      /\ Len(searchBuf) \in Nat /\ n \in 1 .. 3 /\ searchPos + n = 3
      /\ stream \in Seq(Character) /\ n <= Len(stream)
      /\ Len(stream) \in Nat /\ Seen \in Nat
      /\ \A i \in 1 .. Len(stream) : stream[i] = text[Seen + i]
  <2>1. /\ searchPos \in 0 .. 2 /\ searchBuf \in Seq(Character) /\ Len(searchBuf) >= searchPos
        /\ Len(searchBuf) \in Nat
    BY LenProperties DEF PartTyped
  <2>2. /\ stream \in Seq(Character) /\ Len(stream) \in Nat /\ Seen \in Nat
        /\ \A i \in 1 .. Len(stream) : stream[i] = text[Seen + i]
    BY StreamFacts
  <2> QED BY <2>1, <2>2
<1>2. u \in Seq(Character) /\ Len(u) = searchPos /\ \A i \in 1 .. searchPos : u[i] = searchBuf[i]
  <2>1. 1 \in 1 .. Len(searchBuf) + 1 /\ searchPos \in 0 .. Len(searchBuf) /\ 1 <= searchPos + 1
    BY <1>1
  <2>2. /\ u \in Seq(Character) /\ Len(u) = searchPos - 1 + 1
        /\ \A i \in 1 .. searchPos - 1 + 1 : u[i] = searchBuf[1 + i - 1]
    BY <1>1, <2>1, CutText
  <2> HIDE DEF u
  <2> QED BY <1>1, <2>2
<1>3. v \in Seq(Character) /\ Len(v) = n /\ \A i \in 1 .. n : v[i] = stream[i]
  <2>1. 1 \in 1 .. Len(stream) + 1 /\ n \in 0 .. Len(stream) /\ 1 <= n + 1
    BY <1>1
  <2>2. /\ v \in Seq(Character) /\ Len(v) = n - 1 + 1
        /\ \A i \in 1 .. n - 1 + 1 : v[i] = stream[1 + i - 1]
    BY <1>1, <2>1, CutText
  <2> HIDE DEF v
  <2> QED BY <1>1, <2>2
<1> HIDE DEF u, v, n
<1>4. buf = u \o v
  BY DEF u, v, take_front
<1>5. /\ buf \in Seq(Character) /\ Len(buf) = Len(u) + Len(v)
      /\ \A i \in 1 .. Len(u) : buf[i] = u[i]
      /\ \A i \in 1 .. Len(v) : buf[Len(u) + i] = v[i]
  <2>1. u \in Seq(Character) /\ v \in Seq(Character)
    BY <1>2, <1>3
  <2>2. /\ u \o v \in Seq(Character) /\ Len(u \o v) = Len(u) + Len(v)
        /\ \A i \in 1 .. Len(u) : (u \o v)[i] = u[i]
        /\ \A i \in 1 .. Len(v) : (u \o v)[Len(u) + i] = v[i]
    BY <2>1, JoinTexts
  <2> QED BY <1>4, <2>2
<1>6. ASSUME NEW i \in searchPos + 1 .. 3
      PROVE  buf[i] = text[Seen - searchPos + i]
  <2>1. i - searchPos \in 1 .. n /\ searchPos + (i - searchPos) = i
        /\ Seen + (i - searchPos) = Seen - searchPos + i /\ i - searchPos \in 1 .. Len(stream)
    <3>1. i \in Int /\ searchPos \in Int /\ n \in Int /\ Seen \in Int /\ Len(stream) \in Int
          /\ searchPos + 1 <= i /\ i <= 3 /\ searchPos + n = 3 /\ n <= Len(stream)
      BY <1>1
    <3> QED BY <3>1
  <2>2. buf[searchPos + (i - searchPos)] = v[i - searchPos]
    BY <1>2, <1>3, <1>5, <2>1
  <2>3. v[i - searchPos] = stream[i - searchPos]
    BY <1>3, <2>1
  <2>4. stream[i - searchPos] = text[Seen + (i - searchPos)]
    BY <1>1, <2>1
  <2> QED BY <2>1, <2>2, <2>3, <2>4
<1> QED BY <1>1, <1>2, <1>3, <1>5, <1>6

(* what is left of the stream after n characters *)
LEMMA DropFacts ==
  ASSUME PartTyped, NEW n \in 0 .. Len(stream), stream' = drop_front(stream, n), text' = text
  PROVE  /\ Seen' = Seen + n /\ Len(stream') = Len(stream) - n
         /\ stream' = drop_front(text', Seen') /\ Len(stream') \in 0 .. Len(text)
<1>1. /\ Len(text) \in Nat /\ Len(stream) \in Nat /\ Seen \in 0 .. Len(text)
      /\ Len(stream) = Len(text) - Seen /\ stream \in Seq(Character)
      /\ \A i \in 1 .. Len(stream) : stream[i] = text[Seen + i]
      /\ text \in Seq(Character) /\ n \in Nat /\ n <= Len(stream)
  <2>1. text \in Seq(Character)
    BY DEF PartTyped
  <2>2. /\ Len(text) \in Nat /\ Len(stream) \in Nat /\ Seen \in 0 .. Len(text)
        /\ Len(stream) = Len(text) - Seen /\ stream \in Seq(Character)
        /\ \A i \in 1 .. Len(stream) : stream[i] = text[Seen + i]
    BY StreamFacts
  <2> QED BY <2>1, <2>2
<1> DEFINE s == SubSeq(stream, n + 1, Len(stream))
<1>2. /\ s \in Seq(Character) /\ Len(s) = Len(stream) - n
      /\ \A i \in 1 .. Len(stream) - n : s[i] = stream[n + i]
  <2>1. n + 1 \in 1 .. Len(stream) + 1 /\ Len(stream) \in 0 .. Len(stream) /\ n + 1 <= Len(stream) + 1
    BY <1>1
  <2>2. /\ s \in Seq(Character) /\ Len(s) = Len(stream) - (n + 1) + 1
        /\ \A i \in 1 .. Len(stream) - (n + 1) + 1 : s[i] = stream[(n + 1) + i - 1]
    BY <1>1, <2>1, CutText
  <2> HIDE DEF s
  <2> QED BY <1>1, <2>2
<1>3. stream' = s
  BY DEF drop_front
<1> HIDE DEF s
<1>4. Len(stream') = Len(stream) - n
  BY <1>2, <1>3
<1>5. Seen' = Seen + n
  BY <1>1, <1>4 DEF Seen
<1> DEFINE w == SubSeq(text, (Seen + n) + 1, Len(text))
<1>6. /\ w \in Seq(Character) /\ Len(w) = Len(text) - (Seen + n)
      /\ \A i \in 1 .. Len(text) - (Seen + n) : w[i] = text[(Seen + n) + i]
  <2> DEFINE m == Seen + n
  <2>1. m + 1 \in 1 .. Len(text) + 1 /\ Len(text) \in 0 .. Len(text) /\ m + 1 <= Len(text) + 1 /\ m \in Nat
    BY <1>1
  <2>2. /\ w \in Seq(Character) /\ Len(w) = Len(text) - (m + 1) + 1
        /\ \A i \in 1 .. Len(text) - (m + 1) + 1 : w[i] = text[(m + 1) + i - 1]
    <3> HIDE DEF m
    <3>1. /\ SubSeq(text, m + 1, Len(text)) \in Seq(Character)
          /\ Len(SubSeq(text, m + 1, Len(text))) = Len(text) - (m + 1) + 1
          /\ \A i \in 1 .. Len(text) - (m + 1) + 1 : SubSeq(text, m + 1, Len(text))[i] = text[(m + 1) + i - 1]
      BY <1>1, <2>1, CutText
    <3> QED BY <3>1 DEF m
  <2> HIDE DEF w
  <2> QED BY <1>1, <2>1, <2>2
<1> HIDE DEF w
<1>7. Len(s) = Len(w) /\ \A i \in 1 .. Len(s) : s[i] = w[i]
  BY <1>1, <1>2, <1>6
<1>8. s = w
  BY <1>2, <1>6, <1>7, SeqEqual
<1> QED BY <1>1, <1>3, <1>4, <1>5, <1>8 DEF w, drop_front

(* the numbers among the types *)
LEMMA PartNumbers ==
  ASSUME PartTyped
  PROVE  /\ searchPos \in Nat /\ searchPos <= 2 /\ searchPos <= Seen
         /\ Seen \in Nat /\ Seen <= Len(text) /\ Len(text) \in Nat
         /\ Len(stream) \in Nat /\ Len(stream) = Len(text) - Seen
<1>1. searchPos \in 0 .. 2 /\ searchPos <= Seen
  BY DEF PartTyped
<1>2. /\ Len(text) \in Nat /\ Len(stream) \in Nat /\ Seen \in 0 .. Len(text)
      /\ Len(stream) = Len(text) - Seen
  BY StreamFacts
<1> QED BY <1>1, <1>2

(* how far the text has been read *)
LEMMA ReadFacts ==
  PartTyped => Len(Read) = Seen
<1> SUFFICES ASSUME PartTyped PROVE Len(SubSeq(text, 1, Seen)) = Seen
  BY DEF Read, Seen
<1>1. Len(text) \in Nat /\ Seen \in 0 .. Len(text)
  BY StreamFacts
<1>2. text \in Seq(Character)
  BY DEF PartTyped
<1>3. 1 \in 1 .. Len(text) + 1 /\ 1 <= Seen + 1 /\ Seen - 1 + 1 = Seen
  BY <1>1
<1> HIDE DEF Seen
<1>4. Len(SubSeq(text, 1, Seen)) = Seen - 1 + 1
  BY <1>1, <1>2, <1>3, CutText
<1> QED BY <1>3, <1>4

(* The first boundary is where one is, and none before it. *)
LEMMA FirstIs ==
  ASSUME text \in Seq(Character), NEW p \in Places, \A q \in Places : q >= p
  PROVE  First = p
<1>1. Len(text) \in Nat
  BY LenProperties
<1>2. Places \in SUBSET Nat /\ Places # {}
  BY <1>1, PlacesAre
<1>3. First \in Places /\ \A q \in Places : First <= q
  BY <1>2, Least DEF First
<1> QED BY <1>2, <1>3

(* a full buffer in which the search goes on *)
Filling(buf) ==
  /\ ret = "searching" /\ Len(stream) >= 3 - searchPos
  /\ buf = take_front(searchBuf, searchPos) \o take_front(stream, 3 - searchPos)

(* What Search does with a full buffer. *)
LEMMA SearchCases ==
  ASSUME Search, PartTyped
  PROVE  /\ ret = "searching" /\ (save \/ searchPos > 0) /\ text' = text /\ save' = save
         /\ \/ /\ Len(stream) < 3 - searchPos /\ ret' = "false"
               /\ UNCHANGED <<stream, searchBuf, searchPos, saved>>
            \/ \E buf :
                 /\ Filling(buf) /\ stream' = drop_front(stream, 3 - searchPos)
                 /\ \/ /\ buf = Marker /\ ret' = "true" /\ saved' = saved /\ searchPos' = searchPos
                       /\ searchBuf' = buf
                    \/ /\ buf # Marker /\ ret' = "searching" /\ Dashes(buf) # {}
                       /\ searchPos' = 3 - Dash(buf) + 1
                       /\ searchBuf' = drop_front(buf, Dash(buf) - 1)
                       /\ save => saved' = saved \o SubSeq(buf, 1, Dash(buf) - 1)
                    \/ /\ buf # Marker /\ ret' = "searching" /\ Dashes(buf) = {}
                       /\ searchPos' = searchPos /\ searchBuf' = buf
                       /\ save => saved' = saved \o buf
<1> DEFINE buf == take_front(searchBuf, searchPos) \o take_front(stream, 3 - searchPos)
<1>1. ret = "searching" /\ (save \/ searchPos > 0) /\ text' = text /\ save' = save
  BY DEF Search
<1>2. Size = 3
  BY MarkerIs
<1>3. CASE Len(stream) < 3 - searchPos
  BY <1>1, <1>2, <1>3 DEF Search
<1>4. CASE ~ (Len(stream) < 3 - searchPos)
  <2>1. Len(stream) \in Nat /\ searchPos \in Nat
    BY PartNumbers
  <2>2. Filling(buf)
    BY <1>1, <1>4, <2>1 DEF Filling
  <2>3. /\ stream' = drop_front(stream, 3 - searchPos)
        /\ ret' = IF buf = Marker THEN "true" ELSE "searching"
        /\ searchPos' = IF buf # Marker /\ Dashes(buf) # {} THEN 3 - Dash(buf) + 1 ELSE searchPos
        /\ searchBuf' = IF buf # Marker /\ Dashes(buf) # {} THEN drop_front(buf, Dash(buf) - 1) ELSE buf
        /\ saved' = IF ~ save \/ buf = Marker THEN saved
                    ELSE IF Dashes(buf) # {} THEN saved \o SubSeq(buf, 1, Dash(buf) - 1)
                    ELSE saved \o buf
    BY <1>2, <1>4 DEF Search
  <2> HIDE DEF buf
  <2> QED BY <1>1, <2>2, <2>3
<1> QED BY <1>1, <1>3, <1>4

(* The search ends without a boundary where the text does. *)
LEMMA SearchFails ==
  ASSUME PartInv, ret = "searching", Len(stream) < 3 - searchPos
  PROVE  Places = {}
<1>1. PartTyped
  BY DEF PartInv
<1>2. /\ searchPos \in Nat /\ Len(text) \in Nat /\ Seen \in Nat /\ Len(stream) = Len(text) - Seen
  BY <1>1, PartNumbers
<1>3. \A p \in Places : p > Seen - searchPos
  BY DEF PartInv, NonePassed
<1>4. \A p \in Places : p \in 1 .. Len(text) - 2
  <2>1. text \in Seq(Character)
    BY <1>1 DEF PartTyped
  <2> QED BY <2>1, PlacesAre
<1> QED BY <1>2, <1>3, <1>4

(* The search ends with a boundary. *)
LEMMA SearchFinds ==
  ASSUME PartInv, ret = "searching", NEW buf, Filling(buf), buf = Marker, ret' = "true",
         stream' = drop_front(stream, 3 - searchPos), searchBuf' = buf,
         text' = text, save' = save, saved' = saved, searchPos' = searchPos
  PROVE  PartInv'
<1>1. PartTyped /\ NonePassed /\ Savings /\ (searchPos = 0 \/ Current \/ Stale)
  BY DEF PartInv
<1>2. /\ searchPos \in Nat /\ searchPos <= 2 /\ searchPos <= Seen
      /\ Seen \in Nat /\ Seen <= Len(text) /\ Len(text) \in Nat
      /\ Len(stream) \in Nat /\ Len(stream) = Len(text) - Seen
      /\ Len(stream) >= 3 - searchPos
  BY <1>1, PartNumbers DEF Filling
<1>10. text \in Seq(Character) /\ save \in BOOLEAN
  BY <1>1 DEF PartTyped
<1>11. \A p \in Places : p \in 1 .. Len(text) - 2
  BY <1>10, PlacesAre
<1>3. /\ buf \in Seq(Character) /\ Len(buf) = 3
      /\ \A i \in 1 .. searchPos : buf[i] = searchBuf[i]
      /\ \A i \in searchPos + 1 .. 3 : buf[i] = text[Seen - searchPos + i]
  BY <1>1, <1>2, BufferFacts DEF Filling
<1>4. buf[1] = "-" /\ buf[2] = "-" /\ buf[3] = "b"
  BY <1>3, MarkerIs
<1>5. /\ Seen' = Seen + (3 - searchPos) /\ Len(stream') \in 0 .. Len(text)
      /\ stream' = drop_front(text', Seen')
  <2>1. 3 - searchPos \in 0 .. Len(stream)
    BY <1>2
  <2> QED BY <1>1, <2>1, DropFacts
<1>6. PartTyped'
  <2>1. searchPos \in 0 .. 2 /\ searchPos <= Seen' /\ Len(buf) >= searchPos
    BY <1>2, <1>3, <1>5
  <2> QED BY <1>3, <1>5, <1>10, <2>1 DEF PartTyped
<1>7. Places' = Places
  BY DEF Places
<1>8. ASSUME Places # {}, ~ DashBefore(First)
      PROVE  First = Seen - searchPos + 1
  <2> DEFINE p0 == Seen - searchPos + 1
  <2>1. \A p \in Places : p >= p0 /\ p \in Nat
    <3>1. \A p \in Places : p > Seen - searchPos
      BY DEF PartInv, NonePassed
    <3> QED BY <1>2, <1>11, <3>1
  <2>2. First \in Places
    <3>1. Places \in SUBSET Nat
      BY <2>1
    <3> QED BY <1>8, <3>1, Least DEF First
  <2>3. searchPos = 0 \/ Current
    <3> SUFFICES ASSUME Stale, searchPos > 0 PROVE FALSE
      BY <1>1, <1>2
    <3>1. searchBuf[1] = "-"
      BY <1>2, <1>3, <1>4
    <3>2. PICK j \in 1 .. Seen : text[j] = "-"
      BY <3>1 DEF Stale
    <3>3. First > Seen
      BY <2>2 DEF Stale
    <3>4. j \in 1 .. First - 1
      BY <1>2, <2>1, <2>2, <3>2, <3>3
    <3> QED BY <1>8, <3>2, <3>4 DEF DashBefore
  <2>4. \A i \in 1 .. 3 : buf[i] = text[Seen - searchPos + i]
    BY <1>2, <1>3, <2>3 DEF Current
  <2>5. text[p0] = "-" /\ text[p0 + 1] = "-" /\ text[p0 + 2] = "b"
    <3>1. Seen - searchPos + 2 = p0 + 1 /\ Seen - searchPos + 3 = p0 + 2
      BY <1>2
    <3> HIDE DEF p0
    <3>2. text[Seen - searchPos + 1] = "-" /\ text[Seen - searchPos + 2] = "-" /\ text[Seen - searchPos + 3] = "b"
      BY <1>4, <2>4
    <3> QED BY <3>1, <3>2 DEF p0
  <2>6. p0 \in Places
    <3>1. p0 \in 1 .. Len(text) - 2
      BY <1>2
    <3> HIDE DEF p0
    <3> QED BY <1>10, <2>5, <3>1, PlacesAre
  <2>7. \A q \in Places : q >= p0
    BY <2>1
  <2> HIDE DEF p0
  <2>8. First = p0
    BY <1>10, <2>6, <2>7, FirstIs
  <2> QED BY <2>8 DEF p0
<1>9. BoundaryFound'
  <2> SUFFICES ASSUME Places # {}, ~ DashBefore(First)
               PROVE  Len(Read') = First + Size - 1 /\ (save => saved = SubSeq(text, 1, First - 1))
    BY <1>7 DEF BoundaryFound, First, DashBefore
  <2>0. Places # {}
    OBVIOUS
  <2>1. First = Seen - searchPos + 1
    BY <1>8
  <2>2. Len(Read') = Seen'
    <3>1. (Len(Read) = Seen)'
      BY <1>6, ReadFacts, PTL
    <3> QED BY <3>1
  <2>3. Len(Read') = First + Size - 1
    BY <1>2, <1>5, <2>1, <2>2, MarkerIs
  <2>4. ASSUME save PROVE saved = SubSeq(text, 1, First - 1)
    <3>1. ~ DashBeforeAll
      <4> SUFFICES ASSUME DashBeforeAll PROVE FALSE
        OBVIOUS
      <4>1. PICK j \in 1 .. Seen : text[j] = "-" /\ \A p \in Places : p > j
        BY DEF DashBeforeAll
      <4>2. First \in Places /\ First \in Nat
        <5>1. Places \in SUBSET Nat
          BY <1>2, <1>11
        <5> QED BY <2>0, <5>1, Least DEF First
      <4>3. j \in 1 .. First - 1
        BY <1>2, <4>1, <4>2
      <4> QED BY <4>1, <4>3 DEF DashBefore
    <3>2. saved = SubSeq(text, 1, Seen - searchPos)
      BY <1>1, <2>4, <3>1 DEF Savings
    <3>3. First - 1 = Seen - searchPos
      BY <1>2, <2>1
    <3> QED BY <3>2, <3>3
  <2> QED BY <2>3, <2>4
<1> QED BY <1>6, <1>9 DEF PartInv, NonePassed, Savings

(* a step that keeps what has been read and the buffer *)
LEMMA PartSame ==
  PartInv /\ UNCHANGED partVars => PartInv'
<1> SUFFICES ASSUME PartInv, UNCHANGED partVars PROVE PartInv'
  OBVIOUS
<1>1. /\ stream' = stream /\ save' = save /\ searchBuf' = searchBuf /\ searchPos' = searchPos
      /\ saved' = saved /\ ret' = ret /\ text' = text
  BY DEF partVars
<1> QED BY <1>1 DEF PartInv, PartTyped, NonePassed, Savings, Current, Stale, DashBeforeAll, BoundaryFound,
                    Seen, Read, Places, First, DashBefore

(* Until the search has ended nothing is said of what it found. *)
LEMMA Searching ==
  ret = "searching" => BoundaryFound
BY DEF BoundaryFound

(* The search ends where the text does. *)
LEMMA FailKeeps ==
  ASSUME PartInv, ret = "searching", Len(stream) < 3 - searchPos, ret' = "false",
         searchPos' = searchPos, UNCHANGED <<stream, searchBuf, saved, text, save>>
  PROVE  PartInv'
<1>1. Places = {}
  BY SearchFails
<1>2. Places' = {} /\ Seen' = Seen
  BY <1>1 DEF Places, Seen
<1>3. PartTyped'
  BY <1>2 DEF PartInv, PartTyped
<1> QED BY <1>2, <1>3 DEF PartInv, NonePassed, Savings, BoundaryFound

(* A step that skips or begins with the next character. *)
LEMMA SkipKeeps ==
  ASSUME PartInv, SkipNewline
  PROVE  PartInv'
<1>1. PartTyped /\ NonePassed /\ ret = "searching" /\ ~ save /\ searchPos = 0
      /\ text' = text /\ save' = save /\ saved' = saved
  BY DEF PartInv, SkipNewline
<1>2. /\ Seen \in Nat /\ Seen <= Len(text) /\ Len(text) \in Nat
      /\ Len(stream) \in Nat /\ Len(stream) = Len(text) - Seen
  BY <1>1, PartNumbers
<1>3. CASE Len(stream) < 1
  <2>1. ret' = "false" /\ UNCHANGED <<stream, searchBuf>>
    BY <1>3 DEF SkipNewline, ReadTo
  <2>2. searchPos' = searchPos
    BY <1>1, <2>1 DEF SkipNewline
  <2>3. Len(stream) < 3 - searchPos
    BY <1>1, <1>2, <1>3
  <2> QED BY <1>1, <2>1, <2>2, <2>3, FailKeeps
<1>4. CASE ~ (Len(stream) < 1)
  <2> DEFINE buf == SubSeq(searchBuf, 1, 0) \o SubSeq(stream, 1, 1)
  <2>1. ret' = "searching" /\ searchBuf' = buf /\ stream' = drop_front(stream, 1)
    BY <1>1, <1>4 DEF SkipNewline, ReadTo
  <2>2. buf \in Seq(Character) /\ Len(buf) = 1 /\ buf[1] = text[Seen + 1]
    <3>1. searchBuf \in Seq(Character) /\ stream \in Seq(Character) /\ stream[1] = text[Seen + 1]
          /\ Len(searchBuf) \in Nat
      <4>1. searchBuf \in Seq(Character)
        BY <1>1 DEF PartTyped
      <4>2. stream \in Seq(Character) /\ \A i \in 1 .. Len(stream) : stream[i] = text[Seen + i]
        BY <1>1, StreamFacts
      <4>3. 1 \in 1 .. Len(stream)
        BY <1>2, <1>4
      <4> QED BY <4>1, <4>2, <4>3, LenProperties
    <3>2. SubSeq(searchBuf, 1, 0) = <<>>
      BY <3>1, SubSeqEmpty
    <3> DEFINE v == SubSeq(stream, 1, 1)
    <3>3. v \in Seq(Character) /\ Len(v) = 1 /\ v[1] = stream[1]
      <4>1. 1 \in 1 .. Len(stream) + 1 /\ 1 \in 0 .. Len(stream) /\ 1 <= 1 + 1
        BY <1>2, <1>4
      <4>2. /\ v \in Seq(Character) /\ Len(v) = 1 - 1 + 1
            /\ \A i \in 1 .. 1 - 1 + 1 : v[i] = stream[1 + i - 1]
        BY <3>1, <4>1, CutText
      <4> HIDE DEF v
      <4> QED BY <4>2
    <3> HIDE DEF v
    <3>4. <<>> \o v = v
      BY <3>3, ConcatEmptySeq
    <3>5. buf = v
      BY <3>2, <3>4 DEF v
    <3> HIDE DEF buf
    <3> QED BY <3>1, <3>3, <3>5
  <2> HIDE DEF buf
  <2>3. searchPos' = IF buf[1] # "n" THEN 1 ELSE 0
    BY <2>1 DEF SkipNewline
  <2>4. Seen' = Seen + 1 /\ stream' = drop_front(text', Seen') /\ Len(stream') \in 0 .. Len(text)
    <3>1. 1 \in 0 .. Len(stream)
      BY <1>2, <1>4
    <3> QED BY <1>1, <2>1, <3>1, DropFacts
  <2>5. PartTyped'
    <3>1. searchPos' \in 0 .. 2 /\ searchPos' <= Seen' /\ Len(buf) >= searchPos'
      BY <1>2, <2>2, <2>3, <2>4
    <3>2. text \in Seq(Character) /\ save \in BOOLEAN
      BY <1>1 DEF PartTyped
    <3> QED BY <1>1, <2>1, <2>2, <2>4, <3>1, <3>2 DEF PartTyped
  <2>6. Places' = Places
    BY <1>1 DEF Places
  <2>7. \A p \in Places : p > Seen' - searchPos'
    <3> SUFFICES ASSUME NEW p \in Places PROVE p > Seen' - searchPos'
      OBVIOUS
    <3>1. p > Seen - searchPos
      BY <1>1 DEF NonePassed
    <3>2. p \in Nat /\ text[p] = "-"
      <4>1. text \in Seq(Character)
        BY <1>1 DEF PartTyped
      <4> QED BY <1>2, <4>1, PlacesAre
    <3>3. CASE buf[1] # "n"
      BY <1>1, <1>2, <2>3, <2>4, <3>1, <3>2, <3>3
    <3>4. CASE buf[1] = "n"
      <4>1. p # Seen + 1
        BY <2>2, <3>2, <3>4
      <4> QED BY <1>1, <1>2, <2>3, <2>4, <3>1, <3>2, <3>4, <4>1
    <3> QED BY <3>3, <3>4
  <2>8. searchPos' = 0 \/ Current'
    <3> SUFFICES ASSUME searchPos' = 1 PROVE Current'
      BY <2>3
    <3>1. Seen' - 1 + 1 = Seen + 1
      BY <1>2, <2>4
    <3>2. searchBuf'[1] = text'[Seen' - 1 + 1]
      BY <1>1, <2>1, <2>2, <3>1
    <3> QED BY <3>2 DEF Current
  <2> QED BY <1>1, <2>1, <2>5, <2>6, <2>7, <2>8 DEF PartInv, NonePassed, Savings, BoundaryFound
<1> QED BY <1>3, <1>4

(* The dashes that the search goes on from. *)
LEMMA DashesAre ==
  ASSUME NEW buf
  PROVE  /\ \A i : i \in Dashes(buf) <=> i \in 2 .. 3 /\ buf[i] = "-"
         /\ Dashes(buf) # {} => /\ Dash(buf) \in Dashes(buf)
                                /\ \A i \in Dashes(buf) : Dash(buf) <= i
<1>1. \A i : i \in Dashes(buf) <=> i \in 2 .. 3 /\ buf[i] = "-"
  <2>1. Size = 3
    BY MarkerIs
  <2> QED BY <2>1 DEF Dashes
<1>2. Dashes(buf) \in SUBSET Nat
  BY <1>1
<1> QED BY <1>1, <1>2, Least DEF Dash

(* What the search relies on when the buffer is full: where the buffer     *)
(* shows the text, and that a boundary in it would be seen.                *)
LEMMA FullBuffer ==
  ASSUME PartInv, NEW buf, Filling(buf), buf # Marker
  PROVE  /\ searchPos \in Nat /\ searchPos <= 2 /\ searchPos <= Seen
         /\ Seen \in Nat /\ Seen + (3 - searchPos) <= Len(text) /\ Len(text) \in Nat
         /\ text \in Seq(Character) /\ save \in BOOLEAN
         /\ buf \in Seq(Character) /\ Len(buf) = 3
         /\ \A i \in 1 .. searchPos : buf[i] = searchBuf[i]
         /\ \A i \in searchPos + 1 .. 3 : buf[i] = text[Seen - searchPos + i]
         /\ \/ \A i \in 1 .. 3 : buf[i] = text[Seen - searchPos + i]
            \/ Stale /\ searchPos > 0
         /\ \A p \in Places : \/ p > Seen - searchPos + 3
                              \/ \E i \in 2 .. 3 : p = Seen - searchPos + i /\ buf[i] = "-"
<1>1. PartTyped /\ NonePassed /\ (searchPos = 0 \/ Current \/ Stale)
  BY DEF PartInv, Filling
<1>2. /\ searchPos \in Nat /\ searchPos <= 2 /\ searchPos <= Seen
      /\ Seen \in Nat /\ Len(text) \in Nat /\ Len(stream) = Len(text) - Seen
      /\ Len(stream) >= 3 - searchPos
  BY <1>1, PartNumbers DEF Filling
<1>3. Seen + (3 - searchPos) <= Len(text)
  BY <1>2
<1>4. text \in Seq(Character) /\ save \in BOOLEAN
  BY <1>1 DEF PartTyped
<1>5. /\ buf \in Seq(Character) /\ Len(buf) = 3
      /\ \A i \in 1 .. searchPos : buf[i] = searchBuf[i]
      /\ \A i \in searchPos + 1 .. 3 : buf[i] = text[Seen - searchPos + i]
  BY <1>1, <1>2, BufferFacts DEF Filling
<1>6. \/ \A i \in 1 .. 3 : buf[i] = text[Seen - searchPos + i]
      \/ Stale /\ searchPos > 0
  <2>1. CASE searchPos = 0
    <3>1. \A i \in 1 .. 3 : i \in searchPos + 1 .. 3
      BY <2>1
    <3> QED BY <1>5, <3>1
  <2>2. CASE searchPos > 0 /\ Current
    <3>1. \A i \in 1 .. 3 : i \in 1 .. searchPos \/ i \in searchPos + 1 .. 3
      BY <1>2
    <3>2. \A i \in 1 .. searchPos : buf[i] = text[Seen - searchPos + i]
      BY <1>5, <2>2 DEF Current
    <3> QED BY <1>5, <3>1, <3>2
  <2> QED BY <1>1, <1>2, <2>1, <2>2
<1>7. ASSUME NEW p \in Places, ~ (p > Seen - searchPos + 3)
      PROVE  \E i \in 2 .. 3 : p = Seen - searchPos + i /\ buf[i] = "-"
  <2>1. /\ p \in Nat /\ p > Seen - searchPos
        /\ text[p] = "-" /\ text[p + 1] = "-" /\ text[p + 2] = "b"
    <3>1. p > Seen - searchPos
      BY <1>1 DEF NonePassed, PartInv, Filling
    <3> QED BY <1>2, <1>4, <3>1, PlacesAre
  <2> DEFINE i == p - (Seen - searchPos)
  <2>2. i \in 1 .. 3 /\ p = Seen - searchPos + i
    BY <1>2, <1>7, <2>1
  <2>3. i + 1 = (p + 1) - (Seen - searchPos) /\ p + 1 = Seen - searchPos + (i + 1)
        /\ p + 2 = Seen - searchPos + (i + 2)
    BY <1>2, <2>1
  <2> HIDE DEF i
  <2>4. CASE Stale /\ searchPos > 0
    <3>1. p > Seen
      BY <2>4 DEF Stale
    <3>2. i \in searchPos + 1 .. 3 /\ i >= 2
      BY <1>2, <2>2, <2>4, <3>1
    <3> QED BY <1>5, <2>1, <2>2, <3>2
  <2>5. CASE \A j \in 1 .. 3 : buf[j] = text[Seen - searchPos + j]
    <3>1. buf[i] = "-"
      BY <2>1, <2>2, <2>5
    <3>2. ASSUME i = 1 PROVE FALSE
      <4>1. buf[2] = text[p + 1] /\ buf[3] = text[p + 2]
        BY <2>3, <2>5, <3>2
      <4> QED BY <1>5, <2>1, <3>1, <3>2, <4>1, MarkerIs
    <3> QED BY <2>2, <3>1, <3>2
  <2> QED BY <1>6, <2>4, <2>5
<1> QED BY <1>2, <1>3, <1>4, <1>5, <1>6, <1>7

(* A dash that is before every boundary stays so. *)
LEMMA StaysBefore ==
  ASSUME DashBeforeAll, Places' = Places, Seen' >= Seen, Seen \in Nat, Seen' \in Nat, text' = text
  PROVE  DashBeforeAll'
<1>1. PICK j \in 1 .. Seen : text[j] = "-" /\ \A p \in Places : p > j
  BY DEF DashBeforeAll
<1>2. j \in 1 .. Seen'
  BY <1>1
<1> QED BY <1>1, <1>2 DEF DashBeforeAll

(* When the buffer shows the text, so does what is saved of it. *)
LEMMA SavedText ==
  ASSUME text \in Seq(Character), NEW n \in Nat, NEW k \in 1 .. 3, n + 3 <= Len(text),
         NEW buf \in Seq(Character), Len(buf) = 3, \A i \in 1 .. 3 : buf[i] = text[n + i]
  PROVE  SubSeq(text, 1, n) \o SubSeq(buf, 1, k) = SubSeq(text, 1, n + k)
<1> DEFINE u == SubSeq(buf, 1, k)
           v == SubSeq(text, n + 1, n + k)
<1>1. Len(text) \in Nat /\ k \in Nat /\ k <= 3 /\ 1 <= k
  BY LenProperties
<1>2. u \in Seq(Character) /\ Len(u) = k /\ \A i \in 1 .. k : u[i] = buf[i]
  <2>1. 1 \in 1 .. Len(buf) + 1 /\ k \in 0 .. Len(buf) /\ 1 <= k + 1
    BY <1>1
  <2>2. u \in Seq(Character) /\ Len(u) = k - 1 + 1 /\ \A i \in 1 .. k - 1 + 1 : u[i] = buf[1 + i - 1]
    BY <1>1, <2>1, CutText
  <2> HIDE DEF u
  <2> QED BY <1>1, <2>2
<1>3. v \in Seq(Character) /\ Len(v) = k /\ \A i \in 1 .. k : v[i] = text[n + i]
  <2>1. n + 1 \in 1 .. Len(text) + 1 /\ n + k \in 0 .. Len(text) /\ n + 1 <= n + k + 1
    BY <1>1
  <2>2. /\ v \in Seq(Character) /\ Len(v) = (n + k) - (n + 1) + 1
        /\ \A i \in 1 .. (n + k) - (n + 1) + 1 : v[i] = text[(n + 1) + i - 1]
    BY <1>1, <2>1, CutText
  <2> HIDE DEF v
  <2> QED BY <1>1, <2>2
<1>4. n \in 0 .. Len(text) /\ n + k \in n .. Len(text)
  BY <1>1
<1>5. SubSeq(text, 1, n) \o v = SubSeq(text, 1, n + k)
  BY <1>4, JoinCuts
<1> HIDE DEF u, v
<1>6. Len(u) = Len(v)
  BY <1>2, <1>3
<1>7. ASSUME NEW i \in 1 .. Len(u) PROVE u[i] = v[i]
  BY <1>2, <1>3, SMTT(30)
<1>8. u = v
  BY <1>2, <1>3, <1>6, <1>7, SeqEqual
<1> QED BY <1>5, <1>8 DEF u

(* A search that goes on from a dash: the buffer shows the text again. *)
LEMMA MoveKeeps ==
  ASSUME PartInv, NEW buf, Filling(buf), buf # Marker, ret' = "searching", Dashes(buf) # {},
         stream' = drop_front(stream, 3 - searchPos), searchPos' = 3 - Dash(buf) + 1,
         searchBuf' = drop_front(buf, Dash(buf) - 1),
         save => saved' = saved \o SubSeq(buf, 1, Dash(buf) - 1), text' = text, save' = save
  PROVE  PartInv'
<1> DEFINE n == Seen - searchPos
           d == Dash(buf)
<1>1. PartTyped /\ Savings /\ ret = "searching"
  BY DEF PartInv, Filling
<1>2. /\ searchPos \in Nat /\ searchPos <= 2 /\ searchPos <= Seen
      /\ Seen \in Nat /\ Seen + (3 - searchPos) <= Len(text) /\ Len(text) \in Nat
  BY FullBuffer
<1>3. /\ text \in Seq(Character) /\ save \in BOOLEAN
      /\ buf \in Seq(Character) /\ Len(buf) = 3
      /\ \A i \in 1 .. searchPos : buf[i] = searchBuf[i]
      /\ \A i \in searchPos + 1 .. 3 : buf[i] = text[n + i]
      /\ \/ \A i \in 1 .. 3 : buf[i] = text[n + i]
         \/ Stale /\ searchPos > 0
      /\ \A p \in Places : \/ p > n + 3
                           \/ \E i \in 2 .. 3 : p = n + i /\ buf[i] = "-"
  BY FullBuffer
<1>4. d \in 2 .. 3 /\ buf[d] = "-" /\ \A i \in 2 .. 3 : buf[i] = "-" => d <= i
  BY DashesAre
<1>5. searchPos' = 4 - d /\ searchBuf' = SubSeq(buf, d, 3) /\ (save => saved' = saved \o SubSeq(buf, 1, d - 1))
  <2>1. searchPos' = 3 - d + 1 /\ searchBuf' = SubSeq(buf, d - 1 + 1, 3)
    BY <1>3 DEF drop_front
  <2>2. 3 - d + 1 = 4 - d /\ d - 1 + 1 = d
    BY <1>4
  <2> HIDE DEF d
  <2>3. save => saved' = saved \o SubSeq(buf, 1, d - 1)
    BY DEF d
  <2> QED BY <2>1, <2>2, <2>3
<1>6. /\ Seen' = Seen + (3 - searchPos) /\ Len(stream') \in 0 .. Len(text)
      /\ stream' = drop_front(text', Seen')
  <2>1. 3 - searchPos \in 0 .. Len(stream)
    <3>1. Len(stream) \in Nat /\ Len(stream) >= 3 - searchPos
      BY <1>1, PartNumbers DEF Filling
    <3> QED BY <1>2, <3>1
  <2> QED BY <1>1, <2>1, DropFacts
<1> HIDE DEF d
<1>7. n \in Nat /\ n + 3 <= Len(text) /\ Seen' = n + 3 /\ Seen' \in Nat /\ Seen' >= Seen
      /\ Seen' - searchPos' = n + (d - 1) /\ searchPos' \in 1 .. 2 /\ d - 1 \in 1 .. 3
  BY <1>2, <1>4, <1>5, <1>6
<1>8. /\ searchBuf' \in Seq(Character) /\ Len(searchBuf') = 4 - d
      /\ \A i \in 1 .. 4 - d : searchBuf'[i] = buf[d + i - 1]
  <2> DEFINE w == SubSeq(buf, d, 3)
  <2>1. d \in 1 .. Len(buf) + 1 /\ 3 \in 0 .. Len(buf) /\ d <= 3 + 1
    BY <1>3, <1>4
  <2>2. w \in Seq(Character) /\ Len(w) = 3 - d + 1 /\ \A i \in 1 .. 3 - d + 1 : w[i] = buf[d + i - 1]
    BY <1>3, <2>1, CutText
  <2>3. 3 - d + 1 = 4 - d
    BY <1>4
  <2> HIDE DEF w
  <2>4. searchBuf' = w
    BY <1>5 DEF w
  <2> QED BY <2>2, <2>3, <2>4
<1> HIDE DEF n
<1>9. PartTyped'
  <2>1. searchPos' \in 0 .. 2 /\ searchPos' <= Seen' /\ Len(searchBuf') >= searchPos'
    BY <1>4, <1>5, <1>7, <1>8
  <2> QED BY <1>3, <1>6, <1>8, <2>1 DEF PartTyped
<1>10. Places' = Places
  BY DEF Places
<1>11. NonePassed'
  <2> SUFFICES ASSUME NEW p \in Places PROVE p > n + (d - 1)
    BY <1>7, <1>10 DEF NonePassed
  <2>1. p \in Nat
    BY <1>2, <1>3, PlacesAre
  <2>2. CASE p > n + 3
    BY <1>4, <1>7, <2>1, <2>2
  <2>3. CASE \E i \in 2 .. 3 : p = n + i /\ buf[i] = "-"
    BY <1>4, <1>7, <2>1, <2>3
  <2> QED BY <1>3, <2>2, <2>3
<1>12. Current'
  <2> SUFFICES ASSUME NEW i \in 1 .. 4 - d PROVE searchBuf'[i] = text[n + (d - 1) + i]
    BY <1>5, <1>7 DEF Current
  <2>1. d + i - 1 \in 1 .. 3 /\ d + i - 1 >= d /\ n + (d - 1) + i = n + (d + i - 1)
    BY <1>4, <1>7
  <2>2. searchBuf'[i] = buf[d + i - 1]
    BY <1>8
  <2>3. CASE \A j \in 1 .. 3 : buf[j] = text[n + j]
    BY <2>1, <2>2, <2>3
  <2>4. CASE Stale /\ searchPos > 0
    <3>1. d > searchPos
      <4> SUFFICES ASSUME d <= searchPos PROVE FALSE
        BY <1>2, <1>4
      <4>1. d \in 2 .. searchPos /\ d \in 1 .. searchPos
        BY <1>2, <1>4
      <4> QED BY <1>3, <1>4, <2>4, <4>1 DEF Stale
    <3>2. d + i - 1 \in searchPos + 1 .. 3
      BY <1>2, <1>4, <2>1, <3>1
    <3> QED BY <1>3, <2>1, <2>2, <3>2
  <2> QED BY <1>3, <2>3, <2>4
<1>13. Savings'
  <2> SUFFICES ASSUME save
               PROVE  /\ DashBeforeAll' \/ saved' = SubSeq(text, 1, n + (d - 1))
                      /\ searchBuf'[1] = "-"
    BY <1>7 DEF Savings
  <2>1. searchBuf'[1] = "-"
    <3>1. 1 \in 1 .. 4 - d /\ d + 1 - 1 = d
      BY <1>4
    <3> QED BY <1>4, <1>8, <3>1
  <2>2. CASE DashBeforeAll
    BY <1>2, <1>7, <1>10, <2>1, <2>2, StaysBefore
  <2>3. CASE ~ DashBeforeAll
    <3>1. saved = SubSeq(text, 1, n) /\ (searchPos > 0 => searchBuf[1] = "-")
      BY <1>1, <2>3 DEF Savings, n
    <3>2. \A i \in 1 .. 3 : buf[i] = text[n + i]
      <4> SUFFICES ASSUME Stale, searchPos > 0 PROVE FALSE
        BY <1>3
      <4>1. PICK j \in 1 .. Seen : text[j] = "-"
        BY <3>1 DEF Stale
      <4>2. \A p \in Places : p \in Nat /\ p > Seen
        BY <1>2, <1>3, PlacesAre DEF Stale
      <4>3. \A p \in Places : p > j
        BY <1>2, <4>1, <4>2
      <4> QED BY <2>3, <4>1, <4>3 DEF DashBeforeAll
    <3>3. SubSeq(text, 1, n) \o SubSeq(buf, 1, d - 1) = SubSeq(text, 1, n + (d - 1))
      BY <1>3, <1>7, <3>2, SavedText
    <3> QED BY <1>5, <2>1, <3>1, <3>3
  <2> QED BY <2>1, <2>2, <2>3
<1>14. BoundaryFound'
  BY DEF BoundaryFound
<1> QED BY <1>9, <1>11, <1>12, <1>13, <1>14 DEF PartInv

(* A search that finds no dash: the buffer is stale from now on. *)
LEMMA ShiftKeeps ==
  ASSUME PartInv, NEW buf, Filling(buf), buf # Marker, ret' = "searching", Dashes(buf) = {},
         stream' = drop_front(stream, 3 - searchPos), searchPos' = searchPos, searchBuf' = buf,
         save => saved' = saved \o buf, text' = text, save' = save
  PROVE  PartInv'
<1> DEFINE n == Seen - searchPos
<1>1. PartTyped /\ Savings /\ ret = "searching"
  BY DEF PartInv, Filling
<1>2. /\ searchPos \in Nat /\ searchPos <= 2 /\ searchPos <= Seen
      /\ Seen \in Nat /\ Seen + (3 - searchPos) <= Len(text) /\ Len(text) \in Nat
  BY FullBuffer
<1>3. /\ text \in Seq(Character) /\ save \in BOOLEAN
      /\ buf \in Seq(Character) /\ Len(buf) = 3
      /\ \A i \in 1 .. searchPos : buf[i] = searchBuf[i]
      /\ \/ \A i \in 1 .. 3 : buf[i] = text[n + i]
         \/ Stale /\ searchPos > 0
      /\ \A p \in Places : \/ p > n + 3
                           \/ \E i \in 2 .. 3 : p = n + i /\ buf[i] = "-"
  BY FullBuffer
<1>4. \A i \in 2 .. 3 : buf[i] # "-"
  BY DashesAre
<1>5. /\ Seen' = Seen + (3 - searchPos) /\ Len(stream') \in 0 .. Len(text)
      /\ stream' = drop_front(text', Seen')
  <2>1. 3 - searchPos \in 0 .. Len(stream)
    <3>1. Len(stream) \in Nat /\ Len(stream) >= 3 - searchPos
      BY <1>1, PartNumbers DEF Filling
    <3> QED BY <1>2, <3>1
  <2> QED BY <1>1, <2>1, DropFacts
<1>6. n \in Nat /\ n + 3 <= Len(text) /\ Seen' = n + 3 /\ Seen' \in Nat /\ Seen' >= Seen
      /\ Seen' - searchPos' <= Seen' /\ n + 1 \in 1 .. Seen'
  BY <1>2, <1>5
<1> HIDE DEF n
<1>7. PartTyped'
  <2>1. searchPos' \in 0 .. 2 /\ searchPos' <= Seen' /\ Len(buf) >= searchPos'
    BY <1>2, <1>3, <1>6
  <2> QED BY <1>3, <1>5, <2>1 DEF PartTyped
<1>8. Places' = Places
  BY DEF Places
<1>9. \A p \in Places : p \in Nat /\ p > Seen'
  <2> SUFFICES ASSUME NEW p \in Places PROVE p \in Nat /\ p > n + 3
    BY <1>6
  <2>1. p \in Nat
    BY <1>2, <1>3, PlacesAre
  <2> QED BY <1>3, <1>4, <2>1
<1>10. NonePassed'
  <2> SUFFICES ASSUME NEW p \in Places PROVE p > Seen' - searchPos'
    BY <1>8 DEF NonePassed
  <2> QED BY <1>2, <1>6, <1>9
<1>11. buf[1] = "-" => \E j \in 1 .. Seen' : text[j] = "-"
  <2> SUFFICES ASSUME buf[1] = "-" PROVE \E j \in 1 .. Seen' : text[j] = "-"
    OBVIOUS
  <2>1. CASE \A i \in 1 .. 3 : buf[i] = text[n + i]
    BY <1>6, <2>1
  <2>2. CASE Stale /\ searchPos > 0
    <3>1. buf[1] = searchBuf[1]
      BY <1>2, <1>3, <2>2
    <3>2. PICK j \in 1 .. Seen : text[j] = "-"
      BY <2>2, <3>1 DEF Stale
    <3>3. j \in 1 .. Seen'
      BY <1>2, <1>6
    <3> QED BY <3>2, <3>3
  <2> QED BY <1>3, <2>1, <2>2
<1>12. Stale'
  <2>1. \A i \in 2 .. searchPos : buf[i] # "-"
    BY <1>2, <1>4
  <2> QED BY <1>8, <1>9, <1>11, <2>1 DEF Stale
<1>13. Savings'
  <2> SUFFICES ASSUME save
               PROVE  /\ DashBeforeAll' \/ saved' = SubSeq(text, 1, Seen' - searchPos)
                      /\ searchPos > 0 => buf[1] = "-"
    BY DEF Savings
  <2>1. DashBeforeAll \/ saved = SubSeq(text, 1, n)
    BY <1>1 DEF Savings, n
  <2>2. searchPos > 0 => buf[1] = "-"
    <3>1. searchPos > 0 => searchBuf[1] = "-"
      BY <1>1 DEF Savings
    <3> QED BY <1>2, <1>3, <3>1
  <2>3. CASE searchPos > 0
    <3>1. PICK j \in 1 .. Seen' : text[j] = "-"
      BY <1>11, <2>2, <2>3
    <3>2. \A p \in Places : p > j
      BY <1>6, <1>9
    <3> QED BY <1>8, <2>2, <3>1, <3>2 DEF DashBeforeAll
  <2>4. CASE searchPos = 0 /\ DashBeforeAll
    BY <1>2, <1>6, <1>8, <2>2, <2>4, StaysBefore
  <2>5. CASE searchPos = 0 /\ saved = SubSeq(text, 1, n)
    <3>1. \A i \in 1 .. 3 : buf[i] = text[n + i]
      BY <1>3, <2>5
    <3>2. 3 \in 1 .. 3 /\ Seen' - searchPos = n + 3
      BY <1>6, <2>5
    <3>3. SubSeq(text, 1, n) \o SubSeq(buf, 1, 3) = SubSeq(text, 1, n + 3)
      BY <1>3, <1>6, <3>1, <3>2, SavedText
    <3>4. SubSeq(buf, 1, 3) = buf
      BY <1>3, SubSeqFull
    <3> QED BY <2>2, <2>5, <3>2, <3>3, <3>4
  <2> QED BY <1>2, <2>1, <2>3, <2>4, <2>5
<1>14. BoundaryFound'
  BY DEF BoundaryFound
<1> QED BY <1>7, <1>10, <1>12, <1>13, <1>14 DEF PartInv

(* what is in the stream at first *)
LEMMA TextsAre ==
  SeqOf(Character, MaxText) \subseteq Seq(Character)
BY DEF SeqOf

(* The search begins with all of the text in the stream. *)
LEMMA PartInitInv ==
  PartInit => PartInv
<1> SUFFICES ASSUME PartInit PROVE PartInv
  OBVIOUS
<1>1. text \in Seq(Character) /\ Len(text) \in Nat
  BY TextsAre, LenProperties DEF PartInit, Character
<1>2. Seen = 0
  BY <1>1 DEF PartInit, Seen
<1>3. stream = drop_front(text, 0)
  BY <1>1, SubSeqFull DEF PartInit, drop_front
<1>4. PartTyped
  <2>1. <<>> \in Seq(Character) /\ Len(<<>>) = 0
    BY EmptySeq
  <2> QED BY <1>1, <1>2, <1>3, <2>1 DEF PartInit, PartTyped
<1>5. NonePassed
  <2> SUFFICES ASSUME NEW p \in Places PROVE p > 0
    BY <1>2 DEF PartInit, NonePassed
  <2>1. p \in 1 .. Len(text) - 2
    BY <1>1, PlacesAre
  <2> QED BY <1>1, <2>1
<1>6. Savings
  <2>1. SubSeq(text, 1, 0) = <<>>
    BY <1>1, SubSeqEmpty
  <2> QED BY <1>2, <2>1 DEF PartInit, Savings
<1>7. BoundaryFound
  BY DEF PartInit, BoundaryFound
<1> QED BY <1>4, <1>5, <1>6, <1>7 DEF PartInit, PartInv

(* the steps of the search *)
LEMMA PartStepInv ==
  PartInv /\ [PartNext]_partVars => PartInv'
<1> SUFFICES ASSUME PartInv, [PartNext]_partVars PROVE PartInv'
  OBVIOUS
<1>1. CASE SkipNewline
  BY <1>1, SkipKeeps
<1>2. CASE Search
  <2>1. PartTyped
    BY DEF PartInv
  <2>2. ret = "searching" /\ text' = text /\ save' = save
    BY <1>2, <2>1, SearchCases
  <2>3. CASE /\ Len(stream) < 3 - searchPos /\ ret' = "false"
             /\ UNCHANGED <<stream, searchBuf, searchPos, saved>>
    BY <2>2, <2>3, FailKeeps
  <2>4. CASE ~ (/\ Len(stream) < 3 - searchPos /\ ret' = "false"
                /\ UNCHANGED <<stream, searchBuf, searchPos, saved>>)
    <3>1. PICK buf :
             /\ Filling(buf) /\ stream' = drop_front(stream, 3 - searchPos)
             /\ \/ /\ buf = Marker /\ ret' = "true" /\ saved' = saved /\ searchPos' = searchPos
                   /\ searchBuf' = buf
                \/ /\ buf # Marker /\ ret' = "searching" /\ Dashes(buf) # {}
                   /\ searchPos' = 3 - Dash(buf) + 1
                   /\ searchBuf' = drop_front(buf, Dash(buf) - 1)
                   /\ save => saved' = saved \o SubSeq(buf, 1, Dash(buf) - 1)
                \/ /\ buf # Marker /\ ret' = "searching" /\ Dashes(buf) = {}
                   /\ searchPos' = searchPos /\ searchBuf' = buf
                   /\ save => saved' = saved \o buf
      BY <1>2, <2>1, <2>4, SearchCases
    <3>2. CASE buf = Marker /\ ret' = "true"
      BY <2>2, <3>1, <3>2, SearchFinds
    <3>3. CASE ~ (buf = Marker /\ ret' = "true") /\ Dashes(buf) # {}
      BY <2>2, <3>1, <3>3, MoveKeeps
    <3>4. CASE ~ (buf = Marker /\ ret' = "true") /\ Dashes(buf) = {}
      BY <2>2, <3>1, <3>4, ShiftKeeps
    <3> QED BY <3>2, <3>3, <3>4
  <2> QED BY <2>3, <2>4
<1>3. CASE UNCHANGED partVars
  BY <1>3, PartSame
<1> QED BY <1>1, <1>2, <1>3 DEF PartNext

(* FindMultipartBoundary, with any text in the stream: a boundary that is  *)
(* there is not passed over, and when no dash precedes the first one the   *)
(* search stops right behind it, with what precedes it saved.              *)
THEOREM NoBoundaryIsMissed == PartSpec => []BoundaryFound
<1>1. PartInv => BoundaryFound
  BY DEF PartInv
<1> QED BY <1>1, PartInitInv, PartStepInv, PTL DEF PartSpec

(***************************************************************************)
(* json::parser: the depth that the callback is given.  depth is counted   *)
(* up while a value is kept and down at every end, which agree as long as  *)
(* no object or array is refused at its start.                             *)
(***************************************************************************)
(* the calls of parse_internal, and the depth they are at *)
OpenCall ==
  [kind : Token, at : Nat, keep : BOOLEAN, keep_tag : BOOLEAN, key : Name,
   holds : [Name -> SUBSET Nat]]

ParserTyped ==
  /\ calls \in Seq(OpenCall) /\ depth \in Int /\ callback \in BOOLEAN

StartRefused == \E r \in refused : r.name \in {"object_start", "array_start"}

(* While no start was refused all open calls keep their values, and the    *)
(* depth is their number.                                                  *)
AllKept ==
  callback /\ ~ StartRefused =>
    /\ \A i \in 1 .. Len(calls) : calls[i].keep
    /\ depth = Len(calls)

EventDepth == ~ StartRefused => event.depth = event.nesting

DepthInv == ParserTyped /\ AllKept /\ EventDepth

(* One of the open calls gets another keep_tag or holds more; what it keeps  *)
(* of itself stays.                                                          *)
LEMMA CallChanged ==
  ASSUME NEW s \in Seq(OpenCall), NEW i \in 1 .. Len(s), NEW x \in OpenCall, x.keep = s[i].keep,
         NEW t, t = [s EXCEPT ![i] = x]
  PROVE  /\ t \in Seq(OpenCall) /\ Len(t) = Len(s)
         /\ \A j \in 1 .. Len(s) : t[j].keep = s[j].keep
<1>1. Len(s) \in Nat /\ DOMAIN s = 1 .. Len(s)
  BY LenProperties
<1>2. t \in Seq(OpenCall) /\ Len(t) = Len(s)
  BY ExceptSeq
<1>3. ASSUME NEW j \in 1 .. Len(s) PROVE t[j].keep = s[j].keep
  BY <1>1
<1> QED BY <1>2, <1>3

(* What a call holds is positions, and it still keeps what it kept when a  *)
(* value is added to it.                                                   *)
LEMMA AddedIs ==
  ASSUME NEW caller \in OpenCall, NEW holds \in SUBSET Nat
  PROVE  Added(caller, holds) \in OpenCall /\ Added(caller, holds).keep = caller.keep
<1>1. caller.key \in Name /\ caller.holds \in [Name -> SUBSET Nat]
  BY DEF OpenCall
<1> DEFINE here == caller.holds[caller.key]
           h == [caller.holds EXCEPT ![caller.key] = IF caller.kind = "[" THEN here \cup holds ELSE holds]
<1>2. here \in SUBSET Nat
  BY <1>1
<1>3. h \in [Name -> SUBSET Nat]
  BY <1>1, <1>2
<1>4. Added(caller, holds) = [caller EXCEPT !.holds = h]
  BY DEF Added, OpenCall
<1> HIDE DEF h
<1>5. [caller EXCEPT !.holds = h] \in OpenCall /\ [caller EXCEPT !.holds = h].keep = caller.keep
  BY <1>3 DEF OpenCall
<1> QED BY <1>4, <1>5

(* what all the names of a call hold *)
LEMMA AllOfIs ==
  ASSUME NEW call \in OpenCall
  PROVE  AllOf(call) \in SUBSET Nat
<1>1. call.holds \in [Name -> SUBSET Nat]
  BY DEF OpenCall
<1> QED BY <1>1 DEF AllOf

(* A value is returned to the open calls, which stay as they are but for   *)
(* what the last of them holds.                                            *)
LEMMA Returned ==
  ASSUME NEW v \in [discarded : BOOLEAN, holds : SUBSET Nat], NEW others \in Seq(OpenCall),
         Return(v, others)
  PROVE  /\ calls' \in Seq(OpenCall) /\ Len(calls') = Len(others) /\ Len(others) \in Nat
         /\ \A j \in 1 .. Len(others) : calls'[j].keep = others[j].keep
<1>1. Len(others) \in Nat
  BY LenProperties
<1>2. CASE calls' = others
  BY <1>1, <1>2
<1>3. CASE calls' # others
  <2> DEFINE n == Len(others)
             x == Added(others[n], v.holds)
  <2>1. others # <<>> /\ calls' = [others EXCEPT ![n] = x]
    BY <1>3 DEF Return
  <2>2. n \in 1 .. Len(others)
    BY <1>1, <2>1, EmptySeq
  <2>3. others[n] \in OpenCall
    BY <2>2, ElementOfSeq
  <2>4. x \in OpenCall /\ x.keep = others[n].keep
    <3>1. v.holds \in SUBSET Nat
      OBVIOUS
    <3> QED BY <2>3, <3>1, AddedIs
  <2> HIDE DEF x, n
  <2> QED BY <1>1, <2>1, <2>2, <2>4, CallChanged DEF n
<1> QED BY <1>2, <1>3

(* What was refused stays so. *)
LEMMA RefusedGrows ==
  ASSUME NEW d, NEW e, NEW n, NEW p, NEW answer \in BOOLEAN, Calls(d, e, n, p, answer)
  PROVE  /\ refused \subseteq refused' /\ (StartRefused => StartRefused')
         /\ event'.depth = d /\ event'.nesting = n
         /\ e \in {"object_start", "array_start"} /\ ~ answer => StartRefused'
<1>1. refused \subseteq refused' /\ event' = [name |-> e, depth |-> d, nesting |-> n]
  BY DEF Calls
<1>2. ~ answer => [name |-> e, at |-> p] \in refused'
  BY DEF Calls
<1> QED BY <1>1, <1>2 DEF StartRefused

(* While calls are kept, keep is true for the next one. *)
LEMMA KeepIs ==
  ASSUME DepthInv
  PROVE  /\ Keep \in BOOLEAN /\ Len(calls) \in Nat
         /\ calls # <<>> => Len(calls) \in 1 .. Len(calls) /\ Top \in OpenCall
         /\ callback /\ ~ StartRefused => Keep
<1>1. calls \in Seq(OpenCall) /\ Len(calls) \in Nat
  BY LenProperties DEF DepthInv, ParserTyped
<1>2. calls # <<>> => Len(calls) \in 1 .. Len(calls)
  BY <1>1, EmptySeq
<1>3. calls # <<>> => Top \in OpenCall
  BY <1>1, <1>2, ElementOfSeq DEF Top
<1>4. Keep \in BOOLEAN
  BY <1>3 DEF Keep, OpenCall
<1>5. callback /\ ~ StartRefused => Keep
  BY <1>2 DEF DepthInv, AllKept, Keep, Top
<1> QED BY <1>1, <1>2, <1>3, <1>4, <1>5

(* The calls are as many as before, and each keeps what it kept. *)
LEMMA CallsKept ==
  ASSUME DepthInv, callback' = callback, depth' = depth,
         calls' \in Seq(OpenCall), Len(calls') = Len(calls),
         \A j \in 1 .. Len(calls) : calls'[j].keep = calls[j].keep
  PROVE  ParserTyped' /\ ((StartRefused => StartRefused') => AllKept')
<1>1. ParserTyped'
  BY DEF DepthInv, ParserTyped
<1>2. ASSUME StartRefused => StartRefused' PROVE AllKept'
  BY <1>2 DEF DepthInv, AllKept
<1> QED BY <1>1, <1>2

(* A step that does not ask the callback keeps the invariant. *)
LEMMA SilentKeeps ==
  ASSUME DepthInv, Silent, callback' = callback, depth' = depth,
         calls' \in Seq(OpenCall), Len(calls') = Len(calls),
         \A j \in 1 .. Len(calls) : calls'[j].keep = calls[j].keep
  PROVE  DepthInv'
<1>1. StartRefused' = StartRefused /\ event' = event
  BY DEF Silent, StartRefused
<1>2. ParserTyped' /\ AllKept'
  BY <1>1, CallsKept
<1>3. EventDepth'
  BY <1>1 DEF DepthInv, EventDepth
<1> QED BY <1>2, <1>3 DEF DepthInv

(* So does a step that asks the callback at the depth of the open calls. *)
LEMMA AskedKeeps ==
  ASSUME DepthInv, callback, callback' = callback, depth' = depth,
         NEW e, NEW p, NEW answer \in BOOLEAN, Calls(depth, e, Len(calls), p, answer),
         calls' \in Seq(OpenCall), Len(calls') = Len(calls),
         \A j \in 1 .. Len(calls) : calls'[j].keep = calls[j].keep
  PROVE  DepthInv'
<1>1. (StartRefused => StartRefused') /\ event'.depth = depth /\ event'.nesting = Len(calls)
  BY RefusedGrows
<1>2. ParserTyped' /\ AllKept'
  BY <1>1, CallsKept
<1>3. EventDepth'
  BY <1>1 DEF DepthInv, AllKept, EventDepth
<1> QED BY <1>2, <1>3 DEF DepthInv

(* where a token is *)
LEMMA PositionsAre ==
  ASSUME tokens \in Seq(Token)
  PROVE  Here \in Nat
BY LenProperties DEF Here

(* a scalar, with the callback or without *)
LEMMA ScalarKeeps ==
  ASSUME DepthInv, tokens \in Seq(Token), NEW t, ScalarValue(t), callback' = callback
  PROVE  DepthInv'
<1>1. depth' = depth /\ Here \in Nat /\ calls \in Seq(OpenCall)
  BY PositionsAre DEF ScalarValue, DepthInv, ParserTyped
<1>2. /\ Held({Here}) \in [discarded : BOOLEAN, holds : SUBSET Nat]
      /\ Discarded \in [discarded : BOOLEAN, holds : SUBSET Nat]
  BY <1>1 DEF Held, Discarded
<1>3. CASE Keep /\ callback
  <2>1. PICK answer \in BOOLEAN :
          /\ Calls(depth, "value", Len(calls), Here, answer)
          /\ Return(IF answer THEN Held({Here}) ELSE Discarded, calls)
    BY <1>3 DEF ScalarValue
  <2> DEFINE v == IF answer THEN Held({Here}) ELSE Discarded
  <2>2. v \in [discarded : BOOLEAN, holds : SUBSET Nat] /\ Return(v, calls)
    BY <1>2, <2>1
  <2> HIDE DEF v
  <2>3. /\ calls' \in Seq(OpenCall) /\ Len(calls') = Len(calls)
        /\ \A j \in 1 .. Len(calls) : calls'[j].keep = calls[j].keep
    BY <1>1, <2>2, Returned
  <2> QED BY <1>1, <1>3, <2>1, <2>3, AskedKeeps
<1>4. CASE ~ (Keep /\ callback)
  <2>1. Silent /\ Return(Held({Here}), calls)
    BY <1>4 DEF ScalarValue
  <2>2. /\ calls' \in Seq(OpenCall) /\ Len(calls') = Len(calls)
        /\ \A j \in 1 .. Len(calls) : calls'[j].keep = calls[j].keep
    BY <1>1, <1>2, <2>1, Returned
  <2> QED BY <1>1, <2>1, <2>2, SilentKeeps
<1> QED BY <1>3, <1>4

(* a key: the answer changes keep_tag, not keep *)
LEMMA KeyKeeps ==
  ASSUME DepthInv, NEW t \in String, Key(t), calls # <<>>, callback' = callback
  PROVE  DepthInv'
<1> DEFINE n == Len(calls)
<1>1. depth' = depth /\ calls \in Seq(OpenCall)
  BY DEF Key, DepthInv, ParserTyped
<1>2. n \in 1 .. n /\ calls[n] \in OpenCall /\ Top = calls[n] /\ Top.keep \in BOOLEAN
  BY KeepIs DEF Top, OpenCall
<1>3. ASSUME NEW tag \in BOOLEAN, calls' = [calls EXCEPT ![n].keep_tag = tag, ![n].key = t]
      PROVE  /\ calls' \in Seq(OpenCall) /\ Len(calls') = n
             /\ \A j \in 1 .. n : calls'[j].keep = calls[j].keep
  <2> DEFINE x == [calls[n] EXCEPT !.keep_tag = tag, !.key = t]
  <2>1. calls' = [calls EXCEPT ![n] = x]
    BY <1>1, <1>2, <1>3
  <2>2. x \in OpenCall /\ x.keep = calls[n].keep
    BY <1>2, <1>3 DEF OpenCall, Name
  <2> HIDE DEF x, n
  <2> QED BY <1>1, <1>2, <2>1, <2>2, CallChanged DEF n
<1>4. CASE Top.keep /\ callback
  <2>1. PICK answer \in BOOLEAN :
          /\ Calls(depth, "key", Len(calls), Here, answer)
          /\ calls' = [calls EXCEPT ![Len(calls)].keep_tag = answer, ![Len(calls)].key = t]
    BY <1>4 DEF Key
  <2>2. /\ calls' \in Seq(OpenCall) /\ Len(calls') = Len(calls)
        /\ \A j \in 1 .. Len(calls) : calls'[j].keep = calls[j].keep
    BY <1>3, <2>1
  <2> QED BY <1>1, <1>4, <2>1, <2>2, AskedKeeps
<1>5. CASE ~ (Top.keep /\ callback)
  <2>1. Silent /\ calls' = [calls EXCEPT ![Len(calls)].keep_tag = Top.keep, ![Len(calls)].key = t]
    BY <1>5 DEF Key
  <2>2. /\ calls' \in Seq(OpenCall) /\ Len(calls') = Len(calls)
        /\ \A j \in 1 .. Len(calls) : calls'[j].keep = calls[j].keep
    BY <1>2, <1>3, <2>1
  <2> QED BY <1>1, <2>1, <2>2, SilentKeeps
<1> QED BY <1>4, <1>5

(* what a call holds when it begins *)
ItselfAt(here) == [k \in Name |-> IF k = "itself" THEN {here} ELSE {}]

(* the call of an object or array that begins *)
NewCall(t, here, keep) ==
  [kind |-> t, at |-> here, keep |-> keep, keep_tag |-> TRUE, key |-> "itself",
   holds |-> ItselfAt(here)]

LEMMA NewCallIs ==
  ASSUME NEW t \in Token, NEW here \in Nat, NEW keep \in BOOLEAN
  PROVE  NewCall(t, here, keep) \in OpenCall /\ NewCall(t, here, keep).keep = keep
<1>1. ItselfAt(here) \in [Name -> SUBSET Nat]
  BY DEF ItselfAt
<1>2. "itself" \in Name
  BY DEF Name
<1> QED BY <1>1, <1>2 DEF NewCall, OpenCall

(* One more call and one more of depth, or a start that was refused. *)
LEMMA StartKeeps ==
  ASSUME DepthInv, tokens \in Seq(Token), NEW t \in Token, StartValue(t), callback' = callback
  PROVE  DepthInv'
<1>1. /\ calls \in Seq(OpenCall) /\ Len(calls) \in Nat /\ depth \in Int /\ callback \in BOOLEAN
      /\ Keep \in BOOLEAN /\ Here \in Nat
  BY KeepIs, PositionsAre DEF DepthInv, ParserTyped
<1>2. PICK answer \in (IF Keep /\ callback THEN BOOLEAN ELSE {TRUE}) :
        /\ calls' = Append(calls, NewCall(t, Here, Keep /\ answer))
        /\ IF Keep /\ callback
           THEN /\ depth' = depth + 1
                /\ Calls(depth, IF t = "{" THEN "object_start" ELSE "array_start",
                         Len(calls), Here, answer)
           ELSE Silent /\ UNCHANGED depth
  BY DEF StartValue, NewCall, ItselfAt
<1>3. answer \in BOOLEAN
  BY <1>2
<1> DEFINE x == NewCall(t, Here, Keep /\ answer)
<1>4. x \in OpenCall /\ x.keep = (Keep /\ answer)
  BY <1>1, <1>3, NewCallIs
<1>8. Keep /\ answer => x.keep
  BY <1>4
<1> HIDE DEF x
<1>5. /\ calls' \in Seq(OpenCall) /\ Len(calls') = Len(calls) + 1
      /\ \A j \in 1 .. Len(calls) : calls'[j] = calls[j]
      /\ calls'[Len(calls) + 1] = x
  <2>1. calls' = Append(calls, x)
    BY <1>2 DEF x
  <2> DEFINE w == Append(calls, x)
  <2>2. /\ w \in Seq(OpenCall) /\ Len(w) = Len(calls) + 1
        /\ \A j \in 1 .. Len(calls) : w[j] = calls[j]
        /\ w[Len(calls) + 1] = x
    BY <1>1, <1>4, AppendProperties
  <2> HIDE DEF w
  <2> QED BY <2>1, <2>2 DEF w
<1>6. CASE Keep /\ callback
  <2> DEFINE e == IF t = "{" THEN "object_start" ELSE "array_start"
  <2>1. depth' = depth + 1 /\ Calls(depth, e, Len(calls), Here, answer) /\ e \in {"object_start", "array_start"}
    BY <1>2, <1>6
  <2> HIDE DEF e
  <2>2. /\ StartRefused => StartRefused'
        /\ event'.depth = depth /\ event'.nesting = Len(calls)
        /\ ~ answer => StartRefused'
    BY <1>3, <2>1, RefusedGrows
  <2>3. ParserTyped'
    <3>1. depth' \in Int
      BY <1>1, <2>1
    <3> QED BY <1>1, <1>5, <3>1 DEF ParserTyped
  <2>4. AllKept'
    <3> SUFFICES ASSUME ~ StartRefused'
                 PROVE  (\A i \in 1 .. Len(calls') : calls'[i].keep) /\ depth' = Len(calls')
      BY DEF AllKept
    <3>1. (\A i \in 1 .. Len(calls) : calls[i].keep) /\ depth = Len(calls)
      BY <1>6, <2>2 DEF DepthInv, AllKept
    <3>2. x.keep
      BY <1>3, <1>6, <1>8, <2>2
    <3>3. depth' = Len(calls')
      BY <1>1, <1>5, <2>1, <3>1
    <3>4. ASSUME NEW i \in 1 .. Len(calls') PROVE calls'[i].keep
      <4>1. i \in 1 .. Len(calls) \/ i = Len(calls) + 1
        BY <1>1, <1>5
      <4>2. CASE i \in 1 .. Len(calls)
        BY <1>5, <3>1, <4>2
      <4>3. CASE i = Len(calls) + 1
        BY <1>5, <3>2, <4>3
      <4> QED BY <4>1, <4>2, <4>3
    <3> QED BY <3>3, <3>4
  <2>5. EventDepth'
    BY <1>6, <2>2 DEF DepthInv, AllKept, EventDepth
  <2> QED BY <2>3, <2>4, <2>5 DEF DepthInv
<1>7. CASE ~ (Keep /\ callback)
  <2>1. Silent /\ depth' = depth
    BY <1>2, <1>7
  <2>2. StartRefused' = StartRefused /\ event' = event
    BY <2>1 DEF Silent, StartRefused
  <2>3. callback => StartRefused
    BY <1>7, KeepIs
  <2>4. ParserTyped'
    BY <1>1, <1>5, <2>1 DEF ParserTyped
  <2>5. AllKept' /\ EventDepth'
    BY <2>2, <2>3 DEF DepthInv, AllKept, EventDepth
  <2> QED BY <2>4, <2>5 DEF DepthInv
<1> QED BY <1>6, <1>7

(* the calls that stay when the last one returns *)
LEMMA FrontOfCalls ==
  ASSUME calls \in Seq(OpenCall), calls # <<>>
  PROVE  /\ Front(calls) \in Seq(OpenCall) /\ Len(Front(calls)) = Len(calls) - 1
         /\ \A j \in 1 .. Len(calls) - 1 : Front(calls)[j] = calls[j]
<1>1. Len(calls) \in Nat /\ Len(calls) \in 1 .. Len(calls)
  BY EmptySeq
<1> DEFINE w == SubSeq(calls, 1, Len(calls) - 1)
<1>2. \A i \in 1 .. Len(calls) - 1 : calls[i] \in OpenCall
  <2>1. \A i \in 1 .. Len(calls) - 1 : i \in 1 .. Len(calls)
    BY <1>1
  <2> QED BY <1>1, <2>1, ElementOfSeq
<1>3. /\ w \in Seq(OpenCall)
      /\ Len(w) = (IF 1 <= Len(calls) - 1 THEN Len(calls) - 1 - 1 + 1 ELSE 0)
      /\ \A i \in 1 .. (Len(calls) - 1 - 1 + 1) : w[i] = calls[1 + i - 1]
  <2>1. 1 \in Int /\ Len(calls) - 1 \in Int
    BY <1>1
  <2> QED BY <1>1, <1>2, <2>1, SubSeqProperties
<1> HIDE DEF w
<1>4. Len(w) = Len(calls) - 1
  <2>1. \A n \in Nat \ {0} : (IF 1 <= n - 1 THEN n - 1 - 1 + 1 ELSE 0) = n - 1
    OBVIOUS
  <2>2. Len(calls) \in Nat \ {0}
    BY EmptySeq
  <2>3. Len(w) = (IF 1 <= Len(calls) - 1 THEN Len(calls) - 1 - 1 + 1 ELSE 0)
    BY <1>3
  <2> QED BY <2>1, <2>2, <2>3
<1>5. ASSUME NEW j \in 1 .. Len(calls) - 1 PROVE w[j] = calls[j]
  <2>1. j \in 1 .. (Len(calls) - 1 - 1 + 1) /\ 1 + j - 1 = j
    BY <1>1
  <2> QED BY <1>3, <2>1
<1> QED BY <1>3, <1>4, <1>5 DEF w, Front

(* One call less and one less of depth. *)
LEMMA EndKeeps ==
  ASSUME DepthInv, NEW t, EndValue(t), callback' = callback
  PROVE  DepthInv'
<1>1. /\ calls # <<>> /\ calls \in Seq(OpenCall) /\ depth \in Int /\ callback \in BOOLEAN
      /\ Len(calls) \in Nat /\ Len(calls) \in 1 .. Len(calls) /\ Top \in OpenCall
  BY KeepIs DEF DepthInv, ParserTyped, EndValue
<1> DEFINE others == Front(calls)
           v == IF Top.keep THEN Held(AllOf(Top)) ELSE Discarded
           asks == callback /\ (Top.keep \/ (t = "]" /\ expecting = "value_or_end"))
<1>2. /\ others \in Seq(OpenCall) /\ Len(others) = Len(calls) - 1
      /\ \A j \in 1 .. Len(calls) - 1 : others[j] = calls[j]
  BY <1>1, FrontOfCalls
<1>3. v \in [discarded : BOOLEAN, holds : SUBSET Nat] /\ Discarded \in [discarded : BOOLEAN, holds : SUBSET Nat]
  BY <1>1, AllOfIs DEF Held, Discarded
<1> HIDE DEF others, v, asks
<1>4. IF asks
      THEN \E answer \in BOOLEAN : AskAtEnd(t, answer) /\ Return(IF answer THEN v ELSE Discarded, others)
      ELSE Silent /\ UNCHANGED depth /\ Return(v, others)
  BY DEF EndValue, asks, v, others
<1>5. PICK u \in [discarded : BOOLEAN, holds : SUBSET Nat] : Return(u, others)
  BY <1>3, <1>4
<1>6. /\ calls' \in Seq(OpenCall) /\ Len(calls') = Len(calls) - 1
      /\ \A j \in 1 .. Len(calls) - 1 : calls'[j].keep = calls[j].keep
  BY <1>2, <1>5, Returned
<1>7. callback /\ ~ StartRefused => Top.keep
  BY <1>1 DEF DepthInv, AllKept, Top
<1>8. CASE asks
  <2>1. PICK answer \in BOOLEAN : AskAtEnd(t, answer)
    BY <1>4, <1>8
  <2> DEFINE e == IF t = "}" THEN "object_end" ELSE "array_end"
  <2>2. depth' = depth - 1 /\ Calls(depth - 1, e, Len(calls) - 1, Top.at, answer)
    BY <2>1 DEF AskAtEnd
  <2> HIDE DEF e
  <2>3. /\ StartRefused => StartRefused'
        /\ event'.depth = depth - 1 /\ event'.nesting = Len(calls) - 1
    BY <2>2, RefusedGrows
  <2>4. ParserTyped'
    BY <1>1, <1>6, <2>2 DEF ParserTyped
  <2>5. callback
    BY <1>8 DEF asks
  <2>6. AllKept'
    <3> SUFFICES ASSUME ~ StartRefused'
                 PROVE  (\A i \in 1 .. Len(calls') : calls'[i].keep) /\ depth' = Len(calls')
      BY DEF AllKept
    <3>1. (\A i \in 1 .. Len(calls) : calls[i].keep) /\ depth = Len(calls)
      BY <2>3, <2>5 DEF DepthInv, AllKept
    <3>2. depth' = Len(calls') /\ \A i \in 1 .. Len(calls') : i \in 1 .. Len(calls) /\ i \in 1 .. Len(calls) - 1
      BY <1>1, <1>6, <2>2, <3>1
    <3> QED BY <1>6, <3>1, <3>2
  <2>7. EventDepth'
    BY <2>3, <2>5 DEF DepthInv, AllKept, EventDepth
  <2> QED BY <2>4, <2>6, <2>7 DEF DepthInv
<1>9. CASE ~ asks
  <2>1. Silent /\ depth' = depth
    BY <1>4, <1>9
  <2>2. StartRefused' = StartRefused /\ event' = event
    BY <2>1 DEF Silent, StartRefused
  <2>3. callback => StartRefused
    BY <1>1, <1>7, <1>9 DEF asks, OpenCall
  <2>4. ParserTyped'
    BY <1>1, <1>6, <2>1 DEF ParserTyped
  <2>5. AllKept' /\ EventDepth'
    BY <2>2, <2>3 DEF DepthInv, AllKept, EventDepth
  <2> QED BY <2>4, <2>5 DEF DepthInv
<1> QED BY <1>8, <1>9

(* Members and separators are in an object or array. *)
Inside == expecting \in {"key", "key_or_end", "separator"} => calls # <<>>

ParserInv == DepthInv /\ Inside /\ tokens \in Seq(Token)

(* A value that is returned is returned into an object or array, or is the *)
(* whole text.                                                             *)
LEMMA ReturnInside ==
  ASSUME NEW v \in [discarded : BOOLEAN, holds : SUBSET Nat], NEW others \in Seq(OpenCall),
         Return(v, others)
  PROVE  Inside'
<1>1. /\ calls' \in Seq(OpenCall) /\ Len(calls') = Len(others) /\ Len(others) \in Nat
  BY Returned
<1>2. CASE others = <<>>
  <2>1. expecting' = "end"
    BY <1>2 DEF Return
  <2> QED BY <2>1 DEF Inside
<1>3. CASE others # <<>>
  <2>1. Len(others) # 0
    BY <1>3, EmptySeq
  <2>2. calls' # <<>>
    BY <1>1, <2>1
  <2> QED BY <2>2 DEF Inside
<1> QED BY <1>2, <1>3

(* every step keeps members and separators inside *)
LEMMA InsideKept ==
  ASSUME DepthInv, Inside, tokens \in Seq(Token), NEW t \in Token,
         ScalarValue(t) \/ StartValue(t) \/ EndValue(t) \/ Key(t)
           \/ Separator(t) \/ End(t) \/ Unexpected(t)
  PROVE  Inside'
<1>1. /\ calls \in Seq(OpenCall) /\ Keep \in BOOLEAN /\ Here \in Nat /\ Len(calls) \in Nat
      /\ calls # <<>> => Top \in OpenCall
  BY KeepIs, PositionsAre DEF DepthInv, ParserTyped
<1>2. CASE ScalarValue(t)
  <2>1. /\ Held({Here}) \in [discarded : BOOLEAN, holds : SUBSET Nat]
        /\ Discarded \in [discarded : BOOLEAN, holds : SUBSET Nat]
    BY <1>1 DEF Held, Discarded
  <2>2. PICK u \in [discarded : BOOLEAN, holds : SUBSET Nat] : Return(u, calls)
    BY <1>2, <2>1 DEF ScalarValue
  <2> QED BY <1>1, <2>2, ReturnInside
<1>3. CASE StartValue(t)
  <2>1. PICK answer \in BOOLEAN :
          calls' = Append(calls, NewCall(t, Here, Keep /\ answer))
    BY <1>3 DEF StartValue, NewCall, ItselfAt
  <2> DEFINE x == NewCall(t, Here, Keep /\ answer)
  <2>2. x \in OpenCall
    BY <1>1, NewCallIs
  <2> HIDE DEF x
  <2>3. calls' # <<>>
    <3>1. calls' = Append(calls, x)
      BY <2>1 DEF x
    <3> QED BY <1>1, <2>2, <3>1, AppendProperties
  <2> QED BY <2>3 DEF Inside
<1>4. CASE EndValue(t)
  <2>1. calls # <<>> /\ Top \in OpenCall
    BY <1>1, <1>4 DEF EndValue
  <2>2. /\ Held(AllOf(Top)) \in [discarded : BOOLEAN, holds : SUBSET Nat]
        /\ Discarded \in [discarded : BOOLEAN, holds : SUBSET Nat]
    BY <2>1, AllOfIs DEF Held, Discarded
  <2>3. PICK u \in [discarded : BOOLEAN, holds : SUBSET Nat] : Return(u, Front(calls))
    BY <1>4, <2>2 DEF EndValue
  <2>4. Front(calls) \in Seq(OpenCall)
    BY <1>1, <2>1, FrontOfCalls
  <2> QED BY <2>3, <2>4, ReturnInside
<1>5. CASE Key(t)
  <2>1. expecting' = "colon"
    BY <1>5 DEF Key
  <2> QED BY <2>1 DEF Inside
<1>6. CASE Separator(t)
  <2>1. calls' = calls
    BY <1>6 DEF Separator
  <2>2. expecting' = "value" \/ expecting = "separator"
    BY <1>6 DEF Separator
  <2> QED BY <2>1, <2>2 DEF Inside
<1>7. CASE End(t) \/ Unexpected(t)
  <2>1. calls' = calls /\ expecting' = expecting
    BY <1>7 DEF End, Unexpected
  <2> QED BY <2>1 DEF Inside
<1> QED BY <1>2, <1>3, <1>4, <1>5, <1>6, <1>7

(* The parser begins with no call and depth 0. *)
LEMMA ParserInitInv ==
  ParserInit => ParserInv
<1> SUFFICES ASSUME ParserInit PROVE ParserInv
  OBVIOUS
<1>1. <<>> \in Seq(OpenCall) /\ <<>> \in Seq(Token) /\ Len(<<>>) = 0
  BY EmptySeq
<1>2. ParserTyped /\ AllKept /\ EventDepth /\ Inside
  BY <1>1 DEF ParserInit, ParserTyped, AllKept, EventDepth, NoEvent, Inside
<1> QED BY <1>1, <1>2 DEF ParserInit, DepthInv, ParserInv

(* the steps, token by token *)
LEMMA ParserStepInv ==
  ParserInv /\ [ParserNext]_parserVars => ParserInv'
<1> SUFFICES ASSUME ParserInv, [ParserNext]_parserVars PROVE ParserInv'
  OBVIOUS
<1>1. DepthInv /\ Inside /\ tokens \in Seq(Token)
  BY DEF ParserInv
<1>2. ASSUME NEW t \in Token, tokens' = Append(tokens, t), callback' = callback,
             ScalarValue(t) \/ StartValue(t) \/ EndValue(t) \/ Key(t)
               \/ Separator(t) \/ End(t) \/ Unexpected(t)
      PROVE  ParserInv'
  <2>1. tokens' \in Seq(Token) /\ Inside'
    BY <1>1, <1>2, AppendProperties, InsideKept
  <2>2. CASE ScalarValue(t)
    BY <1>1, <1>2, <2>1, <2>2, ScalarKeeps DEF ParserInv
  <2>3. CASE StartValue(t)
    BY <1>1, <1>2, <2>1, <2>3, StartKeeps DEF ParserInv
  <2>4. CASE EndValue(t)
    BY <1>1, <1>2, <2>1, <2>4, EndKeeps DEF ParserInv
  <2>5. CASE Key(t)
    <3>1. calls # <<>>
      BY <1>1, <2>5 DEF Key, Inside
    <3>2. t \in String
      BY <2>5 DEF Key
    <3> QED BY <1>1, <1>2, <2>1, <2>5, <3>1, <3>2, KeyKeeps DEF ParserInv
  <2>6. CASE Separator(t) \/ End(t) \/ Unexpected(t)
    <3>1. Silent /\ calls' = calls /\ depth' = depth
      BY <2>6 DEF Separator, End, Unexpected
    <3>2. calls \in Seq(OpenCall)
      BY <1>1 DEF DepthInv, ParserTyped
    <3> QED BY <1>1, <1>2, <2>1, <3>1, <3>2, SilentKeeps DEF ParserInv
  <2> QED BY <1>2, <2>2, <2>3, <2>4, <2>5, <2>6
<1>3. CASE UNCHANGED parserVars
  BY <1>1, <1>3 DEF parserVars, ParserInv, DepthInv, ParserTyped, AllKept, EventDepth, StartRefused, Inside
<1> QED BY <1>2, <1>3 DEF ParserNext

(* json::parser, for texts and nestings of any length: until the callback  *)
(* refuses an object or array at its start, it is given the number of the  *)
(* objects and arrays around each value, at every one of its events.       *)
THEOREM CallbackSeesDepth == ParserSpec => []CallbackDepth
<1>1. ParserInv => CallbackDepth
  BY DEF ParserInv, DepthInv, EventDepth, StartRefused, CallbackDepth
<1> QED BY <1>1, ParserInitInv, ParserStepInv, PTL DEF ParserSpec
=============================================================================
