------------------------------ MODULE UidVector ------------------------------
(***************************************************************************)
(* UidVector (support/UidVector.h): a vector whose indices are the uids    *)
(* that its users keep.  An erased element is put on the freelist, whose   *)
(* oldest uid is taken again once it holds reuse_threshold of them.  The   *)
(* n-th element that is emplaced is n; 0 is an empty T.                    *)
(***************************************************************************)
EXTENDS Integers, Sequences

CONSTANTS
  ReuseThreshold,  \* reuse_threshold, at least 1
  MaxEmplaced      \* bound: how many elements are emplaced

ASSUME UidAssumption == ReuseThreshold \in Nat \ {0} /\ MaxEmplaced \in Nat

VARIABLES
  m_vector,        \* m_vector[uid + 1]
  m_free,
  m_active_count,
  emplaced,        \* how many elements have been emplaced
  since            \* history: since[uid + 1], the erasures after that of uid

uidVars == <<m_vector, m_free, m_active_count, emplaced, since>>

UidInit ==
  /\ m_vector = <<>>
  /\ m_free = <<>>
  /\ m_active_count = 0
  /\ emplaced = 0
  /\ since = <<>>

(* bug: what the comment promises, the last one erased is taken *)
EmplaceLast ==
  /\ emplaced' = emplaced + 1
  /\ m_active_count' = m_active_count + 1
  /\ IF Len(m_free) < ReuseThreshold
     THEN /\ m_vector' = Append(m_vector, emplaced')
          /\ since' = Append(since, 0)
          /\ UNCHANGED m_free
     ELSE /\ m_vector' = [m_vector EXCEPT ![m_free[Len(m_free)] + 1] = emplaced']
          /\ m_free' = SubSeq(m_free, 1, Len(m_free) - 1)
          /\ UNCHANGED since

(* emplace_back *)
Emplace ==
  /\ emplaced' = emplaced + 1
  /\ m_active_count' = m_active_count + 1
  /\ IF Len(m_free) < ReuseThreshold
     THEN /\ m_vector' = Append(m_vector, emplaced')
          /\ since' = Append(since, 0)
          /\ UNCHANGED m_free
     ELSE /\ m_vector' = [m_vector EXCEPT ![Head(m_free) + 1] = emplaced']
          /\ m_free' = Tail(m_free)
          /\ UNCHANGED since

(* bug: an element that is empty already is put on the freelist again *)
EraseTwice(uid) ==
  /\ uid < Len(m_vector)
  /\ m_free' = Append(m_free, uid)
  /\ m_vector' = [m_vector EXCEPT ![uid + 1] = 0]
  /\ m_active_count' = m_active_count - 1
  /\ since' = [u \in DOMAIN since |-> IF u = uid + 1 THEN 0 ELSE since[u] + 1]
  /\ UNCHANGED emplaced

(* erase, which ignores what is not there *)
Erase(uid) ==
  /\ uid < Len(m_vector) /\ m_vector[uid + 1] # 0
  /\ m_free' = Append(m_free, uid)
  /\ m_vector' = [m_vector EXCEPT ![uid + 1] = 0]
  /\ m_active_count' = m_active_count - 1
  /\ since' = [u \in DOMAIN since |-> IF u = uid + 1 THEN 0 ELSE since[u] + 1]
  /\ UNCHANGED emplaced

UidNext ==
  \/ emplaced < MaxEmplaced /\ Emplace
  \/ \E uid \in 0 .. MaxEmplaced : Erase(uid)

UidSpec == UidInit /\ [][UidNext]_uidVars

-----------------------------------------------------------------------------
Empty == {uid \in 0 .. Len(m_vector) - 1 : m_vector[uid + 1] = 0}

(* The freelist names each erased uid once and no other, so that no uid is *)
(* ever given to two elements, and empty() knows whether there are any.    *)
FreelistExact ==
  /\ {m_free[i] : i \in DOMAIN m_free} = Empty
  /\ \A i, j \in DOMAIN m_free : i # j => m_free[i] # m_free[j]
  /\ m_active_count = Len(m_vector) - Len(m_free)

(* A uid is not used again before reuse_threshold - 1 others were erased   *)
(* after it: who still holds it does not soon meet another element.        *)
LateReuse ==
  [][\A uid \in Empty :
       m_vector'[uid + 1] # 0 => since[uid + 1] >= ReuseThreshold - 1]_uidVars
=============================================================================
