----------------------------- MODULE AbstractMap -----------------------------
(***************************************************************************)
(* What StringMap promises: a map from keys to values; and SmallSet, with  *)
(* one value, a set.                                                       *)
(***************************************************************************)
CONSTANTS Keys, Values

VARIABLE map

Init == map = [k \in {} |-> 0]

(* insert: what is there already stays *)
Insert(k, v) ==
  map' = [j \in DOMAIN map \cup {k} |-> IF j \in DOMAIN map THEN map[j] ELSE v]

Erase(k) == map' = [j \in DOMAIN map \ {k} |-> map[j]]

Clear == map' = [j \in {} |-> 0]

Next ==
  \/ \E k \in Keys, v \in Values : Insert(k, v)
  \/ \E k \in Keys : Erase(k)
  \/ Clear

Spec == Init /\ [][Next]_map
=============================================================================
