----------------------------- MODULE Containers -----------------------------
(***************************************************************************)
(* The containers of llvm that are shown to implement abstract ones.       *)
(***************************************************************************)
EXTENDS StringMap, SmallSet

(* find and count answer as the map and the set that insert, erase and     *)
(* clear build.                                                            *)
AsMap == MapImplements /\ SetImplements
=============================================================================
