------------------------------ MODULE SmallSet ------------------------------
(***************************************************************************)
(* llvm::SmallSet (llvm/SmallSet.h), which connect_parallel keeps its      *)
(* attempts in: a vector as long as it has room, and then a std::set until *)
(* that is empty.                                                          *)
(***************************************************************************)
EXTENDS SequencesExt

CONSTANTS
  SetElements,
  SmallSize  \* bound: the elements a vector has room for; 16 in connect_parallel

VARIABLES Vector, Set

setVars == <<Vector, Set>>

SetInit == Vector = <<>> /\ Set = {}

isSmall == Set = {}

(* count, by vfind in a small set *)
count(k) == IF isSmall THEN k \in Range(Vector) ELSE k \in Set

SetInsert(k) ==
  IF ~isSmall THEN Set' = Set \cup {k} /\ UNCHANGED Vector
  ELSE IF count(k) THEN UNCHANGED setVars
  ELSE IF Len(Vector) < SmallSize THEN Vector' = Append(Vector, k) /\ UNCHANGED Set
  ELSE Set' = Range(Vector) \cup {k} /\ Vector' = <<>>

(* in a small set the first element that is equal *)
SetErase(k) ==
  IF isSmall THEN Vector' = RemoveFirst(Vector, k) /\ UNCHANGED Set
  ELSE Set' = Set \ {k} /\ UNCHANGED Vector

SetClear == Vector' = <<>> /\ Set' = {}

SetNext ==
  \/ \E k \in SetElements : SetInsert(k) \/ SetErase(k)
  \/ SetClear

SetSpec == SetInit /\ [][SetNext]_setVars

-----------------------------------------------------------------------------
AS == INSTANCE AbstractMap
        WITH Keys <- SetElements, Values <- {1}, map <- [k \in {j \in SetElements : count(j)} |-> 1]

(* On the way from the vector to the set and back no element is lost, and  *)
(* an erased one is gone: count answers as the set that insert, erase and  *)
(* clear build, each of which does to it what it says.                     *)
SetImplements ==
  /\ AS!Spec
  /\ [][/\ \A k \in SetElements : SetInsert(k) => AS!Insert(k, 1)
        /\ \A k \in SetElements : SetErase(k) => AS!Erase(k)
        /\ SetClear => AS!Clear]_setVars
=============================================================================
