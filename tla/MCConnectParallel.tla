-------------------------- MODULE MCConnectParallel --------------------------
(***************************************************************************)
(* Instances of ConnectParallel for TLC: what the caller may ask for.      *)
(***************************************************************************)
EXTENDS ConnectParallel

CONSTANTS s1, s2

(* no server, one, or two *)
VariedLists == {<< >>, <<s1>>, <<s1, s2>>}

OneServer == {<<s1>>}

(* the same server named twice *)
RepeatedServer == {<<s1, s1>>}
=============================================================================
