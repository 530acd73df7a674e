------------------------------ MODULE MCBuild ------------------------------
(***************************************************************************)
(* Instances of Build for TLC: a library and an application that needs it  *)
(* in version 1 and no longer in version 2.                                *)
(***************************************************************************)
EXTENDS Build

CONSTANTS lib, app

LibAndApp ==
  [k \in Pkgs |-> [v \in 1..2 |->
     IF k = app /\ v = 1 THEN {lib} ELSE {}]]
=============================================================================
