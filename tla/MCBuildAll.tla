----------------------------- MODULE MCBuildAll -----------------------------
(***************************************************************************)
(* Instances of BuildAll for TLC.                                          *)
(***************************************************************************)
EXTENDS BuildAll

CONSTANTS lib, app, tool

\* A chain of three in version 1; version 2 of app and of tool needs nothing,
\* so all three may be one wave.
Loosened ==
  [k \in Pkgs |-> [v \in Versions |->
     CASE k = app /\ v = 1 -> {lib} [] k = tool /\ v = 1 -> {lib, app} [] OTHER -> {}]]

\* Whatever is not a library needs it.
Chain == [k \in Pkgs |-> [v \in Versions |-> IF k = lib THEN {} ELSE {lib}]]

\* Two packages in one wave.
Twins == [k \in Pkgs |-> [v \in Versions |-> {}]]

MCProcs == (1..MaxRuns) \X Pkgs
AllPkgs == {Pkgs}
TwoOrMore == {g \in SUBSET Pkgs : Cardinality(g) >= 2}
OneArchList == {Arches}
=============================================================================
