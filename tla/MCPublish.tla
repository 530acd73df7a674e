----------------------------- MODULE MCPublish -----------------------------
(***************************************************************************)
(* Instances of Publish for TLC: packages that need nothing, so that a     *)
(* build may go on beside a publish.                                       *)
(***************************************************************************)
EXTENDS Publish, TLC

NeedNothing == [k \in Pkgs |-> [v \in Versions |-> {}]]

\* No definition names an arch, a process or a package.
Swaps == Permutations(Arches) \cup Permutations(Procs) \cup Permutations(Pkgs)
=============================================================================
