---------------------------- MODULE MCTopoWaves ----------------------------
(***************************************************************************)
(* Instances of TopoWaves for TLC: every catalog over a few names where a  *)
(* package may name itself, and those of Doubled may name one twice.       *)
(***************************************************************************)
EXTENDS TopoWaves, SequencesExt

CONSTANTS
  Doubled,    \* the packages with up to two words of build_requires, not one
  Flaws       \* how many packages may be disabled or lack a version

MCReqs ==
  {r \in [Names -> BoundedSeq(Names, 2)] : \A k \in Names \ Doubled : Len(r[k]) < 2}

MCCatalogs ==
  {[enabled |-> Names \ f[1], versioned |-> Names \ f[2], reqs |-> r] :
     f \in {g \in (SUBSET Names) \X (SUBSET Names) :
              Cardinality(g[1]) + Cardinality(g[2]) <= Flaws},
     r \in MCReqs}

AllPackages == {<<>>}
UpToTwoTargets == BoundedSeq(Names, 2)
OneWordOrNone == BoundedSeq(Names, 1)
=============================================================================
