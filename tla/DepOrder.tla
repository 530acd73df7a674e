------------------------------ MODULE DepOrder ------------------------------
(***************************************************************************)
(* What build-all promises about order, and nothing else: a package is     *)
(* started once in a run, never before all its needs have ended, and never *)
(* more than Cap at a time.  BuildAll implements it.                       *)
(***************************************************************************)
EXTENDS Integers, FiniteSets

CONSTANTS Packages, Cap

VARIABLES
  goal,     \* the packages of the run
  needs,    \* <<p, d>>: p has d in its build_requires, both in the run
  started,  \* started and not known to have ended
  ended

orderVars == <<goal, needs, started, ended>>

OrderInit == goal = {} /\ needs = {} /\ started = {} /\ ended = {}

\* A new run; what the last one left running is no longer its business.
NewRun ==
  /\ goal' \in SUBSET Packages /\ needs' \in SUBSET (goal' \X goal')
  /\ started' = {} /\ ended' = {}

MayStart(p) ==
  /\ p \in goal \ (started \cup ended)
  /\ \A d \in goal : <<p, d>> \in needs => d \in ended

Start(p) ==
  /\ MayStart(p) /\ Cardinality(started) < Cap
  /\ started' = started \cup {p}
  /\ UNCHANGED <<goal, needs, ended>>

End(p) ==
  /\ p \in started
  /\ started' = started \ {p} /\ ended' = ended \cup {p}
  /\ UNCHANGED <<goal, needs>>

\* The process could not be spawned.
Skip(p) ==
  /\ MayStart(p) /\ ended' = ended \cup {p}
  /\ UNCHANGED <<goal, needs, started>>

OrderNext == NewRun \/ \E p \in Packages : Start(p) \/ End(p) \/ Skip(p)

OrderSpec == OrderInit /\ [][OrderNext]_orderVars
=============================================================================
