------------------------------- MODULE Plans -------------------------------
(***************************************************************************)
(* What a build plan is: a sequence of waves, each a set of packages, and  *)
(* a set of needs <<p, d>>, "p has d in its build_requires".               *)
(* topo_waves (TopoWaves) computes plans, build_all (BuildAll) runs them.  *)
(***************************************************************************)
EXTENDS Integers, Sequences

\* The packages the waves hold (`waves.into_iter().flatten()`).
Members(waves) == UNION {waves[n] : n \in DOMAIN waves}

\* No package is planned twice.
NoRepeats(waves) ==
  \A m, n \in DOMAIN waves : m # n => waves[m] \cap waves[n] = {}

\* Every need of a planned package is planned in a strictly earlier wave.
NeedsEarlier(waves, needs) ==
  \A n \in DOMAIN waves : \A p \in waves[n] : \A e \in needs :
     e[1] = p => \E m \in 1..(n - 1) : e[2] \in waves[m]

ValidPlan(waves, goal, needs) ==
  /\ Members(waves) = goal
  /\ NoRepeats(waves)
  /\ NeedsEarlier(waves, needs)

\* A set in which everyone waits for a member of the set: in a finite graph
\* there is one exactly when the needs have a cycle.
Deadlocked(S, needs) ==
  /\ S # {}
  /\ \A p \in S : \E d \in S : <<p, d>> \in needs
=============================================================================
