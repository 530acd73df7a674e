----------------------------- MODULE TopoWaves -----------------------------
(***************************************************************************)
(* vendorctl/src/orch.rs, all_enabled, closure and topo_waves: from the    *)
(* catalog to the dependency waves that `plan`, `graph` and `build-all`    *)
(* use.  Every lookup of a package is a query of its own, outside any      *)
(* transaction, so another vendorctl process may commit between two of     *)
(* them (Edit).  The order in which the code visits names it keeps sorted  *)
(* is abstracted: the waves are sets.                                      *)
(* A definition F_X is a mutant of F: a bug the properties must find.      *)
(***************************************************************************)
EXTENDS Plans, FiniteSets, Functions

CONSTANTS
  Names,        \* every name a package row or a build_requires word may hold
  Catalogs,     \* the contents the planner may find in the catalog
  TargetLists,  \* the packages on the command line; <<>> plans all enabled
  NewReqs,      \* what another process may set build_requires to
  MaxEdits      \* bound on the commits of other processes

Catalog == [enabled : SUBSET Names, versioned : SUBSET Names,
            reqs : [Names -> Seq(Names)]]

ASSUME PlanAssumption ==
  /\ IsFiniteSet(Names)
  /\ Catalogs \subseteq Catalog
  /\ TargetLists \subseteq Seq(Names)
  /\ NewReqs \subseteq Seq(Names)
  /\ MaxEdits \in Nat

VARIABLES
  catalog,  \* enabled packages, packages with a version, build_requires
  edits,    \* commits by other processes so far
  targets,  \* the command line
  phase,    \* where topo_waves is
  stack,    \* closure: how many copies of a name are on the stack
  keys,     \* closure's `seen`, then the packages to plan
  heard,    \* history: the build_requires closure read for a name it saw
  unread,   \* the keys whose build_requires the graph does not hold yet
  edges,    \* <<p, i, d>>: word i of p's build_requires is d, and d is a key
  indeg,    \* the needs of a key that no finished wave has met
  waves, cur, next,
  done      \* how many packages the waves hold

vars == <<catalog, edits, targets, phase, stack, keys, heard, unread, edges, indeg,
          waves, cur, next, done>>

Final == {"planned", "cycle", "noversion"}
Phases == {"enabled", "closure", "graph", "head", "visit"} \cup Final

Copies(list, d) == Cardinality({i \in DOMAIN list : list[i] = d})

Init ==
  /\ catalog \in Catalogs /\ edits = 0
  /\ targets \in TargetLists
  /\ phase = IF targets = <<>> THEN "enabled" ELSE "closure"
  /\ stack = [d \in Names |-> Copies(targets, d)]
  /\ keys = {} /\ heard = [k \in Names |-> {}] /\ unread = {} /\ edges = {}
  /\ indeg = [k \in Names |-> 0]
  /\ waves = <<>> /\ cur = {} /\ next = {} /\ done = 0

-----------------------------------------------------------------------------
AllEnabled ==
  /\ phase = "enabled"
  /\ keys' = catalog.enabled /\ unread' = catalog.enabled
  /\ phase' = "graph"
  /\ UNCHANGED <<catalog, edits, targets, stack, heard, edges, indeg, waves, cur, next, done>>

\* `while let Some(k) = stack.pop()`: any name on the stack may be the last.
OnStack_Unchecked(k) == TRUE
OnStack(k) == stack[k] > 0

\* The words pushed for k: those seen before are left out.
Pushed_OneLevel(k, d) ==
  IF d \in keys \cup {k} \/ k \notin Range(targets) THEN 0 ELSE Copies(catalog.reqs[k], d)
Pushed(k, d) == IF d \in keys \cup {k} THEN 0 ELSE Copies(catalog.reqs[k], d)

\* Pop k.  A name seen before is skipped, a name without a version ends the
\* plan, and any other pushes the words of its build_requires.
Pop(k) ==
  /\ phase = "closure" /\ OnStack(k)
  /\ keys' = keys \cup {k}
  /\ \/ /\ k \in keys /\ stack' = [stack EXCEPT ![k] = @ - 1]
        /\ UNCHANGED <<phase, heard>>
     \/ /\ k \notin keys /\ k \notin catalog.versioned /\ phase' = "noversion"
        /\ UNCHANGED <<stack, heard>>
     \/ /\ k \notin keys /\ k \in catalog.versioned /\ phase' = phase
        /\ stack' = [d \in Names |-> IF d = k THEN stack[d] - 1 ELSE stack[d] + Pushed(k, d)]
        /\ heard' = [heard EXCEPT ![k] = Range(catalog.reqs[k])]
  /\ UNCHANGED <<catalog, edits, targets, unread, edges, indeg, waves, cur, next, done>>

ClosureDone ==
  /\ phase = "closure" /\ \A d \in Names : stack[d] = 0
  /\ unread' = keys /\ phase' = "graph"
  /\ UNCHANGED <<catalog, edits, targets, stack, keys, heard, edges, indeg, waves, cur, next, done>>

\* The words of k's build_requires; those that are not keys are filtered out.
KeyWords_Unfiltered(k) == DOMAIN catalog.reqs[k]
KeyWords(k) == {i \in DOMAIN catalog.reqs[k] : catalog.reqs[k][i] \in keys}
Words(k) == {<<k, i, catalog.reqs[k][i]>> : i \in KeyWords(k)}

\* `ds.len()`: a repeated word counts twice.
InDegree_Distinct(k) == Cardinality({w[3] : w \in Words(k)})
InDegree(k) == Cardinality(Words(k))

\* One turn of the loop that builds the graph.
ReadRequires(k) ==
  /\ phase = "graph" /\ k \in unread
  /\ \/ k \notin catalog.versioned /\ phase' = "noversion"
        /\ UNCHANGED <<unread, edges, indeg>>
     \/ /\ k \in catalog.versioned /\ phase' = phase
        /\ edges' = edges \cup Words(k)
        /\ indeg' = [indeg EXCEPT ![k] = InDegree(k)]
        /\ unread' = unread \ {k}
  /\ UNCHANGED <<catalog, edits, targets, stack, keys, heard, waves, cur, next, done>>

GraphDone ==
  /\ phase = "graph" /\ unread = {}
  /\ cur' = {k \in keys : indeg[k] = 0} /\ phase' = "head"
  /\ UNCHANGED <<catalog, edits, targets, stack, keys, heard, unread, edges, indeg, waves, next, done>>

BeginWave ==
  /\ phase = "head" /\ cur # {}
  /\ waves' = Append(waves, cur) /\ done' = done + Cardinality(cur)
  /\ next' = {} /\ phase' = "visit"
  /\ UNCHANGED <<catalog, edits, targets, stack, keys, heard, unread, edges, indeg, cur>>

\* The needs that a visit of k meets: `dependents` holds a package once for
\* every word that names k, and each is one decrement.
Met_Once(k, p) == IF \E e \in edges : e[1] = p /\ e[3] = k THEN 1 ELSE 0
Met(k, p) == Cardinality({e \in edges : e[1] = p /\ e[3] = k})

\* `if *e == 0 { next.push(p) }`
Reached_OneLeft(k) == {p \in keys : Met(k, p) > 0 /\ indeg[p] - Met(k, p) <= 1}
Reached(k) == {p \in keys : Met(k, p) > 0 /\ indeg[p] - Met(k, p) = 0}

\* The inner loop for one package of the wave.
Visit(k) ==
  /\ phase = "visit" /\ k \in cur
  /\ indeg' = [p \in Names |-> indeg[p] - Met(k, p)]
  /\ next' = next \cup Reached(k)
  /\ cur' = cur \ {k}
  /\ UNCHANGED <<catalog, edits, targets, phase, stack, keys, heard, unread, edges, waves, done>>

EndWave ==
  /\ phase = "visit" /\ cur = {}
  /\ cur' = next /\ phase' = "head"
  /\ UNCHANGED <<catalog, edits, targets, stack, keys, heard, unread, edges, indeg, waves, next, done>>

\* `done != keys.len()` when nothing is ready: a cycle.
Planned_Unchecked == TRUE
Planned == done = Cardinality(keys)

\* The mutant loops until every key is planned, not until nothing is ready.
Finish_Spinning ==
  /\ phase = "head" /\ cur = {} /\ Planned
  /\ phase' = "planned"
  /\ UNCHANGED <<catalog, edits, targets, stack, keys, heard, unread, edges, indeg, waves, cur, next, done>>
Finish ==
  /\ phase = "head" /\ cur = {}
  /\ phase' = IF Planned THEN "planned" ELSE "cycle"
  /\ UNCHANGED <<catalog, edits, targets, stack, keys, heard, unread, edges, indeg, waves, cur, next, done>>

\* What another process may commit between two lookups: `pkg update
\* --enabled`, `ver delete`, and `ver add` or `meta set --build-requires`.
Toggled(k) == [catalog EXCEPT !.enabled = IF k \in @ THEN @ \ {k} ELSE @ \cup {k}]
Dropped(k) == [catalog EXCEPT !.versioned = @ \ {k}]
Rewritten(k, list) == [catalog EXCEPT !.versioned = @ \cup {k}, !.reqs[k] = list]

Edit ==
  /\ edits < MaxEdits /\ phase \notin Final
  /\ edits' = edits + 1
  /\ \E k \in Names : \/ catalog' \in {Toggled(k), Dropped(k)}
                      \/ \E list \in NewReqs : catalog' = Rewritten(k, list)
  /\ UNCHANGED <<targets, phase, stack, keys, heard, unread, edges, indeg, waves, cur, next, done>>

Plan ==
  \/ AllEnabled \/ ClosureDone \/ GraphDone \/ BeginWave \/ EndWave \/ Finish
  \/ \E k \in Names : Pop(k) \/ ReadRequires(k) \/ Visit(k)

Next == Plan \/ Edit

Spec == Init /\ [][Next]_vars

\* The planner is one thread of one process that nothing blocks.
FairSpec == Spec /\ WF_vars(Plan)

-----------------------------------------------------------------------------
TypeOK ==
  /\ catalog \in Catalog /\ edits \in 0..MaxEdits /\ targets \in Seq(Names)
  /\ phase \in Phases
  /\ stack \in [Names -> Nat]
  /\ keys \subseteq Names /\ heard \in [Names -> SUBSET Names] /\ unread \subseteq Names
  /\ edges \subseteq Names \X Nat \X Names /\ IsFiniteSet(edges)
  /\ indeg \in [Names -> Int]
  /\ waves \in Seq(SUBSET Names) /\ cur \subseteq Names /\ next \subseteq Names
  /\ done \in Nat

Needs == {<<e[1], e[3]>> : e \in edges}

\* The promise of the header comment, as far as it reaches: at every moment
\* no package is in two waves and every build_requires word that is a key is
\* in a strictly earlier wave, whatever other processes commit meanwhile.
WavesOrdered == NoRepeats(waves) /\ NeedsEarlier(waves, Needs)

\* `*e -= 1` on a usize never goes below zero: no need is met twice.
NoUnderflow == \A k \in Names : indeg[k] >= 0

\* A plan that is returned holds every key, each once.
PlanComplete == phase = "planned" => ValidPlan(waves, keys, Needs)

\* The error names a real cycle: the packages it lists (indeg > 0) all wait
\* for one another.  So an acyclic graph always gets a plan.
CycleIsReal ==
  phase = "cycle" => Deadlocked({k \in keys : indeg[k] > 0}, Needs)

-----------------------------------------------------------------------------
\* Why the waves are right: the inductive invariant of TopoWavesProofs.

\* A package of a wave is processed once the inner loop has visited it.
Processed == IF phase = "visit" THEN Members(waves) \ cur ELSE Members(waves)
Unmet(p) == {e \in edges : e[1] = p /\ e[3] \notin Processed}
Ready == {p \in keys \ Members(waves) : Unmet(p) = {}}

Scope ==
  /\ unread \subseteq keys /\ Members(waves) \subseteq keys
  /\ \A e \in edges : e[1] \in keys /\ e[3] \in keys

EarlyPhases ==
  /\ phase \in {"enabled", "closure"} =>
       edges = {} /\ cur = {} /\ unread = {}
  /\ phase \in {"enabled", "closure", "graph"} => waves = <<>>
  /\ \A e \in edges : e[1] \notin unread

Counts ==
  /\ \A p \in Names : indeg[p] = Cardinality(Unmet(p))
  /\ done = Cardinality(Members(waves))

Frontier ==
  /\ \A p \in Members(waves) : Unmet(p) = {}
  /\ phase \in {"head", "planned", "cycle"} => cur = Ready
  /\ phase = "visit" => next = Ready /\ cur \subseteq Members(waves)

Outcome ==
  /\ phase = "planned" => Members(waves) = keys
  /\ phase = "cycle" => cur = {} /\ Members(waves) # keys

\* The counters of the loop mean what the code takes them to mean: indeg
\* counts the needs no processed package has met, and the packages at 0 that
\* no wave holds are exactly those the next wave is made of.
LoopInv == Scope /\ EarlyPhases /\ Counts /\ Frontier /\ Outcome /\ WavesOrdered

-----------------------------------------------------------------------------
ClosedUnder(S) == \A k \in S : heard[k] \subseteq S
HoldsTargets(S) == \A i \in DOMAIN targets : targets[i] \in S
Least(S) == \A T \in SUBSET Names : HoldsTargets(T) /\ ClosedUnder(T) => S \subseteq T
HeardIsCatalog == edits = 0 => \A k \in keys : heard[k] = Range(catalog.reqs[k])

\* `build-all p q` plans p, q and everything they need, and nothing else,
\* whatever other processes commit meanwhile: the keys are the least set that
\* holds the targets and is closed under the build_requires that closure read
\* for each of them, which are those of the catalog as long as nobody commits.
KeysAreClosure ==
  targets # <<>> /\ phase \notin {"closure", "noversion"} =>
    HoldsTargets(keys) /\ ClosedUnder(keys) /\ Least(keys) /\ HeardIsCatalog

\* Why the keys are right: what closure's loop keeps true.  A name that must
\* be a key and is none yet waits on the stack, and nothing is seen or pushed
\* that every closed set would not hold.
Pending == {d \in Names : stack[d] > 0}
ClosureLoop ==
  LET found == keys \cup Pending
  IN  /\ HoldsTargets(found) /\ Least(found) /\ HeardIsCatalog
      /\ \A k \in keys : heard[k] \subseteq found
      /\ \A k \in Names \ keys : heard[k] = {}
ClosureInv ==
  targets # <<>> =>
    phase # "enabled" /\ (phase = "closure" => ClosureLoop) /\ KeysAreClosure

\* Planning ends, with a plan or an error, whatever the graph.
Terminates == <>(phase \in Final)

\* The header comment of topo_waves taken literally: "wave[n] = packages
\* whose deps are all in earlier waves".  The code filters out a dependency
\* that is not a key, so a disabled one is left out without an error.
AllDepsEarlier ==
  phase = "planned" /\ edits = 0 =>
    NeedsEarlier(waves, UNION {{k} \X Range(catalog.reqs[k]) : k \in keys})
=============================================================================
