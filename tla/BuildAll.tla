------------------------------ MODULE BuildAll ------------------------------
(***************************************************************************)
(* `vendorctl build-all` (orch.rs, build_all) with the child processes of  *)
(* Build: spec generation for the whole plan, then wave after wave, each   *)
(* in chunks of at most Cap children that are all awaited before the next  *)
(* chunk.  The plan is any valid one: TopoWaves computes one.              *)
(***************************************************************************)
EXTENDS Build, Plans

CONSTANTS
  MaxRuns,   \* bound: how often build-all is run
  Cap,       \* 10 in the code
  Goals,     \* what may be planned: a closure, or the enabled packages
  ArchLists, \* --arch
  Orphans,   \* build-all may stop in the middle and leave children behind
  Edits      \* another vendorctl process may add versions during a run

ASSUME BuildAllAssumption ==
  /\ IsFiniteSet(Pkgs) /\ Procs = (1..MaxRuns) \X Pkgs
  /\ MaxRuns \in Nat /\ Cap \in Nat \ {0}
  /\ {Orphans, Edits} \subseteq BOOLEAN /\ ~Exclusive   \* nothing locks a package
  /\ Goals \subseteq (SUBSET Pkgs) \ {{}} /\ ArchLists \subseteq (SUBSET Arches) \ {{}}

VARIABLES
  run,     \* the number of this run
  phase,   \* "idle", "prep", "waves", "chunk", and "ok" or "err" at the end
  goal, needs,  \* what was planned and the needs the plan respects
  arches,
  plan,    \* the waves not begun
  prep,    \* packages whose spec is not generated yet
  rest,    \* of the wave, not in a chunk yet
  chunk,   \* to spawn
  kids,    \* spawned, not awaited
  failed

driverVars == <<run, phase, goal, needs, arches, plan, prep, rest, chunk, kids, failed>>
vars == <<buildVars, driverVars>>

Init ==
  /\ BuildInit
  /\ run = 0 /\ phase = "idle" /\ goal = {} /\ needs = {} /\ arches = {}
  /\ plan = <<>> /\ prep = {} /\ rest = {} /\ chunk = {} /\ kids = {} /\ failed = {}

Child(k) == <<run, k>>

-----------------------------------------------------------------------------
\* A need that is not planned is left out of the graph (TopoWaves).
PlannedNeeds(g) ==
  {e \in g \X g : e[2] \in Rows[e[1]][newest[e[1]]]}

\* The sequences of non-empty waves that are valid plans of g.
WavePlans(g) ==
  {w \in UNION {[1..n -> (SUBSET g) \ {{}}] : n \in 1..Cardinality(g)} :
     ValidPlan(w, g, PlannedNeeds(g))}

Begin ==
  /\ phase \in {"idle", "ok", "err"} /\ run < MaxRuns
  /\ run' = run + 1 /\ phase' = "prep"
  /\ goal' \in Goals /\ needs' = PlannedNeeds(goal')
  /\ plan' \in WavePlans(goal')
  /\ arches' \in ArchLists
  /\ prep' = goal' /\ rest' = {} /\ chunk' = {} /\ kids' = {} /\ failed' = {}
  /\ UNCHANGED buildVars

\* An error of gen_spec is printed and forgotten.
Prep(k) ==
  /\ phase = "prep" /\ k \in prep
  /\ GenSpec(k) /\ prep' = prep \ {k}
  /\ UNCHANGED <<run, phase, goal, needs, arches, plan, rest, chunk, kids, failed>>

\* A lookup or current_exe fails: `?` returns before anything is spawned.
PrepError ==
  /\ phase = "prep" /\ phase' = "err"
  /\ UNCHANGED <<run, goal, needs, arches, plan, prep, rest, chunk, kids, failed, buildVars>>

PrepDone ==
  /\ phase = "prep" /\ prep = {} /\ phase' = "waves"
  /\ UNCHANGED <<run, goal, needs, arches, plan, prep, rest, chunk, kids, failed, buildVars>>

NextWave ==
  /\ phase = "waves" /\ rest = {} /\ plan # <<>>
  /\ rest' = Head(plan) /\ plan' = Tail(plan)
  /\ UNCHANGED <<run, phase, goal, needs, arches, prep, chunk, kids, failed, buildVars>>

ChunkSize_Off == Cap + 1
ChunkSize == Cap

NextChunk ==
  /\ phase = "waves" /\ rest # {}
  /\ \E c \in SUBSET rest :
       /\ Cardinality(c) = ChunkSize \/ (c = rest /\ Cardinality(c) < ChunkSize)
       /\ chunk' = c /\ rest' = rest \ c
  /\ phase' = "chunk"
  /\ UNCHANGED <<run, goal, needs, arches, plan, prep, kids, failed, buildVars>>

Spawn(k) ==
  /\ phase = "chunk" /\ k \in chunk
  /\ Invoke(Child(k), k, arches)
  /\ kids' = kids \cup {k} /\ chunk' = chunk \ {k}
  /\ UNCHANGED <<run, phase, goal, needs, arches, plan, prep, rest, failed>>

SpawnFails(k) ==
  /\ phase = "chunk" /\ k \in chunk
  /\ failed' = failed \cup {k} /\ chunk' = chunk \ {k}
  /\ UNCHANGED <<run, phase, goal, needs, arches, plan, prep, rest, kids, buildVars>>

\* `File::create(..)?` of a log returns without awaiting the children it has, or
\* build-all is killed: the children go on.
Abandon ==
  /\ Orphans /\ phase \in {"waves", "chunk"} /\ phase' = "err"
  /\ UNCHANGED <<run, goal, needs, arches, plan, prep, rest, chunk, kids, failed, buildVars>>

Failed_Forgotten(k) == failed
Failed(k) == IF proc[Child(k)].pc = "ok" THEN failed ELSE failed \cup {k}

\* `ch.wait()`, once the whole chunk is spawned.
HasEnded_Well(k) == proc[Child(k)].pc = "ok"
HasEnded(k) == proc[Child(k)].pc \in Ended

Await(k) ==
  /\ phase = "chunk" /\ chunk = {} /\ k \in kids /\ HasEnded(k)
  /\ failed' = Failed(k)
  /\ kids' = kids \ {k}
  /\ UNCHANGED <<run, phase, goal, needs, arches, plan, prep, rest, chunk, buildVars>>

\* A chunk is over when every child of it is; the mutant goes on as soon as
\* one is, as a pool of workers would.
Awaited_Pool == chunk = {} /\ Cardinality(kids) < Cap
Awaited == chunk = {} /\ kids = {}

ChunkDone ==
  /\ phase = "chunk" /\ Awaited /\ phase' = "waves"
  /\ UNCHANGED <<run, goal, needs, arches, plan, prep, rest, chunk, kids, failed, buildVars>>

Return ==
  /\ phase = "waves" /\ rest = {} /\ plan = <<>>
  /\ phase' = IF failed = {} THEN "ok" ELSE "err"
  /\ UNCHANGED <<run, goal, needs, arches, plan, prep, rest, chunk, kids, failed, buildVars>>

Progress ==
  \/ PrepError \/ PrepDone \/ NextWave \/ NextChunk \/ ChunkDone \/ Return
  \/ \E k \in Pkgs : Prep(k) \/ Spawn(k) \/ SpawnFails(k) \/ Await(k)

ChildStep(x) == ProcStep(x) /\ UNCHANGED driverVars

OtherEdit == Edits /\ (\E k \in Pkgs : AddVersion(k)) /\ UNCHANGED driverVars

Next == Begin \/ Progress \/ Abandon \/ OtherEdit \/ \E x \in Procs : ChildStep(x)

Spec == Init /\ [][Next]_vars

\* The driver is a loop nothing blocks but ch.wait(), and a child that is
\* scheduled ends: each command it runs does.  No run has to begin.
FairSpec == Spec /\ WF_vars(Progress) /\ \A x \in Procs : WF_vars(ChildStep(x))

-----------------------------------------------------------------------------
TypeOK ==
  /\ BuildTypeOK
  /\ run \in 0..MaxRuns /\ phase \in {"idle", "prep", "waves", "chunk", "ok", "err"}
  /\ goal \subseteq Pkgs /\ needs \subseteq goal \X goal /\ arches \subseteq Arches
  /\ Members(plan) \subseteq goal /\ rest \subseteq goal /\ chunk \subseteq goal
  /\ prep \subseteq goal /\ kids \subseteq goal /\ failed \subseteq goal

\* build-all starts a package when what it needs has ended, each once, and no
\* more than Cap at a time.
Order == INSTANCE DepOrder WITH
  Packages <- Pkgs, started <- kids,
  ended <- goal \ (Members(plan) \cup rest \cup chunk \cup kids)
OrderKept == Order!OrderSpec

\* The comment above build_all: "every child ... builds both arches
\* sequentially (so the per-package rpmbuild BUILD dir never collides)".
BuildDirsApart ==
  \A x, y \in Procs :
    x # y /\ {proc[x].pc, proc[y].pc} \subseteq Running => proc[x].key # proc[y].key

\* No RPM is unpacked into a sysroot while a build may be writing or signing it:
\* "Deps are in earlier waves, so each package's sysroot is populated when it
\* builds", the same comment goes on.
NothingStagedIsBuilding ==
  \A x, y \in Procs : proc[x].pc = "stage" /\ proc[y].pc \in Running =>
    proc[y].key \notin proc[x].toStage

\* A run that returns Ok built every package whose spec it could generate:
\* new RPMs of every arch, signed, and recorded.
OkRunIsComplete ==
  phase = "ok" => \A k \in goal, a \in arches :
    spec[k] = newest[k] =>
      /\ rpm[k, newest[k], a] = Rpm(Child(k), TRUE)
      /\ rpm[k, newest[k], Src] = Rpm(Child(k), TRUE)
      /\ results[k, newest[k], a] = "ok"

\* A run that returns Ok built nothing against a stale library: every RPM of
\* a planned package that it staged was built by this run, although the RPMs
\* of earlier runs lie in the same directory.
OkRunUsedItsOwn ==
  phase = "ok" => \A k \in goal, a \in arches : \A e \in sysroot[k, a] :
    <<k, e[1]>> \in needs => e[2] = Child(e[1])

\* Every run ends, whatever its children do.
RunEnds == phase = "prep" ~> phase \in {"ok", "err"}

\* The last line a run prints: "== all {total} built ==".
AllBuilt ==
  phase = "ok" => \A k \in goal, a \in arches : rpm[k, newest[k], a].there
=============================================================================
