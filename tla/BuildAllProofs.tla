--------------------------- MODULE BuildAllProofs ---------------------------
(***************************************************************************)
(* Proofs about BuildAll: what holds of single builds holds of the         *)
(* children of build-all, and no two of them build the same package, for   *)
(* any packages, plans, cap and number of runs.                            *)
(***************************************************************************)
EXTENDS BuildAll, BuildProofs, FiniteSetTheorems

RunGiven ==
  /\ run \in 0..MaxRuns
  /\ phase # "idle" => run \in 1..MaxRuns /\ arches \in ArchLists

\* The number of the run is one, and while it works its arches are from a list.
LEMMA RunStays ==
  ASSUME RunGiven, [Next]_vars
  PROVE  RunGiven'
<1>. USE BuildAllAssumption
<1>1. CASE Begin
  BY <1>1 DEF Begin, RunGiven
<1>2. ASSUME UNCHANGED <<run, arches>>, phase # "idle" PROVE RunGiven'
  BY <1>2 DEF RunGiven
<1>3. CASE Progress \/ Abandon
  <2>1. UNCHANGED <<run, arches>> /\ phase # "idle"
    BY <1>3 DEF Progress, PrepError, PrepDone, NextWave, NextChunk, Abandon, ChunkDone,
       Return, Prep, Spawn, SpawnFails, Await
  <2>. QED
    BY <1>2, <1>3, <2>1
<1>4. CASE OtherEdit \/ (\E x \in Procs : ChildStep(x)) \/ UNCHANGED vars
  BY <1>4 DEF OtherEdit, ChildStep, vars, driverVars, RunGiven
<1>. QED
  BY <1>1, <1>3, <1>4 DEF Next

\* A step of the driver, or of a child, is a step of Build or changes nothing
\* that Build has.
LEMMA DriverStep ==
  ASSUME RunGiven, [Next]_vars
  PROVE  [BuildNext]_buildVars
<1>1. ASSUME NEW k \in Pkgs, Prep(k) PROVE BuildNext
  BY <1>1 DEF Prep, BuildNext, Operator
<1>2. ASSUME NEW k \in Pkgs, Spawn(k) PROVE BuildNext
  <2>1. Child(k) \in Procs /\ arches \in (SUBSET Arches) \ {{}} /\ ~Exclusive
    BY <1>2, BuildAllAssumption DEF Spawn, RunGiven, Child
  <2>. QED
    BY <1>2, <2>1 DEF Spawn, BuildNext, Operator
<1>3. ASSUME NEW k \in Pkgs, SpawnFails(k) \/ Await(k) PROVE UNCHANGED buildVars
  BY <1>3 DEF SpawnFails, Await
<1>4. CASE Begin \/ PrepError \/ PrepDone \/ NextWave \/ NextChunk \/ Abandon \/ ChunkDone \/ Return
  BY <1>4 DEF Begin, PrepError, PrepDone, NextWave, NextChunk, Abandon, ChunkDone, Return
<1>5. CASE OtherEdit
  BY <1>5 DEF OtherEdit, BuildNext, Operator
<1>6. ASSUME NEW x \in Procs, ChildStep(x) PROVE BuildNext
  BY <1>6 DEF ChildStep, BuildNext
<1>7. CASE UNCHANGED vars
  BY <1>7 DEF vars
<1>. QED
  BY <1>1, <1>2, <1>3, <1>4, <1>5, <1>6, <1>7 DEF Next, Progress

\* Whatever build-all does is something an operator may do by hand.
THEOREM RunsAreBuilds == Spec => BuildSpec /\ []RunGiven
<1>1. Init => BuildInit /\ RunGiven
  BY BuildAllAssumption DEF Init, RunGiven
<1>2. RunGiven /\ [Next]_vars => RunGiven'
  BY RunStays
<1>3. RunGiven /\ [Next]_vars => [BuildNext]_buildVars
  BY DriverStep
<1>. QED
  BY <1>1, <1>2, <1>3, PTL DEF Spec, BuildSpec

\* A child that ended well leaves no unsigned RPM or SRPM of its version, even
\* if build-all returned early and was run again beside it.
THEOREM ChildrenSign == Spec => []SignedOrUnfinished
BY RunsAreBuilds, NothingLeftUnsigned, PTL

-----------------------------------------------------------------------------
\* The driver's own variables: the waves are sets of planned packages.
DriverType ==
  /\ phase \in {"idle", "prep", "waves", "chunk", "ok", "err"}
  /\ goal \subseteq Pkgs /\ needs \subseteq goal \X goal /\ arches \subseteq Arches
  /\ plan \in Seq(SUBSET goal) /\ rest \subseteq goal /\ chunk \subseteq goal
  /\ prep \subseteq goal /\ kids \subseteq goal /\ failed \subseteq goal

\* What the driver plans, cuts into chunks and awaits stays part of its goal.
LEMMA DriverTypeStays ==
  ASSUME DriverType, [Next]_vars
  PROVE  DriverType'
<1>1. CASE Begin
  <2>1. goal' \subseteq Pkgs /\ arches' \subseteq Arches /\ needs' \subseteq goal' \X goal'
    BY <1>1, BuildAllAssumption DEF Begin, PlannedNeeds
  <2>2. plan' \in Seq(SUBSET goal')
    <3>1. PICK n \in 1..Cardinality(goal') : plan' \in [1..n -> (SUBSET goal') \ {{}}]
      BY <1>1 DEF Begin, WavePlans
    <3>2. n \in Nat
      OBVIOUS
    <3>. QED
      BY <3>1, <3>2
  <2>. QED
    BY <1>1, <2>1, <2>2 DEF Begin, DriverType
<1>2. CASE PrepError \/ PrepDone \/ Abandon \/ ChunkDone \/ Return
  BY <1>2 DEF PrepError, PrepDone, Abandon, ChunkDone, Return, DriverType
<1>3. CASE NextWave
  <2>1. Head(plan) \in SUBSET goal /\ Tail(plan) \in Seq(SUBSET goal)
    BY <1>3 DEF NextWave, DriverType
  <2>. QED
    BY <1>3, <2>1 DEF NextWave, DriverType
<1>4. CASE NextChunk
  BY <1>4 DEF NextChunk, DriverType
<1>5. ASSUME NEW k \in Pkgs, Prep(k) \/ Spawn(k) \/ SpawnFails(k) PROVE DriverType'
  BY <1>5 DEF Prep, Spawn, SpawnFails, DriverType
<1>6. ASSUME NEW k \in Pkgs, Await(k) PROVE DriverType'
  BY <1>6 DEF Await, Failed, DriverType
<1>7. CASE OtherEdit \/ (\E x \in Procs : ChildStep(x)) \/ UNCHANGED vars
  BY <1>7 DEF OtherEdit, ChildStep, vars, driverVars, DriverType
<1>. QED
  BY <1>1, <1>2, <1>3, <1>4, <1>5, <1>6, <1>7 DEF Next, Progress

\* The driver and its children keep their types.
THEOREM BuildAllTypeCorrect == Spec => []TypeOK
<1>1. Init => DriverType
  BY DEF Init, DriverType
<1>2. DriverType /\ [Next]_vars => DriverType'
  BY DriverTypeStays
<1>3. BuildTypeOK /\ RunGiven /\ DriverType => TypeOK
  <2>. SUFFICES ASSUME DriverType PROVE Members(plan) \subseteq goal
    BY DEF DriverType, RunGiven, TypeOK
  <2>. QED
    BY DEF DriverType, Members
<1>. QED
  BY <1>1, <1>2, <1>3, RunsAreBuilds, BuildTypeCorrect, PTL DEF Spec

-----------------------------------------------------------------------------
\* Who runs is a child that is awaited.
ChildrenAwaited ==
  /\ phase # "chunk" => kids = {}
  /\ \A x \in Procs : proc[x].pc \in Running =>
       \E k \in kids : x = Child(k) /\ proc[x].key = k

\* A child goes on with its own package, and touches no other process.
LEMMA ChildKeepsKey ==
  ASSUME BuildTypeOK, NEW x \in Procs, ProcStep(x)
  PROVE  /\ proc[x].pc \in Running /\ proc'[x].key = proc[x].key
         /\ \A y \in Procs : y # x => proc'[y] = proc[y]
<1>1. proc[x].pc \in Running /\ proc[x].pc # "idle"
  BY DEF ProcStep, NextArch, Stage, StartRpmbuild, RpmbuildOk, RpmbuildFails, Record,
         Sign, SignSrpm, Die, Running
<1>2. proc[x] \in Process
  BY <1>1, ProcessFields
<1>3. \A y \in Procs : y # x => proc'[y] = proc[y]
  BY DEF ProcStep, NextArch, Stage, StartRpmbuild, RpmbuildOk, RpmbuildFails, Record,
         Sign, SignSrpm, Die, Goto, BuildTypeOK
<1>4. ASSUME NEW pc, Goto(x, pc) PROVE proc'[x].key = proc[x].key
  BY <1>2, <1>4 DEF Goto, BuildTypeOK, Process
<1>5. ASSUME NEW a \in Arches, NextArch(x, a) PROVE proc'[x].key = proc[x].key
  BY <1>2, <1>5 DEF NextArch, BuildTypeOK, Process
<1>6. ASSUME NEW d \in Pkgs, Stage(x, d) PROVE proc'[x].key = proc[x].key
  <2>1. CASE DepRpm(x, d).there
    BY <1>2, <1>6, <2>1 DEF Stage, BuildTypeOK, Process
  <2>. QED
    BY <1>4, <1>6, <2>1 DEF Stage
<1>7. ASSUME StartRpmbuild(x) PROVE proc'[x].key = proc[x].key
  BY <1>2, <1>7 DEF StartRpmbuild, BuildTypeOK, Process
<1>8. ASSUME \/ RpmbuildOk(x) \/ RpmbuildFails(x) \/ Record(x)
             \/ Sign(x) \/ SignSrpm(x) \/ Die(x)
      PROVE  proc'[x].key = proc[x].key
  BY <1>4, <1>8 DEF RpmbuildOk, RpmbuildFails, Record, Sign, SignSrpm, Die
<1>9. proc'[x].key = proc[x].key
  BY <1>5, <1>6, <1>7, <1>8 DEF ProcStep
<1>. QED
  BY <1>1, <1>3, <1>9

\* A running child is awaited, as long as build-all does not stop in the middle.
LEMMA AwaitedStays ==
  ASSUME ~Abandon, BuildTypeOK, RunGiven, ChildrenAwaited, [Next]_vars
  PROVE  ChildrenAwaited'
<1>1. ASSUME phase # "chunk", kids' = {}, proc' = proc PROVE ChildrenAwaited'
  BY <1>1 DEF ChildrenAwaited
<1>2. CASE Begin
  <2>1. phase # "chunk" /\ kids' = {} /\ proc' = proc
    BY <1>2 DEF Begin, buildVars
  <2>. QED
    BY <1>1, <2>1
<1>3. CASE PrepError \/ PrepDone \/ NextWave \/ NextChunk \/ Return
  <2>1. phase # "chunk" /\ kids' = kids /\ proc' = proc
    BY <1>3 DEF PrepError, PrepDone, NextWave, NextChunk, Return, buildVars
  <2>. QED
    BY <1>1, <2>1 DEF ChildrenAwaited
<1>4. ASSUME NEW k \in Pkgs, Prep(k) PROVE ChildrenAwaited'
  <2>1. phase # "chunk" /\ kids' = kids /\ proc' = proc
    BY <1>4 DEF Prep, GenSpec
  <2>. QED
    BY <1>1, <2>1 DEF ChildrenAwaited
<1>5. CASE Abandon
  BY <1>5
<1>6. CASE ChunkDone
  BY <1>6 DEF ChunkDone, Awaited, buildVars, ChildrenAwaited
<1>7. ASSUME NEW k \in Pkgs, Spawn(k) PROVE ChildrenAwaited'
  <2>1. Child(k) \in Procs
    BY <1>7, BuildAllAssumption DEF Spawn, RunGiven, Child
  <2>2. /\ kids' = kids \cup {k} /\ phase = "chunk" /\ phase' = phase /\ run' = run
        /\ proc'[Child(k)].key = k /\ \A y \in Procs : y # Child(k) => proc'[y] = proc[y]
    BY <1>7, <2>1 DEF Spawn, Invoke, BuildTypeOK
  <2>. QED
    BY <2>2 DEF ChildrenAwaited, Child
<1>8. ASSUME NEW k \in Pkgs, SpawnFails(k) PROVE ChildrenAwaited'
  BY <1>8 DEF SpawnFails, buildVars, ChildrenAwaited, Child
<1>9. ASSUME NEW k \in Pkgs, Await(k) PROVE ChildrenAwaited'
  <2>1. proc[Child(k)].pc \notin Running
    BY <1>9 DEF Await, HasEnded, Ended, Running
  <2>. QED
    BY <1>9, <2>1 DEF Await, buildVars, ChildrenAwaited, Child
<1>10. CASE OtherEdit
  BY <1>10 DEF OtherEdit, AddVersion, driverVars, ChildrenAwaited, Child
<1>11. ASSUME NEW x \in Procs, ChildStep(x) PROVE ChildrenAwaited'
  <2>1. UNCHANGED driverVars /\ proc[x].pc \in Running /\ proc'[x].key = proc[x].key
    BY <1>11, ChildKeepsKey DEF ChildStep
  <2>2. \A y \in Procs : y # x => proc'[y] = proc[y]
    BY <1>11, ChildKeepsKey DEF ChildStep
  <2>. QED
    BY <2>1, <2>2 DEF driverVars, ChildrenAwaited, Child
<1>12. CASE UNCHANGED vars
  BY <1>12 DEF vars, driverVars, buildVars, ChildrenAwaited, Child
<1>. QED
  BY <1>2, <1>3, <1>4, <1>5, <1>6, <1>7, <1>8, <1>9, <1>10, <1>11, <1>12 DEF Next, Progress

\* If build-all never stops in the middle, no two builds of one package ever overlap,
\* in one run or over many: they would share BUILD and the sysroot.
THEOREM BuildDirsStayApart == ~Orphans => (Spec => []BuildDirsApart)
<1>. SUFFICES ASSUME ~Orphans PROVE Spec => []BuildDirsApart
  OBVIOUS
<1>1. Init => ChildrenAwaited
  BY DEF Init, BuildInit, Idle, Running, ChildrenAwaited
<1>2. BuildTypeOK /\ RunGiven /\ ChildrenAwaited /\ [Next]_vars => ChildrenAwaited'
  BY AwaitedStays DEF Abandon
<1>3. ChildrenAwaited => BuildDirsApart
  BY DEF ChildrenAwaited, BuildDirsApart
<1>. QED
  BY <1>1, <1>2, <1>3, RunsAreBuilds, BuildTypeCorrect, PTL DEF Spec

-----------------------------------------------------------------------------
(* build-all implements DepOrder.                                          *)

Waiting == Members(plan) \cup rest \cup chunk \cup kids

\* Every package of the run is in one place at a time.
Apart ==
  /\ NoRepeats(plan)
  /\ Members(plan) \cap (rest \cup chunk \cup kids) = {}
  /\ rest \cap (chunk \cup kids) = {} /\ chunk \cap kids = {}

\* What a package of a later wave needs is in an earlier one or has ended; what
\* one of this wave needs has ended.
NeedsMet ==
  /\ \A n \in DOMAIN plan : \A p \in plan[n], d \in goal : <<p, d>> \in needs =>
       d \notin Members(plan) \/ \E m \in DOMAIN plan : m < n /\ d \in plan[m]
  /\ \A p \in rest \cup chunk, d \in goal : <<p, d>> \in needs => d \notin Waiting

Between ==
  /\ phase = "prep" => rest = {} /\ chunk = {} /\ kids = {}
  /\ phase = "waves" => chunk = {} /\ kids = {}

OrderInv == Apart /\ NeedsMet /\ Between /\ Cardinality(chunk \cup kids) <= Cap

\* Taking the first wave off the plan.
LEMMA WaveTaken ==
  ASSUME DriverType, Apart, plan # <<>>
  PROVE  /\ Members(plan) = Head(plan) \cup Members(Tail(plan))
         /\ Head(plan) \cap Members(Tail(plan)) = {}
         /\ NoRepeats(Tail(plan))
<1>1. plan \in Seq(SUBSET goal) /\ Len(plan) \in Nat \ {0} /\ DOMAIN plan = 1..Len(plan)
  BY DEF DriverType
<1>2. /\ Head(plan) = plan[1] /\ DOMAIN Tail(plan) = 1..(Len(plan) - 1)
      /\ \A n \in DOMAIN Tail(plan) : Tail(plan)[n] = plan[n + 1] /\ n + 1 \in DOMAIN plan
  BY <1>1
<1>3. \A n \in DOMAIN plan : n = 1 \/ (n - 1 \in DOMAIN Tail(plan) /\ (n - 1) + 1 = n)
  BY <1>1, <1>2
<1>4. Members(plan) = Head(plan) \cup Members(Tail(plan))
  BY <1>1, <1>2, <1>3 DEF Members
<1>5. Head(plan) \cap Members(Tail(plan)) = {}
  <2>1. \A n \in DOMAIN Tail(plan) : plan[1] \cap plan[n + 1] = {}
    BY <1>1, <1>2 DEF Apart, NoRepeats
  <2>. QED
    BY <1>2, <2>1 DEF Members
<1>6. NoRepeats(Tail(plan))
  <2>. SUFFICES ASSUME NEW m \in DOMAIN Tail(plan), NEW n \in DOMAIN Tail(plan), m # n
                PROVE  Tail(plan)[m] \cap Tail(plan)[n] = {}
    BY DEF NoRepeats
  <2>1. m + 1 # n + 1
    BY <1>2
  <2>. QED
    BY <1>2, <2>1 DEF Apart, NoRepeats
<1>. QED
  BY <1>4, <1>5, <1>6

\* Taking the next wave off the plan loses no package and breaks no order.
LEMMA NextWaveKeeps ==
  ASSUME DriverType, OrderInv, NextWave
  PROVE  OrderInv' /\ Waiting' = Waiting
<1>1. /\ phase = "waves" /\ rest = {} /\ chunk = {} /\ kids = {} /\ plan # <<>>
      /\ rest' = Head(plan) /\ plan' = Tail(plan)
      /\ UNCHANGED <<phase, goal, needs, chunk, kids>>
  BY DEF NextWave, OrderInv, Between
<1>2. /\ Members(plan) = Head(plan) \cup Members(Tail(plan))
      /\ Head(plan) \cap Members(Tail(plan)) = {} /\ NoRepeats(Tail(plan))
  BY <1>1, WaveTaken DEF OrderInv
<1>3. plan \in Seq(SUBSET goal) /\ Len(plan) \in Nat \ {0} /\ DOMAIN plan = 1..Len(plan)
  BY <1>1 DEF DriverType
<1>4. /\ Head(plan) = plan[1] /\ DOMAIN Tail(plan) = 1..(Len(plan) - 1)
      /\ \A n \in DOMAIN Tail(plan) : Tail(plan)[n] = plan[n + 1] /\ n + 1 \in DOMAIN plan
  BY <1>3
<1>5. Apart' /\ Between'
  BY <1>1, <1>2 DEF Apart, Between
<1>6. ASSUME NEW p \in Head(plan), NEW d \in goal, <<p, d>> \in needs
      PROVE  d \notin Members(plan)
  <2>1. 1 \in DOMAIN plan /\ p \in plan[1] /\ \A m \in DOMAIN plan : ~(m < 1)
    BY <1>3, <1>4, <1>6
  <2>. QED
    BY <1>6, <2>1 DEF OrderInv, NeedsMet
<1>7. ASSUME NEW n \in DOMAIN Tail(plan), NEW p \in Tail(plan)[n], NEW d \in goal,
             <<p, d>> \in needs, d \in Members(Tail(plan))
      PROVE  \E m \in DOMAIN Tail(plan) : m < n /\ d \in Tail(plan)[m]
  <2>1. PICK m \in DOMAIN plan : m < n + 1 /\ d \in plan[m]
    BY <1>2, <1>4, <1>7 DEF OrderInv, NeedsMet
  <2>2. m # 1
    BY <1>2, <1>4, <1>7, <2>1
  <2>3. m - 1 \in DOMAIN Tail(plan) /\ m - 1 < n /\ (m - 1) + 1 = m
    BY <1>3, <1>4, <2>1, <2>2
  <2>. QED
    BY <1>4, <2>1, <2>3
<1>8. Waiting' = Waiting
  BY <1>1, <1>2 DEF Waiting
<1>9. NeedsMet'
  <2>1. \A p \in rest' \cup chunk', d \in goal' : <<p, d>> \in needs' => d \notin Waiting'
    BY <1>1, <1>2, <1>6 DEF Waiting
  <2>2. \A n \in DOMAIN plan' : \A p \in plan'[n], d \in goal' : <<p, d>> \in needs' =>
          d \notin Members(plan') \/ \E m \in DOMAIN plan' : m < n /\ d \in plan'[m]
    BY <1>1, <1>7
  <2>. QED
    BY <2>1, <2>2 DEF NeedsMet
<1>. QED
  BY <1>1, <1>5, <1>8, <1>9 DEF OrderInv

\* What is counted against the cap is finite.
LEMMA ChunkFinite ==
  ASSUME DriverType
  PROVE  /\ IsFiniteSet(chunk \cup kids) /\ IsFiniteSet(kids) /\ IsFiniteSet(rest)
         /\ Cap \in Nat
<1>1. chunk \cup kids \in SUBSET Pkgs /\ kids \in SUBSET Pkgs /\ rest \in SUBSET Pkgs
  BY DEF DriverType
<1>. QED
  BY <1>1, FS_Subset, BuildAllAssumption

\* A wave is cut into chunks of at most Cap.
LEMMA NextChunkKeeps ==
  ASSUME DriverType, OrderInv, NextChunk
  PROVE  OrderInv' /\ Waiting' = Waiting
<1>1. PICK c \in SUBSET rest :
        /\ Cardinality(c) = Cap \/ (c = rest /\ Cardinality(c) < Cap)
        /\ chunk' = c /\ rest' = rest \ c
  BY DEF NextChunk, ChunkSize
<1>2. /\ chunk = {} /\ kids = {} /\ phase' = "chunk"
      /\ UNCHANGED <<goal, needs, plan, kids>>
  BY DEF NextChunk, OrderInv, Between
<1>3. Waiting' = Waiting /\ rest' \cup chunk' = rest
  BY <1>1, <1>2 DEF Waiting
<1>4. Apart' /\ Between'
  BY <1>1, <1>2 DEF OrderInv, Apart, Between
<1>5. NeedsMet'
  BY <1>2, <1>3 DEF OrderInv, NeedsMet
<1>6. Cardinality(chunk' \cup kids') <= Cap
  <2>1. chunk' \cup kids' = c
    BY <1>1, <1>2
  <2>2. Cardinality(c) \in Nat /\ Cap \in Nat
    BY ChunkFinite, FS_Subset, FS_CardinalityType
  <2>. QED
    BY <1>1, <2>1, <2>2
<1>. QED
  BY <1>3, <1>4, <1>5, <1>6 DEF OrderInv

\* A package leaves the chunk, for kids or for good, or leaves kids.
LEMMA LeavesKeeps ==
  ASSUME DriverType, OrderInv, NEW k \in chunk \cup kids, phase = "chunk",
         UNCHANGED <<phase, goal, needs, plan, rest>>,
         \/ chunk' = chunk \ {k} /\ kids' \in {kids, kids \cup {k}} /\ k \in chunk
         \/ chunk' = chunk /\ kids' = kids \ {k}
  PROVE  OrderInv'
<1>1. chunk' \subseteq chunk /\ chunk' \cup kids' \in SUBSET (chunk \cup kids)
  OBVIOUS
<1>2. Apart' /\ Between'
  BY <1>1 DEF OrderInv, Apart, Between
<1>3. NeedsMet'
  <2>1. Waiting' \subseteq Waiting
    BY <1>1 DEF Waiting
  <2>. QED
    BY <1>1, <2>1 DEF OrderInv, NeedsMet
<1>4. Cardinality(chunk' \cup kids') <= Cap
  <2>1. Cardinality(chunk' \cup kids') <= Cardinality(chunk \cup kids)
    BY <1>1, ChunkFinite, FS_Subset
  <2>2. Cardinality(chunk \cup kids) \in Nat /\ Cardinality(chunk' \cup kids') \in Nat
    BY <1>1, ChunkFinite, FS_Subset, FS_CardinalityType
  <2>. QED
    BY <2>1, <2>2, ChunkFinite DEF OrderInv
<1>. QED
  BY <1>2, <1>3, <1>4 DEF OrderInv

\* A run begins with everything in its plan: a run of DepOrder begins.
LEMMA BeginKeeps ==
  ASSUME DriverType', Begin
  PROVE  OrderInv' /\ Order!NewRun
<1>1. /\ ValidPlan(plan', goal', needs') /\ needs' \subseteq goal' \X goal'
      /\ rest' = {} /\ chunk' = {} /\ kids' = {} /\ phase' = "prep"
  BY DEF Begin, WavePlans, PlannedNeeds
<1>2. Apart' /\ Between'
  BY <1>1 DEF Apart, Between, ValidPlan
<1>3. NeedsMet'
  <2>. SUFFICES ASSUME NEW n \in DOMAIN plan', NEW p \in plan'[n], NEW d \in goal',
                       <<p, d>> \in needs'
                PROVE  \E m \in DOMAIN plan' : m < n /\ d \in plan'[m]
    BY <1>1 DEF NeedsMet
  <2>1. PICK m \in 1..(n - 1) : d \in plan'[m]
    BY <1>1 DEF ValidPlan, NeedsEarlier
  <2>2. plan' \in Seq(SUBSET goal') /\ n \in 1..Len(plan') /\ Len(plan') \in Nat
    BY DEF DriverType
  <2>3. m \in DOMAIN plan' /\ m < n
    BY <2>2
  <2>. QED
    BY <2>1, <2>3
<1>4. Cardinality(chunk' \cup kids') <= Cap
  <2>1. chunk' \cup kids' = {}
    BY <1>1
  <2>2. Cardinality({}) = 0 /\ 0 <= Cap
    BY FS_EmptySet, BuildAllAssumption
  <2>. QED
    BY <2>1, <2>2
<1>5. goal' \ (Members(plan') \cup rest' \cup chunk' \cup kids') = {}
  BY <1>1 DEF ValidPlan
<1>. QED
  BY <1>1, <1>2, <1>3, <1>4, <1>5 DEF OrderInv, Order!NewRun, DriverType

\* What may be started when a child leaves the chunk.
LEMMA ChunkMayStart ==
  ASSUME DriverType, OrderInv, NEW k \in chunk
  PROVE  Order!MayStart(k) /\ Cardinality(kids) < Cap
<1>1. k \in goal /\ k \in Waiting /\ k \notin kids
  BY DEF DriverType, OrderInv, Apart, Waiting
<1>2. \A d \in goal : <<k, d>> \in needs => d \notin Waiting
  BY DEF OrderInv, NeedsMet
<1>3. Cardinality(kids) < Cap
  <2>1. Cardinality(kids \cup {k}) = Cardinality(kids) + 1
    BY <1>1, ChunkFinite, FS_AddElement
  <2>2. Cardinality(kids \cup {k}) <= Cardinality(chunk \cup kids)
    BY ChunkFinite, FS_Subset
  <2>3. Cardinality(kids) \in Nat /\ Cardinality(chunk \cup kids) \in Nat
    BY ChunkFinite, FS_CardinalityType
  <2>. QED
    BY <2>1, <2>2, <2>3, ChunkFinite DEF OrderInv
<1>. QED
  BY <1>1, <1>2, <1>3 DEF Order!MayStart, Waiting

\* Every step of the driver is a step of DepOrder or leaves its state alone.
LEMMA OrderStep ==
  ASSUME DriverType, DriverType', OrderInv, [Next]_vars
  PROVE  OrderInv' /\ [Order!OrderNext]_(Order!orderVars)
<1>. DEFINE Goal == OrderInv' /\ [Order!OrderNext]_(Order!orderVars)
<1>1. ASSUME UNCHANGED <<goal, needs, kids>>, Waiting' = Waiting, OrderInv' PROVE Goal
  BY <1>1 DEF Order!orderVars, Waiting
<1>2. ASSUME UNCHANGED <<goal, needs, plan, rest, chunk, kids>>, Between' PROVE Goal
  <2>1. Waiting' = Waiting /\ OrderInv'
    BY <1>2 DEF Waiting, OrderInv, Apart, NeedsMet
  <2>. QED
    BY <1>1, <1>2, <2>1
<1>3. CASE Begin
  BY <1>3, BeginKeeps DEF Order!OrderNext
<1>4. CASE NextWave
  BY <1>1, <1>4, NextWaveKeeps DEF NextWave
<1>5. CASE NextChunk
  BY <1>1, <1>5, NextChunkKeeps DEF NextChunk
<1>6. CASE PrepError \/ PrepDone \/ Abandon \/ ChunkDone \/ Return
  <2>1. UNCHANGED <<goal, needs, plan, rest, chunk, kids>>
    BY <1>6 DEF PrepError, PrepDone, Abandon, ChunkDone, Return
  <2>2. Between'
    BY <1>6 DEF PrepError, PrepDone, Abandon, ChunkDone, Return, Awaited, OrderInv, Between
  <2>. QED
    BY <1>2, <2>1, <2>2
<1>7. ASSUME NEW k \in Pkgs, Prep(k) PROVE Goal
  BY <1>2, <1>7 DEF Prep, OrderInv, Between
<1>8. ASSUME NEW k \in Pkgs, Spawn(k) PROVE Goal
  <2>1. OrderInv' /\ Order!MayStart(k) /\ Cardinality(kids) < Cap
    BY <1>8, LeavesKeeps, ChunkMayStart DEF Spawn
  <2>2. Waiting' = Waiting
    BY <1>8 DEF Spawn, Waiting
  <2>3. goal' \ Waiting' = goal \ Waiting /\ UNCHANGED <<goal, needs>> /\ kids' = kids \cup {k}
    BY <1>8, <2>2 DEF Spawn
  <2>4. Order!Start(k)
    BY <2>1, <2>3 DEF Order!Start, Order!Cardinality, Cardinality, Waiting
  <2>. QED
    BY <2>1, <2>4 DEF Order!OrderNext
<1>9. ASSUME NEW k \in Pkgs, SpawnFails(k) PROVE Goal
  <2>1. OrderInv' /\ Order!MayStart(k)
    BY <1>9, LeavesKeeps, ChunkMayStart DEF SpawnFails
  <2>2. k \in goal /\ k \notin Members(plan) \cup rest \cup kids
    BY <1>9 DEF SpawnFails, DriverType, OrderInv, Apart
  <2>3. goal' \ Waiting' = (goal \ Waiting) \cup {k}
    BY <1>9, <2>2 DEF SpawnFails, Waiting
  <2>4. Order!Skip(k)
    BY <1>9, <2>1, <2>3 DEF SpawnFails, Order!Skip, Waiting
  <2>. QED
    BY <2>1, <2>4 DEF Order!OrderNext
<1>10. ASSUME NEW k \in Pkgs, Await(k) PROVE Goal
  <2>1. OrderInv'
    BY <1>10, LeavesKeeps DEF Await
  <2>2. k \in goal /\ k \notin Members(plan) \cup rest \cup chunk
    BY <1>10 DEF Await, DriverType, OrderInv, Apart
  <2>3. goal' \ Waiting' = (goal \ Waiting) \cup {k}
    BY <1>10, <2>2 DEF Await, Waiting
  <2>4. Order!End(k)
    BY <1>10, <2>3 DEF Await, Order!End, Waiting
  <2>. QED
    BY <2>1, <2>4 DEF Order!OrderNext
<1>11. CASE OtherEdit \/ (\E x \in Procs : ChildStep(x)) \/ UNCHANGED vars
  BY <1>2, <1>11 DEF OtherEdit, ChildStep, vars, driverVars, OrderInv, Between
<1>. QED
  BY <1>3, <1>4, <1>5, <1>6, <1>7, <1>8, <1>9, <1>10, <1>11 DEF Next, Progress

\* Before the first run nothing is started, here as in DepOrder.
LEMMA InitOrder == Init => DriverType /\ OrderInv /\ Order!OrderInit
<1>. SUFFICES ASSUME Init PROVE DriverType /\ OrderInv /\ Order!OrderInit
  OBVIOUS
<1>1. DriverType /\ Members(plan) = {} /\ DOMAIN plan = {}
  BY DEF Init, DriverType, Members
<1>2. Cardinality(chunk \cup kids) <= Cap
  <2>1. chunk \cup kids = {}
    BY DEF Init
  <2>2. Cardinality({}) = 0 /\ 0 <= Cap
    BY FS_EmptySet, BuildAllAssumption
  <2>. QED
    BY <2>1, <2>2
<1>3. Apart /\ NeedsMet /\ Between
  BY <1>1 DEF Init, Apart, NeedsMet, Between, NoRepeats
<1>. QED
  BY <1>1, <1>2, <1>3 DEF Init, OrderInv, Order!OrderInit

\* build-all keeps the order that DepOrder promises, for any plan, cap and
\* outcome of the children: a package starts when what it needs has ended.
THEOREM DriverImplementsOrder == Spec => OrderKept
<1>1. Init => DriverType /\ OrderInv /\ Order!OrderInit
  BY InitOrder
<1>2. DriverType /\ [Next]_vars => DriverType'
  BY DriverTypeStays
<1>3. DriverType /\ DriverType' /\ OrderInv /\ [Next]_vars
        => OrderInv' /\ [Order!OrderNext]_(Order!orderVars)
  BY OrderStep
<1>. QED
  BY <1>1, <1>2, <1>3, PTL DEF Spec, OrderKept, Order!OrderSpec
-----------------------------------------------------------------------------
(* No RPM is unpacked while its build runs.                                *)

\* Without edits, a running build stages what its package needs by now.
ReqsAreRows ==
  \A x \in Procs : proc[x].pc \in Running =>
    /\ proc[x].reqs = Rows[proc[x].key][newest[proc[x].key]]
    /\ proc[x].toStage \subseteq proc[x].reqs

\* The needs of a run are those of the catalog, and what a child needs of the
\* plan has ended.
NeedsEnded ==
  /\ phase \in {"prep", "waves", "chunk"} => needs = PlannedNeeds(goal)
  /\ \A p \in kids, d \in goal : <<p, d>> \in needs => d \notin Waiting

\* A build keeps the needs it has read, and adds nothing to what it will stage.
LEMMA ProcReqs ==
  ASSUME BuildTypeOK, NEW x \in Procs, ProcStep(x)
  PROVE  /\ newest' = newest /\ proc'[x].reqs = proc[x].reqs
         /\ proc[x].toStage \subseteq proc[x].reqs => proc'[x].toStage \subseteq proc'[x].reqs
<1>1. newest' = newest
  BY DEF ProcStep, NextArch, Stage, StartRpmbuild, RpmbuildOk, RpmbuildFails, Record,
         Sign, SignSrpm, Die
<1>2. proc[x] \in Process
  <2>1. proc[x].pc # "idle"
    BY ChildKeepsKey DEF Running
  <2>. QED
    BY <2>1, ProcessFields
<1>. DEFINE Same == proc'[x].reqs = proc[x].reqs /\ proc'[x].toStage = proc[x].toStage
<1>3. ASSUME NEW pc, Goto(x, pc) PROVE Same
  BY <1>2, <1>3 DEF Goto, BuildTypeOK, Process
<1>4. ASSUME NEW a \in Arches, NextArch(x, a)
      PROVE  proc'[x].reqs = proc[x].reqs /\ proc'[x].toStage = proc[x].reqs
  BY <1>2, <1>4 DEF NextArch, BuildTypeOK, Process
<1>5. ASSUME NEW d \in Pkgs, Stage(x, d)
      PROVE  proc'[x].reqs = proc[x].reqs /\ proc'[x].toStage \subseteq proc[x].toStage
  <2>1. CASE DepRpm(x, d).there
    BY <1>2, <1>5, <2>1 DEF Stage, BuildTypeOK, Process
  <2>2. CASE ~DepRpm(x, d).there
    BY <1>3, <1>5, <2>2 DEF Stage
  <2>. QED
    BY <2>1, <2>2
<1>6. CASE StartRpmbuild(x)
  BY <1>2, <1>6 DEF StartRpmbuild, BuildTypeOK, Process
<1>7. CASE RpmbuildOk(x) \/ RpmbuildFails(x) \/ Record(x) \/ Sign(x) \/ SignSrpm(x) \/ Die(x)
  BY <1>3, <1>7 DEF RpmbuildOk, RpmbuildFails, Record, Sign, SignSrpm, Die
<1>. QED
  BY <1>1, <1>4, <1>5, <1>6, <1>7 DEF ProcStep

\* Without new versions, what the children have read is what the plan was made of.
LEMMA ReqsStay ==
  ASSUME ~Edits, BuildTypeOK, RunGiven, ReqsAreRows, [Next]_vars
  PROVE  ReqsAreRows' /\ newest' = newest
<1>1. ASSUME UNCHANGED <<newest, proc>> PROVE ReqsAreRows'
  BY <1>1 DEF ReqsAreRows
<1>2. CASE Begin \/ PrepError \/ PrepDone \/ NextWave \/ NextChunk \/ Abandon \/ ChunkDone \/ Return
  <2>1. UNCHANGED buildVars
    BY <1>2 DEF Begin, PrepError, PrepDone, NextWave, NextChunk, Abandon, ChunkDone, Return
  <2>. QED
    BY <1>1, <2>1 DEF buildVars
<1>3. ASSUME NEW k \in Pkgs, Prep(k) \/ SpawnFails(k) \/ Await(k)
      PROVE  ReqsAreRows' /\ newest' = newest
  BY <1>1, <1>3 DEF Prep, GenSpec, SpawnFails, Await, buildVars
<1>4. ASSUME NEW k \in Pkgs, Spawn(k) PROVE ReqsAreRows' /\ newest' = newest
  <2>1. Child(k) \in Procs
    BY <1>4, BuildAllAssumption DEF Spawn, RunGiven, Child
  <2>2. /\ newest' = newest /\ \A y \in Procs : y # Child(k) => proc'[y] = proc[y]
        /\ proc'[Child(k)].key = k /\ proc'[Child(k)].reqs = Rows[k][newest[k]]
        /\ proc'[Child(k)].toStage = {}
    BY <1>4, <2>1 DEF Spawn, Invoke, BuildTypeOK
  <2>. QED
    BY <2>2 DEF ReqsAreRows
<1>5. ASSUME NEW x \in Procs, ChildStep(x) PROVE ReqsAreRows' /\ newest' = newest
  <2>1. /\ newest' = newest /\ proc'[x].reqs = proc[x].reqs
        /\ proc[x].toStage \subseteq proc[x].reqs => proc'[x].toStage \subseteq proc'[x].reqs
    BY <1>5, ProcReqs DEF ChildStep
  <2>2. /\ proc[x].pc \in Running /\ proc'[x].key = proc[x].key
        /\ \A y \in Procs : y # x => proc'[y] = proc[y]
    BY <1>5, ChildKeepsKey DEF ChildStep
  <2>. QED
    BY <2>1, <2>2 DEF ReqsAreRows
<1>6. CASE UNCHANGED vars
  BY <1>1, <1>6 DEF vars, buildVars
<1>. QED
  BY <1>2, <1>3, <1>4, <1>5, <1>6 DEF Next, Progress, OtherEdit

\* A child starts, and goes on, only after its needs in the goal have ended.
LEMMA NeedsEndedStays ==
  ASSUME DriverType, DriverType', OrderInv, newest' = newest, NeedsEnded, [Next]_vars
  PROVE  NeedsEnded'
<1>1. CASE Begin
  BY <1>1 DEF Begin, PlannedNeeds, NeedsEnded, buildVars
<1>2. ASSUME UNCHANGED <<goal, needs>>, kids' \subseteq kids, Waiting' \subseteq Waiting,
             phase' \in {phase, "ok", "err"} \/ (phase \in {"prep", "waves", "chunk"})
      PROVE  NeedsEnded'
  BY <1>2 DEF NeedsEnded, PlannedNeeds
<1>3. CASE NextWave
  BY <1>2, <1>3, NextWaveKeeps DEF NextWave
<1>4. CASE NextChunk
  BY <1>2, <1>4, NextChunkKeeps DEF NextChunk
<1>5. CASE PrepError \/ PrepDone \/ Abandon \/ ChunkDone \/ Return
  BY <1>2, <1>5 DEF PrepError, PrepDone, Abandon, ChunkDone, Return, Waiting
<1>6. ASSUME NEW k \in Pkgs, Prep(k) \/ SpawnFails(k) \/ Await(k) PROVE NeedsEnded'
  BY <1>2, <1>6 DEF Prep, SpawnFails, Await, Waiting
<1>7. ASSUME NEW k \in Pkgs, Spawn(k) PROVE NeedsEnded'
  <2>1. \A d \in goal : <<k, d>> \in needs => d \notin Waiting
    BY <1>7 DEF Spawn, OrderInv, NeedsMet
  <2>2. /\ Waiting' = Waiting /\ kids' = kids \cup {k}
        /\ UNCHANGED <<phase, goal, needs>>
    BY <1>7 DEF Spawn, Waiting
  <2>. QED
    BY <2>1, <2>2 DEF NeedsEnded, PlannedNeeds
<1>8. CASE OtherEdit \/ (\E x \in Procs : ChildStep(x)) \/ UNCHANGED vars
  BY <1>2, <1>8 DEF OtherEdit, ChildStep, vars, driverVars, Waiting
<1>. QED
  BY <1>1, <1>3, <1>4, <1>5, <1>6, <1>7, <1>8 DEF Next, Progress

\* If build-all never stops in the middle and nobody adds a version meanwhile, no
\* RPM is unpacked into a sysroot while a build of its package is running.
THEOREM NeverStagesARunningBuild ==
  ~Orphans /\ ~Edits => (Spec => []NothingStagedIsBuilding)
<1>. SUFFICES ASSUME ~Orphans, ~Edits PROVE Spec => []NothingStagedIsBuilding
  OBVIOUS
<1>1. Init => ReqsAreRows /\ NeedsEnded /\ ChildrenAwaited /\ OrderInv /\ DriverType
  BY InitOrder DEF Init, BuildInit, Idle, Running, ReqsAreRows, NeedsEnded, ChildrenAwaited
<1>2. DriverType /\ [Next]_vars => DriverType'
  BY DriverTypeStays
<1>3. DriverType /\ DriverType' /\ OrderInv /\ [Next]_vars => OrderInv'
  BY OrderStep
<1>4. BuildTypeOK /\ RunGiven /\ ChildrenAwaited /\ [Next]_vars => ChildrenAwaited'
  BY AwaitedStays DEF Abandon
<1>5. BuildTypeOK /\ RunGiven /\ ReqsAreRows /\ [Next]_vars => ReqsAreRows' /\ newest' = newest
  BY ReqsStay
<1>6. DriverType /\ DriverType' /\ OrderInv /\ newest' = newest /\ NeedsEnded /\ [Next]_vars
        => NeedsEnded'
  BY NeedsEndedStays
<1>7. DriverType /\ ReqsAreRows /\ NeedsEnded /\ ChildrenAwaited => NothingStagedIsBuilding
  <2>. SUFFICES ASSUME DriverType, ReqsAreRows, NeedsEnded, ChildrenAwaited,
                       NEW x \in Procs, NEW y \in Procs,
                       proc[x].pc = "stage", proc[y].pc \in Running,
                       proc[y].key \in proc[x].toStage
                PROVE  FALSE
    BY DEF NothingStagedIsBuilding
  <2>1. proc[x].pc \in Running
    BY DEF Running
  <2>2. proc[x].key \in kids /\ proc[y].key \in kids /\ phase = "chunk"
    BY <2>1 DEF ChildrenAwaited
  <2>3. <<proc[x].key, proc[y].key>> \in PlannedNeeds(goal)
    BY <2>1, <2>2 DEF DriverType, ReqsAreRows, PlannedNeeds
  <2>. QED
    BY <2>2, <2>3 DEF DriverType, NeedsEnded, Waiting
<1>. QED
  BY <1>1, <1>2, <1>3, <1>4, <1>5, <1>6, <1>7, RunsAreBuilds, BuildTypeCorrect, PTL DEF Spec
=============================================================================
