-------------------------- MODULE TopoWavesProofs --------------------------
(***************************************************************************)
(* What TLAPS proves about TopoWaves for every catalog, every list of      *)
(* targets and any number of commits by other processes.                   *)
(***************************************************************************)
EXTENDS TopoWaves, FiniteSetTheorems, TLAPS

\* The words of one build_requires that enter the graph are finitely many,
\* and edges of that package: `ds.len()` is a number.
LEMMA WordsType ==
  ASSUME PlanAssumption, TypeOK, NEW k \in Names
  PROVE  /\ Words(k) \subseteq Names \X Nat \X Names /\ IsFiniteSet(Words(k))
         /\ \A e \in Words(k) : e[1] = k /\ e[3] \in keys
<1>. DEFINE list == catalog.reqs[k]
            f == [i \in KeyWords(k) |-> <<k, i, list[i]>>]
<1>1. list \in Seq(Names)
  BY DEF TypeOK, Catalog
<1>2. KeyWords(k) \subseteq 1..Len(list)
  BY <1>1 DEF KeyWords
<1>3. IsFiniteSet(KeyWords(k))
  <2>1. IsFiniteSet(1..Len(list))
    BY <1>1, FS_Interval
  <2>. QED
    BY <1>2, <2>1, FS_Subset
<1>4. f \in Surjection(KeyWords(k), Words(k))
  BY DEF Surjection, Words
<1>5. IsFiniteSet(Words(k))
  BY <1>3, <1>4, FS_Surjection
<1>. QED
  BY <1>1, <1>2, <1>5 DEF Words, KeyWords

\* The copies of a name on a command line or in a build_requires: a number.
LEMMA CopiesType ==
  ASSUME NEW list \in Seq(Names), NEW d
  PROVE  Copies(list, d) \in Nat
<1>1. {i \in DOMAIN list : list[i] = d} \subseteq 1..Len(list)
  OBVIOUS
<1>2. IsFiniteSet(1..Len(list))
  BY FS_Interval
<1>3. IsFiniteSet({i \in DOMAIN list : list[i] = d})
  BY <1>1, <1>2, FS_Subset
<1>. QED
  BY <1>3, FS_CardinalityType DEF Copies

\* The needs of a package on one processed package: a number.
LEMMA MetType ==
  ASSUME TypeOK, NEW k, NEW p
  PROVE  Met(k, p) \in Nat
<1>1. {e \in edges : e[1] = p /\ e[3] = k} \in SUBSET edges
  OBVIOUS
<1>. QED
  BY <1>1, FS_Subset, FS_CardinalityType DEF Met, TypeOK

-----------------------------------------------------------------------------
\* Every variable keeps its type, and the graph stays finite.
THEOREM TypeCorrect == Spec => []TypeOK
<1>1. Init => TypeOK
  <2>. SUFFICES ASSUME Init PROVE TypeOK
    OBVIOUS
  <2>1. \A d \in Names : Copies(targets, d) \in Nat
    BY CopiesType, PlanAssumption DEF Init
  <2>. QED
    BY <2>1, PlanAssumption, FS_EmptySet DEF Init, TypeOK, Phases
<1>2. TypeOK /\ [Next]_vars => TypeOK'
  <2>. SUFFICES ASSUME TypeOK, [Next]_vars PROVE TypeOK'
    OBVIOUS
  <2>. USE DEF Phases, Final
  <2>1. CASE AllEnabled
    BY <2>1 DEF AllEnabled, TypeOK, Catalog
  <2>2. ASSUME NEW k \in Names, Pop(k) PROVE TypeOK'
    <3>1. \A d \in Names : Copies(catalog.reqs[k], d) \in Nat
      BY CopiesType DEF TypeOK, Catalog
    <3>2. stack \in [Names -> Nat] /\ stack[k] - 1 \in Nat
      BY <2>2 DEF Pop, OnStack, TypeOK
    <3>3. stack' \in [Names -> Nat]
      <4>1. CASE k \in keys
        BY <2>2, <3>2, <4>1 DEF Pop
      <4>2. CASE k \notin keys /\ k \notin catalog.versioned
        BY <2>2, <3>2, <4>2 DEF Pop
      <4>3. CASE k \notin keys /\ k \in catalog.versioned
        <5>1. \A d \in Names : stack[d] + Copies(catalog.reqs[k], d) \in Nat
          BY <3>1, <3>2
        <5>. QED
          BY <2>2, <3>2, <4>3, <5>1 DEF Pop, Pushed
      <4>. QED
        BY <4>1, <4>2, <4>3
    <3>4. heard' \in [Names -> SUBSET Names]
      <4>1. Range(catalog.reqs[k]) \in SUBSET Names
        BY DEF TypeOK, Catalog, Range
      <4>. QED
        BY <2>2, <4>1 DEF Pop, TypeOK
    <3>. QED
      BY <2>2, <3>3, <3>4 DEF Pop, OnStack, TypeOK
  <2>3. CASE ClosureDone
    BY <2>3 DEF ClosureDone, TypeOK
  <2>4. ASSUME NEW k \in Names, ReadRequires(k) PROVE TypeOK'
    <3>1. /\ Words(k) \subseteq Names \X Nat \X Names
          /\ IsFiniteSet(Words(k)) /\ Cardinality(Words(k)) \in Int
      BY WordsType, PlanAssumption, FS_CardinalityType
    <3>2. IsFiniteSet(edges \cup Words(k))
      BY <3>1, FS_Union DEF TypeOK
    <3>. QED
      BY <2>4, <3>1, <3>2 DEF ReadRequires, InDegree, TypeOK
  <2>5. CASE GraphDone
    BY <2>5 DEF GraphDone, TypeOK
  <2>6. CASE BeginWave
    <3>1. Cardinality(cur) \in Nat
      BY PlanAssumption, FS_Subset, FS_CardinalityType DEF TypeOK
    <3>2. waves' \in Seq(SUBSET Names)
      BY <2>6 DEF BeginWave, TypeOK
    <3>3. done' \in Nat
      BY <2>6, <3>1 DEF BeginWave, TypeOK
    <3>. QED
      BY <2>6, <3>2, <3>3 DEF BeginWave, TypeOK
  <2>7. ASSUME NEW k \in Names, Visit(k) PROVE TypeOK'
    <3>1. \A p \in Names : Met(k, p) \in Nat
      BY MetType
    <3>2. Reached(k) \subseteq Names
      BY DEF Reached, TypeOK
    <3>. QED
      BY <2>7, <3>1, <3>2 DEF Visit, TypeOK
  <2>8. CASE EndWave
    BY <2>8 DEF EndWave, TypeOK
  <2>9. CASE Finish
    BY <2>9 DEF Finish, Planned, TypeOK
  <2>10. CASE Edit
    <3>1. PICK k \in Names : \/ catalog' = Toggled(k)
                            \/ catalog' = Dropped(k)
                            \/ \E list \in NewReqs : catalog' = Rewritten(k, list)
      BY <2>10 DEF Edit
    <3>2. catalog' \in Catalog
      <4>. /\ catalog \in Catalog
           /\ catalog.enabled \subseteq Names /\ catalog.versioned \subseteq Names
           /\ catalog.reqs \in [Names -> Seq(Names)]
        BY DEF TypeOK, Catalog
      <4>1. CASE catalog' = Toggled(k)
        <5>1. (IF k \in catalog.enabled THEN catalog.enabled \ {k}
                 ELSE catalog.enabled \cup {k}) \in SUBSET Names
          OBVIOUS
        <5>. QED
          BY <4>1, <5>1 DEF Catalog, Toggled
      <4>2. CASE catalog' = Dropped(k)
        <5>1. catalog.versioned \ {k} \in SUBSET Names
          OBVIOUS
        <5>. QED
          BY <4>2, <5>1 DEF Catalog, Dropped
      <4>3. ASSUME NEW list \in NewReqs, catalog' = Rewritten(k, list)
            PROVE  catalog' \in Catalog
        <5>1. catalog.versioned \cup {k} \in SUBSET Names
          OBVIOUS
        <5>2. [catalog.reqs EXCEPT ![k] = list] \in [Names -> Seq(Names)]
          BY PlanAssumption
        <5>. QED
          BY <4>3, <5>1, <5>2 DEF Catalog, Rewritten
      <4>. QED
        BY <3>1, <4>1, <4>2, <4>3
    <3>3. edits' \in 0..MaxEdits
      <4>1. edits < MaxEdits /\ edits' = edits + 1
        BY <2>10 DEF Edit
      <4>2. edits \in 0..MaxEdits /\ MaxEdits \in Nat
        BY PlanAssumption DEF TypeOK
      <4>. QED
        BY <4>1, <4>2
    <3>4. UNCHANGED <<targets, phase, stack, keys, heard, unread, edges, indeg, waves, cur, next, done>>
      BY <2>10 DEF Edit
    <3>. QED
      BY <3>2, <3>3, <3>4 DEF TypeOK
  <2>11. CASE UNCHANGED vars
    BY <2>11 DEF vars, TypeOK
  <2>. QED
    BY <2>1, <2>2, <2>3, <2>4, <2>5, <2>6, <2>7, <2>8, <2>9, <2>10, <2>11
    DEF Next, Plan
<1>. QED
  BY <1>1, <1>2, PTL DEF Spec

-----------------------------------------------------------------------------
\* The unmet needs of a package can be counted, and the count is 0 when none
\* is left: `*e == 0` decides that a package is ready.
LEMMA UnmetCount ==
  ASSUME TypeOK, NEW p
  PROVE  /\ IsFiniteSet(Unmet(p)) /\ Cardinality(Unmet(p)) \in Nat
         /\ Cardinality(Unmet(p)) = 0 <=> Unmet(p) = {}
<1>1. Unmet(p) \in SUBSET edges
  BY DEF Unmet
<1>. QED
  BY <1>1, FS_Subset, FS_CardinalityType, FS_EmptySet DEF TypeOK

\* Pushing a wave adds its packages to the plan and nothing else.
LEMMA MembersAppend ==
  ASSUME NEW w \in Seq(SUBSET Names), NEW S \in SUBSET Names
  PROVE  Members(Append(w, S)) = Members(w) \cup S
<1>1. DOMAIN Append(w, S) = DOMAIN w \cup {Len(w) + 1}
  OBVIOUS
<1>2. \A n \in DOMAIN w : Append(w, S)[n] = w[n]
  OBVIOUS
<1>3. Append(w, S)[Len(w) + 1] = S
  OBVIOUS
<1>. QED
  BY <1>1, <1>2, <1>3 DEF Members

\* A plan without waves has no members.
LEMMA MembersEmpty == Members(<<>>) = {}
BY DEF Members

\* The plan holds finitely many packages.
LEMMA MembersFinite ==
  ASSUME PlanAssumption, TypeOK
  PROVE  Members(waves) \subseteq Names /\ IsFiniteSet(Members(waves))
<1>1. Members(waves) \subseteq Names
  BY DEF TypeOK, Members
<1>. QED
  BY <1>1, PlanAssumption, FS_Subset

\* Before the graph is read no need is known and no wave is made.
LEMMA EarlySteps ==
  ASSUME PlanAssumption, TypeOK, LoopInv,
         AllEnabled \/ ClosureDone \/ \E k \in Names : Pop(k)
  PROVE  LoopInv'
<1>1. /\ edges = {} /\ edges' = {} /\ waves = <<>> /\ waves' = <<>>
      /\ cur' = cur /\ indeg' = indeg /\ done' = done
      /\ phase \in {"enabled", "closure"} /\ phase' \in {"closure", "graph", "noversion"}
  BY DEF AllEnabled, ClosureDone, Pop, LoopInv, EarlyPhases
<1>2. \A p : Unmet(p) = {} /\ Unmet(p)' = {}
  BY <1>1 DEF Unmet
<1>3. Scope'
  BY <1>1, MembersEmpty DEF AllEnabled, ClosureDone, Pop, LoopInv, Scope, EarlyPhases
<1>4. EarlyPhases'
  BY <1>1 DEF AllEnabled, ClosureDone, Pop, LoopInv, EarlyPhases
<1>5. Counts'
  BY <1>1, <1>2 DEF LoopInv, Counts
<1>6. Frontier' /\ Outcome' /\ WavesOrdered'
  BY <1>1, MembersEmpty DEF Frontier, Outcome, WavesOrdered, NoRepeats, NeedsEarlier
<1>. QED
  BY <1>3, <1>4, <1>5, <1>6 DEF LoopInv

\* Reading one build_requires gives the package its count and no other.
LEMMA ReadStep ==
  ASSUME PlanAssumption, TypeOK, LoopInv, NEW k \in Names, ReadRequires(k)
  PROVE  LoopInv'
<1>1. /\ waves = <<>> /\ waves' = <<>> /\ done' = done /\ keys' = keys /\ cur' = cur
      /\ phase = "graph" /\ phase' \in {"graph", "noversion"} /\ k \in unread
  BY DEF ReadRequires, LoopInv, EarlyPhases
<1>2. Processed = {} /\ Processed' = {}
  BY <1>1, MembersEmpty DEF Processed
<1>3. CASE phase' = "noversion"
  <2>1. edges' = edges /\ indeg' = indeg /\ unread' = unread
    BY <1>1, <1>3 DEF ReadRequires
  <2>2. \A p : Unmet(p)' = Unmet(p)
    BY <1>2, <2>1 DEF Unmet
  <2>3. Scope' /\ EarlyPhases' /\ Counts'
    BY <1>1, <1>3, <2>1, <2>2 DEF LoopInv, Scope, EarlyPhases, Counts
  <2>4. Frontier' /\ Outcome' /\ WavesOrdered'
    BY <1>1, <1>3, MembersEmpty
    DEF Frontier, Outcome, WavesOrdered, NoRepeats, NeedsEarlier
  <2>. QED
    BY <2>3, <2>4 DEF LoopInv
<1>4. CASE phase' = "graph"
  <2>1. /\ edges' = edges \cup Words(k) /\ unread' = unread \ {k}
        /\ indeg' = [indeg EXCEPT ![k] = Cardinality(Words(k))]
    BY <1>1, <1>4 DEF ReadRequires, InDegree
  <2>2. \A e \in Words(k) : e[1] = k /\ e[3] \in keys
    BY WordsType
  <2>3. k \in keys /\ \A e \in edges : e[1] # k
    BY <1>1 DEF LoopInv, EarlyPhases, Scope
  <2>4. Unmet(k)' = Words(k) /\ \A p \in Names \ {k} : Unmet(p)' = Unmet(p)
    BY <1>2, <2>1, <2>2, <2>3 DEF Unmet
  <2>5. Scope' /\ EarlyPhases'
    BY <1>1, <1>4, <2>1, <2>2, <2>3 DEF LoopInv, Scope, EarlyPhases
  <2>6. Counts'
    BY <1>1, <2>1, <2>4 DEF LoopInv, Counts, TypeOK
  <2>7. Frontier' /\ Outcome' /\ WavesOrdered'
    BY <1>1, <1>4, MembersEmpty
    DEF Frontier, Outcome, WavesOrdered, NoRepeats, NeedsEarlier
  <2>. QED
    BY <2>5, <2>6, <2>7 DEF LoopInv
<1>. QED
  BY <1>1, <1>3, <1>4

\* The first wave: the packages whose count is 0.
LEMMA GraphDoneStep ==
  ASSUME PlanAssumption, TypeOK, LoopInv, GraphDone
  PROVE  LoopInv'
<1>1. /\ waves = <<>> /\ waves' = <<>> /\ phase = "graph" /\ phase' = "head"
      /\ edges' = edges /\ keys' = keys /\ unread' = unread /\ indeg' = indeg
      /\ done' = done /\ cur' = {k \in keys : indeg[k] = 0}
  BY DEF GraphDone, LoopInv, EarlyPhases
<1>2. Members(waves) = {} /\ Members(waves)' = {} /\ Processed = {} /\ Processed' = {}
  BY <1>1, MembersEmpty DEF Processed
<1>3. \A p : Unmet(p)' = Unmet(p)
  BY <1>1, <1>2 DEF Unmet
<1>4. Scope' /\ EarlyPhases' /\ Counts'
  BY <1>1, <1>2, <1>3 DEF LoopInv, Scope, EarlyPhases, Counts
<1>5. cur' = Ready'
  <2>1. \A p \in keys : indeg[p] = 0 <=> Unmet(p) = {}
    BY UnmetCount DEF LoopInv, Counts, TypeOK
  <2>. QED
    BY <1>1, <1>2, <1>3, <2>1 DEF Ready
<1>6. Frontier' /\ Outcome'
  BY <1>1, <1>2, <1>5 DEF Frontier, Outcome
<1>7. WavesOrdered'
  BY <1>1 DEF WavesOrdered, NoRepeats, NeedsEarlier
<1>. QED
  BY <1>4, <1>5, <1>6, <1>7 DEF LoopInv

\* A wave holds packages no earlier wave holds, with all their needs met.
LEMMA BeginWaveStep ==
  ASSUME PlanAssumption, TypeOK, LoopInv, BeginWave
  PROVE  LoopInv'
<1>1. /\ phase = "head" /\ phase' = "visit" /\ cur # {} /\ cur' = cur /\ next' = {}
      /\ waves' = Append(waves, cur) /\ done' = done + Cardinality(cur)
      /\ keys' = keys /\ unread' = unread /\ edges' = edges /\ indeg' = indeg
  BY DEF BeginWave
<1>2. cur = Ready /\ cur \subseteq keys /\ cur \cap Members(waves) = {}
  BY <1>1 DEF LoopInv, Frontier, Ready
<1>3. Members(waves)' = Members(waves) \cup cur
  BY <1>1, MembersAppend DEF TypeOK
<1>4. Processed = Members(waves) /\ Processed' = Members(waves)
  BY <1>1, <1>2, <1>3 DEF Processed
<1>5. \A p : Unmet(p)' = Unmet(p)
  BY <1>1, <1>4 DEF Unmet
<1>6. Scope' /\ EarlyPhases'
  BY <1>1, <1>2, <1>3 DEF LoopInv, Scope, EarlyPhases
<1>7. Counts'
  <2>1. /\ IsFiniteSet(cur) /\ IsFiniteSet(Members(waves))
        /\ Cardinality(cur \cap Members(waves)) = 0
    BY <1>2, MembersFinite, PlanAssumption, FS_Subset, FS_EmptySet DEF TypeOK
  <2>2. Cardinality(Members(waves) \cup cur) = Cardinality(Members(waves)) + Cardinality(cur)
    <3>1. Members(waves) \cap cur = {}
      BY <1>2
    <3>2. /\ Cardinality(Members(waves)) \in Nat /\ Cardinality(cur) \in Nat
          /\ Cardinality(Members(waves) \cap cur) = 0
      BY <2>1, <3>1, FS_CardinalityType, FS_EmptySet
    <3>3. Cardinality(Members(waves) \cup cur) =
            Cardinality(Members(waves)) + Cardinality(cur) - Cardinality(Members(waves) \cap cur)
      BY <2>1, FS_Union
    <3>. QED
      BY <3>2, <3>3
  <2>. QED
    BY <1>1, <1>3, <1>5, <2>2 DEF LoopInv, Counts
<1>8. Frontier'
  <2>1. \A p \in Members(waves) \cup cur : Unmet(p) = {}
    BY <1>2 DEF LoopInv, Frontier, Ready
  <2>2. Ready' = {}
    BY <1>1, <1>2, <1>3, <1>5 DEF Ready
  <2>. QED
    BY <1>1, <1>3, <1>5, <2>1, <2>2 DEF Frontier
<1>9. WavesOrdered'
  <2>1. waves \in Seq(SUBSET Names) /\ cur \in SUBSET Names
    BY DEF TypeOK
  <2>2. /\ DOMAIN waves' = DOMAIN waves \cup {Len(waves) + 1}
        /\ \A n \in DOMAIN waves : waves'[n] = waves[n]
        /\ waves'[Len(waves) + 1] = cur
        /\ DOMAIN waves = 1..Len(waves) /\ Len(waves) \in Nat
    BY <1>1, <2>1
  <2>3. \A n \in DOMAIN waves : waves[n] \cap cur = {}
    BY <1>2 DEF Members
  <2>4. NoRepeats(waves')
    BY <2>2, <2>3 DEF LoopInv, WavesOrdered, NoRepeats
  <2>5. ASSUME NEW p \in cur, NEW e \in Needs, e[1] = p
        PROVE  \E m \in 1..Len(waves) : e[2] \in waves'[m]
    <3>1. PICK x \in edges : e = <<x[1], x[3]>>
      BY <2>5 DEF Needs
    <3>2. x[3] \in Members(waves)
      BY <1>2, <1>4, <2>5, <3>1 DEF Ready, Unmet
    <3>. QED
      BY <2>2, <3>1, <3>2 DEF Members
  <2>6. NeedsEarlier(waves', Needs)
    <3>1. ASSUME NEW n \in DOMAIN waves, NEW p \in waves'[n], NEW e \in Needs, e[1] = p
          PROVE  \E m \in 1..(n - 1) : e[2] \in waves'[m]
      <4>1. PICK m \in 1..(n - 1) : e[2] \in waves[m]
        BY <2>2, <3>1 DEF LoopInv, WavesOrdered, NeedsEarlier
      <4>. QED
        BY <2>2, <4>1
    <3>2. \A n \in DOMAIN waves' : \A p : p \in waves'[n] =>
            \A e \in Needs : e[1] = p => \E m \in 1..(n - 1) : e[2] \in waves'[m]
      <4>. TAKE n \in DOMAIN waves'
      <4>. TAKE p
      <4>. HAVE p \in waves'[n]
      <4>1. CASE n \in DOMAIN waves
        BY <3>1, <4>1
      <4>2. CASE n = Len(waves) + 1
        BY <2>2, <2>5, <4>2
      <4>. QED
        BY <2>2, <4>1, <4>2
    <3>. QED
      BY <3>2 DEF NeedsEarlier
  <2>. QED
    BY <1>1, <2>4, <2>6 DEF WavesOrdered, Needs
<1>10. Outcome'
  BY <1>1 DEF Outcome
<1>. QED
  BY <1>6, <1>7, <1>8, <1>9, <1>10 DEF LoopInv

\* Visiting k meets the needs on k, and nobody's twice: `*e -= 1` takes as
\* many needs away as there are words that name k.
LEMMA VisitStep ==
  ASSUME PlanAssumption, TypeOK, LoopInv, NEW k \in Names, Visit(k)
  PROVE  LoopInv'
<1>. DEFINE On(p) == {e \in edges : e[1] = p /\ e[3] = k}
<1>1. /\ phase = "visit" /\ phase' = "visit" /\ k \in cur /\ cur' = cur \ {k}
      /\ waves' = waves /\ done' = done
      /\ keys' = keys /\ unread' = unread /\ edges' = edges
      /\ indeg' = [p \in Names |-> indeg[p] - Met(k, p)]
      /\ next' = next \cup {p \in keys : Met(k, p) > 0 /\ indeg'[p] = 0}
  BY DEF Visit, Reached, TypeOK
<1>2. /\ next = Ready /\ cur \subseteq Members(waves) /\ Members(waves)' = Members(waves)
      /\ Processed = Members(waves) \ cur /\ Processed' = (Members(waves) \ cur) \cup {k}
  BY <1>1 DEF LoopInv, Frontier, Processed
<1>3. \A p : On(p) \subseteq Unmet(p) /\ Unmet(p)' = Unmet(p) \ On(p)
  BY <1>1, <1>2 DEF Unmet
<1>4. ASSUME NEW p
      PROVE  /\ Met(k, p) \in Nat
             /\ Met(k, p) > 0 <=> On(p) # {}
             /\ Cardinality(Unmet(p)') = Cardinality(Unmet(p)) - Met(k, p)
  <2>1. IsFiniteSet(Unmet(p)) /\ IsFiniteSet(On(p))
    BY <1>3, UnmetCount, FS_Subset
  <2>2. Unmet(p) \cap On(p) = On(p)
    BY <1>3
  <2>3. Met(k, p) = Cardinality(On(p))
    BY DEF Met
  <2>4. Cardinality(Unmet(p) \ On(p)) = Cardinality(Unmet(p)) - Cardinality(On(p))
    BY <2>1, <2>2, FS_Difference
  <2>5. Cardinality(On(p)) \in Nat /\ (Cardinality(On(p)) = 0 <=> On(p) = {})
    BY <2>1, FS_CardinalityType, FS_EmptySet
  <2>6. Unmet(p)' = Unmet(p) \ On(p)
    BY <1>3
  <2>7. Met(k, p) \in Nat /\ (Met(k, p) > 0 <=> On(p) # {})
    BY <2>3, <2>5
  <2>8. Cardinality(Unmet(p)') = Cardinality(Unmet(p)) - Met(k, p)
    BY <2>3, <2>4, <2>6
  <2>. QED
    BY <2>7, <2>8
<1>5. Scope' /\ EarlyPhases'
  BY <1>1, <1>2 DEF LoopInv, Scope, EarlyPhases
<1>6. Counts'
  BY <1>1, <1>2, <1>4 DEF LoopInv, Counts
<1>7. Frontier'
  <2>1. \A p \in Members(waves) : Unmet(p) = {} /\ Unmet(p)' = {} /\ On(p) = {}
    BY <1>3 DEF LoopInv, Frontier
  <2>2. \A p \in keys : indeg'[p] = 0 <=> Unmet(p)' = {}
    <3>1. \A p \in keys : indeg'[p] = Cardinality(Unmet(p)')
      BY <1>6, <1>1 DEF Counts, TypeOK
    <3>2. \A p : IsFiniteSet(Unmet(p)')
      BY <1>3, UnmetCount, FS_Subset
    <3>. QED
      BY <3>1, <3>2, FS_EmptySet
  <2>3. next' = Ready'
    BY <1>1, <1>2, <1>3, <1>4, <2>1, <2>2 DEF Ready
  <2>. QED
    BY <1>1, <1>2, <2>1, <2>3 DEF Frontier
<1>8. Outcome' /\ WavesOrdered'
  BY <1>1 DEF LoopInv, Outcome, WavesOrdered, NoRepeats, NeedsEarlier, Needs
<1>. QED
  BY <1>5, <1>6, <1>7, <1>8 DEF LoopInv

\* Between two waves, and at the end, every visited package is processed.
LEMMA EndSteps ==
  ASSUME PlanAssumption, TypeOK, LoopInv, EndWave \/ Finish
  PROVE  LoopInv'
<1>1. /\ keys' = keys /\ unread' = unread /\ edges' = edges /\ indeg' = indeg
      /\ waves' = waves /\ done' = done /\ cur = {}
      /\ phase \in {"visit", "head"} /\ phase' \in {"head", "cycle", "planned"}
  BY DEF EndWave, Finish
<1>2. Processed' = Members(waves) /\ Processed = Members(waves)
  BY <1>1 DEF Processed
<1>3. \A p : Unmet(p)' = Unmet(p)
  BY <1>1, <1>2 DEF Unmet
<1>4. cur' = Ready'
  BY <1>1, <1>3 DEF EndWave, Finish, LoopInv, Frontier, Ready
<1>5. Scope' /\ EarlyPhases' /\ Counts' /\ Frontier'
  BY <1>1, <1>3, <1>4 DEF LoopInv, Scope, EarlyPhases, Counts, Frontier
<1>6. Outcome'
  <2>1. Members(waves) \in SUBSET keys /\ IsFiniteSet(keys)
    BY PlanAssumption, FS_Subset DEF TypeOK, LoopInv, Scope
  <2>2. Cardinality(keys) = Cardinality(Members(waves)) <=> keys = Members(waves)
    BY <2>1, FS_Subset
  <2>. QED
    BY <1>1, <2>2 DEF EndWave, Finish, Planned, LoopInv, Counts, Outcome
<1>7. WavesOrdered'
  BY <1>1 DEF LoopInv, WavesOrdered, NoRepeats, NeedsEarlier, Needs
<1>. QED
  BY <1>5, <1>6, <1>7 DEF LoopInv

\* The invariant of the wave loop, through every edit another process makes.
THEOREM LoopInvariant == Spec => []LoopInv
<1>1. Init => LoopInv
  <2>. SUFFICES ASSUME Init PROVE LoopInv
    OBVIOUS
  <2>1. /\ edges = {} /\ cur = {} /\ unread = {} /\ waves = <<>> /\ done = 0
        /\ phase \in {"enabled", "closure"} /\ \A p \in Names : indeg[p] = 0
    BY DEF Init
  <2>2. \A p : Unmet(p) = {}
    BY <2>1 DEF Unmet
  <2>3. Members(waves) = {} /\ Cardinality({}) = 0
    BY <2>1, MembersEmpty, FS_EmptySet
  <2>4. Scope /\ EarlyPhases /\ Outcome
    BY <2>1, <2>3 DEF Scope, EarlyPhases, Outcome
  <2>5. Counts /\ Frontier
    BY <2>1, <2>2, <2>3 DEF Counts, Frontier
  <2>6. WavesOrdered
    BY <2>1 DEF WavesOrdered, NoRepeats, NeedsEarlier
  <2>. QED
    BY <2>4, <2>5, <2>6 DEF LoopInv
<1>2. TypeOK /\ LoopInv /\ [Next]_vars => LoopInv'
  <2>. SUFFICES ASSUME TypeOK, LoopInv, [Next]_vars PROVE LoopInv'
    OBVIOUS
  <2>1. CASE Edit \/ UNCHANGED vars
    <3>1. UNCHANGED <<phase, keys, unread, edges, indeg, waves, cur, next, done>>
      BY <2>1 DEF Edit, vars
    <3>2. /\ Members(waves)' = Members(waves) /\ Ready' = Ready /\ Needs' = Needs
          /\ \A p : Unmet(p)' = Unmet(p)
      BY <3>1 DEF Unmet, Processed, Ready, Needs
    <3>3. Scope' /\ EarlyPhases' /\ Counts' /\ Frontier' /\ Outcome'
      BY <3>1, <3>2 DEF LoopInv, Scope, EarlyPhases, Counts, Frontier, Outcome
    <3>4. WavesOrdered'
      BY <3>1, <3>2 DEF LoopInv, WavesOrdered, NoRepeats, NeedsEarlier
    <3>. QED
      BY <3>3, <3>4 DEF LoopInv
  <2>. QED
    BY <2>1, PlanAssumption, EarlySteps, ReadStep, GraphDoneStep, BeginWaveStep,
      VisitStep, EndSteps DEF Next, Plan
<1>. QED
  BY <1>1, <1>2, TypeCorrect, PTL DEF Spec

-----------------------------------------------------------------------------
\* No package is planned twice, and every need the graph holds is planned in
\* a strictly earlier wave: the comment above topo_waves.
THEOREM WavesInOrder == Spec => []WavesOrdered
<1>1. LoopInv => WavesOrdered
  BY DEF LoopInv
<1>. QED
  BY <1>1, LoopInvariant, PTL

\* The usize counters of topo_waves never wrap, repeated words included.
THEOREM NeverUnderflows == Spec => []NoUnderflow
<1>1. TypeOK /\ LoopInv => NoUnderflow
  BY UnmetCount DEF LoopInv, Counts, NoUnderflow
<1>. QED
  BY <1>1, TypeCorrect, LoopInvariant, PTL

\* A plan that is returned is a valid plan of all the keys.
THEOREM PlansAreValid == Spec => []PlanComplete
<1>1. LoopInv => PlanComplete
  BY DEF LoopInv, Outcome, WavesOrdered, PlanComplete, ValidPlan
<1>. QED
  BY <1>1, LoopInvariant, PTL

\* The dependency-cycle error is never wrong: the packages it names wait for
\* one another.
THEOREM CyclesAreReal == Spec => []CycleIsReal
<1>1. TypeOK /\ LoopInv => CycleIsReal
  <2>. SUFFICES ASSUME TypeOK, LoopInv, phase = "cycle"
                PROVE  Deadlocked({k \in keys : indeg[k] > 0}, Needs)
    BY DEF CycleIsReal
  <2>1. \A p \in keys : indeg[p] > 0 <=> Unmet(p) # {}
    <3>1. \A p \in keys : indeg[p] = Cardinality(Unmet(p))
      BY DEF LoopInv, Counts, TypeOK
    <3>. QED
      BY <3>1, UnmetCount
  <2>2. \A p \in keys \ Members(waves) : Unmet(p) # {}
    BY DEF LoopInv, Frontier, Outcome, Ready
  <2>3. \E p \in keys : indeg[p] > 0
    BY <2>1, <2>2 DEF LoopInv, Scope, Outcome
  <2>4. ASSUME NEW p \in keys, indeg[p] > 0
        PROVE  \E d \in keys : indeg[d] > 0 /\ <<p, d>> \in Needs
    <3>1. PICK e \in edges : e[1] = p /\ e[3] \notin Members(waves)
      BY <2>1, <2>4 DEF Unmet, Processed
    <3>2. e[3] \in keys /\ indeg[e[3]] > 0
      BY <2>1, <2>2, <3>1 DEF LoopInv, Scope
    <3>. QED
      BY <3>1, <3>2 DEF Needs
  <2>. QED
    BY <2>3, <2>4 DEF Deadlocked
<1>. QED
  BY <1>1, TypeCorrect, LoopInvariant, PTL
-----------------------------------------------------------------------------
\* A name has a copy in a list exactly if the list holds it.
LEMMA CopiesPositive ==
  ASSUME NEW list \in Seq(Names), NEW d
  PROVE  Copies(list, d) > 0 <=> \E i \in DOMAIN list : list[i] = d
<1>. DEFINE C == {i \in DOMAIN list : list[i] = d}
<1>1. C \subseteq 1..Len(list)
  OBVIOUS
<1>2. IsFiniteSet(C)
  BY <1>1, FS_Interval, FS_Subset
<1>3. Cardinality(C) \in Nat /\ (Cardinality(C) = 0 <=> C = {})
  BY <1>2, FS_CardinalityType, FS_EmptySet
<1>. QED
  BY <1>3 DEF Copies

\* The command line goes on the stack whole.
LEMMA ClosureStart ==
  ASSUME PlanAssumption, Init
  PROVE  ClosureInv
<1>1. targets \in Seq(Names) /\ keys = {} /\ \A k \in Names : heard[k] = {}
  BY PlanAssumption DEF Init
<1>2. \A d \in Names : d \in Pending <=> \E i \in DOMAIN targets : targets[i] = d
  BY <1>1, CopiesPositive DEF Init, Pending
<1>3. targets # <<>> => phase = "closure" /\ ClosureLoop
  BY <1>1, <1>2 DEF Init, ClosureLoop, HoldsTargets, Least, HeardIsCatalog, Pending
<1>. QED
  BY <1>3 DEF ClosureInv, KeysAreClosure

\* A name leaves the stack into the keys, and its words that are no keys yet
\* go on the stack: the found names grow by the words of a found name, and
\* these words are what closure has read for it.
LEMMA PopStep ==
  ASSUME PlanAssumption, TypeOK, ClosureInv, NEW k \in Names, Pop(k)
  PROVE  ClosureInv'
<1>. SUFFICES ASSUME targets # <<>>, phase' = "closure"
              PROVE  ClosureLoop'
  BY DEF ClosureInv, KeysAreClosure, Pop
<1>. DEFINE list == catalog.reqs[k]
            words == Range(list)
            found == keys \cup Pending
<1>1. /\ ClosureLoop /\ phase = "closure" /\ keys' = keys \cup {k} /\ k \in Pending
      /\ catalog' = catalog /\ targets' = targets /\ edits' = edits
      /\ stack \in [Names -> Nat] /\ heard \in [Names -> SUBSET Names]
      /\ list \in Seq(Names) /\ keys \subseteq Names
  BY DEF ClosureInv, Pop, OnStack, Pending, TypeOK, Catalog
<1>2. CASE k \in keys
  <2>1. stack' = [stack EXCEPT ![k] = @ - 1] /\ heard' = heard /\ keys' = keys
    BY <1>1, <1>2 DEF Pop
  <2>2. \A d \in Names \ {k} : stack'[d] = stack[d]
    BY <1>1, <2>1
  <2>3. (keys \cup Pending)' = found
    BY <1>1, <1>2, <2>1, <2>2 DEF Pending
  <2>. QED
    BY <1>1, <2>1, <2>3 DEF ClosureLoop, HoldsTargets, Least, ClosedUnder, HeardIsCatalog
<1>3. CASE k \notin keys
  <2>1. /\ stack' = [d \in Names |-> IF d = k THEN stack[d] - 1 ELSE stack[d] + Pushed(k, d)]
        /\ heard' = [heard EXCEPT ![k] = words]
    BY <1>3 DEF Pop
  <2>2. /\ words \subseteq Names
        /\ \A d \in Names : /\ Copies(list, d) \in Nat
                            /\ Copies(list, d) > 0 <=> d \in words
    BY <1>1, CopiesType, CopiesPositive DEF Range
  <2>3. \A d \in Names \ (keys \cup {k}) :
          stack'[d] > 0 <=> stack[d] > 0 \/ d \in words
    BY <1>1, <2>1, <2>2 DEF Pushed
  <2>4. (keys \cup Pending)' = found \cup words
    BY <1>1, <2>1, <2>2, <2>3 DEF Pending, Pushed
  <2>5. /\ heard'[k] = words /\ heard[k] = {}
        /\ \A p \in Names \ {k} : heard'[p] = heard[p]
    BY <1>1, <1>3, <2>1 DEF ClosureLoop
  <2>6. HoldsTargets(keys \cup Pending)'
    BY <1>1, <2>4 DEF ClosureLoop, HoldsTargets
  <2>7. /\ \A p \in keys' : heard'[p] \subseteq found \cup words
        /\ \A p \in Names \ keys' : heard'[p] = {}
    BY <1>1, <2>5 DEF ClosureLoop
  <2>8. HeardIsCatalog'
    BY <1>1, <2>5 DEF ClosureLoop, HeardIsCatalog
  <2>9. ASSUME NEW T \in SUBSET Names, HoldsTargets(T), \A p \in T : heard'[p] \subseteq T
        PROVE  found \cup words \subseteq T
    <3>1. ClosedUnder(T)
      BY <2>5, <2>9 DEF ClosedUnder
    <3>2. found \subseteq T
      BY <1>1, <2>9, <3>1 DEF ClosureLoop, Least
    <3>3. words \subseteq T
      BY <1>1, <2>5, <2>9, <3>2
    <3>. QED
      BY <3>2, <3>3
  <2>10. Least(keys \cup Pending)'
    BY <1>1, <2>4, <2>9 DEF Least, HoldsTargets, ClosedUnder
  <2>. QED
    BY <2>4, <2>6, <2>7, <2>8, <2>10 DEF ClosureLoop
<1>. QED
  BY <1>2, <1>3

\* The stack runs empty: what was found is the keys.
LEMMA ClosureEnds ==
  ASSUME TypeOK, ClosureInv, ClosureDone
  PROVE  ClosureInv'
<1>. SUFFICES ASSUME targets # <<>> PROVE KeysAreClosure'
  BY DEF ClosureInv, ClosureDone
<1>1. Pending = {} /\ ClosureLoop
  BY DEF Pending, ClosureInv, ClosureDone, TypeOK
<1>2. keys \cup Pending = keys
  BY <1>1
<1>3. HoldsTargets(keys) /\ ClosedUnder(keys) /\ Least(keys) /\ HeardIsCatalog
  BY <1>1, <1>2 DEF ClosureLoop, ClosedUnder
<1>. QED
  BY <1>3 DEF ClosureDone, KeysAreClosure, HoldsTargets, ClosedUnder, Least, HeardIsCatalog

\* A commit of another process changes neither what closure has read nor
\* what it has still to pop.
LEMMA EditStep ==
  ASSUME PlanAssumption, TypeOK, ClosureInv, Edit
  PROVE  ClosureInv'
<1>1. /\ UNCHANGED <<targets, phase, stack, keys, heard>>
      /\ edits' = edits + 1 /\ edits \in Nat
  BY PlanAssumption DEF Edit, TypeOK
<1>2. HeardIsCatalog'
  BY <1>1 DEF HeardIsCatalog
<1>3. ClosureLoop => ClosureLoop'
  BY <1>1, <1>2 DEF ClosureLoop, Pending, HoldsTargets, Least, ClosedUnder
<1>4. KeysAreClosure'
  BY <1>1, <1>2 DEF ClosureInv, KeysAreClosure, HoldsTargets, Least, ClosedUnder
<1>. QED
  BY <1>1, <1>3, <1>4 DEF ClosureInv

\* The invariant of closure's loop, through every commit of another process;
\* nothing after the loop adds a key or takes one away.
THEOREM ClosureInvariant == Spec => []ClosureInv
<1>1. Init => ClosureInv
  BY ClosureStart, PlanAssumption
<1>2. TypeOK /\ ClosureInv /\ [Next]_vars => ClosureInv'
  <2>. SUFFICES ASSUME TypeOK, ClosureInv, [Next]_vars PROVE ClosureInv'
    OBVIOUS
  <2>1. CASE AllEnabled
    BY <2>1 DEF AllEnabled, ClosureInv
  <2>2. CASE ClosureDone
    BY <2>2, ClosureEnds
  <2>3. CASE \E k \in Names : Pop(k)
    BY <2>3, PopStep, PlanAssumption
  <2>4. CASE Edit
    BY <2>4, EditStep, PlanAssumption
  <2>5. CASE UNCHANGED vars
    BY <2>5 DEF vars, ClosureInv, ClosureLoop, Pending, KeysAreClosure, HoldsTargets,
      ClosedUnder, Least, HeardIsCatalog
  <2>6. CASE \/ GraphDone \/ BeginWave \/ EndWave \/ Finish
             \/ \E k \in Names : ReadRequires(k) \/ Visit(k)
    <3>1. /\ UNCHANGED <<catalog, targets, edits, keys, heard>>
          /\ phase \notin {"enabled", "closure", "noversion"}
          /\ phase' \notin {"enabled", "closure"}
      BY <2>6 DEF GraphDone, BeginWave, EndWave, Finish, ReadRequires, Visit
    <3>. QED
      BY <3>1 DEF ClosureInv, KeysAreClosure, HoldsTargets, ClosedUnder, Least, HeardIsCatalog
  <2>. QED
    BY <2>1, <2>2, <2>3, <2>4, <2>5, <2>6 DEF Next, Plan
<1>. QED
  BY <1>1, <1>2, TypeCorrect, PTL DEF Spec

\* `build-all p q` plans p and q, what closure read that they need, and
\* nothing else, whatever is committed beside it.
THEOREM PlansTheClosure == Spec => []KeysAreClosure
<1>1. ClosureInv => KeysAreClosure
  BY DEF ClosureInv, KeysAreClosure
<1>. QED
  BY <1>1, ClosureInvariant, PTL
=============================================================================
