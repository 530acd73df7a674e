------------------------ MODULE BuildAllOutcomeProofs ------------------------
(***************************************************************************)
(* What TLAPS proves about a run of build-all that returns Ok: every       *)
(* package was built, signed and recorded by this run, against libraries   *)
(* that this run built, for any packages, plans, cap and number of runs.   *)
(***************************************************************************)
EXTENDS BuildAllProofs, BuildAloneProofs

-----------------------------------------------------------------------------
(* No RPM of a version that the spec file has not reached.                 *)

SpecBehind == \A k \in Pkgs : spec[k] <= newest[k]

NoneAhead ==
  /\ \A k \in Pkgs, v \in Versions, f \in Files : rpm[<<k, v, f>>].there => v <= spec[k]
  /\ \A x \in Procs : proc[x].pc = "rpmbuild" => proc[x].specver <= spec[proc[x].key]

\* The steps of a build leave the catalog and the spec files alone.
LEMMA StepKeepsSpecs ==
  ASSUME NEW x \in Procs, ProcStep(x)
  PROVE  newest' = newest /\ spec' = spec
BY DEF ProcStep, NextArch, Stage, StartRpmbuild, RpmbuildOk, RpmbuildFails, Record,
       Sign, SignSrpm, Die

\* gen_spec and ver add only move a package forward.
LEMMA OperatorAhead ==
  ASSUME BuildAssumption, BuildTypeOK, SpecBehind, NoneAhead, Operator
  PROVE  SpecBehind' /\ NoneAhead'
<1>. USE DEF BuildAssumption, Versions
<1>1. \A k \in Pkgs : newest[k] \in Int /\ spec[k] \in Int
  BY DEF BuildTypeOK
<1>2. ASSUME UNCHANGED <<rpm, proc>>, \A k \in Pkgs : spec'[k] \in Int /\ spec[k] <= spec'[k]
      PROVE  NoneAhead'
  <2>1. ASSUME NEW k \in Pkgs, NEW v \in Versions, NEW f \in Files, rpm'[<<k, v, f>>].there
        PROVE  v <= spec'[k]
    <3>1. v <= spec[k] /\ spec[k] <= spec'[k] /\ v \in Int
      BY <1>2, <2>1 DEF NoneAhead
    <3>. QED
      BY <1>1, <1>2, <3>1
  <2>2. ASSUME NEW x \in Procs, proc'[x].pc = "rpmbuild"
        PROVE  proc'[x].specver <= spec'[proc'[x].key]
    <3>1. proc[x] \in Process /\ proc'[x] = proc[x]
      BY <1>2, <2>2, ProcessFields
    <3>2. proc[x].specver <= spec[proc[x].key] /\ proc[x].specver \in Int /\ proc[x].key \in Pkgs
      BY <2>2, <3>1 DEF NoneAhead, Process
    <3>. QED
      BY <1>1, <1>2, <3>1, <3>2
  <2>. QED
    BY <2>1, <2>2 DEF NoneAhead
<1>3. ASSUME NEW k \in Pkgs, GenSpec(k) PROVE SpecBehind' /\ NoneAhead'
  <2>1. /\ spec'[k] \in {newest[k], spec[k]}
        /\ \A d \in Pkgs : d # k => spec'[d] = spec[d]
    BY <1>3 DEF GenSpec, BuildTypeOK
  <2>2. spec'[k] \in Int /\ spec[k] <= spec'[k] /\ spec'[k] <= newest[k]
    BY <1>1, <2>1 DEF SpecBehind
  <2>3. \A d \in Pkgs : spec'[d] \in Int /\ spec[d] <= spec'[d] /\ spec'[d] <= newest[d]
    BY <1>1, <2>1, <2>2 DEF SpecBehind
  <2>. QED
    BY <1>2, <1>3, <2>3 DEF GenSpec, SpecBehind
<1>4. ASSUME NEW k \in Pkgs, AddVersion(k) PROVE SpecBehind' /\ NoneAhead'
  <2>1. \A d \in Pkgs : newest[d] <= newest'[d] /\ newest'[d] \in Int
    BY <1>1, <1>4 DEF AddVersion, BuildTypeOK
  <2>2. SpecBehind'
    BY <1>1, <1>4, <2>1 DEF AddVersion, SpecBehind
  <2>. QED
    BY <1>1, <1>2, <1>4, <2>2 DEF AddVersion
<1>5. ASSUME NEW k \in Pkgs, NEW x \in Procs, NEW archs \in SUBSET Arches, Invoke(x, k, archs)
      PROVE  SpecBehind' /\ NoneAhead'
  <2>1. /\ UNCHANGED <<newest, spec, rpm>> /\ proc'[x].pc # "rpmbuild"
        /\ \A y \in Procs : y # x => proc'[y] = proc[y]
    BY <1>5 DEF Invoke, BuildTypeOK
  <2>. QED
    BY <2>1 DEF SpecBehind, NoneAhead
<1>. QED
  BY <1>3, <1>4, <1>5 DEF Operator

\* rpmbuild writes the version of the spec it was given.
LEMMA ProcStepAhead ==
  ASSUME BuildAssumption, BuildTypeOK, SpecBehind, NoneAhead, NEW x \in Procs, ProcStep(x)
  PROVE  SpecBehind' /\ NoneAhead'
<1>1. newest' = newest /\ spec' = spec
  BY StepKeepsSpecs
<1>2. /\ proc[x] \in Process /\ proc[x].pc \in Running /\ proc'[x].key = proc[x].key
      /\ \A y \in Procs : y # x => proc'[y] = proc[y]
  BY StepTouches
<1>3. spec[proc[x].key] \in Int /\ proc[x].key \in Pkgs
  BY <1>2 DEF BuildTypeOK, BuildAssumption, Process
<1>4. proc'[x].pc = "rpmbuild" => proc'[x].specver <= spec[proc[x].key]
  <2>1. ASSUME NEW pc, Goto(x, pc) PROVE proc'[x].pc = pc
    BY <1>2, <2>1 DEF Goto, BuildTypeOK, Process
  <2>2. ASSUME NEW a \in Arches, NextArch(x, a) PROVE proc'[x].pc = "stage"
    BY <1>2, <2>2 DEF NextArch, BuildTypeOK, Process
  <2>3. ASSUME NEW d \in Pkgs, Stage(x, d) PROVE proc'[x].pc \in {"stage", "fail"}
    <3>1. CASE DepRpm(x, d).there
      BY <1>2, <2>3, <3>1 DEF Stage, BuildTypeOK, Process
    <3>2. CASE ~DepRpm(x, d).there
      BY <2>1, <2>3, <3>2 DEF Stage
    <3>. QED
      BY <3>1, <3>2
  <2>4. CASE StartRpmbuild(x)
    <3>1. proc'[x].specver = spec[proc[x].key]
      BY <1>2, <2>4 DEF StartRpmbuild, BuildTypeOK, Process
    <3>. QED
      BY <1>3, <3>1
  <2>5. CASE RpmbuildOk(x) \/ RpmbuildFails(x) \/ Record(x) \/ Sign(x) \/ SignSrpm(x) \/ Die(x)
    BY <2>1, <2>5 DEF RpmbuildOk, RpmbuildFails, Record, Sign, SignSrpm, Die
  <2>. QED
    BY <2>2, <2>3, <2>4, <2>5 DEF ProcStep
<1>5. ASSUME NEW k \in Pkgs, NEW v \in Versions, NEW f \in Files, rpm'[<<k, v, f>>].there
      PROVE  v <= spec[k]
  <2>. DEFINE g == <<k, v, f>>
  <2>1. CASE rpm[g].there
    BY <2>1 DEF NoneAhead
  <2>2. CASE RpmbuildOk(x) /\ ~rpm[g].there
    <3>1. g \in DOMAIN rpm /\ proc[x].pc = "rpmbuild"
      BY <2>2 DEF BuildTypeOK, RpmbuildOk
    <3>2. g \in Written(x)
      BY <1>5, <2>2, <3>1 DEF RpmbuildOk
    <3>. QED
      BY <3>1, <3>2 DEF Written, NoneAhead
  <2>3. ASSUME NEW h, rpm' = Signed(h) PROVE rpm'[g].there = rpm[g].there
    <3>1. g \in DOMAIN rpm /\ rpm[g] \in RpmFile
      BY DEF BuildTypeOK
    <3>. QED
      BY <2>3, <3>1 DEF Signed, RpmFile, Absent
  <2>4. CASE ~RpmbuildOk(x)
    <3>1. rpm' = rpm \/ \E h : rpm' = Signed(h)
      BY <2>4 DEF ProcStep, NextArch, Stage, StartRpmbuild, RpmbuildFails, Record,
         Sign, SignSrpm, Die
    <3>. QED
      BY <1>5, <2>1, <2>3, <3>1
  <2>. QED
    BY <2>1, <2>2, <2>4
<1>. QED
  BY <1>1, <1>2, <1>4, <1>5 DEF SpecBehind, NoneAhead

\* An RPM, and what a running rpmbuild will write, is of a version the spec file
\* has reached, and the spec file of one the catalog has reached.
THEOREM NoRpmAhead == BuildSpec => [](SpecBehind /\ NoneAhead)
<1>1. BuildInit => SpecBehind /\ NoneAhead
  <2>. SUFFICES ASSUME BuildInit PROVE SpecBehind /\ NoneAhead
    OBVIOUS
  <2>1. PICK built \in SUBSET Pkgs, bumped \in SUBSET Pkgs : Tree(built, bumped)
    BY DEF BuildInit
  <2>2. \A k \in Pkgs : newest[k] \in {1, 2} /\ spec[k] \in {0, 1} /\ (k \in built => spec[k] = 1)
    BY <2>1 DEF Tree
  <2>3. \A k \in Pkgs, v \in Versions, f \in Files :
          rpm[<<k, v, f>>].there => k \in built /\ v = 1
    BY <2>1 DEF Tree, Absent
  <2>4. \A x \in Procs : proc[x].pc # "rpmbuild"
    BY DEF BuildInit, Idle
  <2>. QED
    BY <2>2, <2>3, <2>4 DEF SpecBehind, NoneAhead
<1>2. BuildTypeOK /\ SpecBehind /\ NoneAhead /\ [BuildNext]_buildVars
        => (SpecBehind /\ NoneAhead)'
  BY BuildAssumption, OperatorAhead, ProcStepAhead DEF BuildNext, buildVars, SpecBehind, NoneAhead
<1>. QED
  BY <1>1, <1>2, BuildTypeCorrect, PTL DEF BuildSpec

-----------------------------------------------------------------------------
(* What one build has made, if nobody else builds its package meanwhile.   *)

Alive(x) == proc[x].pc \in Running \cup {"ok"}
AtArch == {"stage", "rpmbuild", "record", "sign"}

\* A build that is not given up builds the spec it found, for an arch.
Given(x) ==
  /\ proc[x].arches # {}
  /\ spec[proc[x].key] <= proc[x].ver /\ proc[x].ver <= newest[proc[x].key]
  /\ proc[x].pc \in AtArch => proc[x].arch \in Arches
  /\ proc[x].pc \in {"rpmbuild", "record", "sign"} => proc[x].specver = spec[proc[x].key]
  /\ proc[x].pc = "ok" => proc[x].left = {}

Made(x, f, s) == rpm[Of(x, f)] = Rpm(x, s)
RecordedOk(x, a) == results[Of(x, a)] = "ok"

\* If the spec is of the version that is built: a signed RPM and an "ok" for
\* every arch it has left behind, and an SRPM that is signed at the end.
Built(x) ==
  /\ \A a \in proc[x].arches \ proc[x].left :
       \/ Made(x, a, TRUE) /\ RecordedOk(x, a)
       \/ a = proc[x].arch /\ proc[x].pc \in AtArch
  /\ proc[x].pc \in {"record", "sign"} => Made(x, proc[x].arch, FALSE)
  /\ proc[x].pc = "sign" => RecordedOk(x, proc[x].arch)
  /\ proc[x].pc \in {"record", "sign"} \/ (proc[x].pc = "next" /\ proc[x].left # proc[x].arches)
       => Made(x, Src, FALSE)
  /\ proc[x].pc = "ok" => Made(x, Src, TRUE)

BuiltIfCurrent(x) == proc[x].ver = spec[proc[x].key] => Built(x)

\* `rpm --addsign` changes the signature and nothing else.
LEMMA SignedRpm ==
  ASSUME NEW x
  PROVE  [Rpm(x, FALSE) EXCEPT !.signed = TRUE] = Rpm(x, TRUE)
<1>. DEFINE r == [Rpm(x, FALSE) EXCEPT !.signed = TRUE]
            Fields == [there : BOOLEAN, by : {x}, signed : BOOLEAN]
<1>1. Rpm(x, FALSE) \in Fields /\ Rpm(x, TRUE) \in Fields
  BY DEF Rpm
<1>2. r \in Fields
  BY <1>1
<1>3. r.there = TRUE /\ r.by = x /\ r.signed = TRUE
  BY DEF Rpm
<1>. QED
  BY <1>1, <1>2, <1>3 DEF Rpm

\* A step of the build itself, action by action.
LEMMA OwnStepBuilt ==
  ASSUME BuildAssumption, BuildTypeOK, NEW x \in Procs, ProcStep(x),
         Given(x), BuiltIfCurrent(x), Alive(x)'
  PROVE  Given(x)' /\ BuiltIfCurrent(x)' /\ proc'[x].arches = proc[x].arches
<1>. DEFINE P == proc[x]
            Q == proc'[x]
            At == Of(x, P.arch)
            Goal == Given(x)' /\ BuiltIfCurrent(x)' /\ Q.arches = P.arches
<1>1. P \in Process /\ P.pc \in Running /\ Q.key = P.key /\ Q.ver = P.ver
  BY StepTouches
<1>2. newest' = newest /\ spec' = spec
  BY StepKeepsSpecs
<1>3. \A f : Of(x, f)' = Of(x, f)
  BY <1>1 DEF Of
<1>4. \A a \in Arches : /\ a # Src /\ Of(x, a) # Of(x, Src) /\ Of(x, a) \in Pkgs \X Versions \X Arches
                        /\ Of(x, a) \in Pkgs \X Versions \X Files
  BY <1>1, BuildAssumption DEF Of, Process, Files
<1>5. Of(x, Src) \in Pkgs \X Versions \X Files /\ P.arches \subseteq Arches
  BY <1>1 DEF Of, Process, Files
<1>. DEFINE SameArch == /\ Q.arch = P.arch /\ Q.arches = P.arches /\ Q.left = P.left
                        /\ Q.specver = P.specver
<1>6. ASSUME NEW pc, Goto(x, pc) PROVE Q.pc = pc /\ SameArch
  BY <1>1, <1>6 DEF Goto, BuildTypeOK, Process
<1>7. ASSUME NEW a \in Arches, NextArch(x, a) PROVE Goal
  <2>1. /\ P.pc = "next" /\ Q.pc = "stage" /\ Q.arch = a /\ Q.arches = P.arches
        /\ Q.left = P.left \ {a} /\ UNCHANGED <<rpm, results>>
    BY <1>1, <1>7 DEF NextArch, BuildTypeOK, Process
  <2>2. Given(x)'
    BY <1>1, <1>2, <2>1 DEF Given
  <2>3. ASSUME Built(x) PROVE Built(x)'
    BY <1>3, <2>1, <2>3 DEF Built, Made, RecordedOk, AtArch
  <2>. QED
    BY <1>1, <1>2, <2>1, <2>2, <2>3 DEF BuiltIfCurrent
<1>8. ASSUME NEW d \in Pkgs, Stage(x, d) PROVE Goal
  <2>1. CASE DepRpm(x, d).there
    <3>1. P.pc = "stage" /\ Q.pc = "stage" /\ SameArch /\ UNCHANGED <<rpm, results>>
      BY <1>1, <1>8, <2>1 DEF Stage, BuildTypeOK, Process
    <3>2. Given(x)'
      BY <1>1, <1>2, <3>1 DEF Given, AtArch
    <3>3. ASSUME Built(x) PROVE Built(x)'
      BY <1>3, <3>1, <3>3 DEF Built, Made, RecordedOk
    <3>. QED
      BY <1>1, <1>2, <3>1, <3>2, <3>3 DEF BuiltIfCurrent
  <2>2. CASE ~DepRpm(x, d).there
    BY <1>6, <1>8, <2>2 DEF Stage, Alive, Running
  <2>. QED
    BY <2>1, <2>2
<1>9. CASE StartRpmbuild(x)
  <2>1. /\ P.pc = "stage" /\ Q.pc = "rpmbuild" /\ Q.arch = P.arch /\ Q.arches = P.arches
        /\ Q.left = P.left /\ Q.specver = spec[P.key] /\ UNCHANGED <<rpm, results>>
    BY <1>1, <1>9 DEF StartRpmbuild, BuildTypeOK, Process
  <2>2. Given(x)'
    BY <1>1, <1>2, <2>1 DEF Given, AtArch
  <2>3. ASSUME Built(x) PROVE Built(x)'
    BY <1>3, <2>1, <2>3 DEF Built, Made, RecordedOk, AtArch
  <2>. QED
    BY <1>1, <1>2, <2>1, <2>2, <2>3 DEF BuiltIfCurrent
<1>10. CASE RpmbuildFails(x) \/ Die(x)
  BY <1>6, <1>10 DEF RpmbuildFails, Die, Alive, Running
<1>11. CASE RpmbuildOk(x)
  <2>1. P.pc = "rpmbuild" /\ Q.pc = "record" /\ SameArch /\ results' = results
    BY <1>6, <1>11 DEF RpmbuildOk
  <2>2. Given(x)' /\ P.arch \in Arches /\ P.specver = spec[P.key]
    BY <1>1, <1>2, <2>1 DEF Given, AtArch
  <2>3. ASSUME P.ver = spec[P.key], Built(x) PROVE Built(x)'
    <3>1. Written(x) = {At, Of(x, Src)}
      BY <2>2, <2>3 DEF Written, Of
    <3>2. \A f \in Pkgs \X Versions \X Files :
            rpm'[f] = IF f \in {At, Of(x, Src)} THEN Rpm(x, FALSE) ELSE rpm[f]
      BY <1>11, <3>1 DEF RpmbuildOk, BuildTypeOK
    <3>3. rpm'[At] = Rpm(x, FALSE) /\ rpm'[Of(x, Src)] = Rpm(x, FALSE)
      BY <1>4, <1>5, <2>2, <3>2
    <3>4. ASSUME NEW a \in P.arches, a # P.arch PROVE rpm'[Of(x, a)] = rpm[Of(x, a)]
      <4>1. Of(x, a) \notin {At, Of(x, Src)}
        BY <1>4, <1>5, <3>4 DEF Of
      <4>. QED
        BY <1>4, <1>5, <3>2, <4>1
    <3>. QED
      BY <1>1, <1>3, <2>1, <2>3, <3>3, <3>4 DEF Built, Made, RecordedOk, AtArch
  <2>. QED
    BY <1>1, <1>2, <2>1, <2>2, <2>3 DEF BuiltIfCurrent
<1>12. CASE Record(x)
  <2>1. P.pc = "record" /\ Q.pc = "sign" /\ SameArch /\ rpm' = rpm
    BY <1>6, <1>12 DEF Record
  <2>2. Given(x)' /\ P.arch \in Arches
    BY <1>1, <1>2, <2>1 DEF Given, AtArch
  <2>3. ASSUME Built(x) PROVE Built(x)'
    <3>1. results'[At] = Outcome(x) /\ Result(x) = At
      BY <1>4, <1>12, <2>2 DEF Record, Result, Of, BuildTypeOK
    <3>2. results'[At] = "ok"
      BY <2>1, <2>3, <3>1 DEF Outcome, Built, Made, Rpm
    <3>3. \A a \in P.arches : a # P.arch => results'[Of(x, a)] = results[Of(x, a)]
      BY <1>4, <1>5, <1>12 DEF Record, Result, Of, BuildTypeOK
    <3>. QED
      BY <1>1, <1>3, <2>1, <2>3, <3>2, <3>3 DEF Built, Made, RecordedOk, AtArch
  <2>. QED
    BY <1>1, <1>2, <2>1, <2>2, <2>3 DEF BuiltIfCurrent
<1>13. ASSUME NEW f \in DOMAIN rpm, rpm[f] = Rpm(x, FALSE), rpm' = Signed(f)
       PROVE  rpm'[f] = Rpm(x, TRUE)
  <2>1. rpm'[f] = IF rpm[f].there THEN [rpm[f] EXCEPT !.signed = TRUE] ELSE rpm[f]
    BY <1>13 DEF Signed
  <2>2. rpm[f].there /\ [Rpm(x, FALSE) EXCEPT !.signed = TRUE] = Rpm(x, TRUE)
    BY <1>13, SignedRpm DEF Rpm
  <2>. QED
    BY <1>13, <2>1, <2>2
<1>14. ASSUME NEW f, NEW g \in DOMAIN rpm, f # g, rpm' = Signed(f)
       PROVE  rpm'[g] = rpm[g]
  BY <1>14 DEF Signed
<1>15. CASE Sign(x)
  <2>1. P.pc = "sign" /\ Q.pc = "next" /\ SameArch /\ results' = results /\ rpm' = Signed(At)
    BY <1>6, <1>15 DEF Sign, Result, Of
  <2>2. Given(x)' /\ P.arch \in Arches
    BY <1>1, <1>2, <2>1 DEF Given, AtArch
  <2>3. ASSUME Built(x) PROVE Built(x)'
    <3>1. rpm'[At] = Rpm(x, TRUE) /\ results'[At] = "ok"
      BY <1>4, <1>13, <2>1, <2>2, <2>3 DEF Built, Made, RecordedOk, BuildTypeOK
    <3>2. rpm'[Of(x, Src)] = Rpm(x, FALSE)
      BY <1>4, <1>5, <1>14, <2>1, <2>2, <2>3 DEF Built, Made, BuildTypeOK
    <3>3. ASSUME NEW a \in P.arches, a # P.arch PROVE rpm'[Of(x, a)] = rpm[Of(x, a)]
      <4>1. At # Of(x, a) /\ Of(x, a) \in DOMAIN rpm
        BY <1>4, <1>5, <3>3 DEF Of, BuildTypeOK
      <4>. QED
        BY <1>14, <2>1, <4>1
    <3>4. ASSUME NEW a \in P.arches \ P.left PROVE Made(x, a, TRUE)' /\ RecordedOk(x, a)'
      <4>1. CASE a = P.arch
        BY <1>3, <3>1, <4>1 DEF Made, RecordedOk
      <4>2. CASE a # P.arch
        BY <1>3, <2>1, <2>3, <3>3, <4>2 DEF Built, Made, RecordedOk
      <4>. QED
        BY <4>1, <4>2
    <3>5. Made(x, Src, FALSE)'
      BY <1>3, <3>2 DEF Made
    <3>. QED
      BY <2>1, <3>4, <3>5 DEF Built
  <2>. QED
    BY <1>1, <1>2, <2>1, <2>2, <2>3 DEF BuiltIfCurrent
<1>16. CASE SignSrpm(x)
  <2>1. /\ P.pc = "next" /\ P.left = {} /\ Q.pc = "ok" /\ SameArch
        /\ results' = results /\ rpm' = Signed(Of(x, Src))
    BY <1>6, <1>16 DEF SignSrpm, Of
  <2>2. Given(x)' /\ P.left # P.arches
    BY <1>1, <1>2, <2>1 DEF Given, AtArch
  <2>3. ASSUME Built(x) PROVE Built(x)'
    <3>1. rpm'[Of(x, Src)] = Rpm(x, TRUE)
      BY <1>5, <1>13, <2>1, <2>2, <2>3 DEF Built, Made, BuildTypeOK
    <3>2. \A a \in P.arches : rpm'[Of(x, a)] = rpm[Of(x, a)]
      BY <1>4, <1>5, <1>14, <2>1 DEF BuildTypeOK
    <3>. QED
      BY <1>1, <1>3, <2>1, <2>3, <3>1, <3>2 DEF Built, Made, RecordedOk, AtArch
  <2>. QED
    BY <1>1, <1>2, <2>1, <2>2, <2>3 DEF BuiltIfCurrent
<1>. QED
  BY <1>7, <1>8, <1>9, <1>10, <1>11, <1>12, <1>15, <1>16 DEF ProcStep

\* A step of a build of another package.
LEMMA OtherStepBuilt ==
  ASSUME BuildTypeOK, NEW x \in Procs, ProcStep(x), NEW y \in Procs, y # x,
         proc[y] \in Process, proc[y].key # proc[x].key, Given(y), BuiltIfCurrent(y)
  PROVE  Given(y)' /\ BuiltIfCurrent(y)' /\ proc'[y] = proc[y]
<1>1. proc'[y] = proc[y] /\ RestKept(x)
  BY StepTouches
<1>2. newest' = newest /\ spec' = spec
  BY StepKeepsSpecs
<1>3. /\ \A f \in Files : rpm'[Of(y, f)] = rpm[Of(y, f)]
      /\ \A a \in Arches : results'[Of(y, a)] = results[Of(y, a)]
  BY <1>1 DEF RestKept, Of, Process
<1>4. \A f : Of(y, f)' = Of(y, f)
  BY <1>1 DEF Of
<1>5. Given(y)'
  BY <1>1, <1>2 DEF Given
<1>6. ASSUME Built(y) PROVE Built(y)'
  <2>1. \A a \in proc[y].arches : a \in Arches /\ a \in Files
    BY DEF Process, Files
  <2>2. proc[y].pc \in AtArch => proc[y].arch \in Arches /\ proc[y].arch \in Files
    BY DEF Given, Files
  <2>3. Src \in Files
    BY DEF Files
  <2>. QED
    BY <1>1, <1>3, <1>4, <1>6, <2>1, <2>2, <2>3 DEF Built, Made, RecordedOk, AtArch
<1>. QED
  BY <1>1, <1>2, <1>5, <1>6 DEF BuiltIfCurrent

-----------------------------------------------------------------------------
(* The children of one run.                                                *)

\* Only a run that nothing follows leaves children behind.
OnlyAwaited == ChildrenAwaited \/ (phase = "err" /\ run = MaxRuns)

\* A run finds its children not started, and starts none before the waves.
NotYetRun ==
  /\ \A x \in Procs : x[1] > run => proc[x] = Idle
  /\ phase = "prep" => \A k \in Pkgs : proc[Child(k)] = Idle

\* A package that is done was built or is among the failed.
EndedWell ==
  /\ phase = "idle" => goal = {}
  /\ \A k \in goal \ Waiting : k \in failed \/ proc[Child(k)].pc = "ok"
  /\ phase = "ok" => failed = {} /\ Waiting = {}

\* A child of this run that is not given up builds what it was told to.
ChildRight(x) ==
  x[1] = run /\ Alive(x) =>
    /\ proc[x].key = x[2] /\ proc[x].arches = arches
    /\ Given(x) /\ BuiltIfCurrent(x)

InWaves == phase \in {"waves", "chunk", "ok"}
ChildrenRight == InWaves => \A x \in Procs : ChildRight(x)

\* The steps of the driver that no build sees.
Quiet ==
  \/ Begin \/ PrepError \/ PrepDone \/ NextWave \/ NextChunk \/ Abandon \/ ChunkDone
  \/ Return \/ (\E k \in Pkgs : SpawnFails(k) \/ Await(k)) \/ UNCHANGED vars

\* What the driver does between spawning children touches no file.
LEMMA QuietStep ==
  ASSUME Quiet
  PROVE  /\ UNCHANGED buildVars
         /\ ~Begin => run' = run /\ arches' = arches /\ (phase' = "prep" => phase = "prep")
         /\ InWaves' => (InWaves \/ PrepDone)
<1>1. CASE Begin
  BY <1>1 DEF Begin, InWaves
<1>2. CASE PrepError \/ PrepDone \/ NextWave \/ NextChunk \/ Abandon \/ ChunkDone \/ Return
  BY <1>2 DEF PrepError, PrepDone, NextWave, NextChunk, Abandon, ChunkDone, Return, InWaves
<1>3. CASE (\E k \in Pkgs : SpawnFails(k) \/ Await(k)) \/ UNCHANGED vars
  BY <1>3 DEF SpawnFails, Await, vars, driverVars, InWaves
<1>. QED
  BY <1>1, <1>2, <1>3 DEF Quiet

\* A step is the driver's alone, starts something, or is one of a build or an edit.
LEMMA NextCases ==
  ASSUME [Next]_vars
  PROVE  \/ Quiet
         \/ \E k \in Pkgs : Prep(k) \/ Spawn(k)
         \/ OtherEdit \/ \E x \in Procs : ChildStep(x)
BY DEF Next, Progress, Quiet

\* Spawning starts one process.
LEMMA SpawnStarts ==
  ASSUME BuildTypeOK, RunGiven, NEW k \in Pkgs, Spawn(k)
  PROVE  /\ Child(k) \in Procs /\ proc[Child(k)] = Idle /\ phase = "chunk"
         /\ \A y \in Procs : y # Child(k) => proc'[y] = proc[y]
         /\ UNCHANGED <<newest, spec, rpm, results, sysroot, run, phase, goal, needs, arches, failed>>
         /\ proc'[Child(k)] =
              [pc |-> IF SpecMissing(k) THEN "fail" ELSE "next",
               key |-> k, ver |-> newest[k], reqs |-> Rows[k][newest[k]],
               arches |-> arches, left |-> arches, arch |-> Src, toStage |-> {}, specver |-> 0]
<1>1. Child(k) \in Procs
  BY BuildAllAssumption DEF Spawn, RunGiven, Child
<1>. QED
  BY <1>1 DEF Spawn, Invoke, BuildTypeOK

\* With one run, or if no run leaves children behind, only awaited children run.
LEMMA OnlyAwaitedStays ==
  ASSUME ~Orphans \/ MaxRuns = 1, BuildTypeOK, RunGiven, OnlyAwaited, [Next]_vars
  PROVE  OnlyAwaited'
<1>1. CASE Abandon
  BY <1>1, BuildAllAssumption DEF Abandon, RunGiven, OnlyAwaited
<1>2. CASE ~Abandon /\ ChildrenAwaited
  BY <1>2, AwaitedStays DEF OnlyAwaited
<1>3. CASE phase = "err" /\ run = MaxRuns
  <2>1. ~Begin /\ ~Progress /\ ~Abandon
    BY <1>3, BuildAllAssumption DEF Begin, Progress, PrepError, PrepDone, NextWave, NextChunk,
       Abandon, ChunkDone, Return, Prep, Spawn, SpawnFails, Await
  <2>2. UNCHANGED driverVars
    BY <2>1 DEF Next, OtherEdit, ChildStep, vars
  <2>. QED
    BY <1>3, <2>2 DEF driverVars, OnlyAwaited
<1>. QED
  BY <1>1, <1>2, <1>3 DEF OnlyAwaited

\* The processes of a run are idle until it spawns them.
LEMMA NotYetRunStays ==
  ASSUME BuildTypeOK, RunGiven, NotYetRun, [Next]_vars
  PROVE  NotYetRun'
<1>1. run \in Int
  BY BuildAllAssumption DEF RunGiven
<1>2. CASE Begin
  <2>1. proc' = proc /\ run' = run + 1 /\ run + 1 \in 1..MaxRuns
    BY <1>1, <1>2, BuildAllAssumption DEF Begin, buildVars, RunGiven
  <2>2. \A x \in Procs : x[1] \in Int /\ (x[1] > run + 1 => x[1] > run)
    BY <1>1, BuildAllAssumption
  <2>3. \A k \in Pkgs : <<run + 1, k>> \in Procs /\ <<run + 1, k>>[1] > run
    BY <1>1, <2>1, BuildAllAssumption
  <2>. QED
    BY <2>1, <2>2, <2>3 DEF NotYetRun, Child
<1>3. CASE Quiet /\ ~Begin
  <2>1. proc' = proc /\ run' = run /\ (phase' = "prep" => phase = "prep")
    BY <1>3, QuietStep DEF buildVars
  <2>. QED
    BY <2>1 DEF NotYetRun, Child
<1>4. CASE OtherEdit \/ \E k \in Pkgs : Prep(k)
  BY <1>4 DEF Prep, GenSpec, OtherEdit, AddVersion, driverVars, NotYetRun, Child
<1>5. ASSUME NEW k \in Pkgs, Spawn(k) PROVE NotYetRun'
  <2>1. run' = run /\ phase' = "chunk" /\ \A y \in Procs : y # Child(k) => proc'[y] = proc[y]
    BY <1>5, SpawnStarts
  <2>2. ASSUME NEW y \in Procs, y[1] > run PROVE proc'[y] = Idle
    BY <1>1, <2>1, <2>2 DEF NotYetRun, Child
  <2>. QED
    BY <2>1, <2>2 DEF NotYetRun
<1>6. ASSUME NEW x \in Procs, ChildStep(x) PROVE NotYetRun'
  <2>1. proc[x] # Idle /\ UNCHANGED driverVars /\ \A y \in Procs : y # x => proc'[y] = proc[y]
    BY <1>6, StepTouches DEF ChildStep, Idle, Running
  <2>2. run' = run /\ phase' = phase /\ \A k \in Pkgs : Child(k)' = Child(k)
    BY <2>1 DEF driverVars, Child
  <2>3. \A y \in Procs : proc[y] = Idle => proc'[y] = Idle
    BY <2>1
  <2>4. phase = "prep" => \A k \in Pkgs : Child(k) \in Procs
    BY BuildAllAssumption DEF RunGiven, Child
  <2>5. \A y \in Procs : y[1] > run' => proc'[y] = Idle
    BY <2>2, <2>3 DEF NotYetRun
  <2>6. phase' = "prep" => \A k \in Pkgs : proc'[Child(k)'] = Idle
    BY <2>2, <2>3, <2>4 DEF NotYetRun
  <2>. QED
    BY <2>5, <2>6 DEF NotYetRun
<1>. QED
  BY <1>2, <1>3, <1>4, <1>5, <1>6, NextCases

\* No step ends a build that ended well, or starts it again.
LEMMA OkStays ==
  ASSUME BuildTypeOK, RunGiven, [Next]_vars, NEW x \in Procs, proc[x].pc = "ok"
  PROVE  proc'[x] = proc[x]
<1>1. CASE Quiet
  BY <1>1, QuietStep DEF buildVars
<1>2. CASE OtherEdit \/ \E k \in Pkgs : Prep(k)
  BY <1>2 DEF Prep, GenSpec, OtherEdit, AddVersion
<1>3. ASSUME NEW k \in Pkgs, Spawn(k) PROVE proc'[x] = proc[x]
  <2>1. proc[Child(k)] = Idle /\ \A y \in Procs : y # Child(k) => proc'[y] = proc[y]
    BY <1>3, SpawnStarts
  <2>2. proc[Child(k)].pc = "idle"
    BY <2>1 DEF Idle
  <2>. QED
    BY <2>1, <2>2
<1>4. ASSUME NEW y \in Procs, ChildStep(y) PROVE proc'[x] = proc[x]
  BY <1>4, StepTouches DEF ChildStep, Running
<1>. QED
  BY <1>1, <1>2, <1>3, <1>4, NextCases

\* What the driver is through with has failed, or its child ended well.
LEMMA EndedWellStays ==
  ASSUME BuildTypeOK, RunGiven, DriverType, DriverType', OrderInv, EndedWell, [Next]_vars
  PROVE  EndedWell'
<1>. DEFINE Well == \A k \in goal \ Waiting : k \in failed \/ proc[Child(k)].pc = "ok"
<1>1. CASE Begin
  <2>1. goal' \ Waiting' = {} /\ phase' = "prep"
    BY <1>1 DEF Begin, WavePlans, ValidPlan, Waiting
  <2>. QED
    BY <2>1 DEF EndedWell
<1>2. ASSUME UNCHANGED <<run, goal>>, failed \subseteq failed',
             \A k \in goal \ Waiting' :
               k \in goal \ Waiting \/ k \in failed' \/ proc[Child(k)].pc = "ok"
      PROVE  Well'
  <2>. SUFFICES ASSUME NEW k \in goal, k \notin Waiting'
                PROVE  k \in failed' \/ proc'[Child(k)'].pc = "ok"
    BY <1>2
  <2>1. k \in failed' \/ proc[Child(k)].pc = "ok"
    BY <1>2 DEF EndedWell
  <2>2. phase # "idle" /\ k \in Pkgs
    BY DEF EndedWell, DriverType
  <2>3. Child(k)' = Child(k) /\ Child(k) \in Procs
    BY <1>2, <2>2, BuildAllAssumption DEF Child, RunGiven
  <2>. QED
    BY <2>1, <2>3, OkStays
<1>3. ASSUME UNCHANGED <<run, goal, failed>>, Waiting' = Waiting,
             phase' \notin {"idle", "ok"} \/ phase' = phase
      PROVE  EndedWell'
  <2>1. Well'
    BY <1>2, <1>3 DEF EndedWell
  <2>. QED
    BY <1>3, <2>1 DEF EndedWell
<1>4. CASE NextWave
  BY <1>3, <1>4, NextWaveKeeps DEF NextWave
<1>5. CASE NextChunk
  BY <1>3, <1>5, NextChunkKeeps DEF NextChunk
<1>6. CASE PrepError \/ PrepDone \/ Abandon \/ ChunkDone
  BY <1>3, <1>6 DEF PrepError, PrepDone, Abandon, ChunkDone, Waiting
<1>7. CASE Return
  <2>1. /\ UNCHANGED <<run, goal, failed>> /\ Waiting' = Waiting /\ phase' \in {"ok", "err"}
        /\ phase' = "ok" => failed = {}
    BY <1>7 DEF Return, Waiting
  <2>2. Waiting = {}
    BY <1>7 DEF Return, OrderInv, Between, Waiting, Members
  <2>3. Well'
    BY <1>2, <2>1, <1>7 DEF Return
  <2>. QED
    BY <2>1, <2>2, <2>3 DEF EndedWell
<1>8. ASSUME NEW k \in Pkgs, Prep(k) \/ Spawn(k) PROVE EndedWell'
  BY <1>3, <1>8 DEF Prep, Spawn, Waiting
<1>9. ASSUME NEW k \in Pkgs, SpawnFails(k) \/ Await(k) PROVE EndedWell'
  <2>1. /\ UNCHANGED <<run, goal, phase>> /\ phase = "chunk" /\ failed \subseteq failed'
        /\ k \in failed' \/ proc[Child(k)].pc = "ok"
        /\ Waiting \subseteq Waiting' \cup {k}
    BY <1>9 DEF SpawnFails, Await, Failed, Waiting
  <2>2. Well'
    BY <1>2, <2>1
  <2>. QED
    BY <2>1, <2>2 DEF EndedWell
<1>10. CASE OtherEdit \/ (\E x \in Procs : ChildStep(x)) \/ UNCHANGED vars
  BY <1>3, <1>10 DEF OtherEdit, ChildStep, vars, driverVars, Waiting
<1>. QED
  BY <1>1, <1>4, <1>5, <1>6, <1>7, <1>8, <1>9, <1>10 DEF Next, Progress

\* ver add moves the newest version away from what a child builds, and no more.
LEMMA EditKeepsChildren ==
  ASSUME BuildAssumption, BuildTypeOK, NEW d \in Pkgs, AddVersion(d),
         NEW x \in Procs, proc[x] \in Process, Given(x), BuiltIfCurrent(x)
  PROVE  Given(x)' /\ BuiltIfCurrent(x)'
<1>1. /\ UNCHANGED <<spec, rpm, results, proc>>
      /\ \A k \in Pkgs : newest[k] <= newest'[k]
      /\ \A k \in Pkgs : newest[k] \in Int /\ newest'[k] \in Int
  BY DEF AddVersion, BuildTypeOK, BuildAssumption, Versions
<1>2. proc[x].key \in Pkgs /\ proc[x].ver \in Int
  BY DEF Process, BuildAssumption, Versions
<1>3. proc[x].ver <= newest'[proc[x].key]
  BY <1>1, <1>2 DEF Given
<1>. QED
  BY <1>1, <1>3 DEF Given, BuiltIfCurrent, Built, Made, RecordedOk, Of

\* A process is a run and a package.
LEMMA ChildIsPair ==
  ASSUME NEW x \in Procs
  PROVE  x = <<x[1], x[2]>> /\ x[2] \in Pkgs /\ (x[1] = run => x = Child(x[2]))
BY BuildAllAssumption DEF Child

\* What a build may rely on if nothing it depends on changes.
LEMMA Framed ==
  ASSUME NEW x \in Procs, UNCHANGED <<newest, spec, rpm, results, run, arches>>,
         proc'[x] = proc[x], ChildRight(x)
  PROVE  ChildRight(x)'
<1>1. Alive(x)' <=> Alive(x)
  BY DEF Alive
<1>2. Given(x) => Given(x)'
  BY DEF Given
<1>3. Built(x) => Built(x)'
  BY DEF Built, Made, RecordedOk, Of
<1>. QED
  BY <1>1, <1>2, <1>3 DEF ChildRight, BuiltIfCurrent

\* Every build of the run has read what the run planned with, and what it has behind
\* it is built, whatever the other builds do.
LEMMA ChildrenRightStay ==
  ASSUME BuildAssumption, BuildTypeOK, RunGiven, SpecBehind, OnlyAwaited, NotYetRun,
         ChildrenRight, [Next]_vars
  PROVE  ChildrenRight'
<1>. SUFFICES ASSUME InWaves', NEW x \in Procs PROVE ChildRight(x)'
  BY DEF ChildrenRight
<1>1. CASE PrepDone
  <2>1. UNCHANGED <<proc, run>> /\ phase = "prep"
    BY <1>1 DEF PrepDone, buildVars
  <2>2. x[1] = run => proc[x].pc = "idle"
    BY <2>1, ChildIsPair DEF NotYetRun, Idle
  <2>. QED
    BY <2>1, <2>2 DEF ChildRight, Alive, Running
<1>2. CASE Quiet /\ ~PrepDone
  <2>1. InWaves /\ ~Begin
    BY <1>2, QuietStep DEF Begin, InWaves
  <2>2. UNCHANGED <<newest, spec, rpm, results, proc, run, arches>>
    BY <1>2, <2>1, QuietStep DEF buildVars
  <2>. QED
    BY <2>1, <2>2, Framed DEF ChildrenRight
<1>3. ASSUME NEW k \in Pkgs, Prep(k) PROVE FALSE
  BY <1>3 DEF Prep, InWaves
<1>4. ASSUME NEW k \in Pkgs, Spawn(k) PROVE ChildRight(x)'
  <2>. DEFINE Q == proc'[x]
  <2>1. /\ UNCHANGED <<newest, spec, rpm, results, run, phase, arches>> /\ phase = "chunk"
        /\ \A y \in Procs : y # Child(k) => proc'[y] = proc[y]
    BY <1>4, SpawnStarts
  <2>2. CASE x # Child(k)
    BY <2>1, <2>2, Framed DEF ChildrenRight, InWaves
  <2>3. CASE x = Child(k)
    <3>1. proc'[x] =
            [pc |-> IF SpecMissing(k) THEN "fail" ELSE "next",
             key |-> k, ver |-> newest[k], reqs |-> Rows[k][newest[k]],
             arches |-> arches, left |-> arches, arch |-> Src, toStage |-> {}, specver |-> 0]
      BY <1>4, <2>3, SpawnStarts
    <3>2. /\ Q.pc \in {"next", "fail"} /\ Q.key = k /\ Q.ver = newest[k]
          /\ Q.arches = arches /\ Q.left = arches
      BY <3>1
    <3>3. arches # {} /\ spec[k] <= newest[k] /\ newest[k] <= newest[k]
      BY <2>1, BuildAllAssumption DEF RunGiven, SpecBehind, BuildTypeOK, BuildAssumption, Versions
    <3>4. x[2] = k
      BY <2>3 DEF Child
    <3>5. CASE Q.pc = "fail"
      BY <3>5 DEF ChildRight, Alive, Running
    <3>6. CASE Q.pc = "next"
      <4>1. Given(x)'
        BY <2>1, <3>2, <3>3, <3>6 DEF Given, AtArch
      <4>2. Built(x)'
        BY <3>2, <3>6 DEF Built
      <4>. QED
        BY <2>1, <3>2, <3>4, <4>1, <4>2 DEF ChildRight, BuiltIfCurrent
    <3>. QED
      BY <3>2, <3>5, <3>6
  <2>. QED
    BY <2>2, <2>3
<1>5. CASE OtherEdit
  <2>1. PICK d \in Pkgs : AddVersion(d)
    BY <1>5 DEF OtherEdit
  <2>2. UNCHANGED <<run, arches, phase, proc>> /\ InWaves /\ ChildRight(x)
    BY <1>5, <2>1 DEF OtherEdit, AddVersion, driverVars, InWaves, ChildrenRight
  <2>. SUFFICES ASSUME x[1] = run, Alive(x) PROVE Given(x)' /\ BuiltIfCurrent(x)'
    BY <2>2 DEF ChildRight, Alive
  <2>3. proc[x] \in Process
    BY ProcessFields DEF Alive, Running
  <2>. QED
    BY <2>1, <2>2, <2>3, EditKeepsChildren DEF ChildRight
<1>6. ASSUME NEW y \in Procs, ChildStep(y) PROVE ChildRight(x)'
  <2>1. UNCHANGED driverVars /\ ProcStep(y) /\ InWaves /\ ChildRight(x)
    BY <1>6 DEF ChildStep, driverVars, InWaves, ChildrenRight
  <2>2. run' = run /\ arches' = arches
    BY <2>1 DEF driverVars
  <2>3. proc[y].pc \in Running /\ proc'[y].key = proc[y].key
        /\ \A z \in Procs : z # y => proc'[z] = proc[z]
    BY <2>1, StepTouches
  <2>4. y[1] = run /\ proc[y].key = y[2]
    <3>1. ChildrenAwaited
      BY <2>1 DEF OnlyAwaited, InWaves
    <3>. QED
      BY <2>3, <3>1 DEF ChildrenAwaited, Child
  <2>. SUFFICES ASSUME x[1] = run, Alive(x)'
                PROVE  /\ proc'[x].key = x[2] /\ proc'[x].arches = arches
                       /\ Given(x)' /\ BuiltIfCurrent(x)'
    BY <2>2 DEF ChildRight
  <2>5. CASE x = y
    <3>1. Alive(x)
      BY <2>3, <2>5 DEF Alive
    <3>2. Given(x) /\ BuiltIfCurrent(x) /\ proc[x].key = x[2] /\ proc[x].arches = arches
      BY <2>1, <3>1 DEF ChildRight
    <3>3. Given(x)' /\ BuiltIfCurrent(x)' /\ proc'[x].arches = proc[x].arches
      BY <2>1, <2>5, <3>2, OwnStepBuilt
    <3>. QED
      BY <2>3, <2>5, <3>2, <3>3
  <2>6. CASE x # y
    <3>1. proc'[x] = proc[x] /\ Alive(x)
      BY <2>3, <2>6 DEF Alive
    <3>2. Given(x) /\ BuiltIfCurrent(x) /\ proc[x].key = x[2] /\ proc[x].arches = arches
      BY <2>1, <3>1 DEF ChildRight
    <3>3. proc[x] \in Process
      BY <3>1, ProcessFields DEF Alive, Running
    <3>4. proc[x].key # proc[y].key
      BY <2>4, <2>6, <3>2, ChildIsPair
    <3>5. Given(x)' /\ BuiltIfCurrent(x)'
      BY <2>1, <2>6, <3>2, <3>3, <3>4, OtherStepBuilt
    <3>. QED
      BY <3>1, <3>2, <3>5
  <2>. QED
    BY <2>5, <2>6
<1>. QED
  BY <1>1, <1>2, <1>3, <1>4, <1>5, <1>6, NextCases

\* The driver's and the children's invariant together.
RunInv == DriverType /\ OrderInv /\ OnlyAwaited /\ NotYetRun /\ EndedWell /\ ChildrenRight

\* All of it together, over any number of runs.
LEMMA RunInvariant == ~Orphans \/ MaxRuns = 1 => (Spec => []RunInv)
<1>. SUFFICES ASSUME ~Orphans \/ MaxRuns = 1 PROVE Spec => []RunInv
  OBVIOUS
<1>1. Init => RunInv
  <2>. SUFFICES ASSUME Init PROVE RunInv
    OBVIOUS
  <2>1. DriverType /\ OrderInv
    BY InitOrder
  <2>2. \A x \in Procs : proc[x] = Idle /\ proc[x].pc = "idle"
    BY DEF Init, BuildInit, Idle
  <2>3. phase = "idle" /\ goal = {} /\ kids = {}
    BY DEF Init
  <2>. QED
    BY <2>1, <2>2, <2>3 DEF RunInv, OnlyAwaited, ChildrenAwaited, Running, NotYetRun, EndedWell,
       ChildrenRight, InWaves
<1>2. BuildTypeOK /\ RunGiven /\ SpecBehind /\ RunInv /\ [Next]_vars => RunInv'
  <2>. SUFFICES ASSUME BuildTypeOK, RunGiven, SpecBehind, RunInv, [Next]_vars PROVE RunInv'
    OBVIOUS
  <2>1. DriverType'
    BY DriverTypeStays DEF RunInv
  <2>2. OrderInv'
    BY <2>1, OrderStep DEF RunInv
  <2>3. OnlyAwaited'
    BY OnlyAwaitedStays DEF RunInv
  <2>4. NotYetRun' /\ EndedWell'
    BY <2>1, NotYetRunStays, EndedWellStays DEF RunInv
  <2>5. ChildrenRight'
    BY BuildAssumption, ChildrenRightStay DEF RunInv
  <2>. QED
    BY <2>1, <2>2, <2>3, <2>4, <2>5 DEF RunInv
<1>3. BuildSpec => [](BuildTypeOK /\ SpecBehind)
  BY BuildTypeCorrect, NoRpmAhead, PTL
<1>. QED
  BY <1>1, <1>2, <1>3, RunsAreBuilds, PTL DEF Spec

\* A run of build-all that returns Ok has built every planned package whose
\* spec is of its newest version: every RPM is its own and signed, and recorded.
\* If a run may leave children behind, runs overlap, and then only one run is sure.
THEOREM OkRunsAreComplete == ~Orphans \/ MaxRuns = 1 => (Spec => []OkRunIsComplete)
<1>. SUFFICES ASSUME ~Orphans \/ MaxRuns = 1 PROVE Spec => []OkRunIsComplete
  OBVIOUS
<1>1. BuildTypeOK /\ RunGiven /\ RunInv => OkRunIsComplete
  <2>. SUFFICES ASSUME BuildTypeOK, RunGiven, RunInv, phase = "ok", NEW k \in goal, NEW a \in arches,
                       spec[k] = newest[k]
                PROVE  /\ rpm[k, newest[k], a] = Rpm(Child(k), TRUE)
                       /\ rpm[k, newest[k], Src] = Rpm(Child(k), TRUE)
                       /\ results[k, newest[k], a] = "ok"
    BY DEF OkRunIsComplete
  <2>1. k \in Pkgs /\ Child(k) \in Procs /\ Child(k)[1] = run /\ Child(k)[2] = k
    BY BuildAllAssumption DEF RunInv, DriverType, RunGiven, Child
  <2>2. proc[Child(k)].pc = "ok"
    BY DEF RunInv, EndedWell
  <2>3. /\ proc[Child(k)].key = k /\ proc[Child(k)].arches = arches
        /\ Given(Child(k)) /\ BuiltIfCurrent(Child(k))
    BY <2>1, <2>2 DEF RunInv, ChildrenRight, InWaves, ChildRight, Alive
  <2>4. proc[Child(k)].ver \in Int /\ spec[k] \in Int /\ newest[k] \in Int
    BY <2>1, <2>2, ProcessFields, BuildAssumption DEF BuildTypeOK, Process, Versions
  <2>5. proc[Child(k)].ver = newest[k] /\ proc[Child(k)].left = {}
    BY <2>2, <2>3, <2>4 DEF Given
  <2>6. Built(Child(k))
    BY <2>3, <2>5 DEF BuiltIfCurrent
  <2>7. Made(Child(k), a, TRUE) /\ RecordedOk(Child(k), a) /\ Made(Child(k), Src, TRUE)
    BY <2>2, <2>3, <2>5, <2>6 DEF Built, AtArch
  <2>. QED
    BY <2>3, <2>5, <2>7 DEF Made, RecordedOk, Of
<1>. QED
  BY <1>1, RunInvariant, RunsAreBuilds, BuildTypeCorrect, PTL

-----------------------------------------------------------------------------
(* What a run has unpacked of the packages it planned.                     *)

\* In the sysroots a build has cleared, every library of the plan is the one
\* that this run built.
UsesOwn(x) ==
  x[1] = run /\ Alive(x) =>
    \A a \in proc[x].arches \ proc[x].left : \A e \in sysroot[<<x[2], a>>] :
      <<x[2], e[1]>> \in needs => e[2] = Child(e[1])

RootsAreOwn == InWaves /\ failed = {} => \A x \in Procs : UsesOwn(x)

\* The version that is built lies between the spec's and the newest.
LEMMA Squeezed ==
  ASSUME NEW s \in Int, NEW v \in Int, NEW n \in Int, s <= v, v <= n, n <= s
  PROVE  v = n /\ n = s
OBVIOUS

\* Of a package that was awaited and did not fail, the newest RPM is the one
\* that this run wrote, or there is none.
LEMMA NewestIsOwn ==
  ASSUME BuildAssumption, BuildTypeOK, RunGiven, SpecBehind, NoneAhead, DriverType, EndedWell,
         ChildrenRight, InWaves, failed = {}, NEW d \in goal \ Waiting, NEW a \in arches,
         rpm[<<d, newest[d], a>>].there
  PROVE  rpm[<<d, newest[d], a>>].by = Child(d)
<1>. DEFINE c == Child(d)
<1>1. d \in Pkgs /\ c[1] = run /\ c[2] = d /\ phase # "idle" /\ a \in Files
  BY DEF DriverType, InWaves, Child, RunGiven, Files
<1>2. c \in Procs
  BY <1>1, BuildAllAssumption DEF RunGiven, Child
<1>3. proc[c].pc = "ok" /\ ChildRight(c)
  BY <1>2 DEF EndedWell, ChildrenRight
<1>. HIDE DEF c
<1>4. proc[c].key = d /\ proc[c].arches = arches /\ Given(c) /\ BuiltIfCurrent(c)
  BY <1>1, <1>3 DEF ChildRight, Alive
<1>5. proc[c].ver \in Int /\ spec[d] \in Int /\ newest[d] \in Versions /\ newest[d] \in Int
  BY <1>1, <1>2, <1>3, ProcessFields DEF BuildTypeOK, BuildAssumption, Process, Versions
<1>6. newest[d] <= spec[d] /\ spec[d] <= newest[d]
  BY <1>1, <1>5 DEF NoneAhead, SpecBehind
<1>7. proc[c].ver = newest[d] /\ newest[d] = spec[d] /\ proc[c].left = {}
  <2>1. spec[d] <= proc[c].ver /\ proc[c].ver <= newest[d] /\ proc[c].left = {}
    BY <1>3, <1>4 DEF Given
  <2>. QED
    BY <1>5, <1>6, <2>1, Squeezed
<1>8. Built(c)
  BY <1>4, <1>7 DEF BuiltIfCurrent
<1>9. Made(c, a, TRUE)
  BY <1>3, <1>4, <1>7, <1>8 DEF Built, AtArch
<1>10. rpm[<<d, newest[d], a>>] = Rpm(c, TRUE)
  BY <1>4, <1>7, <1>9 DEF Made, Of
<1>. QED
  BY <1>10 DEF Rpm, c

\* A build that needs a package of the plan clears its sysroot before it
\* unpacks anything there.
LEMMA OwnRootKept ==
  ASSUME ~ClearFails, BuildTypeOK, NEW x \in Procs, ProcStep(x), UNCHANGED <<run, needs>>,
         proc[x].key = x[2], UsesOwn(x), x[1] = run, Alive(x)',
         \A d : <<x[2], d>> \in needs => d \in proc[x].reqs,
         \A d : /\ <<x[2], d>> \in needs /\ proc[x].arch \in proc[x].arches
                /\ DepRpm(x, d).there
                => DepRpm(x, d).by = Child(d)
  PROVE  UsesOwn(x)'
<1>. DEFINE P == proc[x]
            Q == proc'[x]
            Own(e) == <<x[2], e[1]>> \in needs => e[2] = Child(e[1])
<1>1. P \in Process /\ P.pc \in Running /\ Alive(x) /\ P.key \in Pkgs
  BY StepTouches DEF Alive, Process
<1>2. \A e : <<x[2], e[1]>> \in needs' => <<x[2], e[1]>> \in needs /\ Child(e[1])' = Child(e[1])
  BY DEF Child
<1>3. \A a \in P.arches \ P.left : \A e \in sysroot[<<x[2], a>>] : Own(e)
  BY <1>1 DEF UsesOwn
<1>4. SUFFICES \A a \in Q.arches \ Q.left : \A e \in sysroot'[<<x[2], a>>] : Own(e)
  BY <1>2 DEF UsesOwn
<1>5. \A a \in P.arches : <<x[2], a>> \in Pkgs \X Arches
  BY <1>1 DEF Process
<1>6. ASSUME NEW pc, Goto(x, pc) PROVE Q.pc = pc /\ Q.arches = P.arches /\ Q.left = P.left
  BY <1>1, <1>6 DEF Goto, BuildTypeOK, Process
<1>7. ASSUME NEW a \in Arches, NextArch(x, a)
      PROVE  \A b \in Q.arches \ Q.left : \A e \in sysroot'[<<x[2], b>>] : Own(e)
  <2>1. Q.arches = P.arches /\ Q.left = P.left \ {a}
    BY <1>1, <1>7 DEF NextArch, BuildTypeOK, Process
  <2>2. PICK c \in Cleared(x, a) : sysroot' = [sysroot EXCEPT ![<<P.key, a>>] = c]
    BY <1>7 DEF NextArch
  <2>3. P.reqs # {} => c = {}
    BY <2>2 DEF Cleared
  <2>4. \A e \in c : Own(e)
    BY <2>3
  <2>. SUFFICES ASSUME NEW b \in P.arches, b \notin P.left \/ b = a,
                       NEW e \in sysroot'[<<x[2], b>>]
                PROVE  Own(e)
    BY <2>1
  <2>5. sysroot'[<<x[2], b>>] = IF b = a THEN c ELSE sysroot[<<x[2], b>>]
    BY <1>5, <2>2 DEF BuildTypeOK
  <2>. QED
    BY <1>3, <2>4, <2>5
<1>8. ASSUME NEW d \in Pkgs, Stage(x, d)
      PROVE  \A b \in Q.arches \ Q.left : \A e \in sysroot'[<<x[2], b>>] : Own(e)
  <2>1. DepRpm(x, d).there
    BY <1>6, <1>8 DEF Stage, Alive, Running
  <2>. DEFINE new == <<d, DepRpm(x, d).by>>
  <2>2. Q.arches = P.arches /\ Q.left = P.left
    BY <1>1, <1>8, <2>1 DEF Stage, BuildTypeOK, Process
  <2>3. sysroot' = [sysroot EXCEPT ![<<P.key, P.arch>>] = @ \cup {new}]
    BY <1>8, <2>1 DEF Stage
  <2>4. P.arch \in P.arches => Own(new)
    BY <2>1
  <2>. HIDE DEF new
  <2>. SUFFICES ASSUME NEW b \in P.arches \ P.left, NEW e \in sysroot'[<<x[2], b>>]
                PROVE  Own(e)
    BY <2>2
  <2>5. sysroot'[<<x[2], b>>] =
          IF b = P.arch THEN sysroot[<<x[2], b>>] \cup {new} ELSE sysroot[<<x[2], b>>]
    BY <1>5, <2>3 DEF BuildTypeOK
  <2>. QED
    BY <1>3, <2>4, <2>5
<1>9. CASE StartRpmbuild(x)
  <2>1. Q.arches = P.arches /\ Q.left = P.left /\ sysroot' = sysroot
    BY <1>1, <1>9 DEF StartRpmbuild, BuildTypeOK, Process
  <2>. QED
    BY <1>3, <2>1
<1>10. CASE RpmbuildOk(x) \/ RpmbuildFails(x) \/ Record(x) \/ Sign(x) \/ SignSrpm(x) \/ Die(x)
  <2>1. Q.arches = P.arches /\ Q.left = P.left /\ sysroot' = sysroot
    BY <1>6, <1>10 DEF RpmbuildOk, RpmbuildFails, Record, Sign, SignSrpm, Die
  <2>. QED
    BY <1>3, <2>1
<1>. QED
  BY <1>7, <1>8, <1>9, <1>10 DEF ProcStep

\* No step of a run unpacks an RPM of an earlier run for a planned need.
LEMMA RootsStay ==
  ASSUME ~Edits, ~ClearFails, BuildAssumption, BuildTypeOK, RunGiven, SpecBehind, NoneAhead,
         DriverType, OnlyAwaited, NotYetRun, EndedWell, ChildrenRight, ReqsAreRows, NeedsEnded,
         RootsAreOwn, [Next]_vars
  PROVE  RootsAreOwn'
<1>. SUFFICES ASSUME InWaves', failed' = {}, NEW x \in Procs PROVE UsesOwn(x)'
  BY DEF RootsAreOwn
<1>1. ASSUME UNCHANGED <<run, needs, sysroot>>, proc'[x] = proc[x], UsesOwn(x) PROVE UsesOwn(x)'
  BY <1>1 DEF UsesOwn, Alive, Child
<1>2. CASE PrepDone
  <2>1. UNCHANGED <<proc, run>> /\ phase = "prep"
    BY <1>2 DEF PrepDone, buildVars
  <2>2. x[1] = run => proc[x].pc = "idle"
    BY <2>1, ChildIsPair DEF NotYetRun, Idle
  <2>. QED
    BY <2>1, <2>2 DEF UsesOwn, Alive, Running
<1>3. CASE Quiet /\ ~PrepDone
  <2>1. InWaves /\ ~Begin /\ UNCHANGED <<proc, sysroot, run>>
    BY <1>3, QuietStep DEF Begin, InWaves, buildVars
  <2>2. needs' = needs /\ failed = {}
    BY <1>3, <2>1 DEF Quiet, PrepError, PrepDone, NextWave, NextChunk, Abandon, ChunkDone,
       Return, SpawnFails, Await, Failed, vars, driverVars
  <2>. QED
    BY <1>1, <2>1, <2>2 DEF RootsAreOwn
<1>4. ASSUME NEW k \in Pkgs, Prep(k) PROVE FALSE
  BY <1>4 DEF Prep, InWaves
<1>5. ASSUME NEW k \in Pkgs, Spawn(k) PROVE UsesOwn(x)'
  <2>1. /\ UNCHANGED <<run, needs, sysroot, failed>> /\ phase = "chunk"
        /\ \A y \in Procs : y # Child(k) => proc'[y] = proc[y]
        /\ proc'[Child(k)].arches = arches /\ proc'[Child(k)].left = arches
    <3>1. proc'[Child(k)] =
            [pc |-> IF SpecMissing(k) THEN "fail" ELSE "next",
             key |-> k, ver |-> newest[k], reqs |-> Rows[k][newest[k]],
             arches |-> arches, left |-> arches, arch |-> Src, toStage |-> {}, specver |-> 0]
      BY <1>5, SpawnStarts
    <3>. QED
      BY <1>5, <3>1, SpawnStarts
  <2>2. CASE x # Child(k)
    BY <1>1, <2>1, <2>2 DEF RootsAreOwn, InWaves
  <2>3. CASE x = Child(k)
    BY <2>1, <2>3 DEF UsesOwn
  <2>. QED
    BY <2>2, <2>3
<1>6. CASE OtherEdit
  BY <1>6 DEF OtherEdit
<1>7. ASSUME NEW y \in Procs, ChildStep(y) PROVE UsesOwn(x)'
  <2>1. /\ UNCHANGED driverVars /\ ProcStep(y) /\ InWaves /\ failed = {} /\ UsesOwn(x)
        /\ run' = run /\ needs' = needs
    BY <1>7 DEF ChildStep, driverVars, InWaves, RootsAreOwn
  <2>2. proc[y].pc \in Running /\ proc'[y].key = proc[y].key
        /\ \A z \in Procs : z # y => proc'[z] = proc[z]
    BY <2>1, StepTouches
  <2>3. y[1] = run /\ proc[y].key = y[2] /\ y[2] \in kids /\ phase = "chunk"
    <3>1. ChildrenAwaited
      BY <2>1 DEF OnlyAwaited, InWaves
    <3>. QED
      BY <2>2, <3>1 DEF ChildrenAwaited, Child
  <2>. SUFFICES ASSUME x[1] = run, Alive(x)' PROVE UsesOwn(x)'
    BY <2>1 DEF UsesOwn
  <2>4. CASE x = y
    <3>1. proc[y].arches = arches
      BY <2>1, <2>2, <2>3 DEF ChildrenRight, ChildRight, Alive
    <3>2. ASSUME NEW d, <<y[2], d>> \in needs
          PROVE  d \in proc[y].reqs /\ d \in goal \ Waiting
      <4>1. d \in goal /\ <<y[2], d>> \in PlannedNeeds(goal)
        BY <2>3, <3>2 DEF DriverType, NeedsEnded
      <4>2. d \in Rows[y[2]][newest[y[2]]]
        BY <4>1 DEF PlannedNeeds
      <4>. QED
        BY <2>2, <2>3, <3>2, <4>1, <4>2 DEF NeedsEnded, ReqsAreRows
    <3>3. ASSUME NEW d, <<y[2], d>> \in needs, proc[y].arch \in proc[y].arches,
                 DepRpm(y, d).there
          PROVE  DepRpm(y, d).by = Child(d)
      BY <2>1, <3>1, <3>2, <3>3, NewestIsOwn DEF DepRpm
    <3>. QED
      BY <2>1, <2>3, <2>4, <3>2, <3>3, OwnRootKept
  <2>5. CASE x # y
    <3>1. proc'[x] = proc[x] /\ Alive(x)
      BY <2>2, <2>5 DEF Alive
    <3>2. proc[x].key = x[2] /\ proc[x] \in Process
      BY <2>1, <3>1, ProcessFields DEF ChildrenRight, ChildRight, Alive, Running
    <3>3. x[2] \in Pkgs /\ x[2] # proc[y].key /\ proc[x].arches \subseteq Arches
      BY <2>3, <2>5, <3>2, ChildIsPair DEF Process
    <3>4. \A a \in proc[x].arches : sysroot'[<<x[2], a>>] = sysroot[<<x[2], a>>]
      BY <2>1, <3>3, OtherRootsKept
    <3>. QED
      BY <2>1, <3>1, <3>4 DEF UsesOwn, Alive, Child
  <2>. QED
    BY <2>4, <2>5
<1>. QED
  BY <1>2, <1>3, <1>4, <1>5, <1>6, <1>7, NextCases

\* A run of build-all that returns Ok built nothing against a library of an
\* earlier run, if nobody adds a version meanwhile and sysroots can be cleared:
\* every RPM of a planned package that it unpacked is one that it built.
THEOREM OkRunsUseTheirOwn ==
  (~Orphans \/ MaxRuns = 1) /\ ~Edits /\ ~ClearFails => (Spec => []OkRunUsedItsOwn)
<1>. SUFFICES ASSUME ~Orphans \/ MaxRuns = 1, ~Edits, ~ClearFails
              PROVE  Spec => []OkRunUsedItsOwn
  OBVIOUS
<1>. DEFINE Inv == ReqsAreRows /\ NeedsEnded /\ RootsAreOwn
            Known == BuildTypeOK /\ RunGiven /\ SpecBehind /\ NoneAhead /\ RunInv
<1>1. Init => Inv
  BY DEF Init, BuildInit, Idle, Running, ReqsAreRows, NeedsEnded, RootsAreOwn, InWaves
<1>2. Known /\ Known' /\ Inv /\ [Next]_vars => Inv'
  <2>. SUFFICES ASSUME Known, Known', Inv, [Next]_vars PROVE Inv'
    OBVIOUS
  <2>1. ReqsAreRows' /\ newest' = newest
    BY ReqsStay
  <2>2. NeedsEnded'
    BY <2>1, NeedsEndedStays DEF RunInv
  <2>3. RootsAreOwn'
    BY BuildAssumption, RootsStay DEF RunInv
  <2>. QED
    BY <2>1, <2>2, <2>3
<1>3. Known /\ Inv => OkRunUsedItsOwn
  <2>. SUFFICES ASSUME Known, Inv, phase = "ok", NEW k \in goal, NEW a \in arches,
                       NEW e \in sysroot[<<k, a>>], <<k, e[1]>> \in needs
                PROVE  e[2] = Child(e[1])
    BY DEF OkRunUsedItsOwn
  <2>1. k \in Pkgs /\ Child(k) \in Procs /\ Child(k)[1] = run /\ Child(k)[2] = k
    BY BuildAllAssumption DEF RunInv, DriverType, RunGiven, Child
  <2>2. proc[Child(k)].pc = "ok" /\ failed = {}
    BY DEF RunInv, EndedWell
  <2>3. proc[Child(k)].arches = arches /\ proc[Child(k)].left = {}
    BY <2>1, <2>2 DEF RunInv, ChildrenRight, InWaves, ChildRight, Alive, Given
  <2>4. UsesOwn(Child(k))
    BY <2>1, <2>2 DEF RootsAreOwn, InWaves
  <2>. QED
    BY <2>1, <2>2, <2>3, <2>4 DEF UsesOwn, Alive
<1>4. Spec => []Known
  BY RunInvariant, RunsAreBuilds, BuildTypeCorrect, NoRpmAhead, PTL
<1>. QED
  BY <1>1, <1>2, <1>3, <1>4, PTL DEF Spec
=============================================================================
