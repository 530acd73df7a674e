---------------------------- MODULE BuildProofs ----------------------------
(***************************************************************************)
(* What TLAPS proves about Build for any packages, arches, versions and    *)
(* number of builds, overlapping or not.                                   *)
(***************************************************************************)
EXTENDS Build, TLAPS

\* A process with a program counter other than "idle" has all its fields.
LEMMA ProcessFields ==
  ASSUME BuildTypeOK, NEW x \in Procs, proc[x].pc # "idle"
  PROVE  proc[x] \in Process
BY DEF BuildTypeOK, Idle

\* Moving a process to a control point of the code keeps its type.
LEMMA GotoType ==
  ASSUME BuildTypeOK, NEW x \in Procs, proc[x].pc # "idle",
         proc[x].pc \in Running, NEW pc \in Running \cup Ended, Goto(x, pc)
  PROVE  /\ proc' \in [Procs -> {Idle} \cup Process]
         /\ \A y \in Procs : proc'[y].pc \in Running => spec[proc'[y].key] \in Versions
<1>1. proc[x] \in Process
  BY ProcessFields
<1>2. [proc[x] EXCEPT !.pc = pc] \in Process
  BY <1>1 DEF Process
<1>. QED
  BY <1>1, <1>2 DEF BuildTypeOK, Goto, Process

\* A tree that earlier builds left has the types of one.
LEMMA BuildInitType == BuildAssumption /\ BuildInit => BuildTypeOK
<1>. SUFFICES ASSUME BuildAssumption, BuildInit PROVE BuildTypeOK
  OBVIOUS
<1>1. PICK built \in SUBSET Pkgs, bumped \in {S \in SUBSET Pkgs : S = {} \/ MaxVer > 1} :
        Tree(built, bumped)
  BY DEF BuildInit
<1>2. 1 \in Versions /\ 0 \in 0..MaxVer /\ 1 \in 0..MaxVer /\ (bumped # {} => 2 \in Versions)
  BY DEF BuildAssumption, Versions
<1>3. newest \in [Pkgs -> Versions] /\ spec \in [Pkgs -> 0..MaxVer]
  BY <1>1, <1>2 DEF Tree
<1>4. rpm \in [Pkgs \X Versions \X Files -> RpmFile]
  BY <1>1 DEF Tree, RpmFile, Rpm, Absent
<1>5. results \in [Pkgs \X Versions \X Arches -> {"none", "ok", "ok-nopath", "fail"}]
  BY <1>1 DEF Tree
<1>6. sysroot \in [Pkgs \X Arches -> SUBSET (Pkgs \X (Procs \cup {Prior}))]
  <2>1. \A k \in Pkgs : Rows[k][1] \subseteq Pkgs
    BY <1>2 DEF BuildAssumption
  <2>. QED
    BY <1>1, <2>1 DEF Tree
<1>7. /\ proc \in [Procs -> {Idle} \cup Process]
      /\ \A x \in Procs : proc[x].pc \notin Running
  BY DEF BuildInit, Idle, Running
<1>. QED
  BY <1>3, <1>4, <1>5, <1>6, <1>7 DEF BuildTypeOK

\* The actions of the operator keep every type.
LEMMA OperatorType ==
  ASSUME BuildAssumption, BuildTypeOK, Operator
  PROVE  BuildTypeOK'
<1>1. ASSUME NEW k \in Pkgs, GenSpec(k) PROVE BuildTypeOK'
  <2>1. newest[k] \in 0..MaxVer /\ spec[k] \in 0..MaxVer
    BY DEF BuildTypeOK, BuildAssumption, Versions
  <2>2. PICK v \in {newest[k], spec[k]} : spec' = [spec EXCEPT ![k] = v]
    BY <1>1 DEF GenSpec
  <2>3. v \in 0..MaxVer /\ (spec[k] \in Versions => v \in Versions)
    BY <2>1, <2>2 DEF BuildTypeOK
  <2>. QED
    BY <1>1, <2>2, <2>3 DEF GenSpec, BuildTypeOK
<1>2. ASSUME NEW k \in Pkgs, AddVersion(k) PROVE BuildTypeOK'
  <2>1. newest[k] + 1 \in Versions
    BY <1>2 DEF AddVersion, BuildTypeOK, BuildAssumption, Versions
  <2>. QED
    BY <1>2, <2>1 DEF AddVersion, BuildTypeOK
<1>3. ASSUME NEW k \in Pkgs, NEW x \in Procs, NEW archs \in SUBSET Arches, Invoke(x, k, archs)
      PROVE  BuildTypeOK'
  <2>1. newest[k] \in Versions /\ Rows[k][newest[k]] \subseteq Pkgs
    BY DEF BuildTypeOK, BuildAssumption
  <2>2. proc'[x] \in Process /\ proc'[x].pc \in {"fail", "next"}
    BY <1>3, <2>1 DEF Invoke, Process, Running, Ended, Files, BuildAssumption, BuildTypeOK
  <2>3. proc'[x].pc \in Running => spec[proc'[x].key] \in Versions
    BY <1>3 DEF Invoke, SpecMissing, Running, BuildTypeOK, BuildAssumption, Versions
  <2>. QED
    BY <1>3, <2>2, <2>3 DEF Invoke, BuildTypeOK
<1>. QED
  BY <1>1, <1>2, <1>3 DEF Operator

\* The steps of a build keep every type.
LEMMA ProcStepType ==
  ASSUME BuildAssumption, BuildTypeOK, NEW x \in Procs, ProcStep(x)
  PROVE  BuildTypeOK'
<1>. DEFINE P == proc[x]
<1>1. P.pc \in Running /\ P.pc # "idle"
  BY DEF ProcStep, NextArch, Stage, StartRpmbuild, RpmbuildOk, RpmbuildFails, Record,
         Sign, SignSrpm, Die, Running
<1>2. P \in Process
  BY <1>1, ProcessFields
<1>3. ASSUME NEW a \in Arches, NextArch(x, a) PROVE BuildTypeOK'
  <2>1. PICK c \in Cleared(x, a) : sysroot' = [sysroot EXCEPT ![<<P.key, a>>] = c]
    BY <1>3 DEF NextArch
  <2>2. sysroot[<<P.key, a>>] \in SUBSET (Pkgs \X (Procs \cup {Prior}))
    BY <1>2 DEF BuildTypeOK, Process
  <2>3. c \in SUBSET (Pkgs \X (Procs \cup {Prior}))
    BY <2>2 DEF Cleared
  <2>4. sysroot' \in [Pkgs \X Arches -> SUBSET (Pkgs \X (Procs \cup {Prior}))]
    BY <1>2, <2>1, <2>3 DEF BuildTypeOK
  <2>5. proc' = [proc EXCEPT ![x] = [P EXCEPT !.pc = "stage", !.arch = a,
                   !.left = P.left \ {a}, !.toStage = P.reqs]]
    BY <1>3 DEF NextArch
  <2>6. proc'[x] \in Process /\ proc'[x].key = P.key
    BY <1>2, <2>5 DEF BuildTypeOK, Process, Files, Running
  <2>7. \A y \in Procs : y # x => proc'[y] = proc[y]
    BY <2>5 DEF BuildTypeOK
  <2>8. proc' \in [Procs -> {Idle} \cup Process]
    BY <2>5, <2>6 DEF BuildTypeOK
  <2>9. \A y \in Procs : proc'[y].pc \in Running => spec[proc'[y].key] \in Versions
    BY <1>1, <2>6, <2>7 DEF BuildTypeOK
  <2>10. UNCHANGED <<newest, spec, rpm, results>>
    BY <1>3 DEF NextArch
  <2>. QED
    BY <2>4, <2>8, <2>9, <2>10 DEF BuildTypeOK
<1>4. ASSUME NEW d \in Pkgs, Stage(x, d) PROVE BuildTypeOK'
  <2>1. CASE ~DepRpm(x, d).there
    <3>1. Goto(x, "fail") /\ sysroot' = sysroot
      BY <1>4, <2>1 DEF Stage
    <3>2. "fail" \in Running \cup Ended
      BY DEF Ended
    <3>3. /\ proc' \in [Procs -> {Idle} \cup Process]
          /\ \A y \in Procs : proc'[y].pc \in Running => spec[proc'[y].key] \in Versions
      BY <1>1, <3>1, <3>2, GotoType
    <3>4. UNCHANGED <<newest, spec, rpm, results, sysroot>>
      BY <1>4, <3>1 DEF Stage
    <3>. QED
      BY <3>3, <3>4 DEF BuildTypeOK
  <2>2. CASE DepRpm(x, d).there
    <3>1. P.arch \in Arches \/ P.arch = Src
      BY <1>2 DEF Process, Files
    <3>2. DepRpm(x, d) \in RpmFile
      BY <1>2 DEF DepRpm, BuildTypeOK, Process
    <3>3. DepRpm(x, d).by \in Procs \cup {Prior}
      <4>1. DepRpm(x, d) # Absent
        BY <2>2 DEF Absent
      <4>2. DepRpm(x, d) \in [there : {TRUE}, by : Procs \cup {Prior}, signed : BOOLEAN]
        BY <3>2, <4>1 DEF RpmFile
      <4>. QED
        BY <4>2
    <3>4. /\ sysroot' = [sysroot EXCEPT ![<<P.key, P.arch>>] = @ \cup {<<d, DepRpm(x, d).by>>}]
          /\ proc' = [proc EXCEPT ![x] = [P EXCEPT !.toStage = P.toStage \ {d}]]
      BY <1>4, <2>2 DEF Stage
    <3>5. sysroot' \in [Pkgs \X Arches -> SUBSET (Pkgs \X (Procs \cup {Prior}))]
      <4>1. <<d, DepRpm(x, d).by>> \in Pkgs \X (Procs \cup {Prior})
        BY <3>3
      <4>. QED
        BY <3>4, <4>1 DEF BuildTypeOK
    <3>6. proc'[x] \in Process /\ proc'[x].pc = "stage"
      BY <1>2, <1>4, <3>4 DEF BuildTypeOK, Process, Stage
    <3>. QED
      BY <1>4, <3>4, <3>5, <3>6 DEF Stage, BuildTypeOK
  <2>. QED
    BY <2>1, <2>2
<1>5. CASE StartRpmbuild(x)
  <2>1. proc' = [proc EXCEPT ![x] = [P EXCEPT !.pc = "rpmbuild", !.specver = spec[P.key]]]
    BY <1>5 DEF StartRpmbuild
  <2>2. proc'[x] \in Process
    BY <1>2, <2>1 DEF BuildTypeOK, Process, Running
  <2>. QED
    BY <1>1, <1>5, <2>1, <2>2 DEF StartRpmbuild, BuildTypeOK
<1>6. CASE RpmbuildOk(x)
  <2>1. Goto(x, "record") /\ "record" \in Running \cup Ended
    BY <1>6 DEF RpmbuildOk, Running
  <2>2. rpm' \in [Pkgs \X Versions \X Files -> RpmFile]
    BY <1>6 DEF RpmbuildOk, BuildTypeOK, RpmFile, Rpm
  <2>. QED
    BY <1>1, <1>6, <2>1, <2>2, GotoType DEF RpmbuildOk, BuildTypeOK
<1>7. CASE Record(x) \/ RpmbuildFails(x)
  <2>1. PICK pc \in Running \cup Ended : Goto(x, pc)
    BY <1>7 DEF Record, RpmbuildFails, Running, Ended
  <2>2. results' \in [Pkgs \X Versions \X Arches -> {"none", "ok", "ok-nopath", "fail"}]
    BY <1>7 DEF Record, RpmbuildFails, Outcome, BuildTypeOK
  <2>. QED
    BY <1>1, <1>7, <2>1, <2>2, GotoType DEF Record, RpmbuildFails, BuildTypeOK
<1>8. CASE Sign(x) \/ SignSrpm(x)
  <2>1. PICK pc \in Running \cup Ended : Goto(x, pc)
    BY <1>8 DEF Sign, SignSrpm, Running, Ended
  <2>2. PICK f : rpm' = Signed(f)
    BY <1>8 DEF Sign, SignSrpm
  <2>3. \A g \in RpmFile : g.there => [g EXCEPT !.signed = TRUE] \in RpmFile
    BY DEF RpmFile, Absent
  <2>4. rpm' \in [Pkgs \X Versions \X Files -> RpmFile]
    BY <2>2, <2>3 DEF Signed, BuildTypeOK
  <2>. QED
    BY <1>1, <1>8, <2>1, <2>4, GotoType DEF Sign, SignSrpm, BuildTypeOK
<1>9. CASE Die(x)
  <2>1. Goto(x, "fail") /\ "fail" \in Running \cup Ended
    BY <1>9 DEF Die, Ended
  <2>. QED
    BY <1>1, <1>9, <2>1, GotoType DEF Die, BuildTypeOK
<1>. QED
  BY <1>3, <1>4, <1>5, <1>6, <1>7, <1>8, <1>9 DEF ProcStep

\* Every variable keeps its type, and no build runs without a spec file.
THEOREM BuildTypeCorrect == BuildSpec => []BuildTypeOK
<1>1. BuildTypeOK /\ [BuildNext]_buildVars => BuildTypeOK'
  <2>. SUFFICES ASSUME BuildTypeOK, [BuildNext]_buildVars PROVE BuildTypeOK'
    OBVIOUS
  <2>1. CASE UNCHANGED buildVars
    BY <2>1 DEF buildVars, BuildTypeOK
  <2>. QED
    BY <2>1, BuildAssumption, OperatorType, ProcStepType DEF BuildNext
<1>. QED
  BY <1>1, BuildAssumption, BuildInitType, PTL DEF BuildSpec

-----------------------------------------------------------------------------
\* What a step must keep for one unsigned file f on disk.
InHand(f) ==
  rpm[f].there /\ ~rpm[f].signed =>
    /\ rpm[f].by \in Procs /\ proc[rpm[f].by].pc # "idle" /\ proc[rpm[f].by].key = f[1]
    /\ f[2] = proc[rpm[f].by].ver /\ proc[rpm[f].by].pc # "fail" =>
         /\ proc[rpm[f].by].pc \in Running
         /\ f[3] = Src \/ (f[3] = proc[rpm[f].by].arch
                           /\ proc[rpm[f].by].pc \in {"record", "sign"})

\* UnsignedInHand, one file at a time.
LEMMA InHandAll == UnsignedInHand <=> \A f \in DOMAIN rpm : InHand(f)
BY DEF UnsignedInHand, InHand

\* The operator only starts builds that have written nothing yet.
LEMMA OperatorInHand ==
  ASSUME BuildTypeOK, Operator, NEW f \in Pkgs \X Versions \X Files, InHand(f)
  PROVE  InHand(f)'
<1>1. CASE \E k \in Pkgs : GenSpec(k) \/ AddVersion(k)
  BY <1>1 DEF GenSpec, AddVersion, InHand
<1>2. ASSUME NEW k \in Pkgs, NEW x \in Procs, NEW archs \in SUBSET Arches, Invoke(x, k, archs)
      PROVE  InHand(f)'
  <2>1. proc[x].pc = "idle" /\ rpm' = rpm /\ \A y \in Procs : y # x => proc'[y] = proc[y]
    BY <1>2 DEF Invoke, Idle, BuildTypeOK
  <2>. QED
    BY <2>1 DEF InHand
<1>. QED
  BY <1>1, <1>2 DEF Operator

\* A build signs what it wrote for an arch before it goes on to the next, and
\* the SRPM before it ends.
LEMMA ProcStepInHand ==
  ASSUME BuildAssumption, BuildTypeOK, NEW x \in Procs, ProcStep(x),
         NEW f \in Pkgs \X Versions \X Files, InHand(f)
  PROVE  InHand(f)'
<1>1. proc[x].pc \in Running /\ proc[x].pc # "idle"
  BY DEF ProcStep, NextArch, Stage, StartRpmbuild, RpmbuildOk, RpmbuildFails, Record,
         Sign, SignSrpm, Die, Running
<1>2. proc[x] \in Process
  BY <1>1, ProcessFields
<1>3. \A y \in Procs : y # x => proc'[y] = proc[y]
  BY DEF ProcStep, NextArch, Stage, StartRpmbuild, RpmbuildOk, RpmbuildFails, Record,
         Sign, SignSrpm, Die, Goto, BuildTypeOK
<1>. DEFINE P == proc[x]
            Keeps == proc'[x].key = P.key /\ proc'[x].ver = P.ver
<1>4. ASSUME NEW pc, Goto(x, pc)
      PROVE  Keeps /\ proc'[x].pc = pc /\ proc'[x].arch = P.arch
  BY <1>2, <1>4 DEF Goto, BuildTypeOK, Process
<1>5. ASSUME NEW a \in Arches, NextArch(x, a) PROVE InHand(f)'
  <2>1. Keeps /\ proc'[x].pc = "stage" /\ P.pc = "next"
    BY <1>2, <1>5 DEF NextArch, BuildTypeOK, Process
  <2>. QED
    BY <1>3, <1>5, <2>1 DEF NextArch, InHand, Running
<1>6. ASSUME NEW d \in Pkgs, Stage(x, d) PROVE InHand(f)'
  <2>1. Keeps /\ proc'[x].pc \in {"stage", "fail"} /\ P.pc = "stage" /\ rpm' = rpm
    BY <1>2, <1>4, <1>6 DEF Stage, BuildTypeOK, Process
  <2>. QED
    BY <1>3, <2>1 DEF InHand, Running
<1>7. CASE StartRpmbuild(x)
  <2>1. Keeps /\ proc'[x].pc = "rpmbuild" /\ P.pc = "stage" /\ rpm' = rpm
    BY <1>2, <1>7 DEF StartRpmbuild, BuildTypeOK, Process
  <2>. QED
    BY <1>3, <2>1 DEF InHand, Running
<1>8. CASE RpmbuildFails(x) \/ Record(x) \/ Die(x)
  <2>1. /\ Keeps /\ proc'[x].arch = P.arch /\ rpm' = rpm
        /\ proc'[x].pc = "fail" \/ (P.pc = "record" /\ proc'[x].pc = "sign")
    BY <1>4, <1>8 DEF RpmbuildFails, Record, Die
  <2>. QED
    BY <1>3, <2>1 DEF InHand, Running
<1>9. CASE RpmbuildOk(x)
  <2>1. /\ Keeps /\ proc'[x].arch = P.arch /\ P.pc = "rpmbuild" /\ proc'[x].pc = "record"
        /\ rpm'[f] = IF f \in Written(x) THEN Rpm(x, FALSE) ELSE rpm[f]
    BY <1>4, <1>9 DEF RpmbuildOk, BuildTypeOK
  <2>2. CASE f \in Written(x)
    <3>1. f[1] = P.key /\ f[3] \in {P.arch, Src}
      BY <2>2 DEF Written
    <3>. QED
      BY <2>1, <2>2, <3>1 DEF InHand, Rpm, Running
  <2>3. CASE f \notin Written(x)
    <3>1. rpm'[f] = rpm[f]
      BY <2>1, <2>3
    <3>2. SUFFICES ASSUME rpm[f].there /\ ~rpm[f].signed, rpm[f].by \in Procs
                   PROVE  InHand(f)'
      BY <3>1 DEF InHand
    <3>3. CASE rpm[f].by # x
      BY <1>3, <3>1, <3>2, <3>3 DEF InHand
    <3>4. CASE rpm[f].by = x
      BY <2>1, <3>1, <3>2, <3>4 DEF InHand, Running
    <3>. QED
      BY <3>3, <3>4
  <2>. QED
    BY <2>2, <2>3
<1>10. CASE Sign(x)
  <2>1. /\ Keeps /\ proc'[x].arch = P.arch /\ P.pc = "sign" /\ proc'[x].pc = "next"
        /\ f # Result(x) => rpm'[f] = rpm[f]
        /\ f = Result(x) => ~(rpm'[f].there /\ ~rpm'[f].signed)
    BY <1>4, <1>10 DEF Sign, Signed, BuildTypeOK, RpmFile, Absent
  <2>2. CASE f = Result(x)
    BY <2>1, <2>2 DEF InHand
  <2>3. CASE f # Result(x)
    <3>1. f[1] = P.key /\ f[2] = P.ver => f[3] # P.arch
      BY <2>3 DEF Result
    <3>2. rpm'[f] = rpm[f]
      BY <2>1, <2>3
    <3>3. CASE rpm[f].by = x
      BY <2>1, <3>1, <3>2, <3>3 DEF InHand, Running
    <3>4. CASE rpm[f].by # x
      BY <1>3, <3>2, <3>4 DEF InHand
    <3>. QED
      BY <3>3, <3>4
  <2>. QED
    BY <2>2, <2>3
<1>11. CASE SignSrpm(x)
  <2>. DEFINE g == <<P.key, P.ver, Src>>
  <2>1. /\ Keeps /\ P.pc = "next" /\ proc'[x].pc = "ok"
        /\ f # g => rpm'[f] = rpm[f]
        /\ f = g => ~(rpm'[f].there /\ ~rpm'[f].signed)
    BY <1>4, <1>11 DEF SignSrpm, Signed, BuildTypeOK, RpmFile, Absent
  <2>2. CASE f = g
    BY <2>1, <2>2 DEF InHand
  <2>3. CASE f # g
    <3>1. f[1] = P.key /\ f[2] = P.ver => f[3] # Src
      BY <2>3
    <3>. QED
      BY <1>3, <2>1, <2>3, <3>1 DEF InHand, Running
  <2>. QED
    BY <2>2, <2>3
<1>. QED
  BY <1>5, <1>6, <1>7, <1>8, <1>9, <1>10, <1>11 DEF ProcStep

\* While a build goes on, what it left unsigned is what it will still sign.
THEOREM UnsignedIsInHand == BuildSpec => []UnsignedInHand
<1>1. BuildInit => UnsignedInHand
  BY DEF BuildInit, Tree, UnsignedInHand, Rpm, Absent
<1>2. BuildTypeOK /\ UnsignedInHand /\ [BuildNext]_buildVars => UnsignedInHand'
  <2>. SUFFICES ASSUME BuildTypeOK, UnsignedInHand, [BuildNext]_buildVars, BuildTypeOK'
                PROVE  UnsignedInHand'
    <3>1. BuildTypeOK /\ [BuildNext]_buildVars => BuildTypeOK'
      BY BuildAssumption, OperatorType, ProcStepType DEF BuildNext, buildVars, BuildTypeOK
    <3>. QED
      BY <3>1
  <2>1. DOMAIN rpm = Pkgs \X Versions \X Files /\ DOMAIN rpm' = Pkgs \X Versions \X Files
    BY DEF BuildTypeOK
  <2>2. ASSUME NEW f \in Pkgs \X Versions \X Files PROVE InHand(f)'
    <3>1. InHand(f)
      BY <2>1, InHandAll
    <3>2. CASE UNCHANGED buildVars
      BY <3>1, <3>2 DEF buildVars, InHand
    <3>. QED
      BY <3>1, <3>2, BuildAssumption, OperatorInHand, ProcStepInHand DEF BuildNext
  <2>. QED
    BY <2>1, <2>2, InHandAll DEF UnsignedInHand, InHand
<1>. QED
  BY <1>1, <1>2, BuildTypeCorrect, PTL DEF BuildSpec

\* No build that ended well leaves an unsigned RPM or SRPM of the version it
\* built, whatever other builds and edits ran beside it.
THEOREM NothingLeftUnsigned == BuildSpec => []SignedOrUnfinished
<1>1. UnsignedInHand => SignedOrUnfinished
  BY DEF UnsignedInHand, SignedOrUnfinished, Running
<1>. QED
  BY <1>1, UnsignedIsInHand, PTL
=============================================================================
