---------------------------- MODULE BuildAloneProofs ------------------------
(***************************************************************************)
(* What TLAPS proves about Build when nobody builds a package twice at the *)
(* same time: what exit 0 means, and what rpmbuild finds in its sysroot.   *)
(***************************************************************************)
EXTENDS BuildProofs

-----------------------------------------------------------------------------
(* What a build that exits 0 has recorded, one build of a package at a time. *)

\* There is a result, and a result that names an RPM names a signed one.
SignedResult(f) ==
  results[f] = "ok-nopath" \/ (results[f] = "ok" /\ rpm[f].there /\ rpm[f].signed)

Of(x, a) == <<proc[x].key, proc[x].ver, a>>

\* A running build has such a result for every arch it has left behind; before
\* it signs, the RPM it recorded is there.
Settles(x) ==
  proc[x].pc \in Running =>
    /\ \A a \in proc[x].arches \ proc[x].left :
         SignedResult(Of(x, a)) \/ (a = proc[x].arch /\ proc[x].pc # "next")
    /\ proc[x].pc = "sign" =>
         results[Of(x, proc[x].arch)] \in {"ok", "ok-nopath"}
           /\ (results[Of(x, proc[x].arch)] = "ok" => rpm[Of(x, proc[x].arch)].there)
    /\ proc[x].pc # "next" => proc[x].arch \in Arches

Alone ==
  \A x, y \in Procs : x # y /\ proc[x].pc \in Running /\ proc[y].pc \in Running =>
    proc[x].key # proc[y].key

\* gen_spec, ver add and a new build change nothing a running build has settled.
LEMMA OperatorSettles ==
  ASSUME Exclusive, BuildTypeOK, Alone, \A x \in Procs : Settles(x), Operator
  PROVE  Alone' /\ \A x \in Procs : Settles(x)'
<1>1. CASE \E k \in Pkgs : GenSpec(k) \/ AddVersion(k)
  <2>1. UNCHANGED <<proc, rpm, results>>
    BY <1>1 DEF GenSpec, AddVersion
  <2>2. Alone'
    BY <2>1 DEF Alone
  <2>3. ASSUME NEW y \in Procs PROVE Settles(y)'
    BY <2>1 DEF Settles, SignedResult, Of
  <2>. QED
    BY <2>2, <2>3
<1>2. ASSUME NEW k \in Pkgs, ~Busy(k), NEW x \in Procs, NEW archs \in SUBSET Arches,
             Invoke(x, k, archs)
      PROVE  Alone' /\ \A y \in Procs : Settles(y)'
  <2>1. /\ proc'[x].key = k /\ proc'[x].pc \in {"next", "fail"}
        /\ proc'[x].arches = archs /\ proc'[x].left = archs
        /\ \A y \in Procs : y # x => proc'[y] = proc[y]
        /\ UNCHANGED <<rpm, results>>
    BY <1>2 DEF Invoke, BuildTypeOK
  <2>2. Alone'
    BY <1>2, <2>1 DEF Alone, Busy
  <2>3. Settles(x)'
    BY <2>1 DEF Settles, Running
  <2>4. ASSUME NEW y \in Procs, y # x PROVE Settles(y)'
    <3>1. proc'[y] = proc[y] /\ Settles(y)
      BY <2>1, <2>4
    <3>. QED
      BY <2>1, <3>1 DEF Settles, SignedResult, Of
  <2>. QED
    BY <2>2, <2>3, <2>4
<1>. QED
  BY <1>1, <1>2 DEF Operator

\* What is on disk and recorded of the other packages.
RestKept(x) ==
  \A k \in Pkgs, v \in Versions : k # proc[x].key =>
    /\ \A g \in Files : rpm'[<<k, v, g>>] = rpm[<<k, v, g>>]
    /\ \A a \in Arches : results'[<<k, v, a>>] = results[<<k, v, a>>]

\* A step is of a running build, which keeps its package and version, and
\* touches no other package.
LEMMA StepTouches ==
  ASSUME BuildTypeOK, NEW x \in Procs, ProcStep(x)
  PROVE  /\ proc[x] \in Process /\ proc[x].pc \in Running
         /\ proc'[x].key = proc[x].key /\ proc'[x].ver = proc[x].ver
         /\ \A y \in Procs : y # x => proc'[y] = proc[y]
         /\ RestKept(x)
<1>1. proc[x].pc \in Running /\ proc[x].pc # "idle"
  BY DEF ProcStep, NextArch, Stage, StartRpmbuild, RpmbuildOk, RpmbuildFails, Record,
         Sign, SignSrpm, Die, Running
<1>2. proc[x] \in Process
  BY <1>1, ProcessFields
<1>3. \A y \in Procs : y # x => proc'[y] = proc[y]
  BY DEF ProcStep, NextArch, Stage, StartRpmbuild, RpmbuildOk, RpmbuildFails, Record,
         Sign, SignSrpm, Die, Goto, BuildTypeOK
<1>. DEFINE Keeps == proc'[x].key = proc[x].key /\ proc'[x].ver = proc[x].ver
<1>4. ASSUME NEW pc, Goto(x, pc) PROVE Keeps
  BY <1>2, <1>4 DEF Goto, BuildTypeOK, Process
<1>5. ASSUME UNCHANGED <<rpm, results>> PROVE RestKept(x)
  BY <1>5 DEF RestKept
<1>6. ASSUME NEW a \in Arches, NextArch(x, a) PROVE Keeps /\ RestKept(x)
  BY <1>2, <1>5, <1>6 DEF NextArch, BuildTypeOK, Process
<1>7. ASSUME NEW d \in Pkgs, Stage(x, d) PROVE Keeps /\ RestKept(x)
  BY <1>2, <1>4, <1>5, <1>7 DEF Stage, BuildTypeOK, Process
<1>8. ASSUME StartRpmbuild(x) PROVE Keeps /\ RestKept(x)
  BY <1>2, <1>5, <1>8 DEF StartRpmbuild, BuildTypeOK, Process
<1>9. ASSUME RpmbuildOk(x) PROVE Keeps /\ RestKept(x)
  <2>1. /\ rpm' = [f \in DOMAIN rpm |-> IF f \in Written(x) THEN Rpm(x, FALSE) ELSE rpm[f]]
        /\ results' = results /\ DOMAIN rpm = Pkgs \X Versions \X Files
    BY <1>9 DEF RpmbuildOk, BuildTypeOK
  <2>2. ASSUME NEW k \in Pkgs, NEW v \in Versions, NEW g \in Files, k # proc[x].key
        PROVE  rpm'[<<k, v, g>>] = rpm[<<k, v, g>>]
    <3>1. <<k, v, g>> \notin Written(x) /\ <<k, v, g>> \in DOMAIN rpm
      BY <2>1, <2>2 DEF Written
    <3>. QED
      BY <2>1, <3>1
  <2>. QED
    BY <1>4, <1>9, <2>1, <2>2 DEF RpmbuildOk, RestKept
<1>10. ASSUME Record(x) \/ RpmbuildFails(x) PROVE Keeps /\ RestKept(x)
  <2>1. rpm' = rpm /\ \E r : results' = [results EXCEPT ![Result(x)] = r]
    BY <1>10 DEF Record, RpmbuildFails
  <2>2. RestKept(x)
    BY <2>1 DEF RestKept, Result, BuildTypeOK
  <2>. QED
    BY <1>4, <1>10, <2>2 DEF Record, RpmbuildFails
<1>11. ASSUME Sign(x) \/ SignSrpm(x) PROVE Keeps /\ RestKept(x)
  <2>1. results' = results /\ \E v, g : rpm' = Signed(<<proc[x].key, v, g>>)
    BY <1>11 DEF Sign, SignSrpm, Result
  <2>2. RestKept(x)
    BY <2>1 DEF RestKept, Signed, BuildTypeOK
  <2>. QED
    BY <1>4, <1>11, <2>2 DEF Sign, SignSrpm
<1>12. ASSUME Die(x) PROVE Keeps /\ RestKept(x)
  BY <1>4, <1>5, <1>12 DEF Die
<1>13. Keeps /\ RestKept(x)
  BY <1>6, <1>7, <1>8, <1>9, <1>10, <1>11, <1>12 DEF ProcStep
<1>. QED
  BY <1>1, <1>2, <1>3, <1>13

\* While one build of a package runs at a time, a step of another build leaves
\* what y has settled.
LEMMA OtherStepSettles ==
  ASSUME BuildTypeOK, Alone, NEW x \in Procs, ProcStep(x),
         NEW y \in Procs, y # x, Settles(y)
  PROVE  Settles(y)'
<1>1. proc'[y] = proc[y] /\ RestKept(x) /\ proc[x].pc \in Running
  BY StepTouches
<1>. SUFFICES ASSUME proc[y].pc \in Running PROVE Settles(y)'
  BY <1>1 DEF Settles
<1>2. proc[y] \in Process
  BY ProcessFields DEF Running
<1>3. proc[y].key # proc[x].key
  BY <1>1 DEF Alone
<1>4. \A a \in Arches : results'[Of(y, a)] = results[Of(y, a)] /\ rpm'[Of(y, a)] = rpm[Of(y, a)]
  BY <1>1, <1>2, <1>3 DEF RestKept, Of, Process, Files
<1>5. ASSUME NEW a \in proc[y].arches \ proc[y].left
      PROVE  SignedResult(Of(y, a))' \/ (a = proc'[y].arch /\ proc'[y].pc # "next")
  BY <1>1, <1>2, <1>4, <1>5 DEF Settles, SignedResult, Of, Process
<1>6. ASSUME proc[y].pc = "sign"
      PROVE  /\ results'[Of(y, proc[y].arch)] = results[Of(y, proc[y].arch)]
             /\ rpm'[Of(y, proc[y].arch)] = rpm[Of(y, proc[y].arch)]
  BY <1>4, <1>6 DEF Settles
<1>. QED
  BY <1>1, <1>5, <1>6 DEF Settles, Of

\* A build settles the arch at hand before it goes on to the next.
LEMMA OwnStepSettles ==
  ASSUME BuildAssumption, BuildTypeOK, NEW x \in Procs, ProcStep(x), Settles(x)
  PROVE  Settles(x)'
<1>. DEFINE P == proc[x]
            Q == proc'[x]
            At == Of(x, P.arch)
<1>1. P \in Process /\ P.pc \in Running /\ Q.key = P.key /\ Q.ver = P.ver
  BY StepTouches
<1>2. \A a : Of(x, a)' = Of(x, a)
  BY <1>1 DEF Of
<1>3. \A a \in P.arches : a \in Arches /\ a # Src /\ Of(x, a) \in Pkgs \X Versions \X Arches
                            /\ Of(x, a) \in Pkgs \X Versions \X Files
  BY <1>1, BuildAssumption DEF Of, Process, Files
<1>. DEFINE SameArch == Q.arch = P.arch /\ Q.arches = P.arches /\ Q.left = P.left
<1>4. ASSUME NEW pc, Goto(x, pc) PROVE Q.pc = pc /\ SameArch
  BY <1>1, <1>4 DEF Goto, BuildTypeOK, Process
<1>5. ASSUME Q.pc \notin Running PROVE Settles(x)'
  BY <1>5 DEF Settles
<1>6. ASSUME P.pc # "next", Q.pc \in {"stage", "rpmbuild", "record"}, SameArch,
             UNCHANGED <<rpm, results>>
      PROVE  Settles(x)'
  BY <1>1, <1>2, <1>6 DEF Settles, SignedResult
<1>7. ASSUME NEW a \in Arches, NextArch(x, a) PROVE Settles(x)'
  <2>1. /\ P.pc = "next" /\ Q.pc = "stage" /\ Q.arch = a /\ Q.arches = P.arches
        /\ Q.left = P.left \ {a} /\ UNCHANGED <<rpm, results>>
    BY <1>1, <1>7 DEF NextArch, BuildTypeOK, Process
  <2>. QED
    BY <1>1, <1>2, <2>1 DEF Settles, SignedResult
<1>8. ASSUME NEW d \in Pkgs, Stage(x, d) PROVE Settles(x)'
  <2>1. CASE DepRpm(x, d).there
    <3>1. P.pc = "stage" /\ Q.pc = "stage" /\ SameArch /\ UNCHANGED <<rpm, results>>
      BY <1>1, <1>8, <2>1 DEF Stage, BuildTypeOK, Process
    <3>. QED
      BY <1>6, <3>1
  <2>2. CASE ~DepRpm(x, d).there
    BY <1>4, <1>5, <1>8, <2>2 DEF Stage, Running
  <2>. QED
    BY <2>1, <2>2
<1>9. CASE StartRpmbuild(x)
  <2>1. P.pc = "stage" /\ Q.pc = "rpmbuild" /\ SameArch /\ UNCHANGED <<rpm, results>>
    BY <1>1, <1>9 DEF StartRpmbuild, BuildTypeOK, Process
  <2>. QED
    BY <1>6, <2>1
<1>10. CASE RpmbuildFails(x) \/ SignSrpm(x) \/ Die(x)
  <2>1. Q.pc \notin Running
    BY <1>4, <1>10 DEF RpmbuildFails, SignSrpm, Die, Running
  <2>. QED
    BY <1>5, <2>1
\* The steps that write for the arch at hand leave the other arches alone.
<1>11. ASSUME P.pc # "next", SameArch,
              \A a \in P.arches : a # P.arch =>
                results'[Of(x, a)] = results[Of(x, a)] /\ rpm'[Of(x, a)] = rpm[Of(x, a)]
       PROVE  \A a \in P.arches \ P.left : a # P.arch => SignedResult(Of(x, a))'
  BY <1>1, <1>2, <1>11 DEF Settles, SignedResult
<1>12. CASE RpmbuildOk(x)
  <2>1. P.pc = "rpmbuild" /\ Q.pc = "record" /\ SameArch /\ results' = results
    BY <1>4, <1>12 DEF RpmbuildOk
  <2>2. ASSUME NEW a \in P.arches, a # P.arch PROVE rpm'[Of(x, a)] = rpm[Of(x, a)]
    <3>1. Of(x, a) \notin Written(x) /\ Of(x, a) \in DOMAIN rpm
      BY <1>3, <2>2 DEF Of, Written, BuildTypeOK
    <3>. QED
      BY <1>12, <3>1 DEF RpmbuildOk
  <2>3. \A a \in P.arches \ P.left : a # P.arch => SignedResult(Of(x, a))'
    BY <1>11, <2>1, <2>2
  <2>. QED
    BY <1>1, <1>2, <2>1, <2>3 DEF Settles
<1>13. CASE Record(x)
  <2>1. P.pc = "record" /\ Q.pc = "sign" /\ SameArch /\ rpm' = rpm
    BY <1>4, <1>13 DEF Record
  <2>2. P.arch \in Arches /\ At \in Pkgs \X Versions \X Arches
    BY <1>1, <2>1 DEF Settles, Of, Process
  <2>3. /\ results'[At] = Outcome(x)
        /\ \A a \in P.arches : a # P.arch => results'[Of(x, a)] = results[Of(x, a)]
    BY <1>3, <1>13, <2>2 DEF Record, Result, Of, BuildTypeOK
  <2>4. results'[At] \in {"ok", "ok-nopath"} /\ (results'[At] = "ok" => rpm'[At].there)
    BY <2>1, <2>3 DEF Outcome, Result, Of
  <2>5. \A a \in P.arches \ P.left : a # P.arch => SignedResult(Of(x, a))'
    BY <1>11, <2>1, <2>3
  <2>. QED
    BY <1>1, <1>2, <2>1, <2>2, <2>4, <2>5 DEF Settles
<1>14. CASE Sign(x)
  <2>1. P.pc = "sign" /\ Q.pc = "next" /\ SameArch /\ results' = results /\ rpm' = Signed(At)
    BY <1>4, <1>14 DEF Sign, Result, Of
  <2>2. P.arch \in Arches /\ At \in DOMAIN rpm /\ rpm[At] \in RpmFile
    BY <1>1, <2>1 DEF Settles, Of, Process, BuildTypeOK, Files
  <2>3. \A a \in P.arches : a # P.arch => rpm'[Of(x, a)] = rpm[Of(x, a)]
    BY <1>3, <2>1 DEF Signed, Of, BuildTypeOK
  <2>4. rpm[At].there => rpm'[At].there /\ rpm'[At].signed
    <3>1. rpm'[At] = IF rpm[At].there THEN [rpm[At] EXCEPT !.signed = TRUE] ELSE rpm[At]
      BY <2>1, <2>2 DEF Signed, BuildTypeOK
    <3>. QED
      BY <2>2, <3>1 DEF RpmFile, Absent
  <2>5. SignedResult(At)'
    BY <1>1, <1>2, <2>1, <2>4 DEF Settles, SignedResult
  <2>6. \A a \in P.arches \ P.left : a # P.arch => SignedResult(Of(x, a))'
    BY <1>11, <2>1, <2>3
  <2>. QED
    BY <1>1, <1>2, <2>1, <2>5, <2>6 DEF Settles
<1>. QED
  BY <1>7, <1>8, <1>9, <1>10, <1>12, <1>13, <1>14 DEF ProcStep

\* With one build of a package at a time, no step undoes what another has settled.
LEMMA SettlesStays ==
  ASSUME Exclusive, BuildTypeOK, Alone, \A x \in Procs : Settles(x), [BuildNext]_buildVars
  PROVE  Alone' /\ \A x \in Procs : Settles(x)'
<1>1. CASE UNCHANGED buildVars
  <2>1. UNCHANGED <<proc, rpm, results>>
    BY <1>1 DEF buildVars
  <2>2. ASSUME NEW x \in Procs PROVE Settles(x)'
    BY <2>1 DEF Settles, SignedResult, Of
  <2>3. Alone'
    BY <2>1 DEF Alone
  <2>. QED
    BY <2>2, <2>3
<1>2. CASE Operator
  BY <1>2, OperatorSettles
<1>3. ASSUME NEW x \in Procs, ProcStep(x) PROVE Alone' /\ \A y \in Procs : Settles(y)'
  <2>1. \A y \in Procs : Settles(y)'
    BY <1>3, BuildAssumption, OwnStepSettles, OtherStepSettles
  <2>2. Alone'
    BY <1>3, StepTouches DEF Alone
  <2>. QED
    BY <2>1, <2>2
<1>. QED
  BY <1>1, <1>2, <1>3 DEF BuildNext

\* Only a build that has no arch left exits 0.
LEMMA LeftIsDone ==
  ASSUME BuildTypeOK, NEW x \in Procs, ProcStep(x),
         proc[x].pc = "next", proc'[x].pc = "ok"
  PROVE  proc[x].left = {}
<1>1. proc[x] \in Process
  BY StepTouches
<1>2. ASSUME NEW pc, Goto(x, pc) PROVE proc'[x].pc = pc
  BY <1>1, <1>2 DEF Goto, BuildTypeOK, Process
<1>3. ASSUME NEW a \in Arches, NextArch(x, a) PROVE FALSE
  BY <1>1, <1>3 DEF NextArch, BuildTypeOK, Process
<1>. QED
  BY <1>2, <1>3 DEF ProcStep, Stage, StartRpmbuild, RpmbuildOk, RpmbuildFails, Record,
     Sign, SignSrpm, Die

\* If one build of a package runs at a time, a build that exits 0 has a result
\* for every arch it was asked for, and a result that names an RPM names a
\* signed one.
THEOREM OkExitsAreSigned == Exclusive => (BuildSpec => ExitOkIsSigned)
<1>. SUFFICES ASSUME Exclusive PROVE BuildSpec => ExitOkIsSigned
  OBVIOUS
<1>. DEFINE Inv == Alone /\ \A x \in Procs : Settles(x)
            Leave == \A x \in Procs : proc[x].pc = "next" /\ proc'[x].pc = "ok" =>
                       \A a \in proc[x].arches :
                         LET f == <<proc[x].key, proc[x].ver, a>>
                         IN \/ results[f] = "ok-nopath"
                            \/ results[f] = "ok" /\ rpm[f].there /\ rpm[f].signed
<1>1. BuildInit => Inv
  BY DEF BuildInit, Idle, Running, Alone, Settles
<1>2. BuildTypeOK /\ Inv /\ [BuildNext]_buildVars => Inv' /\ [Leave]_buildVars
  <2>. SUFFICES ASSUME BuildTypeOK, Inv, [BuildNext]_buildVars PROVE Inv' /\ [Leave]_buildVars
    OBVIOUS
  <2>1. Inv'
    BY SettlesStays
  <2>2. ASSUME Operator PROVE Leave
    BY <2>2 DEF Operator, GenSpec, AddVersion, Invoke, Idle, BuildTypeOK
  <2>3. ASSUME NEW x \in Procs, ProcStep(x) PROVE Leave
    <3>. SUFFICES ASSUME proc[x].pc = "next", proc'[x].pc = "ok", NEW a \in proc[x].arches
                  PROVE  SignedResult(Of(x, a))
      BY <2>3, StepTouches DEF SignedResult, Of
    <3>1. proc[x].left = {}
      BY <2>3, LeftIsDone
    <3>. QED
      BY <3>1 DEF Settles, Running
  <2>. QED
    BY <2>1, <2>2, <2>3 DEF BuildNext
<1>. QED
  BY <1>1, <1>2, BuildTypeCorrect, PTL DEF BuildSpec, ExitOkIsSigned

-----------------------------------------------------------------------------
(* What rpmbuild finds in its sysroot, one build of a package at a time.   *)

Root(x) == sysroot[<<proc[x].key, proc[x].arch>>]

\* While it stages, a build has unpacked one RPM of each of its needs that it
\* has dealt with, and nothing else.
Stages(x) ==
  proc[x].pc \in {"stage", "rpmbuild"} =>
    /\ proc[x].arch \in Arches /\ proc[x].toStage \subseteq proc[x].reqs
    /\ proc[x].pc = "rpmbuild" => proc[x].toStage = {}
    /\ proc[x].reqs # {} =>
         /\ Staged(x) = proc[x].reqs \ proc[x].toStage
         /\ \A d, e \in Root(x) : d[1] = e[1] => d = e

\* A build unpacks into its own sysroot only.
LEMMA OtherRootsKept ==
  ASSUME BuildTypeOK, NEW x \in Procs, ProcStep(x),
         NEW k \in Pkgs, k # proc[x].key, NEW a \in Arches
  PROVE  sysroot'[<<k, a>>] = sysroot[<<k, a>>]
<1>1. ASSUME NEW b \in Arches, NextArch(x, b) PROVE sysroot'[<<k, a>>] = sysroot[<<k, a>>]
  BY <1>1 DEF NextArch, BuildTypeOK
<1>2. ASSUME NEW d \in Pkgs, Stage(x, d) PROVE sysroot'[<<k, a>>] = sysroot[<<k, a>>]
  <2>1. \/ sysroot' = sysroot
        \/ \E b, e : sysroot' = [sysroot EXCEPT ![<<proc[x].key, b>>] = e]
    BY <1>2 DEF Stage
  <2>. QED
    BY <2>1 DEF BuildTypeOK
<1>3. CASE \/ StartRpmbuild(x) \/ RpmbuildOk(x) \/ RpmbuildFails(x)
           \/ Record(x) \/ Sign(x) \/ SignSrpm(x) \/ Die(x)
  BY <1>3 DEF StartRpmbuild, RpmbuildOk, RpmbuildFails, Record, Sign, SignSrpm, Die
<1>. QED
  BY <1>1, <1>2, <1>3 DEF ProcStep

\* A build of another package leaves the sysroot of this one alone.
LEMMA OtherStepStages ==
  ASSUME BuildTypeOK, Alone, NEW x \in Procs, ProcStep(x), NEW y \in Procs, y # x, Stages(y)
  PROVE  Stages(y)'
<1>1. proc'[y] = proc[y] /\ proc[x].pc \in Running
  BY StepTouches
<1>. SUFFICES ASSUME proc[y].pc \in {"stage", "rpmbuild"} PROVE Stages(y)'
  BY <1>1 DEF Stages
<1>2. proc[y].pc \in Running /\ proc[y] \in Process
  BY ProcessFields DEF Running
<1>3. proc[y].key # proc[x].key /\ proc[y].key \in Pkgs /\ proc[y].arch \in Arches
  BY <1>1, <1>2 DEF Alone, Process, Stages
<1>4. Root(y)' = Root(y)
  BY <1>1, <1>3, OtherRootsKept DEF Root
<1>. QED
  BY <1>1, <1>4 DEF Stages, Staged, Root

\* A build stages one RPM of each need, into a sysroot that was cleared.
LEMMA OwnStepStages ==
  ASSUME ~ClearFails, BuildTypeOK, NEW x \in Procs, ProcStep(x), Stages(x)
  PROVE  Stages(x)'
<1>. DEFINE P == proc[x]
            Q == proc'[x]
<1>1. P \in Process /\ Q.key = P.key /\ P.key \in Pkgs
  BY StepTouches DEF Process
<1>2. ASSUME NEW pc, Goto(x, pc) PROVE Q.pc = pc
  BY <1>1, <1>2 DEF Goto, BuildTypeOK, Process
<1>3. ASSUME Q.pc \notin {"stage", "rpmbuild"} PROVE Stages(x)'
  BY <1>3 DEF Stages
<1>4. ASSUME NEW a \in Arches, NextArch(x, a) PROVE Stages(x)'
  <2>1. /\ Q.pc = "stage" /\ Q.arch = a /\ Q.reqs = P.reqs /\ Q.toStage = P.reqs
    BY <1>1, <1>4 DEF NextArch, BuildTypeOK, Process
  <2>2. ASSUME P.reqs # {} PROVE Root(x)' = {}
    <3>1. sysroot' = [sysroot EXCEPT ![<<P.key, a>>] = {}]
      BY <1>4, <2>2 DEF NextArch, Cleared
    <3>. QED
      BY <1>1, <2>1, <3>1 DEF Root, BuildTypeOK
  <2>. QED
    BY <2>1, <2>2 DEF Stages, Staged, Root
<1>5. ASSUME NEW d \in Pkgs, Stage(x, d) PROVE Stages(x)'
  <2>1. CASE DepRpm(x, d).there
    <3>. DEFINE new == <<d, DepRpm(x, d).by>>
    <3>1. /\ P.pc = "stage" /\ Q.pc = "stage" /\ Q.arch = P.arch /\ Q.reqs = P.reqs
          /\ Q.toStage = P.toStage \ {d} /\ d \in P.toStage
      BY <1>1, <1>5, <2>1 DEF Stage, BuildTypeOK, Process
    <3>2. Root(x)' = Root(x) \cup {new}
      <4>1. <<P.key, P.arch>> \in Pkgs \X Arches
        BY <1>1, <3>1 DEF Stages
      <4>2. sysroot' = [sysroot EXCEPT ![<<P.key, P.arch>>] = @ \cup {new}]
        BY <1>5, <2>1 DEF Stage
      <4>. QED
        BY <1>1, <3>1, <4>1, <4>2 DEF Root, BuildTypeOK
    <3>3. ASSUME P.reqs # {}
          PROVE  /\ Staged(x)' = Q.reqs \ Q.toStage
                 /\ \A e, f \in Root(x)' : e[1] = f[1] => e = f
      <4>1. /\ {e[1] : e \in Root(x)} = P.reqs \ P.toStage /\ P.toStage \subseteq P.reqs
            /\ \A e, f \in Root(x) : e[1] = f[1] => e = f
        BY <3>1, <3>3 DEF Stages, Staged, Root
      <4>2. \A e \in Root(x) : e[1] # d
        BY <3>1, <4>1
      <4>3. {e[1] : e \in Root(x)'} = {e[1] : e \in Root(x)} \cup {d}
        <5>1. new[1] = d
          OBVIOUS
        <5>. HIDE DEF new
        <5>. QED
          BY <3>2, <5>1
      <4>. QED
        BY <3>1, <3>2, <4>1, <4>2, <4>3 DEF Staged, Root
    <3>. QED
      BY <3>1, <3>3 DEF Stages
  <2>2. CASE ~DepRpm(x, d).there
    BY <1>2, <1>3, <1>5, <2>2 DEF Stage
  <2>. QED
    BY <2>1, <2>2
<1>6. CASE StartRpmbuild(x)
  <2>1. /\ P.pc = "stage" /\ P.toStage = {} /\ Q.pc = "rpmbuild" /\ Q.arch = P.arch
        /\ Q.reqs = P.reqs /\ Q.toStage = P.toStage /\ sysroot' = sysroot
    BY <1>1, <1>6 DEF StartRpmbuild, BuildTypeOK, Process
  <2>. QED
    BY <1>1, <2>1 DEF Stages, Staged, Root
<1>7. CASE RpmbuildOk(x) \/ RpmbuildFails(x) \/ Record(x) \/ Sign(x) \/ SignSrpm(x) \/ Die(x)
  BY <1>2, <1>3, <1>7 DEF RpmbuildOk, RpmbuildFails, Record, Sign, SignSrpm, Die
<1>. QED
  BY <1>4, <1>5, <1>6, <1>7 DEF ProcStep

\* If one build of a package runs at a time and the sysroot can be cleared,
\* rpmbuild of a package with build_requires finds exactly those in it.
THEOREM SysrootIsExact == Exclusive /\ ~ClearFails => (BuildSpec => []StagedExactly)
<1>. SUFFICES ASSUME Exclusive, ~ClearFails PROVE BuildSpec => []StagedExactly
  OBVIOUS
<1>. DEFINE Inv == /\ Alone /\ \A x \in Procs : Settles(x)
                   /\ \A x \in Procs : Stages(x)
<1>1. BuildInit => Inv
  BY DEF BuildInit, Idle, Running, Alone, Settles, Stages
<1>2. BuildTypeOK /\ Inv /\ [BuildNext]_buildVars => Inv'
  <2>. SUFFICES ASSUME BuildTypeOK, Inv, [BuildNext]_buildVars PROVE Inv'
    OBVIOUS
  <2>1. Alone' /\ \A x \in Procs : Settles(x)'
    BY SettlesStays
  <2>2. CASE UNCHANGED <<proc, sysroot>>
    <3>1. ASSUME NEW x \in Procs PROVE Stages(x)'
      BY <2>2 DEF Stages, Staged, Root
    <3>. QED
      BY <2>1, <3>1
  <2>3. ASSUME NEW k \in Pkgs, NEW x \in Procs, NEW archs \in SUBSET Arches, Invoke(x, k, archs)
        PROVE  \A y \in Procs : Stages(y)'
    <3>1. /\ proc'[x].pc \in {"next", "fail"} /\ sysroot' = sysroot
          /\ \A y \in Procs : y # x => proc'[y] = proc[y]
      BY <2>3 DEF Invoke, BuildTypeOK
    <3>2. Stages(x)'
      BY <3>1 DEF Stages
    <3>3. ASSUME NEW y \in Procs, y # x PROVE Stages(y)'
      <4>1. proc'[y] = proc[y] /\ Stages(y)
        BY <3>1, <3>3
      <4>. QED
        BY <3>1, <4>1 DEF Stages, Staged, Root
    <3>. QED
      BY <3>2, <3>3
  <2>4. ASSUME NEW x \in Procs, ProcStep(x) PROVE \A y \in Procs : Stages(y)'
    BY <2>4, OwnStepStages, OtherStepStages
  <2>. QED
    BY <2>1, <2>2, <2>3, <2>4 DEF BuildNext, Operator, GenSpec, AddVersion, buildVars
<1>3. Inv => StagedExactly
  BY DEF Stages, Staged, Root, StagedExactly
<1>. QED
  BY <1>1, <1>2, <1>3, BuildTypeCorrect, PTL DEF BuildSpec
=============================================================================
