------------------------------- MODULE Build -------------------------------
(***************************************************************************)
(* `vendorctl build <key>` (orch.rs, build and sign_rpm) as processes over *)
(* the tree they share: SPECS, RPMS and SRPMS, the per-package sysroots    *)
(* and the build_results table.  One action is what a process does between *)
(* two points where another one may be seen to act; rpmbuild, the long     *)
(* one, is a start and an end.  `spec gen`, `ver add` and new builds come  *)
(* from the operator at any time.  BuildAll puts build-all in his place.   *)
(* A definition F_X is a mutant of F: a bug the properties must find.      *)
(***************************************************************************)
EXTENDS Integers, FiniteSets

CONSTANTS
  Pkgs, Arches,
  MaxVer,     \* bound: versions of a package are numbered as they are added
  Rows,       \* Rows[k][v]: build_requires
  Procs,      \* bound: the builds that may ever be started
  Prior,      \* stands for any build before the initial state
  Exclusive,  \* the operator never starts a build of a package twice at once
  ClearFails  \* remove_dir_all may leave something behind: its error is ignored

Versions == 1..MaxVer
Src == "src"
Files == Arches \cup {Src}   \* RPMS/<arch> and SRPMS

ASSUME BuildAssumption ==
  /\ MaxVer \in Nat \ {0} /\ Prior \notin Procs /\ Src \notin Arches
  /\ Rows \in [Pkgs -> [Versions -> SUBSET Pkgs]]
  /\ Exclusive \in BOOLEAN /\ ClearFails \in BOOLEAN

VARIABLES
  newest,   \* the version resolve() picks: the one added last
  spec,     \* the Version: of SPECS/<key>.spec, 0 when there is no file
  rpm,      \* <key>-<version>-1.ox1.<file>.rpm
  results,  \* build_results
  sysroot,  \* what is unpacked in sysroot/<key>/<arch>, and who built it
  proc      \* the vendorctl build processes

buildVars == <<newest, spec, rpm, results, sysroot, proc>>

Absent == [there |-> FALSE]
Rpm(x, s) == [there |-> TRUE, by |-> x, signed |-> s]
Idle == [pc |-> "idle"]
Running == {"next", "stage", "rpmbuild", "record", "sign"}
Ended == {"ok", "fail"}

\* A tree where `built` were built and signed at version 1, and a second
\* version of `bumped` was added since.
Tree(built, bumped) ==
  /\ newest = [k \in Pkgs |-> IF k \in bumped THEN 2 ELSE 1]
  /\ spec = [k \in Pkgs |-> IF k \in built THEN 1 ELSE 0]
  /\ rpm = [f \in Pkgs \X Versions \X Files |->
              IF f[1] \in built /\ f[2] = 1 THEN Rpm(Prior, TRUE) ELSE Absent]
  /\ results = [f \in Pkgs \X Versions \X Arches |->
              IF f[1] \in built /\ f[2] = 1 THEN "ok" ELSE "none"]
  /\ sysroot = [s \in Pkgs \X Arches |->
              IF s[1] \in built THEN Rows[s[1]][1] \X {Prior} ELSE {}]

BuildInit ==
  /\ \E built \in SUBSET Pkgs, bumped \in {S \in SUBSET Pkgs : S = {} \/ MaxVer > 1} :
       (\A k \in built : Rows[k][1] \subseteq built) /\ Tree(built, bumped)
  /\ proc = [x \in Procs |-> Idle]

-----------------------------------------------------------------------------
Busy(k) == \E x \in Procs : proc[x].pc \in Running /\ proc[x].key = k

Goto(x, pc) == proc' = [proc EXCEPT ![x].pc = pc]

\* `spec.is_file()`
SpecMissing_Unchecked(k) == FALSE
SpecMissing(k) == spec[k] = 0

\* `build`, up to the loop over the arches.
Invoke(x, k, arches) ==
  /\ proc[x] = Idle
  /\ proc' = [proc EXCEPT ![x] =
       [pc |-> IF SpecMissing(k) THEN "fail" ELSE "next",
        key |-> k, ver |-> newest[k], reqs |-> Rows[k][newest[k]],
        arches |-> arches, left |-> arches, arch |-> Src, toStage |-> {}, specver |-> 0]]
  /\ UNCHANGED <<newest, spec, rpm, results, sysroot>>

\* What the sysroot may hold when staging begins: it is cleared, but only for
\* a package that has build_requires.
Cleared_Never(x, a) == {sysroot[<<proc[x].key, a>>]}
Cleared(x, a) ==
  LET old == sysroot[<<proc[x].key, a>>]
  IN IF proc[x].reqs = {} THEN {old} ELSE IF ClearFails THEN SUBSET old ELSE {{}}

NextArch(x, a) ==
  /\ proc[x].pc = "next" /\ a \in proc[x].left
  /\ \E c \in Cleared(x, a) : sysroot' = [sysroot EXCEPT ![<<proc[x].key, a>>] = c]
  /\ proc' = [proc EXCEPT ![x].pc = "stage", ![x].arch = a, ![x].left = @ \ {a},
                          ![x].toStage = proc[x].reqs]
  /\ UNCHANGED <<newest, spec, rpm, results>>

\* Unpack the RPM of the version of d that is newest by now.
DepRpm(x, d) == rpm[<<d, newest[d], proc[x].arch>>]

Stage(x, d) ==
  /\ proc[x].pc = "stage" /\ d \in proc[x].toStage
  /\ IF DepRpm(x, d).there
     THEN /\ sysroot' = [sysroot EXCEPT ![<<proc[x].key, proc[x].arch>>] =
                           @ \cup {<<d, DepRpm(x, d).by>>}]
          /\ proc' = [proc EXCEPT ![x].toStage = @ \ {d}]
     ELSE sysroot' = sysroot /\ Goto(x, "fail")
  /\ UNCHANGED <<newest, spec, rpm, results>>

StartRpmbuild(x) ==
  /\ proc[x].pc = "stage" /\ proc[x].toStage = {}
  /\ proc' = [proc EXCEPT ![x].pc = "rpmbuild", ![x].specver = spec[proc[x].key]]
  /\ UNCHANGED <<newest, spec, rpm, results, sysroot>>

\* rpmbuild -ba names what it writes after the spec, not after the catalog.
Written(x) == {<<proc[x].key, proc[x].specver, f>> : f \in {proc[x].arch, Src}}

RpmbuildOk(x) ==
  /\ proc[x].pc = "rpmbuild"
  /\ rpm' = [f \in DOMAIN rpm |-> IF f \in Written(x) THEN Rpm(x, FALSE) ELSE rpm[f]]
  /\ Goto(x, "record")
  /\ UNCHANGED <<newest, spec, results, sysroot>>

Result(x) == <<proc[x].key, proc[x].ver, proc[x].arch>>

\* "ok-nopath" is status ok with an empty rpm_path.
Outcome_Unchecked(x) == "ok"
Outcome(x) == IF rpm[Result(x)].there THEN "ok" ELSE "ok-nopath"

\* The result is recorded before the RPM is signed.
Record(x) ==
  /\ proc[x].pc = "record"
  /\ results' = [results EXCEPT ![Result(x)] = Outcome(x)]
  /\ Goto(x, "sign")
  /\ UNCHANGED <<newest, spec, rpm, sysroot>>

RpmbuildFails(x) ==
  /\ proc[x].pc = "rpmbuild"
  /\ results' = [results EXCEPT ![Result(x)] = "fail"]
  /\ Goto(x, "fail")
  /\ UNCHANGED <<newest, spec, rpm, sysroot>>

\* sign_rpm: no file is no error.
Signed(f) == [rpm EXCEPT ![f] = IF @.there THEN [@ EXCEPT !.signed = TRUE] ELSE @]

\* The mutant signs once, after the last arch.
Sign_Last(x) ==
  /\ proc[x].pc = "sign"
  /\ rpm' = (IF proc[x].left = {} THEN Signed(Result(x)) ELSE rpm) /\ Goto(x, "next")
  /\ UNCHANGED <<newest, spec, results, sysroot>>
Sign(x) ==
  /\ proc[x].pc = "sign"
  /\ rpm' = Signed(Result(x)) /\ Goto(x, "next")
  /\ UNCHANGED <<newest, spec, results, sysroot>>

\* The mutant signs what the last arch built, as the loop does.
SignSrpm_Again(x) ==
  /\ proc[x].pc = "next" /\ proc[x].left = {}
  /\ rpm' = Signed(Result(x)) /\ Goto(x, "ok")
  /\ UNCHANGED <<newest, spec, results, sysroot>>
SignSrpm(x) ==
  /\ proc[x].pc = "next" /\ proc[x].left = {}
  /\ rpm' = Signed(<<proc[x].key, proc[x].ver, Src>>) /\ Goto(x, "ok")
  /\ UNCHANGED <<newest, spec, results, sysroot>>

\* A command or a statement fails (mkdir, cpio, the upsert, rpm --addsign)
\* and `?` returns, or the process is killed together with its rpmbuild: the
\* tree stays as it is.
Die(x) ==
  /\ proc[x].pc \in Running /\ Goto(x, "fail")
  /\ UNCHANGED <<newest, spec, rpm, results, sysroot>>

\* gen_spec writes the spec of the newest version, or returns an error (the row
\* lacks what the template needs, a lookup, the directory or the file fails) and
\* the old spec stays.
GenSpec(k) ==
  /\ \E v \in {newest[k], spec[k]} : spec' = [spec EXCEPT ![k] = v]
  /\ UNCHANGED <<newest, rpm, results, sysroot, proc>>

AddVersion(k) ==
  /\ newest[k] < MaxVer /\ newest' = [newest EXCEPT ![k] = @ + 1]
  /\ UNCHANGED <<spec, rpm, results, sysroot, proc>>

ProcStep(x) ==
  \/ \E a \in Arches : NextArch(x, a)
  \/ \E d \in Pkgs : Stage(x, d)
  \/ StartRpmbuild(x) \/ RpmbuildOk(x) \/ RpmbuildFails(x)
  \/ Record(x) \/ Sign(x) \/ SignSrpm(x) \/ Die(x)

Operator ==
  \E k \in Pkgs :
    \/ GenSpec(k) \/ AddVersion(k)
    \/ /\ Exclusive => ~Busy(k)
       /\ \E x \in Procs, arches \in (SUBSET Arches) \ {{}} : Invoke(x, k, arches)

BuildNext == Operator \/ \E x \in Procs : ProcStep(x)

BuildSpec == BuildInit /\ [][BuildNext]_buildVars

-----------------------------------------------------------------------------
Process ==
  [pc : Running \cup Ended, key : Pkgs, ver : Versions, reqs : SUBSET Pkgs,
   arches : SUBSET Arches, left : SUBSET Arches, arch : Files,
   toStage : SUBSET Pkgs, specver : 0..MaxVer]

RpmFile == {Absent} \cup [there : {TRUE}, by : Procs \cup {Prior}, signed : BOOLEAN]

BuildTypeOK ==
  /\ newest \in [Pkgs -> Versions] /\ spec \in [Pkgs -> 0..MaxVer]
  /\ rpm \in [Pkgs \X Versions \X Files -> RpmFile]
  /\ results \in [Pkgs \X Versions \X Arches -> {"none", "ok", "ok-nopath", "fail"}]
  /\ sysroot \in [Pkgs \X Arches -> SUBSET (Pkgs \X (Procs \cup {Prior}))]
  /\ proc \in [Procs -> {Idle} \cup Process]
  /\ \A x \in Procs : proc[x].pc \in Running => spec[proc[x].key] \in Versions

\* An RPM or SRPM on disk that is not signed was left by a build that failed
\* or is not finished, or whose spec was of another version than the catalog,
\* however many builds of the package overlap.
SignedOrUnfinished ==
  \A f \in DOMAIN rpm : rpm[f].there /\ ~rpm[f].signed =>
    /\ rpm[f].by \in Procs
    /\ proc[rpm[f].by].pc # "ok" \/ proc[rpm[f].by].ver # f[2]

\* The inductive form: while its builder goes on, an unsigned file of the
\* version it builds is the SRPM, signed last, or the RPM of the arch at hand.
UnsignedInHand ==
  \A f \in DOMAIN rpm : rpm[f].there /\ ~rpm[f].signed =>
    LET x == rpm[f].by IN
    /\ x \in Procs /\ proc[x].pc # "idle" /\ proc[x].key = f[1]
    /\ f[2] = proc[x].ver /\ proc[x].pc # "fail" =>
         /\ proc[x].pc \in Running
         /\ f[3] = Src \/ (f[3] = proc[x].arch /\ proc[x].pc \in {"record", "sign"})

Staged(x) == {e[1] : e \in sysroot[<<proc[x].key, proc[x].arch>>]}

\* rpmbuild of a package with build_requires finds exactly those in its
\* sysroot, each unpacked from one RPM, nothing of an earlier build.
StagedExactly ==
  \A x \in Procs : proc[x].pc = "rpmbuild" /\ proc[x].reqs # {} =>
    /\ Staged(x) = proc[x].reqs
    /\ \A d, e \in sysroot[<<proc[x].key, proc[x].arch>>] : d[1] = e[1] => d = e

\* When `vendorctl build` exits 0, every arch it was asked for has a result,
\* and a result that names an RPM names a signed one.
ExitOkIsSigned ==
  [][\A x \in Procs : proc[x].pc = "next" /\ proc'[x].pc = "ok" =>
       \A a \in proc[x].arches :
         LET f == <<proc[x].key, proc[x].ver, a>>
         IN \/ results[f] = "ok-nopath"
            \/ results[f] = "ok" /\ rpm[f].there /\ rpm[f].signed]_buildVars
=============================================================================
