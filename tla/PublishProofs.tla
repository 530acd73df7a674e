--------------------------- MODULE PublishProofs ---------------------------
(***************************************************************************)
(* Proofs about Publish: whatever publish does, the builds beside it are   *)
(* those of Build, so what BuildProofs shows of them holds here.           *)
(***************************************************************************)
EXTENDS Publish, BuildProofs

\* The types of the repository and of create_repo, apart from the builds.
PubType ==
  /\ index \in [Arches -> {None} \cup SUBSET Entries]
  /\ asc \in [Arches -> {None} \cup SUBSET Entries]
  /\ pub \in [pc : PubWorking \cup {"idle", "ok", "err"}, arch : Files,
              read : SUBSET Entries, left : SUBSET Arches]
  /\ published \in 0..MaxPublish /\ beside \subseteq Procs

\* What createrepo_c reads of an arch are entries of an index.
LEMMA ReadType ==
  ASSUME BuildTypeOK, NEW a \in Arches
  PROVE  RpmsOn(a) \subseteq Entries
<1>. SUFFICES ASSUME NEW f \in Pkgs \X Versions \X {a}, rpm[f].there
              PROVE  <<f[1], f[2], rpm[f].by, rpm[f].signed>> \in Entries
  BY DEF RpmsOn
<1>1. f \in Pkgs \X Versions \X Files
  BY DEF Files
<1>2. rpm[f] \in RpmFile
  BY <1>1 DEF BuildTypeOK
<1>3. rpm[f].by \in Procs \cup {Prior} /\ rpm[f].signed \in BOOLEAN
  <2>1. rpm[f] # Absent
    BY DEF Absent
  <2>2. rpm[f] \in [there : {TRUE}, by : Procs \cup {Prior}, signed : BOOLEAN]
    BY <1>2, <2>1 DEF RpmFile
  <2>. QED
    BY <2>2
<1>4. f[1] \in Pkgs /\ f[2] \in Versions
  OBVIOUS
<1>. QED
  BY <1>3, <1>4 DEF Entries

\* `publish` changes nothing that belongs to a build: every behaviour of
\* publish and builds is one of builds alone, with publish as a stutter.
THEOREM PublishKeepsBuilds == Spec => BuildSpec
<1>1. Init => BuildInit
  BY DEF Init
<1>2. [Next]_vars => [BuildNext]_buildVars
  BY DEF Next, PubStep, Publish, SkipArch, Createrepo, CreaterepoOk, Unsign, GpgOk,
         PubFails, PubOk, vars
<1>. QED
  BY <1>1, <1>2, PTL DEF Spec, BuildSpec

\* Every variable keeps its type.
THEOREM PublishTypeCorrect == Spec => []TypeOK
<1>1. Init => PubType
  BY PublishAssumption DEF Init, PubType, PubWorking, Files
<1>2. BuildTypeOK /\ PubType /\ [Next]_vars => PubType'
  <2>. SUFFICES ASSUME BuildTypeOK, PubType, [Next]_vars PROVE PubType'
    OBVIOUS
  <2>0. beside' \subseteq Procs
    BY DEF Next, Met, Building, PubType, vars
  <2>. USE <2>0
  <2>1. CASE Publish
    BY <2>1, PublishAssumption DEF Publish, PubType, PubWorking, Files
  <2>2. ASSUME NEW a \in Arches, SkipArch(a) PROVE PubType'
    BY <2>2 DEF SkipArch, PubType
  <2>3. ASSUME NEW a \in Arches, Createrepo(a) PROVE PubType'
    BY <2>3, ReadType DEF Createrepo, PubType, PubWorking, Files
  <2>4. CASE CreaterepoOk
    BY <2>4 DEF CreaterepoOk, PubGoto, PubType, PubWorking
  <2>5. CASE Unsign
    BY <2>5 DEF Unsign, PubGoto, PubType, PubWorking
  <2>6. CASE GpgOk
    BY <2>6 DEF GpgOk, PubGoto, PubType, PubWorking
  <2>7. CASE PubFails
    BY <2>7 DEF PubFails, PubGoto, PubType
  <2>8. CASE PubOk
    BY <2>8 DEF PubOk, PubGoto, PubType
  <2>9. CASE UNCHANGED pubVars
    BY <2>9 DEF pubVars, PubType
  <2>. QED
    BY <2>1, <2>2, <2>3, <2>4, <2>5, <2>6, <2>7, <2>8, <2>9 DEF Next, PubStep, vars, pubVars
<1>3. BuildTypeOK /\ PubType => TypeOK
  BY DEF PubType, TypeOK
<1>. QED
  BY <1>1, <1>2, <1>3, PublishKeepsBuilds, BuildTypeCorrect, PTL DEF Spec

\* An arch that never had an index never had a signature.
SigInv == SignatureIsOfIndex /\ \A a \in Arches : index[a] = None => asc[a] = None

\* After a publish that ended well every signature is of the index beside it,
\* however the builds that ran meanwhile changed the RPMs.
THEOREM SignaturesAreGood == Spec => []SignatureIsOfIndex
<1>1. Init => SigInv
  BY DEF Init, SigInv, SignatureIsOfIndex
<1>2. TypeOK /\ SigInv /\ [Next]_vars => SigInv'
  <2>. SUFFICES ASSUME TypeOK, SigInv, [Next]_vars PROVE SigInv'
    OBVIOUS
  <2>. USE DEF SigInv, SignatureIsOfIndex
  <2>0. PubType
    BY DEF TypeOK, PubType
  <2>1. CASE Publish
    BY <2>0, <2>1 DEF Publish, PubType, PubWorking
  <2>2. ASSUME NEW a \in Arches, SkipArch(a) PROVE SigInv'
    BY <2>0, <2>2 DEF SkipArch, PubType
  <2>3. ASSUME NEW a \in Arches, Createrepo(a) PROVE SigInv'
    BY <2>0, <2>3 DEF Createrepo, PubType
  <2>4. CASE CreaterepoOk
    <3>1. pub.read \in SUBSET Entries /\ pub.read # None
      BY <2>0, PublishAssumption DEF PubType
    <3>. QED
      BY <2>0, <2>4, <3>1 DEF CreaterepoOk, PubGoto, PubType
  <2>5. CASE Unsign
    BY <2>0, <2>5 DEF Unsign, PubGoto, PubType
  <2>6. CASE GpgOk
    BY <2>0, <2>6 DEF GpgOk, PubGoto, PubType
  <2>7. CASE PubFails
    BY <2>0, <2>7 DEF PubFails, PubGoto, PubType
  <2>8. CASE PubOk
    BY <2>0, <2>8 DEF PubOk, PubGoto, PubType
  <2>9. CASE UNCHANGED pubVars
    BY <2>9 DEF pubVars
  <2>. QED
    BY <2>1, <2>2, <2>3, <2>4, <2>5, <2>6, <2>7, <2>8, <2>9 DEF Next, PubStep, vars, pubVars
<1>3. SigInv => SignatureIsOfIndex
  BY DEF SigInv
<1>. QED
  BY <1>1, <1>2, <1>3, PublishTypeCorrect, PTL DEF Spec

-----------------------------------------------------------------------------
(* What a publish has indexed when it ends well.                           *)

\* A build that has begun keeps its key and version, and one that has failed does
\* not come back.
LEMMA StartedStays ==
  ASSUME BuildTypeOK, [BuildNext]_buildVars, NEW x \in Procs, proc[x].pc # "idle"
  PROVE  /\ proc'[x].pc # "idle" /\ proc'[x].ver = proc[x].ver /\ proc'[x].key = proc[x].key
         /\ proc[x].pc = "fail" => proc'[x].pc = "fail"
<1>1. proc[x] \in Process
  BY ProcessFields
<1>3. CASE UNCHANGED proc
  BY <1>3
<1>4. ASSUME NEW k \in Pkgs, NEW y \in Procs, NEW archs \in SUBSET Arches, Invoke(y, k, archs)
      PROVE  proc'[x] = proc[x]
  BY <1>1, <1>4 DEF Invoke, Idle, BuildTypeOK
<1>5. ASSUME NEW y \in Procs, ProcStep(y)
      PROVE  /\ proc'[x].pc # "idle" /\ proc'[x].ver = proc[x].ver /\ proc'[x].key = proc[x].key
             /\ proc[x].pc = "fail" => proc'[x].pc = "fail"
  <2>1. /\ y # x => proc'[x] = proc[x]
        /\ proc'[y].ver = proc[y].ver /\ proc'[y].key = proc[y].key /\ proc'[y].pc # "idle"
    <3>1. proc \in [Procs -> {Idle} \cup Process] /\ proc[y] \in Process
      BY <1>5, ProcessFields DEF BuildTypeOK, ProcStep, NextArch, Stage, StartRpmbuild,
         RpmbuildOk, RpmbuildFails, Record, Sign, SignSrpm, Die, Running
    <3>2. CASE \E pc \in Running \cup Ended : Goto(y, pc)
      BY <3>1, <3>2 DEF Goto, Process, Running, Ended
    <3>3. ASSUME NEW c \in Arches, NextArch(y, c)
          PROVE  proc' = [proc EXCEPT ![y].pc = "stage", ![y].arch = c, ![y].left = @ \ {c},
                                      ![y].toStage = proc[y].reqs]
      BY <3>3 DEF NextArch
    <3>4. ASSUME NEW c \in Arches, NextArch(y, c)
          PROVE  /\ y # x => proc'[x] = proc[x]
                 /\ proc'[y].ver = proc[y].ver /\ proc'[y].key = proc[y].key /\ proc'[y].pc # "idle"
      <4>1. proc' = [proc EXCEPT ![y] =
                      [proc[y] EXCEPT !.pc = "stage", !.arch = c, !.left = @ \ {c},
                                      !.toStage = proc[y].reqs]]
        BY <3>1, <3>3, <3>4
      <4>2. proc'[y] = [proc[y] EXCEPT !.pc = "stage", !.arch = c, !.left = @ \ {c},
                                       !.toStage = proc[y].reqs]
        BY <3>1, <4>1
      <4>3. proc'[y].ver = proc[y].ver /\ proc'[y].key = proc[y].key /\ proc'[y].pc = "stage"
        BY <3>1, <4>2 DEF Process
      <4>. QED
        BY <1>1, <3>1, <4>1, <4>3
    <3>5. CASE StartRpmbuild(y)
      BY <1>1, <3>1, <3>5 DEF StartRpmbuild, Process
    <3>6. ASSUME NEW d \in Pkgs, Stage(y, d), ~Goto(y, "fail")
          PROVE  proc' = [proc EXCEPT ![y].toStage = @ \ {d}] /\ proc[y].pc = "stage"
      BY <3>6 DEF Stage
    <3>7. ASSUME NEW d \in Pkgs, Stage(y, d), ~Goto(y, "fail")
          PROVE  /\ y # x => proc'[x] = proc[x]
                 /\ proc'[y].ver = proc[y].ver /\ proc'[y].key = proc[y].key /\ proc'[y].pc # "idle"
      BY <1>1, <3>1, <3>6, <3>7 DEF Process
    <3>8. CASE RpmbuildOk(y) \/ RpmbuildFails(y) \/ Record(y) \/ Sign(y) \/ SignSrpm(y) \/ Die(y)
      BY <3>2, <3>8 DEF RpmbuildOk, RpmbuildFails, Record, Sign, SignSrpm, Die, Running, Ended
    <3>. QED
      BY <1>5, <3>2, <3>4, <3>5, <3>7, <3>8 DEF ProcStep, Ended
  <2>2. proc[y].pc # "fail"
    BY <1>5 DEF ProcStep, NextArch, Stage, StartRpmbuild, RpmbuildOk, RpmbuildFails,
         Record, Sign, SignSrpm, Die, Running
  <2>. QED
    BY <1>1, <2>1, <2>2
<1>6. ASSUME NEW k \in Pkgs, GenSpec(k) \/ AddVersion(k) PROVE UNCHANGED proc
  BY <1>6 DEF GenSpec, AddVersion
<1>. QED
  BY <1>1, <1>3, <1>4, <1>5, <1>6 DEF BuildNext, Operator, buildVars

\* The files of a package that nobody builds stay as they are.
LEMMA OtherFilesStay ==
  ASSUME BuildTypeOK, [BuildNext]_buildVars, NEW a \in Arches, NEW k \in Pkgs,
         \A x \in Building : proc[x].key # k
  PROVE  OfPkg(k, RpmsOn(a))' = OfPkg(k, RpmsOn(a))
<1>1. ASSUME NEW x \in Procs, ProcStep(x), NEW f \in Pkgs \X Versions \X {a}, f[1] = k
      PROVE  rpm'[f] = rpm[f]
  <2>1. proc[x].key # k
    BY <1>1 DEF Building, ProcStep, NextArch, Stage, StartRpmbuild, RpmbuildOk, RpmbuildFails,
       Record, Sign, SignSrpm, Die, Running
  <2>2. f \in DOMAIN rpm
    BY DEF BuildTypeOK, Files
  <2>3. f \notin Written(x) /\ f # Result(x) /\ f # <<proc[x].key, proc[x].ver, Src>>
    BY <1>1, <2>1 DEF Written, Result
  <2>. QED
    BY <1>1, <2>2, <2>3 DEF ProcStep, NextArch, Stage, StartRpmbuild, RpmbuildOk, RpmbuildFails,
       Record, Sign, SignSrpm, Signed, Die
<1>2. CASE Operator \/ UNCHANGED buildVars
  <2>1. rpm' = rpm
    BY <1>2 DEF Operator, GenSpec, AddVersion, Invoke, buildVars
  <2>. QED
    BY <2>1 DEF RpmsOn, OfPkg
<1>3. ASSUME \A f \in Pkgs \X Versions \X {a} : f[1] = k => rpm'[f] = rpm[f]
      PROVE  OfPkg(k, RpmsOn(a))' = OfPkg(k, RpmsOn(a))
  BY <1>3 DEF OfPkg, RpmsOn
<1>. QED
  BY <1>1, <1>2, <1>3 DEF BuildNext

\* The build of an unsigned entry failed, was of another version or ran beside.
Excused(e) ==
  /\ e[3] \in Procs /\ proc[e[3]].pc # "idle"
  /\ e[3] \in beside \/ proc[e[3]].pc = "fail" \/ proc[e[3]].ver # e[2]

\* What createrepo_c reads unsigned, while all that build are counted as beside.
LEMMA ReadIsExcused ==
  ASSUME BuildTypeOK, UnsignedInHand, Building \subseteq beside, NEW a \in Arches,
         NEW e \in RpmsOn(a), ~e[4]
  PROVE  Excused(e)
<1>1. PICK f \in Pkgs \X Versions \X {a} :
        rpm[f].there /\ e = <<f[1], f[2], rpm[f].by, rpm[f].signed>>
  BY DEF RpmsOn
<1>2. f \in DOMAIN rpm /\ ~rpm[f].signed
  BY <1>1 DEF BuildTypeOK, Files
<1>3. /\ e[2] = f[2] /\ e[3] = rpm[f].by
  BY <1>1
<1>. QED
  BY <1>1, <1>2, <1>3 DEF UnsignedInHand, Building, Excused

\* Nobody builds k beside the publish at work, or has built it.
AwayFrom(k) == \A x \in beside : proc[x].key # k

\* What is in a set of entries, as createrepo_c reads or writes it, is right for
\* the arch.
Fits(entries, a) ==
  /\ \A k \in Pkgs : AwayFrom(k) => OfPkg(k, entries) = OfPkg(k, RpmsOn(a))
  /\ \A e \in entries : ~e[4] => Excused(e)

\* A publish counts all that build beside it, what it has read fits the arch at
\* hand, and the indexes it is done with fit theirs.
PubInv ==
  /\ \A x \in beside : proc[x].pc # "idle"
  /\ pub.pc \in PubWorking =>
       /\ Building \subseteq beside
       /\ \A a \in Arches \ pub.left :
            Fits(Indexed(a), a) \/ (pub.pc = "createrepo" /\ a = pub.arch)
       /\ pub.pc = "createrepo" => pub.arch \in Arches /\ Fits(pub.read, pub.arch)

\* A step of publish leaves the builds alone.
LEMMA PubStepKeeps ==
  ASSUME PubStep
  PROVE  UNCHANGED buildVars
BY DEF PubStep, Publish, SkipArch, Createrepo, CreaterepoOk, Unsign, GpgOk, PubFails, PubOk

\* While publish works, entries that fit go on fitting.
LEMMA FitsStays ==
  ASSUME TypeOK, PubInv, Next, pub.pc \in PubWorking, pub'.pc \in PubWorking
  PROVE  /\ \A a \in Arches, k \in Pkgs : AwayFrom(k)' =>
               AwayFrom(k) /\ OfPkg(k, RpmsOn(a))' = OfPkg(k, RpmsOn(a))
         /\ \A e : Excused(e) => Excused(e)'
<1>1. BuildTypeOK /\ [BuildNext]_buildVars /\ beside \subseteq Procs /\ beside \subseteq beside'
  BY PubStepKeeps DEF TypeOK, Next, Met
<1>2. \A x \in beside : proc'[x].key = proc[x].key
  BY <1>1, StartedStays DEF PubInv
<1>3. ASSUME NEW a \in Arches, NEW k \in Pkgs, AwayFrom(k)'
      PROVE  AwayFrom(k) /\ OfPkg(k, RpmsOn(a))' = OfPkg(k, RpmsOn(a))
  <2>1. AwayFrom(k)
    BY <1>1, <1>2, <1>3 DEF AwayFrom
  <2>. QED
    BY <1>1, <2>1, OtherFilesStay DEF AwayFrom, PubInv
<1>4. ASSUME NEW e, Excused(e) PROVE Excused(e)'
  BY <1>1, <1>4, StartedStays DEF Excused
<1>. QED
  BY <1>3, <1>4

\* Of the arches it is done with, and of what it has read, a publish keeps what
\* fitted when it was read.
Done ==
  /\ \A a \in Arches \ pub.left :
       Fits(Indexed(a), a) \/ (pub.pc = "createrepo" /\ a = pub.arch)
  /\ pub.pc = "createrepo" => pub.arch \in Arches /\ Fits(pub.read, pub.arch)

\* A step of a publish at work, or of a build beside it, keeps that.
LEMMA DoneStays ==
  ASSUME TypeOK, UnsignedInHand, PubInv, Next, ~Publish,
         pub.pc \in PubWorking, pub'.pc \in PubWorking
  PROVE  Done'
<1>. DEFINE Holds(entries, a) ==
       /\ \A k \in Pkgs : AwayFrom(k)' => OfPkg(k, entries) = OfPkg(k, RpmsOn(a))'
       /\ \A e \in entries : ~e[4] => Excused(e)'
<1>0. PubType /\ BuildTypeOK /\ Building \subseteq beside
  BY DEF TypeOK, PubType, PubInv
<1>1. ASSUME NEW a \in Arches, Fits(Indexed(a), a) PROVE Holds(Indexed(a), a)
  BY <1>1, FitsStays DEF Fits
<1>2. ASSUME NEW a \in Arches, pub.pc = "createrepo", a = pub.arch PROVE Holds(pub.read, a)
  BY <1>2, FitsStays DEF Fits, PubInv
<1>3. ASSUME NEW a \in Arches, rpm' = rpm PROVE Holds(RpmsOn(a), a)
  <2>1. RpmsOn(a)' = RpmsOn(a)
    BY <1>3 DEF RpmsOn
  <2>2. \A k \in Pkgs : OfPkg(k, RpmsOn(a))' = OfPkg(k, RpmsOn(a))
    BY <2>1 DEF OfPkg
  <2>3. \A e \in RpmsOn(a) : ~e[4] => Excused(e)
    BY <1>0, ReadIsExcused
  <2>. QED
    BY <2>2, <2>3, FitsStays
<1>4. ASSUME NEW a \in Arches, NEW entries, Holds(entries, a), Indexed(a)' = entries
      PROVE  Fits(Indexed(a), a)'
  BY <1>4 DEF Fits, OfPkg
<1>5. ASSUME NEW a \in Arches, a \notin pub.left, index'[a] = index[a],
             ~(pub.pc = "createrepo" /\ a = pub.arch)
      PROVE  Fits(Indexed(a), a)'
  <2>1. Holds(Indexed(a), a) /\ Indexed(a)' = Indexed(a)
    BY <1>1, <1>5 DEF PubInv, Indexed
  <2>. QED
    BY <1>4, <2>1
<1>6. ASSUME NEW a \in Arches, SkipArch(a) PROVE Done'
  <2>1. /\ pub'.left = pub.left \ {a} /\ pub.pc = "arch" /\ pub'.pc = pub.pc
        /\ index' = index /\ rpm' = rpm /\ RpmsOn(a) = {} /\ index[a] = None
    BY <1>0, <1>6 DEF SkipArch, PubType, buildVars
  <2>2. Fits(Indexed(a), a)'
    BY <1>3, <1>4, <2>1 DEF Indexed
  <2>. QED
    BY <1>5, <2>1, <2>2 DEF Done
<1>7. ASSUME NEW a \in Arches, Createrepo(a) PROVE Done'
  <2>1. /\ pub'.left = pub.left \ {a} /\ pub.pc = "arch" /\ pub'.pc = "createrepo"
        /\ pub'.arch = a /\ pub'.read = RpmsOn(a) /\ index' = index /\ rpm' = rpm
    BY <1>0, <1>7 DEF Createrepo, PubType, buildVars
  <2>2. Fits(pub.read, pub.arch)'
    BY <1>3, <2>1 DEF Fits, OfPkg, RpmsOn
  <2>. QED
    BY <1>5, <2>1, <2>2 DEF Done
<1>8. CASE CreaterepoOk
  <2>1. /\ pub.pc = "createrepo" /\ pub'.pc = "unsign" /\ pub'.left = pub.left
        /\ index' = [index EXCEPT ![pub.arch] = pub.read] /\ pub.read # None
    BY <1>0, <1>8, PublishAssumption DEF CreaterepoOk, PubGoto, PubType
  <2>2. ASSUME NEW a \in Arches, a = pub.arch PROVE Fits(Indexed(a), a)'
    <3>1. Indexed(a)' = pub.read
      BY <1>0, <2>1, <2>2 DEF Indexed, PubType
    <3>. QED
      BY <1>2, <1>4, <2>1, <2>2, <3>1
  <2>3. ASSUME NEW a \in Arches, a \notin pub.left, a # pub.arch PROVE Fits(Indexed(a), a)'
    BY <1>0, <1>5, <2>1, <2>3 DEF PubType
  <2>. QED
    BY <2>1, <2>2, <2>3 DEF Done
<1>9. CASE Unsign \/ GpgOk
  <2>1. /\ pub.pc \in {"unsign", "gpg"} /\ pub'.pc \in {"gpg", "arch"}
        /\ pub'.left = pub.left /\ index' = index
    BY <1>0, <1>9 DEF Unsign, GpgOk, PubGoto, PubType
  <2>. QED
    BY <1>5, <2>1 DEF Done
<1>10. CASE UNCHANGED pubVars
  <2>1. ASSUME pub.pc = "createrepo" PROVE pub.arch \in Arches /\ Fits(pub.read, pub.arch)'
    <3>1. PICK a \in Arches : a = pub.arch
      BY <2>1 DEF PubInv
    <3>. QED
      BY <1>2, <1>10, <2>1, <3>1 DEF Fits, OfPkg, RpmsOn, pubVars
  <2>. QED
    BY <1>5, <1>10, <2>1 DEF Done, pubVars
<1>11. ~PubFails /\ ~PubOk
  BY <1>0 DEF PubFails, PubOk, PubGoto, PubType, PubWorking
<1>. QED
  BY <1>6, <1>7, <1>8, <1>9, <1>10, <1>11 DEF Next, PubStep

\* The invariant is kept by every step.
LEMMA PubInvStays ==
  ASSUME TypeOK, UnsignedInHand, PubInv, Next
  PROVE  PubInv'
<1>1. BuildTypeOK /\ PubType /\ [BuildNext]_buildVars /\ beside \subseteq Procs
  BY PubStepKeeps DEF TypeOK, PubType, Next
<1>2. \A x \in beside' : proc'[x].pc # "idle"
  <2>1. \A x \in Building' : proc'[x].pc # "idle"
    BY DEF Building, Running
  <2>2. \A x \in beside : proc'[x].pc # "idle"
    BY <1>1, StartedStays DEF PubInv
  <2>. QED
    BY <2>1, <2>2 DEF Next, Met
<1>3. pub'.pc \in PubWorking => Building' \subseteq beside'
  BY DEF Next
<1>4. CASE Publish
  <2>1. pub'.left = Arches /\ pub'.pc = "arch"
    BY <1>4 DEF Publish
  <2>. QED
    BY <1>2, <1>3, <2>1 DEF PubInv
<1>5. CASE pub.pc \notin PubWorking /\ ~Publish
  <2>1. pub'.pc \notin PubWorking
    BY <1>5 DEF Next, PubStep, SkipArch, Createrepo, CreaterepoOk, Unsign, GpgOk,
       PubFails, PubOk, pubVars, PubWorking
  <2>. QED
    BY <1>2, <2>1 DEF PubInv
<1>6. CASE pub.pc \in PubWorking /\ ~Publish
  <2>1. pub'.pc \in PubWorking => Done'
    BY <1>6, DoneStays
  <2>. QED
    BY <1>2, <1>3, <2>1 DEF PubInv, Done
<1>. QED
  BY <1>4, <1>5, <1>6

\* Before and during every publish.
LEMMA PublishInvariant == Spec => []PubInv
<1>1. Init => PubInv
  BY DEF Init, PubInv, PubWorking
<1>2. TypeOK /\ UnsignedInHand /\ PubInv /\ [Next]_vars => PubInv'
  <2>1. CASE UNCHANGED vars
    BY <2>1 DEF vars, pubVars, buildVars, PubInv, Building, Fits, AwayFrom, OfPkg, RpmsOn,
       Excused, Indexed
  <2>. QED
    BY <2>1, PubInvStays
<1>. QED
  BY <1>1, <1>2, PublishTypeCorrect, PublishKeepsBuilds, UnsignedIsInHand, PTL DEF Spec

\* An RPM that a publish which ends well has indexed unsigned is one of a failed
\* build, of another version than its build was for, or of a build beside it.
THEOREM UnsignedIsOfFailed == Spec => UnsignedPublished
<1>. DEFINE Unsigned == PubOk => \A a \in Arches : \A e \in Indexed(a) : ~e[4] =>
               /\ e[3] \in Procs /\ proc[e[3]].pc # "idle"
               /\ e[3] \in beside \/ proc[e[3]].pc = "fail" \/ proc[e[3]].ver # e[2]
<1>1. PubInv => Unsigned
  BY DEF PubOk, PubWorking, PubInv, Fits, Excused
<1>. QED
  BY <1>1, PublishInvariant, PTL DEF UnsignedPublished

\* After a publish that ended well each index describes the files that lie there
\* of every package that was not built beside it.
THEOREM IndexIsCurrent == Spec => OkPublishIsCurrent
<1>. DEFINE Current == PubOk => \A a \in Arches, k \in Pkgs :
               (\A x \in beside : proc[x].key # k) =>
                 OfPkg(k, Indexed(a)) = OfPkg(k, RpmsOn(a))
<1>1. PubInv => Current
  BY DEF PubOk, PubWorking, PubInv, Fits, AwayFrom
<1>. QED
  BY <1>1, PublishInvariant, PTL DEF OkPublishIsCurrent
=============================================================================
