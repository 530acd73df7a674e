------------------------------ MODULE Publish ------------------------------
(***************************************************************************)
(* `vendorctl publish` (orch.rs, create_repo) beside the builds of Build:  *)
(* for one arch after the other, createrepo_c over RPMS/<arch>, then a     *)
(* detached signature over the repomd.xml it wrote.  An RPM that is built  *)
(* or signed after createrepo_c has read it is no longer the file that the *)
(* index describes, and any step may fail or be the last one.              *)
(* A definition F_X is a mutant of F: a bug the properties must find.      *)
(***************************************************************************)
EXTENDS Build

CONSTANTS
  None,        \* no repodata, no signature
  MaxPublish   \* bound: how often publish is run

\* What an index holds of an RPM: whose, of which build, signed or not.
Entries == Pkgs \X Versions \X (Procs \cup {Prior}) \X BOOLEAN

ASSUME PublishAssumption ==
  /\ MaxPublish \in Nat
  /\ \A read \in SUBSET Entries : read # None

VARIABLES
  index,      \* RPMS/<arch>/repodata: the RPMs as createrepo_c read them
  asc,        \* the index that repodata/repomd.xml.asc is a signature of
  pub,        \* create_repo: its step, the arch at hand, what was read, the rest
  published,  \* how often it was run
  beside      \* history: the builds that ran at any time while publish did, of
              \* the publish that runs or of the last one

pubVars == <<index, asc, pub, published>>
vars == <<buildVars, pubVars, beside>>

PubWorking == {"arch", "createrepo", "unsign", "gpg"}
Building == {x \in Procs : proc[x].pc \in Running}

\* What lies in RPMS/<arch>: which build wrote it and whether it is signed.
RpmsOn(a) ==
  {<<f[1], f[2], rpm[f].by, rpm[f].signed>> :
     f \in {g \in Pkgs \X Versions \X {a} : rpm[g].there}}

Init ==
  /\ BuildInit
  /\ index = [a \in Arches |-> None] /\ asc = [a \in Arches |-> None]
  /\ pub = [pc |-> "idle", arch |-> Src, read |-> {}, left |-> {}]
  /\ published = 0 /\ beside = {}

-----------------------------------------------------------------------------
PubGoto(pc) == pub' = [pub EXCEPT !.pc = pc]

Publish ==
  /\ pub.pc \notin PubWorking /\ published < MaxPublish
  /\ pub' = [pc |-> "arch", arch |-> Src, read |-> {}, left |-> Arches]
  /\ published' = published + 1
  /\ UNCHANGED <<index, asc, buildVars>>

\* An arch without a directory is skipped; the mutant skips an arch that has
\* been published before.
SkipArch_Indexed(a) ==
  /\ pub.pc = "arch" /\ a \in pub.left /\ (RpmsOn(a) = {} \/ index[a] # None)
  /\ pub' = [pub EXCEPT !.left = @ \ {a}]
  /\ UNCHANGED <<index, asc, published, buildVars>>
SkipArch(a) ==
  /\ pub.pc = "arch" /\ a \in pub.left /\ RpmsOn(a) = {} /\ index[a] = None
  /\ pub' = [pub EXCEPT !.left = @ \ {a}]
  /\ UNCHANGED <<index, asc, published, buildVars>>

\* createrepo_c reads the directory, and later puts its repodata in place.
Createrepo(a) ==
  /\ pub.pc = "arch" /\ a \in pub.left
  /\ pub' = [pc |-> "createrepo", arch |-> a, read |-> RpmsOn(a), left |-> pub.left \ {a}]
  /\ UNCHANGED <<index, asc, published, buildVars>>

\* Whether a new repodata keeps files that are not metadata is createrepo_c's
\* affair: the old signature is still there or it is not.
CreaterepoOk ==
  /\ pub.pc = "createrepo" /\ PubGoto("unsign")
  /\ index' = [index EXCEPT ![pub.arch] = pub.read]
  /\ \E old \in {asc[pub.arch], None} : asc' = [asc EXCEPT ![pub.arch] = old]
  /\ UNCHANGED <<published, buildVars>>

\* The error of remove_file is ignored.
Unsign ==
  /\ pub.pc = "unsign" /\ PubGoto("gpg")
  /\ \E old \in {asc[pub.arch], None} : asc' = [asc EXCEPT ![pub.arch] = old]
  /\ UNCHANGED <<index, published, buildVars>>

\* `--detach-sign` writes the signature, over an old one because of `--yes`.
GpgOk_Kept ==
  /\ pub.pc = "gpg" /\ PubGoto("arch")
  /\ asc' = [asc EXCEPT ![pub.arch] = IF @ = None THEN index[pub.arch] ELSE @]
  /\ UNCHANGED <<index, published, buildVars>>
GpgOk ==
  /\ pub.pc = "gpg" /\ PubGoto("arch")
  /\ asc' = [asc EXCEPT ![pub.arch] = index[pub.arch]]
  /\ UNCHANGED <<index, published, buildVars>>

\* createrepo_c or gpg fails and the error is returned, or publish is killed:
\* the repository stays as it is.
PubFails ==
  /\ pub.pc \in PubWorking /\ PubGoto("err")
  /\ UNCHANGED <<index, asc, published, buildVars>>

PubOk ==
  /\ pub.pc = "arch" /\ pub.left = {} /\ PubGoto("ok")
  /\ UNCHANGED <<index, asc, published, buildVars>>

PubStep ==
  \/ Publish \/ CreaterepoOk \/ Unsign \/ GpgOk \/ PubFails \/ PubOk
  \/ \E a \in Arches : SkipArch(a) \/ Createrepo(a)

Met == IF pub.pc \in PubWorking THEN beside ELSE {}

Next ==
  /\ PubStep \/ (BuildNext /\ UNCHANGED pubVars)
  /\ beside' = IF pub'.pc \in PubWorking THEN Met \cup Building' ELSE beside

Spec == Init /\ [][Next]_vars

-----------------------------------------------------------------------------
TypeOK ==
  /\ BuildTypeOK
  /\ index \in [Arches -> {None} \cup SUBSET Entries]
  /\ asc \in [Arches -> {None} \cup SUBSET Entries]
  /\ pub \in [pc : PubWorking \cup {"idle", "ok", "err"}, arch : Files,
              read : SUBSET Entries, left : SUBSET Arches]
  /\ published \in 0..MaxPublish /\ beside \subseteq Procs

\* Whoever reads the repository after a publish that ended well finds a good
\* signature for every arch, even if builds went on beside it; while a publish
\* runs, only the arch at hand and those it has not come to may be without.
SignatureIsOfIndex ==
  \A a \in Arches : asc[a] # index[a] =>
    \/ pub.pc = "err"
    \/ pub.pc = "arch" /\ a \in pub.left
    \/ pub.pc \in {"createrepo", "unsign", "gpg"} /\ a \in pub.left \cup {pub.arch}

Indexed(a) == IF index[a] = None THEN {} ELSE index[a]
OfPkg(k, entries) == {e \in entries : e[1] = k}

\* When publish exits 0, then of every package that nobody built beside it, in
\* any arch, the index describes the very files that lie there, whatever else was
\* built and published meanwhile or before: nothing stale, nothing missing.  In the
\* order of rebuild-all.sh, where no build runs beside it, that is every package.
OkPublishIsCurrent ==
  [][PubOk => \A a \in Arches, k \in Pkgs :
       (\A x \in beside : proc[x].key # k) =>
         OfPkg(k, Indexed(a)) = OfPkg(k, RpmsOn(a))]_vars

\* README: "packages as RPMs, signs them, and publishes".  When publish exits 0, an
\* RPM that it has indexed unsigned is of a build that failed, of one whose spec was
\* of another version than the catalog, or of one that ran beside this publish.
UnsignedPublished ==
  [][PubOk => \A a \in Arches : \A e \in Indexed(a) : ~e[4] =>
       /\ e[3] \in Procs /\ proc[e[3]].pc # "idle"
       /\ e[3] \in beside \/ proc[e[3]].pc = "fail" \/ proc[e[3]].ver # e[2]]_vars
=============================================================================
