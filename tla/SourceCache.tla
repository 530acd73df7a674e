---------------------------- MODULE SourceCache ----------------------------
(***************************************************************************)
(* The sources of one package version: `src fetch` (orch.rs, fetch), the   *)
(* fetch inside `build-all`, `stage`, and the rpmbuild that reads SOURCES, *)
(* beside `src update` and an upstream that may change what it serves.     *)
(* curl writes under the final name and the checksum is compared after, so *)
(* a file in SOURCES may be torn or not what the catalog pins.             *)
(* A digest stands for the content that has it.  package_versions.         *)
(* integrity_hash, which stage writes, is never read and left out.         *)
(* A definition F_X is a mutant of F: a bug the properties must find.      *)
(***************************************************************************)
EXTENDS Integers

CONSTANTS
  N,           \* how many sources the version has; number 1 is Source0
  Files,
  FileOf,      \* the name of source i in SOURCES, for fetch and for the spec
  StageFile,   \* what `stage` writes: <key>-<version>.tar.gz
  Urls, Digests,
  Vendored,    \* the tarball of the vendor tree
  None,        \* no file, no checksum
  Torn,        \* a file that was not written to its end, and its digest
  MaxUpdates, MaxShifts   \* bounds: on `src update`, on changes upstream

Sources == 1..N

ASSUME SourceAssumption ==
  /\ N \in Nat \ {0} /\ FileOf \in [Sources -> Files] /\ StageFile \in Files
  /\ \A i, j \in Sources : FileOf[i] = FileOf[j] => i = j
  /\ Vendored \in Digests /\ None \notin Digests /\ Torn \notin Digests /\ None # Torn
  /\ MaxUpdates \in Nat /\ MaxShifts \in Nat

VARIABLES
  row,      \* sources: canonical_url and checksum_value
  serves,   \* what each URL gives
  file,     \* SOURCES
  job,      \* the command at hand: its step, source, rows read, what follows
  suspect,  \* history: sources to which something happened that a fetch of
            \* them has not checked since, by a digest that was really taken
  used,     \* history: what builds used of a source that was not suspect,
            \* since its row was last updated
  updates, shifts

vars == <<row, serves, file, job, suspect, used, updates, shifts>>

Row == [url : Urls, pin : Digests \cup {None, Torn}]
Idle == [pc |-> "idle"]

Init ==
  /\ row \in {r \in [Sources -> [url : Urls, pin : Digests \cup {None}]] :
                \A i, j \in Sources : r[i].url = r[j].url => i = j}
  /\ serves \in [Urls -> Digests]
  /\ file = [f \in Files |-> None]
  /\ job = Idle /\ suspect = {} /\ used = [i \in Sources |-> {}]
  /\ updates = 0 /\ shifts = 0

-----------------------------------------------------------------------------
At == job.at
FetchFrom(i, then) == [pc |-> "open", at |-> i, snap |-> row, then |-> then]

\* After a fetch, `src fetch` ends and build-all builds, whatever the result.
Afterwards == IF job.then = "build" THEN [job EXCEPT !.pc = "build"] ELSE Idle

Fetch ==
  /\ job = Idle /\ job' = FetchFrom(1, "end")
  /\ UNCHANGED <<row, serves, file, suspect, used, updates, shifts>>

\* build-all fetches if the file of the first source is missing.
Missing == file[FileOf[1]] = None

BuildAll ==
  /\ job = Idle
  /\ job' = [FetchFrom(1, "build") EXCEPT !.pc = IF Missing THEN "open" ELSE "build"]
  /\ UNCHANGED <<row, serves, file, suspect, used, updates, shifts>>

Build ==
  /\ job = Idle /\ job' = [FetchFrom(1, "end") EXCEPT !.pc = "build"]
  /\ UNCHANGED <<row, serves, file, suspect, used, updates, shifts>>

\* The first bytes arrive: curl creates or truncates the file.
CurlOpens ==
  /\ job.pc = "open" /\ job' = [job EXCEPT !.pc = "curl"]
  /\ file' = [file EXCEPT ![FileOf[At]] = Torn]
  /\ UNCHANGED <<row, serves, suspect, used, updates, shifts>>

CurlDone ==
  /\ job.pc = "curl" /\ job' = [job EXCEPT !.pc = "check"]
  /\ file' = [file EXCEPT ![FileOf[At]] = serves[job.snap[At].url]]
  /\ UNCHANGED <<row, serves, suspect, used, updates, shifts>>

\* The fetch of a source ends with an error: curl fails before it has data (the
\* file is not touched) or in the middle, sha256sum cannot be started, or the
\* digest cannot be recorded.
FetchFails ==
  /\ job.pc \in {"open", "curl", "check"} /\ job' = Afterwards
  /\ suspect' = IF job.pc = "open" THEN suspect ELSE suspect \cup {At}
  /\ UNCHANGED <<row, serves, file, used, updates, shifts>>

\* The mutant hashes what curl left without looking at its exit status.
CurlChecked_Unread == job.pc \in {"curl", "check"}
CurlChecked == job.pc = "check"

NextSource_Off == IF At <= N THEN [job EXCEPT !.pc = "open", !.at = @ + 1] ELSE Afterwards
NextSource == IF At < N THEN [job EXCEPT !.pc = "open", !.at = @ + 1] ELSE Afterwards

\* sha256_of gives the digest of the file, or, as nobody looks at the exit
\* status, no digest when sha256sum fails: the empty text, which is no pin.
Sums == {file[FileOf[At]], None}

\* A digest was taken, and the row that was read is still the row: then the
\* history variable may trust the file.
Checked(sum) ==
  IF sum # None /\ row[At] = job.snap[At] THEN suspect \ {At} ELSE suspect \cup {At}

\* The mutant records what it fetched whether or not a checksum was there.
Unpinned_Always == TRUE
Unpinned == job.snap[At].pin = None

\* The update goes by the URL that was read: it overwrites a pin set since, and
\* it may hit a source that has been given that URL since.
Recorded(digest) ==
  [i \in Sources |-> IF row[i].url = job.snap[At].url
                     THEN [row[i] EXCEPT !.pin = digest] ELSE row[i]]

\* No digest is recorded like one: the source stays unpinned, and fetch goes on.
RecordPin ==
  /\ CurlChecked /\ Unpinned
  /\ \E sum \in Sums : row' = Recorded(sum) /\ suspect' = Checked(sum)
  /\ job' = NextSource
  /\ UNCHANGED <<serves, file, used, updates, shifts>>

VerifyPin_Blind ==
  /\ CurlChecked /\ ~Unpinned
  /\ job' = NextSource /\ suspect' = Checked(job.snap[At].pin)
  /\ UNCHANGED <<row, serves, file, used, updates, shifts>>
VerifyPin ==
  /\ CurlChecked /\ ~Unpinned /\ job.snap[At].pin \in Sums
  /\ job' = NextSource /\ suspect' = Checked(job.snap[At].pin)
  /\ UNCHANGED <<row, serves, file, used, updates, shifts>>

\* The file stays where it is.  Without a digest a good file is refused too.
Mismatch ==
  /\ CurlChecked /\ ~Unpinned /\ \E sum \in Sums : sum # job.snap[At].pin
  /\ job' = Afterwards /\ suspect' = suspect \cup {At}
  /\ UNCHANGED <<row, serves, file, used, updates, shifts>>

\* tar writes StageFile, in place; it may fail on the way.
StageBegins ==
  /\ job = Idle
  /\ \E then \in {"end", "build"} : job' = [FetchFrom(1, then) EXCEPT !.pc = "tar"]
  /\ file' = [file EXCEPT ![StageFile] = Torn]
  /\ suspect' = suspect \cup {i \in Sources : FileOf[i] = StageFile}
  /\ UNCHANGED <<row, serves, used, updates, shifts>>

StageOk ==
  /\ job.pc = "tar" /\ job' = Afterwards
  /\ file' = [file EXCEPT ![StageFile] = Vendored]
  /\ UNCHANGED <<row, serves, suspect, used, updates, shifts>>

\* rpmbuild unpacks every source and checks none; a torn archive is an error.
Unpacks == \A i \in Sources : file[FileOf[i]] \in Digests

RpmbuildOk ==
  /\ job.pc = "build" /\ Unpacks /\ job' = Idle
  /\ used' = [i \in Sources |->
                IF i \in suspect THEN used[i] ELSE used[i] \cup {file[FileOf[i]]}]
  /\ UNCHANGED <<row, serves, file, suspect, updates, shifts>>

\* stage or build fails, or any command is killed with the program it runs.
Dies ==
  /\ job.pc # "idle" /\ job' = Idle
  /\ suspect' = IF job.pc \in {"curl", "check"} THEN suspect \cup {At} ELSE suspect
  /\ UNCHANGED <<row, serves, file, used, updates, shifts>>

\* `src update`: the row is replaced; without --checksum-value the pin is
\* erased.  A URL is unique in its version.
Update(i, url, pin) ==
  /\ updates < MaxUpdates /\ updates' = updates + 1
  /\ \A j \in Sources \ {i} : row[j].url # url
  /\ row' = [row EXCEPT ![i] = [url |-> url, pin |-> pin]]
  /\ suspect' = suspect \cup {i} /\ used' = [used EXCEPT ![i] = {}]
  /\ UNCHANGED <<serves, file, job, shifts>>

Shift(url, digest) ==
  /\ shifts < MaxShifts /\ shifts' = shifts + 1
  /\ serves' = [serves EXCEPT ![url] = digest]
  /\ UNCHANGED <<row, file, job, suspect, used, updates>>

Command ==
  \/ Fetch \/ BuildAll \/ Build \/ CurlOpens \/ CurlDone \/ FetchFails
  \/ RecordPin \/ VerifyPin \/ Mismatch \/ StageBegins \/ StageOk \/ RpmbuildOk \/ Dies

Next ==
  \/ Command
  \/ \E i \in Sources, url \in Urls, pin \in Digests \cup {None} : Update(i, url, pin)
  \/ \E url \in Urls, digest \in Digests : Shift(url, digest)

Spec == Init /\ [][Next]_vars

-----------------------------------------------------------------------------
Steps == {"open", "curl", "check", "tar", "build"}

TypeOK ==
  /\ row \in [Sources -> Row] /\ serves \in [Urls -> Digests]
  /\ file \in [Files -> Digests \cup {None, Torn}]
  /\ job \in {Idle} \cup [pc : Steps, at : Sources, snap : [Sources -> Row],
                          then : {"end", "build"}]
  /\ suspect \subseteq Sources /\ used \in [Sources -> SUBSET Digests]
  /\ updates \in 0..MaxUpdates /\ shifts \in 0..MaxShifts

\* What a fetch pins is never the digest of a broken download, which every
\* later fetch of the good file would then refuse.
PinsAreWhole == \A i \in Sources : row[i].pin # Torn

InHand(i) == job.pc \in {"curl", "check"} /\ At = i

\* A file in SOURCES that is not what the catalog pins is always one that a
\* fetch has refused, not finished or passed without a digest, that stage wrote,
\* or whose row has been updated: the skip of build-all, the unchecked rpmbuild
\* and the late UPDATE by URL never make a good file a bad one by themselves.
FilesAreChecked ==
  \A i \in Sources : i \notin suspect /\ ~InHand(i) =>
    file[FileOf[i]] \in {None, row[i].pin}

\* Trust on first fetch: as long as nobody updates the row, all the builds
\* that used a source whose last fetch took its digest used the same bytes,
\* whatever upstream serves and whichever digests could not be taken between.
SameBytes == \A i \in Sources : \A c, d \in used[i] : c = d

\* Why: a fetch that is checking a source has its whole file; a row that was
\* updated under a running fetch is suspect and unused; and what builds used of
\* a source is what its row pins.
FetchHolds ==
  /\ job.pc = "check" => file[FileOf[At]] \in Digests
  /\ job.pc \in {"open", "curl", "check"} =>
       \A i \in Sources :
         row[i].url # job.snap[i].url \/ (i >= At /\ row[i] # job.snap[i]) =>
           i \in suspect /\ used[i] = {}
  /\ job.pc = "tar" => \A i \in Sources : FileOf[i] = StageFile => i \in suspect
  /\ \A i \in Sources : used[i] \subseteq {row[i].pin}

\* register-missing.sh: "Built from PRISTINE upstream tarballs (vendorctl src
\* fetch verifies sha256)".  build-all drops the error of the fetch and builds.
BuiltIsVerified ==
  [][RpmbuildOk => \A i \in Sources : row[i].pin \in {None, file[FileOf[i]]}]_vars
=============================================================================
