------------------------- MODULE SourceCacheProofs -------------------------
(***************************************************************************)
(* Proofs about SourceCache: what a fetch guarantees of the pins and of    *)
(* the files, for any number of sources and any contents.                  *)
(***************************************************************************)
EXTENDS SourceCache, TLAPS

Fetching == job.pc \in {"open", "curl", "check"}
Job == [pc : Steps, at : Sources, snap : [Sources -> Row], then : {"end", "build"}]

\* A command at work is a record with all its fields.
LEMMA JobFields ==
  ASSUME TypeOK, job.pc # "idle"
  PROVE  job \in Job
BY DEF TypeOK, Job, Idle

\* What follows a source, and what follows a fetch, is a command or none.
LEMMA NextSourceType ==
  ASSUME TypeOK, job.pc # "idle"
  PROVE  /\ Afterwards \in {Idle} \cup Job
         /\ NextSource \in {Idle} \cup Job
<1>1. job \in Job /\ At \in 1..N /\ N \in Nat
  BY JobFields, SourceAssumption DEF Job, Sources, At
<1>2. Afterwards \in {Idle} \cup Job
  BY <1>1 DEF Afterwards, Job, Steps
<1>3. At < N => [job EXCEPT !.pc = "open", !.at = @ + 1] \in Job
  <2>1. At < N => At + 1 \in Sources
    BY <1>1 DEF Sources
  <2>. QED
    BY <1>1, <2>1 DEF Job, Steps, At
<1>. QED
  BY <1>2, <1>3 DEF NextSource

\* Every variable keeps its type.
THEOREM SourceTypeCorrect == Spec => []TypeOK
<1>1. Init => TypeOK
  <2>. SUFFICES ASSUME Init PROVE TypeOK
    OBVIOUS
  <2>1. row \in [Sources -> Row]
    BY DEF Init, Row
  <2>. QED
    BY <2>1, SourceAssumption DEF Init, TypeOK
<1>2. TypeOK /\ [Next]_vars => TypeOK'
  <2>. SUFFICES ASSUME TypeOK, [Next]_vars PROVE TypeOK'
    OBVIOUS
  <2>0. 1 \in Sources
    BY SourceAssumption DEF Sources
  <2>1. CASE Fetch
    BY <2>0, <2>1 DEF Fetch, FetchFrom, TypeOK, Steps
  <2>2. CASE BuildAll
    BY <2>0, <2>2 DEF BuildAll, FetchFrom, TypeOK, Steps
  <2>3. CASE Build
    BY <2>0, <2>3 DEF Build, FetchFrom, TypeOK, Steps
  <2>4. CASE CurlOpens
    <3>1. job \in Job
      BY <2>4, JobFields DEF CurlOpens
    <3>2. job' \in Job
      BY <2>4, <3>1 DEF CurlOpens, Job, Steps
    <3>. QED
      BY <2>4, <3>2 DEF CurlOpens, TypeOK, Job
  <2>5. CASE CurlDone
    <3>1. job \in Job
      BY <2>5, JobFields DEF CurlDone
    <3>2. job' \in Job
      BY <2>5, <3>1 DEF CurlDone, Job, Steps
    <3>3. serves[job.snap[At].url] \in Digests
      BY <3>1 DEF TypeOK, Job, Row, At
    <3>. QED
      BY <2>5, <3>2, <3>3 DEF CurlDone, TypeOK, Job
  <2>6. CASE FetchFails
    <3>1. job \in Job /\ Afterwards \in {Idle} \cup Job
      BY <2>6, JobFields, NextSourceType DEF FetchFails
    <3>. QED
      BY <2>6, <3>1 DEF FetchFails, TypeOK, Job, At
  <2>7. CASE RecordPin
    <3>1. job \in Job /\ NextSource \in {Idle} \cup Job
      BY <2>7, JobFields, NextSourceType DEF RecordPin, CurlChecked
    <3>2. At \in Sources /\ FileOf[At] \in Files
      BY <3>1, SourceAssumption DEF Job, At
    <3>3. row' \in [Sources -> Row]
      <4>1. PICK sum \in Sums : row' = Recorded(sum)
        BY <2>7 DEF RecordPin
      <4>2. sum \in Digests \cup {None, Torn}
        BY <3>2 DEF Sums, TypeOK
      <4>3. \A i \in Sources : [row[i] EXCEPT !.pin = sum] \in Row
        BY <4>2 DEF TypeOK, Row
      <4>. QED
        BY <4>1, <4>3 DEF Recorded, TypeOK
    <3>. QED
      BY <2>7, <3>1, <3>3 DEF RecordPin, Checked, TypeOK, Job, At
  <2>8. CASE VerifyPin
    <3>1. job \in Job /\ NextSource \in {Idle} \cup Job
      BY <2>8, JobFields, NextSourceType DEF VerifyPin, CurlChecked
    <3>. QED
      BY <2>8, <3>1 DEF VerifyPin, Checked, TypeOK, Job, At
  <2>9. CASE Mismatch
    <3>1. job \in Job /\ Afterwards \in {Idle} \cup Job
      BY <2>9, JobFields, NextSourceType DEF Mismatch, CurlChecked
    <3>. QED
      BY <2>9, <3>1 DEF Mismatch, TypeOK, Job, At
  <2>10. CASE StageBegins
    BY <2>0, <2>10 DEF StageBegins, FetchFrom, TypeOK, Steps
  <2>11. CASE StageOk
    <3>1. Afterwards \in {Idle} \cup Job
      BY <2>11, NextSourceType DEF StageOk
    <3>. QED
      BY <2>11, <3>1, SourceAssumption DEF StageOk, TypeOK, Job
  <2>12. CASE RpmbuildOk
    <3>1. \A i \in Sources : file[FileOf[i]] \in Digests
      BY <2>12 DEF RpmbuildOk, Unpacks
    <3>. QED
      BY <2>12, <3>1 DEF RpmbuildOk, TypeOK
  <2>13. CASE Dies
    <3>1. job \in Job
      BY <2>13, JobFields DEF Dies
    <3>. QED
      BY <2>13, <3>1 DEF Dies, TypeOK, Job, At
  <2>14. ASSUME NEW i \in Sources, NEW url \in Urls, NEW pin \in Digests \cup {None},
                Update(i, url, pin)
         PROVE  TypeOK'
    <3>1. [url |-> url, pin |-> pin] \in Row
      BY DEF Row
    <3>. QED
      BY <2>14, <3>1, SourceAssumption DEF Update, TypeOK
  <2>15. ASSUME NEW url \in Urls, NEW digest \in Digests, Shift(url, digest) PROVE TypeOK'
    BY <2>15, SourceAssumption DEF Shift, TypeOK
  <2>16. CASE UNCHANGED vars
    BY <2>16 DEF vars, TypeOK
  <2>. QED
    BY <2>1, <2>2, <2>3, <2>4, <2>5, <2>6, <2>7, <2>8, <2>9, <2>10, <2>11, <2>12,
       <2>13, <2>14, <2>15, <2>16 DEF Next, Command
<1>. QED
  BY <1>1, <1>2, PTL DEF Spec

-----------------------------------------------------------------------------
\* UNIQUE(package_version_id, canonical_url), of the table and of what was read.
Distinct(rows) == \A i, j \in Sources : rows[i].url = rows[j].url => i = j
UrlsApart == Distinct(row) /\ (job.pc # "idle" => Distinct(job.snap))

SourceInv == PinsAreWhole /\ FilesAreChecked /\ FetchHolds

\* A fetch at work is at one of the sources, with all rows as it read them.
LEMMA AtIsSource ==
  ASSUME TypeOK, job.pc # "idle"
  PROVE  At \in Sources /\ At \in Nat /\ job.snap \in [Sources -> Row]
<1>1. job \in Job
  BY JobFields
<1>2. \A i \in Sources : i \in Nat
  BY SourceAssumption DEF Sources
<1>. QED
  BY <1>1, <1>2 DEF Job, At

\* After a fetch comes the build it was for, or nothing.
LEMMA AfterwardsPc ==
  ASSUME TypeOK, job.pc # "idle"
  PROVE  Afterwards.pc \in {"idle", "build"}
BY JobFields DEF Afterwards, Idle, Job

\* After a source that is checked comes the next one, or the fetch is over.
LEMMA NextSourceStep ==
  ASSUME TypeOK, job.pc # "idle"
  PROVE  \/ NextSource.pc \in {"idle", "build"}
         \/ /\ NextSource.pc = "open" /\ NextSource.at = At + 1
            /\ NextSource.snap = job.snap
<1>1. job \in Job
  BY JobFields
<1>. QED
  BY <1>1, AfterwardsPc DEF NextSource, Job, At

\* A successful check of source At: what RecordPin and VerifyPin share.
LEMMA CheckKeeps ==
  ASSUME TypeOK, TypeOK', SourceInv, job.pc = "check", job' = NextSource,
         NEW sum \in Sums, suspect' = Checked(sum),
         UNCHANGED <<serves, file, used, updates, shifts>>,
         \A i \in Sources : row'[i].url = row[i].url,
         \A i \in Sources \ {At} : row'[i] = row[i] \/
           (row'[i].pin # Torn /\ i \in suspect /\ used[i] = {}),
         row'[At].pin # Torn, used[At] \subseteq {row'[At].pin},
         row[At] = job.snap[At] => row'[At].pin = sum
  PROVE  SourceInv'
<1>1. At \in Sources /\ At \in Nat /\ \A i \in Sources : i \in Nat
  BY AtIsSource, SourceAssumption DEF Sources
<1>2. \/ job'.pc \in {"idle", "build"}
      \/ job'.pc = "open" /\ job'.at = At + 1 /\ job'.snap = job.snap
  BY NextSourceStep
<1>3. \A i \in Sources :
        i \in suspect' <=> IF i = At THEN sum = None \/ row[At] # job.snap[At] ELSE i \in suspect
  BY <1>1 DEF Checked
<1>4. At \notin suspect' => row'[At].pin = file[FileOf[At]]
  BY <1>1, <1>3 DEF Sums
<1>5. PinsAreWhole'
  BY <1>1 DEF SourceInv, PinsAreWhole
<1>6. FilesAreChecked'
  <2>. SUFFICES ASSUME NEW i \in Sources, i \notin suspect'
                PROVE  file[FileOf[i]] \in {None, row'[i].pin}
    BY DEF FilesAreChecked
  <2>1. CASE i = At
    BY <1>4, <2>1
  <2>2. CASE i # At
    BY <1>3, <2>2 DEF SourceInv, FilesAreChecked, InHand
  <2>. QED
    BY <2>1, <2>2
<1>7. FetchHolds'
  <2>1. \A i \in Sources : used'[i] \subseteq {row'[i].pin}
    BY DEF SourceInv, FetchHolds
  <2>2. CASE job'.pc \in {"idle", "build"}
    BY <2>1, <2>2 DEF FetchHolds
  <2>3. CASE job'.pc = "open" /\ job'.at = At + 1 /\ job'.snap = job.snap
    <3>1. \A i \in Sources : i >= At + 1 => i # At /\ i >= At
      BY <1>1
    <3>. QED
      BY <1>3, <2>1, <2>3, <3>1 DEF SourceInv, FetchHolds, At
  <2>. QED
    BY <1>2, <2>2, <2>3
<1>. QED
  BY <1>5, <1>6, <1>7 DEF SourceInv

\* No two rows ever have the same URL, in the table or as a fetch has read them.
LEMMA UrlsStayApart == Spec => []UrlsApart
<1>1. Init => UrlsApart
  BY DEF Init, Idle, UrlsApart, Distinct
<1>2. TypeOK /\ UrlsApart /\ [Next]_vars => UrlsApart'
  <2>. SUFFICES ASSUME TypeOK, UrlsApart, [Next]_vars PROVE UrlsApart'
    OBVIOUS
  <2>1. ASSUME job.pc # "idle", \A i \in Sources : row'[i].url = row[i].url,
               job' = Idle \/ job'.snap = job.snap
        PROVE  UrlsApart'
    BY <2>1 DEF UrlsApart, Distinct, Idle
  <2>2. CASE Fetch \/ BuildAll \/ Build \/ StageBegins
    BY <2>2 DEF Fetch, BuildAll, Build, StageBegins, FetchFrom, UrlsApart, Distinct
  <2>3. ASSUME job.pc # "idle"
        PROVE  Afterwards = Idle \/ Afterwards.snap = job.snap
    BY <2>3, JobFields DEF Afterwards, Job
  <2>4. ASSUME job.pc # "idle"
        PROVE  NextSource = Idle \/ NextSource.snap = job.snap
    BY <2>3, <2>4, JobFields DEF NextSource, Job
  <2>5. CASE CurlOpens \/ CurlDone
    <3>1. job \in Job /\ job.pc # "idle" /\ row' = row
      BY <2>5, JobFields DEF CurlOpens, CurlDone
    <3>2. job'.snap = job.snap
      BY <2>5, <3>1 DEF CurlOpens, CurlDone, Job
    <3>. QED
      BY <2>1, <3>1, <3>2
  <2>6. CASE FetchFails \/ Mismatch \/ StageOk
    <3>1. job.pc # "idle" /\ row' = row /\ job' = Afterwards
      BY <2>6 DEF FetchFails, Mismatch, CurlChecked, StageOk
    <3>. QED
      BY <2>1, <2>3, <3>1
  <2>7. CASE RecordPin \/ VerifyPin
    <3>1. job.pc # "idle" /\ job' = NextSource
      BY <2>7 DEF RecordPin, VerifyPin, CurlChecked
    <3>2. \A i \in Sources : row'[i].url = row[i].url
      BY <2>7 DEF RecordPin, VerifyPin, Recorded, TypeOK, Row
    <3>. QED
      BY <2>1, <2>4, <3>1, <3>2
  <2>8. CASE RpmbuildOk \/ Dies
    BY <2>1, <2>8 DEF RpmbuildOk, Dies
  <2>9. ASSUME NEW i \in Sources, NEW url \in Urls, NEW pin \in Digests \cup {None},
               Update(i, url, pin)
        PROVE  UrlsApart'
    <3>1. /\ job' = job /\ row'[i].url = url
          /\ \A j \in Sources \ {i} : row'[j] = row[j] /\ row[j].url # url
      BY <2>9 DEF Update, TypeOK
    <3>. QED
      BY <3>1 DEF UrlsApart, Distinct
  <2>10. ASSUME NEW url \in Urls, NEW digest \in Digests, Shift(url, digest)
         PROVE  UrlsApart'
    BY <2>10 DEF Shift, UrlsApart, Distinct
  <2>11. CASE UNCHANGED vars
    BY <2>11 DEF vars, UrlsApart, Distinct
  <2>. QED
    BY <2>2, <2>5, <2>6, <2>7, <2>8, <2>9, <2>10, <2>11 DEF Next, Command
<1>. QED
  BY <1>1, <1>2, SourceTypeCorrect, PTL DEF Spec

\* The steps that end a fetch or change nothing of what the invariant reads.
LEMMA QuietKeeps ==
  ASSUME TypeOK, SourceInv, UNCHANGED <<row, file, used>>, suspect \subseteq suspect',
         job'.pc \in {"idle", "build"}, \A i \in Sources : InHand(i) => i \in suspect'
  PROVE  SourceInv'
<1>1. PinsAreWhole'
  BY DEF SourceInv, PinsAreWhole
<1>2. FilesAreChecked'
  BY DEF SourceInv, FilesAreChecked
<1>3. FetchHolds'
  BY DEF SourceInv, FetchHolds
<1>. QED
  BY <1>1, <1>2, <1>3 DEF SourceInv

\* A command begins.
LEMMA BeginKeeps ==
  ASSUME TypeOK, SourceInv, job = Idle, UNCHANGED <<row, file, used, suspect>>,
         NEW then, NEW pc \in {"open", "build"},
         job' = [FetchFrom(1, then) EXCEPT !.pc = pc]
  PROVE  SourceInv'
<1>1. job'.pc = pc /\ job'.snap = row
  BY DEF FetchFrom
<1>2. PinsAreWhole'
  BY DEF SourceInv, PinsAreWhole
<1>3. FilesAreChecked'
  BY DEF SourceInv, FilesAreChecked, InHand, Idle
<1>4. FetchHolds'
  BY <1>1 DEF SourceInv, FetchHolds
<1>. QED
  BY <1>2, <1>3, <1>4 DEF SourceInv

\* The invariant holds of the empty SOURCES and is kept by every step.
THEOREM SourceInvariant == Spec => []SourceInv
<1>1. Init => SourceInv
  <2>. SUFFICES ASSUME Init PROVE SourceInv
    OBVIOUS
  <2>1. \A i \in Sources : row[i].pin # Torn /\ FileOf[i] \in Files
    BY SourceAssumption DEF Init
  <2>. QED
    BY <2>1 DEF Init, Idle, SourceInv, PinsAreWhole, FilesAreChecked, FetchHolds
<1>2. TypeOK /\ TypeOK' /\ UrlsApart /\ SourceInv /\ [Next]_vars => SourceInv'
  <2>. SUFFICES ASSUME TypeOK, TypeOK', UrlsApart, SourceInv, [Next]_vars PROVE SourceInv'
    OBVIOUS
  <2>. \A i \in Sources : i \in Nat /\ FileOf[i] \in Files
    BY SourceAssumption DEF Sources
  <2>1. CASE Fetch
    <3>1. job' = [FetchFrom(1, "end") EXCEPT !.pc = "open"]
      BY <2>1 DEF Fetch, FetchFrom
    <3>. QED
      BY <2>1, <3>1, BeginKeeps DEF Fetch
  <2>2. CASE BuildAll
    <3>1. PICK pc \in {"open", "build"} : job' = [FetchFrom(1, "build") EXCEPT !.pc = pc]
      BY <2>2 DEF BuildAll
    <3>. QED
      BY <2>2, <3>1, BeginKeeps DEF BuildAll
  <2>3. CASE Build
    BY <2>3, BeginKeeps DEF Build
  <2>4. CASE CurlOpens
    <3>1. job \in Job /\ job' = [job EXCEPT !.pc = "curl"]
      BY <2>4, JobFields DEF CurlOpens
    <3>2. job'.pc = "curl" /\ job'.at = At /\ job'.snap = job.snap /\ At \in Sources
      BY <3>1 DEF Job, At
    <3>3. \A i \in Sources : i # At => file'[FileOf[i]] = file[FileOf[i]]
      BY <2>4, <3>2, SourceAssumption DEF CurlOpens, TypeOK
    <3>4. FilesAreChecked'
      BY <2>4, <3>2, <3>3 DEF CurlOpens, SourceInv, FilesAreChecked, InHand, At
    <3>5. FetchHolds'
      BY <2>4, <3>2 DEF CurlOpens, SourceInv, FetchHolds, At
    <3>. QED
      BY <2>4, <3>4, <3>5 DEF CurlOpens, SourceInv, PinsAreWhole
  <2>5. CASE CurlDone
    <3>1. job \in Job /\ job' = [job EXCEPT !.pc = "check"]
      BY <2>5, JobFields DEF CurlDone
    <3>2. job'.pc = "check" /\ job'.at = At /\ job'.snap = job.snap /\ At \in Sources
      BY <3>1 DEF Job, At
    <3>3. \A i \in Sources : i # At => file'[FileOf[i]] = file[FileOf[i]]
      BY <2>5, <3>2, SourceAssumption DEF CurlDone, TypeOK
    <3>4. FilesAreChecked'
      BY <2>5, <3>2, <3>3 DEF CurlDone, SourceInv, FilesAreChecked, InHand, At
    <3>5. file'[FileOf[At]] \in Digests
      BY <2>5, <3>1, <3>2 DEF CurlDone, TypeOK, Job, Row
    <3>6. FetchHolds'
      BY <2>5, <3>2, <3>5 DEF CurlDone, SourceInv, FetchHolds, At
    <3>. QED
      BY <2>5, <3>4, <3>6 DEF CurlDone, SourceInv, PinsAreWhole
  <2>6. CASE FetchFails
    <3>1. job'.pc \in {"idle", "build"}
      BY <2>6, AfterwardsPc DEF FetchFails
    <3>2. \A i \in Sources : InHand(i) => i \in suspect'
      BY <2>6 DEF FetchFails, InHand
    <3>. QED
      BY <2>6, <3>1, <3>2, QuietKeeps DEF FetchFails
  <2>7. CASE RecordPin
    <3>1. At \in Sources /\ job.pc = "check"
      BY <2>7, AtIsSource DEF RecordPin, CurlChecked
    <3>2. file[FileOf[At]] \in Digests /\ used[At] \subseteq {row[At].pin}
      BY <3>1 DEF SourceInv, FetchHolds
    <3>3. used[At] = {} \/ row[At] = job.snap[At]
      BY <3>1, AtIsSource DEF SourceInv, FetchHolds
    <3>4. row[At].pin # Torn
      BY <3>1 DEF SourceInv, PinsAreWhole
    <3>5. used[At] \subseteq Digests
      BY <3>1 DEF TypeOK
    <3>5a. PICK sum \in Sums : row' = Recorded(sum) /\ suspect' = Checked(sum)
      BY <2>7 DEF RecordPin
    <3>5b. sum # Torn
      BY <3>2, SourceAssumption DEF Sums
    <3>6. \A i \in Sources :
            /\ row'[i].url = row[i].url
            /\ row'[i] = row[i] \/ row'[i].pin = sum
            /\ row[i].url # job.snap[At].url => row'[i] = row[i]
      BY <3>5a DEF Recorded, TypeOK, Row
    <3>7. row[At] = job.snap[At] => row'[At].pin = sum /\ row[At].pin = None
      BY <2>7, <3>1, <3>5a DEF RecordPin, Recorded, Unpinned, TypeOK, Row
    <3>8. used[At] = {}
      BY <3>2, <3>3, <3>5, <3>7, SourceAssumption
    <3>9. \A i \in Sources : row'[i].pin # Torn
      BY <3>5b, <3>6 DEF SourceInv, PinsAreWhole
    <3>10. ASSUME NEW i \in Sources \ {At}, row'[i] # row[i]
           PROVE  i \in suspect /\ used[i] = {}
      <4>1. row[i].url = job.snap[At].url /\ job.snap[i].url # job.snap[At].url
        BY <3>1, <3>6, <3>10 DEF UrlsApart, Distinct
      <4>. QED
        BY <3>1, <4>1 DEF SourceInv, FetchHolds
    <3>. QED
      BY <2>7, <3>1, <3>5a, <3>6, <3>7, <3>8, <3>9, <3>10, CheckKeeps DEF RecordPin
  <2>8. CASE VerifyPin
    <3>1. At \in Sources /\ job.pc = "check"
      BY <2>8, AtIsSource DEF VerifyPin, CurlChecked
    <3>2. row[At].pin # Torn /\ used[At] \subseteq {row[At].pin}
      BY <3>1 DEF SourceInv, PinsAreWhole, FetchHolds
    <3>3. job.snap[At].pin \in Sums /\ suspect' = Checked(job.snap[At].pin)
      BY <2>8 DEF VerifyPin
    <3>. QED
      BY <2>8, <3>1, <3>2, <3>3, CheckKeeps DEF VerifyPin
  <2>9. CASE Mismatch
    <3>1. job'.pc \in {"idle", "build"}
      BY <2>9, AfterwardsPc DEF Mismatch, CurlChecked
    <3>2. \A i \in Sources : InHand(i) => i \in suspect'
      BY <2>9 DEF Mismatch, InHand
    <3>. QED
      BY <2>9, <3>1, <3>2, QuietKeeps DEF Mismatch
  <2>10. CASE StageBegins
    <3>1. job'.pc = "tar" /\ ~InHand(1)
      BY <2>10 DEF StageBegins, FetchFrom, Idle, InHand
    <3>2. \A i \in Sources : i \notin suspect' => i \notin suspect /\ FileOf[i] # StageFile
      BY <2>10 DEF StageBegins
    <3>3. \A i \in Sources : i \notin suspect' => file'[FileOf[i]] = file[FileOf[i]]
      BY <2>10, <3>2 DEF StageBegins, TypeOK
    <3>4. FilesAreChecked'
      BY <2>10, <3>2, <3>3 DEF StageBegins, SourceInv, FilesAreChecked, InHand, Idle
    <3>5. FetchHolds'
      BY <2>10, <3>1, <3>2 DEF StageBegins, SourceInv, FetchHolds
    <3>. QED
      BY <2>10, <3>4, <3>5 DEF StageBegins, SourceInv, PinsAreWhole
  <2>11. CASE StageOk
    <3>1. job'.pc \in {"idle", "build"} /\ job.pc = "tar"
      BY <2>11, AfterwardsPc DEF StageOk
    <3>2. \A i \in Sources : i \notin suspect => file'[FileOf[i]] = file[FileOf[i]]
      BY <2>11, <3>1 DEF StageOk, SourceInv, FetchHolds, TypeOK
    <3>3. FilesAreChecked'
      BY <2>11, <3>1, <3>2 DEF StageOk, SourceInv, FilesAreChecked, InHand
    <3>4. FetchHolds'
      BY <2>11, <3>1 DEF StageOk, SourceInv, FetchHolds
    <3>. QED
      BY <2>11, <3>3, <3>4 DEF StageOk, SourceInv, PinsAreWhole
  <2>12. CASE RpmbuildOk
    <3>1. \A i \in Sources : i \notin suspect => file[FileOf[i]] = row[i].pin
      BY <2>12, SourceAssumption
         DEF RpmbuildOk, Unpacks, SourceInv, FilesAreChecked, InHand
    <3>2. \A i \in Sources : used'[i] \subseteq {row[i].pin}
      BY <2>12, <3>1 DEF RpmbuildOk, SourceInv, FetchHolds
    <3>3. FetchHolds'
      BY <2>12, <3>2 DEF RpmbuildOk, Idle, FetchHolds
    <3>4. FilesAreChecked'
      BY <2>12 DEF RpmbuildOk, SourceInv, FilesAreChecked, InHand
    <3>. QED
      BY <2>12, <3>3, <3>4 DEF RpmbuildOk, SourceInv, PinsAreWhole
  <2>13. CASE Dies
    <3>1. job'.pc = "idle" /\ \A i \in Sources : InHand(i) => i \in suspect'
      BY <2>13 DEF Dies, Idle, InHand
    <3>. QED
      BY <2>13, <3>1, QuietKeeps DEF Dies
  <2>14. ASSUME NEW i \in Sources, NEW url \in Urls, NEW pin \in Digests \cup {None},
                Update(i, url, pin)
         PROVE  SourceInv'
    <3>1. \A j \in Sources : j = i \/ (row'[j] = row[j] /\ used'[j] = used[j])
      BY <2>14 DEF Update, TypeOK
    <3>2. row'[i].pin = pin /\ used'[i] = {} /\ i \in suspect' /\ suspect \subseteq suspect'
      BY <2>14 DEF Update, TypeOK
    <3>3. PinsAreWhole'
      BY <3>1, <3>2, SourceAssumption DEF SourceInv, PinsAreWhole
    <3>4. FilesAreChecked'
      BY <2>14, <3>1, <3>2 DEF Update, SourceInv, FilesAreChecked, InHand, At
    <3>5. FetchHolds'
      BY <2>14, <3>1, <3>2 DEF Update, SourceInv, FetchHolds, At
    <3>. QED
      BY <3>3, <3>4, <3>5 DEF SourceInv
  <2>15. ASSUME NEW url \in Urls, NEW digest \in Digests, Shift(url, digest)
         PROVE  SourceInv'
    BY <2>15 DEF Shift, SourceInv, PinsAreWhole, FilesAreChecked, FetchHolds, InHand, At
  <2>16. CASE UNCHANGED vars
    BY <2>16 DEF vars, SourceInv, PinsAreWhole, FilesAreChecked, FetchHolds, InHand, At
  <2>. QED
    BY <2>1, <2>2, <2>3, <2>4, <2>5, <2>6, <2>7, <2>8, <2>9, <2>10, <2>11, <2>12,
       <2>13, <2>14, <2>15, <2>16 DEF Next, Command
<1>. QED
  BY <1>1, <1>2, SourceTypeCorrect, UrlsStayApart, PTL DEF Spec

\* No broken download is ever pinned.
THEOREM NoTornPin == Spec => []PinsAreWhole
BY SourceInvariant, PTL DEF SourceInv

\* A file that differs from its pin is one that something has happened to since
\* a fetch took its digest: a fetch that passed it without one counts as such.
THEOREM GoodSourcesStay == Spec => []FilesAreChecked
BY SourceInvariant, PTL DEF SourceInv

\* What the invariant keeps of a fetch, and of what the builds used.
THEOREM FetchKeepsItsWord == Spec => []FetchHolds
BY SourceInvariant, PTL DEF SourceInv

\* Trust on first fetch, for the builds whose source had its digest taken.
THEOREM BuildsUseSameBytes == Spec => []SameBytes
<1>1. SourceInv => SameBytes
  BY DEF SourceInv, FetchHolds, SameBytes
<1>. QED
  BY <1>1, SourceInvariant, PTL
=============================================================================
