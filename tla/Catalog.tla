------------------------------ MODULE Catalog ------------------------------
(***************************************************************************)
(* The catalog database (schema.sql, db.rs) and the commands that take     *)
(* more than one statement, each of which commits by itself: export reads  *)
(* five tables one after the other, a build records its result under the   *)
(* id it resolved when it began, and a register script runs one command    *)
(* per row, resolving the newest version anew for each.  import is one     *)
(* transaction.  A command that is refused changes nothing and is left     *)
(* out, unless something else goes on from there.  Of each table the       *)
(* columns are kept that rows are found or ordered by.                     *)
(* A definition F_X is a mutant of F: a bug the properties must find.      *)
(***************************************************************************)
EXTENDS Naturals, Sequences, FiniteSets, SequencesExt

CONSTANTS
  Keys, Vers, Urls,   \* numbered in the order of their texts
  Repos, Dests,
  Script,     \* what a register script registers: key, ver, dests, urls
  Seeds,      \* the versions a catalog begins with, as sequences of rows
  MaxEdits,   \* bound: commands beside, and errors that a script passes over
  MaxRegs,    \* bound: runs of the script
  AtOnce      \* bound: how many of export, build and script are under way

ASSUME CatalogAssumption ==
  /\ Keys \subseteq Nat /\ Vers \subseteq Nat /\ Urls \subseteq Nat
  /\ Script \in [key : Keys, ver : Vers, dests : Seq(Dests), urls : Seq(Urls)]
  /\ \A seed \in Seeds :   \* a database that keeps its own constraints
       /\ seed.vers \in Seq(Keys \X Vers) /\ IsInjective(seed.vers)
       /\ seed.srcs \in Seq((1..Len(seed.vers)) \X Urls) /\ IsInjective(seed.srcs)
  /\ {MaxEdits, MaxRegs, AtOnce} \subseteq Nat

VARIABLES
  repos, pkgs,  \* repo_releases, packages
  vers,      \* package_versions by id: key, version, and whether its meta is set
  last,      \* the highest id that AUTOINCREMENT has given
  maps,      \* install_map: pairs of an id and a path, in the order of their ids
  srcs,      \* sources, likewise, with URLs
  pins,      \* release_membership
  results,   \* build_results: an id, and (history) the version that was built
  exp,       \* an export: how far it is, what it has read, and history of what
             \* happened to the catalog meanwhile
  build,     \* `build`: the version it has resolved
  script,    \* a register script: its next command, the id that has resolved,
             \* and (history) whether it has had the catalog for itself, and no
             \* error that `|| true` hid
  edits, regs

tables == <<repos, pkgs, vers, last, maps, srcs, pins, results>>
counters == <<edits, regs>>
vars == <<tables, exp, build, script, counters>>

Ids == DOMAIN vers
Of(k) == {i \in Ids : vers[i].key = k}
Exactly(k, v) == {i \in Of(k) : vers[i].ver = v}
Newest(k) == CHOOSE i \in Of(k) : \A j \in Of(k) : j <= i

\* A finite set in the order R, which relates each member to itself and to
\* those after it.
Place(S, R, e) == Cardinality({f \in S : <<f, e>> \in R})
Ordered(S, R) == [n \in 1..Cardinality(S) |-> CHOOSE e \in S : Place(S, R, e) = n]

\* The rows of a table at some of its places, in their order.
AtMost(places) == {e \in places \X places : e[1] <= e[2]}
Kept(table, places) ==
  LET order == Ordered(places, AtMost(places)) IN [n \in DOMAIN order |-> table[order[n]]]

Without(table, gone) == Kept(table, {n \in DOMAIN table : table[n][1] \notin gone})
Listed(table, i) == Kept(table, {n \in DOMAIN table : table[n][1] = i})
Has(table, row) == \E n \in DOMAIN table : table[n] = row
Version(i) == <<vers[i].key, vers[i].ver>>

New(k, v) == [key |-> k, ver |-> v, meta |-> FALSE]
NoBuild == [id |-> 0]
NoScript == [at |-> 0, id |-> 0, alone |-> FALSE]

Init ==
  /\ repos = Repos /\ pkgs = Keys
  /\ \E seed \in Seeds :
       /\ vers = [i \in 1..Len(seed.vers) |-> New(seed.vers[i][1], seed.vers[i][2])]
       /\ last = Len(seed.vers) /\ srcs = seed.srcs
  /\ maps = <<>> /\ pins = {} /\ results = {}
  /\ exp = [at |-> 0] /\ build = NoBuild /\ script = NoScript
  /\ edits = 0 /\ regs = 0

-----------------------------------------------------------------------------
(* The commands of one statement, as others may issue them at any moment.  *)

Reading == exp.at \in 1..4
MayBegin ==
  (IF Reading THEN 1 ELSE 0) + (IF build # NoBuild THEN 1 ELSE 0)
    + (IF script.at # 0 THEN 1 ELSE 0) < AtOnce

\* Another process commits a change, which takes rows away or does not.
Edit(takes) ==
  /\ edits < MaxEdits /\ edits' = edits + 1
  /\ exp' = IF Reading THEN [exp EXCEPT !.clean = FALSE, !.lost = @ \/ takes] ELSE exp
  /\ script' = [script EXCEPT !.alone = FALSE]
  /\ UNCHANGED <<build, regs>>

AddRepo(r) ==
  /\ r \notin repos /\ repos' = repos \cup {r} /\ Edit(FALSE)
  /\ UNCHANGED <<pkgs, vers, last, maps, srcs, pins, results>>

\* ON DELETE CASCADE.
DeleteRepo_Orphans(r) ==
  /\ r \in repos /\ repos' = repos \ {r} /\ Edit(TRUE)
  /\ UNCHANGED <<pkgs, vers, last, maps, srcs, pins, results>>
DeleteRepo(r) ==
  /\ r \in repos /\ repos' = repos \ {r} /\ Edit(TRUE)
  /\ pins' = {p \in pins : p[1] # r}
  /\ UNCHANGED <<pkgs, vers, last, maps, srcs, results>>

AddPackage(k) ==
  /\ k \notin pkgs /\ pkgs' = pkgs \cup {k} /\ Edit(FALSE)
  /\ UNCHANGED <<repos, vers, last, maps, srcs, pins, results>>

\* The versions go, and with them the rows that refer to them.
Drop(gone) ==
  /\ vers' = [i \in Ids \ gone |-> vers[i]]
  /\ maps' = Without(maps, gone) /\ srcs' = Without(srcs, gone)
  /\ pins' = {p \in pins : p[2] \notin gone}
  /\ results' = {b \in results : b.id \notin gone}

DeletePackage(k) ==
  /\ k \in pkgs /\ pkgs' = pkgs \ {k} /\ Edit(TRUE) /\ Drop(Of(k))
  /\ UNCHANGED <<repos, last>>

\* Without AUTOINCREMENT, SQLite takes the highest id in the table.
NextId_Reused == IF Ids = {} THEN 1 ELSE 1 + CHOOSE i \in Ids : \A j \in Ids : j <= i
NextId == last + 1

Insert(k, v) ==
  /\ last' = NextId
  /\ vers' = [i \in Ids \cup {NextId} |-> IF i = NextId THEN New(k, v) ELSE vers[i]]

AddVersion(k, v) ==
  /\ k \in pkgs /\ Exactly(k, v) = {} /\ Insert(k, v) /\ Edit(FALSE)
  /\ UNCHANGED <<repos, pkgs, maps, srcs, pins, results>>

DeleteVersion(i) ==
  /\ i \in Ids /\ Drop({i}) /\ Edit(TRUE)
  /\ UNCHANGED <<repos, pkgs, last>>

\* UNIQUE(package_version_id, canonical_url).
NewSource_Twice(i, u) == i \in Ids
NewSource(i, u) == i \in Ids /\ ~Has(srcs, <<i, u>>)

AddSource(i, u) ==
  /\ NewSource(i, u) /\ srcs' = Append(srcs, <<i, u>>) /\ Edit(FALSE)
  /\ UNCHANGED <<repos, pkgs, vers, last, maps, pins, results>>

UpdateSource(n, u) ==
  /\ n \in DOMAIN srcs /\ NewSource(srcs[n][1], u) /\ Edit(TRUE)
  /\ srcs' = [srcs EXCEPT ![n] = <<@[1], u>>]
  /\ UNCHANGED <<repos, pkgs, vers, last, maps, pins, results>>

DeleteSource(n) ==
  /\ n \in DOMAIN srcs /\ srcs' = Kept(srcs, DOMAIN srcs \ {n}) /\ Edit(TRUE)
  /\ UNCHANGED <<repos, pkgs, vers, last, maps, pins, results>>

AddPin(r, i) ==
  /\ r \in repos /\ i \in Ids /\ <<r, i>> \notin pins
  /\ pins' = pins \cup {<<r, i>>} /\ Edit(FALSE)
  /\ UNCHANGED <<repos, pkgs, vers, last, maps, srcs, results>>

DeletePin(p) ==
  /\ p \in pins /\ pins' = pins \ {p} /\ Edit(TRUE)
  /\ UNCHANGED <<repos, pkgs, vers, last, maps, srcs, results>>

Command ==
  \/ \E r \in Repos : AddRepo(r) \/ DeleteRepo(r) \/ \E i \in Ids : AddPin(r, i)
  \/ \E p \in pins : DeletePin(p)
  \/ \E k \in Keys : AddPackage(k) \/ DeletePackage(k) \/ \E v \in Vers : AddVersion(k, v)
  \/ \E i \in Ids : DeleteVersion(i) \/ \E u \in Urls : AddSource(i, u)
  \/ \E n \in DOMAIN srcs : DeleteSource(n) \/ \E u \in Urls : UpdateSource(n, u)

-----------------------------------------------------------------------------
(* export and import. *)

SrcRow(s) == <<vers[s[1]].key, vers[s[1]].ver, s[2]>>
PinRow(p) == <<p[1], vers[p[2]].key, vers[p[2]].ver>>
SrcRows == {SrcRow(srcs[n]) : n \in DOMAIN srcs}
PinRows == {PinRow(p) : p \in pins}

\* The order of the five queries; the mutant reads the versions last.
Turn_Late == [vers |-> 4, srcs |-> 2, pins |-> 3]
Turn == [vers |-> 2, srcs |-> 3, pins |-> 4]

ExportRepos ==
  /\ exp.at = 0 /\ MayBegin   \* bound: one export, imported once
  /\ exp' = [at |-> 1, repos |-> repos, pkgs |-> {}, vers |-> {}, srcs |-> {}, pins |-> {},
             clean |-> TRUE, lost |-> FALSE, had |-> {}]
  /\ UNCHANGED <<tables, build, script, counters>>
ExportPackages ==
  /\ exp.at = 1 /\ exp' = [exp EXCEPT !.at = 2, !.pkgs = pkgs]
  /\ UNCHANGED <<tables, build, script, counters>>
ExportVersions ==
  /\ exp.at = Turn.vers
  /\ exp' = [exp EXCEPT !.at = @ + 1, !.vers = {Version(i) : i \in Ids},
                        !.had = SrcRows \cup PinRows]
  /\ UNCHANGED <<tables, build, script, counters>>
ExportSources ==
  /\ exp.at = Turn.srcs /\ exp' = [exp EXCEPT !.at = @ + 1, !.srcs = SrcRows]
  /\ UNCHANGED <<tables, build, script, counters>>
ExportPins ==
  /\ exp.at = Turn.pins /\ exp' = [exp EXCEPT !.at = @ + 1, !.pins = PinRows]
  /\ UNCHANGED <<tables, build, script, counters>>

Export == ExportRepos \/ ExportPackages \/ ExportVersions \/ ExportSources \/ ExportPins

\* Every row of the export finds the rows it refers to.
Resolves ==
  /\ \A e \in exp.vers : e[1] \in exp.pkgs
  /\ \A s \in exp.srcs : <<s[1], s[2]>> \in exp.vers
  /\ \A p \in exp.pins : p[1] \in exp.repos /\ <<p[2], p[3]>> \in exp.vers

\* The text order in which the export lists versions and sources.
Before(x, y) ==
  \E n \in DOMAIN x : x[n] < y[n] /\ \A m \in 1..(n - 1) : x[m] = y[m]

ByText(rows) == {e \in rows \X rows : e[1] = e[2] \/ Before(e[1], e[2])}
InOrder == Ordered(exp.vers, ByText(exp.vers))
NewIds(e) == last + CHOOSE n \in DOMAIN InOrder : InOrder[n] = e

\* All is deleted and inserted again under new ids, in the order of the file,
\* the columns it does not have at their defaults.
ImportOk ==
  /\ exp.at = 5 /\ Resolves /\ exp' = [at |-> 6]
  /\ repos' = exp.repos /\ pkgs' = exp.pkgs
  /\ last' = last + Cardinality(exp.vers)
  /\ vers' = [i \in (last + 1)..last' |->
                New(InOrder[i - last][1], InOrder[i - last][2])]
  /\ srcs' = LET s == Ordered(exp.srcs, ByText(exp.srcs)) IN
             [n \in DOMAIN s |-> <<NewIds(<<s[n][1], s[n][2]>>), s[n][3]>>]
  /\ pins' = {<<p[1], NewIds(<<p[2], p[3]>>)>> : p \in exp.pins}
  /\ maps' = <<>> /\ results' = {}
  /\ script' = [script EXCEPT !.alone = FALSE]
  /\ UNCHANGED <<build, counters>>

\* The transaction is rolled back.
ImportFails ==
  /\ exp.at = 5 /\ ~Resolves /\ exp' = [at |-> 6]
  /\ UNCHANGED <<tables, build, script, counters>>

-----------------------------------------------------------------------------
(* build: resolve when it begins, INSERT .. ON CONFLICT when it ends. *)

BuildBegins(k) ==
  /\ build = NoBuild /\ Of(k) # {} /\ MayBegin
  /\ build' = [id |-> Newest(k), of |-> Version(Newest(k))]
  /\ UNCHANGED <<tables, exp, script, counters>>

BuildRecords ==
  /\ build # NoBuild /\ build.id \in Ids /\ build' = NoBuild
  /\ results' = {b \in results : b.id # build.id} \cup {build}
  /\ UNCHANGED <<repos, pkgs, vers, last, maps, srcs, pins, exp, script, counters>>

\* The version is gone: the foreign key refuses the row.
BuildLost ==
  /\ build # NoBuild /\ build.id \notin Ids /\ build' = NoBuild
  /\ UNCHANGED <<tables, exp, script, counters>>

-----------------------------------------------------------------------------
(* A register script: pkg add, ver add, meta set, install clear, one       *)
(* install add per path, one src add per URL, under `set -e`.              *)

Adds == 5..(4 + Len(Script.dests))
Srcs == (5 + Len(Script.dests))..(4 + Len(Script.dests) + Len(Script.urls))
Registered == script.at = 5 + Len(Script.dests) + Len(Script.urls)

\* What the script commits is for an export beside it as any other commit.
Step(takes) ==
  /\ script' = [script EXCEPT !.at = @ + 1, !.id = 0]
  /\ exp' = IF Reading THEN [exp EXCEPT !.clean = FALSE, !.lost = @ \/ takes] ELSE exp
  /\ UNCHANGED <<build, counters>>

RegBegins ==
  /\ script.at = 0 /\ MayBegin /\ regs < MaxRegs /\ regs' = regs + 1
  /\ script' = [at |-> 1, id |-> 0, alone |-> TRUE]
  /\ UNCHANGED <<tables, exp, build, edits>>

\* `pkg add .. || true`, `ver add .. || true`: a row that is there already is
\* passed over,
RegPackage ==
  /\ script.at = 1 /\ pkgs' = pkgs \cup {Script.key} /\ Step(FALSE)
  /\ UNCHANGED <<repos, vers, last, maps, srcs, pins, results>>

RegVersion ==
  /\ script.at = 2 /\ Step(FALSE)
  /\ IF Script.key \in pkgs /\ Exactly(Script.key, Script.ver) = {}
     THEN Insert(Script.key, Script.ver) ELSE UNCHANGED <<vers, last>>
  /\ UNCHANGED <<repos, pkgs, maps, srcs, pins, results>>

\* and so is any other error of these two, of install clear and of src add: a
\* locked database, a full disk, for install clear a package without version.
RegPassesOver ==
  /\ script.at \in {1, 2, 4} \cup Srcs
  /\ edits < MaxEdits /\ edits' = edits + 1
  /\ script' = [at |-> script.at + 1, id |-> 0, alone |-> FALSE]
  /\ UNCHANGED <<tables, exp, build, regs>>

\* meta set, install clear and install add resolve the newest version ...
RegResolve ==
  /\ script.at \in {3, 4} \cup Adds /\ script.id = 0 /\ Of(Script.key) # {}
  /\ script' = [script EXCEPT !.id = Newest(Script.key)]
  /\ UNCHANGED <<tables, exp, build, counters>>

\* ... and write by its id: an UPDATE of a row that is gone is no error,
RegMeta ==
  /\ script.at = 3 /\ script.id # 0 /\ Step(FALSE)
  /\ vers' = [i \in Ids |-> IF i = script.id THEN [vers[i] EXCEPT !.meta = TRUE] ELSE vers[i]]
  /\ UNCHANGED <<repos, pkgs, last, maps, srcs, pins, results>>

\* nor is a DELETE;
Cleared_Never == maps
Cleared == Without(maps, {script.id})

RegClear ==
  /\ script.at = 4 /\ script.id # 0
  /\ maps' = Cleared /\ Step(FALSE)
  /\ UNCHANGED <<repos, pkgs, vers, last, srcs, pins, results>>

\* the foreign key refuses an INSERT.
RegInstall ==
  /\ script.at \in Adds /\ script.id \in Ids
  /\ maps' = Append(maps, <<script.id, Script.dests[script.at - 4]>>) /\ Step(FALSE)
  /\ UNCHANGED <<repos, pkgs, vers, last, srcs, pins, results>>

\* `src add .. || true` goes by the version's name.
RegSource ==
  /\ script.at \in Srcs /\ Step(FALSE)
  /\ LET u == Script.urls[script.at - 4 - Len(Script.dests)]
         new == {i \in Exactly(Script.key, Script.ver) : NewSource(i, u)} IN
     IF new = {} THEN srcs' = srcs ELSE \E i \in new : srcs' = Append(srcs, <<i, u>>)
  /\ UNCHANGED <<repos, pkgs, vers, last, maps, pins, results>>

\* The script has ended, or has failed or been killed on the way.
RegEnds ==
  /\ script.at # 0 /\ script' = NoScript
  /\ UNCHANGED <<tables, exp, build, counters>>

Register ==
  \/ RegBegins \/ RegPackage \/ RegVersion \/ RegResolve \/ RegMeta \/ RegClear
  \/ RegInstall \/ RegSource \/ RegPassesOver \/ RegEnds

Next ==
  \/ Command \/ Export \/ ImportOk \/ ImportFails \/ Register
  \/ (\E k \in Keys : BuildBegins(k)) \/ BuildRecords \/ BuildLost

Spec == Init /\ [][Next]_vars

-----------------------------------------------------------------------------
\* The tables keep their types, their references and their UNIQUE columns.
TypeOK ==
  /\ repos \subseteq Repos /\ pkgs \subseteq Keys
  /\ Ids \subseteq 1..last
  /\ \A i \in Ids : vers[i] \in [key : pkgs, ver : Vers, meta : BOOLEAN]
  /\ \A i, j \in Ids : Version(i) = Version(j) => i = j
  /\ maps \in Seq(Ids \X Dests)
  /\ srcs \in Seq(Ids \X Urls) /\ IsInjective(srcs)
  /\ pins \subseteq repos \X Ids
  /\ \A b \in results : b.id \in Ids
  /\ \A b, c \in results : b.id = c.id => b = c

\* A build result is of the version that was built, even if the version was
\* deleted, added again or imported while rpmbuild ran: a result is never
\* recorded under an id that has come to mean another version.
ResultsAreOwn == \A b \in results : b.id \in Ids => Version(b.id) = b.of

\* An export that nobody disturbs can be imported.
CleanIsAccepted == [][ImportFails => ~exp.clean]_vars

\* The order of the queries makes up for the missing transaction as long as
\* others only add rows: such an export is refused by import, or restores every
\* source and every pin the versions had when they were read.
NothingLost ==
  [][ImportOk /\ ~exp.lost => exp.had \subseteq SrcRows' \cup PinRows']_vars

\* A register script that ends well, without others beside it and without an
\* error hidden by `|| true`, leaves the newest version with its meta, with each
\* path once and in order, and the version it names with all its sources, even
\* if earlier runs stopped half way or went on past an error.
RegisteredOnce ==
  Registered /\ script.alone =>
    /\ LET i == Newest(Script.key)
           dests == Listed(maps, i) IN
       vers[i].meta /\ [n \in DOMAIN dests |-> dests[n][2]] = Script.dests
    /\ \A i \in Exactly(Script.key, Script.ver), u \in Range(Script.urls) :
         Has(srcs, <<i, u>>)

\* orch.rs: "[0] = Source0 (the main tarball, %setup'd)"; the order of the rows
\* says which source that is, and an undisturbed export does not keep it.
Source0(i) == LET mine == Listed(srcs, i) IN IF mine = <<>> THEN 0 ELSE mine[1][2]
Source0s == {Append(Version(i), Source0(i)) : i \in Ids}
SameSource0 ==
  [][ImportOk /\ exp.vers = {Version(i) : i \in Ids} /\ exp.srcs = SrcRows =>
       Source0s' = Source0s]_vars
=============================================================================
