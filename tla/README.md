# A TLA+ development of oxide-rpmbuild

oxide-rpmbuild turns a catalog of vendor packages into a signed RPM repository:
`vendorctl` (Rust, `vendorctl/src/`) keeps the catalog in SQLite, fetches
sources, renders specs, runs `rpmbuild` in dependency order on many packages at
once, signs what comes out and publishes it. There is no daemon: every command
is a process of its own, and they meet in a directory tree and a database file.
What can go wrong goes wrong between those processes.

Paths below are relative to the repository; `orch.rs` and `db.rs` are in
`vendorctl/src/`.

## 1. Inventory

| Component | Code | State it keeps | Operations | Modelled by |
|---|---|---|---|---|
| Planner | orch.rs `all_enabled`, `closure`, `topo_waves`, `plan`, `graph` | local: stack, seen set, in-degrees, waves | closure of the targets; Kahn waves; cycle error | `TopoWaves`, `Plans` |
| Package build | orch.rs `build`, `sign_rpm` | RPMS, SRPMS, sysroot/&lt;key&gt;/&lt;arch&gt;, table build_results | stage dependencies, rpmbuild, record, sign | `Build` |
| Build driver | orch.rs `build_all` | local: wave, chunk, children, failed | prep, spawn, wait, early return | `BuildAll`, `DepOrder` |
| Spec generator | orch.rs `gen_spec`, `build_block`, `install_block` | SPECS/&lt;key&gt;.spec | render, or fail and leave the old spec | `Build` (outcome), `SourceCache` (which file a source is) |
| Source cache | orch.rs `fetch`, `stage`, `sources_for` | SOURCES, column sources.checksum_value | download, verify or pin, skip if present | `SourceCache` |
| Publisher | orch.rs `create_repo` | RPMS/&lt;arch&gt;/repodata | createrepo, remove and remake the signature | `Publish` |
| Catalog | db.rs, schema.sql | six tables | adds, upserts, deletes with cascades, export, import, resolve | `Catalog`; enabled and build_requires in `TopoWaves`, URL and pin in `SourceCache` |
| Command line | main.rs | none | dispatch; `meta set`, `src update`, `all` are several statements or commands | `Catalog`, `SourceCache` (the sequences of statements) |
| Registration scripts | register-*.sh | none | idempotent reruns that fill the catalog | `Catalog` (the sequence of commands all of them share) |
| rebuild-all.sh | rebuild-all.sh | none | ten builds at a time in no order, then publish | `Build` (any interleaving), `Publish` |
| Paths | tree.rs | none | constant directories | - |
| Generated and vendored files | SPECS, sysroot | - | - | - |

How they interact:

- `build-all` calls the planner, then `fetch` and `gen_spec` for every planned
  package in its own process, then spawns one `vendorctl build` per package. A
  child does not inherit anything but its key and, for one arch, `--arch`: it
  resolves the version, the `build_requires` and the spec anew.
- A build reads the RPMs of other packages (staging), and writes its own RPM, the
  SRPM that all its arches share, its sysroots and its rows of build_results.
- Every lookup is its own statement outside a transaction, so any other
  `vendorctl` (an operator, a script) may commit between two of them.

What is hard here, and what makes each component correct:

- *Planner.* Repeated words, packages that need themselves or one another,
  needs that are not planned, `usize` counters decremented once per word,
  catalog edits between lookups. Correct: the keys are the closure, each is in
  one wave, its planned needs in strictly earlier ones; an error only for a real
  cycle; it ends.
- *Package build.* The result is recorded before the RPM is signed, the RPM is
  looked up under the version resolved at the start while rpmbuild names it after
  the spec, the SRPM is written by each arch and each overlapping build, any step
  may fail. Correct: a build that ended well leaves nothing of its version
  unsigned; rpmbuild sees the RPMs of its build_requires and nothing older.
- *Build driver.* Failing children, spawn failures, an early return or a kill that
  leaves children behind, RPMs of earlier runs in the same directory that would mask a
  dependency that failed. Correct: dependents start when their needs have ended,
  never more than the cap, and Ok means that this run built everything it could,
  against its own libraries.
- *Source cache.* A download is written to its final name before it is verified,
  a later run skips the fetch because the file exists, the checksum of the first
  fetch becomes the pin, the pin is written back by URL after a download during
  which the row may have changed, and a sha256sum that fails counts as one that gave
  an empty digest. Correct: a broken download is never pinned, and builds between two
  updates of a row, from a source whose digest was taken, use the same bytes.
- *Publisher.* createrepo and signature are separate steps, and builds may run
  beside them. Correct: after a publish that ended well the signature is of the
  index, and the index of the files of every package that was not built meanwhile.
- *Catalog.* "The newest version" is the highest id; export reads five tables one
  after the other; import gives new ids; a build records its result under an id it
  resolved hours before; a script resolves the newest version anew for each
  command. Correct: results stay with what was built, an export restores what was
  there or is refused, and a rerun script ends where the first run should have,
  unless `|| true` hides an error from it.

The hazards, each at its line, are listed in `PROJECT.json`.

## 2. The modules and the code

**`Plans`** says what a plan is: a sequence of waves (sets), and needs `<<p, d>>`.
`ValidPlan` = the waves hold the goal, each package once, each need strictly
earlier. `Deadlocked` = a set in which everyone waits for a member.

**`TopoWaves`** is the planner, one action per lookup or loop turn. `AllEnabled` is
`all_enabled`; `Pop` and `ClosureDone` are `closure` (the stack is a bag: only how
many copies of a name it holds matters to what is computed); `ReadRequires` is one
turn of the loop that fills `indeg` and `dependents` (`edges` holds one element per
*word*, so a repeated word counts twice, as `ds.len()` and the `dependents` vector
have it); `GraphDone`, `BeginWave`, `Visit`, `EndWave`, `Finish` are the wave loop.
`Edit` is a commit of another process between two lookups: `Toggled` (`pkg update
--enabled`), `Dropped` (`ver delete`) or `Rewritten` (`meta set --build-requires`,
and `ver add`, whose row has none). `heard` is history: the build_requires that
`closure` read for a name it saw, which is what the keys can be measured by once
others commit. Names that the code keeps sorted are sets here; the order has no
effect on the waves as sets.

**`Build`** is `vendorctl build` as any number of processes over one tree. `Invoke`
is the head of `build` (resolve, `spec.is_file()`), `NextArch` clears the sysroot,
`Stage` unpacks one dependency, `StartRpmbuild` and `RpmbuildOk` / `RpmbuildFails`
bound the long step, `Record`, `Sign` and `SignSrpm` follow. Every `?` and a kill (of
the process with its rpmbuild) are `Die`. rpmbuild writes the files of `specver`, the
version of the spec when it began. `GenSpec` and `AddVersion` are the two operations
of other commands beside a build; `GenSpec` may fail at any time and then leaves the
spec as it is. An RPM remembers the process that built it (`by`), which the code does
not: the properties need to tell an RPM of this run from one of an earlier run.
`BuildInit` is any tree in which earlier runs built some packages, closed under their
needs, and in which new versions were added since (what failed builds leave, the
processes of the model leave themselves).

**`DepOrder`** is the promise of `build-all` about order and nothing else.

**`BuildAll`** is `build_all` with the processes of `Build` as its children (`EXTENDS
Build`; the driver replaces `Operator`). `Begin` takes *any* valid plan of the goal:
that `topo_waves` returns one is what `TopoWaves` shows. `Prep` is `gen_spec` with
its error dropped, `PrepError` a lookup that fails before anything is spawned,
`NextChunk` is `wave.chunks(cap)`, `Spawn` / `SpawnFails` the two ways the loop over
a chunk goes on, `Await` `ch.wait()`. `Abandon` is both ways in which the driver
leaves its children behind: the `?` on the log file (`File::create`, `try_clone`),
and a kill. `Orphans` = FALSE leaves it out. `OtherEdit` is another process adding a
version. Order inside a wave is left open.

**`SourceCache`** follows the sources of one package version. `Fetch`, `BuildAll` and
`Build` begin a command: `src fetch`, build-all (which fetches only if the file of
the first source is `Missing`, and builds whatever the fetch says) and a build.
`CurlOpens` and `CurlDone` are the moments of a download that other parts can see:
curl truncates the file under its final name, and finishes it. `FetchFails` is every
`?` of the loop over the sources. `Sums` is `sha256_of`: the digest of the file, or,
since its exit status is not looked at, the empty text, which for the catalog is no
checksum (`None`). `RecordPin`, `VerifyPin` and `Mismatch` are what `fetch` does with
either; `Recorded` is the `UPDATE .. WHERE canonical_url`, on the row as it is by
then, while `Unpinned` asks the row as it was read. `StageBegins` and `StageOk` are
`src stage`; `RpmbuildOk` reads SOURCES and checks nothing; `Dies` is an error of
stage or rpmbuild, or a kill of any command. `Update` is `src update`, `Shift` an
upstream that changes what a URL serves. A digest stands for the content that has it.
`suspect` and `used` are history: which sources something has happened to since a
fetch checked them by a digest that was really taken (`Checked`), and what builds
used of the others. `file` begins empty: what earlier commands leave, the commands of
the model leave themselves.

**`Publish`** is `create_repo` beside the builds of `Build` (`EXTENDS Build`, whose
steps it leaves as they are). `Createrepo` reads RPMS/&lt;arch&gt;, `CreaterepoOk` puts
the index in place, `Unsign` is the `remove_file` of the old signature with its
error dropped, `GpgOk` the new one, `PubFails` any `?` or a kill. An index is the
set of RPMs as they were when createrepo_c read them. Order between arches is left
open. Nothing keeps builds from running beside a publish: `beside` is history, the
builds that ran at any time while it did. `rebuild-all.sh`, which publishes after
`xargs` has awaited the builds, is the case in which it is empty.

**`Catalog`** is the database: the six tables with the columns that rows are found
or ordered by, `UNIQUE` and references as guards, `ON DELETE CASCADE` as `Drop`,
`AUTOINCREMENT` as `last`. install_map and sources are sequences in the order of
their ids. Each action is one committed statement: `Command` what any other
process may issue; `ExportRepos` ... `ExportPins` the five queries of `export`;
`ImportOk` the one transaction of `import`, and `ImportFails` its rollback;
`BuildBegins`, `BuildRecords` and `BuildLost` the resolve and the upsert between
which a build runs; `RegBegins` ... `RegEnds` a register script, whose commands
resolve (`RegResolve`) and write in two steps. Under `|| true` a row that is there
already is passed over, and so is any other error (`RegPassesOver`), after which the
run no longer counts as `alone`. `clean`, `lost`, `had`, `of` and `alone` are history.
An `ORDER BY` is `Ordered`, which puts each member of a finite set at its `Place`,
the number of members up to it; `Kept` are the rows a `WHERE` leaves, in their order.
They stand where the library's `SetToSortSeq` and `SelectSeq` might, because those
are recursive or chosen from what satisfies a condition on sequences, about which
nothing could be proved.

Some operators come with a variant named `F_X` (`Awaited_Pool`,
`Reached_OneLeft`, ...). They are not part of the model: each is a plausible bug
in the code `F` translates, and `PROJECT.json` pairs it with the property that
finds it.

## 3. Runs

Each module has an `MC` module that holds its instances; a run is one of these
with one of its `.cfg` files.

| Run | Asks | Bounds |
|---|---|---|
| `topo_all` | types, closure, order, no underflow, complete plans, real cycles, the invariants of both loops; planning ends although the catalog is rewritten under it | 3 names, one of which (`Doubled`) may list up to 2 words, the others one; `Flaws`: at most one package disabled or without a version; every target list of up to 2 names; `MaxEdits` = 1; 2.7 M states |
| `topo_disabled` | *violated*: every dependency is in an earlier wave | 2 names |
| `build_overlap` | nothing of a finished build is left unsigned, and its inductive form | 2 packages, 2 versions, 2 processes that may build the same package; 114 k states |
| `build_exclusive` | rpmbuild's sysroot is exact; exit 0 means recorded and signed | the same with 2 arches, one build of a package at a time; 2.6 M states |
| `all_waves` | the driver implements `DepOrder`; Ok means complete | 3 packages (a chain of three or all in one wave, cap 2), goals of two or three, 2 versions, versions added during the run, early returns and kills; 3.7 M states |
| `all_rerun` | build directories apart, no RPM staged while it is written, own libraries only, every run ends | a library and its user, two runs; 286 k states |
| `all_allbuilt` | *violated*: after "all built" every package has an RPM | 2 packages |
| `sources_pins` | no broken download is pinned; a file differs from its pin only if something touched it since its digest was taken; builds use the same bytes | 2 sources, 3 URLs, 2 contents, `MaxUpdates` = 2, `MaxShifts` = 1; 4.1 M states |
| `sources_verified` | *violated*: what rpmbuild uses has the pinned checksum | the same |
| `catalog_commands` | references hold, results stay with their version, a rerun script ends right, a clean export imports, an added-to one loses nothing | 1 package, 2 versions, 2 URLs, 2 commands beside or errors passed over (`MaxEdits`), 2 runs of the script (`MaxRegs`), one of export, build and script at a time (`AtOnce`); 1.3 M states |
| `catalog_source0` | *violated*: export and import keep Source0 | the same without edits |
| `publish_beside` | after a publish that ended well the signature is of the index, the index is of the files but for the packages built beside, and what it holds unsigned is of a failed build or of one beside it | 2 packages, 2 arches, a build at any moment, 3 publishes (`MaxPublish`); 239 k states up to symmetry |

Why these bounds are enough to be interesting: a word repeated in a list and a package
reached by two needs take two words; a cycle that is not a self-need and a wave after
the first that mixes met and unmet needs take three packages; one edit is enough to
change a list between the closure and the graph. Two processes are enough for an
overlap on the SRPM and a spec regenerated under a build; two versions for a spec
older or newer than the catalog. Cap 2 with a wave of three makes a second, partial
chunk. Two runs are enough for RPMs of an earlier run; `BuildInit` stands for all runs
before. Two sources and three URLs let an update give a source the URL that another
had while it was being downloaded, and two updates let a source come back to a URL.
One changed content upstream is enough to tell a pin from a refetch. For the index of
a package that was not built beside a publish, another one has to be: hence two
packages. Two arches are needed for a signature per index, and for an RPM of one arch
left unsigned while the other is built. One build, on either or both, is before,
beside or after each of three publishes; several builds, of the same package too, are
left to `build_overlap` and to the theorems, which are about any number of them.
Symmetry is used where no definition names a member (`Swaps` in `MCPublish`), and in
no run with a liveness property. For an export, two commits beside it can delete a row
and add another; two versions are a newest and another; the script's two URLs are in
the opposite order of their texts. Of two publishes the first leaves an old index with
an old signature under the new one. The bounds also include `MaxVer` and `MaxRuns`;
`MaxEdits` of `Catalog` counts the errors passed over too: two of them, or one and a
commit, reach past the four commands before the paths. `AtOnce` = 1 leaves export,
build and script to meet the commands of others and not one another: all three are
made of the same commits `Command` has, but for `import`, whose effect on a build in
flight is what `ResultsKeepTheirVersion` proves for any number at once.

No run checks deadlock: a planner that has its plan, an operator who has
nothing to add, a driver that has run `MaxRuns` times and a catalog that has used
up its edits stop. That the program does not hang before it should is
`Terminates` and `RunEnds`.

### Fairness

`TopoWaves!FairSpec` has WF of the planner's step: one thread with nothing to
wait for. `BuildAll!FairSpec` has WF of the driver (it blocks only in `ch.wait()`,
where its actions are disabled), and WF of each child: a child that is scheduled
goes on, and the commands it runs return, well or not. A hanging rpmbuild is
outside this assumption, and the code has no timeout: it would hang the run. No
fairness is given to `Begin`, `Abandon`, `Edit`, `OtherEdit`, to the operator, or to any
particular outcome of a step. `SourceCache`, `Publish` and `Catalog` state safety
only: each command there is a straight line that ends or is killed, and nothing
makes anyone issue the next one.

### What the violated runs show

- `topo_disabled`: the filter of orch.rs:50 drops a need that is not planned.
  Without targets that includes disabled and unregistered packages, so the
  package starts in the first wave and fails (or stages an old RPM) instead of
  the planner saying so. With targets the closure adds it.
- `all_allbuilt`: an error of `gen_spec` is printed and dropped; the child builds
  the old spec, looks for an RPM of the new version, records `ok` with no path,
  signs nothing and exits 0.
- `sources_verified`: `fetch` refuses a file and leaves it under its final name;
  build-all prints the error and builds with it, and the next build-all does not
  fetch because the file exists.
- `catalog_source0`: export lists sources by URL, import numbers them in that
  order, and the first is Source0: perl's tarball and its overlay change places.

Three more things the code does are in the models, as steps the properties have to
live with, and no run is spent on showing them:

- A driver that returns early (orch.rs:174) or is killed leaves its children running
  (`Abandon`), and the next build-all starts a second build of the same package in
  the same BUILD directory, which the comment above `build_all` rules out.
  `BuildDirsApart` is checked with `Orphans` = FALSE and does not hold with TRUE.
- The waves are computed once, but a child reads its build_requires and the versions
  of its needs when it stages them. A version with a new need that is added in between
  has its library in its own wave: what is staged is an RPM of an earlier build, while
  the library is being built. `NothingStagedIsBuilding` is checked with `Edits` =
  FALSE and does not hold with TRUE.
- `sha256_of` gives the empty text when sha256sum fails (orch.rs:317-320); `fetch`
  records it, says "recorded" and goes on. The source is not pinned, although the
  fetch has succeeded, and the next fetch trusts whatever it gets. `FilesAreChecked`
  and `SameBytes` except it (`Checked`) until a fetch takes its digest.

What the passing runs say despite these: `ExitOkIsSigned`, `OkRunIsComplete` and
`SignedOrUnfinished` hold with exactly the exception the second names (a spec of
another version), `FilesAreChecked` and `SameBytes` with those of the two about
sources (a source that is `suspect`: refused, or passed without a digest), and no
other. `StagedExactly` excepts packages without
`build_requires`: `remove_dir_all` is under `if !build_requires.is_empty()`
(orch.rs:665). `BuildDirsApart` holds of drivers that are not stopped in the middle
(`Orphans` = FALSE), `NothingStagedIsBuilding` if besides no version is added during a
run (`Edits` = FALSE). `OkPublishIsCurrent` excepts the packages, `UnsignedPublished`
the builds, that ran beside the publish: of these the index may be stale or hold
unsigned RPMs, and nothing in the code keeps that from happening. `RegisteredOnce`
excepts a run in which `|| true` hid an error: `install clear` may fail unseen, and
`install add` then doubles the paths.

## 4. Proofs

Checked by TLAPS for all values of the constants that satisfy the assumptions:
`PlanAssumption` (finitely many names, any catalogs, any target lists, any number
of edits), `BuildAssumption` (any packages, arches, versions, any number of
processes), `BuildAllAssumption` (finitely many packages, any cap above 0, any
goals; no lock, as in the code), `SourceAssumption` (any number of sources, with
file names of their own), `PublishAssumption`, `CatalogAssumption` (any keys,
versions, URLs and script, and any seed that keeps the constraints of schema.sql).

`TopoWavesProofs`:

| Theorem | States |
|---|---|
| `TypeCorrect` | `Spec => []TypeOK` |
| `LoopInvariant` | `Spec => []LoopInv` |
| `WavesInOrder`, `NeverUnderflows`, `PlansAreValid`, `CyclesAreReal` | the four safety properties of the waves |
| `ClosureInvariant` | `Spec => []ClosureInv` |
| `PlansTheClosure` | `Spec => []KeysAreClosure` |

None of the four is inductive: that a wave is ordered depends on what `indeg` = 0
means. `LoopInv` says it: `indeg[p]` is the number of `p`'s words no *processed*
package has met (`Counts`, where "processed" cuts the current wave at the package
the inner loop is at), and the packages that are ready and in no wave are exactly
`cur` at the head and `next` in the inner loop (`Frontier`). `Scope` and
`EarlyPhases` keep edges among the keys and the graph empty until it is read.
The step that carries it is `Visit`: the words a visit meets are those the
visited package adds to the processed ones, so the decrement and the cardinality
agree, repeated words included; and a package reaches 0 by that visit or was
ready before. `NeverUnderflows` is then a cardinality being non-negative, and
`CyclesAreReal` follows because at the end a key with unmet words has one whose
target is not processed, hence not in a wave, hence itself a key with unmet words.
The edits of other processes need no assumption: after `ReadRequires` the code
never looks at the catalog again. `keys` and `edges` are what was read.
`KeysAreClosure`, of a command line with targets, says that the keys are the least set
that holds the targets and is closed under `heard`, what `closure` read; as long as
nobody has committed that is the catalog (`HeardIsCatalog`), and after a commit there
need be no catalog it fits. It needs what the loop of `closure` has at every turn
(`ClosureInv`): each target is seen or on the stack, what a seen package needs is seen
or on the stack (`Pending`), and whatever is either is in every closed set (`Least`).
`PopStep` carries it: a set closed under what is read by now was closed under what was
read before. When the stack is empty the seen packages are closed under their needs.
The least closed set is an intersection, so no induction over paths is needed.

`BuildProofs`:

| Theorem | States |
|---|---|
| `BuildTypeCorrect` | `BuildSpec => []BuildTypeOK` |
| `UnsignedIsInHand` | `BuildSpec => []UnsignedInHand` |
| `NothingLeftUnsigned` | `BuildSpec => []SignedOrUnfinished` |

`SignedOrUnfinished` needs to know, for a file that is unsigned while its builder
still runs, that the builder will get to it: `UnsignedInHand` says it is the SRPM
(signed last) or the RPM of the arch at hand between rpmbuild and `Sign`. It holds
for overlapping builds because a file belongs to the process that wrote it last.

`BuildAloneProofs`, of the instances in which a package is built once at a time
(`Exclusive`), as the operator or build-all arrange it:

| Theorem | States |
|---|---|
| `OkExitsAreSigned` | `Exclusive => (BuildSpec => ExitOkIsSigned)` |
| `SysrootIsExact` | `Exclusive /\ ~ClearFails => (BuildSpec => []StagedExactly)` |

Two running builds have different keys (`Alone`), so a step of one leaves the RPMs,
results and sysroot of the other alone. What a build carries through its loop is
`Settles` (the arches behind it have a result that holds, and what it has recorded
but not signed is there) and `Stages` (the sysroot has one RPM of each need it has
dealt with).

`BuildAllProofs`:

| Theorem | States |
|---|---|
| `RunsAreBuilds` | `Spec => BuildSpec /\ []RunGiven`: the driver does to the tree what an operator could do |
| `ChildrenSign`, `BuildAllTypeCorrect` | `SignedOrUnfinished`, `TypeOK` of the composition |
| `BuildDirsStayApart` | `~Orphans => (Spec => []BuildDirsApart)` |
| `NeverStagesARunningBuild` | `~Orphans /\ ~Edits => (Spec => []NothingStagedIsBuilding)` |
| `DriverImplementsOrder` | `Spec => OrderKept`: build-all refines `DepOrder` |

`BuildDirsStayApart` rests on `ChildrenAwaited`: every running child is of this run
and in `kids`, and a child is named by its key. The refinement maps `started` to
`kids` and `ended` to what is in neither the plan nor the wave at hand. It needs
`OrderInv`: a package is in one place at a time (`Apart`), the needs of what is in
`rest` or `chunk` have ended and those of a later wave are in an earlier one
(`NeedsMet`), chunk and children together are at most `Cap`, and between chunks
there are neither (`Between`). `WaveTaken` and `NextWaveKeeps` carry it over the
head of the plan; every other step moves one package from one place to the next.
`NeverStagesARunningBuild` adds that the needs of the run are still those the
children read (`ReqsAreRows`), and that what a child needs has ended (`NeedsEnded`).

`BuildAllOutcomeProofs`, of a run that returns Ok:

| Theorem | States |
|---|---|
| `NoRpmAhead` | `BuildSpec => [](SpecBehind /\ NoneAhead)`: an RPM, and what rpmbuild is writing, is of a version its spec has reached, and the spec of one the catalog has |
| `OkRunsAreComplete` | `~Orphans \/ MaxRuns = 1 => (Spec => []OkRunIsComplete)` |
| `OkRunsUseTheirOwn` | `(~Orphans \/ MaxRuns = 1) /\ ~Edits /\ ~ClearFails => (Spec => []OkRunUsedItsOwn)` |

`OkRunIsComplete` is about the end of a run, its invariant (`RunInv`) about the way
there: only awaited children run (`OnlyAwaited`); the processes of a run are idle
until it spawns them (`NotYetRun`); what the driver is through with has failed or its
child ended well (`EndedWell`); and of every build of the run (`ChildRight`), it has
what the catalog said when it began, and each arch behind it has the RPM that it
built, signed and recorded, if its spec was of the version it resolved
(`BuiltIfCurrent`). Other builds of the run have other keys, so their files are others.
A version added meanwhile can only make `spec[k] = newest[k]` false for good:
that is why the order of versions matters, and where `NoRpmAhead` comes in for
`OkRunsUseTheirOwn`. There the newest RPM of a need is the one staged (`NewestIsOwn`),
no RPM is ahead of the newest version, and a need that ended well has its own RPM of
that version, which the build of another package leaves alone (`RootsStay`).

The hypotheses are what the code needs. A driver that was killed, or could not create
a log file, has left children behind (`Abandon`); in a *later* run one of them may
write over what a new child has built, and what is there at its end is not the new
child's. A first run has no such orphans, and after its own `Abandon` it does not
return Ok.
With a version added during a run, a child stages the newest RPM there is of a need
whose child built another (`Edits`); what `remove_dir_all` could not remove was
staged by an earlier run (`ClearFails`).

`SourceCacheProofs`:

| Theorem | States |
|---|---|
| `SourceTypeCorrect` | `Spec => []TypeOK` |
| `SourceInvariant` | `PinsAreWhole`, `FilesAreChecked` and `FetchHolds` together |
| `NoTornPin`, `GoodSourcesStay`, `FetchKeepsItsWord`, `BuildsUseSameBytes` | the four safety properties |

`SameBytes` is not inductive: it follows because what builds used of a source is
what its row pins (`FetchHolds`), and a fetch that writes a pin by URL hits another
row only if that row was updated since it was read, and is therefore suspect and
unused. That two rows never have the same URL, now or in what a fetch has read
(`UrlsApart`), is what makes the write by URL safe for every other row. A digest that
could not be taken is recorded where the fetch had read none: if the row is still
that row, builds have used nothing of an unpinned source; if it was updated since, it
is suspect and unused anyway.

`PublishProofs`, with builds at any moment:

| Theorem | States |
|---|---|
| `PublishKeepsBuilds` | `Spec => BuildSpec` |
| `PublishTypeCorrect` | `Spec => []TypeOK` |
| `SignaturesAreGood` | `Spec => []SignatureIsOfIndex` |
| `UnsignedIsOfFailed` | `Spec => UnsignedPublished` |
| `IndexIsCurrent` | `Spec => OkPublishIsCurrent` |

Both last ones are about the moment a publish ends well; `PubInv` is about the way
there. Of each arch that is behind it, and of what createrepo_c has read of the one at
hand: for a package that no build of `beside` has as its key it is what lies there,
because only a running build of the package changes its RPMs (`OtherFilesStay`) and a
running build is in `beside`; and an unsigned entry is of a build in `beside`, or of one
that has failed or had another version. The second holds at the moment of reading by
`SignedOrUnfinished` (a build that is neither is running then), and stays because
`beside` only grows while publish works and what has ended stays as it is.

`CatalogProofs`:

| Theorem | States |
|---|---|
| `IdsStayTheirs` | `Spec => [](IdInv /\ ExportIsFinite)` |
| `ResultsKeepTheirVersion` | `Spec => []ResultsAreOwn` |
| `CatalogTypeCorrect` | `Spec => []TypeOK` |
| `UndisturbedExport` | `Spec => CleanIsAccepted` |
| `AdditionsLoseNothing` | `Spec => NothingLost` |
| `RegistersOnce` | `Spec => []RegisteredOnce` |

Ids in use are at most `last`, and whatever id a build or a result holds, if a row has
it then it is the version it was taken from (`IdsStayTheirs`). `TypeOK` is inductive
only with `ExportTyped`, since import writes into the tables what an export has read;
the step that carries it is `ImportPuts`: `Ordered` lists every exported version once
(`OrderedLists`, for any finite set in a linear order; text order is one by
`TextOrderOfPairs` and `TextOrderOfTriples`), so `NewIds` gives each an id of its own,
and a source finds the version it names because `Resolves` held. `KeptRows` and
`KeptAppend` are what the commands need of `Kept`.

Of an export, `CleanSoFar` says that what it has read is what the tables still hold;
at its end that makes it resolve, because the tables do (`TablesResolve`). `HadSoFar`
says that what the versions had when they were read is still there to be read, or has
been read: no commit that only adds takes a row away or changes what a row shows
(`CommandAdds`, `RegisterAdds`), and import shows again what the export shows
(`ImportShows`). Of a script that runs alone, `ScriptInv` says what the commands
behind it have left: the package and the version are there, the resolved id is the
newest, its meta is set, its paths are the first that the script names, in order, and
so on to its sources. Of a script that shared the catalog with another command, or that
passed over an error, nothing is said until its next run.

Left to TLC: liveness (`Terminates`, `RunEnds`), which is beyond the prover. Every
safety invariant and action property of the passing runs is proved.

## 5. Not modelled

- The text of specs and what rpmbuild does with it; whether a build succeeds is
  a choice.
- Two fetches of the same source at once, and a fetch beside a build of another
  command: `SourceCache` has one command at a time. The code has no lock, and two
  overlapping fetches of an unpinned source may pin a torn file.
- Beside a build, `Build` and `BuildAll` have the catalog change by additions only
  (`AddVersion`). `ver delete`, `import` and `meta set --build-requires` change what
  `resolve` returns too: a version may get lower again, or change its needs while it
  is built. What `ver delete` and `import` do to the result of a build in flight is in
  `Catalog`, what they and `meta set` do to a plan in `TopoWaves`; what they do to the
  staging and the signatures of a running build is not shown anywhere.
- A spec file torn by a `gen_spec` that is killed or fails while it writes: `GenSpec`
  leaves the old one or the new one.
- Two publishes at once.
- A source with an empty URL, for which `fetch` and `gen_spec` would count
  differently (`src add` requires `--url`), and an update of a source that changes
  its file name: `FileOf` is a constant.
- `meta set` with several flags is several UPDATEs by one id; one stands for all.
- The error of a lock that is held for longer than the busy timeout of 60 s, other
  than as an error of the command.
- `build-all --db`: its children read the default catalog. There is one catalog
  here.
- A `vendorctl build` killed while its rpmbuild goes on. `Die` stops both. (A
  build-all killed while its children go on is `Abandon`.)
- Partial effects inside one external command: half an unpacked RPM, half a
  written RPM or index. A build that stops there has failed and its sysroot is
  cleared when it is next staged. A partial download is modelled.
- `remove_dir_all` that fails without an error is `ClearFails`; it is TRUE where
  the property does not depend on the sysroot (`build_overlap`).
- `list`, `plan`, `graph` and `toolchains` print and change nothing.
- SPECS and sysroot in the repository: generated and third-party files. By size
  they are nearly all of it: the C headers below `sysroot/` are other projects'.
  The program itself is the Rust of `vendorctl/src/` and the scripts, and these are
  what the modules translate.

## 6. What is left

1. `SourceCache` with two commands at a time, which would show at what a lock is
   missing.
2. Proofs: that the plan `BuildAll` begins with is one that `TopoWaves` can return,
   as a theorem that names both; `PlansAreValid` and `WavePlans` share `ValidPlan`
   so far.
