--------------------------- MODULE CatalogProofs ---------------------------
(***************************************************************************)
(* Proofs about Catalog, for any catalog, any script and any number of     *)
(* commands beside.  An id of package_versions never comes to mean another *)
(* version, so what a build records under the id it resolved is about the  *)
(* version it built.  Types, references and UNIQUE columns are kept.  An   *)
(* export that nobody disturbs can be imported, one beside which others    *)
(* only add rows loses nothing, and a register script that runs alone to   *)
(* its end, and hides no error, registers what it names.                   *)
(***************************************************************************)
EXTENDS Catalog, FiniteSetTheorems, WellFoundedInduction, TLAPS

IsRow(r) == r = [key |-> r.key, ver |-> r.ver, meta |-> r.meta]

\* The ids in use have been given, and the rows under them are rows.
IdsGiven ==
  /\ last \in Nat /\ Ids \subseteq 1..last
  /\ \A i \in Ids : IsRow(vers[i])

\* What a build has resolved and what it has recorded is still true of the id.
BuildIsOwn ==
  /\ build # NoBuild => build.id \in 1..last
  /\ build # NoBuild /\ build.id \in Ids => Version(build.id) = build.of
ResultsGiven ==
  \A b \in results : b.id \in 1..last /\ (b.id \in Ids => Version(b.id) = b.of)

\* An export is a record from its first query on, of finitely many versions.
IsExport(e) ==
  e = [at |-> e.at, repos |-> e.repos, pkgs |-> e.pkgs, vers |-> e.vers, srcs |-> e.srcs,
       pins |-> e.pins, clean |-> e.clean, lost |-> e.lost, had |-> e.had]
ExportIsFinite == exp.at \in 1..5 => IsExport(exp) /\ IsFiniteSet(exp.vers)

IdInv == IdsGiven /\ BuildIsOwn /\ ResultsGiven

\* A step that gives new ids only above the last one, and leaves every row
\* that stays the version it was, keeps what was resolved and recorded true.
LEMMA StepKeeps ==
  ASSUME IdInv, last' \in Nat, last' >= last, Ids' \subseteq 1..last',
         \A i \in Ids' : IsRow(vers[i])',
         \A i \in Ids' : i <= last => i \in Ids /\ Version(i)' = Version(i),
         build' \in {build, NoBuild}, results' \subseteq results
  PROVE  IdInv'
<1>1. IdsGiven'
  BY DEF IdsGiven, Ids
<1>2. BuildIsOwn'
  <2>. SUFFICES ASSUME build' # NoBuild'
                PROVE  build'.id \in 1..last' /\ (build'.id \in Ids' => Version(build.id)' = build'.of)
    BY DEF BuildIsOwn
  <2>. build' = build /\ build # NoBuild
    BY DEF NoBuild
  <2>. QED
    BY DEF IdInv, IdsGiven, BuildIsOwn
<1>3. ResultsGiven'
  BY DEF IdInv, IdsGiven, ResultsGiven
<1>. QED
  BY <1>1, <1>2, <1>3 DEF IdInv

\* AUTOINCREMENT gives an id that nothing has meant before.
LEMMA InsertKeeps ==
  ASSUME IdInv, NEW k, NEW v, Insert(k, v), UNCHANGED <<build, results>>
  PROVE  IdInv'
<1>1. last \in Nat /\ last' = last + 1 /\ Ids \subseteq 1..last
  BY DEF IdInv, IdsGiven, Insert, NextId
<1>2. /\ Ids' = Ids \cup {last + 1}
      /\ vers' = [i \in Ids \cup {last + 1} |-> IF i = last + 1 THEN New(k, v) ELSE vers[i]]
  BY DEF Insert, NextId, Ids
<1>3. \A i \in Ids' : IsRow(vers[i])'
  BY <1>1, <1>2 DEF IdInv, IdsGiven, IsRow, New
<1>4. \A i \in Ids' : i <= last => i \in Ids /\ Version(i)' = Version(i)
  BY <1>1, <1>2 DEF Version
<1>. QED
  BY <1>1, <1>2, <1>3, <1>4, StepKeeps

\* What is deleted leaves the meaning of other ids alone.
LEMMA DropKeeps ==
  ASSUME IdInv, NEW gone, Drop(gone), UNCHANGED <<build, last>>
  PROVE  IdInv'
<1>1. last \in Nat /\ Ids \subseteq 1..last
  BY DEF IdInv, IdsGiven
<1>2. Ids' = Ids \ gone /\ vers' = [i \in Ids \ gone |-> vers[i]]
  BY DEF Drop, Ids
<1>3. \A i \in Ids' : IsRow(vers[i])' /\ i \in Ids /\ Version(i)' = Version(i)
  BY <1>2 DEF IdInv, IdsGiven, IsRow, Version
<1>4. results' \subseteq results /\ last' = last /\ build' \in {build, NoBuild}
  BY DEF Drop
<1>5. last' \in Nat /\ last' >= last
  BY <1>1, <1>4
<1>6. Ids' \subseteq 1..last'
  BY <1>1, <1>2, <1>4
<1>. QED
  BY <1>3, <1>4, <1>5, <1>6, StepKeeps

\* Steps that touch no version, and may end a build.
LEMMA SameKeeps ==
  ASSUME IdInv, UNCHANGED <<vers, last, results>>, build' \in {build, NoBuild}
  PROVE  IdInv'
<1>1. last' \in Nat /\ last' >= last /\ Ids' \subseteq 1..last'
  BY DEF IdInv, IdsGiven, Ids
<1>2. \A i \in Ids' : IsRow(vers[i])' /\ i \in Ids /\ Version(i)' = Version(i)
  BY DEF IdInv, IdsGiven, IsRow, Version, Ids
<1>3. results' \subseteq results
  OBVIOUS
<1>. QED
  BY <1>1, <1>2, <1>3, StepKeeps

\* Any command of another process.
LEMMA CommandKeeps ==
  ASSUME IdInv, Command
  PROVE  IdInv'
<1>1. ASSUME NEW r \in Repos, AddRepo(r) \/ DeleteRepo(r) PROVE IdInv'
  BY <1>1, SameKeeps DEF AddRepo, DeleteRepo, Edit
<1>2. ASSUME NEW r \in Repos, NEW i \in Ids, AddPin(r, i) PROVE IdInv'
  BY <1>2, SameKeeps DEF AddPin, Edit
<1>3. ASSUME NEW p \in pins, DeletePin(p) PROVE IdInv'
  BY <1>3, SameKeeps DEF DeletePin, Edit
<1>4. ASSUME NEW k \in Keys, AddPackage(k) PROVE IdInv'
  BY <1>4, SameKeeps DEF AddPackage, Edit
<1>5. ASSUME NEW k \in Keys, DeletePackage(k) PROVE IdInv'
  BY <1>5, DropKeeps DEF DeletePackage, Edit
<1>6. ASSUME NEW k \in Keys, NEW v \in Vers, AddVersion(k, v) PROVE IdInv'
  BY <1>6, InsertKeeps DEF AddVersion, Edit
<1>7. ASSUME NEW i \in Ids, DeleteVersion(i) PROVE IdInv'
  BY <1>7, DropKeeps DEF DeleteVersion, Edit
<1>8. ASSUME NEW i \in Ids, NEW u \in Urls, AddSource(i, u) PROVE IdInv'
  BY <1>8, SameKeeps DEF AddSource, Edit
<1>9. ASSUME NEW n \in DOMAIN srcs, DeleteSource(n) PROVE IdInv'
  BY <1>9, SameKeeps DEF DeleteSource, Edit
<1>10. ASSUME NEW n \in DOMAIN srcs, NEW u \in Urls, UpdateSource(n, u) PROVE IdInv'
  BY <1>10, SameKeeps DEF UpdateSource, Edit
<1>. QED
  BY <1>1, <1>2, <1>3, <1>4, <1>5, <1>6, <1>7, <1>8, <1>9, <1>10 DEF Command

\* Any command of a register script.
LEMMA RegisterKeeps ==
  ASSUME IdInv, Register
  PROVE  IdInv'
<1>1. CASE RegBegins \/ RegResolve \/ RegPassesOver \/ RegEnds
  BY <1>1, SameKeeps DEF RegBegins, RegResolve, RegPassesOver, RegEnds, tables, counters
<1>2. CASE RegPackage
  BY <1>2, SameKeeps DEF RegPackage, Step
<1>3. CASE RegVersion
  <2>1. UNCHANGED <<build, results>>
    BY <1>3 DEF RegVersion, Step
  <2>2. CASE Insert(Script.key, Script.ver)
    BY <2>1, <2>2, InsertKeeps
  <2>3. CASE UNCHANGED <<vers, last>>
    BY <2>1, <2>3, SameKeeps
  <2>. QED
    BY <1>3, <2>2, <2>3 DEF RegVersion
<1>4. CASE RegMeta
  <2>1. UNCHANGED <<build, last, results>>
    BY <1>4 DEF RegMeta, Step
  <2>2. vers' = [i \in Ids |-> IF i = script.id THEN [vers[i] EXCEPT !.meta = TRUE] ELSE vers[i]]
    BY <1>4 DEF RegMeta
  <2>3. last' \in Nat /\ last' >= last /\ Ids' = Ids /\ Ids' \subseteq 1..last'
    BY <2>1, <2>2 DEF IdInv, IdsGiven, Ids
  <2>4. ASSUME NEW i \in Ids PROVE IsRow(vers[i])' /\ Version(i)' = Version(i)
    <3>1. vers[i] = [key |-> vers[i].key, ver |-> vers[i].ver, meta |-> vers[i].meta]
      BY DEF IdInv, IdsGiven, IsRow
    <3>2. vers'[i] \in {vers[i], [key |-> vers[i].key, ver |-> vers[i].ver, meta |-> TRUE]}
      BY <2>2, <3>1
    <3>. QED
      BY <3>1, <3>2 DEF IsRow, Version
  <2>. QED
    BY <2>1, <2>3, <2>4, StepKeeps
<1>5. CASE RegClear
  BY <1>5, SameKeeps DEF RegClear, Step
<1>6. CASE RegInstall
  BY <1>6, SameKeeps DEF RegInstall, Step
<1>7. CASE RegSource
  BY <1>7, SameKeeps DEF RegSource, Step
<1>. QED
  BY <1>1, <1>2, <1>3, <1>4, <1>5, <1>6, <1>7 DEF Register

\* import gives every version a new id.
LEMMA ImportKeeps ==
  ASSUME IdInv, ExportIsFinite, ImportOk
  PROVE  IdInv'
<1>1. Cardinality(exp.vers) \in Nat
  BY FS_CardinalityType DEF ImportOk, ExportIsFinite
<1>2. last \in Nat /\ last' \in Nat /\ last' >= last
  BY <1>1 DEF ImportOk, IdInv, IdsGiven
<1>3. Ids' = (last + 1)..last' /\ \A i \in Ids' : IsRow(vers[i])'
  BY DEF ImportOk, Ids, IsRow, New
<1>4. results' \subseteq results /\ build' = build
  BY DEF ImportOk
<1>. QED
  BY <1>2, <1>3, <1>4, StepKeeps

\* What export reads of package_versions is finite, since ids are.
LEMMA ExportStaysFinite ==
  ASSUME IdInv, ExportIsFinite, [Next]_vars
  PROVE  ExportIsFinite'
<1>1. CASE UNCHANGED exp
  BY <1>1 DEF ExportIsFinite, IsExport
<1>2. ASSUME NEW takes, exp' = [exp EXCEPT !.clean = FALSE, !.lost = @ \/ takes], Reading
      PROVE  ExportIsFinite'
  <2>1. IsExport(exp) /\ IsFiniteSet(exp.vers)
    BY <1>2 DEF ExportIsFinite, Reading
  <2>2. IsExport(exp') /\ exp'.vers = exp.vers
    BY <1>2, <2>1 DEF IsExport
  <2>. QED
    BY <2>1, <2>2 DEF ExportIsFinite, IsExport
<1>3. ASSUME NEW takes, Edit(takes) \/ Step(takes) PROVE ExportIsFinite'
  BY <1>1, <1>2, <1>3 DEF Edit, Step
<1>4. CASE Command
  BY <1>3, <1>4 DEF Command, AddRepo, DeleteRepo, AddPin, DeletePin, AddPackage, DeletePackage,
     AddVersion, DeleteVersion, AddSource, DeleteSource, UpdateSource
<1>5. CASE ExportRepos
  <2>1. IsExport(exp') /\ exp'.vers = {}
    BY <1>5 DEF ExportRepos, IsExport
  <2>. QED
    BY <2>1, FS_EmptySet DEF ExportIsFinite, IsExport
<1>6. CASE ExportVersions
  <2>1. IsExport(exp)
    BY <1>6 DEF ExportVersions, Turn, ExportIsFinite
  <2>2. IsExport(exp') /\ exp'.vers = {Version(i) : i \in Ids}
    BY <1>6, <2>1 DEF ExportVersions, IsExport
  <2>3. IsFiniteSet(Ids)
    <3>1. last \in Int /\ 1 \in Int /\ Ids \in SUBSET (1..last)
      BY DEF IdInv, IdsGiven
    <3>2. IsFiniteSet(1..last)
      BY <3>1, FS_Interval
    <3>. QED
      BY <3>1, <3>2, FS_Subset
  <2>4. IsFiniteSet({Version(i) : i \in Ids})
    <3>. DEFINE named == [i \in Ids |-> Version(i)]
    <3>1. named \in Surjection(Ids, {Version(i) : i \in Ids})
      BY DEF Surjection
    <3>. QED
      BY <2>3, <3>1, FS_Surjection
  <2>. QED
    BY <2>2, <2>4 DEF ExportIsFinite, IsExport
<1>7. CASE ExportPackages \/ ExportSources \/ ExportPins
  <2>1. exp.at \in 1..5
    BY <1>7 DEF ExportPackages, ExportSources, ExportPins, Turn
  <2>2. IsExport(exp) /\ IsFiniteSet(exp.vers)
    BY <2>1 DEF ExportIsFinite
  <2>3. IsExport(exp') /\ exp'.vers = exp.vers
    BY <1>7, <2>2 DEF ExportPackages, ExportSources, ExportPins, IsExport
  <2>. QED
    BY <2>2, <2>3 DEF ExportIsFinite, IsExport
<1>8. CASE ImportOk \/ ImportFails
  BY <1>8 DEF ImportOk, ImportFails, ExportIsFinite
<1>9. CASE Register
  BY <1>1, <1>3, <1>9 DEF Register, RegBegins, RegPackage, RegVersion, RegResolve, RegMeta,
     RegClear, RegInstall, RegSource, RegPassesOver, RegEnds
<1>10. CASE (\E k \in Keys : BuildBegins(k)) \/ BuildRecords \/ BuildLost
  BY <1>1, <1>10 DEF BuildBegins, BuildRecords, BuildLost
<1>11. CASE UNCHANGED vars
  BY <1>1, <1>11 DEF vars
<1>. QED
  BY <1>4, <1>5, <1>6, <1>7, <1>8, <1>9, <1>10, <1>11 DEF Next, Export

\* A non-empty set of numbers up to a bound has a highest one.
LEMMA HighestExists ==
  ASSUME NEW n \in Nat, NEW S, S \subseteq 1..n, S # {}
  PROVE  \E i \in S : \A j \in S : j <= i
<1>. DEFINE Below == {n - j : j \in S}
<1>1. \A j \in S : j \in Nat /\ j <= n /\ n - j \in Nat
  OBVIOUS
<1>2. Below \subseteq Nat /\ Below # {}
  BY <1>1
<1>3. PICK m \in Below : \A k \in Below : m <= k
  <2>1. PICK m \in Below : \A k \in Below : <<k, m>> \notin OpToRel(<, Nat)
    BY <1>2, NatLessThanWellFounded, WFMin
  <2>2. \A k \in Below : ~(k < m)
    BY <1>2, <2>1 DEF OpToRel
  <2>. QED
    BY <1>2, <2>2
<1>4. PICK i \in S : m = n - i
  BY <1>3
<1>5. ASSUME NEW j \in S PROVE j <= i
  <2>1. n - i <= n - j
    BY <1>3, <1>4
  <2>. QED
    BY <1>1, <2>1
<1>. QED
  BY <1>5

\* A build records under the id it resolved what it resolved it for.
LEMMA BuildKeeps ==
  ASSUME IdInv, (\E k \in Keys : BuildBegins(k)) \/ BuildRecords \/ BuildLost
  PROVE  IdInv'
<1>1. CASE BuildLost
  BY <1>1, SameKeeps DEF BuildLost, tables
<1>2. CASE BuildRecords
  <2>1. IdsGiven'
    BY <1>2 DEF BuildRecords, IdInv, IdsGiven, Ids, IsRow
  <2>2. BuildIsOwn'
    BY <1>2 DEF BuildRecords, BuildIsOwn, NoBuild
  <2>3. ResultsGiven'
    <3>. SUFFICES ASSUME NEW b \in results'
                  PROVE  b.id \in 1..last /\ (b.id \in Ids => Version(b.id) = b.of)
      BY <1>2 DEF BuildRecords, ResultsGiven, Ids, Version
    <3>. QED
      BY <1>2 DEF BuildRecords, IdInv, BuildIsOwn, ResultsGiven
  <2>. QED
    BY <2>1, <2>2, <2>3 DEF IdInv
<1>3. ASSUME NEW k \in Keys, BuildBegins(k) PROVE IdInv'
  <2>1. Newest(k) \in Ids
    <3>1. \E i \in Of(k) : \A j \in Of(k) : j <= i
      <4>1. Of(k) \subseteq 1..last /\ last \in Nat /\ Of(k) # {}
        BY <1>3 DEF BuildBegins, Of, IdInv, IdsGiven
      <4>. QED
        BY <4>1, HighestExists
    <3>. QED
      BY <3>1 DEF Newest, Of
  <2>2. IdsGiven' /\ ResultsGiven'
    BY <1>3 DEF BuildBegins, tables, IdInv, IdsGiven, ResultsGiven, Ids, IsRow, Version
  <2>3. BuildIsOwn'
    BY <1>3, <2>1 DEF BuildBegins, tables, IdInv, IdsGiven, BuildIsOwn, Ids, Version
  <2>. QED
    BY <2>2, <2>3 DEF IdInv
<1>. QED
  BY <1>1, <1>2, <1>3

\* No id ever means two versions: what a build has resolved and what it has recorded
\* is still true of the id, if the id is still there.
THEOREM IdsStayTheirs == Spec => [](IdInv /\ ExportIsFinite)
<1>1. Init => IdInv /\ ExportIsFinite
  <2>. SUFFICES ASSUME Init PROVE IdInv /\ ExportIsFinite
    OBVIOUS
  <2>1. PICK seed \in Seeds :
          /\ vers = [i \in 1..Len(seed.vers) |-> New(seed.vers[i][1], seed.vers[i][2])]
          /\ last = Len(seed.vers)
    BY DEF Init
  <2>2. last \in Nat
    BY <2>1, CatalogAssumption
  <2>3. IdsGiven
    BY <2>1, <2>2 DEF IdsGiven, Ids, IsRow, New
  <2>. QED
    BY <2>3 DEF Init, IdInv, BuildIsOwn, ResultsGiven, ExportIsFinite
<1>2. IdInv /\ ExportIsFinite /\ [Next]_vars => (IdInv /\ ExportIsFinite)'
  <2>. SUFFICES ASSUME IdInv, ExportIsFinite, [Next]_vars PROVE IdInv' /\ ExportIsFinite'
    OBVIOUS
  <2>1. ASSUME Export \/ ImportFails PROVE IdInv'
    <3>1. UNCHANGED <<vers, last, results>> /\ build' \in {build, NoBuild}
      BY <2>1 DEF Export, ExportRepos, ExportPackages, ExportVersions, ExportSources,
         ExportPins, ImportFails, tables
    <3>. QED
      BY <3>1, SameKeeps
  <2>2. ASSUME UNCHANGED vars PROVE IdInv'
    BY <2>2, SameKeeps DEF vars, tables
  <2>3. IdInv'
    BY <2>1, <2>2, CommandKeeps, ImportKeeps, RegisterKeeps, BuildKeeps DEF Next
  <2>. QED
    BY <2>3, ExportStaysFinite
<1>. QED
  BY <1>1, <1>2, PTL DEF Spec

\* A result is recorded for the version that was built.
THEOREM ResultsKeepTheirVersion == Spec => []ResultsAreOwn
<1>1. IdInv => ResultsAreOwn
  BY DEF IdInv, ResultsGiven, ResultsAreOwn
<1>. QED
  BY <1>1, IdsStayTheirs, PTL

-----------------------------------------------------------------------------
(* Finite sets in an order, and the rows of a table at some of its places. *)

Linear(S, R) ==
  /\ \A e \in S : <<e, e>> \in R
  /\ \A e, f \in S : <<e, f>> \in R \/ <<f, e>> \in R
  /\ \A e, f \in S : <<e, f>> \in R /\ <<f, e>> \in R => e = f
  /\ \A e, f, g \in S : <<e, f>> \in R /\ <<f, g>> \in R => <<e, g>> \in R

\* A place is counted in the set, and two members never share one.
LEMMA PlacesDiffer ==
  ASSUME NEW S, IsFiniteSet(S), NEW R, Linear(S, R)
  PROVE  /\ Cardinality(S) \in Nat
         /\ \A e \in S : Place(S, R, e) \in 1..Cardinality(S)
         /\ \A e, f \in S : Place(S, R, e) = Place(S, R, f) => e = f
<1>. DEFINE Upto(e) == {f \in S : <<f, e>> \in R}
<1>1. \A e \in S : IsFiniteSet(Upto(e)) /\ Cardinality(Upto(e)) \in Nat
  <2>1. \A e \in S : IsFiniteSet(Upto(e))
    BY FS_Subset
  <2>. QED
    BY <2>1, FS_CardinalityType
<1>2. Cardinality(S) \in Nat
  BY FS_CardinalityType
<1>3. ASSUME NEW e \in S PROVE Place(S, R, e) \in 1..Cardinality(S)
  <2>1. Cardinality(Upto(e)) <= Cardinality(S)
    BY FS_Subset
  <2>2. Cardinality(Upto(e)) # 0
    <3>1. e \in Upto(e) /\ IsFiniteSet(Upto(e))
      BY <1>1 DEF Linear
    <3>. QED
      BY <3>1, FS_EmptySet
  <2>. QED
    BY <1>1, <1>2, <2>1, <2>2 DEF Place
<1>4. ASSUME NEW e \in S, NEW f \in S, <<e, f>> \in R, Place(S, R, e) = Place(S, R, f)
      PROVE  e = f
  <2>1. Upto(e) \in SUBSET Upto(f)
    BY <1>4 DEF Linear
  <2>2. Upto(e) = Upto(f)
    BY <1>1, <1>4, <2>1, FS_Subset DEF Place
  <2>3. f \in Upto(f)
    BY DEF Linear
  <2>. QED
    BY <1>4, <2>2, <2>3 DEF Linear
<1>. QED
  BY <1>2, <1>3, <1>4 DEF Linear

\* Ordered lists every member once, at its place.
LEMMA OrderedLists ==
  ASSUME NEW S, IsFiniteSet(S), NEW R, Linear(S, R)
  PROVE  /\ Ordered(S, R) \in [1..Cardinality(S) -> S]
         /\ \A n \in 1..Cardinality(S) : Place(S, R, Ordered(S, R)[n]) = n
         /\ \A e \in S : /\ Place(S, R, e) \in 1..Cardinality(S)
                         /\ Ordered(S, R)[Place(S, R, e)] = e
<1>. DEFINE N == Cardinality(S)
            place == [e \in S |-> Place(S, R, e)]
<1>1. N \in Nat /\ \A e \in S : Place(S, R, e) \in 1..N
  BY PlacesDiffer
<1>2. \A e, f \in S : Place(S, R, e) = Place(S, R, f) => e = f
  BY PlacesDiffer
<1>3. place \in Injection(S, 1..N)
  BY <1>1, <1>2 DEF Injection, IsInjective
<1>4. IsFiniteSet(1..N) /\ Cardinality(1..N) = N
  BY <1>1, FS_Interval
<1>5. place \in Surjection(S, 1..N)
  BY <1>3, <1>4, FS_Injection
<1>6. \A n \in 1..N : \E e \in S : Place(S, R, e) = n
  BY <1>5 DEF Surjection
<1>7. \A n \in 1..N : Ordered(S, R)[n] \in S /\ Place(S, R, Ordered(S, R)[n]) = n
  BY <1>6 DEF Ordered
<1>. QED
  BY <1>1, <1>2, <1>7 DEF Ordered

\* Numbers are in a linear order.
LEMMA NumbersAreLinear ==
  ASSUME NEW places \in SUBSET Nat
  PROVE  Linear(places, AtMost(places))
BY DEF Linear, AtMost

Members(table) == {table[n] : n \in DOMAIN table}

\* The rows that are kept, each once.
LEMMA KeptRows ==
  ASSUME NEW T, NEW table \in Seq(T), NEW places \in SUBSET (DOMAIN table)
  PROVE  /\ Kept(table, places) \in Seq(T)
         /\ Len(Kept(table, places)) = Cardinality(places) /\ Cardinality(places) \in Nat
         /\ Members(Kept(table, places)) = {table[n] : n \in places}
         /\ IsInjective(table) => IsInjective(Kept(table, places))
         /\ \A n \in places :
              LET m == Cardinality({j \in places : j <= n}) IN
              m \in 1..Cardinality(places) /\ Kept(table, places)[m] = table[n]
         /\ \A m \in 1..Cardinality(places) : \E n \in places :
              Cardinality({j \in places : j <= n}) = m /\ Kept(table, places)[m] = table[n]
<1>. DEFINE R == AtMost(places)
            N == Cardinality(places)
            order == Ordered(places, R)
            kept == Kept(table, places)
            At(n) == Cardinality({j \in places : j <= n})
<1>1. Len(table) \in Nat /\ DOMAIN table = 1..Len(table) /\ \A n \in DOMAIN table : table[n] \in T
  OBVIOUS
<1>2. places \in SUBSET Nat /\ IsFiniteSet(places) /\ N \in Nat
  <2>1. IsFiniteSet(DOMAIN table)
    BY <1>1, FS_Interval
  <2>2. IsFiniteSet(places)
    BY <2>1, FS_Subset
  <2>. QED
    BY <1>1, <2>2, FS_CardinalityType
<1>3. Linear(places, R)
  BY <1>2, NumbersAreLinear
<1>4. /\ order \in [1..N -> places]
      /\ \A n \in 1..N : Place(places, R, order[n]) = n
      /\ \A e \in places : Place(places, R, e) \in 1..N /\ order[Place(places, R, e)] = e
  BY <1>2, <1>3, OrderedLists
<1>5. ASSUME NEW e \in places PROVE Place(places, R, e) = At(e)
  <2>1. {f \in places : <<f, e>> \in R} = {j \in places : j <= e}
    BY DEF AtMost
  <2>. QED
    BY <2>1 DEF Place
<1>. HIDE DEF R, N, At
<1>6. kept = [n \in 1..N |-> table[order[n]]]
  BY <1>4 DEF Kept, R
<1>. HIDE DEF order, kept
<1>7. \A n \in 1..N : order[n] \in places /\ kept[n] = table[order[n]] /\ kept[n] \in T
  BY <1>1, <1>4, <1>6
<1>8. kept \in Seq(T) /\ Len(kept) = N /\ DOMAIN kept = 1..N
  BY <1>2, <1>6, <1>7
<1>9. \A n \in places : At(n) \in 1..N /\ kept[At(n)] = table[n]
  BY <1>4, <1>5, <1>7
<1>10. \A m \in 1..N : \E n \in places : At(n) = m /\ kept[m] = table[n]
  BY <1>4, <1>5, <1>7
<1>11. Members(kept) = {table[n] : n \in places}
  BY <1>8, <1>9, <1>10 DEF Members
<1>12. ASSUME IsInjective(table) PROVE IsInjective(kept)
  <2>. SUFFICES ASSUME NEW m \in 1..N, NEW n \in 1..N, kept[m] = kept[n] PROVE m = n
    BY <1>8 DEF IsInjective
  <2>1. table[order[m]] = table[order[n]] /\ order[m] \in DOMAIN table /\ order[n] \in DOMAIN table
    BY <1>7
  <2>2. order[m] = order[n]
    BY <1>12, <2>1 DEF IsInjective
  <2>. QED
    BY <1>4, <2>2
<1>. QED
  BY <1>2, <1>8, <1>9, <1>10, <1>11, <1>12 DEF kept, N, At

-----------------------------------------------------------------------------
(* Types, references and UNIQUE columns.                                   *)

VersTyped ==
  /\ repos \subseteq Repos /\ pkgs \subseteq Keys
  /\ Ids \subseteq 1..last
  /\ \A i \in Ids : vers[i] \in [key : pkgs, ver : Vers, meta : BOOLEAN]
  /\ \A i, j \in Ids : Version(i) = Version(j) => i = j

RefsTyped ==
  /\ maps \in Seq(Ids \X Dests)
  /\ srcs \in Seq(Ids \X Urls) /\ IsInjective(srcs)
  /\ pins \subseteq repos \X Ids
  /\ \A b \in results : b.id \in Ids
  /\ \A b, c \in results : b.id = c.id => b = c

\* TypeOK, by what a command that leaves the versions alone can disturb.
LEMMA TypeParts == TypeOK <=> VersTyped /\ RefsTyped
BY DEF TypeOK, VersTyped, RefsTyped

\* What an export has read are rows of the tables, finitely many.
ExportTyped ==
  exp.at \in 1..5 =>
    /\ exp.repos \subseteq Repos /\ exp.pkgs \subseteq Keys /\ exp.vers \subseteq Keys \X Vers
    /\ exp.srcs \subseteq Keys \X Vers \X Urls /\ IsFiniteSet(exp.srcs)
    /\ exp.pins \subseteq Repos \X Keys \X Vers

\* A sequence is one over any set its members are in.
LEMMA Retyped ==
  ASSUME NEW S, NEW s \in Seq(S), NEW T, Members(s) \subseteq T
  PROVE  s \in Seq(T)
<1>1. Len(s) \in Nat /\ DOMAIN s = 1..Len(s) /\ s = [n \in 1..Len(s) |-> s[n]]
  OBVIOUS
<1>2. \A n \in 1..Len(s) : s[n] \in T
  BY <1>1 DEF Members
<1>. QED
  BY <1>1, <1>2

\* A row that is not there yet goes to the end.
LEMMA AppendRow ==
  ASSUME NEW T, NEW s \in Seq(T), NEW e \in T
  PROVE  /\ Append(s, e) \in Seq(T)
         /\ Members(Append(s, e)) = Members(s) \cup {e}
         /\ IsInjective(s) /\ ~Has(s, e) => IsInjective(Append(s, e))
<1>. DEFINE n == Len(s)
            a == Append(s, e)
<1>1. n \in Nat /\ DOMAIN s = 1..n
  OBVIOUS
<1>2. a \in Seq(T) /\ DOMAIN a = 1..(n + 1) /\ a[n + 1] = e /\ \A i \in 1..n : a[i] = s[i]
  OBVIOUS
<1>. HIDE DEF a, n
<1>3. Members(a) = Members(s) \cup {e}
  BY <1>1, <1>2 DEF Members
<1>4. IsInjective(s) /\ ~Has(s, e) => IsInjective(a)
  BY <1>1, <1>2 DEF IsInjective, Has
<1>. QED
  BY <1>2, <1>3, <1>4 DEF a

\* ON DELETE CASCADE leaves no row of another table behind.
LEMMA DropTyped ==
  ASSUME VersTyped, RefsTyped, NEW gone, Drop(gone), UNCHANGED <<repos, last>>
  PROVE  RefsTyped' /\ Ids' = Ids \ gone
<1>1. Ids' = Ids \ gone
  BY DEF Drop, Ids
<1>2. ASSUME NEW T, NEW table \in Seq(Ids \X T)
      PROVE  /\ Without(table, gone) \in Seq((Ids \ gone) \X T)
             /\ IsInjective(table) => IsInjective(Without(table, gone))
  <2>. DEFINE places == {n \in DOMAIN table : table[n][1] \notin gone}
  <2>1. /\ Without(table, gone) \in Seq(Ids \X T)
        /\ Members(Without(table, gone)) = {table[n] : n \in places}
        /\ IsInjective(table) => IsInjective(Without(table, gone))
    BY KeptRows DEF Without
  <2>2. \A n \in places : table[n] \in (Ids \ gone) \X T
    BY <1>2
  <2>3. Members(Without(table, gone)) \subseteq (Ids \ gone) \X T
    BY <2>1, <2>2
  <2>. QED
    BY <2>1, <2>3, Retyped
<1>3. /\ maps' \in Seq(Ids' \X Dests)
      /\ srcs' \in Seq(Ids' \X Urls) /\ IsInjective(srcs')
  BY <1>1, <1>2 DEF Drop, RefsTyped
<1>4. /\ pins' \subseteq repos' \X Ids'
      /\ \A b \in results' : b.id \in Ids'
      /\ \A b, c \in results' : b.id = c.id => b = c
  BY <1>1 DEF Drop, RefsTyped
<1>. QED
  BY <1>1, <1>3, <1>4 DEF RefsTyped, Ids

\* A new version gets an id no row refers to.
LEMMA InsertTyped ==
  ASSUME last \in Nat, VersTyped, RefsTyped, NEW k \in pkgs, NEW v \in Vers, Exactly(k, v) = {},
         Insert(k, v), UNCHANGED <<repos, pkgs, maps, srcs, pins, results>>
  PROVE  VersTyped' /\ RefsTyped'
<1>. SUFFICES ASSUME NEW id, id = last + 1 PROVE VersTyped' /\ RefsTyped'
  OBVIOUS
<1>1. /\ last' = id /\ Ids' = Ids \cup {id} /\ id \notin Ids
      /\ vers' = [i \in Ids \cup {id} |-> IF i = id THEN New(k, v) ELSE vers[i]]
  BY DEF Insert, NextId, Ids, VersTyped
<1>2. vers'[id] = New(k, v) /\ \A i \in Ids : vers'[i] = vers[i]
  BY <1>1
<1>3. \A i \in Ids : Version(i)' = Version(i) /\ Version(i) # <<k, v>>
  BY <1>2 DEF Version, Exactly, Of
<1>4. Version(id)' = <<k, v>>
  BY <1>2 DEF Version, New
<1>5. \A i, j \in Ids' : Version(i)' = Version(j)' => i = j
  BY <1>1, <1>3, <1>4 DEF VersTyped
<1>6. \A i \in Ids' : vers'[i] \in [key : pkgs', ver : Vers, meta : BOOLEAN]
  BY <1>1, <1>2 DEF VersTyped, New
<1>7. Ids' \subseteq 1..last'
  BY <1>1 DEF VersTyped
<1>8. RefsTyped'
  <2>1. Ids \subseteq Ids'
    BY <1>1
  <2>2. maps \in Seq(Ids' \X Dests) /\ srcs \in Seq(Ids' \X Urls)
    <3>1. ASSUME NEW T, NEW s \in Seq(Ids \X T) PROVE s \in Seq(Ids' \X T)
      <4>1. Members(s) \subseteq Ids' \X T
        BY <2>1, <3>1 DEF Members
      <4>. QED
        BY <3>1, <4>1, Retyped
    <3>. QED
      BY <3>1 DEF RefsTyped
  <2>. QED
    BY <2>1, <2>2 DEF RefsTyped, Ids
<1>. QED
  BY <1>5, <1>6, <1>7, <1>8 DEF VersTyped

-----------------------------------------------------------------------------
(* What import puts into the tables.                                       *)

\* Versions are in a linear order by the texts of key and version.
LEMMA TextOrderOfPairs ==
  ASSUME NEW rows \in SUBSET (Nat \X Nat)
  PROVE  Linear(rows, ByText(rows))
<1>1. ASSUME NEW x \in Nat \X Nat, NEW y \in Nat \X Nat
      PROVE  Before(x, y) <=> x[1] < y[1] \/ (x[1] = y[1] /\ x[2] < y[2])
  <2>1. DOMAIN x = {1, 2}
    BY x = <<x[1], x[2]>>
  <2>. QED
    BY <2>1 DEF Before
<1>2. \A x, y \in rows : <<x, y>> \in ByText(rows) <=>
        x = y \/ x[1] < y[1] \/ (x[1] = y[1] /\ x[2] < y[2])
  BY <1>1 DEF ByText
<1>3. \A x \in rows : x[1] \in Nat /\ x[2] \in Nat /\ x = <<x[1], x[2]>>
  OBVIOUS
<1>. QED
  BY <1>2, <1>3 DEF Linear

\* Sources are, by key, version and URL.
LEMMA TextOrderOfTriples ==
  ASSUME NEW rows \in SUBSET (Nat \X Nat \X Nat)
  PROVE  Linear(rows, ByText(rows))
<1>. DEFINE T == Nat \X Nat \X Nat
            Less(x, y) == \/ x[1] < y[1]
                          \/ x[1] = y[1] /\ x[2] < y[2]
                          \/ x[1] = y[1] /\ x[2] = y[2] /\ x[3] < y[3]
<1>1. ASSUME NEW x \in T, NEW y \in T PROVE Before(x, y) <=> Less(x, y)
  <2>1. DOMAIN x = {1, 2, 3}
    BY x = <<x[1], x[2], x[3]>>
  <2>. QED
    BY <2>1 DEF Before
<1>2. \A x, y \in rows : <<x, y>> \in ByText(rows) <=> x = y \/ Less(x, y)
  BY <1>1 DEF ByText
<1>3. \A x \in rows : x[1] \in Nat /\ x[2] \in Nat /\ x[3] \in Nat /\ x = <<x[1], x[2], x[3]>>
  OBVIOUS
<1>. QED
  BY <1>2, <1>3 DEF Linear

\* The versions of the export under new ids, and the rows that refer to them.
LEMMA ImportPuts ==
  ASSUME IdsGiven, ExportIsFinite, ExportTyped, ImportOk
  PROVE  /\ Ids' = (last + 1)..last' /\ last' \in Nat /\ last' >= last
         /\ \A e \in exp.vers : NewIds(e) \in Ids' /\ vers'[NewIds(e)] = New(e[1], e[2])
         /\ \A i \in Ids' : \E e \in exp.vers : i = NewIds(e)
         /\ srcs' \in Seq(Ids' \X Urls) /\ IsInjective(srcs')
         /\ Members(srcs') = {<<NewIds(<<s[1], s[2]>>), s[3]>> : s \in exp.srcs}
<1>. DEFINE N == Cardinality(exp.vers)
            order == InOrder
<1>1. /\ exp.vers \subseteq Keys \X Vers /\ IsFiniteSet(exp.vers)
      /\ exp.srcs \subseteq Keys \X Vers \X Urls /\ IsFiniteSet(exp.srcs)
  BY DEF ImportOk, ExportIsFinite, ExportTyped
<1>2. exp.vers \in SUBSET (Nat \X Nat) /\ exp.srcs \in SUBSET (Nat \X Nat \X Nat)
  BY <1>1, CatalogAssumption
<1>3. N \in Nat /\ last \in Nat
  BY <1>1, FS_CardinalityType DEF IdsGiven
<1>4. Linear(exp.vers, ByText(exp.vers))
  BY <1>2, TextOrderOfPairs
<1>5. /\ order \in [1..N -> exp.vers] /\ IsInjective(order)
      /\ \A e \in exp.vers : \E n \in 1..N : order[n] = e
  <2>. DEFINE R == ByText(exp.vers)
  <2>1. /\ Ordered(exp.vers, R) \in [1..N -> exp.vers]
        /\ \A n \in 1..N : Place(exp.vers, R, Ordered(exp.vers, R)[n]) = n
        /\ \A e \in exp.vers : /\ Place(exp.vers, R, e) \in 1..N
                               /\ Ordered(exp.vers, R)[Place(exp.vers, R, e)] = e
    BY <1>1, <1>4, OrderedLists
  <2>2. order = Ordered(exp.vers, R)
    BY DEF InOrder
  <2>. HIDE DEF R, order, N
  <2>. QED
    BY <2>1, <2>2 DEF IsInjective
<1>6. /\ last' = last + N /\ DOMAIN vers' = (last + 1)..last'
      /\ vers' = [i \in (last + 1)..last' |-> New(order[i - last][1], order[i - last][2])]
  BY DEF ImportOk
<1>7. \A e : NewIds(e) = last + CHOOSE n \in DOMAIN order : order[n] = e
  BY DEF NewIds
<1>. HIDE DEF order, N
<1>8. DOMAIN order = 1..N
  BY <1>5
<1>9. \A e \in exp.vers : NewIds(e) - last \in 1..N /\ order[NewIds(e) - last] = e
                          /\ NewIds(e) \in (last + 1)..last'
  <2>. SUFFICES ASSUME NEW e \in exp.vers
                PROVE  /\ NewIds(e) - last \in 1..N /\ order[NewIds(e) - last] = e
                       /\ NewIds(e) \in (last + 1)..last'
    OBVIOUS
  <2>1. PICK n \in 1..N : n = CHOOSE m \in DOMAIN order : order[m] = e
    BY <1>5, <1>8
  <2>2. order[n] = e
    BY <1>5, <1>8, <2>1
  <2>3. NewIds(e) = last + n
    BY <1>7, <2>1
  <2>. QED
    BY <1>3, <1>6, <2>2, <2>3
<1>10. \A e \in exp.vers : vers'[NewIds(e)] = New(e[1], e[2])
  BY <1>6, <1>9
<1>11. ASSUME NEW i \in (last + 1)..last' PROVE \E e \in exp.vers : i = NewIds(e)
  <2>1. i - last \in 1..N /\ order[i - last] \in exp.vers
    BY <1>3, <1>5, <1>6
  <2>2. PICK e \in exp.vers : e = order[i - last]
    BY <2>1
  <2>3. NewIds(e) - last = i - last
    BY <1>8, <1>9, <1>5, <2>1, <2>2 DEF IsInjective
  <2>4. NewIds(e) = i
    BY <1>3, <1>9, <2>3
  <2>. QED
    BY <2>4
<1>12. Ids' = (last + 1)..last'
  BY <1>6 DEF Ids
<1>23. \A e, f \in exp.vers : NewIds(e) = NewIds(f) => e = f
  BY <1>9
<1>. DEFINE rows == Ordered(exp.srcs, ByText(exp.srcs))
            M == Cardinality(exp.srcs)
            Row(s) == <<NewIds(<<s[1], s[2]>>), s[3]>>
<1>13. M \in Nat /\ Linear(exp.srcs, ByText(exp.srcs))
  BY <1>1, <1>2, FS_CardinalityType, TextOrderOfTriples
<1>14. /\ rows \in [1..M -> exp.srcs] /\ IsInjective(rows)
       /\ \A s \in exp.srcs : \E n \in 1..M : rows[n] = s
  <2>. DEFINE R == ByText(exp.srcs)
  <2>1. /\ rows \in [1..M -> exp.srcs]
        /\ \A n \in 1..M : Place(exp.srcs, R, rows[n]) = n
        /\ \A s \in exp.srcs : /\ Place(exp.srcs, R, s) \in 1..M
                               /\ rows[Place(exp.srcs, R, s)] = s
    BY <1>1, <1>13, OrderedLists
  <2>. HIDE DEF R, rows, M
  <2>. QED
    BY <2>1 DEF IsInjective
<1>15. srcs' = [n \in DOMAIN rows |-> Row(rows[n])]
  BY DEF ImportOk
<1>. HIDE DEF rows, M
<1>16. ASSUME NEW s \in exp.srcs
       PROVE  /\ s = <<s[1], s[2], s[3]>> /\ <<s[1], s[2]>> \in exp.vers
              /\ Row(s) \in Ids' \X Urls
  <2>1. s = <<s[1], s[2], s[3]>> /\ <<s[1], s[2]>> \in exp.vers /\ s[3] \in Urls
    BY <1>1 DEF ImportOk, Resolves
  <2>. QED
    BY <1>9, <1>12, <2>1
<1>17. ASSUME NEW s \in exp.srcs, NEW t \in exp.srcs, Row(s) = Row(t) PROVE s = t
  <2>1. NewIds(<<s[1], s[2]>>) = NewIds(<<t[1], t[2]>>) /\ s[3] = t[3]
    BY <1>17
  <2>2. <<s[1], s[2]>> = <<t[1], t[2]>>
    BY <1>16, <1>23, <2>1
  <2>. QED
    BY <1>16, <2>1, <2>2
<1>. HIDE DEF Row
<1>18. DOMAIN srcs' = 1..M /\ \A n \in 1..M : rows[n] \in exp.srcs /\ srcs'[n] = Row(rows[n])
  BY <1>14, <1>15
<1>19. srcs' \in Seq(Ids' \X Urls)
  <2>1. srcs' = [n \in 1..M |-> srcs'[n]] /\ \A n \in 1..M : srcs'[n] \in Ids' \X Urls
    BY <1>14, <1>15, <1>16, <1>18
  <2>. QED
    BY <1>13, <2>1
<1>20. IsInjective(srcs')
  BY <1>14, <1>17, <1>18 DEF IsInjective
<1>21. Members(srcs') = {Row(s) : s \in exp.srcs}
  BY <1>14, <1>18 DEF Members
<1>22. last' \in Nat /\ last' >= last
  BY <1>3, <1>6
<1>. QED
  BY <1>9, <1>10, <1>11, <1>12, <1>19, <1>20, <1>21, <1>22 DEF Row

\* import leaves a database that keeps its constraints.
LEMMA ImportTyped ==
  ASSUME IdsGiven, ExportIsFinite, ExportTyped, ImportOk
  PROVE  VersTyped' /\ RefsTyped'
<1>. DEFINE Vs == exp.vers
<1>1. /\ exp.repos \subseteq Repos /\ exp.pkgs \subseteq Keys /\ Vs \subseteq Keys \X Vers
      /\ exp.pins \subseteq Repos \X Keys \X Vers
      /\ \A e \in Vs : e[1] \in exp.pkgs
      /\ \A p \in exp.pins : p[1] \in exp.repos /\ <<p[2], p[3]>> \in Vs
  BY DEF ImportOk, ExportTyped, Resolves
<1>2. /\ repos' = exp.repos /\ pkgs' = exp.pkgs /\ maps' = <<>> /\ results' = {}
      /\ pins' = {<<p[1], NewIds(<<p[2], p[3]>>)>> : p \in exp.pins}
  BY DEF ImportOk
<1>3. /\ Ids' = (last + 1)..last' /\ last' \in Nat /\ last \in Nat
      /\ \A e \in Vs : NewIds(e) \in Ids' /\ vers'[NewIds(e)] = New(e[1], e[2])
      /\ \A i \in Ids' : \E e \in Vs : i = NewIds(e)
      /\ srcs' \in Seq(Ids' \X Urls) /\ IsInjective(srcs')
  BY ImportPuts DEF IdsGiven
<1>4. Ids' \subseteq 1..last'
  BY <1>3
<1>5. ASSUME NEW i \in Ids' PROVE vers'[i] \in [key : pkgs', ver : Vers, meta : BOOLEAN]
  <2>1. PICK e \in Vs : vers'[i] = New(e[1], e[2])
    BY <1>3
  <2>. QED
    BY <1>1, <1>2, <2>1 DEF New
<1>6. ASSUME NEW i \in Ids', NEW j \in Ids', Version(i)' = Version(j)' PROVE i = j
  <2>1. PICK e \in Vs, f \in Vs : i = NewIds(e) /\ j = NewIds(f)
    BY <1>3
  <2>2. Version(i)' = <<e[1], e[2]>> /\ Version(j)' = <<f[1], f[2]>>
    <3>1. vers'[i] = New(e[1], e[2]) /\ vers'[j] = New(f[1], f[2])
      BY <1>3, <2>1
    <3>. QED
      BY <3>1 DEF Version, New
  <2>3. e = <<e[1], e[2]>> /\ f = <<f[1], f[2]>>
    BY <1>1
  <2>. QED
    BY <1>6, <2>1, <2>2, <2>3
<1>7. pins' \subseteq repos' \X Ids' /\ maps' \in Seq(Ids' \X Dests)
  <2>1. \A p \in exp.pins : p[1] \in repos' /\ NewIds(<<p[2], p[3]>>) \in Ids'
    BY <1>1, <1>2, <1>3
  <2>2. maps' \in Seq(Ids' \X Dests)
    BY <1>2
  <2>3. ASSUME NEW q \in pins' PROVE q \in repos' \X Ids'
    <3>1. PICK p \in exp.pins : q = <<p[1], NewIds(<<p[2], p[3]>>)>>
      BY <1>2, <2>3
    <3>. QED
      BY <2>1, <3>1
  <2>. QED
    BY <2>2, <2>3
<1>. QED
  BY <1>1, <1>2, <1>3, <1>4, <1>5, <1>6, <1>7 DEF VersTyped, RefsTyped

-----------------------------------------------------------------------------
(* What a step does to an export under way.                                *)

\* The parts of an export that nothing overwrites.
SameParts(e, f) ==
  /\ e.repos = f.repos /\ e.pkgs = f.pkgs /\ e.vers = f.vers /\ e.srcs = f.srcs
  /\ e.pins = f.pins /\ e.had = f.had

\* A commit beside an export is remembered, and is all it learns.
LEMMA Disturbs ==
  ASSUME ExportIsFinite, NEW takes, Edit(takes) \/ Step(takes)
  PROVE  /\ Reading => /\ exp'.at = exp.at /\ SameParts(exp', exp)
                       /\ ~exp'.clean /\ (~exp'.lost => ~exp.lost /\ ~takes)
         /\ ~Reading => exp' = exp
<1>1. ASSUME Reading
      PROVE  /\ exp'.at = exp.at /\ SameParts(exp', exp)
             /\ ~exp'.clean /\ (~exp'.lost => ~exp.lost /\ ~takes)
  <2>1. IsExport(exp) /\ exp' = [exp EXCEPT !.clean = FALSE, !.lost = @ \/ takes]
    BY <1>1 DEF ExportIsFinite, Reading, Edit, Step
  <2>2. exp' = [at |-> exp.at, repos |-> exp.repos, pkgs |-> exp.pkgs, vers |-> exp.vers,
                srcs |-> exp.srcs, pins |-> exp.pins, clean |-> FALSE,
                lost |-> exp.lost \/ takes, had |-> exp.had]
    BY <2>1 DEF IsExport
  <2>. QED
    BY <2>2 DEF SameParts
<1>. QED
  BY <1>1 DEF Edit, Step

\* The five queries, in the order of their turns.
LEMMA ExportReads ==
  ASSUME ExportIsFinite, Export
  PROVE  /\ UNCHANGED tables
         /\ exp.at = 0 \/ ((exp'.clean => exp.clean) /\ (exp.lost => exp'.lost))
         /\ \/ /\ exp.at = 0 /\ exp'.at = 1 /\ exp'.repos = repos /\ exp'.pkgs = {}
               /\ exp'.vers = {} /\ exp'.srcs = {} /\ exp'.pins = {} /\ exp'.had = {}
            \/ /\ exp.at = 1 /\ exp'.at = 2 /\ exp'.pkgs = pkgs /\ exp'.repos = exp.repos
               /\ exp'.vers = exp.vers /\ exp'.srcs = exp.srcs /\ exp'.pins = exp.pins
            \/ /\ exp.at = 2 /\ exp'.at = 3 /\ exp'.vers = {Version(i) : i \in Ids}
               /\ exp'.had = SrcRows \cup PinRows /\ exp'.repos = exp.repos
               /\ exp'.pkgs = exp.pkgs /\ exp'.srcs = exp.srcs /\ exp'.pins = exp.pins
            \/ /\ exp.at = 3 /\ exp'.at = 4 /\ exp'.srcs = SrcRows /\ exp'.repos = exp.repos
               /\ exp'.pkgs = exp.pkgs /\ exp'.vers = exp.vers /\ exp'.pins = exp.pins
               /\ exp'.had = exp.had
            \/ /\ exp.at = 4 /\ exp'.at = 5 /\ exp'.pins = PinRows /\ exp'.repos = exp.repos
               /\ exp'.pkgs = exp.pkgs /\ exp'.vers = exp.vers /\ exp'.srcs = exp.srcs
               /\ exp'.had = exp.had
<1>1. UNCHANGED tables
  BY DEF Export, ExportRepos, ExportPackages, ExportVersions, ExportSources, ExportPins
<1>2. CASE ExportRepos
  BY <1>1, <1>2 DEF ExportRepos
<1>3. ASSUME ~ExportRepos PROVE exp.at \in 1..5 /\ IsExport(exp)
  BY <1>3 DEF Export, ExportPackages, ExportVersions, ExportSources, ExportPins, Turn,
     ExportIsFinite
<1>4. CASE ~ExportRepos /\ ExportPackages
  BY <1>1, <1>3, <1>4 DEF ExportPackages, IsExport
<1>5. CASE ~ExportRepos /\ ExportVersions
  BY <1>1, <1>3, <1>5 DEF ExportVersions, Turn, IsExport
<1>6. CASE ~ExportRepos /\ ExportSources
  BY <1>1, <1>3, <1>6 DEF ExportSources, Turn, IsExport
<1>7. CASE ~ExportRepos /\ ExportPins
  BY <1>1, <1>3, <1>7 DEF ExportPins, Turn, IsExport
<1>. QED
  BY <1>2, <1>4, <1>5, <1>6, <1>7 DEF Export

\* A step reads for the export, imports it, is a commit beside it, or is not
\* about the tables it reads.
Beside(takes) == Edit(takes) \/ Step(takes)
Apart == UNCHANGED <<repos, pkgs, vers, srcs, pins, exp>>

\* Which of these a step is.
LEMMA StepCases ==
  ASSUME [Next]_vars
  PROVE  \/ Export \/ ImportOk \/ ImportFails \/ Apart
         \/ Beside(FALSE) /\ (Command \/ Register)
         \/ Beside(TRUE) /\ Command
<1>1. CASE Command
  BY <1>1 DEF Command, AddRepo, DeleteRepo, AddPin, DeletePin, AddPackage, DeletePackage,
     AddVersion, DeleteVersion, AddSource, DeleteSource, UpdateSource, Beside
<1>2. CASE Register
  BY <1>2 DEF Register, RegBegins, RegPackage, RegVersion, RegResolve, RegMeta,
     RegClear, RegInstall, RegSource, RegPassesOver, RegEnds, Beside, Apart, tables
<1>3. CASE (\E k \in Keys : BuildBegins(k)) \/ BuildRecords \/ BuildLost
  BY <1>3 DEF BuildBegins, BuildRecords, BuildLost, Apart, tables
<1>4. CASE UNCHANGED vars
  BY <1>4 DEF vars, tables, Apart
<1>. QED
  BY <1>1, <1>2, <1>3, <1>4 DEF Next

\* An export reads rows of the tables, and keeps what it has read.
LEMMA ExportTypedStays ==
  ASSUME ExportIsFinite, TypeOK, ExportTyped, [Next]_vars
  PROVE  ExportTyped'
<1>1. CASE Apart \/ ImportOk \/ ImportFails
  BY <1>1 DEF Apart, ImportOk, ImportFails, ExportTyped
<1>2. ASSUME NEW takes, Beside(takes) PROVE ExportTyped'
  BY <1>2, Disturbs DEF Beside, ExportTyped, SameParts
<1>3. CASE Export
  <2>1. \A i \in Ids : vers[i].key \in Keys /\ vers[i].ver \in Vers
    BY DEF TypeOK
  <2>2. SrcRows \subseteq Keys \X Vers \X Urls /\ IsFiniteSet(SrcRows)
    <3>. DEFINE shown == [n \in DOMAIN srcs |-> SrcRow(srcs[n])]
    <3>1. srcs \in Seq(Ids \X Urls) /\ DOMAIN srcs = 1..Len(srcs) /\ Len(srcs) \in Nat
      BY DEF TypeOK
    <3>2. \A n \in DOMAIN srcs : srcs[n] \in Ids \X Urls
      BY <3>1
    <3>3. IsFiniteSet(DOMAIN srcs)
      BY <3>1, FS_Interval
    <3>4. shown \in Surjection(DOMAIN srcs, SrcRows)
      BY DEF SrcRows, Surjection
    <3>5. IsFiniteSet(SrcRows)
      BY <3>3, <3>4, FS_Surjection
    <3>. QED
      BY <2>1, <3>2, <3>5 DEF SrcRows, SrcRow
  <2>3. PinRows \subseteq Repos \X Keys \X Vers
    <3>1. \A p \in pins : p[1] \in Repos /\ p[2] \in Ids
      BY DEF TypeOK
    <3>. QED
      BY <2>1, <3>1 DEF PinRows, PinRow
  <2>4. {Version(i) : i \in Ids} \subseteq Keys \X Vers
    BY <2>1 DEF Version
  <2>5. repos \subseteq Repos /\ pkgs \subseteq Keys
    BY DEF TypeOK
  <2>. QED
    <3>1. CASE exp.at = 0
      BY <1>3, <2>5, <3>1, ExportReads, FS_EmptySet DEF ExportTyped
    <3>2. CASE exp.at = 1
      BY <1>3, <2>5, <3>2, ExportReads DEF ExportTyped
    <3>3. CASE exp.at = 2
      BY <1>3, <2>4, <3>3, ExportReads DEF ExportTyped
    <3>4. CASE exp.at = 3
      BY <1>3, <2>2, <3>4, ExportReads DEF ExportTyped
    <3>5. CASE exp.at = 4
      BY <1>3, <2>3, <3>5, ExportReads DEF ExportTyped
    <3>. QED
      BY <1>3, <3>1, <3>2, <3>3, <3>4, <3>5, ExportReads
<1>. QED
  BY <1>1, <1>2, <1>3, StepCases

-----------------------------------------------------------------------------
(* Every command keeps the constraints of the database.                    *)

Typed == VersTyped /\ RefsTyped

\* A version goes with all that refers to it.
LEMMA DropVersionTyped ==
  ASSUME Typed, NEW gone, Drop(gone), UNCHANGED <<repos, last>>,
         pkgs' \subseteq pkgs, \A i \in Ids \ gone : vers[i].key \in pkgs'
  PROVE  Typed'
<1>1. RefsTyped' /\ Ids' = Ids \ gone
  BY DropTyped DEF Typed
<1>2. \A i \in Ids' : i \in Ids /\ vers'[i] = vers[i]
  BY <1>1 DEF Drop
<1>3. \A i \in Ids' : vers'[i] \in [key : pkgs', ver : Vers, meta : BOOLEAN]
  <2>. SUFFICES ASSUME NEW i \in Ids' PROVE vers'[i] \in [key : pkgs', ver : Vers, meta : BOOLEAN]
    OBVIOUS
  <2>1. vers[i] \in [key : pkgs, ver : Vers, meta : BOOLEAN] /\ vers[i].key \in pkgs'
    BY <1>1, <1>2 DEF Typed, VersTyped
  <2>. QED
    BY <1>2, <2>1
<1>4. \A i, j \in Ids' : Version(i)' = Version(j)' => i = j
  BY <1>2 DEF Typed, VersTyped, Version
<1>. QED
  BY <1>1, <1>3, <1>4 DEF Typed, VersTyped

\* Commands that leave the versions alone.
LEMMA RestTyped ==
  ASSUME Typed, UNCHANGED <<vers, last>>,
         repos' \subseteq Repos, pkgs \subseteq pkgs', pkgs' \subseteq Keys, RefsTyped'
  PROVE  Typed'
<1>1. Ids' = Ids /\ \A i \in Ids : Version(i)' = Version(i)
  BY DEF Ids, Version
<1>2. \A i \in Ids : vers[i] \in [key : pkgs', ver : Vers, meta : BOOLEAN]
  BY DEF Typed, VersTyped
<1>. QED
  BY <1>1, <1>2 DEF Typed, VersTyped

\* Any command of another process.
LEMMA CommandTyped ==
  ASSUME last \in Nat, Typed, Command
  PROVE  Typed'
<1>. USE DEF Typed
<1>1. ASSUME NEW r \in Repos, AddRepo(r) \/ DeleteRepo(r) PROVE Typed'
  <2>1. UNCHANGED <<pkgs, vers, last, maps, srcs, results>> /\ repos' \subseteq Repos
        /\ pins' \subseteq repos' \X Ids
    BY <1>1 DEF AddRepo, DeleteRepo, VersTyped, RefsTyped
  <2>. QED
    BY <2>1, RestTyped DEF RefsTyped, VersTyped, Ids
<1>2. ASSUME NEW r \in Repos, NEW i \in Ids, AddPin(r, i) PROVE Typed'
  <2>1. UNCHANGED <<repos, pkgs, vers, last, maps, srcs, results>> /\ pins' \subseteq repos \X Ids
    BY <1>2 DEF AddPin, RefsTyped
  <2>. QED
    BY <2>1, RestTyped DEF RefsTyped, VersTyped, Ids
<1>3. ASSUME NEW p \in pins, DeletePin(p) PROVE Typed'
  <2>1. UNCHANGED <<repos, pkgs, vers, last, maps, srcs, results>> /\ pins' \subseteq repos \X Ids
    BY <1>3 DEF DeletePin, RefsTyped
  <2>. QED
    BY <2>1, RestTyped DEF RefsTyped, VersTyped, Ids
<1>4. ASSUME NEW k \in Keys, AddPackage(k) PROVE Typed'
  <2>1. UNCHANGED <<repos, vers, last, maps, srcs, pins, results>> /\ pkgs' = pkgs \cup {k}
    BY <1>4 DEF AddPackage
  <2>. QED
    BY <2>1, RestTyped DEF RefsTyped, VersTyped, Ids
<1>5. ASSUME NEW k \in Keys, DeletePackage(k) PROVE Typed'
  <2>1. Drop(Of(k)) /\ UNCHANGED <<repos, last>> /\ pkgs' = pkgs \ {k}
    BY <1>5 DEF DeletePackage
  <2>2. \A i \in Ids \ Of(k) : vers[i].key \in pkgs'
    BY <2>1 DEF Of, VersTyped
  <2>. QED
    BY <2>1, <2>2, DropVersionTyped
<1>6. ASSUME NEW k \in Keys, NEW v \in Vers, AddVersion(k, v) PROVE Typed'
  BY <1>6, InsertTyped DEF AddVersion
<1>7. ASSUME NEW i \in Ids, DeleteVersion(i) PROVE Typed'
  <2>1. Drop({i}) /\ UNCHANGED <<repos, last, pkgs>>
    BY <1>7 DEF DeleteVersion
  <2>2. \A j \in Ids : vers[j].key \in pkgs
    BY DEF VersTyped
  <2>. QED
    BY <2>1, <2>2, DropVersionTyped
<1>8. ASSUME UNCHANGED <<repos, pkgs, vers, last, maps, pins, results>>,
             srcs' \in Seq(Ids \X Urls), IsInjective(srcs')
      PROVE  Typed'
  BY <1>8, RestTyped DEF RefsTyped, VersTyped, Ids
<1>9. ASSUME NEW i \in Ids, NEW u \in Urls, AddSource(i, u) PROVE Typed'
  <2>1. srcs' = Append(srcs, <<i, u>>) /\ ~Has(srcs, <<i, u>>)
    BY <1>9 DEF AddSource, NewSource
  <2>2. srcs \in Seq(Ids \X Urls) /\ IsInjective(srcs) /\ <<i, u>> \in Ids \X Urls
    BY DEF RefsTyped
  <2>3. srcs' \in Seq(Ids \X Urls) /\ IsInjective(srcs')
    BY <2>1, <2>2, AppendRow
  <2>. QED
    BY <1>8, <1>9, <2>3 DEF AddSource
<1>10. ASSUME NEW n \in DOMAIN srcs, DeleteSource(n) PROVE Typed'
  <2>1. srcs' = Kept(srcs, DOMAIN srcs \ {n})
    BY <1>10 DEF DeleteSource
  <2>2. srcs' \in Seq(Ids \X Urls) /\ IsInjective(srcs')
    BY <2>1, KeptRows DEF RefsTyped
  <2>. QED
    BY <1>8, <1>10, <2>2 DEF DeleteSource
<1>11. ASSUME NEW n \in DOMAIN srcs, NEW u \in Urls, UpdateSource(n, u) PROVE Typed'
  <2>1. /\ srcs \in Seq(Ids \X Urls) /\ IsInjective(srcs) /\ ~Has(srcs, <<srcs[n][1], u>>)
        /\ srcs' = [srcs EXCEPT ![n] = <<srcs[n][1], u>>]
    BY <1>11 DEF UpdateSource, NewSource, RefsTyped
  <2>2. <<srcs[n][1], u>> \in Ids \X Urls
    BY <2>1
  <2>3. srcs' \in Seq(Ids \X Urls)
    BY <2>1, <2>2
  <2>4. IsInjective(srcs')
    BY <2>1 DEF IsInjective, Has
  <2>. QED
    BY <1>8, <1>11, <2>3, <2>4 DEF UpdateSource
<1>. QED
  BY <1>1, <1>2, <1>3, <1>4, <1>5, <1>6, <1>7, <1>9, <1>10, <1>11 DEF Command

\* Any command of a register script.
LEMMA RegisterTyped ==
  ASSUME last \in Nat, Typed, Register
  PROVE  Typed'
<1>. USE DEF Typed
<1>1. ASSUME UNCHANGED tables PROVE Typed'
  BY <1>1 DEF tables, VersTyped, RefsTyped, Ids, Version
<1>2. CASE RegBegins \/ RegResolve \/ RegPassesOver \/ RegEnds
  BY <1>1, <1>2 DEF RegBegins, RegResolve, RegPassesOver, RegEnds
<1>3. CASE RegPackage
  <2>1. UNCHANGED <<repos, vers, last, maps, srcs, pins, results>> /\ pkgs' = pkgs \cup {Script.key}
    BY <1>3 DEF RegPackage
  <2>. QED
    BY <2>1, RestTyped, CatalogAssumption DEF RefsTyped, VersTyped, Ids
<1>4. CASE RegVersion
  <2>1. UNCHANGED <<repos, pkgs, maps, srcs, pins, results>>
    BY <1>4 DEF RegVersion
  <2>2. CASE Script.key \in pkgs /\ Exactly(Script.key, Script.ver) = {}
    BY <1>4, <2>1, <2>2, InsertTyped, CatalogAssumption DEF RegVersion
  <2>3. CASE UNCHANGED <<vers, last>>
    BY <1>1, <2>1, <2>3 DEF tables
  <2>. QED
    BY <1>4, <2>2, <2>3 DEF RegVersion
<1>5. CASE RegMeta
  <2>1. UNCHANGED <<repos, pkgs, last, maps, srcs, pins, results>> /\ Ids' = Ids
        /\ vers' = [i \in Ids |-> IF i = script.id THEN [vers[i] EXCEPT !.meta = TRUE] ELSE vers[i]]
    BY <1>5 DEF RegMeta, Ids
  <2>2. ASSUME NEW i \in Ids
        PROVE  vers'[i] \in [key : pkgs, ver : Vers, meta : BOOLEAN] /\ Version(i)' = Version(i)
    <3>1. vers[i] \in [key : pkgs, ver : Vers, meta : BOOLEAN]
      BY DEF VersTyped
    <3>. QED
      BY <2>1, <3>1 DEF Version
  <2>. QED
    <3>1. RefsTyped'
      BY <2>1 DEF RefsTyped
    <3>2. ASSUME NEW i \in Ids', NEW j \in Ids', Version(i)' = Version(j)' PROVE i = j
      <4>1. i \in Ids /\ j \in Ids
        BY <2>1
      <4>2. Version(i) = Version(j)
        BY <2>2, <3>2, <4>1
      <4>. QED
        BY <4>1, <4>2 DEF VersTyped
    <3>. QED
      BY <2>1, <2>2, <3>1, <3>2 DEF VersTyped
<1>6. ASSUME UNCHANGED <<repos, pkgs, vers, last, srcs, pins, results>>, maps' \in Seq(Ids \X Dests)
      PROVE  Typed'
  BY <1>6, RestTyped DEF RefsTyped, VersTyped, Ids
<1>7. CASE RegClear
  <2>1. maps' = Kept(maps, {n \in DOMAIN maps : maps[n][1] \notin {script.id}})
    BY <1>7 DEF RegClear, Cleared, Without
  <2>2. maps' \in Seq(Ids \X Dests)
    BY <2>1, KeptRows DEF RefsTyped
  <2>. QED
    BY <1>6, <1>7, <2>2 DEF RegClear
<1>8. CASE RegInstall
  <2>1. maps' = Append(maps, <<script.id, Script.dests[script.at - 4]>>) /\ script.id \in Ids
        /\ script.at \in Adds
    BY <1>8 DEF RegInstall
  <2>2. Script.dests[script.at - 4] \in Dests
    BY <2>1, CatalogAssumption DEF Adds
  <2>3. maps' \in Seq(Ids \X Dests)
    BY <2>1, <2>2 DEF RefsTyped
  <2>. QED
    BY <1>6, <1>8, <2>3 DEF RegInstall
<1>9. CASE RegSource
  <2>. DEFINE u == Script.urls[script.at - 4 - Len(Script.dests)]
  <2>1. UNCHANGED <<repos, pkgs, vers, last, maps, pins, results>>
        /\ (srcs' = srcs \/ \E i \in Ids : NewSource(i, u) /\ srcs' = Append(srcs, <<i, u>>))
    BY <1>9 DEF RegSource, Exactly, Of
  <2>2. u \in Urls
    <3>1. script.at \in Srcs /\ Len(Script.dests) \in Nat /\ Script.urls \in Seq(Urls)
      BY <1>9, CatalogAssumption DEF RegSource
    <3>2. script.at - 4 - Len(Script.dests) \in 1..Len(Script.urls)
      <4>1. \A a, d, n \in Nat : a \in (5 + d)..(4 + d + n) => a - 4 - d \in 1..n
        OBVIOUS
      <4>2. Len(Script.urls) \in Nat /\ script.at \in Nat
        BY <3>1 DEF Srcs
      <4>. QED
        BY <3>1, <4>1, <4>2 DEF Srcs
    <3>. QED
      BY <3>1, <3>2
  <2>. HIDE DEF u
  <2>3. srcs' \in Seq(Ids \X Urls) /\ IsInjective(srcs')
    <3>1. srcs \in Seq(Ids \X Urls) /\ IsInjective(srcs)
      BY DEF RefsTyped
    <3>2. ASSUME NEW i \in Ids, NewSource(i, u), srcs' = Append(srcs, <<i, u>>)
          PROVE  srcs' \in Seq(Ids \X Urls) /\ IsInjective(srcs')
      <4>1. ~Has(srcs, <<i, u>>) /\ <<i, u>> \in Ids \X Urls
        BY <2>2, <3>2 DEF NewSource
      <4>. QED
        BY <3>1, <3>2, <4>1, AppendRow
    <3>. QED
      BY <2>1, <3>1, <3>2
  <2>. QED
    BY <2>1, <2>3, RestTyped DEF RefsTyped, VersTyped, Ids
<1>. QED
  BY <1>2, <1>3, <1>4, <1>5, <1>7, <1>8, <1>9 DEF Register

\* The two are kept together: import writes into the tables what export read of them.
LEMMA TypesStay == Spec => [](TypeOK /\ ExportTyped)
<1>1. Init => TypeOK /\ ExportTyped
  <2>. SUFFICES ASSUME Init PROVE Typed /\ ExportTyped
    BY TypeParts DEF Typed
  <2>1. PICK seed \in Seeds :
          /\ vers = [i \in 1..Len(seed.vers) |-> New(seed.vers[i][1], seed.vers[i][2])]
          /\ last = Len(seed.vers) /\ srcs = seed.srcs
    BY DEF Init
  <2>2. /\ seed.vers \in Seq(Keys \X Vers) /\ IsInjective(seed.vers)
        /\ srcs \in Seq((1..Len(seed.vers)) \X Urls) /\ IsInjective(srcs)
    BY <2>1, CatalogAssumption
  <2>3. /\ Ids = 1..last /\ last \in Nat /\ DOMAIN seed.vers = 1..last
        /\ \A i \in Ids : seed.vers[i] \in Keys \X Vers
    BY <2>1, <2>2 DEF Ids
  <2>4. \A i \in Ids : vers[i] = New(seed.vers[i][1], seed.vers[i][2])
    BY <2>1, <2>3
  <2>5. \A i \in Ids : /\ vers[i] \in [key : Keys, ver : Vers, meta : BOOLEAN]
                       /\ Version(i) = seed.vers[i]
    <3>. SUFFICES ASSUME NEW i \in Ids
                  PROVE  /\ vers[i] \in [key : Keys, ver : Vers, meta : BOOLEAN]
                         /\ Version(i) = seed.vers[i]
      OBVIOUS
    <3>1. PICK k \in Keys, v \in Vers : seed.vers[i] = <<k, v>>
      BY <2>3
    <3>2. vers[i] = [key |-> k, ver |-> v, meta |-> FALSE]
      BY <2>4, <3>1 DEF New
    <3>. QED
      BY <3>1, <3>2 DEF Version
  <2>6. \A i, j \in Ids : Version(i) = Version(j) => i = j
    BY <2>2, <2>3, <2>5 DEF IsInjective
  <2>7. /\ repos = Repos /\ pkgs = Keys /\ maps = <<>> /\ pins = {} /\ results = {} /\ exp.at = 0
    BY DEF Init
  <2>8. maps \in Seq(Ids \X Dests) /\ srcs \in Seq(Ids \X Urls)
    BY <2>1, <2>2, <2>3, <2>7
  <2>. QED
    BY <2>2, <2>3, <2>5, <2>6, <2>7, <2>8 DEF Typed, VersTyped, RefsTyped, ExportTyped
<1>2. IdInv /\ ExportIsFinite /\ TypeOK /\ ExportTyped /\ [Next]_vars => TypeOK' /\ ExportTyped'
  <2>. SUFFICES ASSUME IdInv, ExportIsFinite, TypeOK, ExportTyped, [Next]_vars PROVE Typed'
    BY ExportTypedStays DEF Typed, TypeOK, VersTyped, RefsTyped
  <2>1. Typed /\ last \in Nat
    BY TypeParts DEF Typed, IdInv, IdsGiven
  <2>2. CASE ImportOk
    BY <2>2, ImportTyped DEF IdInv, Typed
  <2>3. ASSUME UNCHANGED tables PROVE Typed'
    BY <2>1, <2>3 DEF tables, Typed, VersTyped, RefsTyped, Ids, Version
  <2>4. CASE Export \/ ImportFails \/ (\E k \in Keys : BuildBegins(k)) \/ BuildLost \/ UNCHANGED vars
    BY <2>3, <2>4 DEF Export, ExportRepos, ExportPackages, ExportVersions, ExportSources,
       ExportPins, ImportFails, BuildBegins, BuildLost, vars
  <2>5. CASE BuildRecords
    <3>1. /\ UNCHANGED <<repos, pkgs, vers, last, maps, srcs, pins>> /\ build.id \in Ids
          /\ results' = {b \in results : b.id # build.id} \cup {build}
      BY <2>5 DEF BuildRecords
    <3>2. RefsTyped'
      BY <2>1, <3>1 DEF Typed, RefsTyped, Ids
    <3>. QED
      BY <2>1, <3>1, <3>2, RestTyped DEF Typed, VersTyped
  <2>. QED
    BY <2>1, <2>2, <2>4, <2>5, CommandTyped, RegisterTyped DEF Next
<1>. QED
  BY <1>1, <1>2, IdsStayTheirs, PTL DEF Spec

\* Every table keeps its types, every reference finds its row, and no UNIQUE
\* column holds a value twice, import and cascading deletes included.
THEOREM CatalogTypeCorrect == Spec => []TypeOK
BY TypesStay, PTL

-----------------------------------------------------------------------------
(* An export that nobody disturbs can be imported.                         *)

\* What has been read so far is what the tables still hold.
CleanSoFar ==
  exp.at \in 1..5 /\ exp.clean =>
    /\ exp.at \in 1..4 => exp.repos = repos
    /\ exp.at \in 2..4 => exp.pkgs = pkgs
    /\ exp.at \in 3..4 => exp.vers = {Version(i) : i \in Ids}
    /\ exp.at = 4 => exp.srcs = SrcRows
    /\ exp.at = 5 => Resolves

\* The tables find the rows they refer to, whatever is shown in their place.
LEMMA TablesResolve ==
  ASSUME TypeOK
  PROVE  /\ \A e \in {Version(i) : i \in Ids} : e[1] \in pkgs
         /\ \A s \in SrcRows : <<s[1], s[2]>> \in {Version(i) : i \in Ids}
         /\ \A p \in PinRows : p[1] \in repos /\ <<p[2], p[3]>> \in {Version(i) : i \in Ids}
<1>1. \A i \in Ids : vers[i].key \in pkgs
  BY DEF TypeOK
<1>2. \A n \in DOMAIN srcs : srcs[n][1] \in Ids
  BY DEF TypeOK
<1>3. \A p \in pins : p[1] \in repos /\ p[2] \in Ids
  BY DEF TypeOK
<1>4. \A e \in {Version(i) : i \in Ids} : e[1] \in pkgs
  BY <1>1 DEF Version
<1>5. ASSUME NEW s \in SrcRows PROVE <<s[1], s[2]>> \in {Version(i) : i \in Ids}
  <2>1. PICK n \in DOMAIN srcs : s = SrcRow(srcs[n])
    BY DEF SrcRows
  <2>2. <<s[1], s[2]>> = Version(srcs[n][1])
    BY <2>1 DEF SrcRow, Version
  <2>. QED
    BY <1>2, <2>2
<1>6. ASSUME NEW p \in PinRows
      PROVE  p[1] \in repos /\ <<p[2], p[3]>> \in {Version(i) : i \in Ids}
  <2>1. PICK q \in pins : p = PinRow(q)
    BY DEF PinRows
  <2>2. p[1] = q[1] /\ <<p[2], p[3]>> = Version(q[2])
    BY <2>1 DEF PinRow, Version
  <2>. QED
    BY <1>3, <2>2
<1>. QED
  BY <1>4, <1>5, <1>6

\* Only a commit beside the export makes the tables differ from what was read.
LEMMA CleanStays ==
  ASSUME ExportIsFinite, TypeOK, CleanSoFar, [Next]_vars
  PROVE  CleanSoFar'
<1>1. CASE Apart
  BY <1>1 DEF Apart, CleanSoFar, Resolves, Version, Ids, SrcRows, SrcRow
<1>2. CASE ImportOk \/ ImportFails
  BY <1>2 DEF ImportOk, ImportFails, CleanSoFar
<1>3. ASSUME NEW takes, Beside(takes) PROVE CleanSoFar'
  <2>1. CASE Reading
    BY <1>3, <2>1, Disturbs DEF Beside, CleanSoFar
  <2>2. CASE ~Reading
    BY <1>3, <2>2, Disturbs DEF Beside, CleanSoFar, Reading, Resolves
  <2>. QED
    BY <2>1, <2>2
<1>4. CASE Export
  <2>1. UNCHANGED <<repos, pkgs, vers, srcs, pins>>
    BY <1>4, ExportReads DEF tables
  <2>2. Ids' = Ids /\ {Version(i) : i \in Ids}' = {Version(i) : i \in Ids}
        /\ SrcRows' = SrcRows
    BY <2>1 DEF Ids, Version, SrcRows, SrcRow
  <2>3. CASE exp.at \in {0, 1, 2, 3}
    <3>1. CASE exp.at = 0
      BY <1>4, <2>1, <3>1, ExportReads DEF CleanSoFar
    <3>2. CASE exp.at = 1
      BY <1>4, <2>1, <3>2, ExportReads DEF CleanSoFar
    <3>3. CASE exp.at = 2
      BY <1>4, <2>1, <2>2, <3>3, ExportReads DEF CleanSoFar
    <3>4. CASE exp.at = 3
      BY <1>4, <2>1, <2>2, <3>4, ExportReads DEF CleanSoFar
    <3>. QED
      BY <2>3, <3>1, <3>2, <3>3, <3>4
  <2>4. CASE exp.at = 4
    <3>1. /\ exp'.at = 5 /\ (exp'.clean => exp.clean) /\ exp'.pins = PinRows
          /\ exp'.repos = exp.repos /\ exp'.pkgs = exp.pkgs
          /\ exp'.vers = exp.vers /\ exp'.srcs = exp.srcs
      BY <1>4, <2>4, ExportReads
    <3>2. ASSUME exp.clean PROVE Resolves'
      <4>1. /\ exp'.repos = repos /\ exp'.pkgs = pkgs /\ exp'.srcs = SrcRows
            /\ exp'.vers = {Version(i) : i \in Ids}
        BY <2>4, <3>1, <3>2 DEF CleanSoFar
      <4>. QED
        BY <3>1, <4>1, TablesResolve DEF Resolves
    <3>. QED
      BY <3>1, <3>2 DEF CleanSoFar
  <2>. QED
    BY <1>4, <2>3, <2>4, ExportReads
<1>. QED
  BY <1>1, <1>2, <1>3, <1>4, StepCases

\* What export writes while the catalog is left alone, import accepts, although
\* the five queries are no transaction.
THEOREM UndisturbedExport == Spec => CleanIsAccepted
<1>1. Init => CleanSoFar
  BY DEF Init, CleanSoFar
<1>2. ExportIsFinite /\ TypeOK /\ CleanSoFar /\ [Next]_vars => CleanSoFar'
  BY CleanStays
<1>3. Spec => []CleanSoFar
  BY <1>1, <1>2, IdsStayTheirs, TypesStay, PTL DEF Spec
<1>4. CleanSoFar /\ [Next]_vars => [ImportFails => ~exp.clean]_vars
  BY DEF CleanSoFar, ImportFails
<1>. QED
  BY <1>3, <1>4, PTL DEF Spec, CleanIsAccepted

-----------------------------------------------------------------------------
(* An export beside which others only add rows.                            *)

\* What the versions had when they were read is still there to be read, or has
\* been read.
HadSoFar ==
  exp.at \in 3..5 /\ ~exp.lost =>
    /\ exp.at = 3 => exp.had \subseteq SrcRows \cup PinRows
    /\ exp.at = 4 => exp.had \subseteq exp.srcs \cup PinRows
    /\ exp.at = 5 => exp.had \subseteq exp.srcs \cup exp.pins

\* As long as versions, sources and pins stay, what is shown of them does.
LEMMA RowsStay ==
  ASSUME TypeOK, \A i \in Ids : i \in Ids' /\ Version(i)' = Version(i),
         Members(srcs) \subseteq Members(srcs'), pins \subseteq pins'
  PROVE  SrcRows \subseteq SrcRows' /\ PinRows \subseteq PinRows'
<1>1. ASSUME NEW row \in SrcRows PROVE row \in SrcRows'
  <2>1. PICK n \in DOMAIN srcs : row = SrcRow(srcs[n])
    BY DEF SrcRows
  <2>2. srcs[n][1] \in Ids
    BY DEF TypeOK
  <2>3. PICK m \in DOMAIN srcs' : srcs'[m] = srcs[n]
    BY DEF Members
  <2>4. row = SrcRow(srcs[m])'
    BY <2>1, <2>2, <2>3 DEF SrcRow, Version
  <2>. QED
    BY <2>4 DEF SrcRows
<1>2. ASSUME NEW row \in PinRows PROVE row \in PinRows'
  <2>1. PICK p \in pins : row = PinRow(p)
    BY DEF PinRows
  <2>2. p[2] \in Ids /\ p \in pins'
    BY DEF TypeOK
  <2>3. row = PinRow(p)'
    BY <2>1, <2>2 DEF PinRow, Version
  <2>. QED
    BY <2>2, <2>3 DEF PinRows
<1>. QED
  BY <1>1, <1>2

\* A new version is added to those there are.
LEMMA InsertStays ==
  ASSUME IdsGiven, NEW k, NEW v, Insert(k, v)
  PROVE  \A i \in Ids : i \in Ids' /\ Version(i)' = Version(i)
<1>1. /\ Ids' = Ids \cup {last + 1} /\ last + 1 \notin Ids
      /\ vers' = [i \in Ids \cup {last + 1} |-> IF i = last + 1 THEN New(k, v) ELSE vers[i]]
  BY DEF Insert, NextId, IdsGiven, Ids
<1>. QED
  BY <1>1 DEF Version

\* A commit that takes rows away is remembered.
LEMMA TakingShows ==
  ASSUME ExportIsFinite, Reading, ~exp'.lost
  PROVE  ~Edit(TRUE) /\ ~Step(TRUE)
BY Disturbs

\* A command of another process that takes nothing away only adds rows.
LEMMA CommandAdds ==
  ASSUME IdsGiven, ExportIsFinite, TypeOK, Reading, Command, ~exp'.lost
  PROVE  SrcRows \subseteq SrcRows' /\ PinRows \subseteq PinRows'
<1>1. ~Edit(TRUE)
  BY TakingShows
<1>2. ASSUME UNCHANGED <<vers, srcs>>, pins \subseteq pins'
      PROVE  SrcRows \subseteq SrcRows' /\ PinRows \subseteq PinRows'
  BY <1>2, RowsStay DEF Ids, Version, Members
<1>3. ASSUME NEW r \in Repos, AddRepo(r)
      PROVE  SrcRows \subseteq SrcRows' /\ PinRows \subseteq PinRows'
  BY <1>2, <1>3 DEF AddRepo
<1>4. ASSUME NEW r \in Repos, NEW i \in Ids, AddPin(r, i)
      PROVE  SrcRows \subseteq SrcRows' /\ PinRows \subseteq PinRows'
  BY <1>2, <1>4 DEF AddPin
<1>5. ASSUME NEW k \in Keys, AddPackage(k)
      PROVE  SrcRows \subseteq SrcRows' /\ PinRows \subseteq PinRows'
  BY <1>2, <1>5 DEF AddPackage
<1>6. ASSUME NEW k \in Keys, NEW v \in Vers, AddVersion(k, v)
      PROVE  SrcRows \subseteq SrcRows' /\ PinRows \subseteq PinRows'
  <2>1. Insert(k, v) /\ UNCHANGED <<srcs, pins>>
    BY <1>6 DEF AddVersion
  <2>. QED
    BY <2>1, InsertStays, RowsStay DEF Members
<1>7. ASSUME NEW i \in Ids, NEW u \in Urls, AddSource(i, u)
      PROVE  SrcRows \subseteq SrcRows' /\ PinRows \subseteq PinRows'
  <2>1. srcs' = Append(srcs, <<i, u>>) /\ UNCHANGED <<vers, pins>>
    BY <1>7 DEF AddSource
  <2>2. Members(srcs) \subseteq Members(srcs')
    BY <2>1, AppendRow DEF TypeOK
  <2>. QED
    BY <2>1, <2>2, RowsStay DEF Ids, Version
<1>. QED
  BY <1>1, <1>3, <1>4, <1>5, <1>6, <1>7 DEF Command, DeleteRepo, DeletePin, DeletePackage,
     DeleteVersion, DeleteSource, UpdateSource

\* A register script takes no version, source or pin away.
LEMMA RegisterAdds ==
  ASSUME IdsGiven, TypeOK, Register
  PROVE  SrcRows \subseteq SrcRows' /\ PinRows \subseteq PinRows'
<1>1. ASSUME UNCHANGED <<vers, srcs, pins>>
      PROVE  SrcRows \subseteq SrcRows' /\ PinRows \subseteq PinRows'
  BY <1>1, RowsStay DEF Ids, Version, Members
<1>2. CASE \/ RegBegins \/ RegPackage \/ RegResolve \/ RegClear \/ RegInstall
           \/ RegPassesOver \/ RegEnds
  BY <1>1, <1>2 DEF RegBegins, RegPackage, RegResolve, RegClear, RegInstall, RegPassesOver,
     RegEnds, tables
<1>3. CASE RegVersion
  <2>1. UNCHANGED <<srcs, pins>> /\ (Insert(Script.key, Script.ver) \/ UNCHANGED vers)
    BY <1>3 DEF RegVersion
  <2>. QED
    BY <1>1, <2>1, InsertStays, RowsStay DEF Members
<1>4. CASE RegMeta
  <2>1. /\ UNCHANGED <<srcs, pins>> /\ Ids' = Ids
        /\ vers' = [i \in Ids |-> IF i = script.id THEN [vers[i] EXCEPT !.meta = TRUE] ELSE vers[i]]
    BY <1>4 DEF RegMeta, Ids
  <2>2. \A i \in Ids : Version(i)' = Version(i)
    BY <2>1 DEF IdsGiven, IsRow, Version
  <2>. QED
    BY <2>1, <2>2, RowsStay DEF Members
<1>5. CASE RegSource
  <2>1. /\ UNCHANGED <<vers, pins>>
        /\ srcs' = srcs \/ \E i \in Ids : \E u : srcs' = Append(srcs, <<i, u>>)
    BY <1>5 DEF RegSource, Exactly, Of
  <2>2. Members(srcs) \subseteq Members(srcs')
    <3>1. ASSUME NEW e, srcs' = Append(srcs, e) PROVE Members(srcs) \subseteq Members(srcs')
      <4>1. Len(srcs) \in Nat /\ DOMAIN srcs = 1..Len(srcs) /\ DOMAIN srcs' = 1..(Len(srcs) + 1)
            /\ \A n \in 1..Len(srcs) : srcs'[n] = srcs[n]
        BY <3>1 DEF TypeOK
      <4>. QED
        BY <4>1 DEF Members
    <3>. QED
      BY <2>1, <3>1
  <2>. QED
    BY <2>1, <2>2, RowsStay DEF Ids, Version
<1>. QED
  BY <1>2, <1>3, <1>4, <1>5 DEF Register

\* What the versions had stays to be read, or has been read.
LEMMA HadStays ==
  ASSUME IdsGiven, ExportIsFinite, TypeOK, HadSoFar, [Next]_vars
  PROVE  HadSoFar'
<1>1. CASE Apart
  BY <1>1 DEF Apart, HadSoFar, Version, Ids, SrcRows, SrcRow, PinRows, PinRow
<1>2. CASE ImportOk \/ ImportFails
  BY <1>2 DEF ImportOk, ImportFails, HadSoFar
<1>3. ASSUME NEW takes, Beside(takes), Command \/ Register PROVE HadSoFar'
  <2>1. CASE ~Reading
    <3>1. exp' = exp
      BY <1>3, <2>1, Disturbs DEF Beside
    <3>. QED
      BY <2>1, <3>1 DEF HadSoFar, Reading
  <2>2. CASE Reading /\ ~exp'.lost
    <3>1. exp'.at = exp.at /\ SameParts(exp', exp) /\ ~exp.lost
      BY <1>3, <2>2, Disturbs DEF Beside
    <3>2. SrcRows \subseteq SrcRows' /\ PinRows \subseteq PinRows'
      BY <1>3, <2>2, CommandAdds, RegisterAdds
    <3>. QED
      BY <2>2, <3>1, <3>2 DEF HadSoFar, SameParts
  <2>3. CASE Reading /\ exp'.lost
    BY <2>3 DEF HadSoFar
  <2>. QED
    BY <2>1, <2>2, <2>3
<1>4. CASE Export
  <2>1. SrcRows' = SrcRows /\ PinRows' = PinRows
    BY <1>4, ExportReads DEF tables, SrcRows, SrcRow, PinRows, PinRow
  <2>2. CASE exp.at \in {0, 1}
    BY <1>4, <2>2, ExportReads DEF HadSoFar
  <2>3. CASE exp.at = 2
    BY <1>4, <2>1, <2>3, ExportReads DEF HadSoFar
  <2>4. CASE exp.at = 3
    BY <1>4, <2>1, <2>4, ExportReads DEF HadSoFar
  <2>5. CASE exp.at = 4
    BY <1>4, <2>1, <2>5, ExportReads DEF HadSoFar
  <2>. QED
    BY <1>4, <2>2, <2>3, <2>4, <2>5, ExportReads
<1>. QED
  BY <1>1, <1>2, <1>3, <1>4, StepCases

\* import shows again what the export shows.
LEMMA ImportShows ==
  ASSUME IdsGiven, ExportIsFinite, ExportTyped, ImportOk
  PROVE  exp.srcs \subseteq SrcRows' /\ exp.pins \subseteq PinRows'
<1>1. /\ \A e \in exp.vers : vers'[NewIds(e)] = New(e[1], e[2])
      /\ Members(srcs') = {<<NewIds(<<s[1], s[2]>>), s[3]>> : s \in exp.srcs}
  BY ImportPuts
<1>2. /\ exp.srcs \subseteq Keys \X Vers \X Urls /\ exp.pins \subseteq Repos \X Keys \X Vers
      /\ \A s \in exp.srcs : <<s[1], s[2]>> \in exp.vers
      /\ \A p \in exp.pins : <<p[2], p[3]>> \in exp.vers
      /\ pins' = {<<p[1], NewIds(<<p[2], p[3]>>)>> : p \in exp.pins}
  BY DEF ImportOk, ExportTyped, Resolves
<1>3. ASSUME NEW s \in exp.srcs PROVE s \in SrcRows'
  <2>1. SUFFICES ASSUME NEW i, i = NewIds(<<s[1], s[2]>>) PROVE s \in SrcRows'
    OBVIOUS
  <2>2. PICK n \in DOMAIN srcs' : srcs'[n] = <<i, s[3]>>
    BY <1>1, <2>1 DEF Members
  <2>3. s = <<s[1], s[2], s[3]>> /\ vers'[i] = New(s[1], s[2])
    BY <1>1, <1>2, <2>1
  <2>4. SrcRow(srcs[n])' = s
    BY <2>2, <2>3 DEF SrcRow, New
  <2>. QED
    BY <2>4 DEF SrcRows
<1>4. ASSUME NEW p \in exp.pins PROVE p \in PinRows'
  <2>1. SUFFICES ASSUME NEW i, i = NewIds(<<p[2], p[3]>>) PROVE p \in PinRows'
    OBVIOUS
  <2>2. <<p[1], i>> \in pins'
    BY <1>2, <2>1
  <2>3. p = <<p[1], p[2], p[3]>> /\ vers'[i] = New(p[2], p[3])
    BY <1>1, <1>2, <2>1
  <2>4. \A q \in pins' : q = <<p[1], i>> => PinRow(q)' = p
    BY <2>3 DEF PinRow, New
  <2>. QED
    BY <2>2, <2>4 DEF PinRows
<1>. QED
  BY <1>3, <1>4

\* What export writes while others only add rows is refused by import, or
\* brings back every source and pin there was when the versions were read.
THEOREM AdditionsLoseNothing == Spec => NothingLost
<1>1. Init => HadSoFar
  BY DEF Init, HadSoFar
<1>2. IdInv /\ ExportIsFinite /\ TypeOK /\ HadSoFar /\ [Next]_vars => HadSoFar'
  BY HadStays DEF IdInv
<1>3. Spec => []HadSoFar
  BY <1>1, <1>2, IdsStayTheirs, TypesStay, PTL DEF Spec
<1>4. IdInv /\ ExportIsFinite /\ ExportTyped /\ HadSoFar /\ [Next]_vars
        => [ImportOk /\ ~exp.lost => exp.had \subseteq SrcRows' \cup PinRows']_vars
  <2>. SUFFICES ASSUME IdsGiven, ExportIsFinite, ExportTyped, HadSoFar, ImportOk, ~exp.lost
                PROVE  exp.had \subseteq SrcRows' \cup PinRows'
    BY DEF IdInv
  <2>1. exp.had \subseteq exp.srcs \cup exp.pins
    BY DEF HadSoFar, ImportOk
  <2>. QED
    BY <2>1, ImportShows
<1>. QED
  BY <1>3, <1>4, IdsStayTheirs, TypesStay, PTL DEF Spec, NothingLost

-----------------------------------------------------------------------------
(* A register script that has the catalog for itself.                      *)

\* A row put at the end is kept at the end.
LEMMA KeptAppend ==
  ASSUME NEW T, NEW table \in Seq(T), NEW e \in T, NEW places \in SUBSET (DOMAIN table)
  PROVE  Kept(Append(table, e), places \cup {Len(table) + 1}) = Append(Kept(table, places), e)
<1>. DEFINE z == Len(table) + 1
            longer == Append(table, e)
            more == places \cup {z}
            c == Cardinality(places)
            kept == Kept(table, places)
            new == Kept(longer, more)
            At(S, n) == Cardinality({j \in S : j <= n})
<1>1. /\ Len(table) \in Nat /\ DOMAIN table = 1..Len(table) /\ longer \in Seq(T)
      /\ DOMAIN longer = 1..z /\ longer[z] = e /\ \A n \in DOMAIN table : longer[n] = table[n]
  OBVIOUS
<1>2. /\ kept \in Seq(T) /\ Len(kept) = c /\ c \in Nat
      /\ \A n \in places : At(places, n) \in 1..c /\ kept[At(places, n)] = table[n]
  BY KeptRows
<1>3. more \in SUBSET (DOMAIN longer)
  BY <1>1
<1>4. /\ new \in Seq(T) /\ Len(new) = Cardinality(more)
      /\ \A m \in 1..Cardinality(more) : \E n \in more : At(more, n) = m /\ new[m] = longer[n]
  <2>. HIDE DEF longer, more
  <2>. QED
    BY <1>1, <1>3, KeptRows
<1>5. Cardinality(more) = c + 1
  <2>1. IsFiniteSet(places)
    <3>1. IsFiniteSet(DOMAIN table)
      BY <1>1, FS_Interval
    <3>. QED
      BY <3>1, FS_Subset
  <2>2. z \notin places
    BY <1>1
  <2>. QED
    BY <2>1, <2>2, FS_AddElement
<1>6. At(more, z) = c + 1
  <2>1. {j \in more : j <= z} = more
    BY <1>1
  <2>. QED
    BY <1>5, <2>1
<1>7. ASSUME NEW n \in places PROVE At(more, n) = At(places, n)
  <2>1. {j \in more : j <= n} = {j \in places : j <= n}
    BY <1>1
  <2>. QED
    BY <2>1
<1>8. /\ DOMAIN Append(kept, e) = 1..(c + 1) /\ Append(kept, e)[c + 1] = e
      /\ \A m \in 1..c : Append(kept, e)[m] = kept[m]
  BY <1>2
<1>. HIDE DEF At, new, kept, longer, c, more, z
<1>9. ASSUME NEW m \in 1..(c + 1) PROVE new[m] = Append(kept, e)[m]
  <2>1. PICK n \in more : At(more, n) = m /\ new[m] = longer[n]
    BY <1>4, <1>5
  <2>2. CASE n = z
    BY <1>1, <1>6, <1>8, <2>1, <2>2
  <2>3. CASE n \in places
    <3>1. At(places, n) = m /\ longer[n] = table[n]
      BY <1>1, <1>7, <2>1, <2>3
    <3>. QED
      BY <1>2, <1>8, <2>1, <2>3, <3>1
  <2>. QED
    BY <2>2, <2>3 DEF more
<1>10. Append(kept, e) \in Seq(T) /\ new \in Seq(T) /\ Len(new) = c + 1 /\ Len(Append(kept, e)) = c + 1
  BY <1>2, <1>4, <1>5
<1>11. new = Append(kept, e)
  BY <1>9, <1>10
<1>. QED
  BY <1>11 DEF new, kept, longer, more, z

IsScript == script = [at |-> script.at, id |-> script.id, alone |-> script.alone]
IsNewest(i) == i \in Of(Script.key) /\ \A j \in Of(Script.key) : j <= i

\* How many paths and how many URLs the script has been through.
Placed == IF script.at <= 5 + Len(Script.dests) THEN script.at - 5 ELSE Len(Script.dests)
Fetched == script.at - 5 - Len(Script.dests)

\* The paths of a version, in the order of their ids.
PathsIn(table, i) == [n \in DOMAIN Listed(table, i) |-> Listed(table, i)[n][2]]

\* What the commands behind it have left, if no one else has changed anything.
Begun ==
  /\ script.at \in 1..(5 + Len(Script.dests) + Len(Script.urls))
  /\ script.at >= 2 => Script.key \in pkgs
  /\ script.at >= 3 => Exactly(Script.key, Script.ver) # {}
  /\ script.id # 0 => IsNewest(script.id)
MetaSet == script.at >= 4 => \A i \in Ids : IsNewest(i) => vers[i].meta
PathsSet ==
  script.at >= 5 => \A i \in Ids : IsNewest(i) =>
    PathsIn(maps, i) = [n \in 1..Placed |-> Script.dests[n]]
SourcesSet ==
  \A n \in DOMAIN Script.urls : n <= Fetched =>
    \A i \in Exactly(Script.key, Script.ver) : Has(srcs, <<i, Script.urls[n]>>)

ScriptInv == IsScript /\ (script.alone => Begun /\ MetaSet /\ PathsSet /\ SourcesSet)

\* What a script registers: a package, a version, paths and URLs.
LEMMA ScriptTyped ==
  /\ Script.key \in Keys /\ Script.ver \in Vers
  /\ Script.dests \in Seq(Dests) /\ Len(Script.dests) \in Nat
  /\ DOMAIN Script.dests = 1..Len(Script.dests)
  /\ Script.urls \in Seq(Urls) /\ Len(Script.urls) \in Nat
  /\ DOMAIN Script.urls = 1..Len(Script.urls)
BY CatalogAssumption

\* A command of the script goes on to the next one, others and the errors passed
\* over end its being alone.
LEMMA ScriptSteps ==
  ASSUME IsScript, [Next]_vars
  PROVE  /\ IsScript'
         /\ script'.alone =>
              \/ Register /\ ~RegEnds /\ ~RegPassesOver
              \/ UNCHANGED <<pkgs, vers, maps, srcs, script>>
<1>1. ASSUME NEW takes, Edit(takes) PROVE IsScript' /\ ~script'.alone
  BY <1>1 DEF Edit, IsScript
<1>2. ASSUME NEW takes, Step(takes) PROVE IsScript'
  BY <1>2 DEF Step, IsScript
<1>3. CASE Command
  BY <1>1, <1>3 DEF Command, AddRepo, DeleteRepo, AddPin, DeletePin, AddPackage, DeletePackage,
     AddVersion, DeleteVersion, AddSource, DeleteSource, UpdateSource
<1>4. CASE Export \/ ImportFails \/ UNCHANGED vars
  BY <1>4 DEF Export, ExportRepos, ExportPackages, ExportVersions, ExportSources, ExportPins,
     ImportFails, vars, tables, IsScript
<1>5. CASE ImportOk
  BY <1>5 DEF ImportOk, IsScript
<1>6. CASE (\E k \in Keys : BuildBegins(k)) \/ BuildRecords \/ BuildLost
  BY <1>6 DEF BuildBegins, BuildRecords, BuildLost, tables, IsScript
<1>7. CASE RegEnds \/ RegPassesOver
  BY <1>7 DEF RegEnds, RegPassesOver, NoScript, IsScript
<1>8. CASE Register /\ ~RegEnds /\ ~RegPassesOver
  <2>1. CASE RegBegins \/ RegResolve
    BY <1>8, <2>1 DEF RegBegins, RegResolve, IsScript
  <2>2. CASE ~RegBegins /\ ~RegResolve
    BY <1>2, <1>8, <2>2 DEF Register, RegPackage, RegVersion, RegMeta, RegClear, RegInstall,
       RegSource
  <2>. QED
    BY <1>8, <2>1, <2>2
<1>. QED
  BY <1>3, <1>4, <1>5, <1>6, <1>7, <1>8 DEF Next

\* The next command has nothing resolved yet.
LEMMA StepOn ==
  ASSUME IsScript, Step(FALSE)
  PROVE  script'.at = script.at + 1 /\ script'.id = 0 /\ (script'.alone => script.alone)
BY DEF Step, IsScript

\* A new package, a new version: the first two commands.
LEMMA ScriptEnters ==
  ASSUME IdsGiven, ScriptInv, RegBegins \/ RegPackage \/ RegVersion, script'.alone
  PROVE  Begun' /\ MetaSet' /\ PathsSet' /\ SourcesSet'
<1>1. /\ Len(Script.dests) \in Nat /\ Len(Script.urls) \in Nat
      /\ DOMAIN Script.urls = 1..Len(Script.urls)
  BY ScriptTyped
<1>2. ASSUME script'.at \in {1, 2, 3}
      PROVE  /\ script'.at \in 1..(5 + Len(Script.dests) + Len(Script.urls))
             /\ MetaSet' /\ PathsSet' /\ SourcesSet'
  <2>1. \A n \in DOMAIN Script.urls : ~(n <= Fetched')
    BY <1>1, <1>2 DEF Fetched
  <2>2. script'.at \in 1..(5 + Len(Script.dests) + Len(Script.urls))
    <3>1. \A a, b \in Nat : {1, 2, 3} \subseteq 1..(5 + a + b)
      OBVIOUS
    <3>. QED
      BY <1>1, <1>2, <3>1
  <2>3. MetaSet' /\ PathsSet'
    BY <1>2 DEF MetaSet, PathsSet
  <2>. QED
    BY <2>1, <2>2, <2>3 DEF SourcesSet
<1>3. CASE RegBegins
  <2>1. script'.at = 1 /\ script'.id = 0
    BY <1>3 DEF RegBegins
  <2>2. /\ script'.at \in 1..(5 + Len(Script.dests) + Len(Script.urls))
        /\ MetaSet' /\ PathsSet' /\ SourcesSet'
    BY <1>2, <2>1
  <2>3. ~(script'.at >= 2) /\ ~(script'.at >= 3)
    BY <2>1
  <2>. QED
    BY <2>1, <2>2, <2>3 DEF Begun
<1>4. CASE RegPackage
  <2>1. script'.at = 2 /\ script'.id = 0 /\ Script.key \in pkgs'
    BY <1>4, StepOn DEF RegPackage, ScriptInv
  <2>2. /\ script'.at \in 1..(5 + Len(Script.dests) + Len(Script.urls))
        /\ MetaSet' /\ PathsSet' /\ SourcesSet'
    BY <1>2, <2>1
  <2>3. ~(script'.at >= 3)
    BY <2>1
  <2>. QED
    BY <2>1, <2>2, <2>3 DEF Begun
<1>5. CASE RegVersion
  <2>1. script'.at = 3 /\ script'.id = 0 /\ script.alone /\ script.at = 2 /\ pkgs' = pkgs
    BY <1>5, StepOn DEF RegVersion, ScriptInv
  <2>2. Script.key \in pkgs
    BY <2>1 DEF ScriptInv, Begun
  <2>3. /\ script'.at \in 1..(5 + Len(Script.dests) + Len(Script.urls))
        /\ MetaSet' /\ PathsSet' /\ SourcesSet'
    BY <1>2, <2>1
  <2>4. CASE Exactly(Script.key, Script.ver) = {}
    <3>1. Insert(Script.key, Script.ver)
      BY <1>5, <2>2, <2>4 DEF RegVersion
    <3>2. last + 1 \in Ids' /\ vers'[last + 1] = New(Script.key, Script.ver)
      BY <3>1 DEF Insert, NextId, Ids
    <3>3. Exactly(Script.key, Script.ver)' # {}
      BY <3>2 DEF Exactly, Of, New
    <3>. QED
      BY <2>1, <2>2, <2>3, <3>3 DEF Begun
  <2>5. CASE Exactly(Script.key, Script.ver) # {}
    <3>1. Exactly(Script.key, Script.ver)' # {}
      BY <1>5, <2>5 DEF RegVersion, Exactly, Of, Ids
    <3>. QED
      BY <2>1, <2>2, <2>3, <3>1 DEF Begun
  <2>. QED
    BY <2>4, <2>5
<1>. QED
  BY <1>3, <1>4, <1>5

\* There is one newest version.
LEMMA NewestIsOne ==
  ASSUME IdsGiven, NEW i, NEW j, IsNewest(i), IsNewest(j)
  PROVE  i = j /\ i \in Ids /\ i # 0
<1>1. i \in Ids /\ j \in Ids /\ Ids \subseteq Nat \ {0} /\ i <= j /\ j <= i
  BY DEF IdsGiven, IsNewest, Of
<1>. QED
  BY <1>1

\* Without change to the tables, the script only resolves.
LEMMA ScriptResolves ==
  ASSUME IdsGiven, ScriptInv, RegResolve \/ UNCHANGED <<pkgs, vers, maps, srcs, script>>,
         script'.alone
  PROVE  Begun' /\ MetaSet' /\ PathsSet' /\ SourcesSet'
<1>1. UNCHANGED <<pkgs, vers, maps, srcs>>
  BY DEF RegResolve, tables
<1>2. script'.at = script.at /\ script.alone
  BY DEF RegResolve, ScriptInv, IsScript
<1>3. Ids' = Ids /\ Of(Script.key)' = Of(Script.key)
      /\ Exactly(Script.key, Script.ver)' = Exactly(Script.key, Script.ver)
  BY <1>1 DEF Ids, Of, Exactly
<1>4. \A i : IsNewest(i)' <=> IsNewest(i)
  BY <1>3 DEF IsNewest
<1>5. script'.id # 0 => IsNewest(script'.id)
  <2>1. CASE RegResolve
    <3>1. script'.id = Newest(Script.key) /\ Of(Script.key) # {}
      BY <2>1 DEF RegResolve, ScriptInv, IsScript
    <3>2. Of(Script.key) \subseteq 1..last /\ last \in Nat
      BY DEF Of, IdsGiven
    <3>3. \E i \in Of(Script.key) : \A j \in Of(Script.key) : j <= i
      BY <3>1, <3>2, HighestExists
    <3>. QED
      BY <3>1, <3>3 DEF Newest, IsNewest
  <2>2. CASE script' = script
    BY <1>2, <2>2 DEF ScriptInv, Begun
  <2>. QED
    BY <2>1, <2>2
<1>6. Begun'
  BY <1>1, <1>2, <1>3, <1>4, <1>5 DEF ScriptInv, Begun
<1>7. MetaSet' /\ SourcesSet'
  BY <1>1, <1>2, <1>3, <1>4 DEF ScriptInv, MetaSet, SourcesSet, Fetched, Has
<1>8. PathsSet'
  BY <1>1, <1>2, <1>3, <1>4 DEF ScriptInv, PathsSet, Placed
<1>. QED
  BY <1>6, <1>7, <1>8

\* What a command of the script finds when it is its turn.
LEMMA ScriptTurn ==
  ASSUME ScriptInv, Step(FALSE), script'.alone
  PROVE  /\ script'.at = script.at + 1 /\ script'.id = 0
         /\ Begun /\ MetaSet /\ PathsSet /\ SourcesSet
<1>1. script'.at = script.at + 1 /\ script'.id = 0 /\ script.alone
  BY StepOn DEF ScriptInv
<1>. QED
  BY <1>1 DEF ScriptInv

\* meta set writes to the newest version.
LEMMA ScriptSetsMeta ==
  ASSUME IdsGiven, ScriptInv, RegMeta, script'.alone
  PROVE  Begun' /\ MetaSet' /\ PathsSet' /\ SourcesSet'
<1>1. /\ script.at = 3 /\ script.id # 0 /\ script'.at = 4 /\ script'.id = 0 /\ Begun
      /\ pkgs' = pkgs
  BY ScriptTurn DEF RegMeta
<1>2. IsNewest(script.id) /\ Exactly(Script.key, Script.ver) # {} /\ Script.key \in pkgs
  BY <1>1 DEF Begun
<1>3. vers' = [i \in Ids |-> IF i = script.id THEN [vers[i] EXCEPT !.meta = TRUE] ELSE vers[i]]
  BY DEF RegMeta
<1>4. Ids' = Ids /\ \A i \in Ids : /\ vers'[i].key = vers[i].key /\ vers'[i].ver = vers[i].ver
                                   /\ i = script.id => vers'[i].meta
  BY <1>3 DEF Ids, IdsGiven, IsRow
<1>5. /\ Of(Script.key)' = Of(Script.key)
      /\ Exactly(Script.key, Script.ver)' = Exactly(Script.key, Script.ver)
  BY <1>4 DEF Of, Exactly
<1>6. \A i : IsNewest(i)' <=> IsNewest(i)
  BY <1>5 DEF IsNewest
<1>7. Len(Script.dests) \in Nat /\ Len(Script.urls) \in Nat /\ DOMAIN Script.urls \subseteq Nat \ {0}
  BY ScriptTyped
<1>8. MetaSet'
  BY <1>2, <1>4, <1>6, NewestIsOne DEF MetaSet
<1>9. Begun'
  <2>1. \A a, b \in Nat : 4 \in 1..(5 + a + b)
    OBVIOUS
  <2>. QED
    BY <1>1, <1>2, <1>5, <1>7, <2>1 DEF Begun
<1>10. PathsSet' /\ SourcesSet'
  <2>1. ~(script'.at >= 5) /\ \A n \in DOMAIN Script.urls : ~(n <= Fetched')
    BY <1>1, <1>7 DEF Fetched
  <2>. QED
    BY <2>1 DEF PathsSet, SourcesSet
<1>. QED
  BY <1>8, <1>9, <1>10

\* The commands that follow leave the packages and the versions alone.
LEMMA ScriptGoesOn ==
  ASSUME ScriptInv, Step(FALSE), script'.alone, UNCHANGED <<pkgs, vers>>,
         script.at \in 4..(4 + Len(Script.dests) + Len(Script.urls))
  PROVE  /\ Begun' /\ MetaSet'
         /\ \A i : IsNewest(i)' <=> IsNewest(i)
         /\ Ids' = Ids /\ Exactly(Script.key, Script.ver)' = Exactly(Script.key, Script.ver)
<1>1. Ids' = Ids /\ Of(Script.key)' = Of(Script.key)
      /\ Exactly(Script.key, Script.ver)' = Exactly(Script.key, Script.ver)
  BY DEF Ids, Of, Exactly
<1>2. \A i : IsNewest(i)' <=> IsNewest(i)
  BY <1>1 DEF IsNewest
<1>3. script'.at = script.at + 1 /\ script'.id = 0 /\ Begun /\ MetaSet
  BY ScriptTurn
<1>4. Script.key \in pkgs /\ Exactly(Script.key, Script.ver) # {}
      /\ \A i \in Ids : IsNewest(i) => vers[i].meta
  BY <1>3 DEF Begun, MetaSet
<1>5. script'.at \in 1..(5 + Len(Script.dests) + Len(Script.urls))
  <2>1. \A a, b \in Nat : \A n : n \in 4..(4 + a + b) => n + 1 \in 1..(5 + a + b)
    OBVIOUS
  <2>. QED
    BY <1>3, <2>1, ScriptTyped
<1>. QED
  BY <1>1, <1>2, <1>3, <1>4, <1>5 DEF Begun, MetaSet

\* install clear takes all paths of the newest version away, earlier runs' included.
LEMMA ScriptClears ==
  ASSUME IdsGiven, TypeOK, ScriptInv, RegClear, script'.alone
  PROVE  Begun' /\ MetaSet' /\ PathsSet' /\ SourcesSet'
<1>. DEFINE d == Len(Script.dests)
<1>1. /\ script.at = 4 /\ script'.at = 5 /\ script'.id = 0 /\ Begun
      /\ maps' = Without(maps, {script.id})
  BY ScriptTurn DEF RegClear, Cleared
<1>2. IsNewest(script.id)
  <2>1. Of(Script.key) # {}
    BY <1>1 DEF Begun, Exactly
  <2>. QED
    BY <1>1, <2>1 DEF Begun, RegClear
<1>3. d \in Nat /\ Len(Script.urls) \in Nat /\ DOMAIN Script.urls \subseteq Nat \ {0}
  BY ScriptTyped
<1>4. /\ Begun' /\ MetaSet' /\ Ids' = Ids
      /\ \A i : IsNewest(i)' <=> IsNewest(i)
  <2>1. \A a, b \in Nat : 4 \in 4..(4 + a + b)
    OBVIOUS
  <2>. QED
    BY <1>1, <1>3, <2>1, ScriptGoesOn DEF RegClear
<1>5. SourcesSet'
  <2>1. \A n \in DOMAIN Script.urls : ~(n <= Fetched')
    BY <1>1, <1>3 DEF Fetched
  <2>. QED
    BY <2>1 DEF SourcesSet
<1>6. Listed(maps', script.id) = <<>>
  <2>. DEFINE places == {n \in DOMAIN maps : maps[n][1] \notin {script.id}}
  <2>1. maps' \in Seq(Ids \X Dests) /\ Members(maps') = {maps[n] : n \in places}
    BY <1>1, KeptRows DEF Without, TypeOK
  <2>2. {n \in DOMAIN maps' : maps'[n][1] = script.id} = {}
    BY <2>1 DEF Members
  <2>3. Kept(maps', {}) \in Seq(Ids \X Dests) /\ Len(Kept(maps', {})) = Cardinality({})
    BY <2>1, KeptRows
  <2>4. Kept(maps', {}) = <<>>
    BY <2>3, FS_EmptySet
  <2>. QED
    BY <2>2, <2>4 DEF Listed
<1>7. PathsSet'
  <2>1. Placed' = 0
    BY <1>1, <1>3 DEF Placed
  <2>2. PathsIn(maps', script.id) = [n \in 1..0 |-> Script.dests[n]]
    BY <1>6 DEF PathsIn
  <2>3. \A i : IsNewest(i)' => i = script.id
    BY <1>2, <1>4, NewestIsOne
  <2>. QED
    BY <2>1, <2>2, <2>3 DEF PathsSet
<1>. QED
  BY <1>4, <1>5, <1>7

\* install add puts the next path after those before it.
LEMMA ScriptInstalls ==
  ASSUME IdsGiven, TypeOK, ScriptInv, RegInstall, script'.alone
  PROVE  Begun' /\ MetaSet' /\ PathsSet' /\ SourcesSet'
<1>. DEFINE d == Len(Script.dests)
            k == script.at - 5
            row == <<script.id, Script.dests[script.at - 4]>>
<1>1. /\ script.at \in 5..(4 + d) /\ script'.at = script.at + 1 /\ script'.id = 0 /\ Begun
      /\ PathsSet /\ maps' = Append(maps, row) /\ script.id \in Ids
  BY ScriptTurn DEF RegInstall, Adds
<1>2. IsNewest(script.id)
  BY <1>1 DEF Begun, IdsGiven
<1>3. d \in Nat /\ Len(Script.urls) \in Nat /\ DOMAIN Script.urls \subseteq Nat \ {0}
      /\ Script.dests \in Seq(Dests)
  BY ScriptTyped
<1>4. /\ k \in Nat /\ k + 1 \in 1..d /\ Placed = k /\ Placed' = k + 1 /\ script.at - 4 = k + 1
      /\ \A n \in DOMAIN Script.urls : ~(n <= Fetched')
  <2>1. \A a \in Nat : \A n : n \in 5..(4 + a) =>
          /\ n - 5 \in Nat /\ (n - 5) + 1 \in 1..a /\ n - 4 = (n - 5) + 1
          /\ n <= 5 + a /\ n + 1 <= 5 + a /\ (n + 1) - 5 = (n - 5) + 1
          /\ \A m \in Nat \ {0} : ~(m <= (n + 1) - 5 - a)
    OBVIOUS
  <2>2. /\ k \in Nat /\ k + 1 \in 1..d /\ script.at - 4 = k + 1
        /\ script.at <= 5 + d /\ script.at + 1 <= 5 + d /\ (script.at + 1) - 5 = k + 1
        /\ \A m \in Nat \ {0} : ~(m <= (script.at + 1) - 5 - d)
    BY <1>1, <1>3, <2>1
  <2>3. Placed = k /\ Placed' = k + 1
    BY <1>1, <2>2 DEF Placed
  <2>4. \A n \in DOMAIN Script.urls : ~(n <= Fetched')
    BY <1>1, <1>3, <2>2 DEF Fetched
  <2>. QED
    BY <2>2, <2>3, <2>4
<1>5. /\ Begun' /\ MetaSet' /\ Ids' = Ids
      /\ \A i : IsNewest(i)' <=> IsNewest(i)
  <2>1. \A a, b \in Nat : \A n : n \in 5..(4 + a) => n \in 4..(4 + a + b)
    OBVIOUS
  <2>. QED
    BY <1>1, <1>3, <2>1, ScriptGoesOn DEF RegInstall
<1>6. SourcesSet'
  BY <1>4 DEF SourcesSet
<1>7. row \in Ids \X Dests /\ row[1] = script.id /\ row[2] = Script.dests[k + 1]
  <2>1. Script.dests[script.at - 4] \in Dests
    BY <1>3, <1>4
  <2>. QED
    BY <1>1, <1>4, <2>1
<1>. HIDE DEF row, k, d
<1>8. Listed(maps', script.id) = Append(Listed(maps, script.id), row)
      /\ Listed(maps, script.id) \in Seq(Ids \X Dests)
  <2>. DEFINE places == {n \in DOMAIN maps : maps[n][1] = script.id}
  <2>1. maps \in Seq(Ids \X Dests)
    BY DEF TypeOK
  <2>2. {n \in DOMAIN maps' : maps'[n][1] = script.id} = places \cup {Len(maps) + 1}
    <3>1. /\ DOMAIN maps' = DOMAIN maps \cup {Len(maps) + 1} /\ maps'[Len(maps) + 1] = row
          /\ \A n \in DOMAIN maps : maps'[n] = maps[n]
      BY <1>1, <1>7, <2>1
    <3>. QED
      BY <1>7, <3>1
  <2>3. places \in SUBSET (DOMAIN maps) /\ Kept(maps, places) \in Seq(Ids \X Dests)
    BY <2>1, KeptRows
  <2>. HIDE DEF places
  <2>4. Kept(Append(maps, row), places \cup {Len(maps) + 1}) = Append(Kept(maps, places), row)
    BY <1>7, <2>1, <2>3, KeptAppend
  <2>. QED
    BY <1>1, <2>2, <2>3, <2>4 DEF Listed, places
<1>9. PathsIn(maps', script.id) = [n \in 1..(k + 1) |-> Script.dests[n]]
  <2>. DEFINE listed == Listed(maps, script.id)
  <2>1. [n \in DOMAIN listed |-> listed[n][2]] = [n \in 1..k |-> Script.dests[n]]
    <3>1. script.at >= 5
      BY <1>1
    <3>. QED
      BY <1>1, <1>2, <1>4, <3>1 DEF PathsSet, PathsIn
  <2>. HIDE DEF listed
  <2>2. DOMAIN listed = 1..k /\ \A n \in 1..k : listed[n][2] = Script.dests[n]
    BY <2>1
  <2>3. Len(listed) = k
    BY <1>4, <1>8, <2>2 DEF listed
  <2>4. /\ DOMAIN Append(listed, row) = 1..(k + 1) /\ Append(listed, row)[k + 1] = row
        /\ \A n \in 1..k : Append(listed, row)[n] = listed[n]
    BY <1>7, <1>8, <2>3 DEF listed
  <2>5. \A n \in 1..(k + 1) : Append(listed, row)[n][2] = Script.dests[n]
    BY <1>4, <1>7, <2>2, <2>4
  <2>. QED
    BY <1>8, <2>4, <2>5 DEF PathsIn, listed
<1>10. PathsSet'
  <2>1. \A i : IsNewest(i)' => i = script.id
    BY <1>2, <1>5, NewestIsOne
  <2>2. Placed' = k + 1
    BY <1>4
  <2>. QED
    BY <1>9, <2>1, <2>2 DEF PathsSet
<1>. QED
  BY <1>5, <1>6, <1>10

\* src add adds the next URL to the version the script names, or finds it there.
LEMMA ScriptFetches ==
  ASSUME IdsGiven, TypeOK, ScriptInv, RegSource, script'.alone
  PROVE  Begun' /\ MetaSet' /\ PathsSet' /\ SourcesSet'
<1>. DEFINE d == Len(Script.dests)
            named == Exactly(Script.key, Script.ver)
<1>. SUFFICES ASSUME NEW m, m = script.at - 4 - d, NEW u, u = Script.urls[m]
              PROVE  Begun' /\ MetaSet' /\ PathsSet' /\ SourcesSet'
  OBVIOUS
<1>1. /\ script.at \in (5 + d)..(4 + d + Len(Script.urls)) /\ script'.at = script.at + 1
      /\ Begun /\ PathsSet /\ SourcesSet /\ maps' = maps
  BY ScriptTurn DEF RegSource, Srcs
<1>2. d \in Nat /\ Len(Script.urls) \in Nat /\ DOMAIN Script.urls = 1..Len(Script.urls)
  BY ScriptTyped
<1>3. /\ m \in Int /\ Fetched = m - 1 /\ Fetched' = m
      /\ script.at >= 5 /\ Placed' = Placed
  <2>1. \A a, b \in Nat : \A n : n \in (5 + a)..(4 + a + b) =>
          /\ n - 4 - a \in Int /\ n - 5 - a = (n - 4 - a) - 1 /\ (n + 1) - 5 - a = n - 4 - a
          /\ n >= 5 /\ ~(n + 1 <= 5 + a) /\ (n <= 5 + a => n - 5 = a)
    OBVIOUS
  <2>2. /\ m \in Int /\ script.at - 5 - d = m - 1 /\ (script.at + 1) - 5 - d = m
        /\ script.at >= 5 /\ ~(script.at + 1 <= 5 + d) /\ (script.at <= 5 + d => script.at - 5 = d)
    <3>. HIDE DEF d
    <3>. QED
      BY <1>1, <1>2, <2>1
  <2>. QED
    BY <1>1, <2>2 DEF Placed, Fetched
<1>4. /\ Begun' /\ MetaSet' /\ Ids' = Ids
      /\ \A i : IsNewest(i)' <=> IsNewest(i)
      /\ Exactly(Script.key, Script.ver)' = named
  <2>1. \A a, b \in Nat : \A n : n \in (5 + a)..(4 + a + b) => n \in 4..(4 + a + b)
    OBVIOUS
  <2>. QED
    BY <1>1, <1>2, <2>1, ScriptGoesOn DEF RegSource
<1>5. PathsSet'
  BY <1>1, <1>3, <1>4 DEF PathsSet
<1>6. IF {i \in named : NewSource(i, u)} = {} THEN srcs' = srcs
      ELSE \E i \in {j \in named : NewSource(j, u)} : srcs' = Append(srcs, <<i, u>>)
  BY DEF RegSource
<1>. HIDE DEF d, named
<1>7. srcs \in Seq(Ids \X Urls) /\ \A i, j \in named : i = j
  BY DEF TypeOK, named, Exactly, Of, Version
<1>8. ASSUME NEW i \in named PROVE Has(srcs, <<i, u>>)'
  <2>1. CASE {j \in named : NewSource(j, u)} = {}
    <3>1. i \in Ids /\ ~NewSource(i, u) /\ srcs' = srcs
      BY <1>6, <1>8, <2>1 DEF named, Exactly, Of
    <3>. QED
      BY <3>1 DEF NewSource, Has
  <2>2. CASE {j \in named : NewSource(j, u)} # {}
    <3>1. srcs' = Append(srcs, <<i, u>>)
      BY <1>6, <1>7, <1>8, <2>2
    <3>. QED
      BY <1>7, <3>1 DEF Has
  <2>. QED
    BY <2>1, <2>2
<1>9. ASSUME NEW row, Has(srcs, row) PROVE Has(srcs, row)'
  <2>1. srcs' = srcs \/ \E e : srcs' = Append(srcs, e)
    BY <1>6
  <2>. QED
    BY <1>7, <1>9, <2>1 DEF Has
<1>10. SourcesSet'
  <2>. SUFFICES ASSUME NEW n \in DOMAIN Script.urls, n <= m, NEW i \in named
                PROVE  Has(srcs, <<i, Script.urls[n]>>)'
    BY <1>3, <1>4 DEF SourcesSet
  <2>1. CASE n = m
    BY <1>8, <2>1
  <2>2. CASE n # m
    <3>1. n <= Fetched
      BY <1>2, <1>3, <2>2
    <3>2. Has(srcs, <<i, Script.urls[n]>>)
      BY <1>1, <3>1 DEF SourcesSet, named
    <3>. QED
      BY <1>9, <3>2
  <2>. QED
    BY <2>1, <2>2
<1>. QED
  BY <1>4, <1>5, <1>10

\* A register script that has the catalog for itself to its end, and no error
\* that `|| true` hides, registers what it names, whatever earlier runs left.
THEOREM RegistersOnce == Spec => []RegisteredOnce
<1>1. Init => ScriptInv
  BY DEF Init, NoScript, ScriptInv, IsScript
<1>2. IdInv /\ TypeOK /\ ScriptInv /\ [Next]_vars => ScriptInv'
  <2>. SUFFICES ASSUME IdsGiven, TypeOK, ScriptInv, [Next]_vars, script'.alone
                PROVE  Begun' /\ MetaSet' /\ PathsSet' /\ SourcesSet'
    BY ScriptSteps DEF IdInv, ScriptInv
  <2>1. \/ Register /\ ~RegEnds /\ ~RegPassesOver
        \/ UNCHANGED <<pkgs, vers, maps, srcs, script>>
    BY ScriptSteps DEF ScriptInv
  <2>. QED
    BY <2>1, ScriptEnters, ScriptResolves, ScriptSetsMeta, ScriptClears, ScriptInstalls,
       ScriptFetches DEF Register
<1>3. IdInv /\ ScriptInv => RegisteredOnce
  <2>. SUFFICES ASSUME IdsGiven, ScriptInv, Registered, script.alone PROVE RegisteredOnce
    BY DEF IdInv, RegisteredOnce
  <2>. DEFINE i == Newest(Script.key)
  <2>1. /\ Len(Script.dests) \in Nat /\ DOMAIN Script.dests = 1..Len(Script.dests)
        /\ Len(Script.urls) \in Nat /\ DOMAIN Script.urls = 1..Len(Script.urls)
        /\ Script.dests \in Seq(Dests)
    BY ScriptTyped
  <2>2. /\ Begun /\ MetaSet /\ PathsSet /\ SourcesSet
        /\ script.at = 5 + Len(Script.dests) + Len(Script.urls)
    BY DEF ScriptInv, Registered
  <2>3. /\ script.at >= 5 /\ script.at >= 4 /\ script.at >= 3
        /\ Placed = Len(Script.dests) /\ Fetched = Len(Script.urls)
    <3>1. \A a, b \in Nat : \A n : n = 5 + a + b =>
            /\ n >= 5 /\ n >= 4 /\ n >= 3 /\ (n <= 5 + a => n - 5 = a)
            /\ n - 5 - a = b
      OBVIOUS
    <3>. QED
      BY <2>1, <2>2, <3>1 DEF Placed, Fetched
  <2>4. IsNewest(i) /\ i \in Ids
    <3>1. Of(Script.key) # {} /\ Of(Script.key) \subseteq 1..last /\ last \in Nat
      BY <2>2, <2>3 DEF Begun, Exactly, Of, IdsGiven
    <3>2. \E j \in Of(Script.key) : \A n \in Of(Script.key) : n <= j
      BY <3>1, HighestExists
    <3>. QED
      BY <3>2 DEF Newest, IsNewest, Of
  <2>. HIDE DEF i
  <2>5. vers[i].meta
    BY <2>2, <2>3, <2>4 DEF MetaSet
  <2>6. PathsIn(maps, i) = Script.dests
    <3>1. PathsIn(maps, i) = [n \in 1..Len(Script.dests) |-> Script.dests[n]]
      BY <2>2, <2>3, <2>4 DEF PathsSet
    <3>. QED
      BY <2>1, <3>1
  <2>7. ASSUME NEW j \in Exactly(Script.key, Script.ver), NEW u \in Range(Script.urls)
        PROVE  Has(srcs, <<j, u>>)
    <3>1. PICK n \in DOMAIN Script.urls : u = Script.urls[n]
      BY DEF Range
    <3>2. n <= Fetched
      BY <2>1, <2>3
    <3>. QED
      BY <2>2, <3>1, <3>2 DEF SourcesSet
  <2>. QED
    BY <2>5, <2>6, <2>7 DEF RegisteredOnce, PathsIn, i
<1>. QED
  BY <1>1, <1>2, <1>3, IdsStayTheirs, CatalogTypeCorrect, PTL DEF Spec
=============================================================================
