---------------------------- MODULE CatalogProofs ----------------------------
(***************************************************************************)
(* Theorems about Catalog for any set of files, any number of discovery     *)
(* runs, searches and content writers, and any changes of the source.       *)
(***************************************************************************)
EXTENDS Catalog, FiniteSetTheorems, TLAPS

-----------------------------------------------------------------------------
(* The inductive invariant.                                                   *)

Text   == [of : Path \cup {<<>>}, n : 0..texts]
Run    == [at : {"idle", "scan", "bounded"}, ts : 0..scans, todo : SUBSET Path, seen : SUBSET Path]
Writing == [at : {"idle", "extracted", "checked", "committed"}, id : Id \cup {0}, text : Text]

Typed ==
  /\ disk \subseteq Path /\ changes \in 0..MaxChanges /\ table \in BOOLEAN
  /\ files \in [Path -> [id : Id \cup {0}, last : 0..scans]]
  /\ scans \in Nat /\ texts \in Nat
  /\ content \in [Id -> Text]
  /\ fts \subseteq [id : Id, path : Path, text : Text]
  /\ scan \in [Scanner -> Run]
  /\ search \in [Searcher -> {"idle", "stale"}]
  /\ write \in [Writer -> Writing]
  /\ rebuilds \in 0..MaxRebuilds /\ built \in 0..rebuilds /\ torn \in BOOLEAN
  /\ gone \in [Scanner -> SUBSET Path]

\* The records are numbered in the order of their insertion, each from a run
\* that has begun.
Numbered ==
  /\ nextId = Cardinality(Listed) + 1
  /\ \A p \in Listed : files[p].id \in 1..(nextId - 1) /\ files[p].last \in 1..scans
  /\ \A p, q \in Listed : files[p].id = files[q].id => p = q

\* The records that fts was built from.
Indexed == {e.path : e \in fts}

\* Until the catalog is rebuilt, the records that were indexed are still there
\* under their ids, and the texts too unless a writer is about to index anew.
IndexKept ==
  built = rebuilds =>
    /\ \A e \in fts : /\ e.path \in Listed /\ e.id = files[e.path].id
                      /\ ~torn /\ (\A w \in Writer : write[w].at # "committed") =>
                           e.text = content[e.id]
    /\ state # NoPrint => state[1] = Cardinality(Indexed)
    /\ state = NoPrint => fts = {}

\* What is extracted for an id, or kept under it, is of the file of that record.
TextsBelong ==
  rebuilds = 0 =>
    /\ \A w \in Writer : write[w].at \in {"extracted", "checked"} =>
         write[w].text.of \in Listed /\ write[w].id = files[write[w].text.of].id
    /\ \A i \in Id : content[i] # NoText =>
         content[i].of \in Listed /\ i = files[content[i].of].id

\* What a run has passed and not seen was absent, as is everything that is not
\* at the source now.
RunsKnow(k) ==
  /\ scan[k].at # "idle" => Path \ disk \subseteq gone[k] /\ scan[k].ts > 0
  /\ scan[k].at = "scan" => Path \ (scan[k].todo \cup scan[k].seen) \subseteq gone[k]

CatalogInv ==
  /\ Typed /\ Numbered /\ IndexKept /\ TextsBelong
  /\ \A k \in Scanner : RunsKnow(k)

-----------------------------------------------------------------------------
(* Constants, rows and numbers.                                               *)

LEMMA Constants ==
  /\ IsFiniteSet(Path) /\ Cardinality(Path) \in Nat
  /\ MaxScans \in Nat /\ MaxTexts \in Nat /\ MaxChanges \in Nat /\ MaxRebuilds \in Nat
  /\ \A i \in Id : i \in Nat /\ i > 0
BY CatalogAssumption, FS_CardinalityType DEF Id

LEMMA SetsFinite ==
  ASSUME NEW S \in SUBSET Path
  PROVE  IsFiniteSet(S) /\ Cardinality(S) \in 0..Cardinality(Path)
BY Constants, FS_Subset, FS_CardinalityType

LEMMA InvParts ==
  ASSUME CatalogInv
  PROVE  /\ Typed /\ Numbered /\ IndexKept /\ TextsBelong
         /\ \A k \in Scanner : RunsKnow(k)
         /\ Listed \subseteq Path
         /\ \A p \in Path : /\ files[p] \in [id : Id \cup {0}, last : 0..scans]
                            /\ p \notin Listed => files[p].id = 0
         /\ \A p \in Listed : files[p].id \in Id /\ files[p].id > 0 /\ files[p].last \in 1..scans
         /\ \A k \in Scanner : scan[k] \in Run
         /\ \A w \in Writer : write[w] \in Writing
<1>1. \A p \in Path : /\ files[p] \in [id : Id \cup {0}, last : 0..scans]
                     /\ p \notin Listed => files[p].id = 0
  BY DEF CatalogInv, Typed, Listed, NoRow
<1>2. Cardinality(Listed) \in 0..Cardinality(Path) /\ Listed \subseteq Path
  BY SetsFinite DEF Listed
<1>3. \A p \in Listed : files[p].id \in Id /\ files[p].id > 0 /\ files[p].last \in 1..scans
  BY <1>2, Constants DEF CatalogInv, Numbered, Id
<1>. QED BY <1>1, <1>2, <1>3 DEF CatalogInv, Typed

-----------------------------------------------------------------------------
(* What a step leaves alone.                                                  *)

\* The records that were listed still are, under their ids.
RecordsStay == \A q \in Listed : q \in Listed' /\ files'[q].id = files[q].id

LEMMA RecordsUntouched ==
  ASSUME CatalogInv, UNCHANGED <<files, nextId>>, scans' \in Nat, scans' >= scans
  PROVE  RecordsStay /\ Numbered' /\ Listed' = Listed
<1>1. Listed' = Listed
  BY DEF Listed
<1>2. scans \in Nat
  BY InvParts DEF Typed
<1>. QED BY <1>1, <1>2, InvParts DEF RecordsStay, Numbered

\* A writer that has not committed anything now had not before.
Quiet == ~torn /\ \A w \in Writer : write[w].at # "committed"

LEMMA IndexStays ==
  ASSUME CatalogInv, RecordsStay, UNCHANGED <<fts, state, built, rebuilds>>,
         Quiet' => Quiet /\ UNCHANGED content
  PROVE  IndexKept'
<1>. SUFFICES ASSUME built = rebuilds
              PROVE  /\ \A e \in fts : /\ e.path \in Listed' /\ e.id = files'[e.path].id
                                       /\ Quiet' => e.text = content'[e.id]
                     /\ state # NoPrint => state[1] = Cardinality(Indexed')
                     /\ state = NoPrint => fts = {}
  BY DEF IndexKept, Quiet
<1>1. /\ \A e \in fts : /\ e.path \in Listed /\ e.id = files[e.path].id
                        /\ Quiet => e.text = content[e.id]
      /\ state # NoPrint => state[1] = Cardinality(Indexed)
      /\ state = NoPrint => fts = {}
  BY InvParts DEF IndexKept, Quiet
<1>2. Indexed' = Indexed
  BY DEF Indexed
<1>. QED BY <1>1, <1>2 DEF RecordsStay

LEMMA TextsStay ==
  ASSUME CatalogInv, RecordsStay, UNCHANGED <<content, rebuilds>>,
         \A w \in Writer : write'[w].at \in {"extracted", "checked"} =>
           /\ write[w].at \in {"extracted", "checked"}
           /\ write'[w].id = write[w].id /\ write'[w].text = write[w].text
  PROVE  TextsBelong'
<1>. SUFFICES ASSUME rebuilds = 0
              PROVE  /\ \A w \in Writer : write'[w].at \in {"extracted", "checked"} =>
                          /\ write'[w].text.of \in Listed'
                          /\ write'[w].id = files'[write'[w].text.of].id
                     /\ \A i \in Id : content[i] # NoText =>
                          content[i].of \in Listed' /\ i = files'[content[i].of].id
  BY DEF TextsBelong
<1>1. \A w \in Writer : write[w].at \in {"extracted", "checked"} =>
        write[w].text.of \in Listed /\ write[w].id = files[write[w].text.of].id
  BY InvParts DEF TextsBelong
<1>2. \A i \in Id : content[i] # NoText =>
        content[i].of \in Listed /\ i = files[content[i].of].id
  BY InvParts DEF TextsBelong
<1>. QED BY <1>1, <1>2 DEF RecordsStay

\* Only searches, writers and the index move on.
LEMMA RunsUntouched ==
  ASSUME CatalogInv, UNCHANGED <<scan, gone, disk>>
  PROVE  \A k \in Scanner : RunsKnow(k)'
BY InvParts DEF RunsKnow

\* A step of a discovery run, which leaves the index and the writers alone.
LEMMA OneRun ==
  ASSUME CatalogInv, NEW k \in Scanner, NEW q \in Run', NEW g \in SUBSET Path,
         scan' = [scan EXCEPT ![k] = q], gone' = [gone EXCEPT ![k] = g],
         UNCHANGED <<disk, changes, index, search, write, texts, rebuilds>>,
         table' \in BOOLEAN, scans' \in Nat, scans' >= scans,
         files' \in [Path -> [id : Id \cup {0}, last : 0..scans']],
         RecordsStay, Numbered', RunsKnow(k)'
  PROVE  CatalogInv'
<1>1. scans \in Nat /\ Run \subseteq Run'
  BY InvParts DEF Typed, Run
<1>2. Typed'
  BY <1>1, InvParts DEF Typed, index, Text, Writing
<1>3. IndexKept' /\ TextsBelong'
  BY IndexStays, TextsStay DEF index, Quiet
<1>4. ASSUME NEW j \in Scanner
      PROVE  RunsKnow(j)'
  <2>1. CASE j = k
    BY <2>1
  <2>2. CASE j # k
    <3>1. scan'[j] = scan[j] /\ gone'[j] = gone[j]
      BY <2>2, InvParts DEF Typed
    <3>. QED BY <3>1, InvParts DEF RunsKnow
  <2>. QED BY <2>1, <2>2
<1>. QED BY <1>2, <1>3, <1>4 DEF CatalogInv

\* A step of searches, writers and the index.
LEMMA NoRun ==
  ASSUME CatalogInv, UNCHANGED <<disk, changes, db, scan, scans, gone, rebuilds>>,
         texts' \in Nat, content' \in [Id -> Text'],
         fts' \subseteq [id : Id, path : Path, text : Text'],
         search' \in [Searcher -> {"idle", "stale"}], write' \in [Writer -> Writing'],
         built' \in 0..rebuilds, torn' \in BOOLEAN, IndexKept', TextsBelong'
  PROVE  CatalogInv'
<1>1. Typed'
  BY InvParts DEF Typed, db, Run
<1>2. Numbered' /\ \A k \in Scanner : RunsKnow(k)'
  BY RecordsUntouched, RunsUntouched, InvParts DEF db, Typed
<1>. QED BY <1>1, <1>2 DEF CatalogInv

-----------------------------------------------------------------------------
(* Discovery.                                                                 *)

LEMMA StartScanKeeps ==
  ASSUME CatalogInv, NEW k \in Scanner, StartScan(k)
  PROVE  CatalogInv'
<1>. DEFINE q == [at |-> "scan", ts |-> scans + 1, todo |-> Path, seen |-> {}]
<1>1. scans \in Nat /\ scans' = scans + 1 /\ disk \subseteq Path
  BY InvParts DEF StartScan, Typed
<1>2. q \in Run' /\ Path \ disk \in SUBSET Path
  BY <1>1 DEF Run
<1>3. scan' = [scan EXCEPT ![k] = q] /\ gone' = [gone EXCEPT ![k] = Path \ disk]
  BY DEF StartScan
<1>4. RecordsStay /\ Numbered'
  BY <1>1, RecordsUntouched DEF StartScan
<1>5. scan'[k] = q /\ gone'[k] = Path \ disk /\ disk' = disk
  BY <1>3, InvParts DEF StartScan, Typed
<1>6. RunsKnow(k)'
  BY <1>1, <1>5 DEF RunsKnow
<1>7. files' \in [Path -> [id : Id \cup {0}, last : 0..scans']]
  BY <1>1, InvParts DEF StartScan, Typed
<1>8. scans' \in Nat /\ scans' >= scans /\ table' \in BOOLEAN
  BY <1>1 DEF StartScan
<1>9. UNCHANGED <<disk, changes, index, search, write, texts, rebuilds>>
  BY DEF StartScan
<1>. HIDE DEF q
<1>. QED BY <1>2, <1>3, <1>4, <1>6, <1>7, <1>8, <1>9, OneRun

\* A run that ends has nothing left to know.
LEMMA RunEnds ==
  ASSUME CatalogInv, NEW k \in Scanner,
         scan' = [scan EXCEPT ![k] = Resting], gone' = [gone EXCEPT ![k] = {}],
         UNCHANGED <<disk, changes, db, index, scans, search, write, texts, rebuilds>>
  PROVE  CatalogInv'
<1>1. scans \in Nat /\ scans' = scans /\ scans' >= scans
  BY InvParts DEF Typed
<1>2. Resting \in Run' /\ {} \in SUBSET Path
  BY <1>1 DEF Run, Resting
<1>3. RecordsStay /\ Numbered'
  BY <1>1, RecordsUntouched DEF db
<1>4. RunsKnow(k)'
  <2>1. scan'[k] = Resting
    BY InvParts DEF Typed
  <2>. QED BY <2>1 DEF RunsKnow, Resting
<1>5. files' \in [Path -> [id : Id \cup {0}, last : 0..scans']] /\ table' \in BOOLEAN
  BY <1>1, InvParts DEF db, Typed
<1>. QED BY <1>1, <1>2, <1>3, <1>4, <1>5, OneRun

LEMMA ReconcileKeeps ==
  ASSUME CatalogInv, NEW k \in Scanner, Reconcile(k)
  PROVE  CatalogInv'
BY RunEnds DEF Reconcile

LEMMA ScanRaisesKeeps ==
  ASSUME CatalogInv, NEW k \in Scanner, ScanRaises(k)
  PROVE  CatalogInv'
BY RunEnds DEF ScanRaises

LEMMA HitBoundKeeps ==
  ASSUME CatalogInv, NEW k \in Scanner, HitBound(k)
  PROVE  CatalogInv'
<1>. DEFINE q == [scan[k] EXCEPT !.at = "bounded", !.todo = {}]
<1>1. scans \in Nat /\ scans' = scans /\ scans' >= scans
  BY InvParts DEF HitBound, Typed
<1>2. scan[k] \in Run /\ scan[k].at = "scan" /\ gone[k] \in SUBSET Path
  BY InvParts DEF HitBound, Typed
<1>3. q \in Run' /\ q.at = "bounded" /\ q.ts = scan[k].ts
  BY <1>1, <1>2 DEF Run
<1>4. scan' = [scan EXCEPT ![k] = q]
  BY DEF HitBound
<1>5. gone' = [gone EXCEPT ![k] = gone[k]] /\ gone' = gone
  BY InvParts DEF HitBound, Typed
<1>6. RecordsStay /\ Numbered'
  BY <1>1, RecordsUntouched DEF HitBound, db
<1>7. RunsKnow(k)'
  <2>1. scan'[k] = q /\ disk' = disk
    BY <1>4, InvParts DEF HitBound, Typed
  <2>2. Path \ disk \subseteq gone[k] /\ scan[k].ts > 0
    BY <1>2, InvParts DEF RunsKnow
  <2>. HIDE DEF q
  <2>. QED BY <2>1, <2>2, <1>3, <1>5 DEF RunsKnow
<1>8. files' \in [Path -> [id : Id \cup {0}, last : 0..scans']] /\ table' \in BOOLEAN
  BY <1>1, InvParts DEF HitBound, db, Typed
<1>9. UNCHANGED <<disk, changes, index, search, write, texts, rebuilds>>
  BY DEF HitBound
<1>. HIDE DEF q
<1>. QED BY <1>1, <1>2, <1>3, <1>4, <1>5, <1>6, <1>7, <1>8, <1>9, OneRun

\* A known record keeps its id, a new one gets the next.
LEMMA UpsertRecords ==
  ASSUME CatalogInv, NEW p \in Path, NEW ts \in 1..scans, Upsert(p, ts), scans' = scans
  PROVE  /\ RecordsStay /\ Numbered'
         /\ files' \in [Path -> [id : Id \cup {0}, last : 0..scans]]
<1>1. /\ scans \in Nat /\ files \in [Path -> [id : Id \cup {0}, last : 0..scans]]
      /\ nextId = Cardinality(Listed) + 1
      /\ \A q \in Listed : files[q].id \in 1..(nextId - 1) /\ files[q].last \in 1..scans
      /\ \A q, r \in Listed : files[q].id = files[r].id => q = r
      /\ Listed \subseteq Path
  BY InvParts DEF Typed, Numbered
<1>2. IsFiniteSet(Listed) /\ Cardinality(Listed) \in Nat
  BY <1>1, SetsFinite, Constants
<1>3. CASE p \in Listed
  <2>1. PICK r : r = [files[p] EXCEPT !.last = ts]
    OBVIOUS
  <2>2. r \in [id : Id \cup {0}, last : 0..scans] /\ r.id = files[p].id /\ r.last = ts
    BY <2>1, <1>1
  <2>3. files' = [files EXCEPT ![p] = r] /\ nextId' = nextId
    BY <1>3, <2>1 DEF Upsert
  <2>4. files' \in [Path -> [id : Id \cup {0}, last : 0..scans]]
    BY <2>2, <2>3, <1>1
  <2>5. files'[p] = r /\ \A q \in Path \ {p} : files'[q] = files[q]
    BY <2>3, <1>1
  <2>6. r # NoRow
    BY <2>2 DEF NoRow
  <2>7. Listed' = Listed
    BY <2>5, <2>6, <1>3 DEF Listed
  <2>8. \A q \in Listed : files'[q].id = files[q].id /\ files'[q].last \in 1..scans
    BY <2>5, <2>2, <1>1
  <2>. QED BY <2>3, <2>4, <2>7, <2>8, <1>1 DEF RecordsStay, Numbered
<1>4. CASE p \notin Listed
  <2>1. PICK r : r = [id |-> nextId, last |-> ts]
    OBVIOUS
  <2>2. files' = [files EXCEPT ![p] = r] /\ nextId' = nextId + 1 /\ r.id = nextId /\ r.last = ts
    BY <1>4, <2>1 DEF Upsert
  <2>3. IsFiniteSet(Listed \cup {p}) /\ Cardinality(Listed \cup {p}) = Cardinality(Listed) + 1
    BY <1>2, <1>4, FS_AddElement
  <2>4. Cardinality(Listed \cup {p}) <= Cardinality(Path) /\ Cardinality(Path) \in Nat
    BY <1>1, SetsFinite, Constants
  <2>5. nextId \in Id
    BY <2>3, <2>4, <1>1, <1>2 DEF Id
  <2>6. files' \in [Path -> [id : Id \cup {0}, last : 0..scans]]
    BY <2>1, <2>2, <2>5, <1>1
  <2>7. files'[p] = r /\ \A q \in Path \ {p} : files'[q] = files[q]
    BY <2>2, <1>1
  <2>8. r # NoRow
    BY <2>2 DEF NoRow
  <2>9. Listed' = Listed \cup {p}
    BY <2>7, <2>8 DEF Listed
  <2>10. nextId' = Cardinality(Listed') + 1
    BY <2>2, <2>3, <2>9, <1>1
  <2>11. \A q \in Listed : q # p /\ files'[q] = files[q]
    BY <2>7, <1>1, <1>4
  <2>12. \A q \in Listed' : files'[q].id \in 1..(nextId' - 1) /\ files'[q].last \in 1..scans
    BY <2>2, <2>7, <2>9, <2>11, <1>1, <1>2
  <2>13. \A q, s \in Listed' : files'[q].id = files'[s].id => q = s
    BY <2>2, <2>7, <2>9, <2>11, <1>1, <1>2
  <2>. QED BY <2>6, <2>9, <2>10, <2>11, <2>12, <2>13 DEF RecordsStay, Numbered
<1>. QED BY <1>3, <1>4

LEMMA LookKeeps ==
  ASSUME CatalogInv, NEW k \in Scanner, NEW p \in Path, Look(k, p)
  PROVE  CatalogInv'
<1>1. /\ scan[k] \in Run /\ scan[k].at = "scan" /\ p \in scan[k].todo
      /\ UNCHANGED <<disk, changes, table, index, scans, gone, search, write, texts, rebuilds>>
  BY InvParts DEF Look
<1>2. /\ scans \in Nat /\ scans' \in Nat /\ scans' >= scans /\ table' \in BOOLEAN
      /\ gone[k] \in SUBSET Path /\ scan \in [Scanner -> Run]
      /\ gone' = [gone EXCEPT ![k] = gone[k]]
  BY <1>1, InvParts DEF Typed
<1>3. /\ Path \ disk \subseteq gone[k] /\ scan[k].ts > 0
      /\ Path \ (scan[k].todo \cup scan[k].seen) \subseteq gone[k]
  BY <1>1, InvParts DEF RunsKnow
<1>4. scan[k].ts \in 1..scans
  BY <1>1, <1>2, <1>3 DEF Run
<1>5. CASE p \notin disk
  <2>1. PICK q : q = [scan[k] EXCEPT !.todo = scan[k].todo \ {p}]
    OBVIOUS
  <2>2. /\ q \in Run' /\ q.at = "scan" /\ q.ts = scan[k].ts
        /\ q.todo = scan[k].todo \ {p} /\ q.seen = scan[k].seen
    BY <2>1, <1>1 DEF Run
  <2>3. scan' = [scan EXCEPT ![k] = q] /\ UNCHANGED <<files, nextId>>
    BY <2>1, <1>5 DEF Look
  <2>4. RecordsStay /\ Numbered'
    BY <2>3, <1>2, RecordsUntouched
  <2>5. files' \in [Path -> [id : Id \cup {0}, last : 0..scans']]
    BY <2>3, <1>1, InvParts DEF Typed
  <2>6. scan'[k] = q /\ gone'[k] = gone[k] /\ disk' = disk /\ p \in gone[k]
    BY <2>3, <1>1, <1>2, <1>3, <1>5
  <2>7. RunsKnow(k)'
    BY <2>2, <2>6, <1>3 DEF RunsKnow
  <2>. QED BY <2>2, <2>3, <2>4, <2>5, <2>7, <1>1, <1>2, OneRun
<1>6. CASE p \in disk
  <2>1. PICK q : q = [scan[k] EXCEPT !.todo = scan[k].todo \ {p}, !.seen = scan[k].seen \cup {p}]
    OBVIOUS
  <2>2. /\ q \in Run' /\ q.at = "scan" /\ q.ts = scan[k].ts
        /\ q.todo = scan[k].todo \ {p} /\ q.seen = scan[k].seen \cup {p}
    BY <2>1, <1>1 DEF Run
  <2>3. scan' = [scan EXCEPT ![k] = q] /\ Upsert(p, scan[k].ts)
    BY <2>1, <1>6 DEF Look
  <2>4. /\ RecordsStay /\ Numbered'
        /\ files' \in [Path -> [id : Id \cup {0}, last : 0..scans']]
    BY <2>3, <1>1, <1>4, UpsertRecords
  <2>5. scan'[k] = q /\ gone'[k] = gone[k] /\ disk' = disk
    BY <2>3, <1>1, <1>2
  <2>6. RunsKnow(k)'
    BY <2>2, <2>5, <1>3 DEF RunsKnow
  <2>. QED BY <2>2, <2>3, <2>4, <2>6, <1>1, <1>2, OneRun
<1>. QED BY <1>5, <1>6

\* The table is dropped with its numbers, and what was indexed or extracted
\* before is no longer promised anything.
LEMMA DropFilesKeeps ==
  ASSUME CatalogInv, DropFiles
  PROVE  CatalogInv'
<1>1. /\ rebuilds \in Nat /\ rebuilds' = rebuilds + 1 /\ rebuilds' \in 0..MaxRebuilds
      /\ built' = built /\ built \in 0..rebuilds /\ scans \in Nat
      /\ UNCHANGED <<disk, changes, index, callers>>
  BY Constants, InvParts DEF DropFiles, Typed, index
<1>2. \A p \in Path : files'[p] = NoRow
  BY DEF DropFiles
<1>3. Listed' = {}
  BY <1>2 DEF Listed
<1>4. files' \in [Path -> [id : Id \cup {0}, last : 0..scans]]
  BY <1>1 DEF DropFiles, NoRow
<1>5. Typed'
  <2>1. built' \in 0..rebuilds'
    BY <1>1
  <2>2. table' \in BOOLEAN
    BY Zenon DEF DropFiles
  <2>. QED BY <1>1, <1>4, <2>1, <2>2, InvParts DEF Typed, index, callers, Text, Run, Writing
<1>6. Numbered'
  BY <1>3, FS_EmptySet DEF Numbered, DropFiles
<1>7. IndexKept' /\ TextsBelong'
  BY <1>1 DEF IndexKept, TextsBelong
<1>8. \A k \in Scanner : RunsKnow(k)'
  BY <1>1, RunsUntouched DEF callers
<1>. QED BY <1>5, <1>6, <1>7, <1>8 DEF CatalogInv

LEMMA CreateFilesKeeps ==
  ASSUME CatalogInv, CreateFiles
  PROVE  CatalogInv'
<1>1. /\ table' \in BOOLEAN
      /\ UNCHANGED <<disk, changes, files, nextId, index, callers, rebuilds>>
  BY DEF CreateFiles
<1>2. scans' \in Nat /\ scans' >= scans
  BY <1>1, InvParts DEF callers, Typed
<1>3. Typed'
  BY <1>1, InvParts DEF Typed, index, callers, Text, Run, Writing
<1>4. RecordsStay /\ Numbered'
  BY <1>1, <1>2, RecordsUntouched
<1>5. IndexKept' /\ TextsBelong'
  BY <1>1, <1>4, IndexStays, TextsStay DEF index, callers, Quiet
<1>6. \A k \in Scanner : RunsKnow(k)'
  BY <1>1, RunsUntouched DEF callers
<1>. QED BY <1>3, <1>4, <1>5, <1>6 DEF CatalogInv

LEMMA ChangeSourceKeeps ==
  ASSUME CatalogInv, NEW p \in Path, ChangeSource(p)
  PROVE  CatalogInv'
<1>1. /\ changes' = changes + 1 /\ changes < MaxChanges
      /\ disk' = IF p \in disk THEN disk \ {p} ELSE disk \cup {p}
      /\ gone' = [k \in Scanner |-> IF scan[k] # Resting /\ p \in disk
                                   THEN gone[k] \cup {p} ELSE gone[k]]
      /\ UNCHANGED <<db, index, scan, scans, search, write, texts, rebuilds>>
  BY DEF ChangeSource
<1>2. scans' \in Nat /\ scans' >= scans
  BY <1>1, InvParts DEF Typed
<1>3. \A k \in Scanner : gone[k] \in SUBSET Path /\ gone'[k] \in SUBSET Path
  BY <1>1, InvParts DEF Typed
<1>4. Typed'
  <2>1. gone' \in [Scanner -> SUBSET Path]
    BY <1>1, <1>3
  <2>2. changes' \in 0..MaxChanges /\ disk' \subseteq Path
    BY <1>1, Constants, InvParts DEF Typed
  <2>. QED BY <2>1, <2>2, <1>1, InvParts DEF Typed, db, index, Text, Run, Writing
<1>5. RecordsStay /\ Numbered'
  BY <1>1, <1>2, RecordsUntouched DEF db
<1>6. IndexKept' /\ TextsBelong'
  BY <1>1, <1>5, IndexStays, TextsStay DEF index, Quiet
<1>7. ASSUME NEW k \in Scanner
      PROVE  RunsKnow(k)'
  <2>1. /\ scan[k].at # "idle" => Path \ disk \subseteq gone[k] /\ scan[k].ts > 0
        /\ scan[k].at = "scan" => Path \ (scan[k].todo \cup scan[k].seen) \subseteq gone[k]
    BY InvParts DEF RunsKnow
  <2>2. scan' = scan /\ gone[k] \subseteq gone'[k]
    BY <1>1
  <2>3. scan[k].at # "idle" => scan[k] # Resting
    BY DEF Resting
  <2>4. scan[k].at # "idle" => Path \ disk' \subseteq gone'[k]
    BY <1>1, <2>1, <2>2, <2>3
  <2>. QED BY <2>1, <2>2, <2>4 DEF RunsKnow
<1>. QED BY <1>4, <1>5, <1>6, <1>7 DEF CatalogInv

-----------------------------------------------------------------------------
(* The index and its writers.                                                 *)

\* What the transaction that rebuilds the index puts there.
LEMMA IndexRebuilt ==
  ASSUME CatalogInv, RebuildIndex, UNCHANGED <<db, rebuilds, texts>>
  PROVE  /\ IndexKept' /\ content' = content
         /\ fts' \subseteq [id : Id, path : Path, text : Text]
         /\ built' \in 0..rebuilds /\ torn' \in BOOLEAN
<1>1. /\ fts' = Fresh /\ state' = Fingerprint /\ built' = rebuilds /\ torn' = FALSE
      /\ content' = content /\ files' = files /\ rebuilds' = rebuilds
  BY DEF RebuildIndex, db
<1>2. content \in [Id -> Text] /\ rebuilds \in Nat
  BY Constants, InvParts DEF Typed
<1>3. /\ Listed' = Listed /\ Listed \subseteq Path
      /\ \A p \in Listed : files[p].id \in Id /\ content[files[p].id] \in Text
  BY <1>1, <1>2, InvParts DEF Listed
<1>4. \A e \in fts' : /\ e.path \in Listed /\ e.id = files[e.path].id
                      /\ e.text = content[e.id]
  BY <1>1 DEF Fresh
<1>5. Indexed' = Listed
  <2>1. ASSUME NEW p \in Listed
        PROVE  \E e \in fts' : e.path = p
    <3>1. [id |-> files[p].id, path |-> p, text |-> content[files[p].id]] \in fts'
      BY <1>1 DEF Fresh
    <3>. QED BY <3>1
  <2>. QED BY <2>1, <1>4 DEF Indexed
<1>6. state' # NoPrint /\ state'[1] = Cardinality(Listed)
  BY <1>1 DEF Fingerprint, NoPrint
<1>7. IndexKept'
  BY <1>1, <1>3, <1>4, <1>5, <1>6 DEF IndexKept
<1>8. fts' \subseteq [id : Id, path : Path, text : Text]
  BY <1>1, <1>3 DEF Fresh
<1>9. built' \in 0..rebuilds
  BY <1>1, <1>2
<1>10. torn' \in BOOLEAN
  BY <1>1, Zenon
<1>. QED BY <1>1, <1>7, <1>8, <1>9, <1>10

LEMMA EnsureCurrentKeeps ==
  ASSUME CatalogInv, NEW q \in Searcher, EnsureCurrent(q)
  PROVE  CatalogInv'
<1>1. /\ search' = [search EXCEPT ![q] = "stale"]
      /\ UNCHANGED <<disk, changes, db, index, scan, scans, gone, write, texts, rebuilds>>
  BY DEF EnsureCurrent
<1>2. search' \in [Searcher -> {"idle", "stale"}]
  BY <1>1, InvParts DEF Typed
<1>3. RecordsStay
  BY <1>1, RecordsUntouched, InvParts DEF db, Typed
<1>4. IndexKept' /\ TextsBelong'
  BY <1>1, <1>3, IndexStays, TextsStay DEF index, Quiet
<1>. QED BY <1>1, <1>2, <1>4, NoRun, InvParts DEF index, Typed, Text, Writing

LEMMA RebuildStaleKeeps ==
  ASSUME CatalogInv, NEW q \in Searcher, RebuildStale(q)
  PROVE  CatalogInv'
<1>1. /\ search' = [search EXCEPT ![q] = "idle"]
      /\ UNCHANGED <<disk, changes, db, scan, scans, gone, write, texts, rebuilds>>
      /\ IF table THEN RebuildIndex ELSE UNCHANGED index
  BY DEF RebuildStale
<1>2. search' \in [Searcher -> {"idle", "stale"}]
  BY <1>1, InvParts DEF Typed
<1>3. RecordsStay
  BY <1>1, RecordsUntouched, InvParts DEF db, Typed
<1>4. /\ IndexKept' /\ content' = content
      /\ fts' \subseteq [id : Id, path : Path, text : Text]
      /\ built' \in 0..rebuilds /\ torn' \in BOOLEAN
  <2>1. CASE table
    BY <2>1, <1>1, IndexRebuilt
  <2>2. CASE ~table
    BY <2>2, <1>1, <1>3, IndexStays, InvParts DEF index, Quiet, Typed
  <2>. QED BY <2>1, <2>2
<1>5. TextsBelong'
  BY <1>1, <1>3, <1>4, TextsStay
<1>. QED BY <1>1, <1>2, <1>4, <1>5, NoRun, InvParts DEF Typed, Text, Writing

\* A step of one writer: the rows stay, and what it holds has its type.
LEMMA OneWriter ==
  ASSUME CatalogInv, NEW w \in Writer, NEW r \in Writing', texts' \in Nat, texts' >= texts,
         write' = [write EXCEPT ![w] = r], content' \in [Id -> Text'],
         fts' \subseteq [id : Id, path : Path, text : Text],
         built' \in 0..rebuilds, torn' \in BOOLEAN, IndexKept', TextsBelong',
         UNCHANGED <<disk, changes, db, scan, scans, gone, search, rebuilds>>
  PROVE  CatalogInv'
<1>1. texts \in Nat /\ Text \subseteq Text' /\ Writing \subseteq Writing'
  BY InvParts DEF Typed, Text, Writing
<1>2. write' \in [Writer -> Writing']
  BY <1>1, InvParts DEF Typed
<1>3. fts' \subseteq [id : Id, path : Path, text : Text']
  BY <1>1
<1>4. search' \in [Searcher -> {"idle", "stale"}]
  BY InvParts DEF Typed
<1>. QED BY <1>2, <1>3, <1>4, NoRun

LEMMA Untold == NoText \in [of : Path \cup {<<>>}, n : {0}] /\ NoWrite.at = "idle"
BY DEF NoText, NoWrite

LEMMA ExtractKeeps ==
  ASSUME CatalogInv, NEW w \in Writer, NEW p \in Path, Extract(w, p)
  PROVE  CatalogInv'
<1>1. PICK r : r = [at |-> "extracted", id |-> files[p].id, text |-> [of |-> p, n |-> texts + 1]]
  OBVIOUS
<1>2. /\ p \in Listed /\ texts' = texts + 1 /\ write' = [write EXCEPT ![w] = r]
      /\ UNCHANGED <<disk, changes, db, index, scan, scans, gone, search, rebuilds>>
      /\ write[w].at = "idle"
  BY <1>1, Untold DEF Extract
<1>3. /\ texts \in Nat /\ texts' \in Nat /\ texts' >= texts
      /\ content \in [Id -> Text] /\ Text \subseteq Text'
  BY <1>2, InvParts DEF Typed, Text
<1>4. r \in Writing' /\ r.at = "extracted" /\ r.id = files[p].id /\ r.text.of = p
  BY <1>1, <1>2, <1>3, InvParts DEF Writing, Text
<1>5. write'[w] = r /\ \A v \in Writer \ {w} : write'[v] = write[v]
  BY <1>2, InvParts DEF Typed
<1>6. RecordsStay /\ Listed' = Listed /\ files' = files
  BY <1>2, RecordsUntouched, InvParts DEF db, Typed
<1>7. IndexKept'
  <2>1. Quiet' => Quiet /\ UNCHANGED content
    BY <1>2, <1>4, <1>5 DEF Quiet, index
  <2>. QED BY <2>1, <1>2, <1>6, IndexStays DEF index
<1>8. TextsBelong'
  <2>. SUFFICES ASSUME rebuilds = 0
                PROVE  /\ \A v \in Writer : write'[v].at \in {"extracted", "checked"} =>
                            /\ write'[v].text.of \in Listed
                            /\ write'[v].id = files[write'[v].text.of].id
                       /\ \A i \in Id : content[i] # NoText =>
                            content[i].of \in Listed /\ i = files[content[i].of].id
    BY <1>2, <1>6 DEF TextsBelong, index
  <2>1. /\ \A v \in Writer : write[v].at \in {"extracted", "checked"} =>
             /\ write[v].text.of \in Listed
             /\ write[v].id = files[write[v].text.of].id
        /\ \A i \in Id : content[i] # NoText =>
             content[i].of \in Listed /\ i = files[content[i].of].id
    BY InvParts DEF TextsBelong
  <2>. QED BY <2>1, <1>2, <1>4, <1>5
<1>9. content' \in [Id -> Text'] /\ fts' \subseteq [id : Id, path : Path, text : Text]
      /\ built' \in 0..rebuilds /\ torn' \in BOOLEAN
  BY <1>2, <1>3, InvParts DEF index, Typed
<1>. QED BY <1>2, <1>3, <1>4, <1>7, <1>8, <1>9, OneWriter

LEMMA CheckRecordKeeps ==
  ASSUME CatalogInv, NEW w \in Writer, CheckRecord(w)
  PROVE  CatalogInv'
<1>1. PICK r : r = IF \E p \in Listed : files[p].id = write[w].id
                   THEN [write[w] EXCEPT !.at = "checked"] ELSE NoWrite
  OBVIOUS
<1>2. /\ write[w].at = "extracted" /\ write' = [write EXCEPT ![w] = r]
      /\ UNCHANGED <<disk, changes, db, index, scan, scans, gone, search, texts, rebuilds>>
  BY <1>1 DEF CheckRecord
<1>3. texts \in Nat /\ texts' = texts /\ Text' = Text /\ Writing' = Writing /\ texts' >= texts
  BY <1>2, InvParts DEF Typed, Text, Writing
<1>4. write[w] \in Writing /\ NoWrite \in Writing
  BY <1>3, InvParts DEF NoWrite, NoText, Writing, Text
<1>5. /\ r \in Writing' /\ r.at \in {"idle", "checked"}
      /\ r.at = "checked" => r.id = write[w].id /\ r.text = write[w].text
  BY <1>1, <1>3, <1>4, Untold DEF Writing
<1>6. write'[w] = r /\ \A v \in Writer \ {w} : write'[v] = write[v]
  BY <1>2, InvParts DEF Typed
<1>7. RecordsStay
  BY <1>2, RecordsUntouched, InvParts DEF db, Typed
<1>8. IndexKept'
  <2>1. Quiet' => Quiet /\ UNCHANGED content
    BY <1>2, <1>5, <1>6 DEF Quiet, index
  <2>. QED BY <2>1, <1>2, <1>7, IndexStays DEF index
<1>9. TextsBelong'
  BY <1>2, <1>5, <1>6, <1>7, TextsStay DEF index
<1>10. content' \in [Id -> Text'] /\ fts' \subseteq [id : Id, path : Path, text : Text]
       /\ built' \in 0..rebuilds /\ torn' \in BOOLEAN
  BY <1>2, <1>3, InvParts DEF index, Typed
<1>. QED BY <1>2, <1>3, <1>5, <1>8, <1>9, <1>10, OneWriter

\* A writer that has committed a text t under the id i is about to index anew.
LEMMA TextCommitted ==
  ASSUME CatalogInv, NEW w \in Writer, NEW i, NEW t \in Text,
         content' = [content EXCEPT ![i] = t],
         write' = [write EXCEPT ![w] = [NoWrite EXCEPT !.at = "committed"]],
         rebuilds = 0 /\ t # NoText => t.of \in Listed /\ i = files[t.of].id,
         UNCHANGED <<disk, changes, db, fts, state, built, torn, scan, scans, gone, search,
                     texts, rebuilds>>
  PROVE  CatalogInv'
<1>1. PICK r : r = [NoWrite EXCEPT !.at = "committed"]
  OBVIOUS
<1>2. texts \in Nat /\ Text' = Text /\ Writing' = Writing /\ texts' = texts /\ texts' >= texts
  BY InvParts DEF Typed, Text, Writing
<1>3. r \in Writing' /\ r.at = "committed"
  BY <1>1, <1>2 DEF NoWrite, NoText, Writing, Text
<1>4. write'[w] = r /\ \A v \in Writer \ {w} : write'[v] = write[v]
  BY <1>1, InvParts DEF Typed
<1>5. RecordsStay /\ Listed' = Listed /\ files' = files
  BY RecordsUntouched, InvParts DEF db, Typed
<1>6. content \in [Id -> Text] /\ content' \in [Id -> Text]
  BY InvParts DEF Typed
<1>7. IndexKept'
  <2>1. ~Quiet'
    BY <1>3, <1>4 DEF Quiet
  <2>. QED BY <2>1, <1>5, IndexStays
<1>8. TextsBelong'
  <2>. SUFFICES ASSUME rebuilds = 0
                PROVE  /\ \A v \in Writer : write'[v].at \in {"extracted", "checked"} =>
                            /\ write'[v].text.of \in Listed
                            /\ write'[v].id = files[write'[v].text.of].id
                       /\ \A j \in Id : content'[j] # NoText =>
                            content'[j].of \in Listed /\ j = files[content'[j].of].id
    BY <1>5 DEF TextsBelong
  <2>1. /\ \A v \in Writer : write[v].at \in {"extracted", "checked"} =>
             /\ write[v].text.of \in Listed
             /\ write[v].id = files[write[v].text.of].id
        /\ \A j \in Id : content[j] # NoText =>
             content[j].of \in Listed /\ j = files[content[j].of].id
    BY InvParts DEF TextsBelong
  <2>2. \A j \in Id : content'[j] = IF j = i THEN t ELSE content[j]
    BY <1>6
  <2>. QED BY <2>1, <2>2, <1>3, <1>4
<1>9. fts' \subseteq [id : Id, path : Path, text : Text] /\ built' \in 0..rebuilds /\ torn' \in BOOLEAN
  BY InvParts DEF Typed
<1>. QED BY <1>1, <1>2, <1>3, <1>6, <1>7, <1>8, <1>9, OneWriter

LEMMA InsertContentKeeps ==
  ASSUME CatalogInv, NEW w \in Writer, InsertContent(w)
  PROVE  CatalogInv'
<1>1. write[w].at = "checked" /\ write[w].text \in Text
  BY InvParts DEF InsertContent, Writing
<1>2. rebuilds = 0 => write[w].text.of \in Listed /\ write[w].id = files[write[w].text.of].id
  BY <1>1, InvParts DEF TextsBelong
<1>. QED BY <1>1, <1>2, TextCommitted DEF InsertContent

LEMMA RemoveContentKeeps ==
  ASSUME CatalogInv, NEW w \in Writer, NEW i \in Id, RemoveContent(w, i)
  PROVE  CatalogInv'
<1>1. NoText \in Text
  BY InvParts DEF Typed, NoText, Text
<1>. QED BY <1>1, TextCommitted DEF RemoveContent

\* A writer that has committed goes idle, after a rebuild or with torn set.
LEMMA WriterDone ==
  ASSUME CatalogInv, NEW w \in Writer, write[w].at = "committed",
         write' = [write EXCEPT ![w] = NoWrite],
         \/ table /\ RebuildIndex
         \/ torn' = TRUE /\ UNCHANGED <<content, fts, state, built>>,
         UNCHANGED <<disk, changes, db, scan, scans, gone, search, texts, rebuilds>>
  PROVE  CatalogInv'
<1>1. texts \in Nat /\ Text' = Text /\ Writing' = Writing /\ texts' = texts /\ texts' >= texts
  BY InvParts DEF Typed, Text, Writing
<1>2. NoWrite \in Writing' /\ NoWrite.at = "idle"
  BY <1>1 DEF NoWrite, NoText, Writing, Text
<1>3. write'[w] = NoWrite /\ \A v \in Writer \ {w} : write'[v] = write[v]
  BY InvParts DEF Typed
<1>4. RecordsStay
  BY RecordsUntouched, InvParts DEF db, Typed
<1>5. /\ IndexKept' /\ content' = content
      /\ fts' \subseteq [id : Id, path : Path, text : Text]
      /\ built' \in 0..rebuilds /\ torn' \in BOOLEAN
  <2>1. CASE RebuildIndex
    BY <2>1, IndexRebuilt
  <2>2. CASE torn' = TRUE /\ UNCHANGED <<content, fts, state, built>>
    <3>1. ~Quiet'
      BY <2>2 DEF Quiet
    <3>. QED BY <3>1, <2>2, <1>4, IndexStays, InvParts DEF Typed
  <2>. QED BY <2>1, <2>2
<1>6. TextsBelong'
  BY <1>2, <1>3, <1>4, <1>5, TextsStay
<1>7. content' \in [Id -> Text']
  BY <1>1, <1>5, InvParts DEF Typed
<1>. QED BY <1>1, <1>2, <1>5, <1>6, <1>7, OneWriter

LEMMA RebuildWrittenKeeps ==
  ASSUME CatalogInv, NEW w \in Writer, RebuildWritten(w)
  PROVE  CatalogInv'
BY WriterDone DEF RebuildWritten

LEMMA WriterDiesKeeps ==
  ASSUME CatalogInv, NEW w \in Writer, WriterDies(w)
  PROVE  CatalogInv'
BY WriterDone DEF WriterDies

-----------------------------------------------------------------------------
(* The theorems.                                                              *)

LEMMA InitCatalogInv == Init => CatalogInv
<1>. SUFFICES ASSUME Init PROVE CatalogInv
  OBVIOUS
<1>1. \A p \in Path : files[p] = NoRow
  BY DEF Init
<1>2. Listed = {}
  BY <1>1 DEF Listed
<1>3. Typed
  <2>1. /\ files \in [Path -> [id : Id \cup {0}, last : 0..scans]]
        /\ content \in [Id -> Text] /\ fts = {}
    BY DEF Init, NoRow, NoText, Text
  <2>2. scan \in [Scanner -> Run] /\ write \in [Writer -> Writing]
    BY DEF Init, Resting, NoWrite, NoText, Run, Writing, Text
  <2>3. table \in BOOLEAN /\ torn \in BOOLEAN
    BY Zenon DEF Init
  <2>4. changes \in 0..MaxChanges /\ rebuilds \in 0..MaxRebuilds /\ built \in 0..rebuilds
    BY Constants DEF Init
  <2>5. /\ disk \subseteq Path /\ scans \in Nat /\ texts \in Nat
        /\ search \in [Searcher -> {"idle", "stale"}] /\ gone \in [Scanner -> SUBSET Path]
    BY DEF Init
  <2>. QED BY <2>1, <2>2, <2>3, <2>4, <2>5 DEF Typed
<1>4. Numbered
  BY <1>2, FS_EmptySet DEF Init, Numbered
<1>5. IndexKept
  BY DEF Init, IndexKept
<1>6. TextsBelong
  <2>1. \A w \in Writer : write[w].at = "idle"
    BY Untold DEF Init
  <2>2. \A i \in Id : content[i] = NoText
    BY DEF Init
  <2>. QED BY <2>1, <2>2 DEF TextsBelong
<1>7. \A k \in Scanner : RunsKnow(k)
  BY DEF Init, Resting, RunsKnow
<1>. QED BY <1>3, <1>4, <1>5, <1>6, <1>7 DEF CatalogInv

\* A step that changes nothing.
LEMMA StutterKeeps ==
  ASSUME CatalogInv, UNCHANGED vars
  PROVE  CatalogInv'
<1>1. UNCHANGED <<disk, changes, db, index, scan, scans, gone, search, write, texts, rebuilds>>
  BY DEF vars, callers
<1>2. RecordsStay
  BY <1>1, RecordsUntouched, InvParts DEF db, Typed
<1>3. IndexKept' /\ TextsBelong'
  BY <1>1, <1>2, IndexStays, TextsStay DEF index, Quiet
<1>. QED BY <1>1, <1>3, NoRun, InvParts DEF index, Typed, Text, Writing

LEMMA NextCatalogInv == CatalogInv /\ [Next]_vars => CatalogInv'
<1>. SUFFICES ASSUME CatalogInv, [Next]_vars PROVE CatalogInv'
  OBVIOUS
<1>1. CASE \E k \in Scanner : \/ StartScan(k) \/ HitBound(k) \/ Reconcile(k) \/ ScanRaises(k)
                             \/ \E p \in Path : Look(k, p)
  BY <1>1, StartScanKeeps, HitBoundKeeps, ReconcileKeeps, ScanRaisesKeeps, LookKeeps
<1>2. CASE DropFiles \/ CreateFiles
  BY <1>2, DropFilesKeeps, CreateFilesKeeps
<1>3. CASE \E q \in Searcher : EnsureCurrent(q) \/ RebuildStale(q)
  BY <1>3, EnsureCurrentKeeps, RebuildStaleKeeps
<1>4. CASE \E w \in Writer : \/ \E p \in Path : Extract(w, p)
                            \/ CheckRecord(w) \/ InsertContent(w) \/ RebuildWritten(w)
                            \/ (\E i \in Id : RemoveContent(w, i)) \/ WriterDies(w)
  BY <1>4, ExtractKeeps, CheckRecordKeeps, InsertContentKeeps, RebuildWrittenKeeps,
     RemoveContentKeeps, WriterDiesKeeps
<1>5. CASE \E p \in Path : ChangeSource(p)
  BY <1>5, ChangeSourceKeeps
<1>6. CASE UNCHANGED vars
  BY <1>6, StutterKeeps
<1>. QED BY <1>1, <1>2, <1>3, <1>4, <1>5, <1>6 DEF Next

\* The catalog, its index and the runs of discovery keep their invariant in
\* every interleaving of catalog.py, corpus.py, indexer.py and search.py.
THEOREM CatalogInvariance == Spec => []CatalogInv
BY InitCatalogInv, NextCatalogInv, PTL DEF Spec

LEMMA InvHits == CatalogInv => HitsRight
<1>. SUFFICES ASSUME CatalogInv, built = rebuilds, NEW e \in fts
              PROVE  Joined(e) = {e.path}
  BY DEF HitsRight
<1>1. e.path \in Listed /\ e.id = files[e.path].id
  BY InvParts DEF IndexKept
<1>2. e.path \in Path /\ e.id # 0
  BY <1>1, InvParts
<1>3. \A p \in Path : files[p].id = e.id => p \in Listed
  BY <1>2, InvParts
<1>4. \A p \in Listed : files[p].id = e.id => p = e.path
  BY <1>1, InvParts DEF Numbered
<1>. QED BY <1>1, <1>2, <1>3, <1>4 DEF Joined

\* For any number of files and of processes, a search whose catalog was not
\* rebuilt since its index was joins every entry with the record of its own file.
THEOREM HitsAreRight == Spec => []HitsRight
BY CatalogInvariance, InvHits, PTL

LEMMA InvTrusted == CatalogInv => TrustedIndexIsFresh
<1>. SUFFICES ASSUME CatalogInv, state = Fingerprint, built = rebuilds, Quiet
              PROVE  fts = Fresh
  BY DEF TrustedIndexIsFresh, Quiet
<1>1. /\ \A e \in fts : /\ e.path \in Listed /\ e.id = files[e.path].id
                        /\ e.text = content[e.id]
      /\ state # NoPrint => state[1] = Cardinality(Indexed)
  BY InvParts DEF IndexKept, Quiet
<1>2. state # NoPrint /\ state[1] = Cardinality(Listed)
  BY DEF Fingerprint, NoPrint
<1>3. Indexed \subseteq Listed
  BY <1>1 DEF Indexed
<1>4. IsFiniteSet(Listed)
  BY InvParts, SetsFinite
<1>5. Indexed = Listed
  BY <1>1, <1>2, <1>3, <1>4, FS_Subset
<1>6. \A e \in fts : e = [id |-> files[e.path].id, path |-> e.path, text |-> content[files[e.path].id]]
  BY <1>1, InvParts DEF Typed
<1>7. fts \subseteq Fresh
  BY <1>1, <1>6 DEF Fresh
<1>8. ASSUME NEW p \in Listed
      PROVE  [id |-> files[p].id, path |-> p, text |-> content[files[p].id]] \in fts
  <2>1. PICK e \in fts : e.path = p
    BY <1>5 DEF Indexed
  <2>. QED BY <2>1, <1>6
<1>9. Fresh \subseteq fts
  BY <1>8 DEF Fresh
<1>. QED BY <1>7, <1>9

\* The stored fingerprint is a sound test of staleness: where the model's
\* exceptions do not hold, ensure_current never trusts an outdated index.
THEOREM TrustedIsFresh == Spec => []TrustedIndexIsFresh
BY CatalogInvariance, InvTrusted, PTL

\* No text is kept under the id of another file's record before a rebuild.
LEMMA InvTexts == CatalogInv =>
  (rebuilds = 0 => \A p \in Listed : LET t == content[files[p].id] IN t # NoText => t.of = p)
<1>. SUFFICES ASSUME CatalogInv, rebuilds = 0, NEW p \in Listed, content[files[p].id] # NoText
              PROVE  content[files[p].id].of = p
  OBVIOUS
<1>1. files[p].id \in Id
  BY InvParts
<1>2. /\ content[files[p].id].of \in Listed
      /\ files[p].id = files[content[files[p].id].of].id
  BY <1>1, InvParts DEF TextsBelong
<1>. QED BY <1>2, InvParts DEF Numbered

LEMMA InvTypeOK == CatalogInv => TypeOK
<1>. SUFFICES ASSUME CatalogInv PROVE TypeOK
  OBVIOUS
<1>1. disk \subseteq Path /\ changes \in 0..MaxChanges /\ table \in BOOLEAN /\ torn \in BOOLEAN
  BY InvParts DEF Typed
<1>2. \A p \in Listed : files[p].id \in Id /\ files[p].last \in 1..scans
  BY InvParts
<1>3. nextId \in 1..(Cardinality(Path) + 1)
  <2>1. Cardinality(Listed) \in 0..Cardinality(Path)
    BY SetsFinite, InvParts
  <2>. QED BY <2>1, Constants, InvParts DEF Numbered
<1>4. \A i \in Id : content[i].n \in 0..texts
  BY InvParts DEF Typed, Text
<1>5. \A e \in fts : e.id \in Id /\ e.path \in Path
  BY InvParts DEF Typed
<1>6. ASSUME NEW k \in Scanner
      PROVE  /\ scan[k].at \in {"idle", "scan", "bounded"} /\ scan[k].ts \in 0..scans
             /\ scan[k].todo \cup scan[k].seen \cup gone[k] \subseteq Path
  <2>1. scan[k] \in Run /\ gone[k] \in SUBSET Path
    BY InvParts DEF Typed
  <2>. QED BY <2>1 DEF Run
<1>7. \A q \in Searcher : search[q] \in {"idle", "stale"}
  BY InvParts DEF Typed
<1>8. \A w \in Writer : write[w].at \in {"idle", "extracted", "checked", "committed"}
  BY InvParts DEF Writing
<1>9. rebuilds \in 0..MaxRebuilds /\ built \in 0..rebuilds
  BY InvParts DEF Typed
<1>. QED BY <1>1, <1>2, <1>3, <1>4, <1>5, <1>6, <1>7, <1>8, <1>9 DEF TypeOK

\* The types hold, and a text extracted before other runs changed the table
\* still lands under the id of its own file's record.
THEOREM TextsBelongToTheirFile == Spec => []ContentBelongs
<1>1. CatalogInv => ContentBelongs
  BY InvTexts, InvTypeOK DEF ContentBelongs
<1>. QED BY <1>1, CatalogInvariance, PTL

LEMMA StepStale ==
  ASSUME CatalogInv, NEW k \in Scanner, scan[k].at = "scan", scan[k].todo = {}
  PROVE  StalePaths(k) \subseteq gone[k]
<1>1. Path \ (scan[k].todo \cup scan[k].seen) \subseteq gone[k]
  BY InvParts DEF RunsKnow
<1>. QED BY <1>1, InvParts DEF StalePaths

\* For any number of discovery runs at once, what a complete run returns as
\* stale_paths was absent from the source at some moment of that run.
THEOREM StaleWasAbsent == Spec => StaleWasGone
<1>1. CatalogInv /\ [Next]_vars =>
        [\A k \in Scanner :
           scan[k].at = "scan" /\ scan[k].todo = {} /\ scan'[k] = Resting =>
             StalePaths(k) \subseteq gone[k]]_vars
  BY StepStale
<1>. QED BY <1>1, CatalogInvariance, PTL DEF Spec, StaleWasGone

=============================================================================
