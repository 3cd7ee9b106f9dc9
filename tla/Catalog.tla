------------------------------ MODULE Catalog ------------------------------
(***************************************************************************)
(* The metadata catalog, the discovery runs that fill it and the full-text  *)
(* index over it: Catalog (catalog.py), RcloneTelDriveSource.discover       *)
(* (corpus.py), Indexer.scan (indexer.py) and UnifiedSearch (search.py).    *)
(*                                                                          *)
(* All of them share catalog.db.  Python's sqlite3 opens a transaction only *)
(* for INSERT, UPDATE and DELETE: SELECTs stand alone and DROP commits at   *)
(* once.  Of a record the model keeps its path, which determines the other  *)
(* searchable columns, its id and its last_seen_at.                         *)
(***************************************************************************)
EXTENDS Integers, FiniteSets, FiniteSetsExt

CONSTANTS
  Path,        \* the files of one source
  Scanner,     \* processes that run discover or scan
  Searcher,    \* processes that search
  Writer,      \* processes that call index_content and remove_content
  MaxScans,    \* bound on discovery runs
  MaxTexts,    \* bound on the texts extracted from files
  MaxChanges,  \* bound on files that appear or vanish
  MaxRebuilds  \* bound on calls of Catalog.rebuild

ASSUME CatalogAssumption ==
  /\ IsFiniteSet(Path)
  /\ {MaxScans, MaxTexts, MaxChanges, MaxRebuilds} \subseteq Nat

VARIABLES
  disk,     \* the files that the source holds
  changes,  \* changes of the source so far
  table,    \* whether the files table exists
  files,    \* the files table: path -> row
  nextId,   \* AUTOINCREMENT; DROP TABLE resets it
  content,  \* r2_search_content: record id -> text
  fts,      \* r2_search_fts: record id, path and text
  state,    \* r2_search_state: the fingerprint that fts was built from
  scan,     \* each discovery run: its timestamp, what is left, what it saw
  scans,    \* discovery runs begun so far; also the clock of the runs
  search,   \* where each search is
  write,    \* where each content writer is, and its record id and text
  texts,    \* texts extracted so far
  rebuilds, \* calls of Catalog.rebuild so far
  built,    \* history: rebuilds when fts was built
  torn,     \* history: a writer died after its commit, and fts was not built since
  gone      \* history: the paths that each run could have found absent

db      == <<table, files, nextId>>
index   == <<content, fts, state, built, torn>>
callers == <<scan, scans, gone, search, write, texts>>
vars    == <<disk, changes, db, index, callers, rebuilds>>

NoRow  == [id |-> 0, last |-> 0]
NoText == [of |-> <<>>, n |-> 0]
Resting == [at |-> "idle", ts |-> 0, todo |-> {}, seen |-> {}]
NoPrint == <<>>
NoWrite == [at |-> "idle", id |-> 0, text |-> NoText]

Id       == 1..Cardinality(Path)
Listed   == {p \in Path : files[p] # NoRow}

Init ==
  /\ disk \in SUBSET Path
  /\ changes = 0
  /\ table = TRUE
  /\ files = [p \in Path |-> NoRow]
  /\ nextId = 1
  /\ content = [i \in Id |-> NoText]
  /\ fts = {}
  /\ state = NoPrint
  /\ scan = [k \in Scanner |-> Resting]
  /\ scans = 0
  /\ search = [q \in Searcher |-> "idle"]
  /\ write = [w \in Writer |-> NoWrite]
  /\ texts = 0
  /\ rebuilds = 0
  /\ built = 0
  /\ torn = FALSE
  /\ gone = [k \in Scanner |-> {}]

Held == {i \in Id : content[i] # NoText}

\* Mutant of Fingerprint: the number of records is left out.
FingerprintTimes ==
  <<Max({files[p].last : p \in Listed} \cup {0}), Cardinality(Held)>>

\* UnifiedSearch._fingerprint.  MAX(modified_at) is left out, which leaves
\* fewer differences to be noticed.
Fingerprint ==
  <<Cardinality(Listed), Max({files[p].last : p \in Listed} \cup {0}), Cardinality(Held)>>

\* What a rebuild of the index would put there now.
Fresh == {[id |-> files[p].id, path |-> p, text |-> content[files[p].id]] : p \in Listed}

-----------------------------------------------------------------------------
(* Discovery: discover and scan *)

\* Each command opens the catalog first, and that creates a missing table.
StartScan(k) ==
  /\ scan[k] = Resting
  /\ scans < MaxScans
  /\ scans' = scans + 1
  /\ scan' = [scan EXCEPT ![k] = [at |-> "scan", ts |-> scans + 1, todo |-> Path, seen |-> {}]]
  /\ gone' = [gone EXCEPT ![k] = Path \ disk]
  /\ table' = TRUE
  /\ UNCHANGED <<disk, changes, files, nextId, index, search, write, texts, rebuilds>>

\* Mutant of Upsert: INSERT OR REPLACE, which gives the record a new id.
UpsertReplacing(p, ts) ==
  /\ files' = [files EXCEPT ![p] = [id |-> nextId, last |-> ts]]
  /\ nextId' = nextId + 1

\* Catalog.upsert: a known record keeps its id (first_seen_at is left out).
Upsert(p, ts) ==
  IF p \in Listed
  THEN /\ files' = [files EXCEPT ![p].last = ts]
       /\ UNCHANGED nextId
  ELSE /\ files' = [files EXCEPT ![p] = [id |-> nextId, last |-> ts]]
       /\ nextId' = nextId + 1

\* Mutant of Look: a path is counted as seen only when its record is new.
LookNewOnly(k, p) ==
  LET s == scan[k] IN
  /\ s.at = "scan" /\ p \in s.todo
  /\ IF p \notin disk
     THEN /\ scan' = [scan EXCEPT ![k].todo = @ \ {p}]
          /\ UNCHANGED <<files, nextId>>
     ELSE /\ table
          /\ Upsert(p, s.ts)
          /\ scan' = [scan EXCEPT ![k].todo = @ \ {p},
                                  ![k].seen = IF p \in Listed THEN @ ELSE @ \cup {p}]
  /\ UNCHANGED <<disk, changes, table, index, scans, gone, search, write, texts, rebuilds>>

\* The listing goes through the files in an order of its own; one that exists
\* now is upserted.
Look(k, p) ==
  LET s == scan[k] IN
  /\ s.at = "scan" /\ p \in s.todo
  /\ IF p \notin disk
     THEN /\ scan' = [scan EXCEPT ![k].todo = @ \ {p}]
          /\ UNCHANGED <<files, nextId>>
     ELSE /\ table
          /\ Upsert(p, s.ts)
          /\ scan' = [scan EXCEPT ![k].todo = @ \ {p}, ![k].seen = @ \cup {p}]
  /\ UNCHANGED <<disk, changes, table, index, scans, gone, search, write, texts, rebuilds>>

\* Another file beyond max_entries, which may be any positive number: the run
\* is bounded, and still reconciles.
HitBound(k) ==
  LET s == scan[k] IN
  /\ s.at = "scan"
  /\ s.seen # {} /\ s.todo \cap disk # {}
  /\ scan' = [scan EXCEPT ![k].at = "bounded", ![k].todo = {}]
  /\ UNCHANGED <<disk, changes, db, index, scans, gone, search, write, texts, rebuilds>>

\* reconcile_source: the records that the run has not seen.
StalePaths(k) == Listed \ scan[k].seen

\* The result with its stale_paths is returned; nothing is deleted.
Reconcile(k) ==
  /\ scan[k].at \in {"scan", "bounded"} /\ scan[k].todo = {}
  /\ table
  /\ scan' = [scan EXCEPT ![k] = Resting]
  /\ gone' = [gone EXCEPT ![k] = {}]
  /\ UNCHANGED <<disk, changes, db, index, scans, search, write, texts, rebuilds>>

\* rclone fails, or a statement meets no table: the run ends without a result.
ScanRaises(k) ==
  /\ scan[k] # Resting
  /\ scan' = [scan EXCEPT ![k] = Resting]
  /\ gone' = [gone EXCEPT ![k] = {}]
  /\ UNCHANGED <<disk, changes, db, index, scans, search, write, texts, rebuilds>>

\* Catalog.rebuild drops the table, and a later statement creates it again.
DropFiles ==
  /\ rebuilds < MaxRebuilds
  /\ table
  /\ rebuilds' = rebuilds + 1
  /\ table' = FALSE
  /\ files' = [p \in Path |-> NoRow]
  /\ nextId' = 1
  /\ UNCHANGED <<disk, changes, index, callers>>

CreateFiles ==
  /\ ~table
  /\ table' = TRUE
  /\ UNCHANGED <<disk, changes, files, nextId, index, callers, rebuilds>>

-----------------------------------------------------------------------------
(* UnifiedSearch *)

\* One transaction: DELETE takes the write lock before anything is read.
RebuildIndex ==
  /\ table
  /\ fts' = Fresh
  /\ state' = Fingerprint
  /\ built' = rebuilds
  /\ torn' = FALSE
  /\ UNCHANGED content

\* ensure_current: the fingerprint against the stored one, which changes only
\* to the fingerprint of its moment; the rebuild is a later transaction.
EnsureCurrent(q) ==
  /\ search[q] = "idle"
  /\ table /\ state # Fingerprint
  /\ search' = [search EXCEPT ![q] = "stale"]
  /\ UNCHANGED <<disk, changes, db, index, scan, scans, gone, write, texts, rebuilds>>

\* A missing table ends the search with an error.
RebuildStale(q) ==
  /\ search[q] = "stale"
  /\ IF table THEN RebuildIndex ELSE UNCHANGED index
  /\ search' = [search EXCEPT ![q] = "idle"]
  /\ UNCHANGED <<disk, changes, db, scan, scans, gone, write, texts, rebuilds>>

-----------------------------------------------------------------------------
(* index_content and remove_content *)

\* A caller looks a record up, extracts the text of its file and passes the
\* record's id on.
Extract(w, p) ==
  /\ write[w] = NoWrite
  /\ texts < MaxTexts
  /\ p \in Listed
  /\ texts' = texts + 1
  /\ write' = [write EXCEPT ![w] = [at |-> "extracted", id |-> files[p].id,
                                    text |-> [of |-> p, n |-> texts + 1]]]
  /\ UNCHANGED <<disk, changes, db, index, scan, scans, gone, search, rebuilds>>

\* index_content asks whether the id is there; if not it raises.
CheckRecord(w) ==
  /\ write[w].at = "extracted"
  /\ write' = [write EXCEPT ![w] = IF \E p \in Listed : files[p].id = write[w].id
                                   THEN [write[w] EXCEPT !.at = "checked"] ELSE NoWrite]
  /\ UNCHANGED <<disk, changes, db, index, scan, scans, gone, search, texts, rebuilds>>

\* Mutant of InsertContent: the id is the one of the last record inserted.
InsertContentLast(w) ==
  /\ write[w].at = "checked"
  /\ content' = [content EXCEPT ![nextId - 1] = write[w].text]
  /\ write' = [write EXCEPT ![w] = [NoWrite EXCEPT !.at = "committed"]]
  /\ UNCHANGED <<disk, changes, db, fts, state, built, torn, scan, scans, gone, search,
                 texts, rebuilds>>

InsertContent(w) ==
  /\ write[w].at = "checked"
  /\ content' = [content EXCEPT ![write[w].id] = write[w].text]
  /\ write' = [write EXCEPT ![w] = [NoWrite EXCEPT !.at = "committed"]]
  /\ UNCHANGED <<disk, changes, db, fts, state, built, torn, scan, scans, gone, search,
                 texts, rebuilds>>

RemoveContent(w, i) ==
  /\ write[w] = NoWrite
  /\ i \in Held
  /\ content' = [content EXCEPT ![i] = NoText]
  /\ write' = [write EXCEPT ![w] = [NoWrite EXCEPT !.at = "committed"]]
  /\ UNCHANGED <<disk, changes, db, fts, state, built, torn, scan, scans, gone, search,
                 texts, rebuilds>>

\* self.rebuild() after the commit; without the table it raises.
RebuildWritten(w) ==
  /\ write[w].at = "committed"
  /\ IF table THEN RebuildIndex ELSE torn' = TRUE /\ UNCHANGED <<content, fts, state, built>>
  /\ write' = [write EXCEPT ![w] = NoWrite]
  /\ UNCHANGED <<disk, changes, db, scan, scans, gone, search, texts, rebuilds>>

WriterDies(w) ==
  /\ write[w].at = "committed"
  /\ torn' = TRUE
  /\ write' = [write EXCEPT ![w] = NoWrite]
  /\ UNCHANGED <<disk, changes, db, content, fts, state, built, scan, scans, gone, search,
                 texts, rebuilds>>

-----------------------------------------------------------------------------

\* A file appears at the source, or vanishes.
ChangeSource(p) ==
  /\ changes < MaxChanges
  /\ changes' = changes + 1
  /\ disk' = IF p \in disk THEN disk \ {p} ELSE disk \cup {p}
  /\ gone' = [k \in Scanner |-> IF scan[k] # Resting /\ p \in disk
                               THEN gone[k] \cup {p} ELSE gone[k]]
  /\ UNCHANGED <<db, index, scan, scans, search, write, texts, rebuilds>>

Next ==
  \/ \E k \in Scanner : \/ StartScan(k) \/ HitBound(k) \/ Reconcile(k) \/ ScanRaises(k)
                        \/ \E p \in Path : Look(k, p)
  \/ DropFiles \/ CreateFiles
  \/ \E q \in Searcher : EnsureCurrent(q) \/ RebuildStale(q)
  \/ \E w \in Writer : \/ \E p \in Path : Extract(w, p)
                       \/ CheckRecord(w) \/ InsertContent(w) \/ RebuildWritten(w)
                       \/ (\E i \in Id : RemoveContent(w, i)) \/ WriterDies(w)
  \/ \E p \in Path : ChangeSource(p)

Spec == Init /\ [][Next]_vars

-----------------------------------------------------------------------------

\* Every variable has its type.
\* A conjunct of ContentBelongs.
TypeOK ==
  /\ disk \subseteq Path /\ changes \in 0..MaxChanges
  /\ table \in BOOLEAN
  /\ \A p \in Listed : files[p].id \in Id /\ files[p].last \in 1..scans
  /\ nextId \in 1..(Cardinality(Path) + 1)
  /\ \A i \in Id : content[i].n \in 0..texts
  /\ \A e \in fts : e.id \in Id /\ e.path \in Path
  /\ \A k \in Scanner : /\ scan[k].at \in {"idle", "scan", "bounded"} /\ scan[k].ts \in 0..scans
                        /\ scan[k].todo \cup scan[k].seen \cup gone[k] \subseteq Path
  /\ \A q \in Searcher : search[q] \in {"idle", "stale"}
  /\ \A w \in Writer : write[w].at \in {"idle", "extracted", "checked", "committed"}
  /\ rebuilds \in 0..MaxRebuilds
  /\ built \in 0..rebuilds /\ torn \in BOOLEAN

\* The rows of files that the query joins with an entry of the index.
Joined(e) == {p \in Path : files[p].id = e.id}

\* Unless the catalog was rebuilt after the index, an entry of the index is joined
\* with the record of the very file that was indexed and no other, whatever
\* discovery does between ensure_current and the query.
HitsRight ==
  built = rebuilds => \A e \in fts : Joined(e) = {e.path}

\* When the fingerprint matches, so that a search trusts the index, the index is
\* what a rebuild would make it: no run of discovery, however interrupted, and
\* no content writer gets past it.  What does get past them is a
\* catalog rebuilt since, and a content writer that is between its commit and
\* its rebuild or ended there.
TrustedIndexIsFresh ==
  /\ state = Fingerprint /\ built = rebuilds
  /\ ~torn /\ (\A w \in Writer : write[w].at # "committed")
  => fts = Fresh

\* A path that a complete discovery run reports as stale was absent at some
\* moment of that run, also when other runs add records meanwhile.
StaleWasGone ==
  [][\A k \in Scanner :
       scan[k].at = "scan" /\ scan[k].todo = {} /\ scan'[k] = Resting =>
         StalePaths(k) \subseteq gone[k]]_vars

\* Until the catalog is rebuilt, which numbers the records anew and keeps the
\* texts, the text kept for a record id is that of the record's own file, though
\* it was extracted before other runs changed the table.
ContentBelongs ==
  /\ TypeOK
  /\ rebuilds = 0 =>
       \A p \in Listed : LET t == content[files[p].id] IN t # NoText => t.of = p
=============================================================================
