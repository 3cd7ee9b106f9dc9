----------------------------- MODULE Lifecycle -----------------------------
(***************************************************************************)
(* Quarantine, retention, purge and restore: LifecyclePlanner,              *)
(* LifecycleExecutor and LifecycleStore of teldrive_lab/lifecycle.py, as    *)
(* CLEANUP and RESTORE jobs (r4_adapters.py) and `td lifecycle purge`       *)
(* (cli.py) drive them.                                                     *)
(*                                                                          *)
(* Every command plans first and applies its plan in later steps, file by   *)
(* file; other processes, edits of the sources and time come in between.    *)
(* A file's content is a number, which also stands for its SHA-256 digest.  *)
(* A transfer is one step here: Transfer.tla opens it.                      *)
(***************************************************************************)
EXTENDS Integers, Functions

CONSTANTS
  Source,     \* the source files
  Root,       \* the quarantine roots in use
  Targets,    \* the pairs of a source and a root that CLEANUP jobs name
  NameOf,     \* the base name of each source
  Cleaner,    \* processes that run CLEANUP jobs
  Purger,     \* operators running `td lifecycle purge --apply`
  Restorer,   \* processes that run RESTORE jobs
  Retention,  \* effective_retention_seconds, in units of time
  MaxEdits,   \* bound on edits of the sources
  MaxCrashes  \* bound on deaths of a cleaner

ASSUME LifecycleAssumption ==
  /\ Targets \subseteq Source \X Root
  /\ Retention \in Nat /\ MaxEdits \in Nat /\ MaxCrashes \in Nat

Names == {NameOf[s] : s \in Source}
Slot  == Root \X Names              \* the quarantine paths

None    == -1                       \* no file
Content == Nat

VARIABLES
  content,   \* the source files, which no lifecycle command changes
  copy,      \* the files at the quarantine paths
  restored,  \* the files in the restore directory, by base name
  record,    \* the lifecycle table: source -> row
  clean,     \* each cleaner's job and how far it is
  purge,     \* each operator's purge plan: the paths still to remove
  restore,   \* each restorer's job
  crashes,   \* deaths of cleaners so far
  age,       \* history: time since the copy at a path was planned
  reused,    \* history: the paths that were purged once
  orphan     \* history: how the copy at a path came to have no record

files   == <<content, copy, restored>>
history == <<age, reused, orphan>>
vars    == <<files, record, clean, purge, restore, crashes, history>>

NoRecord == [path |-> <<>>, sha |-> None, due |-> 0, locked |-> FALSE]
NoJob    == [at |-> "idle", src |-> <<>>, path |-> <<>>, sha |-> None, due |-> 0]
NoItem   == [at |-> "idle", path |-> <<>>, name |-> <<>>, sha |-> None]

Recorded(s) == record[s] # NoRecord
PathFor(s, r) == <<r, NameOf[s]>>

Init ==
  /\ content = [s \in Source |-> 0]
  /\ copy = [q \in Slot |-> None]
  /\ restored = [n \in Names |-> None]
  /\ record = [s \in Source |-> NoRecord]
  /\ clean = [k \in Cleaner |-> NoJob]
  /\ purge = [o \in Purger |-> {}]
  /\ restore = [t \in Restorer |-> NoItem]
  /\ crashes = 0
  /\ age = [q \in Slot |-> 0]
  /\ reused = {}
  /\ orphan = [q \in Slot |-> "no"]

-----------------------------------------------------------------------------
(* CLEANUP jobs: quarantine_plan, then transfer and record *)

\* quarantine_plan hashes the source and fixes purge_after now.  A missing
\* source or a file already at the destination blocks the plan, and the job
\* fails without effect.
PlanQuarantine(k, s, r) ==
  /\ <<s, r>> \in Targets
  /\ clean[k].at = "idle"
  /\ copy[PathFor(s, r)] = None
  /\ clean' = [clean EXCEPT ![k] = [at |-> "planned", src |-> s, path |-> PathFor(s, r),
                                    sha |-> content[s], due |-> Retention]]
  /\ UNCHANGED <<files, record, purge, restore, crashes, history>>

\* The transfer copies what the source holds now.  If a file has appeared at
\* the destination it fails, and the job with it.
QuarantineTransfer(k) ==
  LET c == clean[k] IN
  /\ c.at = "planned"
  /\ IF copy[c.path] = None
     THEN /\ copy' = [copy EXCEPT ![c.path] = content[c.src]]
          /\ clean' = [clean EXCEPT ![k].at = "copied"]
          /\ age' = [age EXCEPT ![c.path] = Retention - c.due]
     ELSE /\ clean' = [clean EXCEPT ![k] = NoJob]
          /\ UNCHANGED <<copy, age>>
  /\ UNCHANGED <<content, restored, record, purge, restore, crashes, reused, orphan>>

\* store.put: an upsert by source that also clears the lock.
Put(c) == record' = [record EXCEPT ![c.src] =
  [path |-> c.path, sha |-> c.sha, due |-> c.due, locked |-> FALSE]]

\* The row of the copy.  Its path is UNIQUE: if another source's row has it,
\* IntegrityError leaves the copy without a row.
QuarantineRecord(k) ==
  LET c == clean[k]
      taken == \E s \in Source \ {c.src} : record[s].path = c.path
  IN
  /\ c.at = "copied"
  /\ IF taken
     THEN /\ orphan' = [orphan EXCEPT ![c.path] = "unique"]
          /\ UNCHANGED record
     ELSE /\ Put(c)
          /\ orphan' = [q \in Slot |-> IF q = c.path THEN "no"
                                       ELSE IF q = record[c.src].path THEN "moved"
                                       ELSE orphan[q]]
  /\ clean' = [clean EXCEPT ![k] = NoJob]
  /\ UNCHANGED <<files, purge, restore, crashes, age, reused>>

\* A cleaner dies.  Its job will be planned afresh, and blocked by the copy.
Crash(k) ==
  /\ crashes < MaxCrashes
  /\ clean[k].at # "idle"
  /\ crashes' = crashes + 1
  /\ orphan' = IF clean[k].at = "copied"
               THEN [orphan EXCEPT ![clean[k].path] = "crash"] ELSE orphan
  /\ clean' = [clean EXCEPT ![k] = NoJob]
  /\ UNCHANGED <<files, record, purge, restore, age, reused>>

-----------------------------------------------------------------------------
(* lock_records, purge_plan and purge *)

SetLocked(s) == record' = [record EXCEPT ![s].locked = TRUE]

\* lock_records, for one source; without a record it raises.
Lock(s) ==
  /\ Recorded(s)
  /\ ~record[s].locked
  /\ SetLocked(s)
  /\ UNCHANGED <<files, clean, purge, restore, crashes, history>>

\* Mutant of Ready: the window is not looked at.
ReadyNow(s) == copy[record[s].path] # None

Ready(s) == copy[record[s].path] # None /\ record[s].due = 0

\* The command refuses to apply a plan with a blocked item: a record whose
\* copy is missing or whose window has not elapsed.
PlanPurge(o) ==
  LET unlocked == {s \in Source : Recorded(s) /\ ~record[s].locked} IN
  /\ purge[o] = {}
  /\ unlocked # {}
  /\ \A s \in unlocked : Ready(s)
  /\ purge' = [purge EXCEPT ![o] = {record[s].path : s \in unlocked}]
  /\ UNCHANGED <<files, record, clean, restore, crashes, history>>

\* path.unlink() for each item, neither the row nor the clock read again.  A
\* path that is gone raises, which ends the command.  The row stays.
PurgeItem(o, q) ==
  /\ q \in purge[o]
  /\ copy' = [copy EXCEPT ![q] = None]
  /\ purge' = [purge EXCEPT ![o] = IF copy[q] = None THEN {} ELSE @ \ {q}]
  /\ reused' = reused \cup {q}
  /\ age' = [age EXCEPT ![q] = 0]
  /\ orphan' = [orphan EXCEPT ![q] = "no"]
  /\ UNCHANGED <<content, restored, record, clean, restore, crashes>>

-----------------------------------------------------------------------------
(* RESTORE jobs *)

\* The job of t ends with SUCCESS, or goes back to be retried.
Answer(t, success) ==
  restore' = [restore EXCEPT ![t] =
                [NoItem EXCEPT !.at = IF success THEN "ok" ELSE "idle"]]

\* restore_plan keeps the record of the quarantine path the job names.  With no such
\* record the plan is empty, and the job succeeds.
PlanRestore(t, q) ==
  /\ restore[t].at # "planned"
  /\ IF \E s \in Source : record[s].path = q
     THEN \E s \in Source :
            /\ record[s].path = q /\ copy[q] # None /\ restored[NameOf[s]] = None
            /\ restore' = [restore EXCEPT ![t] =
                 [at |-> "planned", path |-> q, name |-> NameOf[s], sha |-> record[s].sha]]
     ELSE Answer(t, TRUE)
  /\ UNCHANGED <<files, record, clean, purge, crashes, history>>

\* Mutant of RestoreTransfer: the copy's digest is not compared with the
\* recorded one.
RestoreTransferUnverified(t) ==
  LET i == restore[t] IN
  /\ i.at = "planned"
  /\ IF copy[i.path] # None /\ restored[i.name] = None
     THEN /\ restored' = [restored EXCEPT ![i.name] = copy[i.path]]
          /\ Answer(t, TRUE)
     ELSE Answer(t, FALSE) /\ UNCHANGED restored
  /\ UNCHANGED <<content, copy, record, clean, purge, crashes, history>>

\* Mutant of RestoreTransfer: the quarantine copy is moved, not copied.
RestoreTransferMoving(t) ==
  LET i == restore[t] IN
  /\ i.at = "planned"
  /\ IF copy[i.path] # None /\ restored[i.name] = None
     THEN /\ restored' = [restored EXCEPT ![i.name] = copy[i.path]]
          /\ copy' = [copy EXCEPT ![i.path] = None]
          /\ Answer(t, copy[i.path] = i.sha)
     ELSE Answer(t, FALSE) /\ UNCHANGED <<copy, restored>>
  /\ UNCHANGED <<content, record, clean, purge, crashes, history>>

\* Mutant of RestoreTransfer: the row is dropped, although the copy is kept.
RestoreTransferForgetting(t) ==
  LET i == restore[t] IN
  /\ i.at = "planned"
  /\ IF copy[i.path] # None /\ restored[i.name] = None
     THEN /\ restored' = [restored EXCEPT ![i.name] = copy[i.path]]
          /\ record' = [s \in Source |-> IF record[s].path = i.path THEN NoRecord
                                         ELSE record[s]]
          /\ Answer(t, copy[i.path] = i.sha)
     ELSE Answer(t, FALSE) /\ UNCHANGED <<record, restored>>
  /\ UNCHANGED <<content, copy, clean, purge, crashes, history>>

\* The transfer puts the file in place; only then is its digest compared with
\* the recorded one.
RestoreTransfer(t) ==
  LET i == restore[t] IN
  /\ i.at = "planned"
  /\ IF copy[i.path] # None /\ restored[i.name] = None
     THEN /\ restored' = [restored EXCEPT ![i.name] = copy[i.path]]
          /\ Answer(t, copy[i.path] = i.sha)
     ELSE Answer(t, FALSE) /\ UNCHANGED restored
  /\ UNCHANGED <<content, copy, record, clean, purge, crashes, history>>

-----------------------------------------------------------------------------
(* Sources change, and time passes *)

Edit(s) ==
  /\ FoldFunction(+, 0, content) < MaxEdits
  /\ content' = [content EXCEPT ![s] = @ + 1]
  /\ UNCHANGED <<copy, restored, record, clean, purge, restore, crashes, history>>

\* The operator takes a restored file away.
Collect(n) ==
  /\ restored[n] # None
  /\ restored' = [restored EXCEPT ![n] = None]
  /\ UNCHANGED <<content, copy, record, clean, purge, restore, crashes, history>>

Sooner(due) == IF due > 0 THEN due - 1 ELSE 0

Tick ==
  /\ record' = [s \in Source |-> [record[s] EXCEPT !.due = Sooner(@)]]
  /\ clean' = [k \in Cleaner |-> [clean[k] EXCEPT !.due = Sooner(@)]]
  /\ age' = [q \in Slot |-> IF copy[q] # None /\ age[q] < Retention
                          THEN age[q] + 1 ELSE age[q]]
  /\ UNCHANGED <<files, purge, restore, crashes, reused, orphan>>

Next ==
  \/ \E k \in Cleaner : \/ \E s \in Source, r \in Root : PlanQuarantine(k, s, r)
                        \/ QuarantineTransfer(k) \/ QuarantineRecord(k) \/ Crash(k)
  \/ \E o \in Purger : PlanPurge(o) \/ (\E q \in Slot : PurgeItem(o, q))
  \/ \E t \in Restorer : RestoreTransfer(t) \/ (\E q \in Slot : PlanRestore(t, q))
  \/ \E s \in Source : Lock(s) \/ Edit(s)
  \/ \E n \in Names : Collect(n)
  \/ Tick

Spec == Init /\ [][Next]_vars

-----------------------------------------------------------------------------

\* LifecyclePlanner.reconcile: what it reports of a record.
ReconcileState(s) ==
  IF copy[record[s].path] = None THEN "MISSING_QUARANTINE"
  ELSE IF copy[record[s].path] # record[s].sha THEN "CORRUPT_QUARANTINE"
  ELSE IF record[s].locked THEN "LOCKED_VERIFIED" ELSE "VERIFIED"

\* Every variable has its type.
\* A conjunct of CopiesAccounted.
TypeOK ==
  /\ content \in [Source -> Content]
  /\ copy \in [Slot -> Content \cup {None}]
  /\ restored \in [Names -> Content \cup {None}]
  /\ record \in [Source -> {NoRecord} \cup
       [path: Slot, sha: Content, due: 0..Retention, locked: BOOLEAN]]
  /\ clean \in [Cleaner -> {NoJob} \cup
       [at: {"planned", "copied"}, src: Source, path: Slot, sha: Content, due: 0..Retention]]
  /\ purge \in [Purger -> SUBSET Slot]
  /\ restore \in [Restorer -> {NoItem, [NoItem EXCEPT !.at = "ok"]} \cup
       [at: {"planned"}, path: Slot, name: Names, sha: Content]]
  /\ crashes \in 0..MaxCrashes
  /\ age \in [Slot -> 0..Retention] /\ reused \subseteq Slot
  /\ orphan \in [Slot -> {"no", "unique", "moved", "crash"}]

\* No two records name one path: purging a record's copy never removes the copy
\* another record relies on.
PathsUnshared ==
  \A s, u \in Source : s # u /\ Recorded(s) => record[s].path # record[u].path

\* A quarantined copy that no record names, and that no purge can therefore
\* ever reach, comes from a cleaner that is about to record it or died there,
\* from a path another source's record still claims, or from a source
\* quarantined again elsewhere.
CopiesAccounted ==
  /\ TypeOK /\ PathsUnshared
  /\ \A q \in Slot : copy[q] # None =>
       \/ \E s \in Source : record[s].path = q
       \/ \E k \in Cleaner : clean[k].at = "copied" /\ clean[k].path = q
       \/ orphan[q] # "no"

\* A record whose copy reconcile finds missing lost it to a purge, never to a
\* quarantine or a restore.
MissingOnlyByPurge ==
  \A s \in Source : Recorded(s) /\ ReconcileState(s) = "MISSING_QUARANTINE" =>
    record[s].path \in reused

\* A purge removes a copy inside its retention window only at a path that was
\* purged and filled again: then an old row, or an old plan, speaks for the
\* new copy.
EarlyPurgeOnlyOfReused ==
  [][\A q \in Slot : copy[q] # None /\ copy'[q] = None /\ age[q] < Retention =>
       q \in reused]_vars

\* A RESTORE job that had something to restore succeeds only once the recorded
\* content is in place, whatever became of the copy since the plan.
RestoreVerified ==
  [][\A t \in Restorer : restore[t].at = "planned" /\ restore'[t].at = "ok" =>
       restored'[restore[t].name] = restore[t].sha]_vars
=============================================================================
