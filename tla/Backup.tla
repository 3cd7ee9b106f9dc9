------------------------------- MODULE Backup -------------------------------
(***************************************************************************)
(* Backups, restores and their schedule: BackupPlanner, BackupExecutor,     *)
(* BackupStore and BackupScheduler of teldrive_lab/backups.py, with the     *)
(* BACKUP jobs that r4_adapters.py executes.                                *)
(*                                                                          *)
(* One schedule backs the same items up to the same directory again and     *)
(* again.  Job n is the n-th one enqueued; its steps run in a worker that   *)
(* may die and have the job recovered.  Each execution plans anew, and a    *)
(* plan's digest covers created_at, so each success writes a row of its     *)
(* own.  Contents are numbers, which also stand for their digests; a        *)
(* transfer is one step (Transfer.tla opens it).  The manifest is left out. *)
(***************************************************************************)
EXTENDS Integers, FiniteSets, FiniteSetsExt, Functions

CONSTANTS
  Items,      \* how many sources the schedule names; they are 1..Items, sorted
  Edited,     \* the items that other programs edit
  Runner,     \* processes that call run_due
  Purger,     \* operators that call retention_ready and purge
  Restorer,   \* operators that call restore, all to the same place
  Interval,   \* interval_seconds of the schedule
  Retention,  \* effective_retention_seconds of the policy
  Limit,      \* max_attempts of the jobs
  MaxJobs,    \* bound on the jobs enqueued
  MaxLate,    \* bound on the time one run_due takes
  MaxEdits, MaxCrashes  \* bounds on edits of the sources and deaths of processes

ASSUME BackupAssumption ==
  /\ Items \in Nat \ {0} /\ Edited \subseteq 1..Items /\ Interval \in Nat \ {0} /\ Retention \in Nat
  /\ Limit \in Nat \ {0} /\ MaxJobs \in Nat /\ MaxLate \in Nat
  /\ MaxEdits \in Nat /\ MaxCrashes \in Nat
  /\ IsFiniteSet(Runner)

Item == 1..Items
Job  == 1..MaxJobs
Row  == 1..(MaxJobs + MaxCrashes)    \* a job records again only after a death
None == -1                           \* no file at the destination
Content == Nat

VARIABLES
  content,  \* the sources
  dest,     \* the files in the backup directory
  next,     \* time left until the schedule's next_run_at, cut off at -MaxLate
  runner,   \* where each run_due is, and how long ago it read the clock
  job,      \* state, plan and progress of each job
  row,      \* the backups table, in the order of insertion
  purge,    \* each operator's purge: whose plan, and the items still to remove
  restorer, \* each operator's restore: of which row, where it is, items still to do
  restored, \* the files in the place restored to
  crashes,  \* deaths of processes so far
  advances, \* history: how often next_run_at was advanced
  writer    \* history: the row whose copy is at each destination, -n for one that
            \* job n is still making, 0 for one left behind by a failed attempt

vars == <<content, dest, next, runner, job, row, purge, restorer, restored, crashes, advances, writer>>

\* lost is history: the items of this backup that purges have removed.
NoPlan  == [sha |-> [i \in Item |-> None], due |-> 0, lost |-> {}]
NoRow   == [plan |-> NoPlan, locked |-> FALSE]
NewJob  == [at |-> "queued", attempts |-> 0, left |-> {}, plan |-> NoPlan]
Absent  == [NewJob EXCEPT !.at = "absent"]
NoPurge == [of |-> 0, left |-> {}]
Idle    == [at |-> "idle", late |-> 0]
Resting == [of |-> 0, at |-> "idle", left |-> {}]

\* The next of the items that are left, and what u has left without it.
First(left) == {i \in left : \A k \in left : i <= k}
Without(u, i) == [u EXCEPT !.left = @ \ {i}]

Recorded == {x \in Row : row[x] # NoRow}
Enqueued == {n \in Job : job[n].at # "absent"}

Init ==
  /\ content = [i \in Item |-> 0]
  /\ dest = [i \in Item |-> None]
  /\ next = 0
  /\ runner = [r \in Runner |-> Idle]
  /\ job = [n \in Job |-> Absent]
  /\ row = [x \in Row |-> NoRow]
  /\ purge = [o \in Purger |-> NoPurge]
  /\ restorer = [o \in Restorer |-> Resting]
  /\ restored = [i \in Item |-> None]
  /\ crashes = 0
  /\ advances = 0
  /\ writer = [i \in Item |-> 0]

schedule == <<next, runner, advances>>
storage  == <<dest, writer>>
restores == <<restorer, restored>>

-----------------------------------------------------------------------------
(* BackupScheduler.run_due *)

\* due_schedules, and the clock that this run_due goes on using.  The bound
\* MaxJobs leaves a job for every run_due that has begun.
ReadDue(r) ==
  /\ runner[r] = Idle /\ next <= 0
  /\ Cardinality(Enqueued) + Cardinality({q \in Runner : runner[q].at = "due"}) < MaxJobs
  /\ runner' = [runner EXCEPT ![r].at = "due"]
  /\ UNCHANGED <<content, storage, next, job, row, purge, crashes, advances, restores>>

EnqueueBackup(r) ==
  LET n == Cardinality(Enqueued) + 1 IN
  /\ runner[r].at = "due"
  /\ job' = [job EXCEPT ![n] = NewJob]
  /\ runner' = [runner EXCEPT ![r].at = "enqueued"]
  /\ UNCHANGED <<content, storage, next, row, purge, crashes, advances, restores>>

\* advance_schedule reads next_run_at again and moves it on by an interval, or
\* to an interval after this run_due's own reading of the clock if that is later.
MoveOn(r, step) ==
  /\ next' = Max({next + step, step - runner[r].late})
  /\ advances' = advances + 1
  /\ runner' = [runner EXCEPT ![r] = Idle]
  /\ UNCHANGED <<content, storage, job, row, purge, crashes, restores>>

\* Mutant of Advance: the schedule is moved before the job is enqueued.
AdvanceEarly(r) == runner[r].at = "due" /\ MoveOn(r, Interval)

Advance(r) == runner[r].at = "enqueued" /\ MoveOn(r, Interval)

RunnerDies(r) ==
  /\ runner[r] # Idle
  /\ crashes < MaxCrashes
  /\ crashes' = crashes + 1
  /\ runner' = [runner EXCEPT ![r] = Idle]
  /\ UNCHANGED <<content, storage, next, job, row, purge, advances, restores>>

-----------------------------------------------------------------------------
(* A BACKUP job: plan, transfers, manifest and row, report *)

\* The items whose destination is taken, and those still as the plan saw them.
Taken == {i \in Item : dest[i] # None}
AsPlanned(n) == {i \in Item : content[i] = job[n].plan.sha[i]}

\* What job n had copied stays where it is, and is nobody's.
Abandon(n, w) == [i \in Item |-> IF w[i] = -n THEN 0 ELSE w[i]]

\* BACKUP_FAILED and BACKUP_IO are both retryable.
FailAttempt(n) ==
  LET tries == job[n].attempts + 1 IN
  job' = [job EXCEPT ![n] = [NewJob EXCEPT !.attempts = tries,
                                !.at = IF tries >= Limit THEN "failed" ELSE "queued"]]

\* BackupPlanner.plan: a file at any destination raises FileExistsError.
PlanBackup(n) ==
  /\ job[n].at = "queued"
  /\ IF Taken # {}
     THEN FailAttempt(n)
     ELSE job' = [job EXCEPT ![n].at = "copying", ![n].left = Item,
                             ![n].plan = [NoPlan EXCEPT !.sha = content, !.due = Retention]]
  /\ UNCHANGED <<content, storage, schedule, row, purge, crashes, restores>>

\* One transfer of job n: it refuses a destination that has appeared, and a copy
\* that is not in fits fails the job, but stays where it is.
CopyNext(n, fits) ==
  \E i \in First(job[n].left) :
    /\ job[n].at = "copying"
    /\ dest' = IF i \in Taken THEN dest ELSE [dest EXCEPT ![i] = content[i]]
    /\ IF i \in fits \ Taken
       THEN /\ job' = [job EXCEPT ![n].left = @ \ {i}]
            /\ writer' = [writer EXCEPT ![i] = -n]
       ELSE /\ FailAttempt(n)
            /\ writer' = Abandon(n, IF i \in Taken THEN writer ELSE [writer EXCEPT ![i] = 0])
    /\ UNCHANGED <<content, schedule, row, purge, crashes, restores>>

\* Mutant of CopyItem: the copy is not compared with the planned digest.
CopyItemUnverified(n) == CopyNext(n, Item)

\* BackupExecutor.apply, item by item: the copies that have the planned digest
\* are accepted.
CopyItem(n) == CopyNext(n, AsPlanned(n))

\* store.put: a row of a digest of its own, which is not locked.
Put(x, plan) == row' = [row EXCEPT ![x] = [plan |-> plan, locked |-> FALSE]]

\* The manifest and store.put, once every item is there.
RecordBackup(n) ==
  LET x == Cardinality(Recorded) + 1 IN
  /\ job[n].at = "copying" /\ job[n].left = {}
  /\ Put(x, job[n].plan)
  /\ writer' = [i \in Item |-> IF writer[i] = -n THEN x ELSE writer[i]]
  /\ job' = [job EXCEPT ![n].at = "recorded", ![n].plan = NoPlan]
  /\ UNCHANGED <<content, dest, schedule, purge, crashes, restores>>

ReportBackup(n) ==
  /\ job[n].at = "recorded"
  /\ job' = [job EXCEPT ![n].at = "completed"]
  /\ UNCHANGED <<content, storage, schedule, row, purge, crashes, restores>>

\* The worker dies; the job is recovered with the attempts it had.
WorkerDies(n) ==
  /\ job[n].at \in {"copying", "recorded"}
  /\ crashes < MaxCrashes
  /\ crashes' = crashes + 1
  /\ job' = [job EXCEPT ![n] = [NewJob EXCEPT !.attempts = job[n].attempts]]
  /\ writer' = Abandon(n, writer)
  /\ UNCHANGED <<content, dest, schedule, row, purge, restores>>

-----------------------------------------------------------------------------
(* Locks and purges *)

\* is_locked
Locked(x) == row[x].locked

Lock(x) ==
  /\ x \in Recorded /\ ~Locked(x)
  /\ row' = [row EXCEPT ![x].locked = TRUE]
  /\ UNCHANGED <<content, storage, schedule, job, purge, crashes, restores>>

\* Mutant of StartPurge: the plan's window is not looked at.
StartPurgeEarly(o, x) ==
  /\ purge[o] = NoPurge
  /\ x \in Recorded /\ ~Locked(x)
  /\ purge' = [purge EXCEPT ![o] = [of |-> x, left |-> Item]]
  /\ UNCHANGED <<content, storage, schedule, job, row, crashes, restores>>

\* purge asks for the lock and the window once, at the start.
StartPurge(o, x) ==
  /\ purge[o] = NoPurge
  /\ x \in Recorded /\ ~Locked(x) /\ row[x].plan.due = 0
  /\ purge' = [purge EXCEPT ![o] = [of |-> x, left |-> Item]]
  /\ UNCHANGED <<content, storage, schedule, job, row, crashes, restores>>

\* Unlink whatever is at the destination.  The row stays, and so does its
\* place in retention_ready.
PurgeItem(o) ==
  \E i \in First(purge[o].left) :
    /\ dest' = [dest EXCEPT ![i] = None]
    /\ writer' = [writer EXCEPT ![i] = 0]
    /\ row' = IF writer[i] > 0 THEN [row EXCEPT ![writer[i]].plan.lost = @ \cup {i}] ELSE row
    /\ job' = IF writer[i] < 0 THEN [job EXCEPT ![-writer[i]].plan.lost = @ \cup {i}] ELSE job
    /\ purge' = [purge EXCEPT ![o] = IF @.left = {i} THEN NoPurge ELSE Without(@, i)]
    /\ UNCHANGED <<content, schedule, crashes, restores>>

-----------------------------------------------------------------------------
(* BackupExecutor.restore, item by item *)

\* A restore that was refused or has ended; the next may be of any row.
StartRestore(o, x) ==
  /\ restorer[o].left = {} /\ x \in Recorded
  /\ restorer' = [restorer EXCEPT ![o] = [of |-> x, at |-> "check", left |-> Item]]
  /\ UNCHANGED <<content, storage, schedule, job, row, purge, restored, crashes>>

\* The file must not be there yet, and the backup must have the planned digest.
CheckRestore(o) ==
  \E i \in First(restorer[o].left) :
    /\ restorer[o].at = "check"
    /\ restorer' = [restorer EXCEPT ![o] =
         IF restored[i] = None /\ dest[i] = row[@.of].plan.sha[i] THEN [@ EXCEPT !.at = "copy"]
                                                               ELSE Resting]
    /\ UNCHANGED <<content, storage, schedule, job, row, purge, restored, crashes>>

\* The transfer fails if the backup is gone or a file has appeared.  A copy that
\* is not in fits stays, but ends the restore.
RestoreNext(o, fits) ==
  \E i \in First(restorer[o].left) :
    LET copied == restored[i] = None /\ dest[i] # None IN
    /\ restorer[o].at = "copy"
    /\ restored' = IF copied THEN [restored EXCEPT ![i] = dest[i]] ELSE restored
    /\ restorer' = [restorer EXCEPT ![o] =
         IF ~copied \/ i \notin fits THEN Resting
         ELSE [Without(@, i) EXCEPT !.at = IF restorer[o].left = {i} THEN "restored"
                                                                    ELSE "check"]]
    /\ UNCHANGED <<content, storage, schedule, job, row, purge, crashes>>

\* Mutant of RestoreItem: the copy is not compared with the planned digest.
RestoreItemUnverified(o) == RestoreNext(o, Item)

RestoreItem(o) == RestoreNext(o, {i \in Item : dest[i] = row[restorer[o].of].plan.sha[i]})

-----------------------------------------------------------------------------

Edit(i) ==
  /\ FoldFunction(+, 0, content) < MaxEdits
  /\ content' = [content EXCEPT ![i] = @ + 1]
  /\ UNCHANGED <<storage, schedule, job, row, purge, crashes, restores>>

Sooner(due) == Max({due - 1, 0})

\* Time passes; no run_due takes longer than MaxLate.
Tick ==
  /\ \A r \in Runner : runner[r] = Idle \/ runner[r].late < MaxLate
  /\ next' = Max({next - 1, -MaxLate})
  /\ runner' = [r \in Runner |-> IF runner[r] = Idle THEN Idle
                                ELSE [runner[r] EXCEPT !.late = @ + 1]]
  /\ row' = [x \in Row |-> [row[x] EXCEPT !.plan.due = Sooner(@)]]
  /\ job' = [n \in Job |-> [job[n] EXCEPT !.plan.due = Sooner(@)]]
  /\ UNCHANGED <<content, storage, advances, purge, crashes, restores>>

Next ==
  \/ \E r \in Runner : ReadDue(r) \/ EnqueueBackup(r) \/ Advance(r) \/ RunnerDies(r)
  \/ \E n \in Job : \/ PlanBackup(n) \/ CopyItem(n) \/ RecordBackup(n)
                    \/ ReportBackup(n) \/ WorkerDies(n)
  \/ \E x \in Row : Lock(x)
  \/ \E o \in Purger : PurgeItem(o) \/ (\E x \in Row : StartPurge(o, x))
  \/ \E o \in Restorer : CheckRestore(o) \/ RestoreItem(o) \/ (\E x \in Row : StartRestore(o, x))
  \/ \E i \in Edited : Edit(i)
  \/ Tick

Spec == Init /\ [][Next]_vars

-----------------------------------------------------------------------------

\* Every variable has its type.
\* A conjunct of RecordedIsWhole.
TypeOK ==
  /\ content \in [Item -> Content] /\ dest \in [Item -> Content \cup {None}]
  /\ next \in Int
  /\ runner \in [Runner -> [at : {"idle", "due", "enqueued"}, late : 0..MaxLate]]
  /\ \A n \in Job :
       /\ job[n].at \in {"absent", "queued", "copying", "recorded", "completed", "failed"}
       /\ job[n].attempts \in 0..Limit /\ job[n].left \subseteq Item
  /\ \A x \in Row : row[x].locked \in BOOLEAN
  /\ \A p \in {job[n].plan : n \in Job} \cup {row[x].plan : x \in Row} :
       /\ p.sha \in [Item -> Content \cup {None}]
       /\ p.due \in 0..Retention /\ p.lost \subseteq Item
  /\ purge \in [Purger -> [of : Row \cup {0}, left : SUBSET Item]]
  /\ restorer \in [Restorer -> [of : Row \cup {0}, at : {"idle", "check", "copy", "restored"},
                                left : SUBSET Item]]
  /\ restored \in [Item -> Content \cup {None}]
  /\ crashes \in 0..MaxCrashes /\ advances \in Nat
  /\ writer \in [Item -> -MaxJobs..(MaxJobs + MaxCrashes)]

\* A run that was due is never dropped: next_run_at is moved on only for a job
\* that was enqueued before, whichever process dies in between.
NoRunDropped == advances <= Cardinality(Enqueued)

\* A recorded backup is whole and has the planned content, except for the
\* items that purges took away: no crash, edit or failed attempt leaves a row
\* for a partial backup, and no later job replaces its files.
RecordedIsWhole ==
  /\ TypeOK
  /\ \A x \in Recorded : \A i \in Item \ row[x].plan.lost : dest[i] = row[x].plan.sha[i]

\* A restore that succeeded left every file with the content the row planned,
\* although purges and later backups changed the files meanwhile.
RestoredIsWhole ==
  \A o \in Restorer : restorer[o].at = "restored" => restored = row[restorer[o].of].plan.sha

\* A purge removes a file that is not an expired backup's (one inside its
\* window, or one still being made) only at a path where the purged row had
\* already lost its own: the row survives its purge, and can be purged again.
PurgeTakesOwn ==
  [][\A o \in Purger, i \in Item :
       purge'[o] # purge[o] /\ i \in Taken /\ dest'[i] = None =>
         \/ writer[i] > 0 /\ row[writer[i]].plan.due = 0
         \/ i \in row[purge[o].of].plan.lost]_vars
=============================================================================
