---------------------------- MODULE BackupProofs ----------------------------
(***************************************************************************)
(* Theorems about Backup for any number of items, schedulers, jobs and      *)
(* operators, any interval, retention and limits, any edits and deaths.     *)
(***************************************************************************)
EXTENDS Backup, FiniteSetTheorems, TLAPS

-----------------------------------------------------------------------------
(* The inductive invariant.                                                   *)

Plan   == [sha : [Item -> Content \cup {None}], due : 0..Retention, lost : SUBSET Item]
JobRow == [at : {"absent", "queued", "copying", "recorded", "completed", "failed"},
           attempts : 0..Limit, left : SUBSET Item, plan : Plan]
Stored == [plan : Plan, locked : BOOLEAN]
Call   == [at : {"idle", "due", "enqueued"}, late : 0..MaxLate]
Purge  == [of : Row \cup {0}, left : SUBSET Item]
Visit  == [of : Row \cup {0}, at : {"idle", "check", "copy", "restored"}, left : SUBSET Item]

Typed ==
  /\ content \in [Item -> Content] /\ dest \in [Item -> Content \cup {None}]
  /\ next \in Int /\ runner \in [Runner -> Call]
  /\ job \in [Job -> JobRow] /\ row \in [Row -> Stored]
  /\ purge \in [Purger -> Purge] /\ restorer \in [Restorer -> Visit]
  /\ restored \in [Item -> Content \cup {None}]
  /\ crashes \in 0..MaxCrashes /\ advances \in Nat
  /\ writer \in [Item -> -MaxJobs..(MaxJobs + MaxCrashes)]
  /\ \A n \in Job : job[n].at \in {"queued", "copying", "recorded"} => job[n].attempts < Limit

\* The calls of run_due that will enqueue a job, and those that have enqueued
\* one and will advance the schedule; the jobs that have written their row.
Due     == {r \in Runner : runner[r].at = "due"}
Waiting == {r \in Runner : runner[r].at = "enqueued"}
Done    == {n \in Job : job[n].at \in {"recorded", "completed"}}

\* Jobs and rows are numbered from 1; a call that may enqueue has its number,
\* one that will advance the schedule its job; a row was written by a job that
\* is done with it or has died since.
JobsCounted ==
  /\ Enqueued = 1..Cardinality(Enqueued)
  /\ Cardinality(Enqueued) + Cardinality(Due) <= MaxJobs
  /\ advances + Cardinality(Waiting) <= Cardinality(Enqueued)

RowsCounted ==
  /\ Recorded = 1..Cardinality(Recorded)
  /\ Cardinality(Recorded) <= Cardinality(Done) + crashes

\* What plan p has copied, all but the items left, is there as w's.
Holds(p, left, w) ==
  /\ \A i \in Item : p.sha[i] # None
  /\ \A i \in Item \ (left \cup p.lost) : dest[i] = p.sha[i] /\ writer[i] = w

\* The copies of rows and of jobs at work are in place, and are the only ones
\* that have a writer.
Kept ==
  /\ \A x \in Recorded : Holds(row[x].plan, {}, x)
  /\ \A n \in Job : job[n].at = "copying" => Holds(job[n].plan, job[n].left, -n)
  /\ \A i \in Item :
       /\ writer[i] > 0 => writer[i] \in Recorded
       /\ writer[i] < 0 => -writer[i] \in Job /\ job[-writer[i]].at = "copying"

\* A purge at work is of a row whose window has passed.
PurgeDue(u) == u.left # {} => u.of \in Recorded /\ row[u.of].plan.due = 0

\* What a restore has copied is what its row planned, and nothing replaces it.
Restores(v) ==
  /\ v.at \in {"check", "copy", "restored"} =>
       /\ v.of \in Recorded
       /\ \A i \in Item \ v.left : restored[i] = row[v.of].plan.sha[i]
  /\ v.at \in {"idle", "restored"} => v.left = {}

BackupInv ==
  /\ Typed /\ JobsCounted /\ RowsCounted /\ Kept
  /\ \A o \in Purger : PurgeDue(purge[o])
  /\ \A o \in Restorer : Restores(restorer[o])

-----------------------------------------------------------------------------
(* Numbers and finite sets.                                                   *)

LEMMA Constants ==
  /\ Items \in Nat /\ Interval \in Nat /\ Retention \in Nat /\ Limit \in Nat \ {0}
  /\ MaxJobs \in Nat /\ MaxLate \in Nat /\ MaxCrashes \in Nat
  /\ 1 \in Item /\ None \notin Content /\ None \in Content \cup {None} /\ 0 \in Content
  /\ \A n \in Job : n \in Nat /\ n > 0 /\ -n \in -MaxJobs..(MaxJobs + MaxCrashes)
  /\ \A x \in Row : x \in Nat /\ x > 0 /\ x \in -MaxJobs..(MaxJobs + MaxCrashes)
BY BackupAssumption DEF Item, None, Content, Job, Row

LEMMA MaxOfTwo ==
  ASSUME NEW a \in Int, NEW b \in Int
  PROVE  Max({a, b}) = IF a >= b THEN a ELSE b
<1>. DEFINE m == IF a >= b THEN a ELSE b
<1>1. m \in {a, b} /\ \A y \in {a, b} : m >= y
  OBVIOUS
<1>2. \A x \in {a, b} : (\A y \in {a, b} : x >= y) => x = m
  OBVIOUS
<1>. QED BY <1>1, <1>2 DEF Max

LEMMA SoonerIs ==
  ASSUME NEW due \in 0..Retention
  PROVE  Sooner(due) \in 0..Retention /\ (due = 0 => Sooner(due) = 0)
BY MaxOfTwo, Constants DEF Sooner

LEMMA SetsFinite ==
  ASSUME NEW S, S \subseteq Job \/ S \subseteq Row \/ S \subseteq Runner
  PROVE  IsFiniteSet(S) /\ Cardinality(S) \in Nat
<1>1. IsFiniteSet(Job) /\ IsFiniteSet(Row) /\ IsFiniteSet(Runner)
  BY FS_Interval, BackupAssumption DEF Job, Row
<1>2. IsFiniteSet(S)
  BY <1>1, FS_Subset
<1>. QED BY <1>2, FS_CardinalityType

\* Adding a member, or taking one away.
LEMMA OneMore ==
  ASSUME NEW S, NEW e, IsFiniteSet(S)
  PROVE  /\ Cardinality(S) \in Nat
         /\ Cardinality(S \cup {e}) \in Nat /\ Cardinality(S \ {e}) \in Nat
         /\ e \notin S => Cardinality(S \cup {e}) = Cardinality(S) + 1
         /\ e \in S => Cardinality(S \ {e}) = Cardinality(S) - 1
         /\ Cardinality(S \cup {e}) <= Cardinality(S) + 1
         /\ Cardinality(S \ {e}) <= Cardinality(S)
         /\ Cardinality(S) <= Cardinality(S \ {e}) + 1
<1>1. IsFiniteSet(S \cup {e}) /\ IsFiniteSet(S \ {e})
  BY FS_AddElement, FS_RemoveElement
<1>2. Cardinality(S) \in Nat /\ Cardinality(S \cup {e}) \in Nat /\ Cardinality(S \ {e}) \in Nat
  BY <1>1, FS_CardinalityType
<1>3. Cardinality(S \cup {e}) = IF e \in S THEN Cardinality(S) ELSE Cardinality(S) + 1
  BY FS_AddElement
<1>4. Cardinality(S \ {e}) = IF e \in S THEN Cardinality(S) - 1 ELSE Cardinality(S)
  BY FS_RemoveElement
<1>. QED BY <1>2, <1>3, <1>4

LEMMA InvParts ==
  ASSUME BackupInv
  PROVE  /\ Typed /\ JobsCounted /\ RowsCounted /\ Kept
         /\ \A o \in Purger : PurgeDue(purge[o])
         /\ \A o \in Restorer : Restores(restorer[o])
         /\ \A n \in Job : job[n] \in JobRow
         /\ \A x \in Row : row[x] \in Stored
         /\ \A r \in Runner : runner[r] \in Call
         /\ \A o \in Purger : purge[o] \in Purge
         /\ \A o \in Restorer : restorer[o] \in Visit
         /\ \A i \in Item : /\ content[i] \in Content /\ dest[i] \in Content \cup {None}
                            /\ restored[i] \in Content \cup {None}
                            /\ writer[i] \in Int
BY Constants DEF BackupInv, Typed

LEMMA EmptyRows ==
  /\ NoPlan \in Plan /\ NoRow \in Stored /\ NewJob \in JobRow /\ Absent \in JobRow
  /\ Idle \in Call /\ NoPurge \in Purge /\ Resting \in Visit
  /\ \A i \in Item : NoPlan.sha[i] = None
  /\ NoRow.plan = NoPlan
  /\ NewJob.at = "queued" /\ NewJob.attempts = 0 /\ Absent.at = "absent"
<1>1. NoPlan \in Plan /\ \A i \in Item : NoPlan.sha[i] = None
  BY Constants DEF NoPlan, Plan
<1>2. NoRow \in Stored /\ NoRow.plan = NoPlan
  BY <1>1 DEF NoRow, Stored
<1>3. NewJob \in JobRow /\ NewJob.at = "queued" /\ NewJob.attempts = 0
  BY <1>1, Constants DEF NewJob, JobRow
<1>4. Absent \in JobRow /\ Absent.at = "absent"
  BY <1>3 DEF Absent, JobRow
<1>5. Idle \in Call /\ NoPurge \in Purge /\ Resting \in Visit
  BY Constants DEF Idle, Call, NoPurge, Purge, Resting, Visit
<1>. QED BY <1>1, <1>2, <1>3, <1>4, <1>5

\* A row with a plan is a recorded one.
LEMMA PlannedIsRow ==
  ASSUME NEW y, \A i \in Item : y.plan.sha[i] # None
  PROVE  y # NoRow
BY Constants, EmptyRows

-----------------------------------------------------------------------------
(* What a step changes.                                                       *)

\* Job n goes on as q.
LEMMA JobMoves ==
  ASSUME Typed, NEW n \in Job, NEW q \in JobRow, job' = [job EXCEPT ![n] = q],
         q.at \in {"queued", "copying", "recorded"} => q.attempts < Limit
  PROVE  /\ job' \in [Job -> JobRow] /\ job'[n] = q /\ \A m \in Job \ {n} : job'[m] = job[m]
         /\ \A m \in Job : job'[m].at \in {"queued", "copying", "recorded"} =>
              job'[m].attempts < Limit
         /\ job[n].at # "absent" /\ q.at # "absent" => Enqueued' = Enqueued
         /\ job[n].at = "absent" /\ q.at # "absent" =>
              Enqueued' = Enqueued \cup {n} /\ n \notin Enqueued
         /\ Done' = IF q.at \in {"recorded", "completed"} THEN Done \cup {n} ELSE Done \ {n}
         /\ n \in Done <=> job[n].at \in {"recorded", "completed"}
<1>1. job' \in [Job -> JobRow] /\ job'[n] = q /\ \A m \in Job \ {n} : job'[m] = job[m]
  BY DEF Typed
<1>2. \A m \in Job : job'[m].at \in {"queued", "copying", "recorded"} => job'[m].attempts < Limit
  BY <1>1 DEF Typed
<1>3. /\ job[n].at # "absent" /\ q.at # "absent" => Enqueued' = Enqueued
      /\ job[n].at = "absent" /\ q.at # "absent" =>
           Enqueued' = Enqueued \cup {n} /\ n \notin Enqueued
  BY <1>1 DEF Enqueued
<1>4. /\ Done' = IF q.at \in {"recorded", "completed"} THEN Done \cup {n} ELSE Done \ {n}
      /\ n \in Done <=> job[n].at \in {"recorded", "completed"}
  BY <1>1 DEF Done
<1>. QED BY <1>1, <1>2, <1>3, <1>4

\* The rows that were there are still there, with their plans, and a window
\* that has passed stays so.
RowsStay ==
  \A x \in Recorded : /\ x \in Recorded' /\ row'[x].plan.sha = row[x].plan.sha
                      /\ row[x].plan.due = 0 => row'[x].plan.due = 0

LEMMA RowsUntouched == BackupInv /\ UNCHANGED row => RowsStay /\ Recorded' = Recorded
BY DEF RowsStay, Recorded

LEMMA PurgesGoOn ==
  ASSUME BackupInv, RowsStay, NEW o \in Purger, purge'[o] = purge[o]
  PROVE  PurgeDue(purge[o])'
<1>1. SUFFICES ASSUME purge[o].left # {}
               PROVE  purge[o].of \in Recorded' /\ row'[purge[o].of].plan.due = 0
  BY DEF PurgeDue
<1>2. PICK y : y = purge[o].of
  OBVIOUS
<1>3. y \in Recorded /\ row[y].plan.due = 0
  BY <1>1, <1>2 DEF BackupInv, PurgeDue
<1>4. y \in Recorded' /\ row'[y].plan.due = 0
  BY <1>3 DEF RowsStay
<1>. QED BY <1>2, <1>4

LEMMA RestoresGoOn ==
  ASSUME BackupInv, RowsStay, UNCHANGED restored, NEW o \in Restorer,
         restorer'[o] = restorer[o]
  PROVE  Restores(restorer[o])'
<1>1. PICK v : v = restorer[o]
  OBVIOUS
<1>2. Restores(v)
  BY <1>1 DEF BackupInv
<1>3. PICK y : y = v.of
  OBVIOUS
<1>4. v.at \in {"check", "copy", "restored"} =>
        /\ y \in Recorded'
        /\ \A i \in Item \ v.left : restored'[i] = row'[y].plan.sha[i]
  BY <1>2, <1>3 DEF RowsStay, Restores
<1>5. v.at \in {"idle", "restored"} => v.left = {}
  BY <1>2 DEF Restores
<1>. QED BY <1>1, <1>3, <1>4, <1>5 DEF Restores

\* A step of run_due: the rest of the system is as it was.
LEMMA OnlyRunners ==
  ASSUME BackupInv, UNCHANGED <<content, dest, writer, job, row, purge, restorer, restored>>,
         next' \in Int, runner' \in [Runner -> Call], crashes' \in 0..MaxCrashes,
         advances' \in Nat, crashes <= crashes', JobsCounted'
  PROVE  BackupInv'
<1>1. Typed'
  BY DEF BackupInv, Typed
<1>2. RowsStay /\ Recorded' = Recorded /\ Done' = Done
  BY RowsUntouched DEF Done
<1>3. RowsCounted'
  <2>1. Cardinality(Done) \in Nat /\ Cardinality(Recorded) \in Nat
    BY SetsFinite DEF Done, Recorded
  <2>2. crashes \in Nat /\ crashes' \in Nat
    BY Constants DEF BackupInv, Typed
  <2>. QED BY <1>2, <2>1, <2>2 DEF BackupInv, RowsCounted
<1>4. Kept'
  BY <1>2 DEF BackupInv, Kept, Holds
<1>5. \A o \in Purger : PurgeDue(purge[o])'
  BY <1>2, PurgesGoOn DEF BackupInv
<1>6. \A o \in Restorer : Restores(restorer[o])'
  BY <1>2, RestoresGoOn DEF BackupInv
<1>. QED BY <1>1, <1>3, <1>4, <1>5, <1>6 DEF BackupInv

-----------------------------------------------------------------------------
(* run_due                                                                    *)

LEMMA RunnerMoves ==
  ASSUME Typed, NEW r \in Runner, NEW q \in Call, runner' = [runner EXCEPT ![r] = q]
  PROVE  /\ runner' \in [Runner -> Call]
         /\ Due' = IF q.at = "due" THEN Due \cup {r} ELSE Due \ {r}
         /\ Waiting' = IF q.at = "enqueued" THEN Waiting \cup {r} ELSE Waiting \ {r}
         /\ r \in Due <=> runner[r].at = "due"
         /\ r \in Waiting <=> runner[r].at = "enqueued"
<1>1. /\ runner' \in [Runner -> Call] /\ runner'[r] = q
      /\ \A d \in Runner \ {r} : runner'[d] = runner[d]
  BY DEF Typed
<1>. QED BY <1>1 DEF Due, Waiting

LEMMA ReadDueInv ==
  ASSUME BackupInv, NEW r \in Runner, ReadDue(r)
  PROVE  BackupInv'
<1>1. /\ runner[r] = Idle /\ runner' = [runner EXCEPT ![r].at = "due"]
      /\ Cardinality(Enqueued) + Cardinality(Due) < MaxJobs
      /\ UNCHANGED <<content, dest, writer, next, job, row, purge, crashes, advances, restorer, restored>>
  BY DEF ReadDue, Due, storage, restores
<1>2. PICK q : q = [Idle EXCEPT !.at = "due"]
  OBVIOUS
<1>3. q \in Call /\ q.at = "due" /\ runner' = [runner EXCEPT ![r] = q]
  BY <1>1, <1>2, EmptyRows DEF Idle, Call
<1>4. /\ Due' = Due \cup {r} /\ Waiting' = Waiting \ {r} /\ r \notin Due /\ r \notin Waiting
      /\ runner' \in [Runner -> Call]
  <2>1. runner[r].at = "idle" /\ q.at = "due"
    BY <1>1, <1>3 DEF Idle
  <2>. QED BY <1>3, <2>1, RunnerMoves, InvParts
<1>5. /\ Cardinality(Due') = Cardinality(Due) + 1 /\ Cardinality(Due) \in Nat
      /\ Waiting' = Waiting
  BY <1>4, OneMore, SetsFinite DEF Due
<1>6. Enqueued' = Enqueued /\ Cardinality(Enqueued) \in Nat
  BY <1>1, SetsFinite DEF Enqueued
<1>7. JobsCounted'
  BY <1>1, <1>5, <1>6, InvParts, Constants DEF JobsCounted
<1>8. next' \in Int /\ crashes' \in 0..MaxCrashes /\ advances' \in Nat /\ crashes <= crashes'
  BY <1>1, InvParts DEF Typed
<1>. QED BY <1>1, <1>4, <1>7, <1>8, OnlyRunners

LEMMA EnqueueBackupInv ==
  ASSUME BackupInv, NEW r \in Runner, EnqueueBackup(r)
  PROVE  BackupInv'
<1>. DEFINE n == Cardinality(Enqueued) + 1
<1>1. /\ runner[r].at = "due"
      /\ job' = [job EXCEPT ![n] = NewJob]
      /\ runner' = [runner EXCEPT ![r].at = "enqueued"]
      /\ UNCHANGED <<content, dest, writer, next, row, purge, crashes, advances, restorer, restored>>
  BY DEF EnqueueBackup, storage, restores
<1>2. PICK q : q = [runner[r] EXCEPT !.at = "enqueued"]
  OBVIOUS
<1>3. q \in Call /\ q.at = "enqueued" /\ runner' = [runner EXCEPT ![r] = q]
  BY <1>1, <1>2, InvParts DEF Call
<1>4. /\ Due' = Due \ {r} /\ Waiting' = Waiting \cup {r} /\ r \in Due /\ r \notin Waiting
      /\ runner' \in [Runner -> Call]
  BY <1>1, <1>3, RunnerMoves, InvParts
<1>5. /\ Cardinality(Due') = Cardinality(Due) - 1 /\ Cardinality(Due) \in Nat
      /\ Cardinality(Due') \in Nat
      /\ Cardinality(Waiting') = Cardinality(Waiting) + 1 /\ Cardinality(Waiting) \in Nat
  BY <1>4, OneMore, SetsFinite DEF Due, Waiting
<1>6. /\ Cardinality(Enqueued) \in Nat /\ Enqueued = 1..Cardinality(Enqueued)
      /\ Cardinality(Enqueued) + Cardinality(Due) <= MaxJobs
      /\ advances + Cardinality(Waiting) <= Cardinality(Enqueued)
  BY SetsFinite, InvParts DEF Enqueued, JobsCounted
<1>7. n \in Job /\ n \notin Enqueued /\ Enqueued \cup {n} = 1..n
  BY <1>5, <1>6, Constants DEF Job
<1>8. job[n].at = "absent"
  BY <1>7 DEF Enqueued
<1>9. /\ job' \in [Job -> JobRow] /\ job'[n] = NewJob /\ \A m \in Job \ {n} : job'[m] = job[m]
      /\ \A m \in Job : job'[m].at \in {"queued", "copying", "recorded"} => job'[m].attempts < Limit
      /\ Enqueued' = Enqueued \cup {n}
      /\ Done' = Done \ {n} /\ n \notin Done
  <2>1. NewJob \in JobRow /\ NewJob.at = "queued" /\ NewJob.attempts < Limit
    BY EmptyRows, Constants
  <2>. HIDE DEF n
  <2>2. job' = [job EXCEPT ![n] = NewJob] /\ job[n].at = "absent" /\ n \in Job /\ Typed
    BY <1>1, <1>7, <1>8, InvParts
  <2>3. NewJob.at # "absent" /\ NewJob.at \notin {"recorded", "completed"}
    BY <2>1
  <2>. QED BY <2>1, <2>2, <2>3, JobMoves
<1>10. JobsCounted'
  <2>1. Cardinality(Enqueued') = n /\ Enqueued' = 1..n
    BY <1>6, <1>7, <1>9, OneMore, SetsFinite DEF Enqueued
  <2>2. advances' \in Nat /\ advances' = advances
    BY <1>1, InvParts DEF Typed
  <2>. QED BY <1>5, <1>6, <2>1, <2>2, Constants DEF JobsCounted
<1>11. RowsStay /\ Recorded' = Recorded /\ Done' = Done
  BY <1>1, <1>9, RowsUntouched
<1>12. RowsCounted'
  BY <1>1, <1>11, InvParts DEF RowsCounted
<1>13. Typed'
  BY <1>1, <1>4, <1>9, InvParts DEF Typed
<1>14. Kept'
  <2>. HIDE DEF n
  <2>1. \A m \in Job : job'[m].at = "copying" => m # n /\ job'[m] = job[m]
    BY <1>9, EmptyRows
  <2>2. \A m \in Job : job[m].at = "copying" => m # n /\ job'[m] = job[m]
    BY <1>8, <1>9
  <2>. QED BY <1>1, <1>11, <2>1, <2>2, InvParts DEF Kept, Holds
<1>15. \A o \in Purger : PurgeDue(purge[o])'
  BY <1>1, <1>11, PurgesGoOn, InvParts
<1>16. \A o \in Restorer : Restores(restorer[o])'
  BY <1>1, <1>11, RestoresGoOn, InvParts
<1>. QED BY <1>1, <1>10, <1>12, <1>13, <1>14, <1>15, <1>16 DEF BackupInv

LEMMA AdvanceInv ==
  ASSUME BackupInv, NEW r \in Runner, Advance(r)
  PROVE  BackupInv'
<1>1. /\ runner[r].at = "enqueued" /\ runner' = [runner EXCEPT ![r] = Idle]
      /\ next' = Max({next + Interval, Interval - runner[r].late}) /\ advances' = advances + 1
      /\ UNCHANGED <<content, dest, writer, job, row, purge, crashes, restorer, restored>>
  BY DEF Advance, MoveOn, storage, restores
<1>2. Idle.at # "due" /\ Idle.at # "enqueued"
  BY DEF Idle
<1>3. /\ Due' = Due \ {r} /\ Waiting' = Waiting \ {r} /\ r \notin Due /\ r \in Waiting
      /\ runner' \in [Runner -> Call]
  BY <1>1, <1>2, RunnerMoves, InvParts, EmptyRows
<1>4. /\ Cardinality(Waiting') = Cardinality(Waiting) - 1 /\ Cardinality(Waiting) \in Nat
      /\ Due' = Due
  BY <1>3, OneMore, SetsFinite DEF Waiting
<1>5. Enqueued' = Enqueued /\ Cardinality(Enqueued) \in Nat
  BY <1>1, SetsFinite DEF Enqueued
<1>6. advances \in Nat /\ crashes \in 0..MaxCrashes /\ next \in Int /\ runner[r].late \in Int
  BY InvParts, Constants DEF Typed, Call
<1>7. JobsCounted'
  BY <1>1, <1>4, <1>5, <1>6, InvParts DEF JobsCounted
<1>8. next' \in Int /\ crashes' \in 0..MaxCrashes /\ advances' \in Nat /\ crashes <= crashes'
  BY <1>1, <1>6, MaxOfTwo, Constants
<1>. QED BY <1>1, <1>3, <1>7, <1>8, OnlyRunners

LEMMA RunnerDiesInv ==
  ASSUME BackupInv, NEW r \in Runner, RunnerDies(r)
  PROVE  BackupInv'
<1>1. /\ runner' = [runner EXCEPT ![r] = Idle] /\ crashes < MaxCrashes /\ crashes' = crashes + 1
      /\ UNCHANGED <<content, dest, writer, next, job, row, purge, advances, restorer, restored>>
  BY DEF RunnerDies, storage, restores
<1>2. Idle.at # "due" /\ Idle.at # "enqueued"
  BY DEF Idle
<1>3. Due' = Due \ {r} /\ Waiting' = Waiting \ {r} /\ runner' \in [Runner -> Call]
  BY <1>1, <1>2, RunnerMoves, InvParts, EmptyRows
<1>4. /\ Cardinality(Waiting') <= Cardinality(Waiting) /\ Cardinality(Waiting') \in Nat
      /\ Cardinality(Due') <= Cardinality(Due) /\ Cardinality(Due') \in Nat
      /\ Cardinality(Waiting) \in Nat /\ Cardinality(Due) \in Nat
  BY <1>3, OneMore, SetsFinite DEF Waiting, Due
<1>5. Enqueued' = Enqueued /\ Cardinality(Enqueued) \in Nat
  BY <1>1, SetsFinite DEF Enqueued
<1>6. advances \in Nat /\ crashes \in 0..MaxCrashes /\ next \in Int
  BY InvParts DEF Typed
<1>7. JobsCounted'
  BY <1>1, <1>4, <1>5, <1>6, InvParts, Constants DEF JobsCounted
<1>8. next' \in Int /\ crashes' \in 0..MaxCrashes /\ advances' \in Nat /\ crashes <= crashes'
  BY <1>1, <1>6, Constants
<1>. QED BY <1>1, <1>3, <1>7, <1>8, OnlyRunners

-----------------------------------------------------------------------------
(* The steps of a job                                                         *)

Working == {"queued", "copying", "recorded"}

LEMMA ScheduleStays ==
  ASSUME BackupInv, UNCHANGED schedule, Enqueued' = Enqueued
  PROVE  JobsCounted'
BY InvParts DEF JobsCounted, schedule, Due, Waiting

\* Job n goes on as q, and no row changes: what is left to show is that the
\* copies are kept.
LEMMA JobStep ==
  ASSUME BackupInv, NEW n \in Job, NEW q \in JobRow, job' = [job EXCEPT ![n] = q],
         job[n].at # "absent", q.at # "absent", q.at \in Working => q.attempts < Limit,
         UNCHANGED <<content, schedule, row, purge, restores>>,
         \/ /\ crashes' = crashes
            /\ job[n].at \notin {"recorded", "completed"} \/ q.at \in {"recorded", "completed"}
         \/ crashes' = crashes + 1 /\ crashes < MaxCrashes,
         dest' \in [Item -> Content \cup {None}],
         writer' \in [Item -> -MaxJobs..(MaxJobs + MaxCrashes)],
         Kept'
  PROVE  BackupInv'
<1>1. /\ job' \in [Job -> JobRow]
      /\ \A m \in Job : job'[m].at \in Working => job'[m].attempts < Limit
      /\ Enqueued' = Enqueued
      /\ Done' = IF q.at \in {"recorded", "completed"} THEN Done \cup {n} ELSE Done \ {n}
      /\ n \in Done <=> job[n].at \in {"recorded", "completed"}
  BY JobMoves, InvParts DEF Working
<1>2. crashes \in 0..MaxCrashes /\ crashes' \in 0..MaxCrashes
  BY InvParts, Constants DEF Typed
<1>3. Typed'
  BY <1>1, <1>2, InvParts DEF Typed, Working, schedule, restores
<1>4. JobsCounted'
  BY <1>1, ScheduleStays
<1>5. RowsStay /\ Recorded' = Recorded
  BY RowsUntouched
<1>6. RowsCounted'
  <2>1. IsFiniteSet(Done) /\ Cardinality(Recorded) \in Nat
    BY SetsFinite DEF Done, Recorded
  <2>2. /\ Cardinality(Done) \in Nat /\ Cardinality(Done') \in Nat
        /\ Cardinality(Done') + crashes' >= Cardinality(Done) + crashes
    <3>. DEFINE D == Done'
    <3>1. /\ Cardinality(Done) \in Nat /\ Cardinality(Done \cup {n}) \in Nat
          /\ Cardinality(Done \ {n}) \in Nat
          /\ n \notin Done => Cardinality(Done \cup {n}) = Cardinality(Done) + 1
          /\ Cardinality(Done) <= Cardinality(Done \ {n}) + 1
          /\ n \in Done => Done \cup {n} = Done
      BY <2>1, OneMore
    <3>2. \/ D = Done
          \/ D = Done \cup {n} /\ n \notin Done
          \/ D = Done \ {n} /\ crashes' = crashes + 1
      BY <1>1, <1>2
    <3>. HIDE DEF D
    <3>3. \/ Cardinality(D) = Cardinality(Done)
          \/ Cardinality(D) = Cardinality(Done \cup {n}) /\ n \notin Done
          \/ Cardinality(D) = Cardinality(Done \ {n}) /\ crashes' = crashes + 1
      BY <3>2, Zenon
    <3>4. crashes \in Nat /\ crashes' \in Nat /\ crashes' >= crashes
      BY <1>2, Constants
    <3>. QED BY <3>1, <3>3, <3>4 DEF D
  <2>. QED BY <1>2, <1>5, <2>1, <2>2, InvParts DEF RowsCounted
<1>7. \A o \in Purger : PurgeDue(purge[o])'
  BY <1>5, PurgesGoOn
<1>8. \A o \in Restorer : Restores(restorer[o])'
  BY <1>5, RestoresGoOn DEF restores
<1>. QED BY <1>3, <1>4, <1>6, <1>7, <1>8 DEF BackupInv

LEMMA FailedAttempt ==
  ASSUME BackupInv, NEW n \in Job, job[n].at \in Working, FailAttempt(n)
  PROVE  \E q \in JobRow : /\ job' = [job EXCEPT ![n] = q] /\ q.at \in {"queued", "failed"}
                           /\ q.at \in Working => q.attempts < Limit
<1>. DEFINE tries == job[n].attempts + 1
<1>1. PICK q : q = [NewJob EXCEPT !.attempts = tries,
                              !.at = IF tries >= Limit THEN "failed" ELSE "queued"]
  OBVIOUS
<1>2. job[n].attempts \in 0..Limit /\ job[n].attempts < Limit
  BY InvParts DEF Typed, JobRow, Working
<1>3. tries \in 0..Limit
  BY <1>2, Constants
<1>4. /\ q.attempts = tries /\ q.left = NewJob.left /\ q.plan = NewJob.plan
      /\ q.at = IF tries >= Limit THEN "failed" ELSE "queued"
      /\ q = [at |-> q.at, attempts |-> tries, left |-> NewJob.left, plan |-> NewJob.plan]
  BY <1>1 DEF NewJob
<1>5. /\ q \in JobRow /\ q.at \in {"queued", "failed"}
      /\ q.at \in Working => q.attempts < Limit
  <2>. HIDE DEF tries
  <2>. QED BY <1>3, <1>4, EmptyRows, Constants DEF JobRow, Working
<1>6. job' = [job EXCEPT ![n] = q]
  BY <1>1 DEF FailAttempt
<1>. QED BY <1>5, <1>6

\* Job n is not copying any more.  What it copied stays and is nobody's, and a
\* file may have appeared where there was none.
LEMMA KeptByOthers ==
  ASSUME BackupInv, NEW n \in Job, NEW q \in JobRow, job' = [job EXCEPT ![n] = q],
         q.at # "copying", UNCHANGED row,
         \A i \in Item :
           \/ dest'[i] = dest[i] /\ writer'[i] = IF writer[i] = -n THEN 0 ELSE writer[i]
           \/ dest[i] = None /\ writer'[i] = 0
  PROVE  Kept'
<1>1. job'[n] = q /\ \A m \in Job \ {n} : job'[m] = job[m]
  BY InvParts DEF Typed
<1>2. Recorded' = Recorded
  BY RowsUntouched
<1>3. ASSUME NEW x \in Recorded
      PROVE  Holds(row[x].plan, {}, x)'
  <2>1. x \in Nat /\ x > 0 /\ x # -n
    BY Constants DEF Recorded
  <2>2. Holds(row[x].plan, {}, x)
    BY InvParts DEF Kept
  <2>. QED BY <2>1, <2>2 DEF Holds
<1>4. ASSUME NEW m \in Job, job'[m].at = "copying"
      PROVE  Holds(job[m].plan, job[m].left, -m)'
  <2>1. m # n /\ job'[m] = job[m] /\ -m # -n /\ -m # 0
    BY <1>1, <1>4, Constants
  <2>2. Holds(job[m].plan, job[m].left, -m)
    BY <1>4, <2>1, InvParts DEF Kept
  <2>. QED BY <2>1, <2>2 DEF Holds
<1>5. ASSUME NEW i \in Item
      PROVE  /\ writer'[i] > 0 => writer'[i] \in Recorded'
             /\ writer'[i] < 0 => -writer'[i] \in Job /\ job'[-writer'[i]].at = "copying"
  <2>1. writer'[i] = 0 \/ (writer'[i] = writer[i] /\ writer[i] # -n)
    OBVIOUS
  <2>2. writer[i] \in Int /\ n \in Int
    BY InvParts, Constants
  <2>3. CASE writer'[i] = 0
    BY <2>3
  <2>4. CASE writer'[i] = writer[i] /\ writer[i] # -n
    <3>1. /\ writer[i] > 0 => writer[i] \in Recorded
          /\ writer[i] < 0 => -writer[i] \in Job /\ job[-writer[i]].at = "copying"
      BY InvParts DEF Kept
    <3>2. -writer[i] # n
      BY <2>2, <2>4
    <3>. QED BY <1>1, <1>2, <2>4, <3>1, <3>2
  <2>. QED BY <2>1, <2>3, <2>4
<1>. QED BY <1>2, <1>3, <1>4, <1>5 DEF Kept

\* A job that is not copying has no copies of its own.
LEMMA NoneOfIts ==
  ASSUME BackupInv, NEW n \in Job, job[n].at # "copying", NEW i \in Item
  PROVE  writer[i] # -n
<1>1. n \in Nat /\ n > 0 /\ writer[i] \in Int
  BY InvParts, Constants
<1>2. writer[i] < 0 => job[-writer[i]].at = "copying"
  BY InvParts DEF Kept
<1>. QED BY <1>1, <1>2

LEMMA PlanBackupInv ==
  ASSUME BackupInv, NEW n \in Job, PlanBackup(n)
  PROVE  BackupInv'
<1>1. /\ job[n].at = "queued"
      /\ UNCHANGED <<content, dest, writer, schedule, row, purge, crashes, restores>>
  BY DEF PlanBackup, storage
<1>2. /\ dest' \in [Item -> Content \cup {None}]
      /\ writer' \in [Item -> -MaxJobs..(MaxJobs + MaxCrashes)]
  BY <1>1, InvParts DEF Typed
<1>3. CASE Taken # {}
  <2>1. FailAttempt(n)
    BY <1>3 DEF PlanBackup
  <2>2. PICK q \in JobRow : /\ job' = [job EXCEPT ![n] = q] /\ q.at \in {"queued", "failed"}
                            /\ q.at \in Working => q.attempts < Limit
    BY <1>1, <2>1, FailedAttempt DEF Working
  <2>3. \A i \in Item :
          dest'[i] = dest[i] /\ writer'[i] = IF writer[i] = -n THEN 0 ELSE writer[i]
    BY <1>1, NoneOfIts
  <2>4. Kept'
    BY <1>1, <2>2, <2>3, KeptByOthers
  <2>. QED BY <1>1, <1>2, <2>2, <2>4, JobStep
<1>4. CASE Taken = {}
  <2>1. PICK p : p = [NoPlan EXCEPT !.sha = content, !.due = Retention]
    OBVIOUS
  <2>2. p \in Plan /\ p.sha = content
    <3>1. content \in [Item -> Content \cup {None}] /\ Retention \in 0..Retention
      BY InvParts, Constants DEF Typed
    <3>. QED BY <2>1, <3>1 DEF NoPlan, Plan
  <2>3. PICK q : q = [job[n] EXCEPT !.at = "copying", !.left = Item, !.plan = p]
    OBVIOUS
  <2>4. /\ q \in JobRow /\ q.at = "copying" /\ q.left = Item /\ q.plan = p
        /\ q.attempts = job[n].attempts
    BY <2>2, <2>3, InvParts DEF JobRow
  <2>5. job' = [job EXCEPT ![n] = q]
    BY <1>4, <2>1, <2>3 DEF PlanBackup
  <2>6. job'[n] = q /\ \A m \in Job \ {n} : job'[m] = job[m]
    BY <2>5, InvParts DEF Typed
  <2>7. Holds(job[n].plan, job[n].left, -n)'
    BY <2>2, <2>4, <2>6, InvParts, Constants DEF Holds
  <2>8. Recorded' = Recorded
    BY <1>1, RowsUntouched
  <2>9. Kept'
    <3>1. \A x \in Recorded : Holds(row[x].plan, {}, x)'
      BY <1>1, InvParts DEF Kept, Holds
    <3>2. ASSUME NEW m \in Job, job'[m].at = "copying", m # n
          PROVE  Holds(job[m].plan, job[m].left, -m)'
      BY <1>1, <2>6, <3>2, InvParts DEF Kept, Holds
    <3>3. \A i \in Item :
            /\ writer[i] > 0 => writer[i] \in Recorded
            /\ writer[i] < 0 => -writer[i] \in Job /\ job'[-writer[i]].at = "copying"
      BY <2>4, <2>6, InvParts DEF Kept
    <3>. QED BY <1>1, <2>7, <2>8, <3>1, <3>2, <3>3 DEF Kept
  <2>10. job[n].attempts < Limit
    BY <1>1, InvParts DEF Typed
  <2>. QED BY <1>1, <1>2, <2>4, <2>5, <2>9, <2>10, JobStep
<1>. QED BY <1>3, <1>4

LEMMA ReportBackupInv ==
  ASSUME BackupInv, NEW n \in Job, ReportBackup(n)
  PROVE  BackupInv'
<1>1. /\ job[n].at = "recorded" /\ job' = [job EXCEPT ![n].at = "completed"]
      /\ UNCHANGED <<content, dest, writer, schedule, row, purge, crashes, restores>>
  BY DEF ReportBackup, storage
<1>2. PICK q : q = [job[n] EXCEPT !.at = "completed"]
  OBVIOUS
<1>3. q \in JobRow /\ q.at = "completed" /\ job' = [job EXCEPT ![n] = q]
  BY <1>1, <1>2, InvParts DEF JobRow
<1>4. /\ dest' \in [Item -> Content \cup {None}]
      /\ writer' \in [Item -> -MaxJobs..(MaxJobs + MaxCrashes)]
  BY <1>1, InvParts DEF Typed
<1>5. \A i \in Item :
        dest'[i] = dest[i] /\ writer'[i] = IF writer[i] = -n THEN 0 ELSE writer[i]
  BY <1>1, NoneOfIts
<1>6. Kept'
  BY <1>1, <1>3, <1>5, KeptByOthers
<1>. QED BY <1>1, <1>3, <1>4, <1>6, JobStep DEF Working

LEMMA WorkerDiesInv ==
  ASSUME BackupInv, NEW n \in Job, WorkerDies(n)
  PROVE  BackupInv'
<1>1. /\ job[n].at \in {"copying", "recorded"} /\ crashes < MaxCrashes /\ crashes' = crashes + 1
      /\ job' = [job EXCEPT ![n] = [NewJob EXCEPT !.attempts = job[n].attempts]]
      /\ writer' = Abandon(n, writer)
      /\ UNCHANGED <<content, dest, schedule, row, purge, restores>>
  BY DEF WorkerDies
<1>2. PICK q : q = [NewJob EXCEPT !.attempts = job[n].attempts]
  OBVIOUS
<1>3. job[n].attempts \in 0..Limit /\ job[n].attempts < Limit
  BY <1>1, InvParts DEF Typed, JobRow
<1>4. q \in JobRow /\ q.at = "queued" /\ q.attempts < Limit /\ job' = [job EXCEPT ![n] = q]
  <2>1. /\ q.attempts = job[n].attempts /\ q.at = "queued"
        /\ q = [at |-> "queued", attempts |-> q.attempts, left |-> NewJob.left, plan |-> NewJob.plan]
    BY <1>2 DEF NewJob
  <2>2. q \in JobRow
    BY <1>3, <2>1, EmptyRows DEF JobRow
  <2>. QED BY <1>1, <1>2, <1>3, <2>1, <2>2
<1>5. \A i \in Item :
        dest'[i] = dest[i] /\ writer'[i] = IF writer[i] = -n THEN 0 ELSE writer[i]
  BY <1>1 DEF Abandon
<1>6. Kept'
  BY <1>1, <1>4, <1>5, KeptByOthers
<1>7. /\ dest' \in [Item -> Content \cup {None}]
      /\ writer' \in [Item -> -MaxJobs..(MaxJobs + MaxCrashes)]
  BY <1>1, InvParts, Constants DEF Typed, Abandon
<1>. QED BY <1>1, <1>4, <1>6, <1>7, JobStep

LEMMA CopyItemInv ==
  ASSUME BackupInv, NEW n \in Job, CopyItem(n)
  PROVE  BackupInv'
<1>. DEFINE fits == AsPlanned(n)
<1>1. PICK i \in First(job[n].left) :
        /\ job[n].at = "copying"
        /\ dest' = IF i \in Taken THEN dest ELSE [dest EXCEPT ![i] = content[i]]
        /\ IF i \in fits \ Taken
           THEN /\ job' = [job EXCEPT ![n].left = @ \ {i}]
                /\ writer' = [writer EXCEPT ![i] = -n]
           ELSE /\ FailAttempt(n)
                /\ writer' = Abandon(n, IF i \in Taken THEN writer ELSE [writer EXCEPT ![i] = 0])
        /\ UNCHANGED <<content, schedule, row, purge, crashes, restores>>
  BY DEF CopyItem, CopyNext
<1>2. i \in job[n].left /\ i \in Item
  BY <1>1, InvParts DEF First, JobRow
<1>3. i \in Taken <=> dest[i] # None
  BY <1>2 DEF Taken
<1>4. i \in fits <=> content[i] = job[n].plan.sha[i]
  BY <1>2 DEF AsPlanned
<1>. HIDE DEF fits
<1>5. /\ dest' \in [Item -> Content \cup {None}]
      /\ writer' \in [Item -> -MaxJobs..(MaxJobs + MaxCrashes)]
  <2>1. dest' \in [Item -> Content \cup {None}]
    BY <1>1, InvParts DEF Typed
  <2>2. /\ 0 \in -MaxJobs..(MaxJobs + MaxCrashes) /\ -n \in -MaxJobs..(MaxJobs + MaxCrashes)
    BY Constants
  <2>. QED BY <1>1, <2>1, <2>2, InvParts DEF Typed, Abandon
<1>6. CASE i \in fits \ Taken
  <2>1. PICK q : q = [job[n] EXCEPT !.left = @ \ {i}]
    OBVIOUS
  <2>2. /\ q \in JobRow /\ q.at = "copying" /\ q.left = job[n].left \ {i}
        /\ q.plan = job[n].plan /\ q.attempts = job[n].attempts
    BY <1>1, <2>1, InvParts DEF JobRow
  <2>3. /\ job' = [job EXCEPT ![n] = q] /\ job'[n] = q /\ \A m \in Job \ {n} : job'[m] = job[m]
        /\ dest'[i] = job[n].plan.sha[i] /\ writer'[i] = -n /\ dest[i] = None
        /\ \A k \in Item \ {i} : dest'[k] = dest[k] /\ writer'[k] = writer[k]
    BY <1>1, <1>2, <1>3, <1>4, <1>6, <2>1, InvParts DEF Typed
  <2>4. Recorded' = Recorded
    BY <1>1, RowsUntouched
  <2>5. ASSUME NEW x \in Recorded
        PROVE  Holds(row[x].plan, {}, x)'
    <3>1. Holds(row[x].plan, {}, x)
      BY InvParts DEF Kept
    <3>. QED BY <1>1, <2>3, <3>1 DEF Holds
  <2>6. ASSUME NEW m \in Job, job'[m].at = "copying"
        PROVE  Holds(job[m].plan, job[m].left, -m)'
    <3>1. job[m].at = "copying"
      BY <1>1, <2>3, <2>6
    <3>2. Holds(job[m].plan, job[m].left, -m)
      BY <3>1, InvParts DEF Kept
    <3>3. CASE m = n
      BY <2>2, <2>3, <3>2, <3>3 DEF Holds
    <3>4. CASE m # n
      BY <2>3, <3>2, <3>4 DEF Holds
    <3>. QED BY <3>3, <3>4
  <2>7. ASSUME NEW k \in Item
        PROVE  /\ writer'[k] > 0 => writer'[k] \in Recorded
               /\ writer'[k] < 0 => -writer'[k] \in Job /\ job'[-writer'[k]].at = "copying"
    <3>1. CASE k = i
      <4>1. -(-n) = n /\ ~(-n > 0)
        BY Constants
      <4>. QED BY <2>2, <2>3, <3>1, <4>1
    <3>2. CASE k # i
      <4>1. /\ writer[k] > 0 => writer[k] \in Recorded
            /\ writer[k] < 0 => -writer[k] \in Job /\ job[-writer[k]].at = "copying"
        BY InvParts DEF Kept
      <4>. QED BY <2>2, <2>3, <3>2, <4>1
    <3>. QED BY <3>1, <3>2
  <2>8. Kept'
    BY <2>4, <2>5, <2>6, <2>7 DEF Kept
  <2>9. job[n].attempts < Limit
    BY <1>1, InvParts DEF Typed
  <2>. QED BY <1>1, <1>5, <2>2, <2>3, <2>8, <2>9, JobStep
<1>7. CASE i \notin fits \ Taken
  <2>1. FailAttempt(n) /\ job[n].at \in Working
    BY <1>1, <1>7 DEF Working
  <2>2. PICK q \in JobRow : /\ job' = [job EXCEPT ![n] = q] /\ q.at \in {"queued", "failed"}
                            /\ q.at \in Working => q.attempts < Limit
    BY <2>1, FailedAttempt
  <2>3. \A k \in Item :
          \/ dest'[k] = dest[k] /\ writer'[k] = IF writer[k] = -n THEN 0 ELSE writer[k]
          \/ dest[k] = None /\ writer'[k] = 0
    <3>1. CASE i \in Taken
      BY <1>1, <1>7, <3>1 DEF Abandon
    <3>2. CASE i \notin Taken
      <4>1. 0 # -n
        BY Constants
      <4>2. writer' = Abandon(n, [writer EXCEPT ![i] = 0]) /\ dest' = [dest EXCEPT ![i] = content[i]]
        BY <1>1, <1>7, <3>2
      <4>. QED BY <1>2, <1>3, <3>2, <4>1, <4>2, InvParts DEF Abandon, Typed
    <3>. QED BY <3>1, <3>2
  <2>4. Kept'
    BY <1>1, <2>2, <2>3, KeptByOthers
  <2>. QED BY <1>1, <1>5, <2>2, <2>4, JobStep
<1>. QED BY <1>6, <1>7

LEMMA RecordBackupInv ==
  ASSUME BackupInv, NEW n \in Job, RecordBackup(n)
  PROVE  BackupInv'
<1>1. PICK x : x = Cardinality(Recorded) + 1
  OBVIOUS
<1>2. PICK y : y = [plan |-> job[n].plan, locked |-> FALSE]
  OBVIOUS
<1>3. PICK q : q = [job[n] EXCEPT !.at = "recorded", !.plan = NoPlan]
  OBVIOUS
<1>4. /\ job[n].at = "copying" /\ job[n].left = {}
      /\ row' = [row EXCEPT ![x] = y] /\ job' = [job EXCEPT ![n] = q]
      /\ writer' = [i \in Item |-> IF writer[i] = -n THEN x ELSE writer[i]]
      /\ UNCHANGED <<content, dest, schedule, purge, crashes, restores>>
  BY <1>1, <1>2, <1>3 DEF RecordBackup, Put
<1>5. /\ q \in JobRow /\ q.at = "recorded" /\ q.attempts = job[n].attempts
      /\ job[n].attempts < Limit
  BY <1>3, <1>4, InvParts, EmptyRows DEF JobRow, Typed
<1>6. /\ job' \in [Job -> JobRow] /\ job'[n] = q /\ \A m \in Job \ {n} : job'[m] = job[m]
      /\ \A m \in Job : job'[m].at \in {"queued", "copying", "recorded"} => job'[m].attempts < Limit
      /\ Enqueued' = Enqueued /\ Done' = Done \cup {n} /\ n \notin Done
  BY <1>4, <1>5, JobMoves, InvParts
<1>7. Holds(job[n].plan, {}, -n)
  BY <1>4, InvParts DEF Kept
<1>8. y \in Stored /\ y.plan = job[n].plan /\ y # NoRow
  <2>1. y \in Stored /\ y.plan = job[n].plan
    BY <1>2, InvParts DEF Stored, JobRow
  <2>. QED BY <1>7, <2>1, PlannedIsRow DEF Holds
<1>9. /\ Cardinality(Recorded) \in Nat /\ Recorded = 1..Cardinality(Recorded)
      /\ Cardinality(Recorded) <= Cardinality(Done) + crashes
      /\ Cardinality(Done) \in Nat /\ Cardinality(Done \cup {n}) = Cardinality(Done) + 1
      /\ crashes \in 0..MaxCrashes
  <2>1. IsFiniteSet(Done) /\ Cardinality(Recorded) \in Nat
    BY SetsFinite DEF Done, Recorded
  <2>. QED BY <1>6, <2>1, OneMore, InvParts DEF RowsCounted, Typed
<1>10. Cardinality(Done) + 1 <= MaxJobs
  <2>1. IsFiniteSet(Job) /\ Cardinality(Job) = MaxJobs
    BY FS_Interval, Constants DEF Job
  <2>2. Done \cup {n} \subseteq Job
    BY DEF Done
  <2>. QED BY <1>9, <2>1, <2>2, FS_Subset
<1>11. x \in Row /\ x \notin Recorded /\ x \in Nat /\ x > 0 /\ Recorded \cup {x} = 1..x
  BY <1>1, <1>9, <1>10, Constants DEF Row
<1>12. row' \in [Row -> Stored] /\ row'[x] = y /\ \A z \in Row \ {x} : row'[z] = row[z]
  BY <1>4, <1>8, <1>11, InvParts DEF Typed
<1>13. Recorded' = Recorded \cup {x}
  BY <1>8, <1>11, <1>12 DEF Recorded
<1>14. RowsStay
  BY <1>11, <1>12, <1>13 DEF RowsStay, Recorded
<1>15. Cardinality(Recorded') = x /\ Recorded' = 1..x
  <2>1. Recorded' = 1..x
    BY <1>11, <1>13
  <2>2. Cardinality(1..x) = x
    BY <1>11, FS_Interval
  <2>. QED BY <2>1, <2>2, Zenon
<1>16. RowsCounted'
  BY <1>1, <1>4, <1>6, <1>9, <1>15 DEF RowsCounted
<1>17. writer' \in [Item -> -MaxJobs..(MaxJobs + MaxCrashes)]
  BY <1>4, <1>11, Constants, InvParts DEF Typed
<1>18. Typed'
  BY <1>4, <1>6, <1>12, <1>17, InvParts DEF Typed, schedule, restores
<1>19. JobsCounted'
  BY <1>4, <1>6, ScheduleStays
<1>20. \A i \in Item : writer'[i] = IF writer[i] = -n THEN x ELSE writer[i]
  BY <1>4
<1>21. ASSUME NEW z \in Recorded'
       PROVE  Holds(row[z].plan, {}, z)'
  <2>1. CASE z = x
    BY <1>4, <1>7, <1>8, <1>12, <1>20, <2>1 DEF Holds
  <2>2. CASE z # x
    <3>1. z \in Recorded /\ z \in Row /\ z # -n /\ row'[z] = row[z]
      BY <1>12, <1>13, <2>2, Constants DEF Recorded
    <3>2. Holds(row[z].plan, {}, z)
      BY <3>1, InvParts DEF Kept
    <3>. QED BY <1>4, <1>20, <3>1, <3>2 DEF Holds
  <2>. QED BY <2>1, <2>2
<1>22. ASSUME NEW m \in Job, job'[m].at = "copying"
       PROVE  Holds(job[m].plan, job[m].left, -m)'
  <2>1. m # n /\ job'[m] = job[m] /\ -m # -n
    BY <1>5, <1>6, <1>22, Constants
  <2>2. Holds(job[m].plan, job[m].left, -m)
    BY <1>22, <2>1, InvParts DEF Kept
  <2>. QED BY <1>4, <1>20, <2>1, <2>2 DEF Holds
<1>23. ASSUME NEW i \in Item
       PROVE  /\ writer'[i] > 0 => writer'[i] \in Recorded'
              /\ writer'[i] < 0 => -writer'[i] \in Job /\ job'[-writer'[i]].at = "copying"
  <2>1. CASE writer[i] = -n
    BY <1>11, <1>13, <1>20, <2>1
  <2>2. CASE writer[i] # -n
    <3>1. /\ writer[i] > 0 => writer[i] \in Recorded
          /\ writer[i] < 0 => -writer[i] \in Job /\ job[-writer[i]].at = "copying"
      BY InvParts DEF Kept
    <3>2. writer'[i] = writer[i] /\ -writer[i] # n
      BY <1>20, <2>2, InvParts, Constants
    <3>. QED BY <1>6, <1>13, <3>1, <3>2
  <2>. QED BY <2>1, <2>2
<1>24. Kept'
  BY <1>21, <1>22, <1>23 DEF Kept
<1>25. \A o \in Purger : PurgeDue(purge[o])'
  BY <1>4, <1>14, PurgesGoOn
<1>26. \A o \in Restorer : Restores(restorer[o])'
  BY <1>4, <1>14, RestoresGoOn DEF restores
<1>. QED BY <1>16, <1>18, <1>19, <1>24, <1>25, <1>26 DEF BackupInv

-----------------------------------------------------------------------------
(* Time, locks and purges                                                     *)

\* Rows and jobs keep their plans but for the time left of a window.
SamePlan(p, q) == q.sha = p.sha /\ q.lost = p.lost /\ (p.due = 0 => q.due = 0)

LEMMA KeptAsPlanned ==
  ASSUME BackupInv, row' \in [Row -> Stored], job' \in [Job -> JobRow],
         \A x \in Row : SamePlan(row[x].plan, row'[x].plan) /\ (row[x] = NoRow => row'[x] = NoRow),
         \A n \in Job : /\ SamePlan(job[n].plan, job'[n].plan)
                        /\ job'[n].at = job[n].at /\ job'[n].left = job[n].left,
         UNCHANGED <<dest, writer, crashes>>
  PROVE  Kept' /\ RowsStay /\ Recorded' = Recorded /\ RowsCounted' /\ Enqueued' = Enqueued
<1>1. Enqueued' = Enqueued /\ Done' = Done
  BY DEF Enqueued, Done
<1>2. Recorded' = Recorded
  <2>1. ASSUME NEW x \in Recorded
        PROVE  row'[x] # NoRow
    <3>1. Holds(row[x].plan, {}, x) /\ SamePlan(row[x].plan, row'[x].plan)
      BY InvParts DEF Kept, Recorded
    <3>. QED BY <3>1, PlannedIsRow DEF Holds, SamePlan
  <2>. QED BY <2>1 DEF Recorded
<1>3. RowsStay
  BY <1>2 DEF RowsStay, SamePlan, Recorded
<1>4. RowsCounted'
  BY <1>1, <1>2, InvParts DEF RowsCounted
<1>5. ASSUME NEW x \in Recorded
      PROVE  Holds(row[x].plan, {}, x)'
  BY InvParts DEF Kept, Holds, SamePlan, Recorded
<1>6. ASSUME NEW n \in Job, job'[n].at = "copying"
      PROVE  Holds(job[n].plan, job[n].left, -n)'
  <2>1. Holds(job[n].plan, job[n].left, -n)
    BY <1>6, InvParts DEF Kept
  <2>. QED BY <2>1 DEF Holds, SamePlan
<1>7. \A i \in Item :
        /\ writer'[i] > 0 => writer'[i] \in Recorded'
        /\ writer'[i] < 0 => -writer'[i] \in Job /\ job'[-writer'[i]].at = "copying"
  BY <1>2, InvParts DEF Kept
<1>8. Kept'
  BY <1>2, <1>5, <1>6, <1>7 DEF Kept
<1>. QED BY <1>1, <1>2, <1>3, <1>4, <1>8

LEMMA LockInv ==
  ASSUME BackupInv, NEW x \in Row, Lock(x)
  PROVE  BackupInv'
<1>1. /\ x \in Recorded /\ row' = [row EXCEPT ![x].locked = TRUE]
      /\ UNCHANGED <<content, dest, writer, schedule, job, purge, crashes, restores>>
  BY DEF Lock, storage
<1>2. /\ row' \in [Row -> Stored] /\ \A z \in Row : row'[z].plan = row[z].plan
      /\ \A z \in Row : row[z] = NoRow => row'[z] = NoRow
  BY <1>1, InvParts DEF Typed, Stored, Recorded
<1>3. job' \in [Job -> JobRow]
  BY <1>1, InvParts DEF Typed
<1>4. Kept' /\ RowsStay /\ Recorded' = Recorded /\ RowsCounted' /\ Enqueued' = Enqueued
  <2>1. /\ \A z \in Row : SamePlan(row[z].plan, row'[z].plan)
        /\ \A n \in Job : /\ SamePlan(job[n].plan, job'[n].plan)
                          /\ job'[n].at = job[n].at /\ job'[n].left = job[n].left
    BY <1>1, <1>2 DEF SamePlan
  <2>. QED BY <1>1, <1>2, <1>3, <2>1, KeptAsPlanned
<1>5. Typed'
  BY <1>1, <1>2, InvParts DEF Typed, schedule, restores
<1>6. JobsCounted'
  BY <1>1, <1>4, ScheduleStays
<1>7. \A o \in Purger : PurgeDue(purge[o])'
  BY <1>1, <1>4, PurgesGoOn
<1>8. \A o \in Restorer : Restores(restorer[o])'
  BY <1>1, <1>4, RestoresGoOn DEF restores
<1>. QED BY <1>4, <1>5, <1>6, <1>7, <1>8 DEF BackupInv

LEMMA TickInv ==
  ASSUME BackupInv, Tick
  PROVE  BackupInv'
<1>1. /\ \A r \in Runner : runner[r] = Idle \/ runner[r].late < MaxLate
      /\ next' = Max({next - 1, -MaxLate})
      /\ runner' = [r \in Runner |-> IF runner[r] = Idle THEN Idle
                                     ELSE [runner[r] EXCEPT !.late = @ + 1]]
      /\ row' = [x \in Row |-> [row[x] EXCEPT !.plan.due = Sooner(@)]]
      /\ job' = [n \in Job |-> [job[n] EXCEPT !.plan.due = Sooner(@)]]
      /\ UNCHANGED <<content, dest, writer, advances, purge, crashes, restorer, restored>>
  BY DEF Tick, storage, restores
<1>2. ASSUME NEW p \in Plan
      PROVE  /\ [p EXCEPT !.due = Sooner(@)] \in Plan
             /\ SamePlan(p, [p EXCEPT !.due = Sooner(@)])
             /\ p.due = 0 => [p EXCEPT !.due = Sooner(@)] = p
  BY SoonerIs DEF Plan, SamePlan
<1>3. ASSUME NEW x \in Row
      PROVE  /\ row'[x] \in Stored /\ SamePlan(row[x].plan, row'[x].plan)
             /\ row[x] = NoRow => row'[x] = NoRow
  <2>1. PICK p \in Plan : p = row[x].plan
    BY InvParts DEF Stored
  <2>2. PICK q \in Plan : q = [p EXCEPT !.due = Sooner(@)]
    BY <1>2
  <2>3. row'[x] = [row[x] EXCEPT !.plan = q]
    BY <1>1, <2>1, <2>2, InvParts DEF Stored
  <2>4. row'[x] \in Stored /\ row'[x].plan = q
    BY <2>3, InvParts DEF Stored
  <2>5. SamePlan(p, q) /\ (p.due = 0 => q = p)
    BY <1>2, <2>2
  <2>6. row[x] = NoRow => row'[x] = NoRow
    <3>1. row[x] = NoRow => p.due = 0
      BY <2>1 DEF NoRow, NoPlan
    <3>2. q = p => row'[x] = row[x]
      BY <2>1, <2>3, InvParts DEF Stored
    <3>. QED BY <2>5, <3>1, <3>2
  <2>. QED BY <2>1, <2>4, <2>5, <2>6
<1>4. ASSUME NEW n \in Job
      PROVE  /\ job'[n] \in JobRow /\ SamePlan(job[n].plan, job'[n].plan)
             /\ job'[n].at = job[n].at /\ job'[n].left = job[n].left
             /\ job'[n].attempts = job[n].attempts
  <2>1. PICK p \in Plan : p = job[n].plan
    BY InvParts DEF JobRow
  <2>2. PICK q \in Plan : q = [p EXCEPT !.due = Sooner(@)]
    BY <1>2
  <2>3. job'[n] = [job[n] EXCEPT !.plan = q]
    BY <1>1, <2>1, <2>2, InvParts DEF JobRow
  <2>4. /\ job'[n] \in JobRow /\ job'[n].plan = q /\ job'[n].at = job[n].at
        /\ job'[n].left = job[n].left /\ job'[n].attempts = job[n].attempts
    BY <2>3, InvParts DEF JobRow
  <2>. QED BY <1>2, <2>1, <2>2, <2>4
<1>5. row' \in [Row -> Stored] /\ job' \in [Job -> JobRow]
  BY <1>1, <1>3, <1>4
<1>6. Kept' /\ RowsStay /\ Recorded' = Recorded /\ RowsCounted' /\ Enqueued' = Enqueued
  BY <1>1, <1>3, <1>4, <1>5, KeptAsPlanned
<1>7. ASSUME NEW r \in Runner
      PROVE  runner'[r] \in Call /\ runner'[r].at = runner[r].at
  <2>1. runner[r] \in Call /\ (runner[r] = Idle \/ runner[r].late < MaxLate)
    BY <1>1, InvParts
  <2>2. CASE runner[r] = Idle
    BY <1>1, <2>1, <2>2
  <2>3. CASE runner[r] # Idle
    <3>1. runner'[r] = [runner[r] EXCEPT !.late = @ + 1] /\ runner[r].late + 1 \in 0..MaxLate
      BY <1>1, <2>1, <2>3, Constants DEF Call
    <3>. QED BY <2>1, <3>1 DEF Call
  <2>. QED BY <2>2, <2>3
<1>8. runner' \in [Runner -> Call] /\ Due' = Due /\ Waiting' = Waiting
  BY <1>1, <1>7 DEF Due, Waiting
<1>9. next' \in Int
  <2>1. next - 1 \in Int /\ -MaxLate \in Int
    BY InvParts, Constants DEF Typed
  <2>. QED BY <1>1, <2>1, MaxOfTwo
<1>10. Typed'
  BY <1>1, <1>4, <1>5, <1>8, <1>9, InvParts DEF Typed
<1>11. JobsCounted'
  BY <1>1, <1>6, <1>8, InvParts DEF JobsCounted
<1>12. \A o \in Purger : PurgeDue(purge[o])'
  BY <1>1, <1>6, PurgesGoOn
<1>13. \A o \in Restorer : Restores(restorer[o])'
  BY <1>1, <1>6, RestoresGoOn
<1>. QED BY <1>6, <1>10, <1>11, <1>12, <1>13 DEF BackupInv

\* Only a purge, a restore or a source moves on.
LEMMA Aside ==
  ASSUME BackupInv, UNCHANGED <<dest, writer, schedule, job, row, crashes>>,
         content' \in [Item -> Content], purge' \in [Purger -> Purge],
         restorer' \in [Restorer -> Visit], restored' \in [Item -> Content \cup {None}],
         \A o \in Purger : PurgeDue(purge[o])', \A o \in Restorer : Restores(restorer[o])'
  PROVE  BackupInv'
<1>1. Typed'
  BY InvParts DEF Typed, schedule
<1>2. Enqueued' = Enqueued /\ Done' = Done /\ Recorded' = Recorded
  BY DEF Enqueued, Done, Recorded
<1>3. JobsCounted'
  BY <1>2, ScheduleStays
<1>4. RowsCounted'
  BY <1>2, InvParts DEF RowsCounted
<1>5. Kept'
  BY <1>2, InvParts DEF Kept, Holds
<1>. QED BY <1>1, <1>3, <1>4, <1>5 DEF BackupInv

LEMMA EditInv ==
  ASSUME BackupInv, NEW i \in Edited, Edit(i)
  PROVE  BackupInv'
<1>1. /\ i \in Item /\ content' = [content EXCEPT ![i] = @ + 1]
      /\ UNCHANGED <<dest, writer, schedule, job, row, purge, crashes, restorer, restored>>
  BY BackupAssumption DEF Edit, storage, restores, Item
<1>2. content' \in [Item -> Content]
  BY <1>1, InvParts DEF Typed, Content
<1>3. RowsStay
  BY <1>1, RowsUntouched
<1>4. /\ \A o \in Purger : PurgeDue(purge[o])'
      /\ \A o \in Restorer : Restores(restorer[o])'
  BY <1>1, <1>3, PurgesGoOn, RestoresGoOn
<1>. QED BY <1>1, <1>2, <1>4, Aside, InvParts DEF Typed

LEMMA StartPurgeInv ==
  ASSUME BackupInv, NEW o \in Purger, NEW x \in Row, StartPurge(o, x)
  PROVE  BackupInv'
<1>1. /\ x \in Recorded /\ row[x].plan.due = 0
      /\ purge' = [purge EXCEPT ![o] = [of |-> x, left |-> Item]]
      /\ UNCHANGED <<content, dest, writer, schedule, job, row, crashes, restorer, restored>>
  BY DEF StartPurge, storage, restores
<1>2. /\ purge' \in [Purger -> Purge] /\ purge'[o] = [of |-> x, left |-> Item]
      /\ \A z \in Purger \ {o} : purge'[z] = purge[z]
  BY <1>1, InvParts DEF Typed, Purge
<1>3. RowsStay /\ Recorded' = Recorded
  BY <1>1, RowsUntouched
<1>4. ASSUME NEW z \in Purger
      PROVE  PurgeDue(purge[z])'
  <2>1. CASE z = o
    BY <1>1, <1>2, <1>3, <2>1 DEF PurgeDue
  <2>2. CASE z # o
    BY <1>2, <1>3, <2>2, PurgesGoOn
  <2>. QED BY <2>1, <2>2
<1>5. \A z \in Restorer : Restores(restorer[z])'
  BY <1>1, <1>3, RestoresGoOn
<1>. QED BY <1>1, <1>2, <1>4, <1>5, Aside, InvParts DEF Typed

\* The item a purge removes, and the plan, if any, whose copy it was.
LEMMA PurgeItemEffect ==
  ASSUME BackupInv, NEW o \in Purger, PurgeItem(o)
  PROVE  \E i \in Item :
           /\ i \in purge[o].left
           /\ dest' = [dest EXCEPT ![i] = None] /\ writer' = [writer EXCEPT ![i] = 0]
           /\ row' \in [Row -> Stored] /\ job' \in [Job -> JobRow]
           /\ \A x \in Row :
                /\ row'[x].plan.sha = row[x].plan.sha /\ row'[x].plan.due = row[x].plan.due
                /\ row'[x].plan.lost = IF writer[i] = x THEN row[x].plan.lost \cup {i}
                                                      ELSE row[x].plan.lost
                /\ writer[i] # x => row'[x] = row[x]
           /\ \A n \in Job :
                /\ job'[n].at = job[n].at /\ job'[n].left = job[n].left
                /\ job'[n].attempts = job[n].attempts
                /\ job'[n].plan.sha = job[n].plan.sha
                /\ job'[n].plan.lost = IF writer[i] = -n THEN job[n].plan.lost \cup {i}
                                                       ELSE job[n].plan.lost
           /\ purge' = [purge EXCEPT ![o] = IF @.left = {i} THEN NoPurge ELSE Without(@, i)]
           /\ UNCHANGED <<content, schedule, crashes, restores>>
<1>1. PICK i \in First(purge[o].left) :
        /\ dest' = [dest EXCEPT ![i] = None]
        /\ writer' = [writer EXCEPT ![i] = 0]
        /\ row' = IF writer[i] > 0 THEN [row EXCEPT ![writer[i]].plan.lost = @ \cup {i}] ELSE row
        /\ job' = IF writer[i] < 0 THEN [job EXCEPT ![-writer[i]].plan.lost = @ \cup {i}] ELSE job
        /\ purge' = [purge EXCEPT ![o] = IF @.left = {i} THEN NoPurge ELSE Without(@, i)]
        /\ UNCHANGED <<content, schedule, crashes, restores>>
  BY DEF PurgeItem
<1>2. i \in purge[o].left /\ i \in Item
  BY <1>1, InvParts DEF First, Purge
<1>3. /\ writer[i] \in Int
      /\ writer[i] > 0 => writer[i] \in Row
      /\ writer[i] < 0 => -writer[i] \in Job
  BY <1>2, InvParts DEF Kept, Recorded
<1>4. ASSUME NEW p \in Plan
      PROVE  /\ [p EXCEPT !.lost = @ \cup {i}] \in Plan
             /\ [p EXCEPT !.lost = @ \cup {i}].sha = p.sha
             /\ [p EXCEPT !.lost = @ \cup {i}].due = p.due
             /\ [p EXCEPT !.lost = @ \cup {i}].lost = p.lost \cup {i}
  BY <1>2 DEF Plan
<1>5. /\ row' \in [Row -> Stored]
      /\ \A x \in Row :
           /\ row'[x].plan.sha = row[x].plan.sha /\ row'[x].plan.due = row[x].plan.due
           /\ row'[x].plan.lost = IF writer[i] = x THEN row[x].plan.lost \cup {i}
                                                 ELSE row[x].plan.lost
           /\ writer[i] # x => row'[x] = row[x]
  <2>1. CASE writer[i] > 0
    <3>1. PICK w \in Row : w = writer[i]
      BY <1>3, <2>1
    <3>2. PICK p \in Plan : p = row[w].plan
      BY InvParts DEF Stored
    <3>3. PICK q \in Plan : q = [p EXCEPT !.lost = @ \cup {i}]
      BY <1>4
    <3>4. PICK y : y = [row[w] EXCEPT !.plan = q]
      OBVIOUS
    <3>5. y \in Stored /\ y.plan = q
      BY <3>4, InvParts DEF Stored
    <3>6. row' = [row EXCEPT ![w] = y]
      BY <1>1, <2>1, <3>1, <3>2, <3>3, <3>4, InvParts DEF Stored
    <3>7. row' \in [Row -> Stored] /\ row'[w] = y /\ \A x \in Row \ {w} : row'[x] = row[x]
      BY <3>5, <3>6, InvParts DEF Typed
    <3>8. /\ q.sha = p.sha /\ q.due = p.due /\ q.lost = p.lost \cup {i}
          /\ row'[w].plan = q /\ row[w].plan = p
      BY <1>4, <3>2, <3>3, <3>5, <3>7
    <3>. QED BY <3>1, <3>7, <3>8
  <2>2. CASE ~(writer[i] > 0)
    <3>1. row' = row /\ \A x \in Row : writer[i] # x
      BY <1>1, <2>2, Constants
    <3>. QED BY <3>1, InvParts DEF Typed
  <2>. QED BY <2>1, <2>2
<1>6. /\ job' \in [Job -> JobRow]
      /\ \A n \in Job :
           /\ job'[n].at = job[n].at /\ job'[n].left = job[n].left
           /\ job'[n].attempts = job[n].attempts
           /\ job'[n].plan.sha = job[n].plan.sha
           /\ job'[n].plan.lost = IF writer[i] = -n THEN job[n].plan.lost \cup {i}
                                                  ELSE job[n].plan.lost
  <2>1. CASE writer[i] < 0
    <3>1. PICK w \in Job : w = -writer[i]
      BY <1>3, <2>1
    <3>2. PICK p \in Plan : p = job[w].plan
      BY InvParts DEF JobRow
    <3>3. PICK q \in Plan : q = [p EXCEPT !.lost = @ \cup {i}]
      BY <1>4
    <3>4. PICK y : y = [job[w] EXCEPT !.plan = q]
      OBVIOUS
    <3>5. /\ y \in JobRow /\ y.plan = q /\ y.at = job[w].at /\ y.left = job[w].left
          /\ y.attempts = job[w].attempts
      BY <3>4, InvParts DEF JobRow
    <3>6. job' = [job EXCEPT ![w] = y]
      BY <1>1, <2>1, <3>1, <3>2, <3>3, <3>4, InvParts DEF JobRow
    <3>7. job' \in [Job -> JobRow] /\ job'[w] = y /\ \A n \in Job \ {w} : job'[n] = job[n]
      BY <3>5, <3>6, InvParts DEF Typed
    <3>8. \A n \in Job : writer[i] = -n <=> n = w
      BY <1>3, <3>1, Constants
    <3>9. /\ q.sha = p.sha /\ q.lost = p.lost \cup {i}
          /\ job'[w].plan = q /\ job[w].plan = p
      BY <1>4, <3>2, <3>3, <3>5, <3>7
    <3>. QED BY <3>5, <3>7, <3>8, <3>9
  <2>2. CASE ~(writer[i] < 0)
    <3>1. job' = job /\ \A n \in Job : writer[i] # -n
      BY <1>1, <2>2, Constants
    <3>. QED BY <3>1, InvParts DEF Typed
  <2>. QED BY <2>1, <2>2
<1>. QED BY <1>1, <1>2, <1>5, <1>6

LEMMA PurgeItemInv ==
  ASSUME BackupInv, NEW o \in Purger, PurgeItem(o)
  PROVE  BackupInv'
<1>1. PICK i \in Item :
        /\ i \in purge[o].left
        /\ dest' = [dest EXCEPT ![i] = None] /\ writer' = [writer EXCEPT ![i] = 0]
        /\ row' \in [Row -> Stored] /\ job' \in [Job -> JobRow]
        /\ \A x \in Row :
             /\ row'[x].plan.sha = row[x].plan.sha /\ row'[x].plan.due = row[x].plan.due
             /\ row'[x].plan.lost = IF writer[i] = x THEN row[x].plan.lost \cup {i}
                                                   ELSE row[x].plan.lost
             /\ writer[i] # x => row'[x] = row[x]
        /\ \A n \in Job :
             /\ job'[n].at = job[n].at /\ job'[n].left = job[n].left
             /\ job'[n].attempts = job[n].attempts
             /\ job'[n].plan.sha = job[n].plan.sha
             /\ job'[n].plan.lost = IF writer[i] = -n THEN job[n].plan.lost \cup {i}
                                                    ELSE job[n].plan.lost
        /\ purge' = [purge EXCEPT ![o] = IF @.left = {i} THEN NoPurge ELSE Without(@, i)]
        /\ UNCHANGED <<content, schedule, crashes, restores>>
  BY PurgeItemEffect
<1>2. /\ i \in purge[o].left /\ row' \in [Row -> Stored] /\ job' \in [Job -> JobRow]
      /\ UNCHANGED <<content, schedule, crashes, restores>>
  BY <1>1, Zenon
<1>3. /\ dest' \in [Item -> Content \cup {None}]
      /\ writer' \in [Item -> -MaxJobs..(MaxJobs + MaxCrashes)]
      /\ dest'[i] = None /\ writer'[i] = 0
      /\ \A k \in Item \ {i} : dest'[k] = dest[k] /\ writer'[k] = writer[k]
  BY <1>1, InvParts, Constants DEF Typed
<1>4. /\ \A x \in Row :
           /\ row'[x].plan.sha = row[x].plan.sha /\ row'[x].plan.due = row[x].plan.due
           /\ writer[i] # x => row'[x] = row[x]
      /\ \A x \in Row : writer[i] = x => row'[x].plan.lost = row[x].plan.lost \cup {i}
  BY <1>1, Zenon
<1>5. /\ \A n \in Job :
           /\ job'[n].at = job[n].at /\ job'[n].left = job[n].left
           /\ job'[n].attempts = job[n].attempts /\ job'[n].plan.sha = job[n].plan.sha
           /\ writer[i] = -n => job'[n].plan.lost = job[n].plan.lost \cup {i}
           /\ writer[i] # -n => job'[n].plan.lost = job[n].plan.lost
      /\ Enqueued' = Enqueued /\ Done' = Done
  <2>1. \A n \in Job :
          /\ job'[n].at = job[n].at /\ job'[n].left = job[n].left
          /\ job'[n].attempts = job[n].attempts /\ job'[n].plan.sha = job[n].plan.sha
          /\ writer[i] = -n => job'[n].plan.lost = job[n].plan.lost \cup {i}
          /\ writer[i] # -n => job'[n].plan.lost = job[n].plan.lost
    BY <1>1, Zenon
  <2>. QED BY <2>1 DEF Enqueued, Done
<1>6. Recorded' = Recorded
  <2>1. ASSUME NEW x \in Row
        PROVE  row'[x] # NoRow <=> row[x] # NoRow
    <3>1. CASE writer[i] = x
      <4>1. x \in Recorded
        BY <3>1, InvParts, Constants DEF Kept
      <4>2. Holds(row[x].plan, {}, x)
        BY <4>1, InvParts DEF Kept
      <4>3. row'[x] # NoRow
        BY <1>4, <4>2, PlannedIsRow DEF Holds
      <4>. QED BY <4>1, <4>3 DEF Recorded
    <3>2. CASE writer[i] # x
      BY <1>4, <3>2
    <3>. QED BY <3>1, <3>2
  <2>. QED BY <2>1 DEF Recorded
<1>7. RowsStay
  BY <1>4, <1>6 DEF RowsStay, Recorded
<1>8. ASSUME NEW x \in Recorded
      PROVE  Holds(row[x].plan, {}, x)'
  <2>1. Holds(row[x].plan, {}, x) /\ x \in Row
    BY InvParts DEF Kept, Recorded
  <2>2. CASE writer[i] = x
    <3>1. /\ row'[x].plan.lost = row[x].plan.lost \cup {i}
          /\ row'[x].plan.sha = row[x].plan.sha
      BY <1>4, <2>1, <2>2
    <3>. QED BY <1>3, <2>1, <3>1 DEF Holds
  <2>3. CASE writer[i] # x
    <3>1. row'[x] = row[x]
      BY <1>4, <2>1, <2>3
    <3>. QED BY <1>3, <2>1, <2>3, <3>1 DEF Holds
  <2>. QED BY <2>2, <2>3
<1>9. ASSUME NEW n \in Job, job'[n].at = "copying"
      PROVE  Holds(job[n].plan, job[n].left, -n)'
  <2>1. Holds(job[n].plan, job[n].left, -n)
    BY <1>5, <1>9, InvParts DEF Kept
  <2>2. job'[n].left = job[n].left /\ job'[n].plan.sha = job[n].plan.sha
    BY <1>5
  <2>3. CASE writer[i] = -n
    <3>1. job'[n].plan.lost = job[n].plan.lost \cup {i}
      BY <1>5, <2>3
    <3>. QED BY <1>3, <2>1, <2>2, <3>1 DEF Holds
  <2>4. CASE writer[i] # -n
    <3>1. job'[n].plan.lost = job[n].plan.lost
      BY <1>5, <2>4
    <3>. QED BY <1>3, <2>1, <2>2, <2>4, <3>1 DEF Holds
  <2>. QED BY <2>3, <2>4
<1>10. \A k \in Item :
        /\ writer'[k] > 0 => writer'[k] \in Recorded'
        /\ writer'[k] < 0 => -writer'[k] \in Job /\ job'[-writer'[k]].at = "copying"
  BY <1>3, <1>5, <1>6, InvParts DEF Kept
<1>11. Kept'
  BY <1>6, <1>8, <1>9, <1>10 DEF Kept
<1>12. /\ purge' \in [Purger -> Purge]
       /\ \A z \in Purger \ {o} : purge'[z] = purge[z]
       /\ purge'[o].left = {} \/ purge'[o].of = purge[o].of
  <2>1. PICK u : u = IF purge[o].left = {i} THEN NoPurge ELSE Without(purge[o], i)
    OBVIOUS
  <2>2. Without(purge[o], i) \in Purge /\ Without(purge[o], i).of = purge[o].of
    BY InvParts DEF Purge, Without
  <2>3. u \in Purge /\ (u.left = {} \/ u.of = purge[o].of)
    BY <2>1, <2>2, EmptyRows DEF NoPurge
  <2>4. purge' = [purge EXCEPT ![o] = u]
    BY <1>1, <2>1, Zenon
  <2>. QED BY <2>3, <2>4, InvParts DEF Typed
<1>13. ASSUME NEW z \in Purger
       PROVE  PurgeDue(purge[z])'
  <2>1. CASE z = o
    <3>1. PICK x : x = purge[o].of
      OBVIOUS
    <3>2. x \in Recorded /\ row[x].plan.due = 0
      BY <1>2, <3>1, InvParts DEF PurgeDue
    <3>3. x \in Recorded' /\ row'[x].plan.due = 0
      BY <1>7, <3>2 DEF RowsStay
    <3>. QED BY <1>12, <2>1, <3>1, <3>3 DEF PurgeDue
  <2>2. CASE z # o
    BY <1>7, <1>12, <2>2, PurgesGoOn
  <2>. QED BY <2>1, <2>2
<1>14. \A z \in Restorer : Restores(restorer[z])'
  BY <1>2, <1>7, RestoresGoOn DEF restores
<1>15. Typed'
  BY <1>2, <1>3, <1>5, <1>12, InvParts DEF Typed, schedule, restores
<1>16. JobsCounted'
  BY <1>2, <1>5, ScheduleStays
<1>17. RowsCounted'
  BY <1>2, <1>5, <1>6, InvParts DEF RowsCounted
<1>. QED BY <1>11, <1>13, <1>14, <1>15, <1>16, <1>17 DEF BackupInv

-----------------------------------------------------------------------------
(* Restores                                                                   *)

\* One restore moves on to v; what the others restored is not replaced.
LEMMA RestoreStep ==
  ASSUME BackupInv, NEW o \in Restorer, NEW v \in Visit,
         restorer' = [restorer EXCEPT ![o] = v], Restores(v)',
         UNCHANGED <<content, storage, schedule, job, row, purge, crashes>>,
         restored' \in [Item -> Content \cup {None}],
         \A i \in Item : restored[i] # None => restored'[i] = restored[i]
  PROVE  BackupInv'
<1>1. /\ restorer' \in [Restorer -> Visit] /\ restorer'[o] = v
      /\ \A z \in Restorer \ {o} : restorer'[z] = restorer[z]
  BY InvParts DEF Typed
<1>2. RowsStay /\ Recorded' = Recorded
  BY RowsUntouched
<1>3. ASSUME NEW z \in Restorer, z # o
      PROVE  Restores(restorer[z])'
  <2>1. PICK w \in Visit : w = restorer[z]
    BY InvParts
  <2>2. Restores(w)
    BY <2>1, InvParts
  <2>3. ASSUME w.at \in {"check", "copy", "restored"}
        PROVE  /\ w.of \in Recorded'
               /\ \A i \in Item \ w.left : restored'[i] = row'[w.of].plan.sha[i]
    <3>1. PICK x \in Recorded : x = w.of
      BY <2>2, <2>3 DEF Restores
    <3>2. \A i \in Item \ w.left : restored[i] = row[x].plan.sha[i]
      BY <2>2, <2>3, <3>1 DEF Restores
    <3>3. \A i \in Item : row[x].plan.sha[i] # None
      BY InvParts DEF Kept, Holds
    <3>. QED BY <1>2, <3>1, <3>2, <3>3
  <2>4. Restores(w)'
    BY <2>2, <2>3 DEF Restores
  <2>. QED BY <1>1, <1>3, <2>1, <2>4 DEF Restores
<1>4. \A z \in Restorer : Restores(restorer[z])'
  <2>1. Restores(restorer[o])'
    BY <1>1 DEF Restores
  <2>. QED BY <1>3, <2>1
<1>5. \A z \in Purger : PurgeDue(purge[z])'
  BY <1>2, PurgesGoOn
<1>6. purge' \in [Purger -> Purge] /\ content' \in [Item -> Content]
  BY InvParts DEF Typed
<1>. QED BY <1>1, <1>4, <1>5, <1>6, Aside DEF storage

LEMMA StartRestoreInv ==
  ASSUME BackupInv, NEW o \in Restorer, NEW x \in Row, StartRestore(o, x)
  PROVE  BackupInv'
<1>1. PICK v : v = [of |-> x, at |-> "check", left |-> Item]
  OBVIOUS
<1>2. /\ x \in Recorded /\ restorer' = [restorer EXCEPT ![o] = v]
      /\ UNCHANGED <<content, storage, schedule, job, row, purge, restored, crashes>>
  BY <1>1 DEF StartRestore
<1>3. v \in Visit /\ v.of = x /\ v.at = "check" /\ v.left = Item
  BY <1>1 DEF Visit
<1>4. Restores(v)'
  BY <1>2, <1>3, RowsUntouched DEF Restores
<1>. QED BY <1>2, <1>3, <1>4, RestoreStep, InvParts DEF Typed

LEMMA RestingRestores == Resting \in Visit /\ Restores(Resting)'
BY EmptyRows DEF Resting, Restores

LEMMA CheckRestoreInv ==
  ASSUME BackupInv, NEW o \in Restorer, CheckRestore(o)
  PROVE  BackupInv'
<1>1. PICK i \in First(restorer[o].left) :
        /\ restorer[o].at = "check"
        /\ restorer' = [restorer EXCEPT ![o] =
             IF restored[i] = None /\ dest[i] = row[@.of].plan.sha[i]
             THEN [@ EXCEPT !.at = "copy"] ELSE Resting]
        /\ UNCHANGED <<content, storage, schedule, job, row, purge, restored, crashes>>
  BY DEF CheckRestore
<1>2. PICK u : u = [restorer[o] EXCEPT !.at = "copy"]
  OBVIOUS
<1>3. /\ u \in Visit /\ u.of = restorer[o].of /\ u.at = "copy" /\ u.left = restorer[o].left
  BY <1>2, InvParts DEF Visit
<1>4. restorer' = [restorer EXCEPT ![o] = u] \/ restorer' = [restorer EXCEPT ![o] = Resting]
  BY <1>1, <1>2, Zenon
<1>5. Restores(u)'
  <2>1. Restores(restorer[o])
    BY InvParts
  <2>. QED BY <1>1, <1>3, <2>1, RowsUntouched DEF Restores
<1>. QED BY <1>1, <1>3, <1>4, <1>5, RestingRestores, RestoreStep, InvParts DEF Typed

LEMMA RestoreItemInv ==
  ASSUME BackupInv, NEW o \in Restorer, RestoreItem(o)
  PROVE  BackupInv'
<1>. DEFINE fits == {i \in Item : dest[i] = row[restorer[o].of].plan.sha[i]}
            copied(i) == restored[i] = None /\ dest[i] # None
<1>1. PICK i \in First(restorer[o].left) :
        /\ restorer[o].at = "copy"
        /\ restored' = IF copied(i) THEN [restored EXCEPT ![i] = dest[i]] ELSE restored
        /\ restorer' = [restorer EXCEPT ![o] =
             IF ~copied(i) \/ i \notin fits THEN Resting
             ELSE [Without(@, i) EXCEPT !.at = IF restorer[o].left = {i} THEN "restored"
                                                                        ELSE "check"]]
        /\ UNCHANGED <<content, storage, schedule, job, row, purge, crashes>>
  BY DEF RestoreItem, RestoreNext
<1>2. i \in restorer[o].left /\ i \in Item
  BY <1>1, InvParts DEF First, Visit
<1>3. /\ restored' \in [Item -> Content \cup {None}]
      /\ \A k \in Item : restored[k] # None => restored'[k] = restored[k]
      /\ copied(i) => restored'[i] = dest[i]
      /\ \A k \in Item \ {i} : restored'[k] = restored[k]
  BY <1>1, <1>2, InvParts DEF Typed
<1>4. PICK v : v = [Without(restorer[o], i) EXCEPT
                      !.at = IF restorer[o].left = {i} THEN "restored" ELSE "check"]
  OBVIOUS
<1>5. /\ v \in Visit /\ v.of = restorer[o].of /\ v.left = restorer[o].left \ {i}
      /\ v.at = IF restorer[o].left = {i} THEN "restored" ELSE "check"
  BY <1>4, InvParts DEF Visit, Without
<1>6. CASE ~copied(i) \/ i \notin fits
  <2>1. restorer' = [restorer EXCEPT ![o] = Resting]
    BY <1>1, <1>6, Zenon
  <2>. QED BY <1>1, <1>3, <2>1, RestingRestores, RestoreStep
<1>7. CASE copied(i) /\ i \in fits
  <2>1. restorer' = [restorer EXCEPT ![o] = v]
    BY <1>1, <1>4, <1>7, Zenon
  <2>2. Restores(restorer[o])
    BY InvParts
  <2>3. restored'[i] = row[restorer[o].of].plan.sha[i]
    BY <1>3, <1>7
  <2>4. /\ restorer[o].of \in Recorded
        /\ \A k \in Item \ restorer[o].left : restored[k] = row[restorer[o].of].plan.sha[k]
    BY <1>1, <2>2 DEF Restores
  <2>5. \A k \in Item \ v.left : restored'[k] = row[v.of].plan.sha[k]
    BY <1>2, <1>3, <1>5, <2>3, <2>4
  <2>6. Restores(v)'
    BY <1>1, <1>5, <2>4, <2>5, RowsUntouched DEF Restores
  <2>. QED BY <1>1, <1>3, <1>5, <2>1, <2>6, RestoreStep
<1>. QED BY <1>6, <1>7

-----------------------------------------------------------------------------
(* The invariant                                                              *)

LEMMA InitBackupInv == Init => BackupInv
<1>. SUFFICES ASSUME Init PROVE BackupInv
  OBVIOUS
<1>1. Typed
  BY EmptyRows, Constants DEF Init, Typed, Content
<1>2. Enqueued = {} /\ Due = {} /\ Waiting = {} /\ Recorded = {} /\ Done = {}
  BY EmptyRows, Constants DEF Init, Enqueued, Due, Waiting, Recorded, Done, Idle
<1>3. Cardinality({}) = 0 /\ 1..0 = {}
  BY FS_EmptySet
<1>4. JobsCounted /\ RowsCounted
  <2>1. /\ Cardinality(Enqueued) = 0 /\ Cardinality(Due) = 0 /\ Cardinality(Waiting) = 0
        /\ Cardinality(Recorded) = 0 /\ Cardinality(Done) = 0
    BY <1>2, <1>3, Zenon
  <2>. QED BY <1>2, <1>3, <2>1, Constants DEF Init, JobsCounted, RowsCounted
<1>5. Kept
  BY <1>2, EmptyRows DEF Init, Kept
<1>6. (\A o \in Purger : PurgeDue(purge[o])) /\ (\A o \in Restorer : Restores(restorer[o]))
  BY DEF Init, PurgeDue, NoPurge, Restores, Resting
<1>. QED BY <1>1, <1>4, <1>5, <1>6 DEF BackupInv

LEMMA StepBackupInv == BackupInv /\ [Next]_vars => BackupInv'
<1>. SUFFICES ASSUME BackupInv, [Next]_vars PROVE BackupInv'
  OBVIOUS
<1>1. ASSUME NEW r \in Runner, ReadDue(r) \/ EnqueueBackup(r) \/ Advance(r) \/ RunnerDies(r)
      PROVE  BackupInv'
  BY <1>1, ReadDueInv, EnqueueBackupInv, AdvanceInv, RunnerDiesInv
<1>2. ASSUME NEW n \in Job, \/ PlanBackup(n) \/ CopyItem(n) \/ RecordBackup(n)
                            \/ ReportBackup(n) \/ WorkerDies(n)
      PROVE  BackupInv'
  BY <1>2, PlanBackupInv, CopyItemInv, RecordBackupInv, ReportBackupInv, WorkerDiesInv
<1>3. ASSUME NEW x \in Row, Lock(x)
      PROVE  BackupInv'
  BY <1>3, LockInv
<1>4. ASSUME NEW o \in Purger, PurgeItem(o) \/ (\E x \in Row : StartPurge(o, x))
      PROVE  BackupInv'
  BY <1>4, PurgeItemInv, StartPurgeInv
<1>5. ASSUME NEW o \in Restorer,
             CheckRestore(o) \/ RestoreItem(o) \/ (\E x \in Row : StartRestore(o, x))
      PROVE  BackupInv'
  BY <1>5, CheckRestoreInv, RestoreItemInv, StartRestoreInv
<1>6. ASSUME NEW i \in Edited, Edit(i)
      PROVE  BackupInv'
  BY <1>6, EditInv
<1>7. CASE Tick
  BY <1>7, TickInv
<1>8. CASE UNCHANGED vars
  <2>1. UNCHANGED <<content, dest, writer, schedule, job, row, purge, crashes, restorer, restored>>
    BY <1>8 DEF vars, schedule
  <2>2. RowsStay
    BY <2>1, RowsUntouched
  <2>3. /\ \A o \in Purger : PurgeDue(purge[o])'
        /\ \A o \in Restorer : Restores(restorer[o])'
    BY <2>1, <2>2, PurgesGoOn, RestoresGoOn
  <2>. QED BY <2>1, <2>3, Aside, InvParts DEF Typed
<1>. QED BY <1>1, <1>2, <1>3, <1>4, <1>5, <1>6, <1>7, <1>8 DEF Next

\* Every reachable state satisfies the inductive invariant: jobs and rows are
\* numbered without a gap, every copy in the backup directory is that of its
\* row or of a job at work, and purges and restores keep what they checked.
THEOREM BackupInvariance == Spec => []BackupInv
BY InitBackupInv, StepBackupInv, PTL DEF Spec

\* A due run is never dropped: whatever dies between run_due's steps, the
\* schedule has not been advanced more often than jobs were enqueued.
THEOREM NoRunLost == Spec => []NoRunDropped
<1>1. ASSUME BackupInv
      PROVE  NoRunDropped
  <2>1. Cardinality(Waiting) \in Nat /\ Cardinality(Enqueued) \in Nat /\ advances \in Nat
    BY <1>1, SetsFinite, InvParts DEF Waiting, Enqueued, Typed
  <2>. QED BY <1>1, <2>1, InvParts DEF JobsCounted, NoRunDropped
<1>. QED BY <1>1, BackupInvariance, PTL

\* Every variable keeps its type, and each row of the backups table stands for
\* a whole backup with the planned digests, but for the items that purges
\* removed, whatever was edited, failed or died meanwhile.
THEOREM RowsAreWhole == Spec => []RecordedIsWhole
<1>1. ASSUME BackupInv
      PROVE  RecordedIsWhole
  <2>1. TypeOK
    <3>1. /\ content \in [Item -> Content] /\ dest \in [Item -> Content \cup {None}]
          /\ next \in Int
          /\ runner \in [Runner -> [at : {"idle", "due", "enqueued"}, late : 0..MaxLate]]
          /\ purge \in [Purger -> [of : Row \cup {0}, left : SUBSET Item]]
          /\ restorer \in [Restorer -> [of : Row \cup {0},
                                        at : {"idle", "check", "copy", "restored"},
                                        left : SUBSET Item]]
          /\ restored \in [Item -> Content \cup {None}]
          /\ crashes \in 0..MaxCrashes /\ advances \in Nat
          /\ writer \in [Item -> -MaxJobs..(MaxJobs + MaxCrashes)]
      BY <1>1, InvParts DEF Typed, Call, Purge, Visit
    <3>2. \A n \in Job :
            /\ job[n].at \in {"absent", "queued", "copying", "recorded", "completed", "failed"}
            /\ job[n].attempts \in 0..Limit /\ job[n].left \subseteq Item
      BY <1>1, InvParts DEF JobRow
    <3>3. \A x \in Row : row[x].locked \in BOOLEAN
      BY <1>1, InvParts DEF Stored
    <3>4. \A p \in {job[n].plan : n \in Job} \cup {row[x].plan : x \in Row} :
            /\ p.sha \in [Item -> Content \cup {None}]
            /\ p.due \in 0..Retention /\ p.lost \subseteq Item
      BY <1>1, InvParts DEF JobRow, Stored, Plan
    <3>. QED BY <3>1, <3>2, <3>3, <3>4 DEF TypeOK
  <2>2. ASSUME NEW x \in Recorded
        PROVE  \A i \in Item \ row[x].plan.lost : dest[i] = row[x].plan.sha[i]
    BY <1>1, InvParts DEF Kept, Holds
  <2>. QED BY <2>1, <2>2 DEF RecordedIsWhole
<1>. QED BY <1>1, BackupInvariance, PTL

\* A restore that reported success has every file as its row planned it, even
\* if purges and later backups changed the copies between its checks.
THEOREM RestoresAreWhole == Spec => []RestoredIsWhole
<1>1. ASSUME BackupInv
      PROVE  RestoredIsWhole
  <2>1. ASSUME NEW o \in Restorer, restorer[o].at = "restored"
        PROVE  restored = row[restorer[o].of].plan.sha
    <3>1. PICK x \in Recorded : x = restorer[o].of
      BY <1>1, <2>1, InvParts DEF Restores
    <3>2. \A i \in Item : restored[i] = row[x].plan.sha[i]
      BY <1>1, <2>1, <3>1, InvParts DEF Restores
    <3>3. /\ row[x].plan.sha \in [Item -> Content \cup {None}]
          /\ restored \in [Item -> Content \cup {None}]
      BY <1>1, InvParts DEF Recorded, Stored, Plan, Typed
    <3>. QED BY <3>1, <3>2, <3>3
  <2>. QED BY <2>1 DEF RestoredIsWhole
<1>. QED BY <1>1, BackupInvariance, PTL

\* A purge takes away only expired copies, unless its row had already lost its
\* own at that path to an earlier purge.
THEOREM PurgesTakeTheirOwn == Spec => PurgeTakesOwn
<1>1. ASSUME BackupInv, [Next]_vars, NEW o \in Purger, NEW i \in Item,
             purge'[o] # purge[o], i \in Taken, dest'[i] = None
      PROVE  \/ writer[i] > 0 /\ row[writer[i]].plan.due = 0
             \/ i \in row[purge[o].of].plan.lost
  <2>1. dest[i] # None
    BY <1>1 DEF Taken
  <2>2. \E z \in Purger : PurgeItem(z)
    <3>1. ASSUME NEW r \in Runner, ReadDue(r) \/ EnqueueBackup(r) \/ Advance(r) \/ RunnerDies(r)
          PROVE  UNCHANGED purge
      BY <3>1 DEF ReadDue, EnqueueBackup, Advance, MoveOn, RunnerDies
    <3>2. ASSUME NEW n \in Job, \/ PlanBackup(n) \/ CopyItem(n) \/ RecordBackup(n)
                                \/ ReportBackup(n) \/ WorkerDies(n)
          PROVE  UNCHANGED purge
      BY <3>2 DEF PlanBackup, CopyItem, CopyNext, RecordBackup, ReportBackup, WorkerDies
    <3>3. ASSUME NEW x \in Row, Lock(x)
          PROVE  UNCHANGED purge
      BY <3>3 DEF Lock
    <3>4. ASSUME NEW z \in Purger, NEW x \in Row, StartPurge(z, x)
          PROVE  UNCHANGED dest
      BY <3>4 DEF StartPurge, storage
    <3>5. ASSUME NEW z \in Restorer,
                 CheckRestore(z) \/ RestoreItem(z) \/ (\E x \in Row : StartRestore(z, x))
          PROVE  UNCHANGED purge
      BY <3>5 DEF CheckRestore, RestoreItem, RestoreNext, StartRestore
    <3>6. ASSUME NEW k \in Edited, Edit(k)
          PROVE  UNCHANGED purge
      BY <3>6 DEF Edit
    <3>7. Tick \/ UNCHANGED vars => UNCHANGED purge
      BY DEF Tick, vars
    <3>. QED BY <1>1, <2>1, <3>1, <3>2, <3>3, <3>4, <3>5, <3>6, <3>7 DEF Next
  <2>3. PICK z \in Purger, k \in Item :
          /\ k \in purge[z].left /\ dest' = [dest EXCEPT ![k] = None]
          /\ purge' = [purge EXCEPT ![z] = IF @.left = {k} THEN NoPurge ELSE Without(@, k)]
    BY <1>1, <2>2, PurgeItemEffect
  <2>4. k = i
    BY <1>1, <2>1, <2>3
  <2>5. z = o
    <3>1. PICK u : u = IF purge[z].left = {k} THEN NoPurge ELSE Without(purge[z], k)
      OBVIOUS
    <3>2. purge' = [purge EXCEPT ![z] = u]
      BY <2>3, <3>1, Zenon
    <3>. QED BY <1>1, <3>2, InvParts DEF Typed
  <2>6. PICK x : x = purge[o].of
    OBVIOUS
  <2>7. x \in Recorded /\ row[x].plan.due = 0
    BY <1>1, <2>3, <2>5, <2>6, InvParts DEF PurgeDue
  <2>8. Holds(row[x].plan, {}, x) /\ x > 0
    BY <1>1, <2>7, InvParts, Constants DEF Kept, Recorded
  <2>. QED BY <2>6, <2>7, <2>8 DEF Holds
<1>2. BackupInv /\ [Next]_vars =>
        [\A o \in Purger, i \in Item :
           purge'[o] # purge[o] /\ i \in Taken /\ dest'[i] = None =>
             \/ writer[i] > 0 /\ row[writer[i]].plan.due = 0
             \/ i \in row[purge[o].of].plan.lost]_vars
  BY <1>1
<1>. QED BY <1>2, BackupInvariance, PTL DEF Spec, PurgeTakesOwn

=============================================================================
