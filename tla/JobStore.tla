------------------------------ MODULE JobStore ------------------------------
(***************************************************************************)
(* The durable job queue of teldrive_lab/jobs.py: one SQLite table of jobs  *)
(* and the methods of JobStore, one action per SQL statement that commits.  *)
(*                                                                          *)
(* A method whose guard is the WHERE clause of a single UPDATE is one       *)
(* action.  claim() is one action too: it runs under BEGIN IMMEDIATE.       *)
(* retry() and enqueue(parent_job_id=...) first SELECT and then write.      *)
(* sqlite3 opens the transaction at the write only, so other connections    *)
(* may commit between the two statements: each is a pair of actions, and    *)
(* what the call has read waits in call[c].                                 *)
(*                                                                          *)
(* Timestamps are kept as the time left until them: lease_until = now + 2   *)
(* is 2, a lease_until before now is Past, and Tick lets one unit of time   *)
(* pass.  SQL NULL is Null.                                                 *)
(***************************************************************************)
EXTENDS Integers

CONSTANTS
  Job,            \* the job ids that may be enqueued
  WorkerId,         \* the worker_id strings in use
  Caller,         \* the connections that may be inside retry() or enqueue()
  Limits,         \* the max_attempts values callers pass
  Priorities,     \* the ranks of the priorities callers pass (claim's CASE)
  LeaseSeconds,   \* the lease length, in units of time
  Delays,         \* the retry delays, in units of time
  NoJob, NoWorker \* SQL NULL in parent_job_id and worker_id

Null == -2
Past == -1

ASSUME StoreAssumption ==
  /\ Limits \subseteq Nat \ {0}            \* enqueue rejects max_attempts < 1
  /\ Priorities \subseteq 0..4
  /\ LeaseSeconds \in Nat \ {0}            \* claim rejects lease_seconds <= 0
  /\ Delays \subseteq Nat                  \* retry rejects a negative delay
  /\ NoJob \notin Job
  /\ NoWorker \notin WorkerId

VARIABLES
  jobs,      \* the jobs table: one row per job id
  inserted,  \* rows inserted so far; created is the rank of the insertion
  call       \* what each caller inside a two-statement method has read

vars == <<jobs, inserted, call>>

Terminal == {"COMPLETED", "FAILED", "CANCELLED"}
Owned    == {"RUNNING", "VERIFYING"}
Live     == {"QUEUED", "RUNNING", "PAUSED", "VERIFYING"}
JobState == Live \cup Terminal

\* Progress in three steps: nothing or little, the 0.999999 that
\* begin_verification caps at, and 1.
Capped == 1
Full   == 2

Row == [state: JobState \cup {"ABSENT"}, priority: 0..4, created: Nat,
        attempts: Nat, limit: Nat, retryAt: Nat \cup {Null},
        progress: 0..Full, owner: WorkerId \cup {NoWorker},
        lease: 0..LeaseSeconds \cup {Past, Null}, parent: Job \cup {NoJob}]

NoRow == [state |-> "ABSENT", priority |-> 0, created |-> 0, attempts |-> 0,
          limit |-> 0, retryAt |-> Null, progress |-> 0, owner |-> NoWorker,
          lease |-> Null, parent |-> NoJob]

Idle == [at |-> "idle", job |-> NoJob, worker |-> NoWorker,
         attempts |-> 0, limit |-> 0]
CallState == [at: {"idle", "retry", "enqueue"}, job: Job \cup {NoJob},
              worker: WorkerId \cup {NoWorker}, attempts: Nat, limit: Nat]

Present(j) == jobs[j].state # "ABSENT"
OwnedBy(j, w) == jobs[j].owner = w /\ jobs[j].state \in Owned
RunningBy(j, w) == jobs[j].owner = w /\ jobs[j].state = "RUNNING"
VerifyingBy(j, w) == jobs[j].owner = w /\ jobs[j].state = "VERIFYING"

\* The row r in state s, with worker_id and lease_until set to NULL.
Freed(r, s) == [r EXCEPT !.state = s, !.owner = NoWorker, !.lease = Null]

Init ==
  /\ jobs = [j \in Job |-> NoRow]
  /\ inserted = 0
  /\ call = [c \in Caller |-> Idle]

-----------------------------------------------------------------------------
(* enqueue *)

NewRow(parent, priority, limit) ==
  [NoRow EXCEPT !.state = "QUEUED", !.priority = priority,
                !.created = inserted, !.limit = limit, !.parent = parent]

Insert(j, parent, priority, limit) ==
  /\ ~Present(j)
  /\ jobs' = [jobs EXCEPT ![j] = NewRow(parent, priority, limit)]
  /\ inserted' = inserted + 1

Enqueue(j, priority, limit) ==
  /\ Insert(j, NoJob, priority, limit)
  /\ UNCHANGED call

\* enqueue(parent_job_id=p): the SELECT that admits the parent ...
EnqueueRead(c, p) ==
  /\ call[c] = Idle
  /\ Present(p)
  /\ jobs[p].state \notin Terminal
  /\ call' = [call EXCEPT ![c] = [Idle EXCEPT !.at = "enqueue", !.job = p]]
  /\ UNCHANGED <<jobs, inserted>>

\* ... and the INSERT, which does not look at the parent again.
EnqueueWrite(c, j, priority, limit) ==
  /\ call[c].at = "enqueue"
  /\ Insert(j, call[c].job, priority, limit)
  /\ call' = [call EXCEPT ![c] = Idle]

-----------------------------------------------------------------------------
(* claim, renew_lease, update_progress, and the verification boundary *)

\* Mutant of Runnable: claim takes over a lapsed row itself.
RunnableOrLapsed(j) ==
  \/ jobs[j].state = "QUEUED" /\ jobs[j].retryAt \in {Null, 0}
  \/ jobs[j].state = "RUNNING" /\ jobs[j].lease = Past

Runnable(j) == jobs[j].state = "QUEUED" /\ jobs[j].retryAt \in {Null, 0}

\* ORDER BY priority rank, created
Before(i, j) ==
  \/ jobs[i].priority < jobs[j].priority
  \/ jobs[i].priority = jobs[j].priority /\ jobs[i].created < jobs[j].created

Claim(j, w) ==
  /\ Runnable(j)
  /\ \A i \in Job \ {j} : Runnable(i) => Before(j, i)
  /\ jobs' = [jobs EXCEPT ![j] = [@ EXCEPT !.state = "RUNNING", !.owner = w,
                                           !.lease = LeaseSeconds]]
  /\ UNCHANGED <<inserted, call>>

RenewLease(j, w) ==
  /\ RunningBy(j, w)
  /\ jobs' = [jobs EXCEPT ![j].lease = LeaseSeconds]
  /\ UNCHANGED <<inserted, call>>

UpdateProgress(j, w, p) ==
  /\ RunningBy(j, w)
  /\ jobs' = [jobs EXCEPT ![j].progress = p]
  /\ UNCHANGED <<inserted, call>>

BeginVerification(j, w) ==
  /\ RunningBy(j, w)
  /\ jobs' = [jobs EXCEPT ![j] = [@ EXCEPT !.state = "VERIFYING",
                !.progress = IF jobs[j].progress > Capped THEN Capped
                             ELSE jobs[j].progress]]
  /\ UNCHANGED <<inserted, call>>

\* Mutant of CompleteVerification: the WHERE clause omits worker_id.
CompleteVerificationByAnyone(j, w) ==
  /\ jobs[j].state = "VERIFYING"
  /\ jobs' = [jobs EXCEPT ![j] = [Freed(@, "COMPLETED") EXCEPT !.progress = Full]]
  /\ UNCHANGED <<inserted, call>>

CompleteVerification(j, w) ==
  /\ VerifyingBy(j, w)
  /\ jobs' = [jobs EXCEPT ![j] = [Freed(@, "COMPLETED") EXCEPT !.progress = Full]]
  /\ UNCHANGED <<inserted, call>>

\* Mutant of Complete: the WHERE clause admits every live job.
CompleteUnclaimed(j, w) ==
  /\ jobs[j].state \in Live
  /\ jobs' = [jobs EXCEPT ![j] = [Freed(@, "COMPLETED") EXCEPT !.progress = Full]]
  /\ UNCHANGED <<inserted, call>>

\* complete(): straight from RUNNING, past the verification boundary.
Complete(j, w) ==
  /\ RunningBy(j, w)
  /\ jobs' = [jobs EXCEPT ![j] = [Freed(@, "COMPLETED") EXCEPT !.progress = Full]]
  /\ UNCHANGED <<inserted, call>>

-----------------------------------------------------------------------------
(* pause, resume, fail, cancel *)

\* pause() with worker_id=None, which any claim satisfies; pause by the owner
\* is the same step under a stronger guard.
Pause(j) ==
  /\ jobs[j].state = "RUNNING"
  /\ jobs' = [jobs EXCEPT ![j] = Freed(@, "PAUSED")]
  /\ UNCHANGED <<inserted, call>>

\* Mutant of Resume: a cancelled job may be resumed.
ResumeCancelled(j) ==
  /\ jobs[j].state \in {"PAUSED", "CANCELLED"}
  /\ jobs' = [jobs EXCEPT ![j] = [@ EXCEPT !.state = "QUEUED", !.retryAt = Null]]
  /\ UNCHANGED <<inserted, call>>

Resume(j) ==
  /\ jobs[j].state = "PAUSED"
  /\ jobs' = [jobs EXCEPT ![j] = [@ EXCEPT !.state = "QUEUED", !.retryAt = Null]]
  /\ UNCHANGED <<inserted, call>>

\* Mutant of Fail: the WHERE clause omits worker_id.
FailByAnyone(j, w) ==
  /\ jobs[j].state \in Owned
  /\ jobs' = [jobs EXCEPT ![j] = [Freed(@, "FAILED") EXCEPT
                                    !.attempts = jobs[j].attempts + 1]]
  /\ UNCHANGED <<inserted, call>>

Fail(j, w) ==
  /\ OwnedBy(j, w)
  /\ jobs' = [jobs EXCEPT ![j] = [Freed(@, "FAILED") EXCEPT
                                    !.attempts = jobs[j].attempts + 1]]
  /\ UNCHANGED <<inserted, call>>

\* cancel() names no worker: whoever calls it, the claim is gone.
Cancel(j) ==
  /\ jobs[j].state \in Live
  /\ jobs' = [jobs EXCEPT ![j] = Freed(@, "CANCELLED")]
  /\ UNCHANGED <<inserted, call>>

-----------------------------------------------------------------------------
(* recover_expired_leases and retry *)

\* Mutant of Lapsed: recovery forgets the jobs under verification.
LapsedRunning(j) == jobs[j].state = "RUNNING" /\ jobs[j].lease = Past

Lapsed(j) == jobs[j].state \in Owned /\ jobs[j].lease = Past

\* Mutant of RecoverExpiredLeases: lease_until is not compared with now.
RecoverAllLeases ==
  /\ \E j \in Job : jobs[j].state \in Owned
  /\ jobs' = [j \in Job |-> IF jobs[j].state \in Owned
                            THEN [Freed(jobs[j], "QUEUED") EXCEPT !.retryAt = 0]
                            ELSE jobs[j]]
  /\ UNCHANGED <<inserted, call>>

\* One UPDATE over every lapsed row.  attempts is not touched.
RecoverExpiredLeases ==
  /\ \E j \in Job : Lapsed(j)
  /\ jobs' = [j \in Job |-> IF Lapsed(j)
                            THEN [Freed(jobs[j], "QUEUED") EXCEPT !.retryAt = 0]
                            ELSE jobs[j]]
  /\ UNCHANGED <<inserted, call>>

\* retry(): the SELECT, guarded by owner and state ...
RetryRead(c, j, w) ==
  /\ call[c] = Idle
  /\ OwnedBy(j, w)
  /\ call' = [call EXCEPT ![c] = [at |-> "retry", job |-> j, worker |-> w,
                attempts |-> jobs[j].attempts, limit |-> jobs[j].limit]]
  /\ UNCHANGED <<jobs, inserted>>

\* Mutant of RetriedRow: one attempt too many.
RetriedRowOnceMore(r, seen, delay) ==
  LET attempts  == seen.attempts + 1
      exhausted == attempts > seen.limit
  IN  [Freed(r, IF exhausted THEN "FAILED" ELSE "QUEUED")
         EXCEPT !.attempts = attempts,
                !.retryAt = IF exhausted THEN Null ELSE delay]

RetriedRow(r, seen, delay) ==
  LET attempts  == seen.attempts + 1
      exhausted == attempts >= seen.limit
  IN  [Freed(r, IF exhausted THEN "FAILED" ELSE "QUEUED")
         EXCEPT !.attempts = attempts,
                !.retryAt = IF exhausted THEN Null ELSE delay]

\* ... and the UPDATE, whose WHERE clause is the job id alone.
RetryWrite(c, delay) ==
  /\ call[c].at = "retry"
  /\ jobs' = [jobs EXCEPT ![call[c].job] = RetriedRow(@, call[c], delay)]
  /\ call' = [call EXCEPT ![c] = Idle]
  /\ UNCHANGED inserted

\* A process inside a two-statement method may die before the write.
Abandon(c) ==
  /\ call[c] # Idle
  /\ call' = [call EXCEPT ![c] = Idle]
  /\ UNCHANGED <<jobs, inserted>>

-----------------------------------------------------------------------------
(* Time *)

Later(t) == IF t > 0 THEN t - 1 ELSE t

Tick ==
  /\ jobs' = [j \in Job |-> [jobs[j] EXCEPT
                !.retryAt = Later(@),
                !.lease = IF @ = 0 THEN Past ELSE Later(@)]]
  /\ UNCHANGED <<inserted, call>>

-----------------------------------------------------------------------------

JobOp(j) ==
  \/ \E p \in Priorities, m \in Limits : Enqueue(j, p, m)
  \/ Pause(j)
  \/ Resume(j)
  \/ Cancel(j)
  \/ \E w \in WorkerId :
       \/ Claim(j, w)
       \/ RenewLease(j, w)
       \/ \E p \in 0..Full : UpdateProgress(j, w, p)
       \/ BeginVerification(j, w)
       \/ CompleteVerification(j, w)
       \/ Complete(j, w)
       \/ Fail(j, w)

CallStart(c) ==
  \E j \in Job : \/ EnqueueRead(c, j)
                 \/ \E w \in WorkerId : RetryRead(c, j, w)

CallEnd(c) ==
  \/ \E j \in Job, p \in Priorities, m \in Limits : EnqueueWrite(c, j, p, m)
  \/ \E d \in Delays : RetryWrite(c, d)

Next ==
  \/ \E j \in Job : JobOp(j)
  \/ \E c \in Caller : CallStart(c) \/ CallEnd(c) \/ Abandon(c)
  \/ RecoverExpiredLeases
  \/ Tick

Spec == Init /\ [][Next]_vars

-----------------------------------------------------------------------------
(* The store as it would behave if a two-statement method were one            *)
(* transaction: the write happens only while what was read still holds.       *)

StillHolds(c) ==
  LET seen == call[c] IN
  \/ /\ seen.at = "retry"
     /\ OwnedBy(seen.job, seen.worker)
     /\ jobs[seen.job].attempts = seen.attempts
  \/ /\ seen.at = "enqueue"
     /\ jobs[seen.job].state \notin Terminal

SerialNext ==
  \/ \E j \in Job : JobOp(j)
  \/ \E c \in Caller : CallStart(c) \/ (StillHolds(c) /\ CallEnd(c)) \/ Abandon(c)
  \/ RecoverExpiredLeases
  \/ Tick

SerialSpec == Init /\ [][SerialNext]_vars

-----------------------------------------------------------------------------
(* What the store maintains *)

\* Every variable has its type: the rows fit the schema, and a call in flight
\* names a job that was there when it read.
TypeOK ==
  /\ jobs \in [Job -> Row]
  /\ inserted \in Nat
  /\ call \in [Caller -> CallState]

\* worker_id and lease_until are set together, exactly while the job is RUNNING
\* or VERIFYING.  A row that lost its lease but kept its state could never be
\* recovered (the recovery UPDATE asks for lease_until IS NOT NULL), and one
\* that kept an owner outside those states would satisfy a later guard.
OwnershipColumns ==
  \A j \in Job :
    /\ jobs[j].owner # NoWorker <=> jobs[j].state \in Owned
    /\ jobs[j].lease # Null <=> jobs[j].state \in Owned

\* attempts never passes max_attempts, and a job that can still run has an
\* attempt left, whatever other connections did between the two statements of
\* a retry.
RetryBudget ==
  \A j \in Job :
    /\ jobs[j].attempts <= jobs[j].limit
    /\ jobs[j].state \in Live => jobs[j].attempts < jobs[j].limit

\* A child row was inserted after its parent, which exists: parents form a
\* forest, so walking up parent_job_id ends.
ParentsFirst ==
  \A j \in Job : jobs[j].parent # NoJob =>
    /\ Present(jobs[j].parent)
    /\ jobs[jobs[j].parent].created < jobs[j].created

\* A job under verification never shows full progress, and a completed one
\* always does.
ProgressHonest ==
  \A j \in Job :
    /\ jobs[j].state = "VERIFYING" => jobs[j].progress < Full
    /\ jobs[j].state = "COMPLETED" => jobs[j].progress = Full

\* What a call has read before its write: an enqueue holds a parent that
\* exists, a retry a job that exists with an attempt left, under the limit the
\* row still has.
CallsInFlight ==
  \A c \in Caller :
    /\ call[c].at # "idle" => call[c].job \in Job /\ Present(call[c].job)
    /\ call[c].at = "retry" => /\ call[c].attempts < call[c].limit
                              /\ call[c].limit = jobs[call[c].job].limit

\* Rows not inserted yet are blank, and created follows the insertion order.
CreatedInOrder ==
  \A j \in Job : /\ ~Present(j) => jobs[j] = NoRow
                 /\ Present(j) => jobs[j].created < inserted

\* The inductive invariant of Spec.
IInv ==
  /\ TypeOK
  /\ OwnershipColumns
  /\ RetryBudget
  /\ ParentsFirst
  /\ ProgressHonest
  /\ CallsInFlight
  /\ CreatedInOrder

\* COMPLETED, FAILED and CANCELLED are left only by the second statement of a
\* retry that had read the row before it became terminal.
LeavesTerminalByRetryOnly ==
  [][\A j \in Job : jobs[j].state \in Terminal /\ jobs'[j].state \notin Terminal =>
       \E c \in Caller : call[c].at = "retry" /\ call[c].job = j /\ call'[c] = Idle]_vars

\* A claim changes hands only through the queue: a row owned by one worker is
\* never owned by another in the next state.
NoDirectHandover ==
  [][\A j \in Job : jobs[j].owner # NoWorker /\ jobs'[j].owner # NoWorker =>
       jobs'[j].owner = jobs[j].owner]_vars

-----------------------------------------------------------------------------
(* Refinement: the serial store keeps the contract of JobContract.            *)

Phase(r) == CASE r.state = "ABSENT" -> "absent"
              [] r.state \in {"QUEUED", "PAUSED"} -> "waiting"
              [] r.state \in Owned -> "held"
              [] r.state = "COMPLETED" -> "succeeded"
              [] OTHER -> "stopped"

Contract == INSTANCE JobContract WITH
  phase  <- [j \in Job |-> Phase(jobs[j])],
  holder <- [j \in Job |-> jobs[j].owner],
  spent  <- [j \in Job |-> jobs[j].attempts],
  budget <- [j \in Job |-> jobs[j].limit]

ImplementsContract == Contract!Spec

=============================================================================
