----------------------------- MODULE AuditedJobs -----------------------------
(***************************************************************************)
(* AuditedJobStore of teldrive_lab/job_lifecycle.py: each call on the job   *)
(* store is followed by an INSERT into an append-only log, which is another *)
(* database (teldrive_lab/audit.py).  Nothing joins the two commits: other  *)
(* processes act between them, and a process that dies there, or is refused *)
(* by the audit database, leaves a transition that no event tells.          *)
(*                                                                          *)
(* All processes use the facade, so of JobStore only the calls it offers    *)
(* are steps.  Each makes one call at a time, a worker under its own id.    *)
(***************************************************************************)
EXTENDS JobStore, Sequences, FiniteSets

CONSTANTS
  MaxCalls,  \* bound on the calls made
  MaxLost    \* bound on the events lost

ASSUME AuditAssumption ==
  /\ WorkerId \subseteq Caller
  /\ MaxCalls \in Nat /\ MaxLost \in Nat

VARIABLES
  telling,  \* process -> the event of the call it is in, while not recorded
  log,      \* the events table, in the order of its ids
  lost,     \* history: the events that were never recorded
  calls     \* calls made so far

avars == <<vars, telling, log, lost, calls>>

Operation == {"JOB_ENQUEUE", "JOB_CLAIM", "JOB_COMPLETE", "JOB_PAUSE", "JOB_RESUME",
              "JOB_CANCEL", "JOB_RETRY", "JOB_LEASE_RECOVERY"}
Unread == "UNREAD"  \* the result of a retry that has not been read back
Event == [op: Operation, job: Job \cup {NoJob}, result: JobState \cup {Unread, "REQUEUED"}]
Nothing == [op |-> "none"]

AInit ==
  /\ Init
  /\ telling = [p \in Caller |-> Nothing]
  /\ log = <<>> /\ lost = <<>> /\ calls = 0

-----------------------------------------------------------------------------

Ready(p) == telling[p] = Nothing /\ call[p] = Idle /\ calls < MaxCalls

ToTell(p, op, j, result) ==
  /\ telling' = [telling EXCEPT ![p] = [op |-> op, job |-> j, result |-> result]]
  /\ UNCHANGED <<log, lost>>

Called(p, op, j, result) ==
  /\ Ready(p)
  /\ ToTell(p, op, j, result)
  /\ calls' = calls + 1

AuditedEnqueue(p) == \E j \in Job, r \in Priorities, m \in Limits :
  Enqueue(j, r, m) /\ Called(p, "JOB_ENQUEUE", j, "QUEUED")

\* claim() may find nothing: then there is no event.
AuditedClaim(w) == \E j \in Job : Claim(j, w) /\ Called(w, "JOB_CLAIM", j, "RUNNING")

AuditedComplete(w) == \E j \in Job :
  Complete(j, w) /\ Called(w, "JOB_COMPLETE", j, "COMPLETED")

AuditedPause(p) == \E j \in Job : Pause(j) /\ Called(p, "JOB_PAUSE", j, "PAUSED")

AuditedResume(p) == \E j \in Job : Resume(j) /\ Called(p, "JOB_RESUME", j, "QUEUED")

AuditedCancel(p) == \E j \in Job : Cancel(j) /\ Called(p, "JOB_CANCEL", j, "CANCELLED")

\* retry(): SELECT, UPDATE, and the get() whose state the event carries.
AuditedRetry(w) == \E j \in Job :
  /\ Ready(w) /\ calls' = calls + 1
  /\ RetryRead(w, j, w)
  /\ UNCHANGED <<telling, log, lost>>

Retried(w) == \E d \in Delays :
  /\ RetryWrite(w, d)
  /\ ToTell(w, "JOB_RETRY", call[w].job, Unread)
  /\ UNCHANGED calls

\* Mutant of ReadBack: the event says what a retry usually does.
ReadBackQueued(w) ==
  /\ telling[w] # Nothing /\ telling[w].result = Unread
  /\ ToTell(w, "JOB_RETRY", telling[w].job, "QUEUED")
  /\ UNCHANGED <<vars, calls>>

ReadBack(w) ==
  /\ telling[w] # Nothing /\ telling[w].result = Unread
  /\ ToTell(w, "JOB_RETRY", telling[w].job, jobs[telling[w].job].state)
  /\ UNCHANGED <<vars, calls>>

\* The event of a recovery names no job, and there is none for zero jobs.
AuditedRecovery(p) ==
  RecoverExpiredLeases /\ Called(p, "JOB_LEASE_RECOVERY", NoJob, "REQUEUED")

\* Mutant of RecordEvent: an event like one in the log is taken for its
\* duplicate.
RecordNew(p) ==
  /\ telling[p] # Nothing /\ telling[p].result # Unread
  /\ LET known == \E i \in DOMAIN log : log[i] = telling[p]
     IN  log' = IF known THEN log ELSE Append(log, telling[p])
  /\ telling' = [telling EXCEPT ![p] = Nothing]
  /\ UNCHANGED <<vars, lost, calls>>

RecordEvent(p) ==
  /\ telling[p] # Nothing /\ telling[p].result # Unread
  /\ log' = Append(log, telling[p])
  /\ telling' = [telling EXCEPT ![p] = Nothing]
  /\ UNCHANGED <<vars, lost, calls>>

\* The process dies, or the audit database raises and the caller sees that.
LoseEvent(p) ==
  /\ telling[p] # Nothing /\ Len(lost) < MaxLost
  /\ lost' = Append(lost, telling[p])
  /\ telling' = [telling EXCEPT ![p] = Nothing]
  /\ UNCHANGED <<vars, log, calls>>

Call(p) ==
  \/ AuditedEnqueue(p) \/ AuditedPause(p) \/ AuditedResume(p) \/ AuditedCancel(p)
  \/ AuditedRecovery(p)

WorkerCall(w) ==
  \/ AuditedClaim(w) \/ AuditedComplete(w)
  \/ AuditedRetry(w) \/ Retried(w) \/ ReadBack(w)

ANext ==
  \/ \E p \in Caller : Call(p) \/ RecordEvent(p) \/ LoseEvent(p)
  \/ \E w \in WorkerId : WorkerCall(w)
  \/ Tick /\ UNCHANGED <<telling, log, lost, calls>>

ASpec == AInit /\ [][ANext]_avars

-----------------------------------------------------------------------------

\* The event is recorded, on its way or lost.
Arose(e) == \/ \E i \in DOMAIN log : log[i] = e
            \/ \E i \in DOMAIN lost : lost[i] = e
            \/ \E p \in Caller : telling[p] = e

\* How many of the first n events of s tell of job j by one of the operations.
Occurrences(s, n, ops, j) == Cardinality({i \in 1..n : s[i].op \in ops /\ s[i].job = j})

\* Every variable has its type; the result of a retry is read before its event.
\* A conjunct of AttemptsTold.
ATypeOK ==
  /\ TypeOK
  /\ telling \in [Caller -> Event \cup {Nothing}]
  /\ calls \in 0..MaxCalls
  /\ \A i \in DOMAIN log : log[i] \in Event /\ log[i].result # Unread
  /\ \A i \in DOMAIN lost : lost[i] \in Event

\* An ended job has an event of that end, recorded unless it is on its way or
\* lost: also when a retry ends it and the state that the event carries is read
\* by a later statement, with stale retries of other workers in between.
EndTold ==
  \A j \in Job : jobs[j].state \in Terminal =>
    \E op \in Operation, result \in {jobs[j].state, Unread} :
      Arose([op |-> op, job |-> j, result |-> result])

\* Every attempt charged to a job is told by a retry event of its own: the log
\* never shows fewer retries than attempts, except for events lost or pending.
AttemptsTold ==
  /\ ATypeOK
  /\ \A j \in Job :
       jobs[j].attempts <=
         Occurrences(log, Len(log), {"JOB_RETRY"}, j)
           + Occurrences(lost, Len(lost), {"JOB_RETRY"}, j)
           + Cardinality({p \in Caller : telling[p].op = "JOB_RETRY" /\ telling[p].job = j})

\* Whatever happens between transition and event, no execution is concluded in
\* the log before it has begun there: each completion and each retry has a
\* claim of the job of its own further up, or one that was lost.
ClaimsToldFirst ==
  \A j \in Job, n \in DOMAIN log :
    Occurrences(log, n, {"JOB_COMPLETE", "JOB_RETRY"}, j)
      <= Occurrences(log, n, {"JOB_CLAIM"}, j) + Occurrences(lost, Len(lost), {"JOB_CLAIM"}, j)
=============================================================================
