--------------------------- MODULE JobUsersProofs ---------------------------
(***************************************************************************)
(* Theorems about the two programs over the job store.  First Worker, for   *)
(* any number of jobs, workers and crashes, every set of executor outcomes  *)
(* and of operator controls; then AuditedJobs, for any number of processes, *)
(* jobs, calls and lost events.  Neither part uses the other: both stand on *)
(* JobStoreProofs.                                                          *)
(***************************************************************************)
EXTENDS Worker, AuditedJobs, JobStoreProofs, FiniteSetTheorems

-----------------------------------------------------------------------------
(* Worker: the inductive invariant.                                           *)

\* run_once keeps its locals while it runs, and only then.
RunLocals ==
  \A w \in WorkerId :
    /\ pc[w] = "idle" => task[w] = NoJob /\ displaced[w] = "no"
    /\ pc[w] # "idle" => task[w] \in Job
    /\ pc[w] = "complete" => result[w] = "SUCCESS"

\* The only two-statement method that workers call is retry, on their own task.
RetriesOwnTask ==
  \A c \in Caller : call[c].at # "idle" =>
    /\ c \in WorkerId /\ pc[c] = "retrying"
    /\ call[c].at = "retry" /\ call[c].job = task[c]

\* The other direction of HoldsOrDisplaced: a claim once lost is not regained
\* within the same run_once.
LostForGood ==
  \A w \in WorkerId : displaced[w] # "no" => ~OwnedBy(task[w], w)

WInv ==
  /\ IInv
  /\ HoldsOrDisplaced
  /\ RunLocals
  /\ RetriesOwnTask
  /\ LostForGood

-----------------------------------------------------------------------------
(* What the steps of the store do to claims.                                  *)

\* The claims on the jobs in S end, and no other claim begins or ends.
Unowns(S) ==
  \A i \in Job, w \in WorkerId : OwnedBy(i, w)' <=> i \notin S /\ OwnedBy(i, w)

\* No job outside S becomes COMPLETED.
NoneCompleted(S) ==
  \A i \in Job \ S : jobs'[i].state = "COMPLETED" => jobs[i].state = "COMPLETED"

\* A row that is written without a claim.
LEMMA RowUnowned ==
  ASSUME IInv, NEW j \in Job, NEW q, jobs' = [jobs EXCEPT ![j] = q],
         q.state \notin Owned
  PROVE  /\ Unowns({j}) /\ NoneCompleted({j})
         /\ q.state # "COMPLETED" => NoneCompleted({})
<1>1. jobs'[j] = q /\ \A i \in Job \ {j} : jobs'[i] = jobs[i]
  BY DEF IInv, TypeOK
<1> QED
  BY <1>1 DEF Unowns, NoneCompleted, OwnedBy

LEMMA SubmitEffect ==
  ASSUME IInv, NEW j \in Job, NEW p \in Priorities, NEW m \in Limits, Enqueue(j, p, m)
  PROVE  Unowns({}) /\ NoneCompleted({})
<1>1. PICK q : q = NewRow(NoJob, p, m)
  OBVIOUS
<1>2. jobs' = [jobs EXCEPT ![j] = q] /\ jobs[j].state = "ABSENT"
  BY <1>1 DEF Enqueue, Insert, Present
<1>3. q.state = "QUEUED"
  <2>1. NoRow \in Row
    BY DEF NoRow, Row, JobState, Past, Full
  <2> QED
    BY <1>1, <2>1 DEF NewRow, Row
<1>4. "QUEUED" \notin Owned /\ "ABSENT" \notin Owned
  BY DEF Owned
<1>5. Unowns({j}) /\ NoneCompleted({})
  BY <1>2, <1>3, <1>4, RowUnowned
<1>6. \A w \in WorkerId : ~OwnedBy(j, w)
  BY <1>2, <1>4 DEF OwnedBy
<1> QED
  BY <1>5, <1>6 DEF Unowns

LEMMA ClaimEffect ==
  ASSUME IInv, NEW j \in Job, NEW w \in WorkerId, Claim(j, w)
  PROVE  /\ \A v \in WorkerId : ~OwnedBy(j, v)
         /\ \A i \in Job, v \in WorkerId : OwnedBy(i, v)' <=> OwnedBy(i, v) \/ (i = j /\ v = w)
         /\ NoneCompleted({})
<1>1. PICK q : q = [jobs[j] EXCEPT !.state = "RUNNING", !.owner = w,
                                   !.lease = LeaseSeconds]
  OBVIOUS
<1>2. jobs[j].state = "QUEUED" /\ jobs' = [jobs EXCEPT ![j] = q]
  BY <1>1 DEF Claim, Runnable
<1>3. q.state = "RUNNING" /\ q.owner = w
  BY <1>1 DEF IInv, TypeOK, Row
<1>4. jobs'[j] = q /\ \A i \in Job \ {j} : jobs'[i] = jobs[i]
  BY <1>2 DEF IInv, TypeOK
<1> QED
  BY <1>2, <1>3, <1>4 DEF NoneCompleted, OwnedBy, Owned

LEMMA VerifyingEffect ==
  ASSUME IInv, NEW j \in Job, NEW w \in WorkerId, BeginVerification(j, w)
  PROVE  OwnedBy(j, w) /\ Unowns({}) /\ NoneCompleted({})
<1>1. PICK q : q = [jobs[j] EXCEPT !.state = "VERIFYING",
                      !.progress = IF jobs[j].progress > Capped THEN Capped
                                   ELSE jobs[j].progress]
  OBVIOUS
<1>2. jobs[j].state = "RUNNING" /\ jobs[j].owner = w /\ jobs' = [jobs EXCEPT ![j] = q]
  BY <1>1 DEF BeginVerification, RunningBy
<1>3. q.state = "VERIFYING" /\ q.owner = jobs[j].owner
  BY <1>1 DEF IInv, TypeOK, Row
<1>4. jobs'[j] = q /\ \A i \in Job \ {j} : jobs'[i] = jobs[i]
  BY <1>2 DEF IInv, TypeOK
<1> QED
  BY <1>2, <1>3, <1>4 DEF Unowns, NoneCompleted, OwnedBy, Owned

LEMMA CompletedEffect ==
  ASSUME IInv, NEW j \in Job, NEW w \in WorkerId, CompleteVerification(j, w)
  PROVE  OwnedBy(j, w) /\ Unowns({j}) /\ NoneCompleted({j})
<1>1. PICK f : f = Freed(jobs[j], "COMPLETED")
  OBVIOUS
<1>2. PICK q : q = [f EXCEPT !.progress = Full]
  OBVIOUS
<1>3. f \in Row /\ f.state = "COMPLETED"
  <2>1. jobs[j] \in Row /\ "COMPLETED" \in JobState
    BY StateNames DEF IInv, TypeOK
  <2> QED
    BY <1>1, <2>1, FreedFields
<1>4. q.state = "COMPLETED"
  BY <1>2, <1>3 DEF Row
<1>5. OwnedBy(j, w) /\ jobs' = [jobs EXCEPT ![j] = q] /\ "COMPLETED" \notin Owned
  BY <1>1, <1>2 DEF CompleteVerification, VerifyingBy, OwnedBy, Owned
<1> QED
  BY <1>4, <1>5, RowUnowned

LEMMA FailEffect ==
  ASSUME IInv, NEW j \in Job, NEW w \in WorkerId, Fail(j, w)
  PROVE  OwnedBy(j, w) /\ Unowns({j}) /\ NoneCompleted({})
<1>1. PICK f : f = Freed(jobs[j], "FAILED")
  OBVIOUS
<1>2. PICK q : q = [f EXCEPT !.attempts = jobs[j].attempts + 1]
  OBVIOUS
<1>3. f \in Row /\ f.state = "FAILED"
  <2>1. jobs[j] \in Row /\ "FAILED" \in JobState
    BY StateNames DEF IInv, TypeOK
  <2> QED
    BY <1>1, <2>1, FreedFields
<1>4. q.state = "FAILED"
  BY <1>2, <1>3 DEF Row
<1>5. OwnedBy(j, w) /\ jobs' = [jobs EXCEPT ![j] = q] /\ "FAILED" \notin Owned
  BY <1>1, <1>2 DEF Fail, Owned
<1> QED
  BY <1>4, <1>5, RowUnowned

LEMMA PauseEffect ==
  ASSUME IInv, NEW j \in Job, Pause(j) \/ Cancel(j)
  PROVE  Unowns({j}) /\ NoneCompleted({})
<1>1. PICK s \in {"PAUSED", "CANCELLED"} : jobs' = [jobs EXCEPT ![j] = Freed(jobs[j], s)]
  BY DEF Pause, Cancel
<1>2. PICK q : q = Freed(jobs[j], s)
  OBVIOUS
<1>3. q.state = s /\ s \notin Owned /\ s # "COMPLETED"
  <2>1. jobs[j] \in Row /\ s \in JobState
    BY StateNames DEF IInv, TypeOK
  <2> QED
    BY <1>2, <2>1, FreedFields DEF Owned
<1> QED
  BY <1>1, <1>2, <1>3, RowUnowned

LEMMA ResumeEffect ==
  ASSUME IInv, NEW j \in Job, Resume(j)
  PROVE  Unowns({}) /\ NoneCompleted({})
<1>1. PICK q : q = [jobs[j] EXCEPT !.state = "QUEUED", !.retryAt = Null]
  OBVIOUS
<1>2. jobs[j].state = "PAUSED" /\ jobs' = [jobs EXCEPT ![j] = q]
  BY <1>1 DEF Resume
<1>3. q.state = "QUEUED"
  BY <1>1 DEF IInv, TypeOK, Row
<1>4. "QUEUED" \notin Owned /\ "PAUSED" \notin Owned
  BY DEF Owned
<1>5. Unowns({j}) /\ NoneCompleted({})
  BY <1>2, <1>3, <1>4, RowUnowned
<1>6. \A w \in WorkerId : ~OwnedBy(j, w)
  BY <1>2, <1>4 DEF OwnedBy
<1> QED
  BY <1>5, <1>6 DEF Unowns

LEMMA RecoverEffect ==
  ASSUME IInv, RecoverExpiredLeases
  PROVE  Unowns({j \in Job : Lapsed(j)}) /\ NoneCompleted({})
<1>1. ASSUME NEW j \in Job, Lapsed(j)
      PROVE  jobs'[j].state = "QUEUED"
  <2>1. PICK f : f = Freed(jobs[j], "QUEUED")
    OBVIOUS
  <2>2. f \in Row /\ f.state = "QUEUED"
    <3>1. jobs[j] \in Row /\ "QUEUED" \in JobState
      BY StateNames DEF IInv, TypeOK
    <3> QED
      BY <2>1, <3>1, FreedFields
  <2>3. jobs'[j] = [f EXCEPT !.retryAt = 0]
    BY <1>1, <2>1 DEF RecoverExpiredLeases
  <2> QED
    BY <2>2, <2>3 DEF Row
<1>2. \A j \in Job : ~Lapsed(j) => jobs'[j] = jobs[j]
  BY DEF RecoverExpiredLeases
<1>3. "QUEUED" \notin Owned
  BY DEF Owned
<1> QED
  BY <1>1, <1>2, <1>3 DEF Unowns, NoneCompleted, OwnedBy

LEMMA TickEffect ==
  ASSUME IInv, Tick
  PROVE  Unowns({}) /\ NoneCompleted({})
<1>1. ASSUME NEW j \in Job
      PROVE  jobs'[j].state = jobs[j].state /\ jobs'[j].owner = jobs[j].owner
  BY DEF Tick, IInv, TypeOK, Row
<1> QED
  BY <1>1 DEF Unowns, NoneCompleted, OwnedBy

LEMMA RetryWriteEffect ==
  ASSUME IInv, NEW c \in Caller, NEW d \in Delays, RetryWrite(c, d)
  PROVE  Unowns({call[c].job}) /\ NoneCompleted({})
<1>1. /\ call[c].job \in Job /\ jobs[call[c].job] \in Row
      /\ jobs' = [jobs EXCEPT ![call[c].job] = RetriedRow(jobs[call[c].job], call[c], d)]
  BY DEF RetryWrite, IInv, TypeOK, CallsInFlight
<1>2. PICK s \in {"FAILED", "QUEUED"} :
        s = IF call[c].attempts + 1 >= call[c].limit THEN "FAILED" ELSE "QUEUED"
  OBVIOUS
<1>3. PICK f : f = Freed(jobs[call[c].job], s)
  OBVIOUS
<1>4. f \in Row /\ f.state = s /\ s \notin Owned /\ s # "COMPLETED"
  <2>1. s \in JobState
    BY StateNames
  <2> QED
    BY <1>1, <1>3, <2>1, FreedFields DEF Owned
<1>5. PICK q : q = [f EXCEPT !.attempts = call[c].attempts + 1,
                     !.retryAt = IF call[c].attempts + 1 >= call[c].limit THEN Null ELSE d]
  OBVIOUS
<1>6. q = RetriedRow(jobs[call[c].job], call[c], d)
  BY <1>2, <1>3, <1>5 DEF RetriedRow
<1>7. q.state = s
  BY <1>4, <1>5 DEF Row
<1> QED
  BY <1>1, <1>4, <1>6, <1>7, RowUnowned

LEMMA SameRowsEffect ==
  ASSUME UNCHANGED jobs
  PROVE  Unowns({}) /\ NoneCompleted({})
BY DEF Unowns, NoneCompleted, OwnedBy

-----------------------------------------------------------------------------
(* Every step of the workers is a step of the store, or none at all.          *)

LEMMA WorkerIsCaller == WorkerId \subseteq Caller
BY WorkerAssumption

LEMMA StartInStore ==
  ASSUME NEW w \in WorkerId, NEW j \in Job, Start(w, j)
  PROVE  [Next]_vars
BY DEF Start, Next, JobOp

LEMMA StepInStore ==
  ASSUME WInv, NEW w \in WorkerId, Step(w)
  PROVE  [Next]_vars
<1>1. w \in Caller
  BY WorkerIsCaller
<1>2. CASE pc[w] = "idle"
  BY <1>2 DEF Step, Deny, Approve, Execute, CheckClaim, ControlRace, ReportVerifying,
       ReportCompleted, ReportFailed, ReportRetry, ReportCancelled, ReportRaises, WriteRetry
<1>3. CASE pc[w] # "idle"
  <2>1. task[w] \in Job
    BY <1>3 DEF WInv, RunLocals
  <2>2. CASE Deny(w) \/ ReportFailed(w)
    <3>1. Fail(task[w], w) \/ UNCHANGED vars
      BY <2>2 DEF Deny, ReportFailed
    <3> QED
      BY <2>1, <3>1 DEF Next, JobOp
  <2>3. CASE Approve(w) \/ Execute(w) \/ CheckClaim(w) \/ ControlRace(w) \/ ReportRaises(w)
    BY <2>3 DEF Approve, Execute, CheckClaim, ControlRace, ReportRaises
  <2>4. CASE ReportVerifying(w)
    BY <2>1, <2>4 DEF ReportVerifying, Next, JobOp
  <2>5. CASE ReportCompleted(w)
    BY <2>1, <2>5 DEF ReportCompleted, Next, JobOp
  <2>6. CASE ReportRetry(w)
    BY <1>1, <2>1, <2>6 DEF ReportRetry, Next, CallStart
  <2>7. CASE ReportCancelled(w)
    BY <2>1, <2>7 DEF ReportCancelled, Next, JobOp
  <2>8. CASE \E d \in Delays : WriteRetry(w, d)
    BY <1>1, <2>8 DEF WriteRetry, Next, CallEnd
  <2> QED
    BY <2>2, <2>3, <2>4, <2>5, <2>6, <2>7, <2>8 DEF Step
<1> QED
  BY <1>2, <1>3

LEMMA CrashInStore ==
  ASSUME WInv, NEW w \in WorkerId, Crash(w)
  PROVE  [Next]_vars
<1>1. w \in Caller /\ call \in [Caller -> CallState]
  BY WorkerIsCaller DEF WInv, IInv, TypeOK
<1>2. CASE call[w] = Idle
  BY <1>1, <1>2 DEF Crash, vars
<1>3. CASE call[w] # Idle
  BY <1>1, <1>3 DEF Crash, Next, Abandon
<1> QED
  BY <1>2, <1>3

LEMMA RestInStore ==
  ASSUME \/ \E j \in Job : Submit(j) \/ Operate(j)
         \/ Recover
         \/ Pass
  PROVE  [Next]_vars
<1>1. CASE \E j \in Job : Submit(j)
  BY <1>1 DEF Submit, Next, JobOp
<1>2. CASE \E j \in Job : Operate(j)
  BY <1>2 DEF Operate, Next, JobOp
<1>3. CASE Recover \/ Pass
  BY <1>3 DEF Recover, Pass, Next
<1> QED
  BY <1>1, <1>2, <1>3

LEMMA NextInStore == WInv /\ [WNext]_allVars => [Next]_vars
<1>1. ASSUME WInv, WNext
      PROVE  [Next]_vars
  BY <1>1, StartInStore, StepInStore, CrashInStore, RestInStore DEF WNext
<1>2. UNCHANGED allVars => UNCHANGED vars
  BY DEF allVars
<1> QED
  BY <1>1, <1>2

-----------------------------------------------------------------------------
(* How the history follows the claims.                                        *)

\* What HoldsOrDisplaced and LostForGood say of one process.
Standing(v) ==
  /\ pc[v] # "idle" /\ displaced[v] = "no" => claimant[task[v]] = v /\ OwnedBy(task[v], v)
  /\ displaced[v] # "no" => ~OwnedBy(task[v], v)

LEMMA StandingNow ==
  ASSUME WInv, NEW v \in WorkerId
  PROVE  /\ Standing(v)
         /\ pc[v] # "idle" => task[v] \in Job
         /\ pc[v] = "idle" => task[v] = NoJob /\ displaced[v] = "no"
BY DEF WInv, HoldsOrDisplaced, LostForGood, RunLocals, Standing

\* A process outside run_once.
LEMMA IdleStands ==
  ASSUME NEW v \in WorkerId, pc'[v] = "idle", displaced'[v] = "no"
  PROVE  Standing(v)'
BY DEF Standing

\* A process whose job keeps its claim, or whose loss is noted.
LEMMA DisplacedStands ==
  ASSUME WInv, NEW S \in SUBSET Job, NEW cause \in Causes, NEW v \in WorkerId, Unowns(S),
         UNCHANGED claimant, pc'[v] = pc[v], task'[v] = task[v],
         displaced'[v] = Displacing(S, cause)[v]
  PROVE  Standing(v)'
<1>1. /\ displaced'[v] = IF \E j \in S : claimant[j] = v /\ task[v] = j /\ OwnedBy(j, v)
                         THEN cause ELSE displaced[v]
      /\ cause # "no"
  BY DEF Displacing, Causes
<1>2. CASE pc[v] = "idle"
  <2>1. NoJob \notin Job /\ task[v] = NoJob /\ displaced[v] = "no"
    BY <1>2, StandingNow, StoreAssumption
  <2> QED
    BY <1>1, <1>2, <2>1, IdleStands
<1>3. CASE pc[v] # "idle"
  <2>1. task[v] \in Job /\ Standing(v)
    BY <1>3, StandingNow
  <2>2. OwnedBy(task[v], v) /\ task[v] \notin S <=> jobs'[task[v]].owner = v /\ jobs'[task[v]].state \in Owned
    BY <2>1 DEF Unowns, OwnedBy
  <2> QED
    BY <1>1, <1>3, <2>1, <2>2 DEF Standing, OwnedBy
<1> QED
  BY <1>2, <1>3

\* A process that is not touched, while no claim ends.
LEMMA KeptStands ==
  ASSUME WInv, NEW v \in WorkerId, Unowns({}),
         UNCHANGED claimant, pc[v] # "idle", task'[v] = task[v], displaced'[v] = displaced[v]
  PROVE  Standing(v)'
<1>1. task[v] \in Job /\ Standing(v)
  BY StandingNow
<1>2. OwnedBy(task[v], v) <=> jobs'[task[v]].owner = v /\ jobs'[task[v]].state \in Owned
  BY <1>1 DEF Unowns, OwnedBy
<1> QED
  BY <1>1, <1>2 DEF Standing, OwnedBy

\* A process, while another one ends the claim that is its own.
LEMMA OwnerStands ==
  ASSUME WInv, NEW w \in WorkerId, NEW v \in WorkerId \ {w}, NEW j \in Job,
         OwnedBy(j, w), Unowns({j}),
         UNCHANGED claimant, pc[v] # "idle", task'[v] = task[v], displaced'[v] = displaced[v]
  PROVE  Standing(v)'
<1>1. task[v] \in Job /\ Standing(v)
  BY StandingNow
<1>2. OwnedBy(task[v], v) /\ task[v] # j <=> jobs'[task[v]].owner = v /\ jobs'[task[v]].state \in Owned
  BY <1>1 DEF Unowns, OwnedBy
<1>3. OwnedBy(task[v], v) => task[v] # j
  BY DEF OwnedBy
<1> QED
  BY <1>1, <1>2, <1>3 DEF Standing, OwnedBy

-----------------------------------------------------------------------------
(* The steps of run_once.                                                     *)

LEMMA Assembled ==
  ASSUME IInv', WTypeOK', RunLocals', RetriesOwnTask', \A v \in WorkerId : Standing(v)'
  PROVE  WInv'
BY DEF WInv, HoldsOrDisplaced, LostForGood, Standing

\* A process goes on with the job it has, and no claim ends.
LEMMA GoesOn ==
  ASSUME WInv, IInv', NEW w \in WorkerId, pc[w] # "idle",
         NEW label \in {"gate", "execute", "check", "report", "complete", "retrying"},
         pc' = [pc EXCEPT ![w] = label], UNCHANGED <<task, crashes, history>>,
         result' \in [WorkerId -> Outcomes \cup {"none"}],
         \A v \in WorkerId \ {w} : result'[v] = result[v],
         label = "complete" => result'[w] = "SUCCESS",
         RetriesOwnTask', Unowns({})
  PROVE  WInv'
<1>1. WTypeOK'
  BY DEF WInv, IInv, HoldsOrDisplaced, WTypeOK, history
<1>2. RunLocals'
  BY DEF WInv, HoldsOrDisplaced, WTypeOK, RunLocals, history
<1>3. ASSUME NEW v \in WorkerId
      PROVE  Standing(v)'
  <2>1. CASE pc[v] = "idle"
    BY <2>1, StandingNow, IdleStands DEF WInv, HoldsOrDisplaced, WTypeOK, history
  <2>2. CASE pc[v] # "idle"
    BY <2>2, KeptStands DEF history
  <2> QED
    BY <2>1, <2>2
<1> QED
  BY <1>1, <1>2, <1>3, Assembled

\* A process leaves run_once, and what its last step did to the claims of the
\* others is noted in d.
LEMMA Leaves ==
  ASSUME WInv, IInv', NEW w \in WorkerId, NEW d \in [WorkerId -> Causes \cup {"no"}],
         Leave(w, d), crashes' \in Nat, RetriesOwnTask',
         \A v \in WorkerId \ {w} : IF pc[v] = "idle" THEN d[v] = "no" ELSE Standing(v)'
  PROVE  WInv'
<1>1. /\ pc' = [pc EXCEPT ![w] = "idle"] /\ task' = [task EXCEPT ![w] = NoJob]
      /\ result' = [result EXCEPT ![w] = "none"]
      /\ displaced' = [d EXCEPT ![w] = "no"] /\ claimant' = claimant
  BY DEF Leave, Goto
<1>2. WTypeOK'
  BY <1>1 DEF WInv, IInv, HoldsOrDisplaced, WTypeOK
<1>3. RunLocals'
  BY <1>1 DEF WInv, HoldsOrDisplaced, WTypeOK, RunLocals
<1>4. ASSUME NEW v \in WorkerId
      PROVE  Standing(v)'
  <2>1. CASE v = w
    BY <1>1, <2>1, IdleStands DEF WInv, HoldsOrDisplaced, WTypeOK
  <2>2. CASE v # w /\ pc[v] = "idle"
    BY <1>1, <2>2, IdleStands DEF WInv, HoldsOrDisplaced, WTypeOK
  <2>3. CASE v # w /\ pc[v] # "idle"
    BY <2>3
  <2> QED
    BY <2>1, <2>2, <2>3
<1> QED
  BY <1>2, <1>3, <1>4, Assembled

\* The calls of the others stay as they are, and those of w end.
LEMMA CallsLeft ==
  ASSUME WInv, NEW w \in WorkerId, pc' = [pc EXCEPT ![w] = "idle"],
         task' = [task EXCEPT ![w] = NoJob],
         \/ UNCHANGED call /\ pc[w] # "retrying"
         \/ call' = [call EXCEPT ![w] = Idle]
  PROVE  RetriesOwnTask'
<1>1. /\ call \in [Caller -> CallState] /\ w \in Caller
      /\ pc \in [WorkerId -> {"idle", "gate", "execute", "check", "report",
                              "complete", "retrying"}]
      /\ task \in [WorkerId -> Job \cup {NoJob}]
  BY WorkerIsCaller DEF WInv, IInv, TypeOK, HoldsOrDisplaced, WTypeOK
<1>2. \A c \in Caller : call'[c].at # "idle" => call'[c] = call[c] /\ c # w
  BY <1>1 DEF WInv, RetriesOwnTask, Idle
<1> QED
  BY <1>1, <1>2 DEF WInv, RetriesOwnTask

LEMMA CallsStay ==
  ASSUME WInv, NEW w \in WorkerId, NEW label, pc' = [pc EXCEPT ![w] = label],
         pc[w] # "retrying", UNCHANGED call,
         \A v \in WorkerId \ {w} : task'[v] = task[v]
  PROVE  RetriesOwnTask'
BY DEF WInv, RetriesOwnTask, HoldsOrDisplaced, WTypeOK

LEMMA StartInv ==
  ASSUME WInv, IInv', NEW w \in WorkerId, NEW j \in Job, Start(w, j)
  PROVE  WInv'
<1>1. /\ pc[w] = "idle" /\ Claim(j, w)
      /\ pc' = [pc EXCEPT ![w] = "gate"] /\ task' = [task EXCEPT ![w] = j]
      /\ claimant' = [claimant EXCEPT ![j] = w]
      /\ UNCHANGED <<result, crashes, displaced>>
  BY DEF Start, Goto
<1>2. WTypeOK'
  BY <1>1 DEF WInv, IInv, HoldsOrDisplaced, WTypeOK
<1>3. RunLocals'
  BY <1>1 DEF WInv, HoldsOrDisplaced, WTypeOK, RunLocals
<1>4. RetriesOwnTask'
  <2>1. UNCHANGED call /\ \A v \in WorkerId \ {w} : task'[v] = task[v]
    BY <1>1 DEF Claim, WInv, HoldsOrDisplaced, WTypeOK
  <2> QED
    BY <1>1, <2>1, CallsStay
<1>5. ASSUME NEW v \in WorkerId
      PROVE  Standing(v)'
  <2>1. /\ \A u \in WorkerId : ~OwnedBy(j, u)
        /\ \A i \in Job : (jobs'[i].owner = v /\ jobs'[i].state \in Owned)
                            <=> OwnedBy(i, v) \/ (i = j /\ v = w)
    BY <1>1, ClaimEffect DEF WInv, OwnedBy
  <2>2. claimant'[j] = w /\ \A i \in Job \ {j} : claimant'[i] = claimant[i]
    BY <1>1 DEF WInv, HoldsOrDisplaced, WTypeOK
  <2>3. CASE v = w
    <3>1. displaced'[v] = "no" /\ task'[v] = j
      BY <1>1, <2>3, StandingNow DEF WInv, HoldsOrDisplaced, WTypeOK
    <3> QED
      BY <2>1, <2>2, <2>3, <3>1 DEF Standing, OwnedBy
  <2>4. CASE v # w /\ pc[v] = "idle"
    BY <1>1, <2>4, StandingNow, IdleStands DEF WInv, HoldsOrDisplaced, WTypeOK
  <2>5. CASE v # w /\ pc[v] # "idle"
    <3>1. pc'[v] = pc[v] /\ task'[v] = task[v] /\ displaced'[v] = displaced[v]
      BY <1>1, <2>5 DEF WInv, HoldsOrDisplaced, WTypeOK
    <3>2. Standing(v) /\ task[v] \in Job
      BY <2>5, StandingNow
    <3> QED
      BY <2>1, <2>2, <2>5, <3>1, <3>2 DEF Standing, OwnedBy
  <2> QED
    BY <2>3, <2>4, <2>5
<1> QED
  BY <1>2, <1>3, <1>4, <1>5, Assembled

LEMMA GoesOnInv ==
  ASSUME WInv, IInv', NEW w \in WorkerId,
         Approve(w) \/ Execute(w) \/ CheckClaim(w) \/ ReportVerifying(w)
  PROVE  WInv'
<1>1. pc[w] \in {"gate", "execute", "check", "report"}
  BY DEF Approve, Execute, CheckClaim, ReportVerifying
<1>2. UNCHANGED <<task, crashes, history, call>>
  BY DEF Approve, Execute, CheckClaim, ReportVerifying, BeginVerification, vars
<1>3. PICK label \in {"execute", "check", "report", "complete"} :
        /\ pc' = [pc EXCEPT ![w] = label]
        /\ label = "complete" => ReportVerifying(w)
  BY DEF Approve, Execute, CheckClaim, ReportVerifying, Goto
<1>4. /\ result' \in [WorkerId -> Outcomes \cup {"none"}]
      /\ \A v \in WorkerId \ {w} : result'[v] = result[v]
  <2>1. result \in [WorkerId -> Outcomes \cup {"none"}]
    BY DEF WInv, HoldsOrDisplaced, WTypeOK
  <2>2. \/ UNCHANGED result
        \/ \E r \in Outcomes : result' = [result EXCEPT ![w] = r]
    BY DEF Approve, Execute, CheckClaim, ReportVerifying
  <2> QED
    BY <2>1, <2>2
<1>5. label = "complete" => result'[w] = "SUCCESS"
  BY <1>3 DEF ReportVerifying
<1>6. RetriesOwnTask'
  BY <1>1, <1>2, <1>3, CallsStay
<1>7. Unowns({})
  <2>1. CASE ReportVerifying(w)
    <3>1. task[w] \in Job
      BY <1>1, StandingNow
    <3> QED
      BY <2>1, <3>1, VerifyingEffect DEF ReportVerifying, WInv
  <2>2. CASE ~ReportVerifying(w)
    BY <2>2, SameRowsEffect DEF Approve, Execute, CheckClaim, vars
  <2> QED
    BY <2>1, <2>2
<1> QED
  BY <1>1, <1>2, <1>3, <1>4, <1>5, <1>6, <1>7, GoesOn

LEMMA ReportRetryInv ==
  ASSUME WInv, IInv', NEW w \in WorkerId, ReportRetry(w)
  PROVE  WInv'
<1>1. /\ pc[w] = "report" /\ pc' = [pc EXCEPT ![w] = "retrying"]
      /\ UNCHANGED <<task, result, crashes, history, jobs>>
      /\ RetryRead(w, task[w], w)
  BY DEF ReportRetry, Goto, RetryRead
<1>2. RetriesOwnTask'
  <2>1. /\ call \in [Caller -> CallState]
        /\ pc \in [WorkerId -> {"idle", "gate", "execute", "check", "report",
                                "complete", "retrying"}]
    BY DEF WInv, IInv, TypeOK, HoldsOrDisplaced, WTypeOK
  <2>a. PICK seen : seen = [at |-> "retry", job |-> task[w], worker |-> w,
                            attempts |-> jobs[task[w]].attempts,
                            limit |-> jobs[task[w]].limit]
    OBVIOUS
  <2>2. call' = [call EXCEPT ![w] = seen] /\ seen.at = "retry" /\ seen.job = task[w]
    BY <1>1, <2>a DEF RetryRead
  <2>3. \A c \in Caller : call'[c] = IF c = w THEN seen ELSE call[c]
    BY <2>1, <2>2
  <2>4. /\ pc'[w] = "retrying" /\ \A v \in WorkerId \ {w} : pc'[v] = pc[v]
        /\ UNCHANGED task
    BY <1>1, <2>1
  <2>5. \A c \in Caller \ {w} : call'[c].at # "idle" =>
          /\ c \in WorkerId \ {w} /\ pc[c] = "retrying"
          /\ call'[c].at = "retry" /\ call'[c].job = task[c]
    BY <2>3 DEF WInv, RetriesOwnTask
  <2> QED
    BY <2>2, <2>3, <2>4, <2>5 DEF RetriesOwnTask
<1>3. Unowns({})
  BY <1>1, SameRowsEffect
<1>4. result' \in [WorkerId -> Outcomes \cup {"none"}]
  BY <1>1 DEF WInv, HoldsOrDisplaced, WTypeOK
<1> QED
  BY <1>1, <1>2, <1>3, <1>4, GoesOn

\* A process leaves, and the store has written nothing or ended its own claim.
LEMMA LeavesAlone ==
  ASSUME WInv, IInv', NEW w \in WorkerId, Leave(w, displaced), crashes' \in Nat,
         RetriesOwnTask',
         \/ Unowns({})
         \/ \E j \in Job : OwnedBy(j, w) /\ Unowns({j})
  PROVE  WInv'
<1>1. /\ task' = [task EXCEPT ![w] = NoJob] /\ UNCHANGED claimant
      /\ displaced' = [displaced EXCEPT ![w] = "no"]
  BY DEF Leave
<1>2. ASSUME NEW v \in WorkerId \ {w}
      PROVE  IF pc[v] = "idle" THEN displaced[v] = "no" ELSE Standing(v)'
  <2>1. task'[v] = task[v] /\ displaced'[v] = displaced[v]
    BY <1>1 DEF WInv, HoldsOrDisplaced, WTypeOK
  <2>2. CASE pc[v] = "idle"
    BY <2>2, StandingNow
  <2>3. CASE pc[v] # "idle"
    BY <1>1, <2>1, <2>3, KeptStands, OwnerStands
  <2> QED
    BY <2>2, <2>3
<1>3. displaced \in [WorkerId -> Causes \cup {"no"}]
  BY DEF WInv, HoldsOrDisplaced, WTypeOK
<1> QED
  BY <1>2, <1>3, Leaves

LEMMA EndsInv ==
  ASSUME WInv, IInv', NEW w \in WorkerId,
         \/ Deny(w) \/ ReportFailed(w) \/ ReportCompleted(w)
         \/ ControlRace(w) \/ ReportRaises(w)
  PROVE  WInv'
<1>1. /\ pc[w] \in {"gate", "check", "report", "complete"}
      /\ Leave(w, displaced) /\ UNCHANGED crashes
  BY DEF Deny, ReportFailed, ReportCompleted, ControlRace, ReportRaises, Finish
<1>2. task[w] \in Job
  BY <1>1, StandingNow
<1>3. Fail(task[w], w) \/ CompleteVerification(task[w], w) \/ UNCHANGED vars
  BY DEF Deny, ReportFailed, ReportCompleted, ControlRace, ReportRaises
<1>4. RetriesOwnTask'
  <2>1. UNCHANGED call
    BY <1>3 DEF Fail, CompleteVerification, vars
  <2> QED
    BY <1>1, <2>1, CallsLeft DEF Leave, Goto
<1>5. \/ Unowns({})
      \/ OwnedBy(task[w], w) /\ Unowns({task[w]})
  BY <1>2, <1>3, FailEffect, CompletedEffect, SameRowsEffect DEF WInv, vars
<1>6. crashes' \in Nat
  BY <1>1 DEF WInv, HoldsOrDisplaced, WTypeOK
<1> QED
  BY <1>1, <1>2, <1>4, <1>5, <1>6, LeavesAlone

LEMMA CrashInv ==
  ASSUME WInv, IInv', NEW w \in WorkerId, Crash(w)
  PROVE  WInv'
<1>1. /\ Leave(w, displaced) /\ UNCHANGED jobs
      /\ call' = [call EXCEPT ![w] = Idle]
  BY DEF Crash
<1>2. crashes' \in Nat
  BY DEF Crash, WInv, HoldsOrDisplaced, WTypeOK
<1>3. RetriesOwnTask'
  BY <1>1, CallsLeft DEF Leave, Goto
<1> QED
  BY <1>1, <1>2, <1>3, SameRowsEffect, LeavesAlone

LEMMA DisplacingType ==
  ASSUME WInv, NEW S \in SUBSET Job, NEW cause \in Causes
  PROVE  /\ Displacing(S, cause) \in [WorkerId -> Causes \cup {"no"}]
         /\ \A v \in WorkerId : pc[v] = "idle" => Displacing(S, cause)[v] = "no"
<1>1. displaced \in [WorkerId -> Causes \cup {"no"}]
  BY DEF WInv, HoldsOrDisplaced, WTypeOK
<1>2. \A v \in WorkerId : pc[v] = "idle" => task[v] \notin Job /\ displaced[v] = "no"
  BY StoreAssumption, StandingNow
<1> QED
  BY <1>1, <1>2 DEF Displacing

LEMMA UnfencedInv ==
  ASSUME WInv, IInv', NEW w \in WorkerId,
         ReportCancelled(w) \/ \E d \in Delays : WriteRetry(w, d)
  PROVE  WInv'
<1>1. PICK cause \in Causes :
        /\ Leave(w, Displacing({task[w]}, cause)) /\ UNCHANGED crashes
        /\ \/ pc[w] = "report" /\ Cancel(task[w])
           \/ pc[w] = "retrying" /\ \E d \in Delays : RetryWrite(w, d)
  BY DEF ReportCancelled, WriteRetry, Causes
<1>2. task[w] \in Job /\ w \in Caller
  BY <1>1, StandingNow, WorkerIsCaller
<1>3. Unowns({task[w]})
  <2>1. CASE Cancel(task[w])
    BY <1>2, <2>1, PauseEffect DEF WInv
  <2>2. ASSUME NEW d \in Delays, RetryWrite(w, d)
        PROVE  Unowns({task[w]})
    <3>1. call[w].job = task[w]
      BY <1>2, <2>2 DEF RetryWrite, WInv, RetriesOwnTask
    <3> QED
      BY <1>2, <2>2, <3>1, RetryWriteEffect DEF WInv
  <2> QED
    BY <1>1, <2>1, <2>2
<1>4. RetriesOwnTask'
  <2>1. \/ UNCHANGED call /\ pc[w] # "retrying"
        \/ call' = [call EXCEPT ![w] = Idle]
    BY <1>1 DEF Cancel, RetryWrite
  <2> QED
    BY <1>1, <2>1, CallsLeft DEF Leave, Goto
<1>5. /\ Displacing({task[w]}, cause) \in [WorkerId -> Causes \cup {"no"}]
      /\ \A v \in WorkerId : pc[v] = "idle" => Displacing({task[w]}, cause)[v] = "no"
  BY <1>2, DisplacingType
<1>6. ASSUME NEW v \in WorkerId \ {w}, pc[v] # "idle"
      PROVE  Standing(v)'
  <2>1. /\ pc'[v] = pc[v] /\ task'[v] = task[v] /\ UNCHANGED claimant
        /\ displaced'[v] = Displacing({task[w]}, cause)[v]
    BY <1>1, <1>5 DEF Leave, Goto, WInv, HoldsOrDisplaced, WTypeOK
  <2> QED
    BY <1>2, <1>3, <2>1, DisplacedStands
<1>7. crashes' \in Nat
  BY <1>1 DEF WInv, HoldsOrDisplaced, WTypeOK
<1> QED
  BY <1>1, <1>4, <1>5, <1>6, <1>7, Leaves

-----------------------------------------------------------------------------
(* The steps of everybody else.                                               *)

LEMMA EnvironmentInv ==
  ASSUME WInv, IInv', NEW S \in SUBSET Job, NEW cause \in Causes, Unowns(S),
         displaced' = Displacing(S, cause),
         UNCHANGED <<workerVars, crashes, claimant, call>>
  PROVE  WInv'
<1>1. WTypeOK' /\ RunLocals'
  BY DisplacingType DEF WInv, IInv, HoldsOrDisplaced, WTypeOK, RunLocals, workerVars
<1>2. RetriesOwnTask'
  BY DEF WInv, RetriesOwnTask, workerVars
<1>3. \A v \in WorkerId : Standing(v)'
  BY DisplacedStands DEF workerVars
<1> QED
  BY <1>1, <1>2, <1>3, Assembled

LEMMA RestInv ==
  ASSUME WInv, IInv',
         \/ \E j \in Job : Submit(j) \/ Operate(j)
         \/ Recover
         \/ Pass
  PROVE  WInv'
<1>1. Displacing({}, "lapse") = displaced
  BY DEF Displacing, WInv, HoldsOrDisplaced, WTypeOK
<1>2. {"lapse", "pause", "cancel"} \subseteq Causes
  BY DEF Causes
<1>3. ASSUME NEW j \in Job, Submit(j)
      PROVE  WInv'
  <2>1. /\ Unowns({})
        /\ UNCHANGED <<workerVars, crashes, claimant, displaced, call>>
    BY <1>3, SubmitEffect DEF Submit, Enqueue, WInv, history
  <2> QED
    BY <1>1, <1>2, <2>1, EnvironmentInv
<1>4. ASSUME NEW j \in Job, Operate(j)
      PROVE  WInv'
  <2>1. UNCHANGED <<workerVars, crashes, claimant, call>>
    BY <1>4 DEF Operate, Pause, Resume, Cancel
  <2>2. CASE Pause(j) /\ displaced' = Displacing({j}, "pause")
    BY <1>2, <2>1, <2>2, PauseEffect, EnvironmentInv DEF WInv
  <2>3. CASE Cancel(j) /\ displaced' = Displacing({j}, "cancel")
    BY <1>2, <2>1, <2>3, PauseEffect, EnvironmentInv DEF WInv
  <2>4. CASE Resume(j) /\ UNCHANGED displaced
    BY <1>1, <1>2, <2>1, <2>4, ResumeEffect, EnvironmentInv DEF WInv
  <2> QED
    BY <1>4, <2>2, <2>3, <2>4 DEF Operate
<1>5. CASE Recover
  <2>1. /\ displaced' = Displacing({j \in Job : Lapsed(j)}, "lapse")
        /\ Unowns({j \in Job : Lapsed(j)})
        /\ UNCHANGED <<workerVars, crashes, claimant, call>>
    BY <1>5, RecoverEffect DEF Recover, RecoverExpiredLeases, WInv
  <2> QED
    BY <1>2, <2>1, EnvironmentInv
<1>6. CASE Pass
  <2>1. /\ Unowns({})
        /\ UNCHANGED <<workerVars, crashes, claimant, displaced, call>>
    BY <1>6, TickEffect DEF Pass, Tick, WInv, history
  <2> QED
    BY <1>1, <1>2, <2>1, EnvironmentInv
<1> QED
  BY <1>3, <1>4, <1>5, <1>6

-----------------------------------------------------------------------------
(* The theorems about Worker.                                                 *)

LEMMA InitWInv == WInit => WInv
<1> SUFFICES ASSUME WInit PROVE WInv
  OBVIOUS
<1>1. IInv
  BY InitIInv DEF WInit
<1>2. WTypeOK
  BY <1>1 DEF WInit, WTypeOK, IInv
<1>3. \A c \in Caller : call[c].at = "idle"
  BY DEF WInit, Init, Idle
<1> QED
  BY <1>1, <1>2, <1>3
     DEF WInit, WInv, HoldsOrDisplaced, RunLocals, RetriesOwnTask, LostForGood

LEMMA StutterWInv == WInv /\ UNCHANGED allVars => WInv'
<1> SUFFICES ASSUME WInv, UNCHANGED allVars PROVE WInv'
  OBVIOUS
<1>1. IInv'
  BY StutterIInv DEF WInv, allVars
<1> QED
  BY <1>1 DEF WInv, IInv, allVars, vars, workerVars, history, HoldsOrDisplaced, WTypeOK,
       RunLocals, RetriesOwnTask, LostForGood, OwnedBy

LEMMA NextWInv == WInv /\ [WNext]_allVars => WInv'
<1> SUFFICES ASSUME WInv, [WNext]_allVars PROVE WInv'
  OBVIOUS
<1>1. IInv'
  BY NextInStore, NextIInv DEF WInv
<1>2. CASE UNCHANGED allVars
  BY <1>2, StutterWInv
<1>3. ASSUME NEW w \in WorkerId, Step(w)
      PROVE  WInv'
  BY <1>1, <1>3, GoesOnInv, EndsInv, ReportRetryInv, UnfencedInv DEF Step
<1>4. ASSUME NEW w \in WorkerId, Crash(w) \/ \E j \in Job : Start(w, j)
      PROVE  WInv'
  BY <1>1, <1>4, CrashInv, StartInv
<1>5. CASE \/ \E j \in Job : Submit(j) \/ Operate(j)
           \/ Recover
           \/ Pass
  BY <1>1, <1>5, RestInv
<1> QED
  BY <1>2, <1>3, <1>4, <1>5 DEF WNext

\* The workers use the store as any other caller: each of their behaviours is
\* one of the store.  What JobStoreProofs shows of Spec holds below Worker.
THEOREM WorkersUseStore == WSpec => Spec
<1>1. WInit => Init
  BY DEF WInit
<1>2. WInv /\ [WNext]_allVars => [Next]_vars
  BY NextInStore
<1> QED
  BY <1>1, <1>2, InitWInv, NextWInv, PTL DEF WSpec, Spec

\* The invariant of run_once, below which no process is surprised by the loss
\* of its claim: it holds for any number of processes, deaths and controls.
THEOREM WorkerInvariance == WSpec => []WInv
BY InitWInv, NextWInv, PTL DEF WSpec

\* A process inside run_once owns its job unless a named cause took it away.
THEOREM ClaimHeldOrDisplaced == WSpec => []HoldsOrDisplaced
BY WorkerInvariance, PTL DEF WInv

\* A job becomes COMPLETED by the report of a verified success only.
LEMMA CompletedByReport ==
  ASSUME WInv, WNext, NEW j \in Job,
         jobs[j].state # "COMPLETED", jobs'[j].state = "COMPLETED"
  PROVE  \E w \in WorkerId : ReportCompleted(w) /\ task[w] = j
<1>1. ~NoneCompleted({})
  BY DEF NoneCompleted
<1>2. ASSUME NEW w \in WorkerId, NEW i \in Job, Start(w, i)
      PROVE  FALSE
  BY <1>1, <1>2, ClaimEffect DEF Start, WInv
<1>3. ASSUME NEW w \in WorkerId, Crash(w)
      PROVE  FALSE
  BY <1>1, <1>3, SameRowsEffect DEF Crash
<1>4. ASSUME NEW i \in Job, Submit(i) \/ Operate(i)
      PROVE  FALSE
  BY <1>1, <1>4, SubmitEffect, PauseEffect, ResumeEffect DEF Submit, Operate, WInv
<1>5. ~Recover /\ ~Pass
  BY <1>1, RecoverEffect, TickEffect DEF Recover, Pass, WInv
<1>6. ASSUME NEW w \in WorkerId, Step(w)
      PROVE  ReportCompleted(w) /\ task[w] = j
  <2>1. pc[w] # "idle"
    BY <1>6 DEF Step, Deny, Approve, Execute, CheckClaim, ControlRace, ReportVerifying,
         ReportCompleted, ReportFailed, ReportRetry, ReportCancelled, ReportRaises, WriteRetry
  <2>2. task[w] \in Job /\ w \in Caller
    BY <2>1, StandingNow, WorkerIsCaller
  <2>3. CASE Deny(w) \/ ReportFailed(w)
    <3>1. Fail(task[w], w) \/ UNCHANGED jobs
      BY <2>3 DEF Deny, ReportFailed, vars
    <3> QED
      BY <1>1, <2>2, <3>1, FailEffect, SameRowsEffect DEF WInv
  <2>4. CASE \/ Approve(w) \/ Execute(w) \/ CheckClaim(w) \/ ControlRace(w)
             \/ ReportRaises(w) \/ ReportRetry(w)
    <3>1. UNCHANGED jobs
      BY <2>4 DEF Approve, Execute, CheckClaim, ControlRace, ReportRaises, ReportRetry,
           RetryRead, vars
    <3> QED
      BY <1>1, <3>1, SameRowsEffect
  <2>5. CASE ReportVerifying(w)
    BY <1>1, <2>2, <2>5, VerifyingEffect DEF ReportVerifying, WInv
  <2>6. CASE ReportCancelled(w)
    BY <1>1, <2>2, <2>6, PauseEffect DEF ReportCancelled, WInv
  <2>7. ASSUME NEW d \in Delays, WriteRetry(w, d)
        PROVE  FALSE
    BY <1>1, <2>2, <2>7, RetryWriteEffect DEF WriteRetry, WInv
  <2>8. CASE ReportCompleted(w)
    <3>1. NoneCompleted({task[w]})
      BY <2>2, <2>8, CompletedEffect DEF ReportCompleted, WInv
    <3> QED
      BY <2>8, <3>1 DEF NoneCompleted
  <2> QED
    BY <1>6, <2>3, <2>4, <2>5, <2>6, <2>7, <2>8 DEF Step
<1> QED
  BY <1>2, <1>3, <1>4, <1>5, <1>6 DEF WNext

\* A job becomes COMPLETED only by the process that claimed it last, for an
\* executor that succeeded under that claim.
THEOREM SuccessIsEarned == WSpec => SuccessEarned
<1>1. ASSUME WInv, [WNext]_allVars, NEW j \in Job,
             jobs[j].state # "COMPLETED", jobs'[j].state = "COMPLETED"
      PROVE  \E w \in WorkerId : /\ claimant[j] = w /\ task[w] = j /\ pc'[w] = "idle"
                                 /\ result[w] = "SUCCESS" /\ displaced[w] = "no"
  <2>1. WNext
    BY <1>1 DEF allVars, vars
  <2>2. PICK w \in WorkerId : ReportCompleted(w) /\ task[w] = j
    BY <1>1, <2>1, CompletedByReport
  <2>3. pc[w] = "complete" /\ OwnedBy(task[w], w) /\ pc'[w] = "idle"
    BY <1>1, <2>2 DEF ReportCompleted, CompleteVerification, VerifyingBy, OwnedBy, Owned,
         Finish, Leave, Goto, WInv, HoldsOrDisplaced, WTypeOK
  <2>4. displaced[w] = "no" /\ claimant[task[w]] = w /\ result[w] = "SUCCESS"
    BY <1>1, <2>3 DEF WInv, HoldsOrDisplaced, LostForGood, RunLocals
  <2> QED
    BY <2>2, <2>3, <2>4
<1>2. WInv /\ [WNext]_allVars =>
        [\A j \in Job : jobs[j].state # "COMPLETED" /\ jobs'[j].state = "COMPLETED" =>
           \E w \in WorkerId : /\ claimant[j] = w /\ task[w] = j /\ pc'[w] = "idle"
                               /\ result[w] = "SUCCESS" /\ displaced[w] = "no"]_allVars
  BY <1>1
<1> QED
  BY <1>2, WorkerInvariance, PTL DEF WSpec, SuccessEarned

\* A process that has lost its claim writes no row, but for the two reports
\* that the store does not fence: the second statement of retry, and cancel.
THEOREM LostReportsIgnored == WSpec => DisplacedReportsIgnored
<1>1. ASSUME WInv, [WNext]_allVars, NEW w \in WorkerId,
             pc[w] # "idle", pc'[w] # pc[w], displaced[w] # "no", jobs' # jobs
      PROVE  pc[w] = "retrying" \/ result[w] = "CANCELLED"
  <2>1. pc \in [WorkerId -> {"idle", "gate", "execute", "check", "report",
                             "complete", "retrying"}]
    BY <1>1 DEF WInv, HoldsOrDisplaced, WTypeOK
  <2>2. WNext
    BY <1>1 DEF allVars, vars
  <2>3. Step(w) \/ Crash(w)
    <3>1. ASSUME NEW v \in WorkerId, NEW label, pc' = [pc EXCEPT ![v] = label]
          PROVE  v = w
      BY <1>1, <2>1, <3>1
    <3>2. ASSUME NEW v \in WorkerId, Step(v)
          PROVE  \E label : pc' = [pc EXCEPT ![v] = label]
      BY <3>2 DEF Step, Deny, Approve, Execute, CheckClaim, ControlRace, ReportVerifying,
           ReportCompleted, ReportFailed, ReportRetry, ReportCancelled, ReportRaises,
           WriteRetry, Finish, Leave, Goto
    <3>3. ASSUME NEW v \in WorkerId, Crash(v)
          PROVE  \E label : pc' = [pc EXCEPT ![v] = label]
      BY <3>3 DEF Crash, Leave, Goto
    <3>4. ASSUME NEW v \in WorkerId, NEW j \in Job, Start(v, j)
          PROVE  FALSE
      <4>1. pc' = [pc EXCEPT ![v] = "gate"] /\ pc[v] = "idle"
        BY <3>4 DEF Start, Goto
      <4> QED
        BY <1>1, <3>1, <4>1
    <3>5. (\E j \in Job : Submit(j) \/ Operate(j)) \/ Recover \/ Pass => UNCHANGED pc
      BY DEF Submit, Operate, Recover, Pass, workerVars
    <3> QED
      BY <1>1, <2>2, <3>1, <3>2, <3>3, <3>4, <3>5 DEF WNext
  <2>4. ~OwnedBy(task[w], w)
    BY <1>1 DEF WInv, LostForGood
  <2>5. Step(w)
    BY <1>1, <2>3 DEF Crash
  <2>6. ~Deny(w) /\ ~ReportFailed(w)
    BY <1>1, <2>4 DEF Deny, ReportFailed, Fail, vars
  <2>7. ~ReportVerifying(w) /\ ~ReportCompleted(w)
    BY <2>4 DEF ReportVerifying, ReportCompleted, BeginVerification, CompleteVerification,
         RunningBy, VerifyingBy, OwnedBy, Owned
  <2>8. /\ ~Approve(w) /\ ~Execute(w) /\ ~CheckClaim(w) /\ ~ControlRace(w)
        /\ ~ReportRaises(w) /\ ~ReportRetry(w)
    BY <1>1 DEF Approve, Execute, CheckClaim, ControlRace, ReportRaises, ReportRetry,
         RetryRead, vars
  <2> QED
    BY <2>5, <2>6, <2>7, <2>8 DEF Step, ReportCancelled, WriteRetry
<1>2. WInv /\ [WNext]_allVars =>
        [\A w \in WorkerId :
           pc[w] # "idle" /\ pc'[w] # pc[w] /\ displaced[w] # "no" /\ jobs' # jobs =>
             pc[w] = "retrying" \/ result[w] = "CANCELLED"]_allVars
  BY <1>1
<1> QED
  BY <1>2, WorkerInvariance, PTL DEF WSpec, DisplacedReportsIgnored

-----------------------------------------------------------------------------
(* AuditedJobs: the inductive invariant.                                      *)

Conclusions == {"JOB_COMPLETE", "JOB_RETRY"}
Recorded(ops, j) == Occurrences(log, Len(log), ops, j) + Occurrences(lost, Len(lost), ops, j)

\* The processes inside a call, finitely many at any time.
Busy == {p \in Caller : telling[p] # Nothing \/ call[p].at # "idle"}

\* The retries of job j that are about to be told, and all of them so far.
Telling(j) == {p \in Caller : telling[p].op = "JOB_RETRY" /\ telling[p].job = j}
Retries(j) == Recorded({"JOB_RETRY"}, j) + Cardinality(Telling(j))

\* Who has a told claim of job j that is not yet told to have ended: its owner,
\* unless that claim is still to be told, and who is concluding it.
Owes(w, j) ==
  \/ jobs[j].owner = w /\ ~(telling[w].op = "JOB_CLAIM" /\ telling[w].job = j)
  \/ call[w].at = "retry" /\ call[w].job = j
  \/ telling[w].op \in Conclusions /\ telling[w].job = j
Owing(j) == {w \in WorkerId : Owes(w, j)}

ATyped ==
  /\ telling \in [Caller -> Event \cup {Nothing}]
  /\ calls \in 0..MaxCalls
  /\ log \in Seq(Event) /\ lost \in Seq(Event)
  /\ \A i \in DOMAIN log : log[i].result # Unread
  /\ IsFiniteSet(Busy)

\* A process in a retry has nothing to tell yet; a worker tells of its own
\* claims and conclusions, and of a conclusion when it has given the job up.
\* What is not read back yet is the state of a row that is there.
OneCallEach ==
  /\ \A p \in Caller : call[p].at # "idle" =>
       p \in WorkerId /\ call[p].at = "retry" /\ call[p].job \in Job /\ telling[p] = Nothing
  /\ \A p \in Caller : telling[p].op \in Conclusions \cup {"JOB_CLAIM"} =>
       p \in WorkerId /\ telling[p].job \in Job
  /\ \A p \in Caller : telling[p].op \in Conclusions => jobs[telling[p].job].owner # p
  /\ \A p \in Caller : telling[p] # Nothing /\ telling[p].result = Unread =>
       telling[p].op = "JOB_RETRY" /\ Present(telling[p].job)

\* The attempts of the row, and those that a retry read there, are told of.
\* The second part is why a stale retry cannot charge more than it tells.
Charged(j) ==
  /\ jobs[j].attempts <= Retries(j)
  /\ \A p \in Caller : call[p].at = "retry" /\ call[p].job = j => call[p].attempts <= Retries(j)

\* Each told conclusion, and each that is still owed, has its told claim.
ClaimedFirst(j) ==
  /\ Recorded(Conclusions, j) + Cardinality(Owing(j)) <= Recorded({"JOB_CLAIM"}, j)
  /\ \A n \in DOMAIN log :
       Occurrences(log, n, Conclusions, j)
         <= Occurrences(log, n, {"JOB_CLAIM"}, j) + Occurrences(lost, Len(lost), {"JOB_CLAIM"}, j)

AInv ==
  /\ IInv
  /\ ATyped
  /\ OneCallEach
  /\ EndTold
  /\ \A j \in Job : Charged(j) /\ ClaimedFirst(j)

-----------------------------------------------------------------------------
(* Counting events.                                                           *)

\* Where among the first n events of s these are.
Places(s, n, ops, j) == {i \in 1..n : s[i].op \in ops /\ s[i].job = j}

LEMMA Counts ==
  ASSUME NEW s, NEW n \in Nat, NEW ops, NEW j
  PROVE  /\ IsFiniteSet(Places(s, n, ops, j))
         /\ Occurrences(s, n, ops, j) = Cardinality(Places(s, n, ops, j))
         /\ Occurrences(s, n, ops, j) \in Nat
<1>1. IsFiniteSet(1..n)
  BY FS_Interval
<1>2. Places(s, n, ops, j) \subseteq 1..n
  BY DEF Places
<1>3. IsFiniteSet(Places(s, n, ops, j))
  BY <1>1, <1>2, FS_Subset
<1>4. Occurrences(s, n, ops, j) = Cardinality(Places(s, n, ops, j))
  BY DEF Occurrences, Places
<1> QED
  BY <1>3, <1>4, FS_CardinalityType

\* t is s with the event e at its end.
Extends(t, s, e) ==
  /\ t \in Seq(Event) /\ Len(s) \in Nat /\ Len(t) = Len(s) + 1 /\ t[Len(s) + 1] = e
  /\ \A i \in 1..Len(s) : t[i] = s[i]

LEMMA Appended ==
  ASSUME NEW s \in Seq(Event), NEW e \in Event
  PROVE  Extends(Append(s, e), s, e)
BY DEF Extends

\* An event that is appended counts once, where it is, and nowhere before.
LEMMA CountsBefore ==
  ASSUME NEW s \in Seq(Event), NEW e, NEW t, Extends(t, s, e), NEW n \in 0..Len(s),
         NEW ops, NEW j
  PROVE  Occurrences(t, n, ops, j) = Occurrences(s, n, ops, j)
<1>1. n \in Nat /\ \A i \in 1..n : t[i] = s[i]
  BY DEF Extends
<1>2. Places(t, n, ops, j) = Places(s, n, ops, j)
  BY <1>1 DEF Places
<1> QED
  BY <1>1, <1>2, Counts

LEMMA AppendedCounts ==
  ASSUME NEW s \in Seq(Event), NEW e \in Event, NEW t, Extends(t, s, e), NEW ops, NEW j
  PROVE  Occurrences(t, Len(t), ops, j) =
           Occurrences(s, Len(s), ops, j) + (IF e.op \in ops /\ e.job = j THEN 1 ELSE 0)
<1>1. /\ t \in Seq(Event) /\ Len(s) \in Nat /\ Len(t) = Len(s) + 1 /\ t[Len(s) + 1] = e
      /\ \A i \in 1..Len(s) : t[i] = s[i]
  BY DEF Extends
<1>2. Occurrences(t, Len(s), ops, j) = Occurrences(s, Len(s), ops, j)
  BY <1>1, CountsBefore
<1>3. PICK m \in Nat : m = Len(s)
  BY <1>1
<1>4. Occurrences(t, m, ops, j) = Occurrences(s, m, ops, j)
  BY <1>2, <1>3
<1>5. /\ Occurrences(t, m, ops, j) = Cardinality(Places(t, m, ops, j))
      /\ Occurrences(t, m + 1, ops, j) = Cardinality(Places(t, m + 1, ops, j))
  BY <1>3, Counts, m + 1 \in Nat
<1>6. CASE e.op \in ops /\ e.job = j
  <2>1. /\ Places(t, m + 1, ops, j) = Places(t, m, ops, j) \cup {m + 1}
        /\ m + 1 \notin Places(t, m, ops, j)
    BY <1>1, <1>3, <1>6 DEF Places
  <2>2. Cardinality(Places(t, m, ops, j) \cup {m + 1}) = Cardinality(Places(t, m, ops, j)) + 1
    BY <1>3, <2>1, Counts, FS_AddElement
  <2>3. Occurrences(t, m + 1, ops, j) = Occurrences(t, m, ops, j) + 1
    BY <1>5, <2>1, <2>2
  <2> QED
    BY <1>1, <1>2, <1>3, <1>4, <1>6, <2>3
<1>7. CASE ~(e.op \in ops /\ e.job = j)
  <2>1. Places(t, m + 1, ops, j) = Places(t, m, ops, j)
    BY <1>1, <1>3, <1>7 DEF Places
  <2>2. Occurrences(t, m + 1, ops, j) = Occurrences(t, m, ops, j)
    BY <1>5, <2>1
  <2>3. Occurrences(s, m, ops, j) \in Nat
    BY <1>3, Counts
  <2> QED
    BY <1>1, <1>2, <1>3, <1>4, <1>7, <2>2, <2>3
<1> QED
  BY <1>1, <1>2, <1>6, <1>7

\* The sets of processes that the invariant counts are finite.
LEMMA Finite ==
  ASSUME AInv, NEW j \in Job
  PROVE  /\ IsFiniteSet(Telling(j)) /\ Cardinality(Telling(j)) \in Nat
         /\ IsFiniteSet(Owing(j)) /\ Cardinality(Owing(j)) \in Nat
         /\ \A ops : Recorded(ops, j) \in Nat
         /\ Retries(j) \in Nat
<1>1. IsFiniteSet(Busy)
  BY DEF AInv, ATyped
<1>2. Telling(j) \subseteq Busy
  BY DEF Telling, Busy, Nothing
<1>3. IsFiniteSet(Telling(j)) /\ Cardinality(Telling(j)) \in Nat
  BY <1>1, <1>2, FS_Subset, FS_CardinalityType
<1>4. Owing(j) \subseteq Busy \cup {jobs[j].owner}
  BY AuditAssumption DEF Owing, Owes, Busy, Nothing, Conclusions
<1>5. IsFiniteSet(Busy \cup {jobs[j].owner})
  BY <1>1, FS_AddElement
<1>6. IsFiniteSet(Owing(j)) /\ Cardinality(Owing(j)) \in Nat
  BY <1>4, <1>5, FS_Subset, FS_CardinalityType
<1>7. Len(log) \in Nat /\ Len(lost) \in Nat
  BY DEF AInv, ATyped
<1>8. \A ops : Recorded(ops, j) \in Nat
  BY <1>7, Counts DEF Recorded
<1> QED
  BY <1>3, <1>6, <1>8 DEF Retries

LEMMA BusyGrows ==
  ASSUME AInv, NEW p \in Caller, Busy' \subseteq Busy \cup {p}
  PROVE  IsFiniteSet(Busy)'
<1>1. IsFiniteSet(Busy \cup {p})
  BY FS_AddElement DEF AInv, ATyped
<1> QED
  BY <1>1, FS_Subset

-----------------------------------------------------------------------------
(* What the calls do to rows.                                                 *)

\* No row goes and no attempt is charged; outside S no job ends or is claimed.
Quiet(S) ==
  \A i \in Job :
    /\ Present(i) => Present(i)'
    /\ jobs'[i].attempts = jobs[i].attempts
    /\ i \notin S => /\ jobs'[i].owner \in {jobs[i].owner, NoWorker}
                     /\ jobs'[i].state \in Terminal => jobs'[i].state = jobs[i].state

LEMMA RowQuiet ==
  ASSUME IInv, NEW j \in Job, NEW q, jobs' = [jobs EXCEPT ![j] = q],
         q.attempts = jobs[j].attempts, q.state # "ABSENT"
  PROVE  Quiet({j}) /\ jobs'[j] = q
BY DEF IInv, TypeOK, Quiet, Present

LEMMA EnqueueQuiet ==
  ASSUME IInv, NEW j \in Job, NEW r \in Priorities, NEW m \in Limits, Enqueue(j, r, m)
  PROVE  /\ Quiet({j}) /\ jobs'[j].owner = NoWorker
         /\ jobs'[j].state \notin Terminal
<1>1. PICK q : q = NewRow(NoJob, r, m)
  OBVIOUS
<1>2. jobs' = [jobs EXCEPT ![j] = q] /\ jobs[j] = NoRow
  BY <1>1 DEF Enqueue, Insert, IInv, CreatedInOrder
<1>3. q.state = "QUEUED" /\ q.attempts = 0 /\ q.owner = NoWorker /\ NoRow.attempts = 0
  BY <1>1 DEF NewRow, NoRow
<1> QED
  BY <1>2, <1>3, RowQuiet DEF Terminal

LEMMA ClaimQuiet ==
  ASSUME IInv, NEW j \in Job, NEW w \in WorkerId, Claim(j, w)
  PROVE  Quiet({j}) /\ jobs'[j].owner = w /\ jobs'[j].state \notin Terminal
<1>1. PICK q : q = [jobs[j] EXCEPT !.state = "RUNNING", !.owner = w,
                                   !.lease = LeaseSeconds]
  OBVIOUS
<1>2. jobs' = [jobs EXCEPT ![j] = q] /\ jobs[j] \in Row
  BY <1>1 DEF Claim, IInv, TypeOK
<1>3. q.state = "RUNNING" /\ q.attempts = jobs[j].attempts /\ q.owner = w
  BY <1>1, <1>2 DEF Row
<1> QED
  BY <1>2, <1>3, RowQuiet DEF Terminal

\* UPDATEs that free the row.
LEMMA FreedQuiet ==
  ASSUME IInv, NEW j \in Job, NEW s \in JobState, NEW x \in 0..Full,
         \/ jobs' = [jobs EXCEPT ![j] = Freed(@, s)]
         \/ jobs' = [jobs EXCEPT ![j] = [Freed(@, s) EXCEPT !.progress = x]]
  PROVE  Quiet({j}) /\ jobs'[j].owner = NoWorker /\ jobs'[j].state = s
<1>1. PICK f : f = Freed(jobs[j], s)
  OBVIOUS
<1>2. f \in Row /\ f.state = s /\ f.owner = NoWorker /\ f.attempts = jobs[j].attempts
  BY <1>1, FreedFields DEF IInv, TypeOK
<1>3. PICK g : g = [f EXCEPT !.progress = x]
  OBVIOUS
<1>4. g.state = s /\ g.owner = NoWorker /\ g.attempts = jobs[j].attempts
  BY <1>2, <1>3 DEF Row
<1>5. jobs' = [jobs EXCEPT ![j] = f] \/ jobs' = [jobs EXCEPT ![j] = g]
  BY <1>1, <1>3
<1> QED
  BY <1>2, <1>4, <1>5, RowQuiet, StateNames

LEMMA ResumeQuiet ==
  ASSUME IInv, NEW j \in Job, Resume(j)
  PROVE  /\ Quiet({j}) /\ jobs'[j].owner = jobs[j].owner
         /\ jobs'[j].state \notin Terminal
<1>1. PICK q : q = [jobs[j] EXCEPT !.state = "QUEUED", !.retryAt = Null]
  OBVIOUS
<1>2. jobs' = [jobs EXCEPT ![j] = q] /\ jobs[j] \in Row
  BY <1>1 DEF Resume, IInv, TypeOK
<1>3. q.state = "QUEUED" /\ q.attempts = jobs[j].attempts /\ q.owner = jobs[j].owner
  BY <1>1, <1>2 DEF Row
<1> QED
  BY <1>2, <1>3, RowQuiet DEF Terminal

LEMMA RecoverQuiet ==
  ASSUME IInv, RecoverExpiredLeases
  PROVE  Quiet({NoJob})
<1> SUFFICES ASSUME NEW i \in Job
             PROVE  /\ Present(i) => Present(i)'
                    /\ jobs'[i].attempts = jobs[i].attempts
                    /\ jobs'[i].owner \in {jobs[i].owner, NoWorker}
                    /\ jobs'[i].state \in Terminal => jobs'[i].state = jobs[i].state
  BY DEF Quiet
<1>1. CASE Lapsed(i)
  <2>1. PICK f : f = Freed(jobs[i], "QUEUED")
    OBVIOUS
  <2>2. PICK q : q = [f EXCEPT !.retryAt = 0]
    OBVIOUS
  <2>3. /\ f \in Row /\ f.state = "QUEUED" /\ f.owner = NoWorker
        /\ f.attempts = jobs[i].attempts
    BY <2>1, FreedFields, StateNames DEF IInv, TypeOK
  <2>4. q.state = "QUEUED" /\ q.owner = NoWorker /\ q.attempts = jobs[i].attempts
    BY <2>2, <2>3 DEF Row
  <2>5. jobs'[i] = q
    BY <1>1, <2>1, <2>2 DEF RecoverExpiredLeases
  <2> QED
    BY <2>4, <2>5 DEF Terminal, Present
<1>2. CASE ~Lapsed(i)
  <2>1. jobs'[i] = jobs[i]
    BY <1>2 DEF RecoverExpiredLeases
  <2> QED
    BY <2>1 DEF Present
<1> QED
  BY <1>1, <1>2

LEMMA TickQuiet ==
  ASSUME IInv, Tick
  PROVE  Quiet({})
<1> SUFFICES ASSUME NEW i \in Job
             PROVE  /\ jobs'[i].attempts = jobs[i].attempts
                    /\ jobs'[i].owner = jobs[i].owner
                    /\ jobs'[i].state = jobs[i].state
  BY DEF Quiet, Present
<1>1. PICK q : q = [jobs[i] EXCEPT !.retryAt = Later(jobs[i].retryAt),
                     !.lease = IF jobs[i].lease = 0 THEN Past ELSE Later(jobs[i].lease)]
  OBVIOUS
<1>2. jobs[i] \in Row /\ jobs'[i] = q
  BY <1>1 DEF Tick, IInv, TypeOK
<1> QED
  BY <1>1, <1>2 DEF Row

-----------------------------------------------------------------------------
(* The steps.                                                                 *)

\* The facade calls the store as anyone may.
LEMMA AStepInStore ==
  ASSUME [ANext]_avars
  PROVE  [Next]_vars
<1>1. CASE UNCHANGED avars
  BY <1>1 DEF avars
<1>2. ASSUME NEW p \in Caller, Call(p) \/ RecordEvent(p) \/ LoseEvent(p)
      PROVE  [Next]_vars
  BY <1>2 DEF Call, RecordEvent, LoseEvent, AuditedEnqueue, AuditedPause, AuditedResume,
              AuditedCancel, AuditedRecovery, Next, JobOp
<1>3. ASSUME NEW w \in WorkerId, WorkerCall(w)
      PROVE  [Next]_vars
  <2>1. w \in Caller
    BY AuditAssumption
  <2>2. CASE AuditedClaim(w) \/ AuditedComplete(w)
    BY <2>2 DEF AuditedClaim, AuditedComplete, Next, JobOp
  <2>3. CASE AuditedRetry(w) \/ Retried(w) \/ ReadBack(w)
    BY <2>1, <2>3 DEF AuditedRetry, Retried, ReadBack, Next, CallStart, CallEnd
  <2> QED
    BY <1>3, <2>2, <2>3 DEF WorkerCall
<1>4. CASE Tick
  BY <1>4 DEF Next
<1> QED
  BY <1>1, <1>2, <1>3, <1>4 DEF ANext

LEMMA AInitInv == AInit => AInv
<1> SUFFICES ASSUME AInit PROVE AInv
  OBVIOUS
<1>1. IInv
  BY InitIInv DEF AInit
<1>2. /\ telling = [p \in Caller |-> Nothing] /\ call = [p \in Caller |-> Idle]
      /\ jobs = [j \in Job |-> NoRow] /\ log = <<>> /\ lost = <<>> /\ calls = 0
  BY DEF AInit, Init
<1>3. Nothing.op = "none" /\ Idle.at = "idle" /\ NoRow.owner = NoWorker /\ NoRow.attempts = 0
      /\ NoRow.state = "ABSENT"
  BY DEF Nothing, Idle, NoRow
<1>4. Busy = {}
  BY <1>2, <1>3 DEF Busy
<1>5. ATyped
  BY <1>2, <1>4, FS_EmptySet, AuditAssumption DEF ATyped
<1>6. OneCallEach
  BY <1>2, <1>3 DEF OneCallEach, Conclusions
<1>7. EndTold
  BY <1>2, <1>3 DEF EndTold, Terminal
<1>8. ASSUME NEW j \in Job PROVE Charged(j) /\ ClaimedFirst(j)
  <2>1. \A ops : Occurrences(log, 0, ops, j) = 0 /\ Occurrences(lost, 0, ops, j) = 0
    <3>1. \A ops : Places(log, 0, ops, j) = {} /\ Places(lost, 0, ops, j) = {}
      BY DEF Places
    <3> QED
      BY <3>1, Counts, FS_EmptySet
  <2>2. Len(log) = 0 /\ Len(lost) = 0 /\ DOMAIN log = {}
    BY <1>2
  <2>3. \A ops : Recorded(ops, j) = 0
    BY <2>1, <2>2 DEF Recorded
  <2>4. Telling(j) = {} /\ Owing(j) = {}
    BY <1>2, <1>3, StoreAssumption, AuditAssumption DEF Telling, Owing, Owes, Conclusions
  <2>5. Retries(j) = 0
    BY <2>3, <2>4, FS_EmptySet DEF Retries
  <2>6. Charged(j)
    BY <1>2, <1>3, <2>5 DEF Charged
  <2> QED
    BY <2>2, <2>3, <2>4, <2>6, FS_EmptySet DEF ClaimedFirst
<1> QED
  BY <1>1, <1>5, <1>6, <1>7, <1>8 DEF AInv

\* Nothing that arose is forgotten as long as it is kept where it is.
LEMMA StillArose ==
  ASSUME AInv, NEW p \in Caller, NEW e, telling' = [telling EXCEPT ![p] = e],
         UNCHANGED <<log, lost>>, NEW f, f.op \in Operation, Arose(f), telling[p] # f
  PROVE  Arose(f)'
BY DEF Arose, AInv, ATyped

\* A step that counts nothing, while nobody comes to owe more and no more is
\* charged, keeps the counts.
LEMMA CountsKept ==
  ASSUME AInv, UNCHANGED <<log, lost>>, NEW j \in Job, Owing(j)' \subseteq Owing(j)
  PROVE  ClaimedFirst(j)'
<1>1. Cardinality(Owing(j)') <= Cardinality(Owing(j)) /\ Cardinality(Owing(j)') \in Nat
  BY Finite, FS_Subset, FS_CardinalityType
<1>2. \A ops : Recorded(ops, j)' = Recorded(ops, j) /\ Recorded(ops, j) \in Nat
  BY Finite DEF Recorded
<1> QED
  BY <1>1, <1>2, Finite DEF AInv, ClaimedFirst

\* A call that commits, and has its event to tell, other than a retry.
LEMMA CallMade ==
  ASSUME AInv, IInv', NEW p \in Caller, NEW op \in Operation \ {"JOB_RETRY"},
         NEW i \in Job \cup {NoJob}, NEW said \in JobState \cup {"REQUEUED"},
         Called(p, op, i, said), UNCHANGED call, Quiet({i}),
         i \in Job => /\ jobs'[i].state \in Terminal => jobs'[i].state = said
                      /\ jobs'[i].owner \in {jobs[i].owner, NoWorker}
                           \cup (IF op = "JOB_CLAIM" THEN {p} ELSE {}),
         op = "JOB_CLAIM" => i \in Job /\ p \in WorkerId,
         op = "JOB_COMPLETE" => /\ i \in Job /\ p \in WorkerId
                                /\ jobs[i].owner = p /\ jobs'[i].owner = NoWorker
  PROVE  AInv'
<1> DEFINE e == [op |-> op, job |-> i, result |-> said]
<1>1. /\ telling[p] = Nothing /\ call[p] = Idle /\ UNCHANGED <<log, lost, call>>
      /\ telling' = [telling EXCEPT ![p] = e]
      /\ calls < MaxCalls /\ calls' = calls + 1
  BY DEF Called, Ready, ToTell
<1>2. /\ e \in Event /\ e.op = op /\ e.job = i /\ e.result = said
      /\ Nothing.op = "none" /\ Idle.at = "idle"
  BY DEF Event, Nothing, Idle
<1> HIDE DEF e
<1>3. telling'[p] = e /\ \A q \in Caller \ {p} : telling'[q] = telling[q]
  BY <1>1 DEF AInv, ATyped
<1>4. ATyped'
  <2>1. IsFiniteSet(Busy)'
    <3>1. Busy' \subseteq Busy \cup {p}
      BY <1>1, <1>3 DEF Busy
    <3> QED
      BY <3>1, BusyGrows
  <2> QED
    BY <1>1, <1>2, <2>1, AuditAssumption DEF AInv, ATyped
<1>5. \A k \in Job : \A w \in WorkerId : jobs'[k].owner = w =>
         jobs[k].owner = w \/ (k = i /\ w = p /\ op = "JOB_CLAIM")
  BY StoreAssumption DEF Quiet
<1>6. OneCallEach'
  <2>1. ASSUME NEW q \in Caller, telling'[q].op \in Conclusions
        PROVE  jobs'[telling'[q].job].owner # q
    <3>1. CASE q = p
      BY <1>2, <1>3, <2>1, <3>1, StoreAssumption DEF Conclusions
    <3>2. CASE q # p
      BY <1>3, <1>5, <2>1, <3>2 DEF AInv, OneCallEach
    <3> QED
      BY <3>1, <3>2
  <2>2. ASSUME NEW q \in Caller, telling'[q].op \in Conclusions \cup {"JOB_CLAIM"}
        PROVE  q \in WorkerId /\ telling'[q].job \in Job
    BY <1>2, <1>3, <2>2 DEF AInv, OneCallEach, Conclusions
  <2>3. ASSUME NEW q \in Caller, call[q].at # "idle"
        PROVE  telling'[q] = telling[q]
    BY <1>1, <1>2, <1>3, <2>3
  <2>4. ASSUME NEW q \in Caller, telling'[q] # Nothing, telling'[q].result = Unread
        PROVE  telling'[q].op = "JOB_RETRY" /\ jobs'[telling'[q].job].state # "ABSENT"
    <3>1. q # p /\ telling'[q] = telling[q]
      BY <1>2, <1>3, <2>4, StateNames DEF Unread, JobState, Live, Terminal
    <3>2. telling[q].op = "JOB_RETRY" /\ Present(telling[q].job) /\ telling[q].job \in Job
      BY <2>4, <3>1 DEF AInv, OneCallEach, Conclusions
    <3> QED
      BY <3>1, <3>2 DEF Quiet, Present
  <2> QED
    BY <1>1, <2>1, <2>2, <2>3, <2>4 DEF AInv, OneCallEach, Present
<1>7. EndTold'
  <2> SUFFICES ASSUME NEW j \in Job, jobs'[j].state \in Terminal
               PROVE  \E o \in Operation, s \in {jobs'[j].state, Unread} :
                        Arose([op |-> o, job |-> j, result |-> s])'
    BY DEF EndTold
  <2>1. CASE j = i
    <3>1. e = [op |-> op, job |-> j, result |-> jobs'[j].state]
      BY <2>1 DEF e
    <3> QED
      BY <1>3, <3>1 DEF Arose
  <2>2. CASE j # i
    <3>1. jobs'[j].state = jobs[j].state
      BY <2>2 DEF Quiet
    <3>2. PICK o \in Operation, s \in {jobs[j].state, Unread} :
             Arose([op |-> o, job |-> j, result |-> s])
      BY <3>1 DEF AInv, EndTold
    <3>3. PICK f : f = [op |-> o, job |-> j, result |-> s]
      OBVIOUS
    <3>4. f.op \in Operation /\ telling[p] # f
      BY <1>1, <1>2, <3>3 DEF Operation
    <3>5. Arose(f)'
      BY <1>1, <3>2, <3>3, <3>4, StillArose
    <3> QED
      BY <3>1, <3>3, <3>5
  <2> QED
    BY <2>1, <2>2
<1>8. ASSUME NEW j \in Job PROVE Charged(j)' /\ ClaimedFirst(j)'
  <2>1. Telling(j)' = Telling(j)
    BY <1>1, <1>2, <1>3 DEF Telling
  <2>2. Retries(j)' = Retries(j)
    BY <1>1, <2>1 DEF Retries, Recorded
  <2>3. Charged(j)'
    BY <1>1, <2>2 DEF AInv, Charged, Quiet
  <2>4. Owing(j)' \subseteq Owing(j)
    <3> SUFFICES ASSUME NEW w \in WorkerId, Owes(w, j)' PROVE Owes(w, j)
      BY DEF Owing
    <3>1. w \in Caller
      BY AuditAssumption
    <3>2. CASE w = p
      BY <1>1, <1>2, <1>3, <1>5, <3>2 DEF Owes, Conclusions
    <3>3. CASE w # p
      BY <1>1, <1>3, <1>5, <3>1, <3>3 DEF Owes
    <3> QED
      BY <3>2, <3>3
  <2> QED
    BY <1>1, <2>3, <2>4, CountsKept
<1> QED
  BY <1>4, <1>6, <1>7, <1>8 DEF AInv

LEMMA CallInv ==
  ASSUME AInv, IInv', NEW p \in Caller, Call(p)
  PROVE  AInv'
<1>1. IInv
  BY DEF AInv
<1>2. ASSUME NEW j \in Job, NEW r \in Priorities, NEW m \in Limits,
             Enqueue(j, r, m), Called(p, "JOB_ENQUEUE", j, "QUEUED")
      PROVE  AInv'
  <2>1. "JOB_ENQUEUE" \in Operation \ {"JOB_RETRY"} /\ "QUEUED" \in JobState
    BY StateNames DEF Operation
  <2>2. UNCHANGED call
    BY <1>2 DEF Enqueue
  <2> QED
    BY <1>1, <1>2, <2>1, <2>2, EnqueueQuiet, CallMade
<1>3. ASSUME NEW j \in Job, Pause(j), Called(p, "JOB_PAUSE", j, "PAUSED")
      PROVE  AInv'
  <2>1. "JOB_PAUSE" \in Operation \ {"JOB_RETRY"} /\ "PAUSED" \in JobState
    BY StateNames DEF Operation
  <2>2. UNCHANGED call /\ jobs' = [jobs EXCEPT ![j] = Freed(@, "PAUSED")] /\ 0 \in 0..Full
    BY <1>3 DEF Pause, Full
  <2>3. Quiet({j}) /\ jobs'[j].owner = NoWorker /\ jobs'[j].state = "PAUSED"
    BY <1>1, <2>1, <2>2, FreedQuiet
  <2> QED
    BY <1>3, <2>1, <2>2, <2>3, CallMade
<1>4. ASSUME NEW j \in Job, Resume(j), Called(p, "JOB_RESUME", j, "QUEUED")
      PROVE  AInv'
  <2>1. "JOB_RESUME" \in Operation \ {"JOB_RETRY"} /\ "QUEUED" \in JobState
    BY StateNames DEF Operation
  <2>2. UNCHANGED call
    BY <1>4 DEF Resume
  <2> QED
    BY <1>1, <1>4, <2>1, <2>2, ResumeQuiet, CallMade
<1>5. ASSUME NEW j \in Job, Cancel(j), Called(p, "JOB_CANCEL", j, "CANCELLED")
      PROVE  AInv'
  <2>1. "JOB_CANCEL" \in Operation \ {"JOB_RETRY"} /\ "CANCELLED" \in JobState
    BY StateNames DEF Operation
  <2>2. UNCHANGED call /\ jobs' = [jobs EXCEPT ![j] = Freed(@, "CANCELLED")] /\ 0 \in 0..Full
    BY <1>5 DEF Cancel, Full
  <2>3. Quiet({j}) /\ jobs'[j].owner = NoWorker /\ jobs'[j].state = "CANCELLED"
    BY <1>1, <2>1, <2>2, FreedQuiet
  <2> QED
    BY <1>5, <2>1, <2>2, <2>3, CallMade
<1>6. CASE AuditedRecovery(p)
  <2>1. "JOB_LEASE_RECOVERY" \in Operation \ {"JOB_RETRY"} /\ NoJob \notin Job
    BY StoreAssumption DEF Operation
  <2>2. UNCHANGED call /\ RecoverExpiredLeases /\ Called(p, "JOB_LEASE_RECOVERY", NoJob, "REQUEUED")
    BY <1>6 DEF AuditedRecovery, RecoverExpiredLeases
  <2> QED
    BY <1>1, <2>1, <2>2, RecoverQuiet, CallMade
<1> QED
  BY <1>2, <1>3, <1>4, <1>5, <1>6
     DEF Call, AuditedEnqueue, AuditedPause, AuditedResume, AuditedCancel

LEMMA ClaimInv ==
  ASSUME AInv, IInv', NEW w \in WorkerId, AuditedClaim(w)
  PROVE  AInv'
<1>1. PICK j \in Job : Claim(j, w) /\ Called(w, "JOB_CLAIM", j, "RUNNING")
  BY DEF AuditedClaim
<1>2. "JOB_CLAIM" \in Operation \ {"JOB_RETRY"} /\ "RUNNING" \in JobState /\ w \in Caller
  BY StateNames, AuditAssumption DEF Operation
<1>3. UNCHANGED call /\ IInv
  BY <1>1 DEF Claim, AInv
<1> QED
  BY <1>1, <1>2, <1>3, ClaimQuiet, CallMade

LEMMA CompleteInv ==
  ASSUME AInv, IInv', NEW w \in WorkerId, AuditedComplete(w)
  PROVE  AInv'
<1>1. PICK j \in Job : Complete(j, w) /\ Called(w, "JOB_COMPLETE", j, "COMPLETED")
  BY DEF AuditedComplete
<1>2. "JOB_COMPLETE" \in Operation \ {"JOB_RETRY"} /\ "COMPLETED" \in JobState /\ w \in Caller
  BY StateNames, AuditAssumption DEF Operation
<1>3. /\ UNCHANGED call /\ IInv /\ jobs[j].owner = w /\ Full \in 0..Full
      /\ jobs' = [jobs EXCEPT ![j] = [Freed(@, "COMPLETED") EXCEPT !.progress = Full]]
  BY <1>1 DEF Complete, RunningBy, AInv, Full
<1>4. Quiet({j}) /\ jobs'[j].owner = NoWorker /\ jobs'[j].state = "COMPLETED"
  BY <1>2, <1>3, FreedQuiet
<1> QED
  BY <1>1, <1>2, <1>3, <1>4, CallMade

\* The first statement of a retry: its caller owes what it owed as the owner.
LEMMA RetryInv ==
  ASSUME AInv, IInv', NEW w \in WorkerId, AuditedRetry(w)
  PROVE  AInv'
<1>1. PICK j \in Job : RetryRead(w, j, w)
  BY DEF AuditedRetry
<1>2. w \in Caller
  BY AuditAssumption
<1>3. PICK k : k = [at |-> "retry", job |-> j, worker |-> w,
                    attempts |-> jobs[j].attempts, limit |-> jobs[j].limit]
  OBVIOUS
<1>4. /\ telling[w] = Nothing /\ jobs[j].owner = w /\ call' = [call EXCEPT ![w] = k]
      /\ UNCHANGED <<jobs, telling, log, lost>> /\ calls < MaxCalls /\ calls' = calls + 1
  BY <1>1, <1>3 DEF AuditedRetry, RetryRead, OwnedBy, Ready
<1>5. k.at = "retry" /\ k.job = j /\ k.attempts = jobs[j].attempts /\ Nothing.op = "none"
  BY <1>3 DEF Nothing
<1>6. call'[w] = k /\ \A q \in Caller \ {w} : call'[q] = call[q]
  BY <1>2, <1>4 DEF AInv, IInv, TypeOK
<1>7. ATyped'
  <2>1. Busy' \subseteq Busy \cup {w}
    BY <1>4, <1>6 DEF Busy
  <2>2. IsFiniteSet(Busy)'
    BY <1>2, <2>1, BusyGrows
  <2> QED
    BY <1>4, <2>2, AuditAssumption DEF AInv, ATyped
<1>8. OneCallEach'
  BY <1>2, <1>4, <1>5, <1>6 DEF AInv, OneCallEach, Present
<1>9. EndTold'
  BY <1>4 DEF AInv, EndTold, Arose
<1>10. ASSUME NEW i \in Job PROVE Charged(i)' /\ ClaimedFirst(i)'
  <2>1. Retries(i)' = Retries(i)
    BY <1>4 DEF Retries, Recorded, Telling
  <2>2. Charged(i)'
    BY <1>4, <1>5, <1>6, <2>1 DEF AInv, Charged
  <2>3. ASSUME NEW v \in WorkerId, Owes(v, i)' PROVE Owes(v, i)
    <3>1. v \in Caller
      BY AuditAssumption
    <3> QED
      BY <1>4, <1>5, <1>6, <2>3, <3>1 DEF Owes
  <2>4. Owing(i)' \subseteq Owing(i)
    BY <2>3 DEF Owing
  <2> QED
    BY <1>4, <2>2, <2>4, CountsKept
<1> QED
  BY <1>7, <1>8, <1>9, <1>10 DEF AInv

\* The second statement: whatever has become of the row, it is freed, and
\* charged with one attempt more than the first had read.
LEMMA AuditedRetryWriteEffect ==
  ASSUME IInv, NEW c \in Caller, NEW d \in Delays, RetryWrite(c, d),
         NEW j, j = call[c].job
  PROVE  /\ j \in Job /\ call[c] \in CallState
         /\ jobs'[j].owner = NoWorker /\ jobs'[j].attempts = call[c].attempts + 1
         /\ jobs'[j].state # "ABSENT"
         /\ \A i \in Job \ {j} : jobs'[i] = jobs[i]
<1>1. j \in Job /\ jobs[j] \in Row /\ call[c] \in CallState
  BY DEF RetryWrite, IInv, TypeOK, CallsInFlight
<1>2. PICK gone : gone = (call[c].attempts + 1 >= call[c].limit)
  OBVIOUS
<1>3. PICK s : s = IF gone THEN "FAILED" ELSE "QUEUED"
  OBVIOUS
<1>4. PICK f : f = Freed(jobs[j], s)
  OBVIOUS
<1>5. f \in Row /\ f.owner = NoWorker /\ f.state # "ABSENT"
  BY <1>1, <1>3, <1>4, FreedFields, StateNames
<1>6. PICK q : q = [f EXCEPT !.attempts = call[c].attempts + 1,
                             !.retryAt = IF gone THEN Null ELSE d]
  OBVIOUS
<1>7. q.owner = NoWorker /\ q.attempts = call[c].attempts + 1 /\ q.state # "ABSENT"
  BY <1>5, <1>6 DEF Row
<1>8. q = RetriedRow(jobs[j], call[c], d)
  BY <1>2, <1>3, <1>4, <1>6 DEF RetriedRow
<1>9. jobs' = [jobs EXCEPT ![j] = q]
  BY <1>8 DEF RetryWrite
<1> QED
  BY <1>1, <1>7, <1>9 DEF IInv, TypeOK

LEMMA RetriedInv ==
  ASSUME AInv, IInv', NEW w \in WorkerId, Retried(w)
  PROVE  AInv'
<1>1. PICK d \in Delays : RetryWrite(w, d)
  BY DEF Retried
<1>2. PICK j : j = call[w].job
  OBVIOUS
<1>3. PICK e : e = [op |-> "JOB_RETRY", job |-> j, result |-> Unread]
  OBVIOUS
<1>4. /\ w \in Caller /\ call[w].at = "retry" /\ telling[w] = Nothing
      /\ telling' = [telling EXCEPT ![w] = e] /\ call' = [call EXCEPT ![w] = Idle]
      /\ UNCHANGED <<log, lost, calls>>
  BY <1>1, <1>2, <1>3, AuditAssumption DEF Retried, ToTell, RetryWrite, AInv, OneCallEach
<1>5. /\ j \in Job /\ call[w].attempts \in Nat
      /\ jobs'[j].owner = NoWorker /\ jobs'[j].attempts = call[w].attempts + 1
      /\ jobs'[j].state # "ABSENT"
      /\ \A i \in Job \ {j} : jobs'[i] = jobs[i]
  BY <1>1, <1>2, <1>4, AuditedRetryWriteEffect DEF AInv, CallState
<1>6. /\ e \in Event /\ e.op = "JOB_RETRY" /\ e.job = j
      /\ Nothing.op = "none" /\ Idle.at = "idle"
  BY <1>3, <1>5 DEF Event, Operation, Nothing, Idle
<1>7. /\ telling'[w] = e /\ call'[w] = Idle
      /\ \A q \in Caller \ {w} : telling'[q] = telling[q] /\ call'[q] = call[q]
  BY <1>4 DEF AInv, ATyped, IInv, TypeOK
<1>8. ATyped'
  <2>1. Busy' \subseteq Busy \cup {w}
    BY <1>7 DEF Busy
  <2>2. IsFiniteSet(Busy)'
    BY <1>4, <2>1, BusyGrows
  <2> QED
    BY <1>4, <1>6, <2>2 DEF AInv, ATyped
<1>9. \A k \in Job, v \in WorkerId : jobs'[k].owner = v => jobs[k].owner = v /\ k # j
  BY <1>5, StoreAssumption
<1>10. OneCallEach'
  <2>1. ASSUME NEW q \in Caller, telling'[q].op \in Conclusions \cup {"JOB_CLAIM"}
        PROVE  q \in WorkerId /\ telling'[q].job \in Job
    BY <1>5, <1>6, <1>7, <2>1 DEF AInv, OneCallEach
  <2>2. ASSUME NEW q \in Caller, telling'[q].op \in Conclusions
        PROVE  jobs'[telling'[q].job].owner # q
    <3>1. q \in WorkerId /\ telling'[q].job \in Job
      BY <2>1, <2>2
    <3>2. CASE q = w
      BY <1>6, <1>7, <1>9, <3>1, <3>2
    <3>3. CASE q # w
      BY <1>7, <1>9, <2>2, <3>1, <3>3 DEF AInv, OneCallEach
    <3> QED
      BY <3>2, <3>3
  <2>3. ASSUME NEW q \in Caller, call'[q].at # "idle"
        PROVE  q # w /\ call'[q] = call[q] /\ telling'[q] = telling[q]
    BY <1>6, <1>7, <2>3
  <2>4. ASSUME NEW q \in Caller, telling'[q] # Nothing, telling'[q].result = Unread
        PROVE  telling'[q].op = "JOB_RETRY" /\ jobs'[telling'[q].job].state # "ABSENT"
    <3>1. CASE q = w
      BY <1>5, <1>6, <1>7, <3>1 DEF Present
    <3>2. CASE q # w
      <4>1. telling'[q] = telling[q] /\ telling[q].op = "JOB_RETRY"
        BY <1>7, <2>4, <3>2 DEF AInv, OneCallEach
      <4>2. Present(telling[q].job) /\ telling[q].job \in Job
        BY <1>7, <2>4, <3>2, <4>1 DEF AInv, OneCallEach, Conclusions
      <4> QED
        BY <1>5, <4>1, <4>2 DEF Present
    <3> QED
      BY <3>1, <3>2
  <2> QED
    BY <2>1, <2>2, <2>3, <2>4 DEF AInv, OneCallEach, Present
<1>11. EndTold'
  <2> SUFFICES ASSUME NEW i \in Job, jobs'[i].state \in Terminal
               PROVE  \E o \in Operation, s \in {jobs'[i].state, Unread} :
                        Arose([op |-> o, job |-> i, result |-> s])'
    BY DEF EndTold
  <2>1. CASE i = j
    BY <1>3, <1>4, <1>7, <2>1 DEF Arose, Operation
  <2>2. CASE i # j
    <3>1. jobs'[i] = jobs[i]
      BY <1>5, <2>2
    <3>2. PICK o \in Operation, s \in {jobs[i].state, Unread} :
             Arose([op |-> o, job |-> i, result |-> s])
      BY <3>1 DEF AInv, EndTold
    <3>3. PICK f : f = [op |-> o, job |-> i, result |-> s]
      OBVIOUS
    <3>4. f.op \in Operation /\ telling[w] # f
      BY <1>4, <1>6, <3>3 DEF Operation
    <3>5. Arose(f)'
      BY <1>4, <3>2, <3>3, <3>4, StillArose
    <3> QED
      BY <3>1, <3>3, <3>5
  <2> QED
    BY <2>1, <2>2
<1>12. ASSUME NEW i \in Job PROVE Charged(i)' /\ ClaimedFirst(i)'
  <2>1. Recorded({"JOB_RETRY"}, i)' = Recorded({"JOB_RETRY"}, i)
    BY <1>4 DEF Recorded
  <2>2. /\ Recorded({"JOB_RETRY"}, i) \in Nat /\ IsFiniteSet(Telling(i))
        /\ Cardinality(Telling(i)) \in Nat
    BY Finite
  <2>3. i = j => Retries(i)' = Retries(i) + 1
    <3> SUFFICES ASSUME i = j PROVE Retries(i)' = Retries(i) + 1
      OBVIOUS
    <3>1. Telling(i)' = Telling(i) \cup {w} /\ w \notin Telling(i)
      BY <1>4, <1>6, <1>7 DEF Telling
    <3>2. Cardinality(Telling(i) \cup {w}) = Cardinality(Telling(i)) + 1
      BY <2>2, <3>1, FS_AddElement
    <3> QED
      BY <2>1, <2>2, <3>1, <3>2 DEF Retries
  <2>4. i # j => Retries(i)' = Retries(i)
    <3> SUFFICES ASSUME i # j PROVE Retries(i)' = Retries(i)
      OBVIOUS
    <3>1. Telling(i)' = Telling(i)
      BY <1>4, <1>6, <1>7 DEF Telling
    <3> QED
      BY <2>1, <3>1 DEF Retries
  <2>5. Retries(i) \in Nat /\ Retries(i)' \in Nat /\ Retries(i)' >= Retries(i)
    BY <2>3, <2>4, Finite
  <2>6. ASSUME NEW q \in Caller, call'[q].at = "retry", call'[q].job = i
        PROVE  call'[q].attempts <= Retries(i)'
    <3>1. q # w /\ call'[q] = call[q] /\ call[q] \in CallState
      BY <1>6, <1>7, <2>6 DEF AInv, IInv, TypeOK
    <3>2. call[q].attempts <= Retries(i) /\ call[q].attempts \in Nat
      BY <2>6, <3>1 DEF AInv, Charged, CallState
    <3> QED
      BY <2>5, <3>1, <3>2
  <2>7. jobs'[i].attempts <= Retries(i)'
    <3>1. CASE i = j
      <4>1. call[w].attempts <= Retries(i)
        BY <1>2, <1>4, <3>1 DEF AInv, Charged
      <4> QED
        BY <1>5, <2>3, <2>5, <3>1, <4>1
    <3>2. CASE i # j
      BY <1>5, <2>4, <3>2 DEF AInv, Charged
    <3> QED
      BY <3>1, <3>2
  <2>8. ASSUME NEW v \in WorkerId, Owes(v, i)' PROVE Owes(v, i)
    <3>1. v \in Caller
      BY AuditAssumption
    <3>2. CASE v = w
      BY <1>2, <1>4, <1>6, <1>7, <1>9, <2>8, <3>2 DEF Owes
    <3>3. CASE v # w
      BY <1>7, <1>9, <2>8, <3>1, <3>3 DEF Owes
    <3> QED
      BY <3>2, <3>3
  <2>9. Owing(i)' \subseteq Owing(i)
    BY <2>8 DEF Owing
  <2> QED
    BY <1>4, <2>6, <2>7, <2>9, CountsKept DEF Charged
<1> QED
  BY <1>8, <1>10, <1>11, <1>12 DEF AInv

\* The read of the state that a retry tells.
LEMMA ReadBackInv ==
  ASSUME AInv, IInv', NEW w \in WorkerId, ReadBack(w)
  PROVE  AInv'
<1>1. w \in Caller /\ telling[w] \in Event /\ telling[w].result = Unread
  BY AuditAssumption DEF ReadBack, AInv, ATyped
<1>2. PICK j : j = telling[w].job
  OBVIOUS
<1>3. PICK e : e = [op |-> "JOB_RETRY", job |-> j, result |-> jobs[j].state]
  OBVIOUS
<1>4. /\ telling' = [telling EXCEPT ![w] = e]
      /\ UNCHANGED <<jobs, inserted, call, log, lost, calls>>
  BY <1>2, <1>3 DEF ReadBack, ToTell, vars
<1>5. telling'[w] = e /\ \A q \in Caller \ {w} : telling'[q] = telling[q]
  BY <1>1, <1>4 DEF AInv, ATyped
<1>6. telling[w].op = "JOB_RETRY" /\ j \in Job /\ jobs[j].state \in JobState
  <2>1. telling[w] # Nothing
    BY DEF ReadBack
  <2>2. telling[w].op = "JOB_RETRY" /\ Present(j) /\ j \in Job
    BY <1>1, <1>2, <2>1 DEF AInv, OneCallEach, Conclusions
  <2> QED
    BY <2>2 DEF AInv, IInv, TypeOK, Row, Present
<1>7. /\ e \in Event /\ e.op = "JOB_RETRY" /\ e.job = j /\ e # Nothing
      /\ e.result # Unread
  BY <1>3, <1>6 DEF Event, Operation, Nothing, Unread, JobState, Live, Terminal
<1>8. ATyped'
  <2>1. Busy' \subseteq Busy \cup {w}
    BY <1>4, <1>5 DEF Busy
  <2>2. IsFiniteSet(Busy)'
    BY <1>1, <2>1, BusyGrows
  <2> QED
    BY <1>4, <1>7, <2>2 DEF AInv, ATyped
<1>9. OneCallEach'
  <2>1. ASSUME NEW q \in Caller, telling'[q] # Nothing
        PROVE  /\ telling[q] # Nothing
               /\ telling'[q].op = telling[q].op /\ telling'[q].job = telling[q].job
               /\ telling'[q].result = Unread => telling[q].result = Unread
    BY <1>1, <1>2, <1>5, <1>6, <1>7, <2>1 DEF ReadBack
  <2>2. Nothing.op \notin Conclusions \cup {"JOB_CLAIM"}
    BY DEF Nothing, Conclusions
  <2>3. \A q \in Caller : telling[q] = Nothing => telling'[q] = Nothing
    BY <1>5 DEF ReadBack
  <2>4. Conclusions \subseteq Conclusions \cup {"JOB_CLAIM"}
    OBVIOUS
  <2> QED
    BY <1>4, <2>1, <2>2, <2>3, <2>4 DEF AInv, OneCallEach, Present
<1>10. EndTold'
  <2> SUFFICES ASSUME NEW i \in Job, jobs[i].state \in Terminal
               PROVE  \E o \in Operation, s \in {jobs[i].state, Unread} :
                        Arose([op |-> o, job |-> i, result |-> s])'
    BY <1>4 DEF EndTold
  <2>1. PICK o \in Operation, s \in {jobs[i].state, Unread} :
           Arose([op |-> o, job |-> i, result |-> s])
    BY DEF AInv, EndTold
  <2>2. PICK f : f = [op |-> o, job |-> i, result |-> s]
    OBVIOUS
  <2>3. CASE telling[w] = f
    <3>1. i = j
      BY <1>2, <2>2, <2>3
    <3> QED
      BY <1>1, <1>3, <1>5, <3>1 DEF Arose, Operation
  <2>4. CASE telling[w] # f
    <3>1. f.op \in Operation
      BY <2>2
    <3>2. Arose(f)'
      BY <1>1, <1>4, <2>1, <2>2, <2>4, <3>1, StillArose
    <3> QED
      BY <2>2, <3>2
  <2> QED
    BY <2>3, <2>4
<1>11. ASSUME NEW i \in Job PROVE Charged(i)' /\ ClaimedFirst(i)'
  <2>1. Telling(i)' = Telling(i)
    BY <1>1, <1>2, <1>5, <1>6, <1>7 DEF Telling
  <2>2. Retries(i)' = Retries(i)
    BY <1>4, <2>1 DEF Retries, Recorded
  <2>3. Charged(i)'
    BY <1>4, <2>2 DEF AInv, Charged
  <2>4. ASSUME NEW v \in WorkerId, Owes(v, i)' PROVE Owes(v, i)
    <3>1. v \in Caller
      BY AuditAssumption
    <3> QED
      BY <1>2, <1>4, <1>5, <1>6, <1>7, <2>4, <3>1 DEF Owes
  <2>5. Owing(i)' \subseteq Owing(i)
    BY <2>4 DEF Owing
  <2> QED
    BY <1>4, <2>3, <2>5, CountsKept
<1> QED
  BY <1>8, <1>9, <1>10, <1>11 DEF AInv

\* An event reaches the log, or is lost: either way it moves from the processes
\* to what is recorded, and is counted there instead.
LEMMA Moved ==
  ASSUME AInv, NEW p \in Caller, telling[p] # Nothing,
         telling' = [telling EXCEPT ![p] = Nothing], UNCHANGED <<vars, calls>>,
         \/ log' = Append(log, telling[p]) /\ UNCHANGED lost
         \/ lost' = Append(lost, telling[p]) /\ UNCHANGED log
  PROVE  /\ IsFiniteSet(Busy)' /\ OneCallEach' /\ EndTold'
         /\ \A j \in Job :
              /\ Charged(j)'
              /\ (Recorded(Conclusions, j) + Cardinality(Owing(j)) <= Recorded({"JOB_CLAIM"}, j))'
              /\ \A ops : Recorded(ops, j)' \in Nat
              /\ Cardinality(Owing(j))' \in Nat
<1>1. PICK e : e = telling[p]
  OBVIOUS
<1>2. e \in Event /\ e # Nothing /\ Nothing.op = "none" /\ log \in Seq(Event) /\ lost \in Seq(Event)
  BY <1>1 DEF AInv, ATyped, Nothing
<1>3. \/ Extends(log', log, e) /\ UNCHANGED lost
      \/ Extends(lost', lost, e) /\ UNCHANGED log
  BY <1>1, <1>2, Appended
<1>4. telling'[p] = Nothing /\ \A q \in Caller \ {p} : telling'[q] = telling[q]
  BY DEF AInv, ATyped
<1>5. UNCHANGED <<jobs, call>>
  BY DEF vars
<1>6. IsFiniteSet(Busy)'
  <2>1. Busy' \subseteq Busy \cup {p}
    BY <1>4, <1>5 DEF Busy
  <2> QED
    BY <2>1, BusyGrows
<1>7. OneCallEach'
  <2>1. Nothing.op \notin Conclusions \cup {"JOB_CLAIM"} /\ Nothing.op \notin Conclusions
    BY <1>2 DEF Conclusions
  <2>2. \A q \in Caller : telling'[q] = Nothing \/ telling'[q] = telling[q]
    BY <1>4
  <2> QED
    BY <1>4, <1>5, <2>1, <2>2 DEF AInv, OneCallEach, Present
<1>8. EndTold'
  <2> SUFFICES ASSUME NEW i \in Job, jobs[i].state \in Terminal
               PROVE  \E o \in Operation, s \in {jobs[i].state, Unread} :
                        Arose([op |-> o, job |-> i, result |-> s])'
    BY <1>5 DEF EndTold
  <2>1. PICK o \in Operation, s \in {jobs[i].state, Unread} :
           Arose([op |-> o, job |-> i, result |-> s])
    BY DEF AInv, EndTold
  <2>2. PICK f : f = [op |-> o, job |-> i, result |-> s]
    OBVIOUS
  <2>3. /\ \A k \in DOMAIN log : k \in DOMAIN log' /\ log'[k] = log[k]
        /\ \A k \in DOMAIN lost : k \in DOMAIN lost' /\ lost'[k] = lost[k]
        /\ \/ \E k \in DOMAIN log' : log'[k] = e
           \/ \E k \in DOMAIN lost' : lost'[k] = e
    <3>1. ASSUME NEW u \in Seq(Event), NEW t, Extends(t, u, e)
          PROVE  /\ \A k \in DOMAIN u : k \in DOMAIN t /\ t[k] = u[k]
                 /\ \E k \in DOMAIN t : t[k] = e
      BY <3>1 DEF Extends
    <3> QED
      BY <1>2, <1>3, <3>1
  <2>4. Arose(f)'
    BY <1>1, <1>4, <2>1, <2>2, <2>3 DEF Arose
  <2> QED
    BY <2>2, <2>4
<1>9. ASSUME NEW j \in Job
      PROVE  /\ Charged(j)'
             /\ (Recorded(Conclusions, j) + Cardinality(Owing(j)) <= Recorded({"JOB_CLAIM"}, j))'
             /\ \A ops : Recorded(ops, j)' \in Nat
             /\ Cardinality(Owing(j)') \in Nat
  <2>1. ASSUME NEW ops
        PROVE  /\ Recorded(ops, j) \in Nat
               /\ Recorded(ops, j)' =
                    Recorded(ops, j) + (IF e.op \in ops /\ e.job = j THEN 1 ELSE 0)
    <3>1. Len(log) \in Nat /\ Len(lost) \in Nat
      BY <1>2
    <3>2. Occurrences(log, Len(log), ops, j) \in Nat /\ Occurrences(lost, Len(lost), ops, j) \in Nat
      BY <3>1, Counts
    <3>3. CASE Extends(log', log, e) /\ UNCHANGED lost
      <4>1. Occurrences(log', Len(log'), ops, j) =
              Occurrences(log, Len(log), ops, j) + (IF e.op \in ops /\ e.job = j THEN 1 ELSE 0)
        BY <1>2, <3>3, AppendedCounts
      <4> QED
        BY <3>2, <3>3, <4>1 DEF Recorded
    <3>4. CASE Extends(lost', lost, e) /\ UNCHANGED log
      <4>1. Occurrences(lost', Len(lost'), ops, j) =
              Occurrences(lost, Len(lost), ops, j) + (IF e.op \in ops /\ e.job = j THEN 1 ELSE 0)
        BY <1>2, <3>4, AppendedCounts
      <4> QED
        BY <3>2, <3>4, <4>1 DEF Recorded
    <3> QED
      BY <1>3, <3>3, <3>4
  <2>2. /\ IsFiniteSet(Telling(j)) /\ Cardinality(Telling(j)) \in Nat
        /\ IsFiniteSet(Owing(j)) /\ Cardinality(Owing(j)) \in Nat
    BY Finite
  <2>3. Retries(j)' = Retries(j)
    <3>1. CASE e.op = "JOB_RETRY" /\ e.job = j
      <4>1. p \in Telling(j) /\ Telling(j)' = Telling(j) \ {p}
        BY <1>1, <1>2, <1>4, <3>1 DEF Telling
      <4>2. Cardinality(Telling(j) \ {p}) = Cardinality(Telling(j)) - 1
        BY <2>2, <4>1, FS_RemoveElement
      <4>3. /\ Recorded({"JOB_RETRY"}, j) \in Nat
            /\ Recorded({"JOB_RETRY"}, j)' = Recorded({"JOB_RETRY"}, j) + 1
        BY <2>1, <3>1
      <4> QED
        BY <2>2, <4>1, <4>2, <4>3 DEF Retries
    <3>2. CASE ~(e.op = "JOB_RETRY" /\ e.job = j)
      <4>1. Telling(j)' = Telling(j)
        BY <1>1, <1>2, <1>4, <3>2 DEF Telling
      <4>2. /\ Recorded({"JOB_RETRY"}, j) \in Nat
            /\ Recorded({"JOB_RETRY"}, j)' = Recorded({"JOB_RETRY"}, j)
        BY <2>1, <3>2
      <4> QED
        BY <4>1, <4>2 DEF Retries
    <3> QED
      BY <3>1, <3>2
  <2>4. Charged(j)' /\ \A ops : Recorded(ops, j)' \in Nat
    <3>1. Charged(j)'
      BY <1>5, <2>3 DEF AInv, Charged
    <3>2. \A ops : Recorded(ops, j)' \in Nat
      BY <2>1
    <3> QED
      BY <3>1, <3>2
  <2>5. call[p].at = "idle"
    BY DEF AInv, OneCallEach
  <2>6. ASSUME NEW w \in WorkerId, w # p PROVE Owes(w, j)' <=> Owes(w, j)
    <3>1. w \in Caller
      BY AuditAssumption
    <3> QED
      BY <1>4, <1>5, <2>6, <3>1 DEF Owes
  <2>7. Owes(p, j)' <=> jobs[j].owner = p
    BY <1>2, <1>4, <1>5, <2>5 DEF Owes, Conclusions
  <2>8. PICK c, d : c = Recorded(Conclusions, j) /\ d = Recorded({"JOB_CLAIM"}, j)
    OBVIOUS
  <2>9. PICK n : n = Cardinality(Owing(j))
    OBVIOUS
  <2>10. c \in Nat /\ d \in Nat /\ n \in Nat /\ c + n <= d
    BY <2>1, <2>2, <2>8, <2>9 DEF AInv, ClaimedFirst
  <2>11. CASE e.op \in Conclusions /\ e.job = j
    <3>1. p \in Owing(j) /\ jobs[j].owner # p
      BY <1>1, <2>11 DEF Owing, Owes, AInv, OneCallEach
    <3>2. Owing(j)' = Owing(j) \ {p}
      BY <2>6, <2>7, <3>1 DEF Owing
    <3>3. Cardinality(Owing(j) \ {p}) = n - 1 /\ n - 1 \in Nat
      <4>1. IsFiniteSet(Owing(j) \ {p}) /\ Cardinality(Owing(j) \ {p}) = n - 1
        BY <2>2, <2>9, <3>1, FS_RemoveElement
      <4> QED
        BY <4>1, FS_CardinalityType
    <3>4. Recorded(Conclusions, j)' = c + 1 /\ Recorded({"JOB_CLAIM"}, j)' = d
      BY <2>1, <2>8, <2>10, <2>11 DEF Conclusions
    <3> QED
      BY <2>4, <2>10, <3>2, <3>3, <3>4
  <2>12. CASE e.op = "JOB_CLAIM" /\ e.job = j
    <3>1. Owing(j)' \subseteq Owing(j) \cup {p}
      BY <2>6 DEF Owing
    <3>2. IsFiniteSet(Owing(j) \cup {p}) /\ Cardinality(Owing(j) \cup {p}) \in {n, n + 1}
      BY <2>2, <2>9, <2>10, FS_AddElement
    <3>3. Cardinality(Owing(j)') <= n + 1 /\ Cardinality(Owing(j)') \in Nat
      <4>1. /\ Cardinality(Owing(j)') <= Cardinality(Owing(j) \cup {p})
            /\ Cardinality(Owing(j)') \in Nat
        BY <3>1, <3>2, FS_Subset, FS_CardinalityType
      <4> QED
        BY <2>10, <3>2, <4>1
    <3>4. Recorded(Conclusions, j)' = c /\ Recorded({"JOB_CLAIM"}, j)' = d + 1
      BY <2>1, <2>8, <2>10, <2>12 DEF Conclusions
    <3> QED
      BY <2>4, <2>10, <3>3, <3>4
  <2>13. CASE ~(e.op \in Conclusions \cup {"JOB_CLAIM"} /\ e.job = j)
    <3>1. Owes(p, j)' => Owes(p, j)
      BY <1>1, <2>7, <2>13 DEF Owes
    <3>2. Owing(j)' \subseteq Owing(j)
      BY <2>6, <3>1 DEF Owing
    <3>3. Cardinality(Owing(j)') <= n /\ Cardinality(Owing(j)') \in Nat
      BY <2>2, <2>9, <3>2, FS_Subset, FS_CardinalityType
    <3>4. Recorded(Conclusions, j)' = c /\ Recorded({"JOB_CLAIM"}, j)' = d
      BY <2>1, <2>8, <2>10, <2>13 DEF Conclusions
    <3> QED
      BY <2>4, <2>10, <3>3, <3>4
  <2> QED
    BY <2>11, <2>12, <2>13
<1> QED
  BY <1>6, <1>7, <1>8, <1>9

LEMMA RecordInv ==
  ASSUME AInv, IInv', NEW p \in Caller, RecordEvent(p)
  PROVE  AInv'
<1>1. PICK e : e = telling[p]
  OBVIOUS
<1>2. /\ e # Nothing /\ e.result # Unread /\ e \in Event
      /\ log' = Append(log, e) /\ UNCHANGED lost
      /\ telling' = [telling EXCEPT ![p] = Nothing] /\ UNCHANGED <<vars, calls>>
  BY <1>1 DEF RecordEvent, AInv, ATyped
<1>3. /\ IsFiniteSet(Busy)' /\ OneCallEach' /\ EndTold'
      /\ \A j \in Job :
           /\ Charged(j)'
           /\ (Recorded(Conclusions, j) + Cardinality(Owing(j)) <= Recorded({"JOB_CLAIM"}, j))'
           /\ \A ops : Recorded(ops, j)' \in Nat
           /\ Cardinality(Owing(j))' \in Nat
  BY <1>1, <1>2, Moved
<1>4. Extends(log', log, e) /\ log \in Seq(Event) /\ lost \in Seq(Event) /\ e \in Event
  BY <1>2, Appended DEF AInv, ATyped
<1>5. ATyped'
  <2>1. \A i \in DOMAIN log' : log'[i].result # Unread
    BY <1>2, <1>4 DEF Extends, AInv, ATyped
  <2> QED
    BY <1>2, <1>3, <1>4, <2>1 DEF Extends, AInv, ATyped
<1>6. ASSUME NEW j \in Job, NEW n \in DOMAIN log'
      PROVE  Occurrences(log', n, Conclusions, j)
               <= Occurrences(log', n, {"JOB_CLAIM"}, j) + Occurrences(lost, Len(lost), {"JOB_CLAIM"}, j)
  <2>1. Len(log) \in Nat /\ Len(lost) \in Nat /\ n \in 1..(Len(log) + 1) /\ Len(log') = Len(log) + 1
    BY <1>4 DEF Extends
  <2>2. CASE n \in 1..Len(log)
    <3>1. \A ops : Occurrences(log', n, ops, j) = Occurrences(log, n, ops, j)
      <4>1. n \in 0..Len(log)
        BY <2>1, <2>2
      <4> QED
        BY <1>4, <4>1, CountsBefore
    <3>2. n \in DOMAIN log
      BY <1>4, <2>2
    <3> QED
      BY <3>1, <3>2 DEF AInv, ClaimedFirst
  <2>3. CASE n = Len(log')
    <3>1. /\ \A ops : Occurrences(log', n, ops, j) \in Nat
          /\ \A ops : Occurrences(lost, Len(lost), ops, j) \in Nat
      BY <2>1, Counts
    <3>2. PICK c, b : /\ c = Occurrences(log', n, Conclusions, j)
                      /\ b = Occurrences(lost, Len(lost), Conclusions, j)
      OBVIOUS
    <3>3. PICK x, y : /\ x = Occurrences(log', n, {"JOB_CLAIM"}, j)
                      /\ y = Occurrences(lost, Len(lost), {"JOB_CLAIM"}, j)
      OBVIOUS
    <3>4. Recorded(Conclusions, j)' = c + b /\ Recorded({"JOB_CLAIM"}, j)' = x + y
      BY <1>2, <2>3, <3>2, <3>3 DEF Recorded
    <3>5. PICK m \in Nat : m = Cardinality(Owing(j)')
      BY <1>3
    <3>6. c + b + m <= x + y
      BY <1>3, <3>4, <3>5
    <3>7. c \in Nat /\ b \in Nat /\ x \in Nat /\ y \in Nat
      BY <3>1, <3>2, <3>3
    <3>8. c <= x + y
      BY <3>5, <3>6, <3>7
    <3> QED
      BY <3>2, <3>3, <3>8
  <2> QED
    BY <2>1, <2>2, <2>3
<1> QED
  BY <1>2, <1>3, <1>5, <1>6 DEF AInv, ClaimedFirst

LEMMA LoseInv ==
  ASSUME AInv, IInv', NEW p \in Caller, LoseEvent(p)
  PROVE  AInv'
<1>1. PICK e : e = telling[p]
  OBVIOUS
<1>2. /\ e # Nothing /\ e \in Event /\ lost' = Append(lost, e) /\ UNCHANGED log
      /\ telling' = [telling EXCEPT ![p] = Nothing] /\ UNCHANGED <<vars, calls>>
  BY <1>1 DEF LoseEvent, AInv, ATyped
<1>3. /\ IsFiniteSet(Busy)' /\ OneCallEach' /\ EndTold'
      /\ \A j \in Job :
           /\ Charged(j)'
           /\ (Recorded(Conclusions, j) + Cardinality(Owing(j)) <= Recorded({"JOB_CLAIM"}, j))'
  BY <1>1, <1>2, Moved
<1>4. Extends(lost', lost, e) /\ lost \in Seq(Event) /\ log \in Seq(Event) /\ e \in Event
  BY <1>2, Appended DEF AInv, ATyped
<1>5. ATyped'
  BY <1>2, <1>3, <1>4 DEF Extends, AInv, ATyped
<1>6. ASSUME NEW j \in Job, NEW n \in DOMAIN log
      PROVE  Occurrences(log, n, Conclusions, j)
               <= Occurrences(log, n, {"JOB_CLAIM"}, j) + Occurrences(lost', Len(lost'), {"JOB_CLAIM"}, j)
  <2>1. PICK x : x = Occurrences(lost, Len(lost), {"JOB_CLAIM"}, j)
    OBVIOUS
  <2>2. PICK y : y = Occurrences(lost', Len(lost'), {"JOB_CLAIM"}, j)
    OBVIOUS
  <2>3. x \in Nat /\ y \in {x, x + 1}
    <3>1. x \in Nat
      BY <1>4, <2>1, Counts
    <3>2. ASSUME NEW ops
          PROVE  Occurrences(lost', Len(lost'), ops, j) =
                   Occurrences(lost, Len(lost), ops, j)
                     + (IF e.op \in ops /\ e.job = j THEN 1 ELSE 0)
      BY <1>4, AppendedCounts
    <3>3. y = x + (IF e.op \in {"JOB_CLAIM"} /\ e.job = j THEN 1 ELSE 0)
      BY <2>1, <2>2, <3>2
    <3> QED
      BY <3>1, <3>3
  <2>4. n \in Nat
    BY <1>4
  <2>5. /\ Occurrences(log, n, Conclusions, j) \in Nat
        /\ Occurrences(log, n, {"JOB_CLAIM"}, j) \in Nat
    BY <2>4, Counts
  <2>6. Occurrences(log, n, Conclusions, j) <= Occurrences(log, n, {"JOB_CLAIM"}, j) + x
    BY <2>1 DEF AInv, ClaimedFirst
  <2> QED
    BY <2>2, <2>3, <2>5, <2>6
<1> QED
  BY <1>2, <1>3, <1>5, <1>6 DEF AInv, ClaimedFirst

LEMMA ATickInv ==
  ASSUME AInv, IInv', Tick, UNCHANGED <<telling, log, lost, calls>>
  PROVE  AInv'
<1>1. Quiet({}) /\ UNCHANGED call
  BY TickQuiet DEF AInv, Tick
<1>2. ATyped'
  BY <1>1 DEF AInv, ATyped, Busy
<1>3. \A k \in Job, v \in WorkerId : jobs'[k].owner = v => jobs[k].owner = v
  BY <1>1, StoreAssumption DEF Quiet
<1>4. OneCallEach'
  <2>1. ASSUME NEW q \in Caller, telling[q].op \in Conclusions
        PROVE  jobs'[telling[q].job].owner # q
    BY <1>3, <2>1 DEF AInv, OneCallEach
  <2>2. ASSUME NEW q \in Caller, telling[q] # Nothing, telling[q].result = Unread
        PROVE  telling[q].op = "JOB_RETRY" /\ jobs'[telling[q].job].state # "ABSENT"
    <3>1. telling[q].op = "JOB_RETRY" /\ Present(telling[q].job) /\ telling[q].job \in Job
      BY <2>2 DEF AInv, OneCallEach, Conclusions
    <3> QED
      BY <1>1, <3>1 DEF Quiet, Present
  <2> QED
    BY <1>1, <2>1, <2>2 DEF AInv, OneCallEach, Present
<1>5. EndTold'
  BY <1>1 DEF AInv, EndTold, Arose, Quiet
<1>6. ASSUME NEW j \in Job PROVE Charged(j)' /\ ClaimedFirst(j)'
  <2>1. Retries(j)' = Retries(j)
    BY DEF Retries, Recorded, Telling
  <2>2. Charged(j)'
    BY <1>1, <2>1 DEF AInv, Charged, Quiet
  <2>3. Owing(j)' \subseteq Owing(j)
    BY <1>1, <1>3 DEF Owing, Owes
  <2> QED
    BY <2>2, <2>3, CountsKept
<1> QED
  BY <1>2, <1>4, <1>5, <1>6 DEF AInv

LEMMA AStutterInv ==
  ASSUME AInv, UNCHANGED avars
  PROVE  AInv'
<1>1. UNCHANGED <<vars, jobs, call, telling, log, lost, calls>>
  BY DEF avars, vars
<1>2. IInv'
  BY <1>1, StutterIInv DEF AInv
<1>3. ATyped' /\ OneCallEach' /\ EndTold'
  BY <1>1 DEF AInv, ATyped, Busy, OneCallEach, Present, EndTold, Arose
<1>4. ASSUME NEW j \in Job PROVE Charged(j)' /\ ClaimedFirst(j)'
  <2>1. Owing(j)' = Owing(j) /\ Retries(j)' = Retries(j)
    BY <1>1 DEF Owing, Owes, Retries, Recorded, Telling
  <2> QED
    BY <1>1, <2>1, CountsKept DEF AInv, Charged
<1> QED
  BY <1>2, <1>3, <1>4 DEF AInv

LEMMA ANextInv == AInv /\ [ANext]_avars => AInv'
<1> SUFFICES ASSUME AInv, [ANext]_avars PROVE AInv'
  OBVIOUS
<1>1. IInv'
  BY AStepInStore, NextIInv DEF AInv
<1>2. CASE UNCHANGED avars
  BY <1>2, AStutterInv
<1>3. ASSUME NEW p \in Caller, Call(p) \/ RecordEvent(p) \/ LoseEvent(p)
      PROVE  AInv'
  BY <1>1, <1>3, CallInv, RecordInv, LoseInv
<1>4. ASSUME NEW w \in WorkerId, WorkerCall(w)
      PROVE  AInv'
  BY <1>1, <1>4, ClaimInv, CompleteInv, RetryInv, RetriedInv, ReadBackInv DEF WorkerCall
<1>5. CASE Tick /\ UNCHANGED <<telling, log, lost, calls>>
  BY <1>1, <1>5, ATickInv
<1> QED
  BY <1>2, <1>3, <1>4, <1>5 DEF ANext

-----------------------------------------------------------------------------

\* The audited store is a store: what JobStoreProofs shows holds below it.
THEOREM AuditedUseStore == ASpec => Spec
<1>1. AInit => Init
  BY DEF AInit
<1>2. [ANext]_avars => [Next]_vars
  BY AStepInStore
<1> QED
  BY <1>1, <1>2, PTL DEF ASpec, Spec

THEOREM AuditInvariance == ASpec => []AInv
BY AInitInv, ANextInv, PTL DEF ASpec

\* No job ends without an event of that end, recorded, on its way or lost.
THEOREM EndsAreTold == ASpec => []EndTold
BY AuditInvariance, PTL DEF AInv

LEMMA InvAttempts == AInv => AttemptsTold
<1> SUFFICES ASSUME AInv PROVE AttemptsTold
  OBVIOUS
<1>1. ATypeOK
  BY DEF AInv, IInv, ATyped, ATypeOK
<1>2. ASSUME NEW j \in Job
      PROVE  jobs[j].attempts <=
               Occurrences(log, Len(log), {"JOB_RETRY"}, j)
               + Occurrences(lost, Len(lost), {"JOB_RETRY"}, j)
               + Cardinality({p \in Caller : telling[p].op = "JOB_RETRY" /\ telling[p].job = j})
  BY DEF AInv, Charged, Retries, Recorded, Telling
<1> QED
  BY <1>1, <1>2 DEF AttemptsTold

\* The events of the log, lost or pending account for every attempt charged.
THEOREM AttemptsAreTold == ASpec => []AttemptsTold
BY AuditInvariance, InvAttempts, PTL

LEMMA InvClaims == AInv => ClaimsToldFirst
BY DEF AInv, ClaimedFirst, ClaimsToldFirst, Conclusions

\* No execution is concluded in the log before it has begun there.
THEOREM ClaimsAreToldFirst == ASpec => []ClaimsToldFirst
BY AuditInvariance, InvClaims, PTL

=============================================================================
