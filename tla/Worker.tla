------------------------------- MODULE Worker -------------------------------
(***************************************************************************)
(* Worker.run_once of teldrive_lab/worker.py over the durable queue.        *)
(*                                                                          *)
(* Each worker process runs claim, safety gate, executor, state check and   *)
(* report as separate steps, with the other workers, the operator's         *)
(* controls, lease recovery and time between any two of them.  A process    *)
(* may die at every step; its successor starts again at claim.  worker_id   *)
(* defaults to a fresh uuid4, so an id is used by one process at a time.    *)
(***************************************************************************)
EXTENDS JobStore

CONSTANTS
  Denied,      \* the jobs whose paths the safety gate refuses
  Outcomes,    \* the ExecutionStatus values the executors may return
  Controls,    \* the operator's controls in use: "pause" (with resume), "cancel"
  CrashLimit,  \* how many times processes may die ...
  CrashForever \* ... unless they may die again and again

ASSUME WorkerAssumption ==
  /\ Denied \subseteq Job
  /\ Outcomes \subseteq {"SUCCESS", "RETRYABLE", "PERMANENT", "UNSAFE", "CANCELLED"}
  /\ Controls \subseteq {"pause", "cancel"}
  /\ CrashLimit \in Nat /\ CrashForever \in BOOLEAN
  /\ WorkerId \subseteq Caller

VARIABLES
  pc,        \* where each process is in run_once
  task,      \* the job that run_once claimed
  result,    \* what the executor returned
  crashes,   \* processes that died so far, when CrashLimit bounds them
  claimant,  \* history: the process whose claim of the job came last
  displaced  \* history: how the process lost the claim it works under

workerVars == <<pc, task, result>>
history    == <<claimant, displaced>>
allVars    == <<vars, workerVars, crashes, history>>

Causes == {"lapse", "pause", "cancel", "retry"}

WInit ==
  /\ Init
  /\ pc = [w \in WorkerId |-> "idle"]
  /\ task = [w \in WorkerId |-> NoJob]
  /\ result = [w \in WorkerId |-> "none"]
  /\ crashes = 0
  /\ claimant = [j \in Job |-> NoWorker]
  /\ displaced = [w \in WorkerId |-> "no"]

\* displaced once the claims on the jobs in S have ended for this cause.
Displacing(S, cause) ==
  [w \in WorkerId |->
     IF \E j \in S : claimant[j] = w /\ task[w] = j /\ OwnedBy(j, w)
     THEN cause ELSE displaced[w]]

Goto(w, label) == pc' = [pc EXCEPT ![w] = label]

\* run_once is over for w, which takes its history with it.
Leave(w, d) ==
  /\ Goto(w, "idle")
  /\ task' = [task EXCEPT ![w] = NoJob]
  /\ result' = [result EXCEPT ![w] = "none"]
  /\ displaced' = [d EXCEPT ![w] = "no"]
  /\ UNCHANGED claimant

\* run_once returns or raises: the process is free to call it again.
Finish(w) == Leave(w, displaced) /\ UNCHANGED crashes

-----------------------------------------------------------------------------
(* run_once *)

Start(w, j) ==
  /\ pc[w] = "idle"
  /\ Claim(j, w)
  /\ Goto(w, "gate")
  /\ task' = [task EXCEPT ![w] = j]
  /\ claimant' = [claimant EXCEPT ![j] = w]
  /\ UNCHANGED <<result, crashes, displaced>>

\* The gate refuses: store.fail, or the ValueError it raises when the claim
\* is already gone.
Deny(w) ==
  /\ pc[w] = "gate"
  /\ task[w] \in Denied
  /\ Fail(task[w], w) \/ (~OwnedBy(task[w], w) /\ UNCHANGED vars)
  /\ Finish(w)

Approve(w) ==
  /\ pc[w] = "gate"
  /\ task[w] \notin Denied
  /\ Goto(w, "execute")
  /\ UNCHANGED <<vars, task, result, crashes, history>>

Execute(w) ==
  /\ pc[w] = "execute"
  /\ \E r \in Outcomes : result' = [result EXCEPT ![w] = r]
  /\ Goto(w, "check")
  /\ UNCHANGED <<vars, task, crashes, history>>

\* current = store.get(...): go on only while the claim stands.
CheckClaim(w) ==
  /\ pc[w] = "check"
  /\ OwnedBy(task[w], w)
  /\ Goto(w, "report")
  /\ UNCHANGED <<vars, task, result, crashes, history>>

ControlRace(w) ==
  /\ pc[w] = "check"
  /\ ~OwnedBy(task[w], w)
  /\ UNCHANGED vars
  /\ Finish(w)

ReportVerifying(w) ==
  /\ pc[w] = "report"
  /\ result[w] = "SUCCESS"
  /\ BeginVerification(task[w], w)
  /\ Goto(w, "complete")
  /\ UNCHANGED <<task, result, crashes, history>>

ReportCompleted(w) ==
  /\ pc[w] = "complete"
  /\ CompleteVerification(task[w], w)
  /\ Finish(w)

ReportFailed(w) ==
  /\ pc[w] = "report"
  /\ result[w] \in {"PERMANENT", "UNSAFE"}
  /\ Fail(task[w], w)
  /\ Finish(w)

\* store.retry, first statement and second.
ReportRetry(w) ==
  /\ pc[w] = "report"
  /\ result[w] = "RETRYABLE"
  /\ RetryRead(w, task[w], w)
  /\ Goto(w, "retrying")
  /\ UNCHANGED <<task, result, crashes, history>>

WriteRetry(w, d) ==
  /\ pc[w] = "retrying"
  /\ RetryWrite(w, d)
  /\ Leave(w, Displacing({task[w]}, "retry"))
  /\ UNCHANGED crashes

\* store.cancel names no worker: it ends whatever claim the job is under.
ReportCancelled(w) ==
  /\ pc[w] = "report"
  /\ result[w] = "CANCELLED"
  /\ Cancel(task[w])
  /\ Leave(w, Displacing({task[w]}, "cancel"))
  /\ UNCHANGED crashes

\* The claim ended after the check: the UPDATE matches no row and the store
\* raises ValueError out of run_once.
ReportRaises(w) ==
  /\ \/ pc[w] = "report" /\ result[w] = "SUCCESS" /\ ~RunningBy(task[w], w)
     \/ pc[w] = "complete" /\ ~VerifyingBy(task[w], w)
     \/ /\ pc[w] = "report"
        /\ result[w] \in {"PERMANENT", "UNSAFE", "RETRYABLE"}
        /\ ~OwnedBy(task[w], w)
     \/ /\ pc[w] = "report"
        /\ result[w] = "CANCELLED"
        /\ jobs[task[w]].state \notin Live
  /\ UNCHANGED vars
  /\ Finish(w)

Crash(w) ==
  /\ pc[w] # "idle"
  /\ CrashForever \/ crashes < CrashLimit
  /\ crashes' = IF CrashForever THEN crashes ELSE crashes + 1
  /\ call' = [call EXCEPT ![w] = Idle]
  /\ Leave(w, displaced)
  /\ UNCHANGED <<jobs, inserted>>

Step(w) ==
  \/ Deny(w) \/ Approve(w) \/ Execute(w) \/ CheckClaim(w) \/ ControlRace(w)
  \/ ReportVerifying(w) \/ ReportCompleted(w) \/ ReportFailed(w)
  \/ ReportRetry(w) \/ ReportCancelled(w) \/ ReportRaises(w)
  \/ \E d \in Delays : WriteRetry(w, d)

-----------------------------------------------------------------------------
(* The rest of the system: submitters, the operator, recovery and time *)

Submit(j) ==
  /\ \E p \in Priorities, m \in Limits : Enqueue(j, p, m)
  /\ UNCHANGED <<workerVars, crashes, history>>

Operate(j) ==
  /\ \/ "pause" \in Controls /\ Pause(j) /\ displaced' = Displacing({j}, "pause")
     \/ "pause" \in Controls /\ Resume(j) /\ UNCHANGED displaced
     \/ "cancel" \in Controls /\ Cancel(j) /\ displaced' = Displacing({j}, "cancel")
  /\ UNCHANGED <<workerVars, crashes, claimant>>

Recover ==
  /\ RecoverExpiredLeases
  /\ displaced' = Displacing({j \in Job : Lapsed(j)}, "lapse")
  /\ UNCHANGED <<workerVars, crashes, claimant>>

Pass ==
  /\ Tick
  /\ UNCHANGED <<workerVars, crashes, history>>

WNext ==
  \/ \E w \in WorkerId : Step(w) \/ Crash(w) \/ (\E j \in Job : Start(w, j))
  \/ \E j \in Job : Submit(j) \/ Operate(j)
  \/ Recover
  \/ Pass

WSpec == WInit /\ [][WNext]_allVars

-----------------------------------------------------------------------------
(* Safety *)

\* Every variable has its type.
\* A conjunct of HoldsOrDisplaced.
WTypeOK ==
  /\ TypeOK
  /\ pc \in [WorkerId -> {"idle", "gate", "execute", "check", "report",
                          "complete", "retrying"}]
  /\ task \in [WorkerId -> Job \cup {NoJob}]
  /\ result \in [WorkerId -> Outcomes \cup {"none"}]
  /\ crashes \in Nat
  /\ claimant \in [Job -> WorkerId \cup {NoWorker}]
  /\ displaced \in [WorkerId -> Causes \cup {"no"}]

\* A process inside run_once still owns the job it claimed, unless its lease
\* lapsed and was recovered, the operator paused or cancelled the job, or
\* another process's retry or cancel report landed on it.  So two processes
\* execute one job only after one of these, never by a race of two claims.
HoldsOrDisplaced ==
  /\ WTypeOK
  /\ \A w \in WorkerId : pc[w] # "idle" /\ displaced[w] = "no" =>
       claimant[task[w]] = w /\ OwnedBy(task[w], w)

\* A job becomes COMPLETED only in the step of the process that claimed it
\* last, whose executor returned SUCCESS under that very claim.
SuccessEarned ==
  [][\A j \in Job : jobs[j].state # "COMPLETED" /\ jobs'[j].state = "COMPLETED" =>
       \E w \in WorkerId : /\ claimant[j] = w /\ task[w] = j /\ pc'[w] = "idle"
                           /\ result[w] = "SUCCESS" /\ displaced[w] = "no"]_allVars

\* A process that has lost its claim changes no row any more.  The two reports
\* the store does not fence are the exception: the second statement of a
\* retry, and cancel.
DisplacedReportsIgnored ==
  [][\A w \in WorkerId :
       pc[w] # "idle" /\ pc'[w] # pc[w] /\ displaced[w] # "no" /\ jobs' # jobs =>
         pc[w] = "retrying" \/ result[w] = "CANCELLED"]_allVars

-----------------------------------------------------------------------------
(* Liveness *)

\* Processes keep calling run_once and finish what they started, expired
\* leases are recovered again and again, and time passes.
WFairness ==
  /\ \A w \in WorkerId : /\ WF_allVars(Step(w))
                         /\ WF_allVars(\E j \in Job : Start(w, j))
  /\ WF_allVars(Recover)

FairSpec == WSpec /\ WFairness /\ WF_allVars(Pass)

\* The same, when no live process outstays its lease: executors are quicker
\* than lease_seconds, which run_once never renews.
TimelyPass ==
  /\ \A w \in WorkerId : task[w] # NoJob /\ OwnedBy(task[w], w) => jobs[task[w]].lease > 0
  /\ Pass

TimelyNext ==
  \/ \E w \in WorkerId : Step(w) \/ Crash(w) \/ (\E j \in Job : Start(w, j))
  \/ \E j \in Job : Submit(j) \/ Operate(j)
  \/ Recover
  \/ TimelyPass

TimelySpec ==
  WInit /\ [][TimelyNext]_allVars /\ WFairness /\ WF_allVars(TimelyPass)

\* Every queued job ends, or waits for the operator who paused it.
\* JOB_MODEL.md section 10: there is no infinite retry loop.
Settles ==
  \A j \in Job : jobs[j].state = "QUEUED" ~> jobs[j].state \in Terminal \cup {"PAUSED"}

=============================================================================
