---------------------------- MODULE JobContract ----------------------------
(***************************************************************************)
(* What the job queue promises its callers, without leases, priorities,     *)
(* timers or verification: a job waits, is held by one worker at a time,    *)
(* and ends once.  It is charged at most one attempt each time a holder     *)
(* lets go, and it may wait or be held only while an attempt is left.       *)
(***************************************************************************)
EXTENDS Integers

CONSTANTS Job, WorkerId, Limits, NoWorker

VARIABLES
  phase,   \* absent, waiting, held, succeeded or stopped
  holder,  \* the worker that holds the job, or NoWorker
  spent,   \* attempts charged
  budget   \* attempts allowed

contractVars == <<phase, holder, spent, budget>>

Init ==
  /\ phase = [j \in Job |-> "absent"]
  /\ holder = [j \in Job |-> NoWorker]
  /\ spent = [j \in Job |-> 0]
  /\ budget = [j \in Job |-> 0]

Submit(j) ==
  /\ phase[j] = "absent"
  /\ phase' = [phase EXCEPT ![j] = "waiting"]
  /\ \E m \in Limits : budget' = [budget EXCEPT ![j] = m]
  /\ UNCHANGED <<holder, spent>>

Take(j) ==
  /\ phase[j] = "waiting"
  /\ phase' = [phase EXCEPT ![j] = "held"]
  /\ \E w \in WorkerId : holder' = [holder EXCEPT ![j] = w]
  /\ UNCHANGED <<spent, budget>>

\* Abandoned jobs go back to the queue together, free of charge.
Reclaim(S) ==
  /\ \A j \in S : phase[j] = "held"
  /\ phase' = [j \in Job |-> IF j \in S THEN "waiting" ELSE phase[j]]
  /\ holder' = [j \in Job |-> IF j \in S THEN NoWorker ELSE holder[j]]
  /\ UNCHANGED <<spent, budget>>

\* The holder gives the job back after a failed attempt.
Requeue(j) ==
  /\ phase[j] = "held"
  /\ spent[j] + 1 < budget[j]
  /\ phase' = [phase EXCEPT ![j] = "waiting"]
  /\ holder' = [holder EXCEPT ![j] = NoWorker]
  /\ spent' = [spent EXCEPT ![j] = @ + 1]
  /\ UNCHANGED budget

\* Success comes only from a holder, and costs nothing.
Succeed(j) ==
  /\ phase[j] = "held"
  /\ phase' = [phase EXCEPT ![j] = "succeeded"]
  /\ holder' = [holder EXCEPT ![j] = NoWorker]
  /\ UNCHANGED <<spent, budget>>

GiveUp(j) ==
  /\ phase[j] = "held"
  /\ spent[j] < budget[j]
  /\ phase' = [phase EXCEPT ![j] = "stopped"]
  /\ holder' = [holder EXCEPT ![j] = NoWorker]
  /\ spent' = [spent EXCEPT ![j] = @ + 1]
  /\ UNCHANGED budget

Withdraw(j) ==
  /\ phase[j] \in {"waiting", "held"}
  /\ phase' = [phase EXCEPT ![j] = "stopped"]
  /\ holder' = [holder EXCEPT ![j] = NoWorker]
  /\ UNCHANGED <<spent, budget>>

JobStep(j) ==
  Submit(j) \/ Take(j) \/ Requeue(j) \/ Succeed(j) \/ GiveUp(j) \/ Withdraw(j)

Next ==
  \/ \E j \in Job : JobStep(j)
  \/ \E S \in SUBSET Job : Reclaim(S)

Spec == Init /\ [][Next]_contractVars
=============================================================================
