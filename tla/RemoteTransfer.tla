--------------------------- MODULE RemoteTransfer ---------------------------
(***************************************************************************)
(* Jobs whose files rclone copies: DurableExecutionRegistry with an rclone  *)
(* adapter, RcloneTransferBackend, and the VERIFY jobs of the same          *)
(* registry.                                                                *)
(*                                                                          *)
(* rclone is an external program.  It reads its source for a while and      *)
(* writes at the end; exit code 0 may mean that it took the destination to  *)
(* be up to date.  The check reads both sides at moments of its own.  A     *)
(* copy goes on when the worker that started it dies.  A content stands for *)
(* its digest; the worker's claims and retries are those of Worker, here in *)
(* one step each.                                                           *)
(***************************************************************************)
EXTENDS Integers

CONSTANTS
  Task,                \* jobs
  Kind, From, To,      \* of each job: type, source, destination
  Granted,             \* jobs that come with a receipt for a transfer
  Place,               \* files, local and remote
  Protected,           \* those inside the protected boundary
  Checksum,            \* what VERIFY jobs expect
  MaxTries, MaxEdits, MaxDeathsOfWorkers

Absent  == -1          \* no file there
Garbled == -2          \* parts of several contents
Unread  == -3
Data    == 0..MaxEdits \cup {Absent, Garbled}

ASSUME RemoteAssumption ==
  /\ Kind \in [Task -> {"UPLOAD", "DOWNLOAD", "VERIFY", "INDEX"}]
  /\ From \in [Task -> Place] /\ To \in [Task -> Place]
  /\ Granted \subseteq Task /\ Protected \subseteq Place /\ Checksum \in 0..MaxEdits
  /\ MaxTries \in Nat \ {0} /\ MaxEdits \in Nat /\ MaxDeathsOfWorkers \in Nat

VARIABLES
  data,     \* what is at each place
  task,     \* each job: where it is, attempts charged, what rclone carries, the check's
            \* readings of the two sides, and (history) what they held since it began
  orphans,  \* copies whose worker has died
  spent     \* edits by others, and deaths

remoteVars == <<data, task, orphans, spent>>

Waiting == [at |-> "queued", tries |-> 0, carried |-> Unread, here |-> Unread, there |-> Unread,
            heldHere |-> {}, heldThere |-> {}]

RemoteInit ==
  /\ data \in [Place -> {0, Absent}]
  /\ \A p \in Protected : data[p] = 0
  /\ task = [t \in Task |-> Waiting]
  /\ orphans = {}
  /\ spent = [edits |-> 0, deaths |-> 0]

\* The jobs, once a place has got content d: a check that runs may see either.
Noticed(p, d) ==
  [t \in Task |-> IF task[t].at # "check" THEN task[t]
     ELSE [task[t] EXCEPT !.heldHere  = @ \cup IF p = From[t] THEN {d} ELSE {},
                          !.heldThere = @ \cup IF p = To[t] THEN {d} ELSE {}]]

-----------------------------------------------------------------------------
(* Claim, gate and dispatch.                                                 *)

\* authorize(): a transfer needs a receipt and stays outside the boundary.
Allowed(t) == Kind[t] \in {"VERIFY", "INDEX"}
           \/ (t \in Granted /\ {From[t], To[t]} \cap Protected = {})

\* The jobs, those of tasks otherwise, once an attempt of t has ended.  A
\* retryable failure is charged.
Ended(tasks, t, end) ==
  LET tries == task[t].tries + 1 IN
  [tasks EXCEPT ![t] =
    IF end = "retry"
    THEN [Waiting EXCEPT !.tries = tries, !.at = IF tries < MaxTries THEN "queued" ELSE "failed"]
    ELSE [Waiting EXCEPT !.tries = task[t].tries, !.at = end,
                         !.heldHere = task[t].heldHere, !.heldThere = task[t].heldThere]]

Finish(t, end) == task' = Ended(task, t, end)

\* The gate's refusal, and DispatchingExecutor without an executor for the type.
Refuse(t) ==
  /\ task[t].at = "queued"
  /\ ~Allowed(t) \/ Kind[t] = "INDEX"
  /\ Finish(t, "failed")
  /\ UNCHANGED <<data, orphans, spent>>

-----------------------------------------------------------------------------
(* RcloneTransferBackend.transfer.                                           *)

\* rclone copyto starts to read.
StartCopyTo(t) ==
  /\ task[t].at = "queued" /\ Allowed(t) /\ Kind[t] \in {"UPLOAD", "DOWNLOAD"}
  /\ task' = [task EXCEPT ![t] = [@ EXCEPT !.at = "copy", !.carried = data[From[t]]]]
  /\ UNCHANGED <<data, orphans, spent>>

\* What a copy may leave at its destination: what it read, a mixture if the
\* source has changed meanwhile, or what was there.
Leaves(carried, from, to) ==
  {carried, data[to]} \cup IF data[from] # carried THEN {Garbled} ELSE {}

\* Exit code 0.
CopyReturns(t) ==
  /\ task[t].at = "copy" /\ task[t].carried # Absent
  /\ \E d \in Leaves(task[t].carried, From[t], To[t]) :
       /\ data' = [data EXCEPT ![To[t]] = d]
       /\ task' = [Noticed(To[t], d) EXCEPT ![t].at = "copied", ![t].carried = Unread]
  /\ UNCHANGED <<orphans, spent>>

\* Another exit code: the destination is written, removed or left alone; or there
\* is no rclone to be run.
CopyFails(t) ==
  /\ task[t].at = "copy"
  /\ \E d \in {Absent} \cup Leaves(task[t].carried, From[t], To[t]) :
       data' = [data EXCEPT ![To[t]] = d] /\ task' = Ended(Noticed(To[t], d), t, "retry")
  /\ UNCHANGED <<orphans, spent>>

CheckFails(t) ==
  /\ task[t].at = "check"
  /\ Finish(t, "retry")
  /\ UNCHANGED <<data, orphans, spent>>

\* rclone check --one-way: each side is read at some time before the answer.
StartCheck(t) ==
  /\ task[t].at = "copied"
  /\ task' = [task EXCEPT ![t] = [@ EXCEPT !.at = "check",
                !.heldHere = {data[From[t]]}, !.heldThere = {data[To[t]]}]]
  /\ UNCHANGED <<data, orphans, spent>>

CheckReads(t) ==
  /\ task[t].at = "check"
  /\ \/ task[t].here = Unread /\ task' = [task EXCEPT ![t].here = data[From[t]]]
     \/ task[t].there = Unread /\ task' = [task EXCEPT ![t].there = data[To[t]]]
  /\ UNCHANGED <<data, orphans, spent>>

\* What the check answers when the readings are fine.
Checked(t, fine) ==
  /\ task[t].at = "check" /\ Unread \notin {task[t].here, task[t].there}
  /\ Finish(t, IF fine THEN "done" ELSE "retry")
  /\ UNCHANGED <<data, orphans, spent>>

\* Mutant of CheckAnswers: that the destination is there is enough.
CheckAnswersThere(t) == Checked(t, task[t].there # Absent)

CheckAnswers(t) == Checked(t, task[t].here = task[t].there /\ task[t].here # Absent)

-----------------------------------------------------------------------------
(* VerificationJobExecutor.                                                  *)

\* is_file(), then the digest; a file that is gone in between is tried again.
StartVerify(t) ==
  /\ task[t].at = "queued" /\ Kind[t] = "VERIFY"
  /\ IF data[From[t]] = Absent THEN Finish(t, "failed")
                               ELSE task' = [task EXCEPT ![t].at = "hash"]
  /\ UNCHANGED <<data, orphans, spent>>

HashTarget(t) ==
  /\ task[t].at = "hash"
  /\ Finish(t, CASE data[From[t]] = Checksum -> "done"
                 [] data[From[t]] = Absent   -> "retry"
                 [] OTHER                    -> "failed")
  /\ UNCHANGED <<data, orphans, spent>>

-----------------------------------------------------------------------------
(* The environment.                                                          *)

\* A worker dies; recovery queues its job again without a charge.  An rclone
\* that it has started goes on.
WorkerDies(t) ==
  /\ task[t].at \in {"copy", "copied", "check", "hash"}
  /\ spent.deaths < MaxDeathsOfWorkers
  /\ spent' = [spent EXCEPT !.deaths = @ + 1]
  /\ task' = [task EXCEPT ![t] = [Waiting EXCEPT !.tries = task[t].tries]]
  /\ orphans' = IF task[t].at = "copy" /\ task[t].carried # Absent
                  THEN orphans \cup {[job |-> t, carried |-> task[t].carried]} ELSE orphans
  /\ UNCHANGED data

OrphanEnds(o) ==
  /\ \E d \in Leaves(o.carried, From[o.job], To[o.job]) :
       data' = [data EXCEPT ![To[o.job]] = d] /\ task' = Noticed(To[o.job], d)
  /\ orphans' = orphans \ {o}
  /\ UNCHANGED spent

\* Other programs write and remove files outside the boundary.
EditPlace(p) ==
  /\ p \notin Protected /\ spent.edits < MaxEdits
  /\ spent' = [spent EXCEPT !.edits = @ + 1]
  /\ \E d \in {Absent, spent.edits + 1} :
       data' = [data EXCEPT ![p] = d] /\ task' = Noticed(p, d)
  /\ UNCHANGED orphans

RemoteNext ==
  \/ \E t \in Task :
       \/ Refuse(t) \/ StartCopyTo(t) \/ CopyReturns(t) \/ CopyFails(t)
       \/ StartCheck(t) \/ CheckReads(t) \/ CheckFails(t) \/ CheckAnswers(t)
       \/ StartVerify(t) \/ HashTarget(t) \/ WorkerDies(t)
  \/ \E o \in orphans : OrphanEnds(o)
  \/ \E p \in Place : EditPlace(p)

RemoteSpec == RemoteInit /\ [][RemoteNext]_remoteVars

-----------------------------------------------------------------------------
(* Properties.                                                               *)

RemoteTypes ==
  /\ data \in [Place -> Data]
  /\ task \in [Task -> [at : {"queued", "copy", "copied", "check", "hash", "done", "failed"},
                        tries : 0..MaxTries, carried : Data \cup {Unread},
                        here : Data \cup {Unread}, there : Data \cup {Unread},
                        heldHere : SUBSET Data, heldThere : SUBSET Data]]
  /\ orphans \subseteq [job : Task, carried : Data]
  /\ spent.edits \in 0..MaxEdits /\ spent.deaths \in 0..MaxDeathsOfWorkers

\* A transfer that succeeds has earned it: while rclone checked, the destination
\* has held a content of the source, although others edit both, copies go on
\* after their worker's death, and rclone may copy a mixture or nothing at all.
\* And no job changes what the boundary protects or copies out of it, or is tried
\* more often than allowed.
SuccessWasThere ==
  /\ RemoteTypes
  /\ \A t \in Task : task[t].at = "done" =>
       \/ Kind[t] = "VERIFY"
       \/ /\ (task[t].heldHere \cap task[t].heldThere) \ {Absent} # {}
          /\ {From[t], To[t]} \cap Protected = {}
  /\ \A p \in Protected : data[p] = 0
  /\ \A t \in Task : task[t].tries = MaxTries => task[t].at = "failed"
=============================================================================
