------------------------------ MODULE Transfer ------------------------------
(***************************************************************************)
(* Transfers: the job executors of transfer_executor.py, archive.py and     *)
(* organization.py over TransferManager, LocalCopyBackend and the           *)
(* TransferLimiter they share inside one process (teldrive_lab/transfer.py, *)
(* concurrency.py).                                                         *)
(*                                                                          *)
(* Each task is one UPLOAD, DOWNLOAD, ARCHIVE or ORGANIZE job, executed by  *)
(* a thread of its own.  Every access to the file system or to the limiter  *)
(* is one step, and other programs edit or remove the source files between  *)
(* any two of them.  A file holds two chunks, read and edited one at a      *)
(* time; a SHA-256 digest is the pair of chunks it was computed from.  The  *)
(* whole process may die: its jobs are then recovered and executed again.   *)
(***************************************************************************)
EXTENDS Integers, FiniteSets, FiniteSetsExt

CONSTANTS
  Task,         \* the transfer jobs
  Path,         \* the files of the system
  SourceOf, DestOf,  \* the source and destination path of each task
  Overwriting,  \* the tasks whose TransferSpec has overwrite set
  Unauthorized, \* the tasks that authorize() refuses
  TypeOf,       \* the job type of each task
  Sizes,        \* the file sizes in use
  MaxWorkers, MaxBytes,  \* TransferLimits
  Limit,        \* max_attempts of the jobs
  MaxEdits,     \* bound on edits and removals by other programs
  MaxCrashes    \* bound on deaths of the process

ASSUME TransferAssumption ==
  /\ IsFiniteSet(Task) /\ IsFiniteSet(Path)
  /\ SourceOf \in [Task -> Path] /\ DestOf \in [Task -> Path]
  /\ Overwriting \subseteq Task /\ Unauthorized \subseteq Task
  /\ TypeOf \in [Task -> {"UPLOAD", "DOWNLOAD", "ARCHIVE", "ORGANIZE"}]
  /\ Sizes \subseteq Nat
  /\ MaxWorkers \in Nat \ {0} /\ MaxBytes \in Nat \ {0}
  /\ Limit \in Nat \ {0} /\ MaxEdits \in Nat /\ MaxCrashes \in Nat

VARIABLES
  file,      \* the file system: path -> is a file there, its size, its chunks
  edits,     \* edits so far; each writes a chunk never seen before
  pc,        \* where each task's thread is
  size,      \* TransferManager.transfer's local: the size it admits and releases
  hash,      \* source_hash: the chunks read by the first pass
  temp,      \* the partial file: the chunks read by the second pass
  outcome,   \* what went wrong, or "success", once it is known
  permits,   \* _workers, the semaphore
  inflight,  \* _inflight, the bytes admitted
  job,       \* the durable state of each task's job
  attempts,  \* attempts charged
  crashes,   \* deaths of the process so far
  seen,      \* history: the contents the source has had since hashing began
  installs   \* history: how many times the task replaced its destination

local   == <<pc, size, hash, temp, outcome>>
limiter == <<permits, inflight>>
ledger  == <<job, attempts>>
fs      == <<file, edits>>
tvars   == <<local, limiter, ledger, fs, crashes, seen, installs>>

\* The chunks of a source at first, and of a file that was at a destination.
NoChunks == <<0, 0>>
Old      == <<-1, -1>>
Gone  == [here |-> FALSE, size |-> 0, v |-> NoChunks]
Found == [here |-> TRUE, size |-> 0, v |-> Old]

\* A task's thread holds a worker permit, and its bytes are admitted.
Inside   == {"check", "hash1", "hash2", "copy1", "copy2", "compare", "install", "release"}
Holding  == Inside \cup {"bytes"}
Labels   == Holding \cup {"idle", "permit", "report", "ended"}
Outcomes == {"none", "success", "unauthorized", "input", "limit", "mismatch", "io", "exception"}

Sources == {SourceOf[t] : t \in Task}

\* The sources are there; any other path may hold a file, or not.
Init ==
  /\ file \in [Path -> {Gone, Found} \cup [here: {TRUE}, size: Sizes, v: {NoChunks}]]
  /\ \A p \in Path : IF p \in Sources THEN file[p].here /\ file[p].v = NoChunks
                     ELSE file[p] \in {Gone, Found}
  /\ edits = 0
  /\ pc = [t \in Task |-> "idle"]
  /\ size = [t \in Task |-> 0]
  /\ hash = [t \in Task |-> NoChunks]
  /\ temp = [t \in Task |-> NoChunks]
  /\ outcome = [t \in Task |-> "none"]
  /\ permits = MaxWorkers
  /\ inflight = 0
  /\ job = [t \in Task |-> "QUEUED"]
  /\ attempts = [t \in Task |-> 0]
  /\ crashes = 0
  /\ seen = [t \in Task |-> {}]
  /\ installs = [t \in Task |-> 0]

Source(t) == file[SourceOf[t]]
Dest(t)   == file[DestOf[t]]

Goto(t, label) == pc' = [pc EXCEPT ![t] = label]

\* The call has its result and leaves through the finally that releases.
Conclude(t, what) ==
  /\ outcome' = [outcome EXCEPT ![t] = what]
  /\ Goto(t, "release")

\* The locals of the threads in S are gone.
Forget(S) ==
  /\ size' = [t \in Task |-> IF t \in S THEN 0 ELSE size[t]]
  /\ hash' = [t \in Task |-> IF t \in S THEN NoChunks ELSE hash[t]]
  /\ temp' = [t \in Task |-> IF t \in S THEN NoChunks ELSE temp[t]]
  /\ outcome' = [t \in Task |-> IF t \in S THEN "none" ELSE outcome[t]]
  /\ seen' = [t \in Task |-> IF t \in S THEN {} ELSE seen[t]]

-----------------------------------------------------------------------------
(* TransferManager.transfer and TransferLimiter.acquire *)

\* source.is_file() and stat(): a missing source counts 0 bytes.  A source
\* too large is rejected before anything is acquired.
Measure(t) ==
  LET bytes == IF Source(t).here THEN Source(t).size ELSE 0 IN
  /\ pc[t] = "idle" /\ job[t] = "QUEUED"
  /\ size' = [size EXCEPT ![t] = bytes]
  /\ IF bytes > MaxBytes
     THEN /\ outcome' = [outcome EXCEPT ![t] = "limit"]
          /\ Goto(t, "report")
     ELSE /\ Goto(t, "permit")
          /\ UNCHANGED outcome
  /\ UNCHANGED <<hash, temp, limiter, ledger, fs, crashes, seen, installs>>

AcquireWorker(t) ==
  /\ pc[t] = "permit"
  /\ permits > 0
  /\ permits' = permits - 1
  /\ Goto(t, "bytes")
  /\ UNCHANGED <<size, hash, temp, outcome, inflight, ledger, fs, crashes, seen, installs>>

\* The condition wait, with the worker permit in hand.
AcquireBytes(t) ==
  /\ pc[t] = "bytes"
  /\ inflight + size[t] <= MaxBytes
  /\ inflight' = inflight + size[t]
  /\ Goto(t, "check")
  /\ UNCHANGED <<size, hash, temp, outcome, permits, ledger, fs, crashes, seen, installs>>

\* Mutant of Release: the permit is returned only after a success.
ReleaseSuccessOnly(t) ==
  /\ pc[t] = "release"
  /\ inflight' = Max({0, inflight - size[t]})
  /\ permits' = IF outcome[t] = "success" THEN permits + 1 ELSE permits
  /\ Goto(t, "report")
  /\ UNCHANGED <<size, hash, temp, outcome, ledger, fs, crashes, seen, installs>>

Release(t) ==
  /\ pc[t] = "release"
  /\ inflight' = Max({0, inflight - size[t]})
  /\ permits' = permits + 1
  /\ Goto(t, "report")
  /\ UNCHANGED <<size, hash, temp, outcome, ledger, fs, crashes, seen, installs>>

-----------------------------------------------------------------------------
(* LocalCopyBackend.transfer *)

\* Mutant of CheckPaths: the destination is not looked at.
CheckPathsSourceOnly(t) ==
  /\ pc[t] = "check"
  /\ IF ~Source(t).here
     THEN Conclude(t, "input")
     ELSE Goto(t, "hash1") /\ UNCHANGED outcome
  /\ UNCHANGED <<size, hash, temp, limiter, ledger, fs, crashes, seen, installs>>

\* authorize(), source.is_file() and destination.exists().
CheckPaths(t) ==
  /\ pc[t] = "check"
  /\ IF t \in Unauthorized
     THEN Conclude(t, "unauthorized")
     ELSE IF ~Source(t).here \/ (Dest(t).here /\ t \notin Overwriting)
     THEN Conclude(t, "input")
     ELSE Goto(t, "hash1") /\ UNCHANGED outcome
  /\ UNCHANGED <<size, hash, temp, limiter, ledger, fs, crashes, seen, installs>>

\* sha256_file(source), outside the try: a source that has gone raises
\* through the backend.
HashFirst(t) ==
  /\ pc[t] = "hash1"
  /\ IF Source(t).here
     THEN /\ hash' = [hash EXCEPT ![t] = <<Source(t).v[1], @[2]>>]
          /\ seen' = [seen EXCEPT ![t] = {Source(t).v}]
          /\ Goto(t, "hash2")
          /\ UNCHANGED outcome
     ELSE /\ Conclude(t, "exception")
          /\ UNCHANGED <<hash, seen>>
  /\ UNCHANGED <<size, temp, limiter, ledger, fs, crashes, installs>>

HashSecond(t) ==
  /\ pc[t] = "hash2"
  /\ hash' = [hash EXCEPT ![t] = <<@[1], Source(t).v[2]>>]
  /\ Goto(t, "copy1")
  /\ UNCHANGED <<size, temp, outcome, limiter, ledger, fs, crashes, seen, installs>>

\* Opening the source again; its absence is an OSError inside the try.
CopyFirst(t) ==
  /\ pc[t] = "copy1"
  /\ IF Source(t).here
     THEN /\ temp' = [temp EXCEPT ![t] = <<Source(t).v[1], @[2]>>]
          /\ Goto(t, "copy2")
          /\ UNCHANGED outcome
     ELSE /\ Conclude(t, "io")
          /\ UNCHANGED temp
  /\ UNCHANGED <<size, hash, limiter, ledger, fs, crashes, seen, installs>>

CopySecond(t) ==
  /\ pc[t] = "copy2"
  /\ temp' = [temp EXCEPT ![t] = <<@[1], Source(t).v[2]>>]
  /\ Goto(t, "compare")
  /\ UNCHANGED <<size, hash, outcome, limiter, ledger, fs, crashes, seen, installs>>

\* Mutant of Compare: the digests are not compared.
CompareNothing(t) ==
  /\ pc[t] = "compare"
  /\ Goto(t, "install")
  /\ UNCHANGED <<size, hash, temp, outcome, limiter, ledger, fs, crashes, seen, installs>>

Compare(t) ==
  /\ pc[t] = "compare"
  /\ IF hash[t] = temp[t]
     THEN Goto(t, "install") /\ UNCHANGED outcome
     ELSE Conclude(t, "mismatch")
  /\ UNCHANGED <<size, hash, temp, limiter, ledger, fs, crashes, seen, installs>>

\* copystat() raises when the source has gone; os.replace() does not look at
\* the destination.
Install(t) ==
  /\ pc[t] = "install"
  /\ IF Source(t).here
     THEN /\ file' = [file EXCEPT ![DestOf[t]] =
                        [Source(t) EXCEPT !.v = temp[t]]]
          /\ installs' = [installs EXCEPT ![t] = @ + 1]
          /\ Conclude(t, "success")
     ELSE /\ Conclude(t, "io")
          /\ UNCHANGED <<file, installs>>
  /\ UNCHANGED <<size, hash, temp, limiter, ledger, edits, crashes, seen>>

\* Any OSError while the partial file is written, flushed or replaced.
IOError(t) ==
  /\ pc[t] \in {"copy1", "copy2", "compare", "install"}
  /\ Conclude(t, "io")
  /\ UNCHANGED <<size, hash, temp, limiter, ledger, fs, crashes, seen, installs>>

-----------------------------------------------------------------------------
(* The executors' classification and the worker's report *)

\* classify_transfer_error: a mismatch is INTEGRITY and an I/O error TRANSIENT.
Passing == {"mismatch", "io"}

\* What each executor answers RETRYABLE, and what it raises, which the worker
\* retries.  The archive and organization executors have no case for a size the
\* limiter rejects: to them that is a failure that may pass.
TransferRetries == Passing \cup {"exception"}
ArchiveRetries  == Passing \cup {"exception", "limit"}
OrganizeRetries == Passing \cup {"exception", "limit"}

Retryable(t) ==
  CASE TypeOf[t] = "ARCHIVE"  -> ArchiveRetries
    [] TypeOf[t] = "ORGANIZE" -> OrganizeRetries
    [] OTHER                  -> TransferRetries

\* Mutant of Report: the attempt of a retryable error is not counted.
ReportFree(t) ==
  /\ pc[t] = "report"
  /\ job' = [job EXCEPT ![t] = IF outcome[t] = "success" THEN "COMPLETED"
                               ELSE IF outcome[t] \in Retryable(t) THEN "QUEUED"
                               ELSE "FAILED"]
  /\ attempts' = attempts
  /\ pc' = [pc EXCEPT ![t] = IF job'[t] = "QUEUED" THEN "idle" ELSE "ended"]
  /\ Forget({t})
  /\ UNCHANGED <<limiter, fs, crashes, installs>>

Report(t) ==
  LET again == outcome[t] \in Retryable(t) /\ attempts[t] + 1 < Limit IN
  /\ pc[t] = "report"
  /\ job' = [job EXCEPT ![t] = IF outcome[t] = "success" THEN "COMPLETED"
                               ELSE IF again THEN "QUEUED" ELSE "FAILED"]
  /\ attempts' = [attempts EXCEPT ![t] = IF outcome[t] = "success" THEN @ ELSE @ + 1]
  /\ pc' = [pc EXCEPT ![t] = IF again THEN "idle" ELSE "ended"]
  /\ Forget({t})
  /\ UNCHANGED <<limiter, fs, crashes, installs>>

-----------------------------------------------------------------------------
(* Other programs, and the death of the process *)

\* In-place edits of a chunk, the last of which may grow; removal.
Edit(p, k, s) ==
  LET now == [file[p] EXCEPT !.v[k] = edits + 1, !.size = s] IN
  /\ s = file[p].size \/ (k = 2 /\ s > file[p].size)
  /\ edits < MaxEdits
  /\ file[p].here
  /\ file' = [file EXCEPT ![p] = now]
  /\ edits' = edits + 1
  /\ seen' = [t \in Task |-> IF SourceOf[t] = p /\ seen[t] # {}
                            THEN seen[t] \cup {now.v} ELSE seen[t]]
  /\ UNCHANGED <<local, limiter, ledger, crashes, installs>>

Remove(p) ==
  /\ edits < MaxEdits
  /\ file[p].here
  /\ file' = [file EXCEPT ![p].here = FALSE]
  /\ edits' = edits + 1
  /\ UNCHANGED <<local, limiter, ledger, crashes, seen, installs>>

\* Locals, semaphore and byte count die with the process; the files and the
\* queue stay.
Crash ==
  /\ crashes < MaxCrashes
  /\ crashes' = crashes + 1
  /\ pc' = [t \in Task |-> IF job[t] = "QUEUED" THEN "idle" ELSE "ended"]
  /\ Forget(Task)
  /\ permits' = MaxWorkers
  /\ inflight' = 0
  /\ UNCHANGED <<ledger, fs, installs>>

Step(t) ==
  \/ Measure(t) \/ AcquireWorker(t) \/ AcquireBytes(t) \/ CheckPaths(t)
  \/ HashFirst(t) \/ HashSecond(t) \/ CopyFirst(t) \/ CopySecond(t)
  \/ Compare(t) \/ Install(t) \/ IOError(t) \/ Release(t) \/ Report(t)

\* Every job has ended: the worker loop polls an empty queue.
Rest ==
  /\ \A t \in Task : pc[t] = "ended"
  /\ UNCHANGED tvars

Next ==
  \/ \E t \in Task : Step(t)
  \* other programs touch only what the transfers read
  \/ \E p \in Sources : Remove(p) \/ (\E k \in {1, 2}, s \in Sizes : Edit(p, k, s))
  \/ Crash
  \/ Rest

Spec == Init /\ [][Next]_tvars

\* Every thread keeps running.  A thread that waits for a permit or for bytes
\* gets them again and again, in no particular order.
FairSpec == Spec /\ \A t \in Task : WF_tvars(Step(t))

-----------------------------------------------------------------------------

\* Every variable has its type.
\* A conjunct of LimiterBalanced.
TTypeOK ==
  /\ \A p \in Path : /\ file[p].here \in BOOLEAN /\ file[p].size \in Sizes \cup {0}
                     /\ file[p].v \in (-1..MaxEdits) \X (-1..MaxEdits)
  /\ edits \in 0..MaxEdits /\ crashes \in 0..MaxCrashes
  /\ pc \in [Task -> Labels] /\ outcome \in [Task -> Outcomes]
  /\ size \in [Task -> Sizes \cup {0}]
  /\ permits \in 0..MaxWorkers /\ inflight \in 0..MaxBytes
  /\ job \in [Task -> {"QUEUED", "COMPLETED", "FAILED"}]
  /\ attempts \in [Task -> 0..Limit]
  /\ installs \in [Task -> Nat]

\* The limiter's books balance at every moment: each thread past acquire holds
\* exactly one permit and the bytes it measured, although the source may have
\* grown since, and although threads leave through errors and exceptions.  The
\* sum of the threads' sizes is the number of pairs of a thread and one of its
\* bytes.
LimiterBalanced ==
  /\ TTypeOK
  /\ permits = MaxWorkers - Cardinality({t \in Task : pc[t] \in Holding})
  /\ inflight = Cardinality({u \in Task \X (1..MaxBytes) :
                              pc[u[1]] \in Inside /\ u[2] <= size[u[1]]})

\* The jobs whose source no job writes, and the jobs without overwrite whose
\* destination no other program touches.
Steady      == {t \in Task : SourceOf[t] \notin {DestOf[u] : u \in Task}}
Undisturbed == {t \in Task \ Overwriting : DestOf[t] \notin Sources}

\* Reading the source twice, once for the digest and once for the copy, is a
\* double collect: what a transfer installs is what the whole source was at
\* one instant while the transfer ran, however other programs edit it
\* meanwhile.  And without overwrite it never replaces a file that no transfer
\* has put there, not even after retries and recoveries.
InstallsSnapshot ==
  [][\A t \in Task : installs'[t] # installs[t] =>
       /\ t \in Steady => temp[t] \in seen[t]
       /\ t \notin Overwriting => ~(Dest(t).here /\ Dest(t).v = Old)]_tvars

\* A job without overwrite replaces its destination at most once, over all its
\* attempts, retries and recoveries, and it is completed only if it did.
InstalledOnce ==
  \A t \in Undisturbed :
    /\ installs[t] <= 1
    /\ job[t] = "COMPLETED" => installs[t] = 1

\* Every transfer job ends: no thread waits for ever for a permit or for bytes
\* while it holds what another one needs.
TransfersEnd == <>[](\A t \in Task : job[t] # "QUEUED")
=============================================================================
