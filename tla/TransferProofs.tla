---------------------------- MODULE TransferProofs ----------------------------
(***************************************************************************)
(* Theorems about Transfer for any jobs, files and sizes, any limits, and   *)
(* any number of edits, removals and deaths of the process.                 *)
(***************************************************************************)
EXTENDS Transfer, FiniteSetTheorems, TLAPS

\* Every variable has its type; the contents that transfers read and other
\* programs edit hold only chunks written so far.
Known == (0..edits) \X (0..edits)

Typed ==
  /\ file \in [Path -> [here: BOOLEAN, size: Sizes \cup {0},
                        v: (-1..MaxEdits) \X (-1..MaxEdits)]]
  /\ edits \in 0..MaxEdits /\ crashes \in 0..MaxCrashes
  /\ pc \in [Task -> Labels] /\ outcome \in [Task -> Outcomes]
  /\ size \in [Task -> Sizes \cup {0}]
  /\ hash \in [Task -> Known] /\ temp \in [Task -> Known]
  /\ \A p \in Sources : file[p].v \in Known
  /\ permits \in 0..MaxWorkers /\ inflight \in 0..MaxBytes
  /\ job \in [Task -> {"QUEUED", "COMPLETED", "FAILED"}]
  /\ attempts \in [Task -> 0..Limit]
  /\ seen \in [Task -> SUBSET (Nat \X Nat)]
  /\ installs \in [Task -> Nat]

Holders  == {t \in Task : pc[t] \in Holding}
Admitted == {u \in Task \X (1..MaxBytes) : pc[u[1]] \in Inside /\ u[2] <= size[u[1]]}

Balanced ==
  /\ permits = MaxWorkers - Cardinality(Holders)
  /\ inflight = Cardinality(Admitted)

\* A job has ended when its thread has, and one that has not may be tried
\* again.  What a thread waits to admit fits the limit.
Settled(t) ==
  /\ pc[t] = "ended" <=> job[t] # "QUEUED"
  /\ job[t] = "QUEUED" => attempts[t] < Limit
  /\ pc[t] \in Holding \cup {"permit"} => size[t] <= MaxBytes

Copying == {"hash2", "copy1", "copy2", "compare", "install"}
Running == Copying \cup {"hash1"}

\* The double collect.  Every edit writes a new chunk, so that a first chunk
\* which the two passes agree on was there all the time in between, and with it
\* the second chunk that the first pass read.
Collected(t) ==
  /\ pc[t] \in Copying => Source(t).v \in seen[t]
  /\ pc[t] \in {"hash2", "copy1"} => hash[t][1] <= Source(t).v[1]
  /\ pc[t] = "copy1" /\ hash[t][1] = Source(t).v[1] => hash[t] \in seen[t]
  /\ pc[t] \in {"copy2", "compare"} /\ temp[t][1] = hash[t][1] => hash[t] \in seen[t]
  /\ pc[t] = "install" => temp[t] \in seen[t]

\* Past its look at the destination, a job without overwrite has no file there
\* that no transfer has put there.
Spared(t) ==
  t \notin Overwriting /\ pc[t] \in Running => ~(Dest(t).here /\ Dest(t).v = Old)

\* The file that an undisturbed job has installed stays, and keeps the job from
\* a second look that passes.
Once(t) ==
  t \in Undisturbed =>
    /\ installs[t] \in {0, 1}
    /\ installs[t] = 1 => Dest(t).here
    /\ pc[t] \in Running => installs[t] = 0
    /\ outcome[t] = "success" => installs[t] = 1
    /\ job[t] = "COMPLETED" => installs[t] = 1

TaskInv(t) ==
  /\ Settled(t)
  /\ t \in Steady => Collected(t)
  /\ Spared(t)
  /\ Once(t)

TransferInv == Typed /\ Balanced /\ \A t \in Task : TaskInv(t)

-----------------------------------------------------------------------------
(* Constants and data.                                                        *)

LEMMA Constants == /\ (\A n \in Sizes : n \in Nat) /\ MaxBytes \in Nat \ {0}
                   /\ MaxWorkers \in Nat \ {0} /\ MaxEdits \in Nat /\ Limit \in Nat \ {0}
                   /\ MaxCrashes \in Nat /\ IsFiniteSet(Task)
                   /\ \A t \in Task : SourceOf[t] \in Sources /\ DestOf[t] \in Path
                   /\ Sources \subseteq Path
BY TransferAssumption DEF Sources

\* Writing one of the two chunks.
LEMMA Chunks ==
  ASSUME NEW S, NEW a \in S \X S, NEW x \in S
  PROVE  [a EXCEPT ![1] = x] = <<x, a[2]>> /\ [a EXCEPT ![2] = x] = <<a[1], x>>
OBVIOUS

LEMMA KnownRange == ASSUME Typed
                    PROVE  /\ Known \subseteq (-1..MaxEdits) \X (-1..MaxEdits)
                           /\ Known \subseteq Nat \X Nat
                           /\ Old \notin Known
                           /\ \A a \in Known : a = <<a[1], a[2]>> /\ a[1] \in 0..edits
                           /\ NoChunks \in Known
BY Constants DEF Typed, Known, Old, NoChunks

LEMMA InvParts ==
  ASSUME TransferInv
  PROVE  Typed /\ Balanced /\ \A t \in Task : TaskInv(t)
BY DEF TransferInv

LEMMA SizeOf ==
  ASSUME TransferInv, NEW t \in Task
  PROVE  size[t] \in Nat /\ (pc[t] \in Holding \cup {"permit"} => size[t] <= MaxBytes)
<1>1. size[t] \in Sizes \cup {0}
  BY InvParts DEF Typed
<1>2. Settled(t)
  BY InvParts DEF TaskInv
<1> QED
  BY <1>1, <1>2, Constants DEF Settled

-----------------------------------------------------------------------------
(* The limiter's books.                                                       *)

LEMMA HoldersFinite == IsFiniteSet(Holders) /\ IsFiniteSet(Admitted)
<1>1. Holders \subseteq Task /\ Admitted \subseteq Task \X (1..MaxBytes)
  BY DEF Holders, Admitted
<1> DEFINE units == 1..MaxBytes
<1>2. IsFiniteSet(Task) /\ IsFiniteSet(units)
  <2>1. IsFiniteSet(Task) /\ MaxBytes \in Int
    BY Constants
  <2> QED
    BY <2>1, FS_Interval
<1> HIDE DEF units
<1>3. IsFiniteSet(Task \X units)
  BY <1>2, FS_Product
<1> QED
  BY <1>1, <1>3, Constants, FS_Subset DEF units

\* A step that neither moves a thread over the limiter's border nor changes
\* what an admitted thread holds.
LEMMA BooksKept ==
  ASSUME Balanced, UNCHANGED limiter,
         \A t \in Task : /\ pc'[t] \in Holding <=> pc[t] \in Holding
                         /\ pc'[t] \in Inside <=> pc[t] \in Inside
                         /\ pc[t] \in Inside => size'[t] = size[t]
  PROVE  Balanced'
<1>1. Holders' = Holders /\ Admitted' = Admitted
  BY DEF Holders, Admitted
<1> QED
  BY <1>1 DEF Balanced, limiter

\* The bytes of one thread.
LEMMA UnitsOf ==
  ASSUME NEW t, NEW n \in Nat
  PROVE  IsFiniteSet({t} \X (1..n)) /\ Cardinality({t} \X (1..n)) = n
<1> DEFINE one == {t}
           units == 1..n
<1>1. IsFiniteSet(one) /\ Cardinality(one) = 1
  BY FS_Singleton
<1>2. IsFiniteSet(units) /\ Cardinality(units) = n
  BY FS_Interval
<1> HIDE DEF one, units
<1>3. /\ IsFiniteSet(one \X units)
      /\ Cardinality(one \X units) = Cardinality(one) * Cardinality(units)
  BY <1>1, <1>2, FS_Product
<1>4. Cardinality(one \X units) = n
  BY <1>1, <1>2, <1>3
<1> QED
  BY <1>3, <1>4 DEF one, units

LEMMA UnitsAdded ==
  ASSUME NEW A, IsFiniteSet(A), NEW t, NEW n \in Nat, A \cap ({t} \X (1..n)) = {}
  PROVE  Cardinality(A \cup ({t} \X (1..n))) = Cardinality(A) + n
<1> DEFINE units == {t} \X (1..n)
<1>1. IsFiniteSet(units) /\ Cardinality(units) = n
  BY UnitsOf
<1>2. A \cap units = {}
  OBVIOUS
<1> HIDE DEF units
<1>3. Cardinality(A \cup units) = Cardinality(A) + Cardinality(units) - Cardinality(A \cap units)
  BY <1>1, FS_Union
<1>4. Cardinality(A \cap units) = 0 /\ Cardinality(A) \in Nat
  BY <1>2, FS_EmptySet, FS_CardinalityType
<1>5. Cardinality(A \cup units) = Cardinality(A) + n
  BY <1>1, <1>3, <1>4
<1> QED
  BY <1>5 DEF units

-----------------------------------------------------------------------------
(* What the steps of one thread leave alone.                                  *)

Alone(t) == \A u \in Task \ {t} :
  /\ pc'[u] = pc[u] /\ size'[u] = size[u] /\ outcome'[u] = outcome[u]
  /\ hash'[u] = hash[u] /\ temp'[u] = temp[u] /\ seen'[u] = seen[u]
  /\ job'[u] = job[u] /\ attempts'[u] = attempts[u] /\ installs'[u] = installs[u]

LEMMA OwnStep ==
  ASSUME TransferInv, NEW t \in Task, Alone(t), UNCHANGED fs,
         Typed', Balanced', TaskInv(t)'
  PROVE  TransferInv'
<1>1. ASSUME NEW u \in Task \ {t} PROVE TaskInv(u)'
  <2>1. Settled(u)' /\ (u \in Steady => Collected(u)')
    BY InvParts DEF Alone, fs, TaskInv, Settled, Collected, Source
  <2>2. Spared(u)' /\ Once(u)'
    BY InvParts DEF Alone, fs, TaskInv, Spared, Once, Dest
  <2> QED
    BY <2>1, <2>2 DEF TaskInv
<1> QED
  BY <1>1 DEF TransferInv

LEMMA InitInv == Init => TransferInv
<1> SUFFICES ASSUME Init PROVE TransferInv
  OBVIOUS
<1>1. Typed
  <2> DEFINE sizes    == Sizes \cup {0}
             contents == (-1..MaxEdits) \X (-1..MaxEdits)
  <2>1. file \in [Path -> [here: BOOLEAN, size: sizes, v: contents]]
    <3>1. 0 \in sizes /\ (\A n \in Sizes : n \in sizes) /\ NoChunks \in contents /\ Old \in contents
      BY Constants DEF NoChunks, Old
    <3> HIDE DEF sizes, contents
    <3>2. Gone \in [here: BOOLEAN, size: sizes, v: contents]
      BY <3>1 DEF Gone
    <3>3. Found \in [here: BOOLEAN, size: sizes, v: contents]
      BY <3>1 DEF Found
    <3>4. \A r \in [here: {TRUE}, size: Sizes, v: {NoChunks}] :
            r \in [here: BOOLEAN, size: sizes, v: contents]
      BY <3>1
    <3> QED
      BY <3>2, <3>3, <3>4 DEF Init
  <2>2. NoChunks \in Known /\ \A p \in Sources : file[p].v \in Known
    BY Constants DEF Init, Known, NoChunks
  <2> QED
    BY <2>1, <2>2, Constants DEF Init, Typed, Labels, Outcomes
<1>2. Balanced
  <2>1. Holders = {} /\ Admitted = {}
    BY DEF Init, Holders, Admitted, Holding, Inside
  <2> QED
    BY <2>1, FS_EmptySet, Constants DEF Init, Balanced
<1>3. ASSUME NEW t \in Task PROVE TaskInv(t)
  BY Constants DEF Init, TaskInv, Settled, Collected, Spared, Once, Holding, Inside, Copying, Running
<1> QED
  BY <1>1, <1>2, <1>3 DEF TransferInv

-----------------------------------------------------------------------------
(* TransferManager.transfer and TransferLimiter.acquire.                      *)

LEMMA MeasureInv ==
  ASSUME TransferInv, NEW t \in Task, Measure(t)
  PROVE  TransferInv'
<1> DEFINE bytes == IF Source(t).here THEN Source(t).size ELSE 0
<1>1. /\ pc[t] = "idle" /\ job[t] = "QUEUED"
      /\ size' = [size EXCEPT ![t] = bytes]
      /\ \/ /\ bytes > MaxBytes
            /\ outcome' = [outcome EXCEPT ![t] = "limit"]
            /\ pc' = [pc EXCEPT ![t] = "report"]
         \/ /\ ~(bytes > MaxBytes)
            /\ pc' = [pc EXCEPT ![t] = "permit"]
            /\ UNCHANGED outcome
      /\ UNCHANGED <<hash, temp, permits, inflight, job, attempts, file, edits, crashes, seen, installs>>
  BY DEF Measure, Goto, limiter, ledger, fs
<1>2. bytes \in Sizes \cup {0} /\ bytes \in Nat
  BY Constants, InvParts DEF Typed, Source
<1>3. Typed'
  BY <1>1, <1>2, InvParts DEF Typed, Known, Labels, Outcomes
<1>4. /\ pc'[t] \in {"report", "permit"} /\ size'[t] = bytes
      /\ pc'[t] = "permit" => bytes <= MaxBytes /\ outcome'[t] = outcome[t]
      /\ outcome'[t] \in {"limit", outcome[t]}
      /\ \A u \in Task \ {t} : pc'[u] = pc[u] /\ size'[u] = size[u] /\ outcome'[u] = outcome[u]
  BY <1>1, <1>2, Constants, InvParts DEF Typed
<1>5. Balanced'
  BY <1>1, <1>4, BooksKept, InvParts DEF limiter, Holding, Inside
<1>6. TaskInv(t)'
  BY <1>1, <1>4, InvParts DEF TaskInv, Settled, Collected, Spared, Once, Dest, Copying, Running, Holding, Inside
<1> QED
  BY <1>1, <1>3, <1>4, <1>5, <1>6, OwnStep DEF Alone, fs

LEMMA AcquireWorkerInv ==
  ASSUME TransferInv, NEW t \in Task, AcquireWorker(t)
  PROVE  TransferInv'
<1>1. /\ pc[t] = "permit" /\ permits > 0
      /\ permits' = permits - 1
      /\ pc' = [pc EXCEPT ![t] = "bytes"]
      /\ UNCHANGED <<size, hash, temp, outcome, inflight, job, attempts, file, edits, crashes, seen, installs>>
  BY DEF AcquireWorker, Goto, ledger, fs
<1>2. Typed'
  BY <1>1, Constants, InvParts DEF Typed, Known, Labels, Holding
<1>3. pc'[t] = "bytes" /\ \A u \in Task \ {t} : pc'[u] = pc[u]
  BY <1>1, InvParts DEF Typed
<1>4. Balanced'
  <2>1. Holders' = Holders \cup {t} /\ t \notin Holders
    BY <1>1, <1>3 DEF Holders, Holding, Inside
  <2>2. Cardinality(Holders') = Cardinality(Holders) + 1 /\ Cardinality(Holders) \in Nat
    BY <2>1, HoldersFinite, FS_AddElement, FS_CardinalityType
  <2>3. Admitted' = Admitted
    BY <1>1, <1>3 DEF Admitted, Inside
  <2> QED
    BY <1>1, <2>2, <2>3, Constants, InvParts DEF Balanced
<1>5. TaskInv(t)'
  BY <1>1, <1>3, InvParts DEF TaskInv, Settled, Collected, Spared, Once, Dest, Copying, Running, Holding, Inside
<1> QED
  BY <1>1, <1>2, <1>3, <1>4, <1>5, OwnStep DEF Alone, fs

LEMMA AcquireBytesInv ==
  ASSUME TransferInv, NEW t \in Task, AcquireBytes(t)
  PROVE  TransferInv'
<1>1. /\ pc[t] = "bytes"
      /\ inflight + size[t] <= MaxBytes
      /\ inflight' = inflight + size[t]
      /\ pc' = [pc EXCEPT ![t] = "check"]
      /\ UNCHANGED <<size, hash, temp, outcome, permits, job, attempts, file, edits, crashes, seen, installs>>
  BY DEF AcquireBytes, Goto, ledger, fs
<1>2. size[t] \in Nat /\ size[t] <= MaxBytes
  BY <1>1, SizeOf DEF Holding
<1>3. Typed'
  BY <1>1, <1>2, Constants, InvParts DEF Typed, Known, Labels, Holding, Inside
<1>4. pc'[t] = "check" /\ \A u \in Task \ {t} : pc'[u] = pc[u]
  BY <1>1, InvParts DEF Typed
<1>5. Balanced'
  <2>1. Holders' = Holders
    BY <1>1, <1>4 DEF Holders, Holding, Inside
  <2>2. Admitted' = Admitted \cup ({t} \X (1..size[t])) /\ Admitted \cap ({t} \X (1..size[t])) = {}
    BY <1>1, <1>2, <1>4, Constants DEF Admitted, Inside
  <2>3. Cardinality(Admitted') = Cardinality(Admitted) + size[t]
    BY <1>2, <2>2, HoldersFinite, UnitsAdded
  <2> QED
    BY <1>1, <2>1, <2>3, InvParts DEF Balanced
<1>6. TaskInv(t)'
  BY <1>1, <1>4, InvParts DEF TaskInv, Settled, Collected, Spared, Once, Dest, Copying, Running, Holding, Inside
<1> QED
  BY <1>1, <1>3, <1>4, <1>5, <1>6, OwnStep DEF Alone, fs

LEMMA ReleaseInv ==
  ASSUME TransferInv, NEW t \in Task, Release(t)
  PROVE  TransferInv'
<1>1. /\ pc[t] = "release"
      /\ inflight' = Max({0, inflight - size[t]})
      /\ permits' = permits + 1
      /\ pc' = [pc EXCEPT ![t] = "report"]
      /\ UNCHANGED <<size, hash, temp, outcome, job, attempts, file, edits, crashes, seen, installs>>
  BY DEF Release, Goto, ledger, fs
<1>2. pc'[t] = "report" /\ \A u \in Task \ {t} : pc'[u] = pc[u]
  BY <1>1, InvParts DEF Typed
<1>3. size[t] \in Nat /\ size[t] <= MaxBytes
  BY <1>1, SizeOf DEF Holding, Inside
<1>4. /\ Cardinality(Holders') = Cardinality(Holders) - 1
      /\ Cardinality(Holders') \in Nat /\ Cardinality(Holders) \in Nat
  <2>1. Holders' = Holders \ {t} /\ t \in Holders
    BY <1>1, <1>2 DEF Holders, Holding, Inside
  <2>2. IsFiniteSet(Holders')
    BY <2>1, HoldersFinite, FS_RemoveElement
  <2> QED
    BY <2>1, <2>2, HoldersFinite, FS_RemoveElement, FS_CardinalityType
<1>5. /\ Cardinality(Admitted) = Cardinality(Admitted') + size[t]
      /\ Cardinality(Admitted') \in Nat
  <2>1. Admitted = Admitted' \cup ({t} \X (1..size[t])) /\ Admitted' \cap ({t} \X (1..size[t])) = {}
    BY <1>1, <1>2, <1>3, Constants DEF Admitted, Inside
  <2>2. IsFiniteSet(Admitted')
    BY <2>1, HoldersFinite, FS_Subset
  <2> QED
    BY <1>3, <2>1, <2>2, UnitsAdded, FS_CardinalityType
<1>6. inflight' = inflight - size[t] /\ inflight' \in 0..MaxBytes
  <2>1. inflight - size[t] \in Nat
    BY <1>3, <1>5, InvParts DEF Balanced, Typed
  <2>2. Max({0, inflight - size[t]}) = inflight - size[t]
    BY <2>1 DEF Max
  <2> QED
    BY <1>1, <1>3, <2>1, <2>2, Constants, InvParts DEF Typed
<1>7. Typed'
  <2>1. permits' \in 0..MaxWorkers
    BY <1>1, <1>4, Constants, InvParts DEF Typed, Balanced
  <2> QED
    BY <1>1, <1>6, <2>1, InvParts DEF Typed, Known, Labels
<1>8. Balanced'
  <2>1. permits' = MaxWorkers - Cardinality(Holders')
    BY <1>1, <1>4, Constants, InvParts DEF Balanced
  <2>2. inflight' = Cardinality(Admitted')
    BY <1>3, <1>5, <1>6, InvParts DEF Balanced
  <2> QED
    BY <2>1, <2>2 DEF Balanced
<1>9. TaskInv(t)'
  BY <1>1, <1>2, InvParts DEF TaskInv, Settled, Collected, Spared, Once, Dest, Copying, Running, Holding, Inside
<1> QED
  BY <1>1, <1>2, <1>7, <1>8, <1>9, OwnStep DEF Alone, fs

-----------------------------------------------------------------------------
(* LocalCopyBackend.transfer.                                                 *)

\* A step that moves t on inside the limiter.
LEMMA InsideMove ==
  ASSUME TransferInv, NEW t \in Task, NEW label \in Inside, pc[t] \in Inside,
         pc' = [pc EXCEPT ![t] = label], UNCHANGED <<size, limiter>>
  PROVE  /\ Balanced'
         /\ pc' \in [Task -> Labels]
         /\ pc'[t] = label
         /\ \A u \in Task \ {t} : pc'[u] = pc[u]
         /\ job[t] = "QUEUED"
<1>1. pc'[t] = label /\ \A u \in Task \ {t} : pc'[u] = pc[u]
  BY InvParts DEF Typed
<1>2. Balanced'
  BY <1>1, BooksKept, InvParts DEF Holding
<1>3. job[t] = "QUEUED"
  <2>1. Settled(t)
    BY InvParts DEF TaskInv
  <2> QED
    BY <2>1 DEF Settled, Inside
<1> QED
  BY <1>1, <1>2, <1>3, InvParts DEF Typed, Labels, Holding

\* A step that ends the call without an effect on the files.
LEMMA Concluded ==
  ASSUME TransferInv, NEW t \in Task, NEW what \in Outcomes \ {"success"}, pc[t] \in Inside,
         Conclude(t, what),
         UNCHANGED <<size, hash, temp, limiter, ledger, fs, crashes, seen, installs>>
  PROVE  TransferInv'
<1>1. /\ outcome' = [outcome EXCEPT ![t] = what]
      /\ pc' = [pc EXCEPT ![t] = "release"]
      /\ UNCHANGED <<size, hash, temp, permits, inflight, limiter, job, attempts, file, edits,
                     crashes, seen, installs>>
  BY DEF Conclude, Goto, limiter, ledger, fs
<1>2. /\ Balanced' /\ pc' \in [Task -> Labels] /\ pc'[t] = "release"
      /\ \A u \in Task \ {t} : pc'[u] = pc[u]
  BY <1>1, InsideMove DEF Inside
<1>3. Typed'
  BY <1>1, <1>2, InvParts DEF Typed, Known
<1>4. outcome'[t] # "success" /\ \A u \in Task \ {t} : outcome'[u] = outcome[u]
  BY <1>1, InvParts DEF Typed
<1>5. TaskInv(t)'
  <2>1. Settled(t)'
    BY <1>1, <1>2, InvParts DEF TaskInv, Settled, Holding, Inside
  <2>2. Collected(t)' /\ Spared(t)'
    BY <1>2 DEF Collected, Spared, Copying, Running
  <2>3. Once(t)'
    BY <1>1, <1>2, <1>4, InvParts DEF TaskInv, Once, Dest, Running, Copying
  <2> QED
    BY <2>1, <2>2, <2>3 DEF TaskInv
<1> QED
  BY <1>1, <1>2, <1>3, <1>4, <1>5, OwnStep DEF Alone, fs

LEMMA CheckPathsInv ==
  ASSUME TransferInv, NEW t \in Task, CheckPaths(t)
  PROVE  TransferInv'
<1>1. CASE Conclude(t, "unauthorized") \/ Conclude(t, "input")
  BY <1>1, Concluded DEF CheckPaths, Inside, Outcomes
<1>2. CASE ~(Conclude(t, "unauthorized") \/ Conclude(t, "input"))
  <2>1. /\ pc[t] = "check" /\ Source(t).here /\ (Dest(t).here => t \in Overwriting)
        /\ pc' = [pc EXCEPT ![t] = "hash1"]
        /\ UNCHANGED <<size, hash, temp, outcome, permits, inflight, limiter, job, attempts, file,
                       edits, crashes, seen, installs>>
    BY <1>2 DEF CheckPaths, Goto, limiter, ledger, fs
  <2>2. /\ Balanced' /\ pc' \in [Task -> Labels] /\ pc'[t] = "hash1"
        /\ \A u \in Task \ {t} : pc'[u] = pc[u]
    BY <2>1, InsideMove DEF Inside
  <2>3. Typed'
    BY <2>1, <2>2, InvParts DEF Typed, Known
  <2>4. Settled(t)'
    BY <2>1, <2>2, InvParts DEF TaskInv, Settled, Holding, Inside
  <2>5. Collected(t)' /\ Spared(t)'
    BY <2>1, <2>2 DEF Collected, Spared, Copying, Dest
  <2>6. Once(t)'
    BY <2>1, <2>2, InvParts DEF TaskInv, Once, Dest, Undisturbed
  <2> QED
    BY <2>1, <2>2, <2>3, <2>4, <2>5, <2>6, OwnStep DEF Alone, fs, TaskInv
<1> QED
  BY <1>1, <1>2

LEMMA HashFirstInv ==
  ASSUME TransferInv, NEW t \in Task, HashFirst(t)
  PROVE  TransferInv'
<1>1. CASE ~Source(t).here
  BY <1>1, Concluded DEF HashFirst, Inside, Outcomes
<1>2. CASE Source(t).here
  <2>1. /\ pc[t] = "hash1"
        /\ hash' = [hash EXCEPT ![t] = <<Source(t).v[1], hash[t][2]>>]
        /\ seen' = [seen EXCEPT ![t] = {Source(t).v}]
        /\ pc' = [pc EXCEPT ![t] = "hash2"]
        /\ UNCHANGED <<size, temp, outcome, permits, inflight, limiter, job, attempts, file,
                       edits, crashes, installs>>
    BY <1>2 DEF HashFirst, Goto, limiter, ledger, fs
  <2>2. /\ Balanced' /\ pc' \in [Task -> Labels] /\ pc'[t] = "hash2"
        /\ \A u \in Task \ {t} : pc'[u] = pc[u]
    BY <2>1, InsideMove DEF Inside
  <2>3. Source(t).v \in Known /\ Source(t).v[1] \in 0..edits
    BY Constants, KnownRange, InvParts DEF Typed, Source
  <2>5. /\ hash' \in [Task -> Known] /\ hash'[t][1] = Source(t).v[1]
        /\ \A u \in Task \ {t} : hash'[u] = hash[u]
    BY <2>1, <2>3, InvParts DEF Typed, Known
  <2>6. /\ seen' \in [Task -> SUBSET (Nat \X Nat)] /\ seen'[t] = {Source(t).v}
        /\ \A u \in Task \ {t} : seen'[u] = seen[u]
    BY <2>1, <2>3, KnownRange, InvParts DEF Typed
  <2>7. Typed'
    BY <2>1, <2>2, <2>5, <2>6, InvParts DEF Typed, Known
  <2>8. Settled(t)'
    BY <2>1, <2>2, InvParts DEF TaskInv, Settled, Holding, Inside
  <2>9. Collected(t)'
    BY <2>1, <2>2, <2>3, <2>5, <2>6 DEF Collected, Source
  <2>10. Spared(t)' /\ Once(t)'
    BY <2>1, <2>2, InvParts DEF TaskInv, Spared, Once, Dest, Running, Copying
  <2> QED
    BY <2>1, <2>2, <2>5, <2>6, <2>7, <2>8, <2>9, <2>10, OwnStep DEF Alone, fs, TaskInv
<1> QED
  BY <1>1, <1>2

LEMMA HashSecondInv ==
  ASSUME TransferInv, NEW t \in Task, HashSecond(t)
  PROVE  TransferInv'
<1>1. /\ pc[t] = "hash2"
      /\ hash' = [hash EXCEPT ![t] = <<hash[t][1], Source(t).v[2]>>]
      /\ pc' = [pc EXCEPT ![t] = "copy1"]
      /\ UNCHANGED <<size, temp, outcome, permits, inflight, limiter, job, attempts, file,
                     edits, crashes, seen, installs>>
  BY DEF HashSecond, Goto, limiter, ledger, fs
<1>2. /\ Balanced' /\ pc' \in [Task -> Labels] /\ pc'[t] = "copy1"
      /\ \A u \in Task \ {t} : pc'[u] = pc[u]
  BY <1>1, InsideMove DEF Inside
<1>3. Source(t).v \in Known /\ Source(t).v[2] \in 0..edits
  BY Constants, KnownRange, InvParts DEF Typed, Source, Known
<1>5. /\ hash' \in [Task -> Known] /\ hash'[t] = <<hash[t][1], Source(t).v[2]>>
      /\ \A u \in Task \ {t} : hash'[u] = hash[u]
  BY <1>1, <1>3, InvParts DEF Typed, Known
<1>6. Typed'
  BY <1>1, <1>2, <1>5, InvParts DEF Typed, Known
<1>7. Settled(t)'
  BY <1>1, <1>2, InvParts DEF TaskInv, Settled, Holding, Inside
<1>8. ASSUME t \in Steady PROVE Collected(t)'
  <2>1. /\ Source(t).v \in seen[t] /\ hash[t][1] <= Source(t).v[1]
    BY <1>1, <1>8, InvParts DEF TaskInv, Collected, Copying
  <2>2. hash'[t][1] = hash[t][1]
    BY <1>5
  <2>3. hash[t][1] = Source(t).v[1] => hash'[t] = Source(t).v
    BY <1>3, <1>5, KnownRange, InvParts
  <2> QED
    BY <1>1, <1>2, <2>1, <2>2, <2>3 DEF Collected, Source
<1>9. Spared(t)' /\ Once(t)'
  BY <1>1, <1>2, InvParts DEF TaskInv, Spared, Once, Dest, Running, Copying
<1> QED
  BY <1>1, <1>2, <1>5, <1>6, <1>7, <1>8, <1>9, OwnStep DEF Alone, fs, TaskInv

LEMMA CopyFirstInv ==
  ASSUME TransferInv, NEW t \in Task, CopyFirst(t)
  PROVE  TransferInv'
<1>1. CASE ~Source(t).here
  BY <1>1, Concluded DEF CopyFirst, Inside, Outcomes
<1>2. CASE Source(t).here
  <2>1. /\ pc[t] = "copy1"
        /\ temp' = [temp EXCEPT ![t] = <<Source(t).v[1], temp[t][2]>>]
        /\ pc' = [pc EXCEPT ![t] = "copy2"]
        /\ UNCHANGED <<size, hash, outcome, permits, inflight, limiter, job, attempts, file,
                       edits, crashes, seen, installs>>
    BY <1>2 DEF CopyFirst, Goto, limiter, ledger, fs
  <2>2. /\ Balanced' /\ pc' \in [Task -> Labels] /\ pc'[t] = "copy2"
        /\ \A u \in Task \ {t} : pc'[u] = pc[u]
    BY <2>1, InsideMove DEF Inside
  <2>3. Source(t).v \in Known /\ Source(t).v[1] \in 0..edits
    BY Constants, KnownRange, InvParts DEF Typed, Source
  <2>4. /\ temp' \in [Task -> Known] /\ temp'[t][1] = Source(t).v[1]
        /\ \A u \in Task \ {t} : temp'[u] = temp[u]
    BY <2>1, <2>3, InvParts DEF Typed, Known
  <2>5. Typed'
    BY <2>1, <2>2, <2>4, InvParts DEF Typed, Known
  <2>6. Settled(t)'
    BY <2>1, <2>2, InvParts DEF TaskInv, Settled, Holding, Inside
  <2>7. ASSUME t \in Steady PROVE Collected(t)'
    BY <2>1, <2>2, <2>4, <2>7, InvParts DEF TaskInv, Collected, Source, Copying
  <2>8. Spared(t)' /\ Once(t)'
    BY <2>1, <2>2, InvParts DEF TaskInv, Spared, Once, Dest, Running, Copying
  <2> QED
    BY <2>1, <2>2, <2>4, <2>5, <2>6, <2>7, <2>8, OwnStep DEF Alone, fs, TaskInv
<1> QED
  BY <1>1, <1>2

LEMMA CopySecondInv ==
  ASSUME TransferInv, NEW t \in Task, CopySecond(t)
  PROVE  TransferInv'
<1>1. /\ pc[t] = "copy2"
      /\ temp' = [temp EXCEPT ![t] = <<temp[t][1], Source(t).v[2]>>]
      /\ pc' = [pc EXCEPT ![t] = "compare"]
      /\ UNCHANGED <<size, hash, outcome, permits, inflight, limiter, job, attempts, file,
                     edits, crashes, seen, installs>>
  BY DEF CopySecond, Goto, limiter, ledger, fs
<1>2. /\ Balanced' /\ pc' \in [Task -> Labels] /\ pc'[t] = "compare"
      /\ \A u \in Task \ {t} : pc'[u] = pc[u]
  BY <1>1, InsideMove DEF Inside
<1>3. Source(t).v \in Known /\ Source(t).v[2] \in 0..edits
  BY Constants, KnownRange, InvParts DEF Typed, Source, Known
<1>4. /\ temp' \in [Task -> Known] /\ temp'[t][1] = temp[t][1]
      /\ \A u \in Task \ {t} : temp'[u] = temp[u]
  BY <1>1, <1>3, InvParts DEF Typed, Known
<1>5. Typed'
  BY <1>1, <1>2, <1>4, InvParts DEF Typed, Known
<1>6. Settled(t)'
  BY <1>1, <1>2, InvParts DEF TaskInv, Settled, Holding, Inside
<1>7. ASSUME t \in Steady PROVE Collected(t)'
  BY <1>1, <1>2, <1>4, <1>7, InvParts DEF TaskInv, Collected, Source, Copying
<1>8. Spared(t)' /\ Once(t)'
  BY <1>1, <1>2, InvParts DEF TaskInv, Spared, Once, Dest, Running, Copying
<1> QED
  BY <1>1, <1>2, <1>4, <1>5, <1>6, <1>7, <1>8, OwnStep DEF Alone, fs, TaskInv

LEMMA CompareInv ==
  ASSUME TransferInv, NEW t \in Task, Compare(t)
  PROVE  TransferInv'
<1>1. CASE hash[t] # temp[t]
  BY <1>1, Concluded DEF Compare, Inside, Outcomes
<1>2. CASE hash[t] = temp[t]
  <2>1. /\ pc[t] = "compare"
        /\ pc' = [pc EXCEPT ![t] = "install"]
        /\ UNCHANGED <<size, hash, temp, outcome, permits, inflight, limiter, job, attempts, file,
                       edits, crashes, seen, installs>>
    BY <1>2 DEF Compare, Goto, limiter, ledger, fs
  <2>2. /\ Balanced' /\ pc' \in [Task -> Labels] /\ pc'[t] = "install"
        /\ \A u \in Task \ {t} : pc'[u] = pc[u]
    BY <2>1, InsideMove DEF Inside
  <2>3. Typed'
    BY <2>1, <2>2, InvParts DEF Typed, Known
  <2>4. Settled(t)'
    BY <2>1, <2>2, InvParts DEF TaskInv, Settled, Holding, Inside
  <2>5. ASSUME t \in Steady PROVE Collected(t)'
    BY <1>2, <2>1, <2>2, <2>5, InvParts DEF TaskInv, Collected, Source, Copying
  <2>6. Spared(t)' /\ Once(t)'
    BY <2>1, <2>2, InvParts DEF TaskInv, Spared, Once, Dest, Running, Copying
  <2> QED
    BY <2>1, <2>2, <2>3, <2>4, <2>5, <2>6, OwnStep DEF Alone, fs, TaskInv
<1> QED
  BY <1>1, <1>2

LEMMA IOErrorInv ==
  ASSUME TransferInv, NEW t \in Task, IOError(t)
  PROVE  TransferInv'
BY Concluded DEF IOError, Inside, Outcomes

\* What a write to the files leaves of the other jobs' parts.
LEMMA FileWritten ==
  ASSUME TransferInv, NEW p \in Path, NEW t \in Task, Alone(t), edits' = edits,
         \A q \in Path \ {p} : file'[q] = file[q],
         file'[p].here, file'[p].v \in Known, p = DestOf[t]
  PROVE  \A u \in Task \ {t} : TaskInv(u)'
<1> SUFFICES ASSUME NEW u \in Task \ {t} PROVE TaskInv(u)'
  OBVIOUS
<1>1. SourceOf[u] \in Path /\ DestOf[u] \in Path
  BY Constants
<1>2. Settled(u)'
  BY InvParts DEF Alone, TaskInv, Settled
<1>3. ASSUME u \in Steady PROVE Collected(u)'
  <2>1. Source(u)' = Source(u)
    BY <1>1, <1>3 DEF Steady, Source
  <2> QED
    BY <1>3, <2>1, InvParts DEF Alone, TaskInv, Collected
<1>4. Spared(u)'
  <2>1. CASE DestOf[u] = p
    BY <2>1, KnownRange, InvParts DEF Spared, Dest
  <2>2. CASE DestOf[u] # p
    BY <1>1, <2>2, InvParts DEF Alone, TaskInv, Spared, Dest
  <2> QED
    BY <2>1, <2>2
<1>5. Once(u)'
  BY <1>1, InvParts DEF Alone, TaskInv, Once, Dest
<1> QED
  BY <1>2, <1>3, <1>4, <1>5 DEF TaskInv

LEMMA InstallInv ==
  ASSUME TransferInv, NEW t \in Task, Install(t)
  PROVE  TransferInv'
<1>1. CASE ~Source(t).here
  <2>1. /\ pc[t] = "install" /\ Conclude(t, "io")
        /\ UNCHANGED <<size, hash, temp, limiter, ledger, fs, crashes, seen, installs>>
    BY <1>1 DEF Install, fs
  <2> QED
    BY <2>1, Concluded DEF Inside, Outcomes
<1>2. CASE Source(t).here
  <2> DEFINE p == DestOf[t]
  <2>1. PICK new : new = [Source(t) EXCEPT !.v = temp[t]]
    OBVIOUS
  <2>2. /\ pc[t] = "install"
        /\ file' = [file EXCEPT ![p] = new]
        /\ installs' = [installs EXCEPT ![t] = installs[t] + 1]
        /\ outcome' = [outcome EXCEPT ![t] = "success"]
        /\ pc' = [pc EXCEPT ![t] = "release"]
        /\ UNCHANGED <<size, hash, temp, permits, inflight, limiter, job, attempts,
                       edits, crashes, seen>>
    BY <1>2, <2>1 DEF Install, Conclude, Goto, limiter, ledger
  <2>3. /\ Balanced' /\ pc' \in [Task -> Labels] /\ pc'[t] = "release"
        /\ \A u \in Task \ {t} : pc'[u] = pc[u]
        /\ job[t] = "QUEUED"
    BY <2>2, InsideMove DEF Inside
  <2>4. /\ new \in [here: BOOLEAN, size: Sizes \cup {0}, v: (-1..MaxEdits) \X (-1..MaxEdits)]
        /\ new.here /\ new.v = temp[t] /\ temp[t] \in Known
    <3>1. Source(t) \in [here: BOOLEAN, size: Sizes \cup {0}, v: (-1..MaxEdits) \X (-1..MaxEdits)]
      BY Constants, InvParts DEF Typed, Source
    <3>2. temp[t] \in Known /\ temp[t] \in (-1..MaxEdits) \X (-1..MaxEdits)
      BY KnownRange, InvParts DEF Typed
    <3> QED
      BY <1>2, <2>1, <3>1, <3>2
  <2>5. p \in Path /\ file'[p] = new /\ \A q \in Path \ {p} : file'[q] = file[q]
    BY <2>2, Constants, InvParts DEF Typed
  <2>6. /\ outcome' \in [Task -> Outcomes] /\ installs' \in [Task -> Nat]
        /\ installs'[t] = installs[t] + 1 /\ installs[t] \in Nat
        /\ \A u \in Task \ {t} : outcome'[u] = outcome[u] /\ installs'[u] = installs[u]
    BY <2>2, InvParts DEF Typed, Outcomes
  <2>7. Typed'
    <3>1. file' \in [Path -> [here: BOOLEAN, size: Sizes \cup {0},
                              v: (-1..MaxEdits) \X (-1..MaxEdits)]]
      BY <2>2, <2>4, InvParts DEF Typed
    <3>2. \A q \in Sources : file'[q].v \in Known
      BY <2>4, <2>5, Constants, InvParts DEF Typed
    <3> QED
      BY <2>2, <2>3, <2>6, <3>1, <3>2, InvParts DEF Typed, Known
  <2>8. \A u \in Task \ {t} : TaskInv(u)'
    <3>1. Alone(t)
      BY <2>2, <2>3, <2>6 DEF Alone
    <3> QED
      BY <2>2, <2>4, <2>5, <3>1, FileWritten
  <2>9. TaskInv(t)'
    <3>1. Settled(t)'
      BY <2>2, <2>3, InvParts DEF TaskInv, Settled, Holding, Inside
    <3>2. Collected(t)' /\ Spared(t)'
      BY <2>3 DEF Collected, Spared, Running, Copying
    <3>3. Once(t)'
      BY <2>2, <2>3, <2>4, <2>5, <2>6, InvParts DEF TaskInv, Once, Dest, Running, Copying
    <3> QED
      BY <3>1, <3>2, <3>3 DEF TaskInv
  <2> QED
    BY <2>3, <2>7, <2>8, <2>9 DEF TransferInv
<1> QED
  BY <1>1, <1>2

-----------------------------------------------------------------------------
(* The report, other programs, and the death of the process.                  *)

LEMMA ReportInv ==
  ASSUME TransferInv, NEW t \in Task, Report(t)
  PROVE  TransferInv'
<1> DEFINE again == outcome[t] \in Retryable(t) /\ attempts[t] + 1 < Limit
           end   == IF outcome[t] = "success" THEN "COMPLETED"
                    ELSE IF again THEN "QUEUED" ELSE "FAILED"
           spent == IF outcome[t] = "success" THEN attempts[t] ELSE attempts[t] + 1
           label == IF again THEN "idle" ELSE "ended"
<1>1. /\ pc[t] = "report"
      /\ job' = [job EXCEPT ![t] = end]
      /\ attempts' = [attempts EXCEPT ![t] = spent]
      /\ pc' = [pc EXCEPT ![t] = label]
      /\ Forget({t})
      /\ UNCHANGED <<permits, inflight, limiter, file, edits, crashes, installs>>
  BY DEF Report, limiter, fs
<1>2. "success" \notin Retryable(t)
  BY DEF Retryable, ArchiveRetries, OrganizeRetries, TransferRetries, Passing
<1>3. job[t] = "QUEUED" /\ attempts[t] \in 0..Limit /\ attempts[t] < Limit
  BY <1>1, InvParts DEF Typed, TaskInv, Settled
<1>4. /\ label = "ended" <=> end # "QUEUED"
      /\ end = "QUEUED" => spent < Limit
      /\ spent \in 0..Limit
  BY <1>2, <1>3, Constants
<1>5. /\ job'[t] = end /\ attempts'[t] = spent /\ pc'[t] = label
      /\ \A u \in Task \ {t} : job'[u] = job[u] /\ attempts'[u] = attempts[u] /\ pc'[u] = pc[u]
      /\ job' \in [Task -> {"QUEUED", "COMPLETED", "FAILED"}]
      /\ attempts' \in [Task -> 0..Limit] /\ pc' \in [Task -> Labels]
  BY <1>1, <1>4, InvParts DEF Typed, Labels
<1>6. /\ size'[t] = 0 /\ outcome'[t] = "none"
      /\ \A u \in Task \ {t} : /\ size'[u] = size[u] /\ outcome'[u] = outcome[u]
                               /\ hash'[u] = hash[u] /\ temp'[u] = temp[u] /\ seen'[u] = seen[u]
      /\ size' \in [Task -> Sizes \cup {0}] /\ outcome' \in [Task -> Outcomes]
  BY <1>1, InvParts DEF Forget, Typed, Outcomes
<1>7. /\ hash' \in [Task -> Known] /\ temp' \in [Task -> Known]
      /\ seen' \in [Task -> SUBSET (Nat \X Nat)]
  BY <1>1, KnownRange, InvParts DEF Forget, Typed
<1>8. Typed'
  BY <1>1, <1>5, <1>6, <1>7, InvParts DEF Typed, Known
<1>9. Balanced'
  BY <1>1, <1>5, <1>6, BooksKept, InvParts DEF Holding, Inside
<1>10. TaskInv(t)'
  <2>1. Settled(t)'
    BY <1>4, <1>5 DEF Settled, Holding, Inside
  <2>2. Collected(t)' /\ Spared(t)'
    BY <1>5 DEF Collected, Spared, Running, Copying
  <2>3. Once(t)'
    BY <1>1, <1>5, <1>6, InvParts DEF TaskInv, Once, Dest, Running, Copying
  <2> QED
    BY <2>1, <2>2, <2>3 DEF TaskInv
<1> QED
  BY <1>1, <1>5, <1>6, <1>8, <1>9, <1>10, OwnStep DEF Alone, fs

LEMMA EditInv ==
  ASSUME TransferInv, NEW p \in Sources, NEW k \in {1, 2}, NEW s \in Sizes, Edit(p, k, s)
  PROVE  TransferInv'
<1>1. PICK now : now = [file[p] EXCEPT !.v[k] = edits + 1, !.size = s]
  OBVIOUS
<1>2. /\ edits < MaxEdits /\ file[p].here
      /\ file' = [file EXCEPT ![p] = now]
      /\ edits' = edits + 1
      /\ seen' = [t \in Task |-> IF SourceOf[t] = p /\ seen[t] # {}
                                 THEN seen[t] \cup {now.v} ELSE seen[t]]
      /\ UNCHANGED <<pc, size, hash, temp, outcome, permits, inflight, limiter, job, attempts,
                     crashes, installs>>
  BY <1>1 DEF Edit, local, limiter, ledger
<1>3. /\ p \in Path /\ edits \in Nat /\ edits' \in 0..MaxEdits
      /\ file[p] \in [here: BOOLEAN, size: Sizes \cup {0}, v: (-1..MaxEdits) \X (-1..MaxEdits)]
      /\ file[p].v \in Known
  BY <1>2, Constants, InvParts DEF Typed
<1>4. \A a \in Known : a \in Known'
  BY <1>2, <1>3 DEF Known
<1>5. /\ now \in [here: BOOLEAN, size: Sizes \cup {0}, v: (-1..MaxEdits) \X (-1..MaxEdits)]
      /\ now.here /\ now.v \in Known'
      /\ now.v[1] = file[p].v[1] \/ now.v[1] = edits + 1
  <2>1. PICK v : v = [file[p].v EXCEPT ![k] = edits + 1]
    OBVIOUS
  <2>2. PICK row : row = [file[p] EXCEPT !.v = v]
    OBVIOUS
  <2>3. now = [row EXCEPT !.size = s]
    BY <1>1, <2>1, <2>2
  <2>4. /\ v \in Known' /\ v \in (-1..MaxEdits) \X (-1..MaxEdits)
        /\ v[1] = file[p].v[1] \/ v[1] = edits + 1
    <3> DEFINE chunks == 0..(edits + 1)
    <3>1. file[p].v \in chunks \X chunks /\ edits + 1 \in chunks
      BY <1>3 DEF Known
    <3>2. v = <<edits + 1, file[p].v[2]>> \/ v = <<file[p].v[1], edits + 1>>
      BY <2>1, <3>1, Chunks
    <3>3. v \in chunks \X chunks
      BY <3>1, <3>2
    <3> QED
      BY <1>2, <1>3, <3>2, <3>3, Constants DEF Known
  <2>5. /\ row \in [here: BOOLEAN, size: Sizes \cup {0}, v: (-1..MaxEdits) \X (-1..MaxEdits)]
        /\ row.here = file[p].here /\ row.v = v
    BY <1>3, <2>2, <2>4
  <2> QED
    BY <1>2, <2>3, <2>4, <2>5
<1>6. file'[p] = now /\ \A q \in Path \ {p} : file'[q] = file[q]
  BY <1>2, <1>3, InvParts DEF Typed
<1>7. Typed'
  <2>1. file' \in [Path -> [here: BOOLEAN, size: Sizes \cup {0},
                            v: (-1..MaxEdits) \X (-1..MaxEdits)]]
    BY <1>2, <1>5, InvParts DEF Typed
  <2>2. hash' \in [Task -> Known'] /\ temp' \in [Task -> Known']
    BY <1>2, <1>4, InvParts DEF Typed
  <2>3. \A q \in Sources : file'[q].v \in Known'
    BY <1>4, <1>5, <1>6, Constants, InvParts DEF Typed
  <2>4. seen' \in [Task -> SUBSET (Nat \X Nat)]
    <3>1. now.v \in Nat \X Nat
      BY <1>2, <1>3, <1>5 DEF Known
    <3> QED
      BY <1>2, <3>1, InvParts DEF Typed
  <2> QED
    BY <1>2, <1>3, <2>1, <2>2, <2>3, <2>4, InvParts DEF Typed
<1>8. Balanced'
  BY <1>2, BooksKept, InvParts
<1>9. ASSUME NEW t \in Task PROVE TaskInv(t)'
  <2>1. SourceOf[t] \in Path /\ DestOf[t] \in Path
    BY Constants
  <2>2. Settled(t)'
    BY <1>2, InvParts DEF TaskInv, Settled
  <2>3. ASSUME t \in Steady PROVE Collected(t)'
    <3>1. CASE SourceOf[t] # p
      BY <1>2, <1>6, <2>1, <2>3, <3>1, InvParts DEF TaskInv, Collected, Source
    <3>2. CASE SourceOf[t] = p
      <4>1. /\ Collected(t) /\ Source(t) = file[p] /\ Source(t)' = now
            /\ hash[t] \in Known /\ temp[t] \in Known
        BY <1>6, <2>3, <3>2, InvParts DEF TaskInv, Source, Typed
      <4>2. hash[t][1] \in 0..edits
        BY <4>1, KnownRange, InvParts
      <4>3. /\ seen[t] \subseteq seen'[t]
            /\ pc[t] \in Copying => now.v \in seen'[t]
        BY <1>2, <3>2, <4>1 DEF Collected
      <4>4. /\ hash[t][1] <= file[p].v[1] => hash[t][1] <= now.v[1]
            /\ hash[t][1] = now.v[1] => hash[t][1] = file[p].v[1]
        BY <1>3, <1>5, <4>2
      <4>5. /\ hash'[t] = hash[t] /\ temp'[t] = temp[t] /\ pc'[t] = pc[t]
        BY <1>2
      <4> QED
        BY <4>1, <4>3, <4>4, <4>5 DEF Collected
    <3> QED
      BY <3>1, <3>2
  <2>4. Spared(t)'
    <3>1. CASE DestOf[t] = p
      <4>1. Old \notin Known'
        BY DEF Old, Known
      <4> QED
        BY <1>5, <1>6, <3>1, <4>1 DEF Spared, Dest
    <3>2. CASE DestOf[t] # p
      BY <1>2, <1>6, <2>1, <3>2, InvParts DEF TaskInv, Spared, Dest
    <3> QED
      BY <3>1, <3>2
  <2>5. Once(t)'
    BY <1>2, <1>6, <2>1, InvParts DEF TaskInv, Once, Dest, Undisturbed
  <2> QED
    BY <2>2, <2>3, <2>4, <2>5 DEF TaskInv
<1> QED
  BY <1>7, <1>8, <1>9 DEF TransferInv

LEMMA RemoveInv ==
  ASSUME TransferInv, NEW p \in Sources, Remove(p)
  PROVE  TransferInv'
<1>1. PICK now : now = [file[p] EXCEPT !.here = FALSE]
  OBVIOUS
<1>2. /\ edits < MaxEdits
      /\ file' = [file EXCEPT ![p] = now]
      /\ edits' = edits + 1
      /\ UNCHANGED <<pc, size, hash, temp, outcome, permits, inflight, limiter, job, attempts,
                     crashes, seen, installs>>
  BY <1>1 DEF Remove, local, limiter, ledger
<1>3. /\ p \in Path /\ edits \in Nat /\ edits' \in 0..MaxEdits
      /\ file[p] \in [here: BOOLEAN, size: Sizes \cup {0}, v: (-1..MaxEdits) \X (-1..MaxEdits)]
  BY <1>2, Constants, InvParts DEF Typed
<1>4. \A a \in Known : a \in Known'
  BY <1>2, <1>3 DEF Known
<1>5. /\ now \in [here: BOOLEAN, size: Sizes \cup {0}, v: (-1..MaxEdits) \X (-1..MaxEdits)]
      /\ ~now.here /\ now.v = file[p].v
  BY <1>1, <1>3
<1>6. file'[p] = now /\ \A q \in Path \ {p} : file'[q] = file[q]
  BY <1>2, <1>3, InvParts DEF Typed
<1>7. Typed'
  <2>1. file' \in [Path -> [here: BOOLEAN, size: Sizes \cup {0},
                            v: (-1..MaxEdits) \X (-1..MaxEdits)]]
    BY <1>2, <1>5, InvParts DEF Typed
  <2>2. hash' \in [Task -> Known'] /\ temp' \in [Task -> Known']
    BY <1>2, <1>4, InvParts DEF Typed
  <2>3. \A q \in Sources : file'[q].v \in Known'
    BY <1>4, <1>5, <1>6, Constants, InvParts DEF Typed
  <2> QED
    BY <1>2, <1>3, <2>1, <2>2, <2>3, InvParts DEF Typed
<1>8. Balanced'
  BY <1>2, BooksKept, InvParts
<1>9. ASSUME NEW t \in Task PROVE TaskInv(t)'
  <2>1. SourceOf[t] \in Path /\ DestOf[t] \in Path /\ Source(t)'.v = Source(t).v
    BY <1>5, <1>6, Constants DEF Source
  <2>2. Settled(t)'
    BY <1>2, InvParts DEF TaskInv, Settled
  <2>3. ASSUME t \in Steady PROVE Collected(t)'
    BY <1>2, <2>1, <2>3, InvParts DEF TaskInv, Collected
  <2>4. Spared(t)'
    BY <1>2, <1>5, <1>6, <2>1, InvParts DEF TaskInv, Spared, Dest
  <2>5. Once(t)'
    BY <1>2, <1>6, <2>1, InvParts DEF TaskInv, Once, Dest, Undisturbed
  <2> QED
    BY <2>2, <2>3, <2>4, <2>5 DEF TaskInv
<1> QED
  BY <1>7, <1>8, <1>9 DEF TransferInv

LEMMA CrashInv ==
  ASSUME TransferInv, Crash
  PROVE  TransferInv'
<1>1. /\ crashes' \in 0..MaxCrashes
      /\ pc' = [t \in Task |-> IF job[t] = "QUEUED" THEN "idle" ELSE "ended"]
      /\ Forget(Task)
      /\ permits' = MaxWorkers /\ inflight' = 0
      /\ UNCHANGED <<job, attempts, file, edits, installs>>
  BY Constants, InvParts DEF Crash, ledger, fs, Typed
<1>2. \A t \in Task : /\ pc'[t] \in {"idle", "ended"} /\ (pc'[t] = "ended" <=> job[t] # "QUEUED")
                      /\ outcome'[t] = "none"
  BY <1>1 DEF Forget
<1>3. Typed'
  <2>1. /\ size' \in [Task -> Sizes \cup {0}] /\ outcome' \in [Task -> Outcomes]
        /\ pc' \in [Task -> Labels]
    BY <1>1 DEF Forget, Labels, Outcomes
  <2>2. /\ hash' \in [Task -> Known] /\ temp' \in [Task -> Known]
        /\ seen' \in [Task -> SUBSET (Nat \X Nat)]
    BY <1>1, KnownRange, InvParts DEF Forget
  <2> QED
    BY <1>1, <2>1, <2>2, Constants, InvParts DEF Typed, Known
<1>4. Balanced'
  <2>1. Holders' = {} /\ Admitted' = {}
    BY <1>2 DEF Holders, Admitted, Holding, Inside
  <2> QED
    BY <1>1, <2>1, FS_EmptySet, Constants DEF Balanced
<1>5. ASSUME NEW t \in Task PROVE TaskInv(t)'
  <2>1. Settled(t)'
    BY <1>1, <1>2, InvParts DEF TaskInv, Settled, Holding, Inside
  <2>2. Collected(t)' /\ Spared(t)'
    BY <1>2 DEF Collected, Spared, Running, Copying
  <2>3. Once(t)'
    BY <1>1, <1>2, InvParts DEF TaskInv, Once, Dest, Running, Copying
  <2> QED
    BY <2>1, <2>2, <2>3 DEF TaskInv
<1> QED
  BY <1>3, <1>4, <1>5 DEF TransferInv

LEMMA StutterInv == TransferInv /\ UNCHANGED tvars => TransferInv'
<1> SUFFICES ASSUME TransferInv, UNCHANGED tvars PROVE TransferInv'
  OBVIOUS
<1>1. UNCHANGED <<pc, size, hash, temp, outcome, permits, inflight, limiter, job, attempts, file,
                  edits, crashes, seen, installs>>
  BY DEF tvars, local, limiter, ledger, fs
<1>2. Typed'
  BY <1>1, InvParts DEF Typed, Known
<1>3. Balanced'
  BY <1>1, BooksKept, InvParts
<1>4. ASSUME NEW t \in Task PROVE TaskInv(t)'
  BY <1>1, InvParts DEF TaskInv, Settled, Collected, Spared, Once, Source, Dest
<1> QED
  BY <1>2, <1>3, <1>4 DEF TransferInv

LEMMA NextInv == TransferInv /\ [Next]_tvars => TransferInv'
<1> SUFFICES ASSUME TransferInv, Next PROVE TransferInv'
  BY StutterInv
<1>1. ASSUME NEW t \in Task, Step(t) PROVE TransferInv'
  BY <1>1, MeasureInv, AcquireWorkerInv, AcquireBytesInv, CheckPathsInv, HashFirstInv,
     HashSecondInv, CopyFirstInv, CopySecondInv, CompareInv, InstallInv, IOErrorInv, ReleaseInv,
     ReportInv DEF Step
<1>2. ASSUME NEW p \in Sources, Remove(p) \/ (\E k \in {1, 2}, s \in Sizes : Edit(p, k, s))
      PROVE  TransferInv'
  BY <1>2, RemoveInv, EditInv
<1> QED
  BY <1>1, <1>2, CrashInv, StutterInv DEF Next, Rest

LEMMA Invariance == Spec => []TransferInv
<1>1. Init => TransferInv
  BY InitInv
<1>2. TransferInv /\ [Next]_tvars => TransferInv'
  BY NextInv
<1> QED
  BY <1>1, <1>2, PTL DEF Spec

-----------------------------------------------------------------------------
(* The theorems.                                                              *)

\* Every thread past acquire holds one permit and the bytes it measured, no
\* more and no less, whichever way it leaves.
THEOREM LimiterBooks == Spec => []LimiterBalanced
<1>1. TransferInv => LimiterBalanced
  <2> SUFFICES ASSUME TransferInv PROVE LimiterBalanced
    OBVIOUS
  <2>1. TTypeOK
    BY InvParts DEF Typed, TTypeOK
  <2> QED
    BY <2>1, InvParts DEF Balanced, Holders, Admitted, LimiterBalanced
<1> QED
  BY <1>1, Invariance, PTL

\* Over all attempts, retries and recoveries, a job without overwrite replaces
\* a destination that only jobs write at most once, and completes only if it did.
THEOREM InstallsAtMostOnce == Spec => []InstalledOnce
<1>1. TransferInv => InstalledOnce
  BY InvParts DEF TaskInv, Once, InstalledOnce, Undisturbed
<1> QED
  BY <1>1, Invariance, PTL

\* What a transfer installs was the whole source at one instant, when no job
\* writes that source; and without overwrite nothing older than the jobs is
\* replaced.
THEOREM SnapshotInstalled == Spec => InstallsSnapshot
<1>1. TransferInv /\ [Next]_tvars =>
        [\A t \in Task : installs'[t] # installs[t] =>
           /\ t \in Steady => temp[t] \in seen[t]
           /\ t \notin Overwriting => ~(Dest(t).here /\ Dest(t).v = Old)]_tvars
  <2> SUFFICES ASSUME TransferInv, [Next]_tvars, NEW t \in Task, installs'[t] # installs[t]
               PROVE  /\ t \in Steady => temp[t] \in seen[t]
                      /\ t \notin Overwriting => ~(Dest(t).here /\ Dest(t).v = Old)
    OBVIOUS
  <2>1. UNCHANGED installs \/ \E u \in Task : Install(u)
    BY DEF Next, Step, Rest, tvars, Measure, AcquireWorker, AcquireBytes, CheckPaths, HashFirst,
           HashSecond, CopyFirst, CopySecond, Compare, IOError, Release, Report, Remove, Edit, Crash
  <2>2. PICK u \in Task : Install(u)
    BY <2>1
  <2>3. u = t
    BY <2>2, InvParts DEF Install, Typed
  <2>4. pc[t] = "install"
    BY <2>2, <2>3 DEF Install
  <2> QED
    BY <2>4, InvParts DEF TaskInv, Collected, Spared, Running, Copying
<1> QED
  BY <1>1, Invariance, PTL DEF Spec, InstallsSnapshot
=============================================================================
