--------------------------- MODULE JobStoreProofs ---------------------------
(***************************************************************************)
(* Theorems about JobStore for every set of jobs, workers and connections,  *)
(* every lease length, and every max_attempts >= 1.                         *)
(***************************************************************************)
EXTENDS JobStore, TLAPS

\* The initial table satisfies the inductive invariant.
LEMMA InitIInv == Init => IInv
BY StoreAssumption
   DEF Init, IInv, TypeOK, OwnershipColumns, RetryBudget, ParentsFirst,
       ProgressHonest, CallsInFlight, CreatedInOrder, Present, NoRow, Row, Idle,
       CallState, JobState, Live, Terminal, Owned, Null, Past, Full

\* What an UPDATE must leave behind in a row it writes.
GoodRow(r) ==
  /\ r \in Row
  /\ r.state # "ABSENT"
  /\ r.owner # NoWorker <=> r.state \in Owned
  /\ r.lease # Null <=> r.state \in Owned
  /\ r.attempts <= r.limit
  /\ r.state \in Live => r.attempts < r.limit
  /\ r.state = "VERIFYING" => r.progress < Full
  /\ r.state = "COMPLETED" => r.progress = Full

\* No UPDATE changes created, parent_job_id or max_attempts.
SamePlace(r, s) ==
  r.created = s.created /\ r.parent = s.parent /\ r.limit = s.limit

\* An UPDATE that leaves good rows where rows were, and starts no call,
\* preserves the invariant.
LEMMA UpdateRows ==
  ASSUME IInv,
         jobs' = [j \in Job |-> jobs'[j]],
         \A j \in Job : \/ jobs'[j] = jobs[j]
                        \/ /\ Present(j)
                           /\ GoodRow(jobs'[j])
                           /\ SamePlace(jobs'[j], jobs[j]),
         UNCHANGED inserted,
         call' \in [Caller -> CallState],
         \A c \in Caller : call'[c] = call[c] \/ call'[c] = Idle
  PROVE  IInv'
<1>1. TypeOK'
  BY DEF IInv, TypeOK, GoodRow
<1>2. OwnershipColumns' /\ RetryBudget' /\ ProgressHonest'
  BY DEF IInv, OwnershipColumns, RetryBudget, ProgressHonest, GoodRow
<1>3. \A i \in Job : Present(i) <=> jobs'[i].state # "ABSENT"
  BY DEF Present, GoodRow
<1>4. \A i \in Job : SamePlace(jobs'[i], jobs[i])
  BY DEF SamePlace
<1>5. ParentsFirst'
  <2> SUFFICES ASSUME NEW i \in Job, jobs'[i].parent # NoJob
               PROVE  /\ jobs'[jobs'[i].parent].state # "ABSENT"
                      /\ jobs'[jobs'[i].parent].created < jobs'[i].created
    BY DEF ParentsFirst, Present
  <2>1. jobs[i].parent = jobs'[i].parent /\ jobs[i].parent \in Job
    BY <1>4 DEF SamePlace, IInv, TypeOK, Row
  <2>2. QED
    BY <2>1, <1>3, <1>4 DEF SamePlace, IInv, ParentsFirst
<1>6. CallsInFlight'
  BY <1>3, <1>4 DEF IInv, CallsInFlight, SamePlace, Idle, Present
<1>7. CreatedInOrder'
  BY <1>3, <1>4 DEF IInv, CreatedInOrder, SamePlace, Present
<1> QED
  BY <1>1, <1>2, <1>5, <1>6, <1>7 DEF IInv

\* A row that stays put after a write to one job only.
LEMMA UpdateRow ==
  ASSUME IInv, NEW j \in Job, NEW r, jobs' = [jobs EXCEPT ![j] = r],
         Present(j), GoodRow(r), SamePlace(r, jobs[j]), UNCHANGED inserted,
         call' \in [Caller -> CallState],
         \A c \in Caller : call'[c] = call[c] \/ call'[c] = Idle
  PROVE  IInv'
<1>1. jobs' = [i \in Job |-> jobs'[i]]
  BY DEF IInv, TypeOK
<1>2. \A i \in Job : \/ jobs'[i] = jobs[i]
                     \/ Present(i) /\ GoodRow(jobs'[i]) /\ SamePlace(jobs'[i], jobs[i])
  BY DEF IInv, TypeOK
<1> QED
  BY <1>1, <1>2, UpdateRows

\* The INSERT of either form of enqueue.
LEMMA InsertIInv ==
  ASSUME IInv, NEW j \in Job, NEW parent \in Job \cup {NoJob},
         NEW priority \in Priorities, NEW limit \in Limits,
         parent # NoJob => Present(parent),
         Insert(j, parent, priority, limit),
         call' \in [Caller -> CallState],
         \A c \in Caller : call'[c] = call[c] \/ call'[c] = Idle
  PROVE  IInv'
<1> DEFINE r == NewRow(parent, priority, limit)
<1>1. /\ r \in Row
      /\ r.state = "QUEUED" /\ r.owner = NoWorker /\ r.lease = Null
      /\ r.attempts = 0 /\ r.limit > 0 /\ r.progress = 0
      /\ r.created = inserted /\ r.parent = parent
  <2>1. limit \in Nat /\ limit > 0 /\ priority \in 0..4 /\ inserted \in Nat
    BY StoreAssumption DEF IInv, TypeOK
  <2>2. r = [state |-> "QUEUED", priority |-> priority, created |-> inserted,
             attempts |-> 0, limit |-> limit, retryAt |-> Null, progress |-> 0,
             owner |-> NoWorker, lease |-> Null, parent |-> parent]
    <3>1. NoRow \in Row
      BY DEF NoRow, Row, JobState, Past, Full
    <3>2. PICK q : q = NewRow(parent, priority, limit)
      OBVIOUS
    <3>3. q = [state |-> "QUEUED", priority |-> priority, created |-> inserted,
               attempts |-> 0, limit |-> limit, retryAt |-> Null, progress |-> 0,
               owner |-> NoWorker, lease |-> Null, parent |-> parent]
      BY <3>1, <3>2 DEF NewRow, NoRow, Row
    <3>4. QED
      BY <3>2, <3>3
  <2>3. 0 \in 0..Full /\ "QUEUED" \in JobState
    BY DEF Full, JobState, Live
  <2> QED
    BY <2>1, <2>2, <2>3 DEF Row
<1> HIDE DEF r
<1>2. ~Present(j) /\ jobs' = [jobs EXCEPT ![j] = r] /\ inserted' = inserted + 1
  BY DEF Insert, r
<1>3. jobs'[j] = r /\ \A i \in Job \ {j} : jobs'[i] = jobs[i]
  BY <1>2 DEF IInv, TypeOK
<1>4. TypeOK'
  BY <1>1, <1>2 DEF IInv, TypeOK
<1>5. OwnershipColumns' /\ RetryBudget' /\ ProgressHonest'
  <2>1. OwnershipColumns'
    BY <1>1, <1>3 DEF IInv, OwnershipColumns, Owned
  <2>2. RetryBudget'
    BY <1>1, <1>3 DEF IInv, RetryBudget, Row
  <2>3. ProgressHonest'
    BY <1>1, <1>3 DEF IInv, ProgressHonest
  <2> QED
    BY <2>1, <2>2, <2>3
<1>6. \A i \in Job : Present(i) => jobs'[i] = jobs[i]
  BY <1>2, <1>3
<1>7. ParentsFirst'
  <2> SUFFICES ASSUME NEW i \in Job, jobs'[i].parent # NoJob
               PROVE  /\ jobs'[jobs'[i].parent].state # "ABSENT"
                      /\ jobs'[jobs'[i].parent].created < jobs'[i].created
    BY DEF ParentsFirst, Present
  <2>1. CASE i = j
    BY <2>1, <1>1, <1>3, <1>6 DEF IInv, CreatedInOrder, Present
  <2>2. CASE i # j
    <3>1. jobs'[i] = jobs[i] /\ jobs[i].parent \in Job
      BY <2>2, <1>3 DEF IInv, TypeOK, Row
    <3>2. QED
      BY <3>1, <1>6 DEF IInv, ParentsFirst, Present
  <2> QED
    BY <2>1, <2>2
<1>8. CallsInFlight'
  BY <1>6 DEF IInv, CallsInFlight, Idle, Present
<1>9. CreatedInOrder'
  <2> SUFFICES ASSUME NEW i \in Job
               PROVE  /\ jobs'[i].state = "ABSENT" => jobs'[i] = NoRow
                      /\ jobs'[i].state # "ABSENT" => jobs'[i].created < inserted'
    BY DEF CreatedInOrder, Present
  <2>1. inserted \in Nat /\ inserted' = inserted + 1
    BY <1>2 DEF IInv, TypeOK
  <2>2. CASE i = j
    BY <2>1, <2>2, <1>1, <1>3
  <2>3. CASE i # j
    <3>1. jobs'[i] = jobs[i] /\ jobs[i].created \in Nat
      BY <2>3, <1>3 DEF IInv, TypeOK, Row
    <3>2. QED
      BY <3>1, <2>1 DEF IInv, CreatedInOrder, Present
  <2> QED
    BY <2>2, <2>3
<1> QED
  BY <1>4, <1>5, <1>7, <1>8, <1>9 DEF IInv

\* Freed sets three columns and keeps the others.
LEMMA FreedFields ==
  ASSUME NEW r \in Row, NEW s \in JobState, NEW q, q = Freed(r, s)
  PROVE  /\ q = [state |-> s, priority |-> r.priority, created |-> r.created,
                 attempts |-> r.attempts, limit |-> r.limit,
                 retryAt |-> r.retryAt, progress |-> r.progress,
                 owner |-> NoWorker, lease |-> Null, parent |-> r.parent]
         /\ q \in Row
         /\ q.state = s /\ q.owner = NoWorker /\ q.lease = Null
         /\ q.attempts = r.attempts /\ q.progress = r.progress
         /\ SamePlace(q, r)
<1>1. q = [state |-> s, priority |-> r.priority, created |-> r.created,
           attempts |-> r.attempts, limit |-> r.limit, retryAt |-> r.retryAt,
           progress |-> r.progress, owner |-> NoWorker, lease |-> Null,
           parent |-> r.parent]
  BY DEF Freed, Row
<1>2. q \in Row
  BY <1>1 DEF Row
<1>3. QED
  BY <1>1, <1>2 DEF SamePlace

\* Every state name is a JobState.
LEMMA StateNames ==
  /\ {"QUEUED", "RUNNING", "PAUSED", "VERIFYING", "COMPLETED", "FAILED",
      "CANCELLED"} \subseteq JobState
  /\ "ABSENT" \notin JobState
BY DEF JobState, Live, Terminal

\* A job that can still run has a good row, with an attempt left.
LEMMA LiveRow ==
  ASSUME IInv, NEW j \in Job, jobs[j].state \in Live
  PROVE  /\ jobs[j] \in Row /\ Present(j) /\ GoodRow(jobs[j])
         /\ jobs[j].attempts < jobs[j].limit
         /\ jobs[j].attempts \in Nat /\ jobs[j].limit \in Nat
<1>1. jobs[j] \in Row
  BY DEF IInv, TypeOK
<1>2. QED
  BY <1>1 DEF IInv, RetryBudget, OwnershipColumns, ProgressHonest, Present, Row,
              Live, GoodRow

-----------------------------------------------------------------------------
(* The UPDATEs of one row *)

LEMMA ClaimIInv ==
  ASSUME IInv, NEW j \in Job, NEW w \in WorkerId, Claim(j, w)
  PROVE  IInv'
<1>1. jobs[j].state \in Live
  BY DEF Claim, Runnable, Live
<1>2. PICK q : q = [jobs[j] EXCEPT !.state = "RUNNING", !.owner = w,
                                   !.lease = LeaseSeconds]
  OBVIOUS
<1>3. q = [state |-> "RUNNING", priority |-> jobs[j].priority,
           created |-> jobs[j].created, attempts |-> jobs[j].attempts,
           limit |-> jobs[j].limit, retryAt |-> jobs[j].retryAt,
           progress |-> jobs[j].progress, owner |-> w, lease |-> LeaseSeconds,
           parent |-> jobs[j].parent]
  BY <1>1, <1>2, LiveRow DEF Row
<1>4. /\ "RUNNING" \in Owned /\ w # NoWorker
      /\ LeaseSeconds \in 0..LeaseSeconds /\ LeaseSeconds # Null
  BY StoreAssumption DEF Owned, Null
<1>5. q \in Row
  BY <1>1, <1>3, <1>4, LiveRow, StateNames DEF Row
<1>6. GoodRow(q) /\ SamePlace(q, jobs[j])
  BY <1>1, <1>3, <1>4, <1>5, LiveRow DEF GoodRow, SamePlace
<1>7. jobs' = [jobs EXCEPT ![j] = q] /\ UNCHANGED <<inserted, call>>
  BY <1>2 DEF Claim
<1> QED
  BY <1>1, <1>6, <1>7, LiveRow, UpdateRow DEF IInv, TypeOK

LEMMA RenewLeaseIInv ==
  ASSUME IInv, NEW j \in Job, NEW w \in WorkerId, RenewLease(j, w)
  PROVE  IInv'
<1>1. jobs[j].state = "RUNNING" /\ jobs[j].state \in Live
  BY DEF RenewLease, RunningBy, Live
<1>2. PICK q : q = [jobs[j] EXCEPT !.lease = LeaseSeconds]
  OBVIOUS
<1>3. LeaseSeconds \in 0..LeaseSeconds /\ LeaseSeconds # Null /\ "RUNNING" \in Owned
  BY StoreAssumption DEF Null, Owned
<1>4. q \in Row /\ GoodRow(q) /\ SamePlace(q, jobs[j])
  BY <1>1, <1>2, <1>3, LiveRow DEF Row, GoodRow, SamePlace
<1>5. jobs' = [jobs EXCEPT ![j] = q] /\ UNCHANGED <<inserted, call>>
  BY <1>2 DEF RenewLease
<1> QED
  BY <1>1, <1>4, <1>5, LiveRow, UpdateRow DEF IInv, TypeOK

LEMMA UpdateProgressIInv ==
  ASSUME IInv, NEW j \in Job, NEW w \in WorkerId, NEW p \in 0..Full,
         UpdateProgress(j, w, p)
  PROVE  IInv'
<1>1. jobs[j].state = "RUNNING" /\ jobs[j].state \in Live
  BY DEF UpdateProgress, RunningBy, Live
<1>2. PICK q : q = [jobs[j] EXCEPT !.progress = p]
  OBVIOUS
<1>3. q \in Row /\ GoodRow(q) /\ SamePlace(q, jobs[j])
  BY <1>1, <1>2, LiveRow DEF Row, GoodRow, SamePlace
<1>4. jobs' = [jobs EXCEPT ![j] = q] /\ UNCHANGED <<inserted, call>>
  BY <1>2 DEF UpdateProgress
<1> QED
  BY <1>1, <1>3, <1>4, LiveRow, UpdateRow DEF IInv, TypeOK

LEMMA BeginVerificationIInv ==
  ASSUME IInv, NEW j \in Job, NEW w \in WorkerId, BeginVerification(j, w)
  PROVE  IInv'
<1>1. jobs[j].state = "RUNNING" /\ jobs[j].state \in Live
  BY DEF BeginVerification, RunningBy, Live
<1>2. PICK q : q = [jobs[j] EXCEPT !.state = "VERIFYING",
                !.progress = IF jobs[j].progress > Capped THEN Capped
                             ELSE jobs[j].progress]
  OBVIOUS
<1>3. q = [state |-> "VERIFYING", priority |-> jobs[j].priority,
           created |-> jobs[j].created, attempts |-> jobs[j].attempts,
           limit |-> jobs[j].limit, retryAt |-> jobs[j].retryAt,
           progress |-> IF jobs[j].progress > Capped THEN Capped
                        ELSE jobs[j].progress,
           owner |-> jobs[j].owner, lease |-> jobs[j].lease,
           parent |-> jobs[j].parent]
  BY <1>1, <1>2, LiveRow DEF Row
<1>4. q.progress \in 0..Full /\ q.progress < Full
  BY <1>1, <1>3, LiveRow DEF Row, Capped, Full
<1>5. "VERIFYING" \in Owned /\ "RUNNING" \in Owned
  BY DEF Owned
<1>6. q \in Row
  BY <1>1, <1>3, <1>4, LiveRow, StateNames DEF Row
<1>7. GoodRow(q) /\ SamePlace(q, jobs[j])
  BY <1>1, <1>3, <1>4, <1>5, <1>6, LiveRow DEF GoodRow, SamePlace
<1>8. jobs' = [jobs EXCEPT ![j] = q] /\ UNCHANGED <<inserted, call>>
  BY <1>2 DEF BeginVerification
<1> QED
  BY <1>1, <1>7, <1>8, LiveRow, UpdateRow DEF IInv, TypeOK

\* complete() and complete_verification() write the same row.
LEMMA CompletedIInv ==
  ASSUME IInv, NEW j \in Job, jobs[j].state \in Owned,
         jobs' = [jobs EXCEPT ![j] = [Freed(@, "COMPLETED") EXCEPT !.progress = Full]],
         UNCHANGED <<inserted, call>>
  PROVE  IInv'
<1>1. jobs[j].state \in Live
  BY DEF Owned, Live
<1>2. PICK f : f = Freed(jobs[j], "COMPLETED")
  OBVIOUS
<1>3. PICK q : q = [f EXCEPT !.progress = Full]
  OBVIOUS
<1>4. f \in Row /\ f.state = "COMPLETED" /\ f.owner = NoWorker /\ f.lease = Null
      /\ f.attempts = jobs[j].attempts /\ SamePlace(f, jobs[j])
  <2>1. jobs[j] \in Row /\ "COMPLETED" \in JobState
    BY <1>1, LiveRow, StateNames
  <2>2. QED
    BY <1>2, <2>1, FreedFields
<1>5. "COMPLETED" \notin Owned /\ "COMPLETED" \notin Live /\ Full \in 0..Full
  BY DEF Owned, Live, Full
<1>6. q \in Row /\ GoodRow(q) /\ SamePlace(q, jobs[j])
  BY <1>1, <1>3, <1>4, <1>5, LiveRow DEF Row, GoodRow, SamePlace
<1>7. jobs' = [jobs EXCEPT ![j] = q]
  BY <1>2, <1>3
<1> QED
  BY <1>1, <1>6, <1>7, LiveRow, UpdateRow DEF IInv, TypeOK

\* pause(), cancel(): the job is freed and keeps its attempts.
LEMMA FreedIInv ==
  ASSUME IInv, NEW j \in Job, jobs[j].state \in Live,
         NEW s \in {"PAUSED", "QUEUED", "CANCELLED"},
         jobs' = [jobs EXCEPT ![j] = Freed(@, s)], UNCHANGED <<inserted, call>>
  PROVE  IInv'
<1>1. PICK q : q = Freed(jobs[j], s)
  OBVIOUS
<1>2. s \notin Owned /\ s # "ABSENT" /\ s # "VERIFYING" /\ s # "COMPLETED"
  BY DEF Owned
<1>3. q \in Row /\ GoodRow(q) /\ SamePlace(q, jobs[j])
  <2>1. jobs[j] \in Row /\ s \in JobState
    BY LiveRow, StateNames
  <2>2. /\ q \in Row /\ q.state = s /\ q.owner = NoWorker /\ q.lease = Null
        /\ q.attempts = jobs[j].attempts /\ SamePlace(q, jobs[j])
    BY <1>1, <2>1, FreedFields
  <2>3. QED
    BY <1>2, <2>2, LiveRow DEF GoodRow, SamePlace
<1> QED
  BY <1>1, <1>3, LiveRow, UpdateRow DEF IInv, TypeOK

LEMMA ResumeIInv ==
  ASSUME IInv, NEW j \in Job, Resume(j)
  PROVE  IInv'
<1>1. jobs[j].state = "PAUSED" /\ jobs[j].state \in Live
  BY DEF Resume, Live
<1>2. PICK q : q = [jobs[j] EXCEPT !.state = "QUEUED", !.retryAt = Null]
  OBVIOUS
<1>3. q = [state |-> "QUEUED", priority |-> jobs[j].priority,
           created |-> jobs[j].created, attempts |-> jobs[j].attempts,
           limit |-> jobs[j].limit, retryAt |-> Null,
           progress |-> jobs[j].progress, owner |-> jobs[j].owner,
           lease |-> jobs[j].lease, parent |-> jobs[j].parent]
  BY <1>1, <1>2, LiveRow DEF Row
<1>4. q \in Row
  BY <1>1, <1>3, LiveRow, StateNames DEF Row
<1>5. GoodRow(q) /\ SamePlace(q, jobs[j])
  BY <1>1, <1>3, <1>4, LiveRow DEF GoodRow, SamePlace, Owned
<1>6. jobs' = [jobs EXCEPT ![j] = q] /\ UNCHANGED <<inserted, call>>
  BY <1>2 DEF Resume
<1> QED
  BY <1>1, <1>5, <1>6, LiveRow, UpdateRow DEF IInv, TypeOK

LEMMA FailIInv ==
  ASSUME IInv, NEW j \in Job, NEW w \in WorkerId, Fail(j, w)
  PROVE  IInv'
<1>1. jobs[j].state \in Live
  BY DEF Fail, OwnedBy, Owned, Live
<1>2. PICK f : f = Freed(jobs[j], "FAILED")
  OBVIOUS
<1>3. PICK q : q = [f EXCEPT !.attempts = jobs[j].attempts + 1]
  OBVIOUS
<1>4. f \in Row /\ f.state = "FAILED" /\ f.owner = NoWorker /\ f.lease = Null
      /\ f.attempts = jobs[j].attempts /\ SamePlace(f, jobs[j])
  <2>1. jobs[j] \in Row /\ "FAILED" \in JobState
    BY <1>1, LiveRow, StateNames
  <2>2. QED
    BY <1>2, <2>1, FreedFields
<1>5. "FAILED" \notin Owned /\ "FAILED" \notin Live
  BY DEF Owned, Live
<1>6. q \in Row /\ GoodRow(q) /\ SamePlace(q, jobs[j])
  BY <1>1, <1>3, <1>4, <1>5, LiveRow DEF Row, GoodRow, SamePlace
<1>7. jobs' = [jobs EXCEPT ![j] = q] /\ UNCHANGED <<inserted, call>>
  BY <1>2, <1>3 DEF Fail
<1> QED
  BY <1>1, <1>6, <1>7, LiveRow, UpdateRow DEF IInv, TypeOK

-----------------------------------------------------------------------------
(* The UPDATEs of many rows *)

LEMMA RecoverIInv ==
  ASSUME IInv, RecoverExpiredLeases
  PROVE  IInv'
<1>1. ASSUME NEW j \in Job, Lapsed(j)
      PROVE  Present(j) /\ GoodRow(jobs'[j]) /\ SamePlace(jobs'[j], jobs[j])
  <2>1. jobs[j].state \in Live
    BY <1>1 DEF Lapsed, Owned, Live
  <2>2. PICK f : f = Freed(jobs[j], "QUEUED")
    OBVIOUS
  <2>3. jobs'[j] = [f EXCEPT !.retryAt = 0]
    BY <1>1, <2>2 DEF RecoverExpiredLeases
  <2>4. jobs[j] \in Row /\ "QUEUED" \in JobState
    BY <2>1, LiveRow, StateNames
  <2>5. /\ f \in Row /\ f.state = "QUEUED" /\ f.owner = NoWorker /\ f.lease = Null
        /\ f.attempts = jobs[j].attempts /\ SamePlace(f, jobs[j])
    BY <2>2, <2>4, FreedFields
  <2>6. "QUEUED" \notin Owned
    BY DEF Owned
  <2>7. PICK q : q = [f EXCEPT !.retryAt = 0]
    OBVIOUS
  <2>8. GoodRow(q) /\ SamePlace(q, jobs[j])
    BY <2>1, <2>5, <2>6, <2>7, LiveRow DEF Row, GoodRow, SamePlace
  <2>9. QED
    BY <2>1, <2>3, <2>7, <2>8, LiveRow
<1>2. \A j \in Job : ~Lapsed(j) => jobs'[j] = jobs[j]
  BY DEF RecoverExpiredLeases
<1>3. jobs' = [j \in Job |-> jobs'[j]] /\ UNCHANGED <<inserted, call>>
  BY DEF RecoverExpiredLeases
<1> QED
  BY <1>1, <1>2, <1>3, UpdateRows DEF IInv, TypeOK

LEMMA TickIInv ==
  ASSUME IInv, Tick
  PROVE  IInv'
<1>1. ASSUME NEW j \in Job, Present(j)
      PROVE  GoodRow(jobs'[j]) /\ SamePlace(jobs'[j], jobs[j])
  <2>1. PICK q : q = [jobs[j] EXCEPT !.retryAt = Later(jobs[j].retryAt),
                        !.lease = IF jobs[j].lease = 0 THEN Past
                                  ELSE Later(jobs[j].lease)]
    OBVIOUS
  <2>2. jobs'[j] = q
    BY <2>1 DEF Tick
  <2>3. jobs[j] \in Row
    BY DEF IInv, TypeOK
  <2>4. q = [state |-> jobs[j].state, priority |-> jobs[j].priority,
             created |-> jobs[j].created, attempts |-> jobs[j].attempts,
             limit |-> jobs[j].limit, retryAt |-> Later(jobs[j].retryAt),
             progress |-> jobs[j].progress, owner |-> jobs[j].owner,
             lease |-> IF jobs[j].lease = 0 THEN Past ELSE Later(jobs[j].lease),
             parent |-> jobs[j].parent]
    BY <2>1, <2>3 DEF Row
  <2>5. q.retryAt \in Nat \cup {Null}
    BY <2>3, <2>4 DEF Row, Later, Null
  <2>6. /\ q.lease \in 0..LeaseSeconds \cup {Past, Null}
        /\ q.lease # Null <=> jobs[j].lease # Null
    BY <2>3, <2>4, StoreAssumption DEF Row, Later, Null, Past
  <2>7. q \in Row
    BY <2>3, <2>4, <2>5, <2>6 DEF Row
  <2>8. GoodRow(q) /\ SamePlace(q, jobs[j])
    BY <1>1, <2>3, <2>4, <2>6, <2>7
       DEF GoodRow, SamePlace, IInv, OwnershipColumns, RetryBudget, ProgressHonest, Present
  <2>9. QED
    BY <2>2, <2>8
<1>2. ASSUME NEW j \in Job, ~Present(j)
      PROVE  jobs'[j] = jobs[j]
  <2>1. jobs[j] = NoRow
    BY <1>2 DEF IInv, CreatedInOrder
  <2>2. jobs[j] \in Row /\ jobs[j].retryAt = Null /\ jobs[j].lease = Null
    BY <2>1 DEF NoRow, IInv, TypeOK
  <2>3. PICK q : q = [jobs[j] EXCEPT !.retryAt = Later(jobs[j].retryAt),
                        !.lease = IF jobs[j].lease = 0 THEN Past
                                  ELSE Later(jobs[j].lease)]
    OBVIOUS
  <2>4. Later(Null) = Null /\ Null # 0
    BY DEF Later, Null
  <2>5. q = jobs[j]
    BY <2>2, <2>3, <2>4 DEF Row
  <2>6. QED
    BY <2>3, <2>5 DEF Tick
<1>3. jobs' = [j \in Job |-> jobs'[j]] /\ UNCHANGED <<inserted, call>>
  BY DEF Tick
<1> QED
  BY <1>1, <1>2, <1>3, UpdateRows DEF IInv, TypeOK

-----------------------------------------------------------------------------
(* The two-statement methods *)

\* Reading changes no row: only the new call has to be sound.
LEMMA CallStartIInv ==
  ASSUME IInv, NEW c \in Caller, CallStart(c)
  PROVE  IInv'
<1>1. UNCHANGED <<jobs, inserted>>
  BY DEF CallStart, EnqueueRead, RetryRead
<1>2. PICK k \in CallState :
        /\ call' = [call EXCEPT ![c] = k]
        /\ k.at # "idle" => k.job \in Job /\ Present(k.job)
        /\ k.at = "retry" => k.attempts < k.limit /\ k.limit = jobs[k.job].limit
  <2> PICK j \in Job : EnqueueRead(c, j) \/ \E w \in WorkerId : RetryRead(c, j, w)
    BY DEF CallStart
  <2>1. CASE EnqueueRead(c, j)
    <3>1. PICK k : k = [Idle EXCEPT !.at = "enqueue", !.job = j]
      OBVIOUS
    <3>2. Idle \in CallState
      BY DEF Idle, CallState
    <3>3. k = [at |-> "enqueue", job |-> j, worker |-> NoWorker,
               attempts |-> 0, limit |-> 0]
      BY <3>1, <3>2 DEF Idle, CallState
    <3>4. k \in CallState /\ Present(j)
      BY <2>1, <3>3 DEF CallState, EnqueueRead
    <3>5. QED
      BY <2>1, <3>1, <3>3, <3>4 DEF EnqueueRead
  <2>2. CASE \E w \in WorkerId : RetryRead(c, j, w)
    <3> PICK w \in WorkerId : RetryRead(c, j, w)
      BY <2>2
    <3>1. jobs[j].state \in Live
      BY DEF RetryRead, OwnedBy, Owned, Live
    <3>2. PICK k : k = [at |-> "retry", job |-> j, worker |-> w,
                        attempts |-> jobs[j].attempts, limit |-> jobs[j].limit]
      OBVIOUS
    <3>3. k \in CallState
      BY <3>1, <3>2, LiveRow DEF CallState
    <3>4. QED
      BY <3>1, <3>2, <3>3, LiveRow DEF RetryRead
  <2> QED
    BY <2>1, <2>2
<1>3. call' \in [Caller -> CallState] /\ TypeOK'
  BY <1>1, <1>2 DEF IInv, TypeOK
<1>4. \A d \in Caller : call'[d] = IF d = c THEN k ELSE call[d]
  BY <1>2 DEF IInv, TypeOK
<1>5. CallsInFlight'
  BY <1>1, <1>2, <1>4 DEF IInv, CallsInFlight, Present
<1>6. QED
  BY <1>1, <1>3, <1>5
     DEF IInv, OwnershipColumns, RetryBudget, ParentsFirst, ProgressHonest,
         CreatedInOrder, Present

\* A finished or abandoned call is idle again.
LEMMA EndedCall ==
  ASSUME IInv, NEW c \in Caller, call' = [call EXCEPT ![c] = Idle]
  PROVE  /\ call' \in [Caller -> CallState]
         /\ \A d \in Caller : call'[d] = call[d] \/ call'[d] = Idle
<1>1. Idle \in CallState
  BY DEF Idle, CallState
<1>2. QED
  BY <1>1 DEF IInv, TypeOK

\* The unguarded UPDATE of retry() keeps the budget although the row may have
\* changed since it was read, because max_attempts has not.
LEMMA RetryWriteIInv ==
  ASSUME IInv, NEW c \in Caller, NEW d \in Delays, RetryWrite(c, d)
  PROVE  IInv'
<1> DEFINE j == call[c].job
           seen == call[c]
<1>1. /\ j \in Job /\ Present(j) /\ jobs[j] \in Row /\ seen \in CallState
      /\ seen.attempts < seen.limit /\ seen.limit = jobs[j].limit
  BY DEF RetryWrite, IInv, TypeOK, CallsInFlight
<1>2. /\ seen.attempts \in Nat /\ seen.limit \in Nat /\ d \in Nat
      /\ jobs' = [jobs EXCEPT ![j] = RetriedRow(jobs[j], seen, d)]
      /\ call' = [call EXCEPT ![c] = Idle] /\ UNCHANGED inserted
  BY <1>1, StoreAssumption DEF RetryWrite, CallState
<1>3. PICK s \in {"FAILED", "QUEUED"} :
        s = IF seen.attempts + 1 >= seen.limit THEN "FAILED" ELSE "QUEUED"
  OBVIOUS
<1>4. PICK f : f = Freed(jobs[j], s)
  OBVIOUS
<1>5. /\ f \in Row /\ f.state = s /\ f.owner = NoWorker /\ f.lease = Null
      /\ SamePlace(f, jobs[j])
  <2>1. s \in JobState
    BY StateNames
  <2>2. QED
    BY <1>1, <1>4, <2>1, FreedFields
<1>6. PICK q : q = [f EXCEPT !.attempts = seen.attempts + 1,
                     !.retryAt = IF seen.attempts + 1 >= seen.limit THEN Null ELSE d]
  OBVIOUS
<1>7. q = RetriedRow(jobs[j], seen, d)
  BY <1>3, <1>4, <1>6 DEF RetriedRow
<1>8. q = [state |-> f.state, priority |-> f.priority, created |-> f.created,
           attempts |-> seen.attempts + 1, limit |-> f.limit,
           retryAt |-> IF seen.attempts + 1 >= seen.limit THEN Null ELSE d,
           progress |-> f.progress, owner |-> f.owner, lease |-> f.lease,
           parent |-> f.parent]
  BY <1>5, <1>6 DEF Row
<1>9. q \in Row
  BY <1>2, <1>5, <1>8 DEF Row
<1>10. GoodRow(q) /\ SamePlace(q, jobs[j])
  <2>1. s \notin Owned /\ s # "ABSENT" /\ s # "VERIFYING" /\ s # "COMPLETED"
    BY DEF Owned
  <2>2. "FAILED" \notin Live
    BY DEF Live
  <2>3. SamePlace(q, jobs[j]) /\ q.limit = seen.limit
    BY <1>1, <1>5, <1>8 DEF SamePlace
  <2>4. q.attempts = seen.attempts + 1 /\ q.state = s /\ q.owner = NoWorker /\ q.lease = Null
    BY <1>5, <1>8
  <2>5. QED
    BY <1>1, <1>2, <1>3, <1>9, <2>1, <2>2, <2>3, <2>4 DEF GoodRow
<1> HIDE DEF j, seen
<1> QED
  BY <1>1, <1>2, <1>7, <1>10, EndedCall, UpdateRow

LEMMA CallEndIInv ==
  ASSUME IInv, NEW c \in Caller, CallEnd(c)
  PROVE  IInv'
<1>1. ASSUME NEW j \in Job, NEW p \in Priorities, NEW m \in Limits,
             EnqueueWrite(c, j, p, m)
      PROVE  IInv'
  <2>1. call[c].job \in Job /\ Present(call[c].job)
    BY <1>1 DEF EnqueueWrite, IInv, CallsInFlight
  <2>2. Insert(j, call[c].job, p, m) /\ call' = [call EXCEPT ![c] = Idle]
    BY <1>1 DEF EnqueueWrite
  <2>3. QED
    BY <2>1, <2>2, EndedCall, InsertIInv
<1>2. ASSUME NEW d \in Delays, RetryWrite(c, d)
      PROVE  IInv'
  BY <1>2, RetryWriteIInv
<1> QED
  BY <1>1, <1>2 DEF CallEnd

LEMMA AbandonIInv ==
  ASSUME IInv, NEW c \in Caller, Abandon(c)
  PROVE  IInv'
<1>1. call' = [call EXCEPT ![c] = Idle] /\ UNCHANGED <<jobs, inserted>>
  BY DEF Abandon
<1>2. jobs' = [j \in Job |-> jobs'[j]]
  BY <1>1 DEF IInv, TypeOK
<1> QED
  BY <1>1, <1>2, EndedCall, UpdateRows

-----------------------------------------------------------------------------
(* The invariant *)

LEMMA JobOpIInv ==
  ASSUME IInv, NEW j \in Job, JobOp(j)
  PROVE  IInv'
<1>1. ASSUME NEW p \in Priorities, NEW m \in Limits, Enqueue(j, p, m)
      PROVE  IInv'
  BY <1>1, InsertIInv DEF Enqueue, IInv, TypeOK
<1>2. CASE Pause(j)
  BY <1>2, FreedIInv DEF Pause, Live
<1>3. CASE Resume(j)
  BY <1>3, ResumeIInv
<1>4. CASE Cancel(j)
  BY <1>4, FreedIInv DEF Cancel
<1>5. ASSUME NEW w \in WorkerId,
             \/ Claim(j, w)
             \/ RenewLease(j, w)
             \/ \E p \in 0..Full : UpdateProgress(j, w, p)
             \/ BeginVerification(j, w)
             \/ CompleteVerification(j, w)
             \/ Complete(j, w)
             \/ Fail(j, w)
      PROVE  IInv'
  <2>1. CASE Claim(j, w)
    BY <2>1, ClaimIInv
  <2>2. CASE RenewLease(j, w)
    BY <2>2, RenewLeaseIInv
  <2>3. CASE \E p \in 0..Full : UpdateProgress(j, w, p)
    BY <2>3, UpdateProgressIInv
  <2>4. CASE BeginVerification(j, w)
    BY <2>4, BeginVerificationIInv
  <2>5. CASE CompleteVerification(j, w)
    BY <2>5, CompletedIInv DEF CompleteVerification, VerifyingBy, Owned
  <2>6. CASE Complete(j, w)
    BY <2>6, CompletedIInv DEF Complete, RunningBy, Owned
  <2>7. CASE Fail(j, w)
    BY <2>7, FailIInv
  <2> QED
    BY <1>5, <2>1, <2>2, <2>3, <2>4, <2>5, <2>6, <2>7
<1> QED
  BY <1>1, <1>2, <1>3, <1>4, <1>5 DEF JobOp

LEMMA StutterIInv == IInv /\ UNCHANGED vars => IInv'
BY DEF IInv, vars, TypeOK, OwnershipColumns, RetryBudget, ParentsFirst,
       ProgressHonest, CallsInFlight, CreatedInOrder, Present

LEMMA NextIInv == IInv /\ [Next]_vars => IInv'
BY JobOpIInv, CallStartIInv, CallEndIInv, AbandonIInv, RecoverIInv, TickIInv,
   StutterIInv
   DEF Next

\* IInv holds in every reachable state of the store.
THEOREM Invariance == Spec => []IInv
BY InitIInv, NextIInv, PTL DEF Spec

\* Every variable keeps its type.
THEOREM TypeCorrect == Spec => []TypeOK
BY Invariance, PTL DEF IInv

\* No job is retried beyond max_attempts, and none that can still run has used
\* its last attempt, whatever interleaves with the two statements of retry().
THEOREM BudgetKept == Spec => []RetryBudget
BY Invariance, PTL DEF IInv

\* worker_id and lease_until always agree with the state.
THEOREM OwnershipAgrees == Spec => []OwnershipColumns
BY Invariance, PTL DEF IInv

\* Parents are inserted before their children.
THEOREM Forest == Spec => []ParentsFirst
BY Invariance, PTL DEF IInv

\* Verification is never shown as finished before it is.
THEOREM HonestProgress == Spec => []ProgressHonest
BY Invariance, PTL DEF IInv

-----------------------------------------------------------------------------
(* What a step of the store may do to a row; and each step of the serial      *)
(* store is a step of JobContract for the row it writes, or a stutter.        *)

\* An owner is not replaced by another one.
OwnerKept(old, new) ==
  old.owner # NoWorker /\ new.owner # NoWorker => new.owner = old.owner

\* An ended job stays ended.
EndKept(old, new) == old.state \in Terminal => new.state \in Terminal

Kept(old, new) == OwnerKept(old, new) /\ EndKept(old, new)

\* A step that writes one row keeps all rows if it keeps that one.
LEMMA OneRowKept ==
  ASSUME IInv, NEW j \in Job, NEW r, jobs' = [jobs EXCEPT ![j] = r], Kept(jobs[j], r)
  PROVE  \A i \in Job : Kept(jobs[i], jobs'[i])
<1> TAKE i \in Job
<1>1. CASE i = j
  BY <1>1 DEF IInv, TypeOK
<1>2. CASE i # j
  BY <1>2 DEF IInv, TypeOK, Kept, OwnerKept, EndKept
<1> QED
  BY <1>1, <1>2

\* An UPDATE that frees the claim of a job that may still run keeps its row.
LEMMA FreeingKept ==
  ASSUME NEW r \in Row, NEW s \in JobState, r.state \in Live, NEW q,
         q.owner = NoWorker
  PROVE  Kept(r, q)
BY DEF Kept, OwnerKept, EndKept, Live, Terminal

\* So does one that leaves the owner in place or takes it away.
LEMMA OwnedRowKept ==
  ASSUME IInv, NEW j \in Job, NEW q, jobs[j].state \in Owned,
         jobs' = [jobs EXCEPT ![j] = q], q.owner \in {NoWorker, jobs[j].owner}
  PROVE  \A i \in Job : Kept(jobs[i], jobs'[i])
<1>1. jobs[j].state \notin Terminal
  BY DEF Owned, Terminal
<1> QED
  BY <1>1, OneRowKept DEF Kept, OwnerKept, EndKept

\* Every operation that names its job keeps all rows.
LEMMA JobOpKeeps ==
  ASSUME IInv, NEW j \in Job, JobOp(j)
  PROVE  \A i \in Job : Kept(jobs[i], jobs'[i])
<1>1. /\ jobs[j] \in Row
      /\ jobs[j].owner # NoWorker <=> jobs[j].state \in Owned
  BY DEF IInv, TypeOK, OwnershipColumns
<1>2. ASSUME NEW p \in Priorities, NEW m \in Limits, Enqueue(j, p, m)
      PROVE  \A i \in Job : Kept(jobs[i], jobs'[i])
  <2>1. jobs[j].state \notin Owned \cup Terminal
    BY <1>2 DEF Enqueue, Insert, Present, Owned, Terminal
  <2>2. Kept(jobs[j], NewRow(NoJob, p, m))
    BY <1>1, <2>1 DEF Kept, OwnerKept, EndKept
  <2>3. QED
    BY <1>2, <2>2, OneRowKept DEF Enqueue, Insert
<1>3. CASE Pause(j)
  <2>1. Freed(jobs[j], "PAUSED").owner = NoWorker
    BY <1>1, FreedFields, StateNames
  <2>2. QED
    BY <1>1, <1>3, <2>1, StateNames, FreeingKept, OneRowKept DEF Pause, Live
<1>4. CASE Cancel(j)
  <2>1. Freed(jobs[j], "CANCELLED").owner = NoWorker
    BY <1>1, FreedFields, StateNames
  <2>2. QED
    BY <1>1, <1>4, <2>1, StateNames, FreeingKept, OneRowKept DEF Cancel
<1>5. CASE Resume(j)
  <2>1. PICK q : q = [jobs[j] EXCEPT !.state = "QUEUED", !.retryAt = Null]
    OBVIOUS
  <2>2. jobs[j].state = "PAUSED" /\ jobs' = [jobs EXCEPT ![j] = q]
    BY <1>5, <2>1 DEF Resume
  <2>3. jobs[j].owner = NoWorker /\ jobs[j].state \notin Terminal
    BY <1>1, <2>2 DEF Owned, Terminal
  <2>4. QED
    BY <2>2, <2>3, OneRowKept DEF Kept, OwnerKept, EndKept
<1>6. ASSUME NEW w \in WorkerId, Claim(j, w)
      PROVE  \A i \in Job : Kept(jobs[i], jobs'[i])
  <2>1. PICK q : q = [jobs[j] EXCEPT !.state = "RUNNING", !.owner = w,
                                     !.lease = LeaseSeconds]
    OBVIOUS
  <2>2. jobs[j].state = "QUEUED" /\ jobs' = [jobs EXCEPT ![j] = q]
    BY <1>6, <2>1 DEF Claim, Runnable
  <2>3. jobs[j].owner = NoWorker /\ jobs[j].state \notin Terminal
    BY <1>1, <2>2 DEF Owned, Terminal
  <2>4. QED
    BY <2>2, <2>3, OneRowKept DEF Kept, OwnerKept, EndKept
<1>7. ASSUME NEW w \in WorkerId, RenewLease(j, w)
      PROVE  \A i \in Job : Kept(jobs[i], jobs'[i])
  <2>1. PICK q : q = [jobs[j] EXCEPT !.lease = LeaseSeconds]
    OBVIOUS
  <2>2. q.owner = jobs[j].owner
    BY <1>1, <2>1 DEF Row
  <2>3. jobs[j].state \in Owned /\ jobs' = [jobs EXCEPT ![j] = q]
    BY <1>7, <2>1 DEF RenewLease, RunningBy, Owned
  <2>4. QED
    BY <2>2, <2>3, OwnedRowKept
<1>8. ASSUME NEW w \in WorkerId, NEW p \in 0..Full, UpdateProgress(j, w, p)
      PROVE  \A i \in Job : Kept(jobs[i], jobs'[i])
  <2>1. PICK q : q = [jobs[j] EXCEPT !.progress = p]
    OBVIOUS
  <2>2. q.owner = jobs[j].owner
    BY <1>1, <2>1 DEF Row
  <2>3. jobs[j].state \in Owned /\ jobs' = [jobs EXCEPT ![j] = q]
    BY <1>8, <2>1 DEF UpdateProgress, RunningBy, Owned
  <2>4. QED
    BY <2>2, <2>3, OwnedRowKept
<1>9. ASSUME NEW w \in WorkerId, BeginVerification(j, w)
       PROVE  \A i \in Job : Kept(jobs[i], jobs'[i])
  <2>1. PICK q : q = [jobs[j] EXCEPT !.state = "VERIFYING",
                        !.progress = IF jobs[j].progress > Capped THEN Capped
                                     ELSE jobs[j].progress]
    OBVIOUS
  <2>2. q.owner = jobs[j].owner
    BY <1>1, <2>1 DEF Row
  <2>3. jobs[j].state \in Owned /\ jobs' = [jobs EXCEPT ![j] = q]
    BY <1>9, <2>1 DEF BeginVerification, RunningBy, Owned
  <2>4. QED
    BY <2>2, <2>3, OwnedRowKept
<1>10. ASSUME NEW w \in WorkerId, CompleteVerification(j, w) \/ Complete(j, w)
       PROVE  \A i \in Job : Kept(jobs[i], jobs'[i])
  <2>1. PICK q : q = [Freed(jobs[j], "COMPLETED") EXCEPT !.progress = Full]
    OBVIOUS
  <2>2. q.owner = NoWorker
    BY <1>1, <2>1, FreedFields, StateNames DEF Row
  <2>3. jobs[j].state \in Owned /\ jobs' = [jobs EXCEPT ![j] = q]
    BY <1>10, <2>1 DEF CompleteVerification, Complete, VerifyingBy,
           RunningBy, Owned
  <2>4. QED
    BY <2>2, <2>3, OwnedRowKept
<1>11. ASSUME NEW w \in WorkerId, Fail(j, w)
       PROVE  \A i \in Job : Kept(jobs[i], jobs'[i])
  <2>1. PICK q : q = [Freed(jobs[j], "FAILED") EXCEPT !.attempts = jobs[j].attempts + 1]
    OBVIOUS
  <2>2. q.owner = NoWorker
    BY <1>1, <2>1, FreedFields, StateNames DEF Row
  <2>3. jobs[j].state \in Owned /\ jobs' = [jobs EXCEPT ![j] = q]
    BY <1>11, <2>1 DEF Fail, OwnedBy, Owned
  <2>4. QED
    BY <2>2, <2>3, OwnedRowKept
<1> QED
  BY <1>2, <1>3, <1>4, <1>5, <1>6, <1>7, <1>8, <1>9, <1>10, <1>11 DEF JobOp


\* Recovery frees claims, and time passes for all rows alike.
LEMMA TableKept ==
  ASSUME IInv, RecoverExpiredLeases \/ Tick
  PROVE  \A i \in Job : Kept(jobs[i], jobs'[i])
<1> SUFFICES ASSUME NEW i \in Job PROVE Kept(jobs[i], jobs'[i])
  OBVIOUS
<1>1. jobs[i] \in Row
  BY DEF IInv, TypeOK
<1>2. CASE RecoverExpiredLeases /\ Lapsed(i)
  <2>1. PICK q : q = [Freed(jobs[i], "QUEUED") EXCEPT !.retryAt = 0]
    OBVIOUS
  <2>2. q.owner = NoWorker
    BY <1>1, <2>1, FreedFields, StateNames DEF Row
  <2>3. jobs'[i] = q
    BY <1>2, <2>1 DEF RecoverExpiredLeases
  <2>4. jobs[i].state \in Live
    BY <1>2 DEF Lapsed, Owned, Live
  <2>5. QED
    BY <1>1, <2>2, <2>3, <2>4, FreeingKept, StateNames
<1>3. CASE RecoverExpiredLeases /\ ~Lapsed(i)
  <2>1. jobs'[i] = jobs[i]
    BY <1>3 DEF RecoverExpiredLeases
  <2>2. QED
    BY <2>1 DEF Kept, OwnerKept, EndKept
<1>4. CASE Tick
  <2>1. jobs'[i].owner = jobs[i].owner /\ jobs'[i].state = jobs[i].state
    BY <1>1, <1>4 DEF Tick, Row
  <2>2. QED
    BY <2>1 DEF Kept, OwnerKept, EndKept
<1> QED
  BY <1>2, <1>3, <1>4

\* The two-statement methods: an INSERT keeps all rows, and the UPDATE of a
\* retry keeps all but the row it writes, whose claim it frees.
LEMMA CallKeeps ==
  ASSUME IInv, NEW c \in Caller, CallStart(c) \/ CallEnd(c) \/ Abandon(c)
  PROVE  \A i \in Job :
           /\ OwnerKept(jobs[i], jobs'[i])
           /\ \/ EndKept(jobs[i], jobs'[i])
              \/ call[c].at = "retry" /\ call[c].job = i /\ call'[c] = Idle
<1>1. CASE CallStart(c) \/ Abandon(c)
  <2>1. jobs' = jobs
    BY <1>1 DEF CallStart, EnqueueRead, RetryRead, Abandon
  <2>2. QED
    BY <2>1 DEF OwnerKept, EndKept
<1>2. ASSUME NEW j \in Job, NEW p \in Priorities, NEW m \in Limits,
             EnqueueWrite(c, j, p, m)
      PROVE  \A i \in Job : Kept(jobs[i], jobs'[i])
  <2>1. /\ jobs[j].state = "ABSENT"
        /\ jobs' = [jobs EXCEPT ![j] = NewRow(call[c].job, p, m)]
    BY <1>2 DEF EnqueueWrite, Insert, Present
  <2>2. jobs[j].owner = NoWorker /\ jobs[j].state \notin Terminal
    BY <2>1 DEF IInv, OwnershipColumns, Owned, Terminal
  <2>3. QED
    BY <2>1, <2>2, OneRowKept DEF Kept, OwnerKept, EndKept
<1>3. ASSUME NEW d \in Delays, RetryWrite(c, d), NEW i \in Job
      PROVE  /\ OwnerKept(jobs[i], jobs'[i])
             /\ \/ EndKept(jobs[i], jobs'[i])
                \/ call[c].at = "retry" /\ call[c].job = i /\ call'[c] = Idle
  <2>1. /\ call[c].at = "retry" /\ call'[c] = Idle
        /\ jobs' = [jobs EXCEPT ![call[c].job] = RetriedRow(@, call[c], d)]
    BY <1>3 DEF RetryWrite, IInv, TypeOK
  <2>2. CASE i # call[c].job
    <3>1. jobs'[i] = jobs[i]
      BY <2>1, <2>2 DEF IInv, TypeOK
    <3>2. QED
      BY <3>1 DEF OwnerKept, EndKept
  <2>3. CASE i = call[c].job
    <3>1. PICK s \in {"FAILED", "QUEUED"} :
            s = IF call[c].attempts + 1 >= call[c].limit THEN "FAILED" ELSE "QUEUED"
      OBVIOUS
    <3>2. PICK f : f = Freed(jobs[i], s)
      OBVIOUS
    <3>3. f \in Row /\ f.owner = NoWorker
      <4>1. jobs[i] \in Row /\ s \in JobState
        BY StateNames DEF IInv, TypeOK
      <4>2. QED
        BY <3>2, <4>1, FreedFields
    <3>4. PICK q : q = [f EXCEPT !.attempts = call[c].attempts + 1,
                         !.retryAt = IF call[c].attempts + 1 >= call[c].limit
                                     THEN Null ELSE d]
      OBVIOUS
    <3>5. q.owner = NoWorker
      BY <3>3, <3>4 DEF Row
    <3>6. q = RetriedRow(jobs[i], call[c], d)
      BY <3>1, <3>2, <3>4 DEF RetriedRow
    <3>7. jobs'[i] = q
      BY <2>1, <2>3, <3>6 DEF IInv, TypeOK
    <3>8. QED
      BY <2>1, <2>3, <3>5, <3>7 DEF OwnerKept
  <2>4. QED
    BY <2>2, <2>3
<1> QED
  BY <1>1, <1>2, <1>3 DEF CallEnd, Kept

-----------------------------------------------------------------------------

LEMMA StepKeeps ==
  ASSUME IInv, [Next]_vars
  PROVE  \A i \in Job :
           /\ OwnerKept(jobs[i], jobs'[i])
           /\ \/ EndKept(jobs[i], jobs'[i])
              \/ \E c \in Caller : /\ call[c].at = "retry" /\ call[c].job = i
                                   /\ call'[c] = Idle
<1>1. CASE UNCHANGED vars
  BY <1>1 DEF vars, OwnerKept, EndKept
<1>2. CASE \E j \in Job : JobOp(j)
  BY <1>2, JobOpKeeps DEF Kept
<1>3. CASE \E c \in Caller : CallStart(c) \/ CallEnd(c) \/ Abandon(c)
  BY <1>3, CallKeeps
<1>4. CASE RecoverExpiredLeases \/ Tick
  BY <1>4, TableKept DEF Kept
<1> QED
  BY <1>1, <1>2, <1>3, <1>4 DEF Next

\* A job that one worker owns is never owned by another in the next state, so
\* two workers never meet in the row: claims change hands in the queue.
THEOREM HandoverThroughQueue == Spec => NoDirectHandover
<1>1. IInv /\ [Next]_vars =>
        [\A j \in Job : jobs[j].owner # NoWorker /\ jobs'[j].owner # NoWorker =>
           jobs'[j].owner = jobs[j].owner]_vars
  BY StepKeeps DEF OwnerKept
<1> QED
  BY <1>1, Invariance, PTL DEF Spec, NoDirectHandover

\* An ended job comes back only with the second statement of a retry, whatever
\* the callers do and however many they are.
THEOREM EndedStaysEnded == Spec => LeavesTerminalByRetryOnly
<1>1. IInv /\ [Next]_vars =>
        [\A j \in Job : jobs[j].state \in Terminal /\ jobs'[j].state \notin Terminal =>
           \E c \in Caller : call[c].at = "retry" /\ call[c].job = j /\ call'[c] = Idle]_vars
  BY StepKeeps DEF EndKept
<1> QED
  BY <1>1, Invariance, PTL DEF Spec, LeavesTerminalByRetryOnly


-----------------------------------------------------------------------------
(* What the contract sees of a write to one row.                              *)

LEMMA StutterView ==
  ASSUME IInv, NEW j \in Job, NEW r, jobs' = [jobs EXCEPT ![j] = r],
         Phase(r) = Phase(jobs[j]), r.owner = jobs[j].owner,
         r.attempts = jobs[j].attempts, r.limit = jobs[j].limit
  PROVE  UNCHANGED Contract!contractVars
BY DEF IInv, TypeOK, Contract!contractVars

LEMMA SubmitView ==
  ASSUME IInv, NEW j \in Job, NEW r, jobs' = [jobs EXCEPT ![j] = r],
         Phase(jobs[j]) = "absent", Phase(r) = "waiting", r.owner = jobs[j].owner,
         r.attempts = jobs[j].attempts, r.limit \in Limits
  PROVE  Contract!Submit(j)
BY DEF IInv, TypeOK, Contract!Submit

LEMMA TakeView ==
  ASSUME IInv, NEW j \in Job, NEW r, jobs' = [jobs EXCEPT ![j] = r],
         Phase(jobs[j]) = "waiting", Phase(r) = "held", r.owner \in WorkerId,
         r.attempts = jobs[j].attempts, r.limit = jobs[j].limit
  PROVE  Contract!Take(j)
BY DEF IInv, TypeOK, Contract!Take

\* A job that ends, by success or withdrawal, at no charge.
LEMMA EndView ==
  ASSUME IInv, NEW j \in Job, NEW r, jobs' = [jobs EXCEPT ![j] = r],
         r.owner = NoWorker,
         r.attempts = jobs[j].attempts, r.limit = jobs[j].limit
  PROVE  /\ Phase(jobs[j]) = "held" /\ Phase(r) = "succeeded" => Contract!Succeed(j)
         /\ Phase(jobs[j]) \in {"waiting", "held"} /\ Phase(r) = "stopped"
              => Contract!Withdraw(j)
BY DEF IInv, TypeOK, Contract!Succeed, Contract!Withdraw

\* A claim that is given back with one attempt more.
LEMMA ChargeView ==
  ASSUME IInv, NEW j \in Job, NEW r, jobs' = [jobs EXCEPT ![j] = r],
         Phase(jobs[j]) = "held", r.owner = NoWorker,
         r.attempts = jobs[j].attempts + 1, r.limit = jobs[j].limit
  PROVE  /\ Phase(r) = "waiting" /\ r.attempts < r.limit => Contract!Requeue(j)
         /\ Phase(r) = "stopped" /\ jobs[j].attempts < jobs[j].limit => Contract!GiveUp(j)
BY DEF IInv, TypeOK, Contract!Requeue, Contract!GiveUp

\* Claims that go back to the queue, one or several, at no charge.
LEMMA ReclaimView ==
  ASSUME NEW S \in SUBSET Job,
         \A i \in S : /\ Phase(jobs[i]) = "held" /\ Phase(jobs'[i]) = "waiting"
                      /\ jobs'[i].owner = NoWorker,
         \A i \in Job \ S : Phase(jobs'[i]) = Phase(jobs[i]) /\ jobs'[i].owner = jobs[i].owner,
         \A i \in Job : jobs'[i].attempts = jobs[i].attempts /\ jobs'[i].limit = jobs[i].limit
  PROVE  Contract!Reclaim(S)
BY DEF Contract!Reclaim

\* The phase of a row follows from its state.
LEMMA PhaseOfState ==
  ASSUME NEW r
  PROVE  /\ r.state = "ABSENT" => Phase(r) = "absent"
         /\ r.state \in {"QUEUED", "PAUSED"} => Phase(r) = "waiting"
         /\ r.state \in Owned => Phase(r) = "held"
         /\ r.state = "COMPLETED" => Phase(r) = "succeeded"
         /\ r.state \in {"FAILED", "CANCELLED"} => Phase(r) = "stopped"
BY DEF Phase, Owned

-----------------------------------------------------------------------------
(* The operations.                                                            *)

\* Both forms of enqueue submit a job.
LEMMA InsertRefines ==
  ASSUME IInv, NEW j \in Job, NEW parent, NEW priority, NEW limit \in Limits,
         Insert(j, parent, priority, limit)
  PROVE  Contract!Submit(j)
<1>1. jobs[j] = NoRow /\ jobs[j].state = "ABSENT"
  BY DEF Insert, IInv, CreatedInOrder, Present
<1>2. PICK r : r = NewRow(parent, priority, limit)
  OBVIOUS
<1>3. r.state = "QUEUED" /\ r.owner = NoWorker /\ r.attempts = 0 /\ r.limit = limit
  BY <1>2 DEF NewRow, NoRow
<1>4. jobs[j].owner = NoWorker /\ jobs[j].attempts = 0
  BY <1>1 DEF NoRow
<1> QED
  BY <1>1, <1>2, <1>3, <1>4, PhaseOfState, SubmitView DEF Insert

LEMMA ClaimRefines ==
  ASSUME IInv, NEW j \in Job, NEW w \in WorkerId, Claim(j, w)
  PROVE  Contract!Take(j)
<1>1. PICK r : r = [jobs[j] EXCEPT !.state = "RUNNING", !.owner = w,
                                   !.lease = LeaseSeconds]
  OBVIOUS
<1>2. jobs[j].state = "QUEUED" /\ jobs' = [jobs EXCEPT ![j] = r]
  BY <1>1 DEF Claim, Runnable
<1>3. /\ r.state = "RUNNING" /\ r.owner = w
      /\ r.attempts = jobs[j].attempts /\ r.limit = jobs[j].limit
  BY <1>1 DEF IInv, TypeOK, Row
<1> QED
  BY <1>2, <1>3, PhaseOfState, TakeView DEF Owned

\* Renewal, progress and the step into verification stay inside the claim.
LEMMA HoldRefines ==
  ASSUME IInv, NEW j \in Job, NEW w \in WorkerId,
         \/ RenewLease(j, w) \/ BeginVerification(j, w)
         \/ \E p \in 0..Full : UpdateProgress(j, w, p)
  PROVE  UNCHANGED Contract!contractVars
<1>1. PICK r : /\ jobs' = [jobs EXCEPT ![j] = r] /\ r.state \in Owned
               /\ r.owner = jobs[j].owner
               /\ r.attempts = jobs[j].attempts /\ r.limit = jobs[j].limit
  <2>1. jobs[j] \in Row /\ jobs[j].state = "RUNNING"
    BY DEF IInv, TypeOK, RenewLease, BeginVerification, UpdateProgress, RunningBy
  <2>2. CASE RenewLease(j, w)
    <3>1. PICK q : q = [jobs[j] EXCEPT !.lease = LeaseSeconds]
      OBVIOUS
    <3>2. /\ q.state \in Owned /\ q.owner = jobs[j].owner
          /\ q.attempts = jobs[j].attempts /\ q.limit = jobs[j].limit
      BY <2>1, <3>1 DEF Row, Owned
    <3>3. QED
      BY <2>2, <3>1, <3>2 DEF RenewLease
  <2>3. CASE BeginVerification(j, w)
    <3>1. PICK q : q = [jobs[j] EXCEPT !.state = "VERIFYING",
                         !.progress = IF jobs[j].progress > Capped THEN Capped
                                      ELSE jobs[j].progress]
      OBVIOUS
    <3>2. /\ q.state \in Owned /\ q.owner = jobs[j].owner
          /\ q.attempts = jobs[j].attempts /\ q.limit = jobs[j].limit
      BY <2>1, <3>1 DEF Row, Owned
    <3>3. QED
      BY <2>3, <3>1, <3>2 DEF BeginVerification
  <2>4. CASE \E p \in 0..Full : UpdateProgress(j, w, p)
    <3>1. PICK p \in 0..Full : UpdateProgress(j, w, p)
      BY <2>4
    <3>2. PICK q : q = [jobs[j] EXCEPT !.progress = p]
      OBVIOUS
    <3>3. /\ q.state \in Owned /\ q.owner = jobs[j].owner
          /\ q.attempts = jobs[j].attempts /\ q.limit = jobs[j].limit
      BY <2>1, <3>2 DEF Row, Owned
    <3>4. QED
      BY <3>1, <3>2, <3>3 DEF UpdateProgress
  <2> QED
    BY <2>2, <2>3, <2>4
<1>2. jobs[j].state \in Owned
  BY DEF RenewLease, BeginVerification, UpdateProgress, RunningBy, Owned
<1> QED
  BY <1>1, <1>2, PhaseOfState, StutterView

\* Completion, by either method, is the success of a holder.
LEMMA CompletedRefines ==
  ASSUME IInv, NEW j \in Job, NEW w \in WorkerId,
         CompleteVerification(j, w) \/ Complete(j, w)
  PROVE  Contract!Succeed(j)
<1>1. /\ jobs[j].state \in Owned
      /\ jobs' = [jobs EXCEPT ![j] = [Freed(@, "COMPLETED") EXCEPT !.progress = Full]]
  BY DEF CompleteVerification, Complete, VerifyingBy, RunningBy, Owned
<1>2. PICK f : f = Freed(jobs[j], "COMPLETED")
  OBVIOUS
<1>3. /\ f \in Row /\ f.state = "COMPLETED" /\ f.owner = NoWorker
      /\ f.attempts = jobs[j].attempts /\ f.limit = jobs[j].limit
  BY <1>2, FreedFields, StateNames DEF IInv, TypeOK, SamePlace
<1>4. PICK r : r = [f EXCEPT !.progress = Full]
  OBVIOUS
<1>5. /\ r.state = "COMPLETED" /\ r.owner = NoWorker
      /\ r.attempts = jobs[j].attempts /\ r.limit = jobs[j].limit
  BY <1>3, <1>4 DEF Row
<1>6. jobs' = [jobs EXCEPT ![j] = r]
  BY <1>1, <1>2, <1>4
<1> QED
  BY <1>1, <1>5, <1>6, PhaseOfState, EndView

\* A pause takes the job from its holder at no charge.
LEMMA PauseRefines ==
  ASSUME IInv, NEW j \in Job, Pause(j)
  PROVE  Contract!Reclaim({j})
<1>1. PICK f : f = Freed(jobs[j], "PAUSED")
  OBVIOUS
<1>2. /\ f.state = "PAUSED" /\ f.owner = NoWorker
      /\ f.attempts = jobs[j].attempts /\ f.limit = jobs[j].limit
  BY <1>1, FreedFields, StateNames DEF IInv, TypeOK, SamePlace
<1>3. jobs[j].state \in Owned /\ jobs' = [jobs EXCEPT ![j] = f]
  BY <1>1 DEF Pause, Owned
<1>4. jobs'[j] = f /\ \A i \in Job \ {j} : jobs'[i] = jobs[i]
  BY <1>3 DEF IInv, TypeOK
<1> QED
  BY <1>2, <1>3, <1>4, PhaseOfState, ReclaimView

LEMMA ResumeRefines ==
  ASSUME IInv, NEW j \in Job, Resume(j)
  PROVE  UNCHANGED Contract!contractVars
<1>1. PICK r : r = [jobs[j] EXCEPT !.state = "QUEUED", !.retryAt = Null]
  OBVIOUS
<1>2. jobs[j].state = "PAUSED" /\ jobs' = [jobs EXCEPT ![j] = r]
  BY <1>1 DEF Resume
<1>3. /\ r.state = "QUEUED" /\ r.owner = jobs[j].owner
      /\ r.attempts = jobs[j].attempts /\ r.limit = jobs[j].limit
  BY <1>1 DEF IInv, TypeOK, Row
<1> QED
  BY <1>2, <1>3, PhaseOfState, StutterView

LEMMA CancelRefines ==
  ASSUME IInv, NEW j \in Job, Cancel(j)
  PROVE  Contract!Withdraw(j)
<1>1. PICK f : f = Freed(jobs[j], "CANCELLED")
  OBVIOUS
<1>2. /\ f.state = "CANCELLED" /\ f.owner = NoWorker
      /\ f.attempts = jobs[j].attempts /\ f.limit = jobs[j].limit
  BY <1>1, FreedFields, StateNames DEF IInv, TypeOK, SamePlace
<1>3. jobs' = [jobs EXCEPT ![j] = f] /\ Phase(jobs[j]) \in {"waiting", "held"}
  BY <1>1, PhaseOfState DEF Cancel, Live, Owned
<1> QED
  BY <1>2, <1>3, PhaseOfState, EndView

\* fail() charges an attempt, which the budget has left.
LEMMA FailRefines ==
  ASSUME IInv, NEW j \in Job, NEW w \in WorkerId, Fail(j, w)
  PROVE  Contract!GiveUp(j)
<1>1. /\ jobs[j].state \in Owned
      /\ jobs' = [jobs EXCEPT ![j] = [Freed(@, "FAILED") EXCEPT
                                        !.attempts = jobs[j].attempts + 1]]
  BY DEF Fail, OwnedBy
<1>2. PICK f : f = Freed(jobs[j], "FAILED")
  OBVIOUS
<1>3. /\ f \in Row /\ f.state = "FAILED" /\ f.owner = NoWorker
      /\ f.limit = jobs[j].limit
  BY <1>2, FreedFields, StateNames DEF IInv, TypeOK, SamePlace
<1>4. PICK r : r = [f EXCEPT !.attempts = jobs[j].attempts + 1]
  OBVIOUS
<1>5. /\ r.state = "FAILED" /\ r.owner = NoWorker
      /\ r.attempts = jobs[j].attempts + 1 /\ r.limit = jobs[j].limit
  BY <1>3, <1>4 DEF Row
<1>6. jobs' = [jobs EXCEPT ![j] = r]
  BY <1>1, <1>2, <1>4
<1>7. jobs[j].attempts < jobs[j].limit
  BY <1>1 DEF IInv, RetryBudget, Owned, Live
<1> QED
  BY <1>1, <1>5, <1>6, <1>7, PhaseOfState, ChargeView

\* The recovery gives all lapsed claims back together.
LEMMA RecoverRefines ==
  ASSUME IInv, RecoverExpiredLeases
  PROVE  \E S \in SUBSET Job : Contract!Reclaim(S)
<1>1. ASSUME NEW j \in Job, Lapsed(j)
      PROVE  /\ Phase(jobs[j]) = "held" /\ Phase(jobs'[j]) = "waiting"
             /\ jobs'[j].owner = NoWorker
             /\ jobs'[j].attempts = jobs[j].attempts /\ jobs'[j].limit = jobs[j].limit
  <2>1. PICK f : f = Freed(jobs[j], "QUEUED")
    OBVIOUS
  <2>2. /\ f \in Row /\ f.state = "QUEUED" /\ f.owner = NoWorker
        /\ f.attempts = jobs[j].attempts /\ f.limit = jobs[j].limit
    BY <2>1, FreedFields, StateNames DEF IInv, TypeOK, SamePlace
  <2>3. PICK r : r = [f EXCEPT !.retryAt = 0]
    OBVIOUS
  <2>4. jobs'[j] = r
    BY <1>1, <2>1, <2>3 DEF RecoverExpiredLeases
  <2>5. /\ r.state = "QUEUED" /\ r.owner = NoWorker
        /\ r.attempts = jobs[j].attempts /\ r.limit = jobs[j].limit
    BY <2>2, <2>3 DEF Row
  <2> QED
    BY <1>1, <2>4, <2>5, PhaseOfState DEF Lapsed
<1>2. \A j \in Job : ~Lapsed(j) => jobs'[j] = jobs[j]
  BY DEF RecoverExpiredLeases
<1>3. PICK S \in SUBSET Job : \A j \in Job : j \in S <=> Lapsed(j)
  <2>1. {j \in Job : Lapsed(j)} \in SUBSET Job
    OBVIOUS
  <2> QED
    BY <2>1
<1> QED
  BY <1>1, <1>2, <1>3, ReclaimView

LEMMA TickRefines ==
  ASSUME IInv, Tick
  PROVE  UNCHANGED Contract!contractVars
<1>1. \A i \in Job : /\ jobs'[i].state = jobs[i].state /\ jobs'[i].owner = jobs[i].owner
                     /\ jobs'[i].attempts = jobs[i].attempts
                     /\ jobs'[i].limit = jobs[i].limit
  BY DEF Tick, IInv, TypeOK, Row
<1>2. \A i \in Job : Phase(jobs'[i]) = Phase(jobs[i])
  BY <1>1 DEF Phase
<1> QED
  BY <1>1, <1>2 DEF Contract!contractVars

\* The UPDATE of a retry whose reading still holds: the attempt is charged to
\* the holder, and the job waits again only while an attempt is left.
LEMMA RetryRefines ==
  ASSUME IInv, NEW c \in Caller, NEW d \in Delays, StillHolds(c), RetryWrite(c, d)
  PROVE  Contract!Next
<1>1. PICK j \in Job, seen \in CallState :
        /\ jobs[j] \in Row /\ jobs[j].state \in Owned
        /\ jobs[j].attempts = seen.attempts /\ jobs[j].limit = seen.limit
        /\ seen.attempts < seen.limit
        /\ jobs' = [jobs EXCEPT ![j] = RetriedRow(jobs[j], seen, d)]
  <2>1. /\ call[c].job \in Job /\ call[c] \in CallState
        /\ call[c].at = "retry" /\ call[c].attempts < call[c].limit
        /\ call[c].limit = jobs[call[c].job].limit
    BY DEF RetryWrite, IInv, TypeOK, CallsInFlight
  <2>2. /\ jobs[call[c].job].state \in Owned
        /\ jobs[call[c].job].attempts = call[c].attempts
    BY <2>1 DEF StillHolds, OwnedBy
  <2>3. jobs' = [jobs EXCEPT ![call[c].job] = RetriedRow(jobs[call[c].job], call[c], d)]
    BY <2>1 DEF RetryWrite
  <2> QED
    BY <2>1, <2>2, <2>3 DEF IInv, TypeOK
<1>2. PICK s \in {"FAILED", "QUEUED"} :
        s = IF seen.attempts + 1 >= seen.limit THEN "FAILED" ELSE "QUEUED"
  OBVIOUS
<1>3. PICK f : f = Freed(jobs[j], s)
  OBVIOUS
<1>4. f \in Row /\ f.state = s /\ f.owner = NoWorker /\ f.limit = jobs[j].limit
  <2>1. s \in JobState
    BY StateNames
  <2> QED
    BY <1>1, <1>3, <2>1, FreedFields DEF SamePlace
<1>5. PICK r : r = [f EXCEPT !.attempts = seen.attempts + 1,
                     !.retryAt = IF seen.attempts + 1 >= seen.limit THEN Null ELSE d]
  OBVIOUS
<1>6. r = RetriedRow(jobs[j], seen, d)
  BY <1>2, <1>3, <1>5 DEF RetriedRow
<1>7. /\ r.state = s /\ r.owner = NoWorker
      /\ r.attempts = jobs[j].attempts + 1 /\ r.limit = jobs[j].limit
  BY <1>1, <1>4, <1>5 DEF Row
<1>8. s = "QUEUED" => r.attempts < r.limit
  BY <1>1, <1>2, <1>7 DEF Row
<1>9. Contract!Requeue(j) \/ Contract!GiveUp(j)
  BY <1>1, <1>2, <1>6, <1>7, <1>8, PhaseOfState, ChargeView
<1> QED
  BY <1>1, <1>9 DEF Contract!Next, Contract!JobStep

-----------------------------------------------------------------------------

LEMMA JobOpRefines ==
  ASSUME IInv, NEW j \in Job, JobOp(j)
  PROVE  Contract!Next \/ UNCHANGED Contract!contractVars
<1>1. ASSUME NEW p \in Priorities, NEW m \in Limits, Enqueue(j, p, m)
      PROVE  Contract!Submit(j)
  BY <1>1, InsertRefines DEF Enqueue
<1>2. ASSUME NEW w \in WorkerId
      PROVE  /\ Claim(j, w) => Contract!Take(j)
             /\ Complete(j, w) \/ CompleteVerification(j, w) => Contract!Succeed(j)
             /\ Fail(j, w) => Contract!GiveUp(j)
             /\ \/ RenewLease(j, w) \/ BeginVerification(j, w)
                \/ \E p \in 0..Full : UpdateProgress(j, w, p)
                => UNCHANGED Contract!contractVars
  BY ClaimRefines, CompletedRefines, FailRefines, HoldRefines
<1>3. /\ Pause(j) => Contract!Reclaim({j})
      /\ Resume(j) => UNCHANGED Contract!contractVars
      /\ Cancel(j) => Contract!Withdraw(j)
  BY PauseRefines, ResumeRefines, CancelRefines
<1>4. {j} \in SUBSET Job
  OBVIOUS
<1> QED
  BY <1>1, <1>2, <1>3, <1>4 DEF JobOp, Contract!Next, Contract!JobStep

LEMMA StepRefines ==
  ASSUME IInv, [SerialNext]_vars
  PROVE  [Contract!Next]_(Contract!contractVars)
<1>1. ASSUME jobs' = jobs PROVE UNCHANGED Contract!contractVars
  BY <1>1 DEF Contract!contractVars
<1>2. CASE UNCHANGED vars
  BY <1>1, <1>2 DEF vars
<1>3. CASE \E j \in Job : JobOp(j)
  BY <1>3, JobOpRefines
<1>4. CASE \E c \in Caller : CallStart(c) \/ Abandon(c)
  BY <1>1, <1>4 DEF CallStart, EnqueueRead, RetryRead, Abandon
<1>5. CASE \E c \in Caller : StillHolds(c) /\ CallEnd(c)
  <2>1. PICK c \in Caller : StillHolds(c) /\ CallEnd(c)
    BY <1>5
  <2>2. ASSUME NEW j \in Job, NEW p \in Priorities, NEW m \in Limits,
               EnqueueWrite(c, j, p, m)
        PROVE  Contract!Next
    BY <2>2, InsertRefines DEF EnqueueWrite, Contract!Next, Contract!JobStep
  <2>3. ASSUME NEW d \in Delays, RetryWrite(c, d)
        PROVE  Contract!Next
    BY <2>1, <2>3, RetryRefines
  <2> QED
    BY <2>1, <2>2, <2>3 DEF CallEnd
<1>6. CASE RecoverExpiredLeases
  BY <1>6, RecoverRefines DEF Contract!Next
<1>7. CASE Tick
  BY <1>7, TickRefines
<1> QED
  BY <1>2, <1>3, <1>4, <1>5, <1>6, <1>7 DEF SerialNext

\* Without stale writes the store keeps its promise to callers: one holder at a
\* time, success only from the holder, an attempt charged only to a holder and
\* only while one is left, and an ended job never back in the queue.
THEOREM SerialStoreImplementsContract == SerialSpec => ImplementsContract
<1>1. Init => Contract!Init
  BY PhaseOfState DEF Init, NoRow, Contract!Init
<1>2. [SerialNext]_vars => [Next]_vars
  BY DEF SerialNext, Next
<1>3. SerialSpec => []IInv
  BY <1>2, InitIInv, NextIInv, PTL DEF SerialSpec
<1>4. IInv /\ [SerialNext]_vars => [Contract!Next]_(Contract!contractVars)
  BY StepRefines
<1> QED
  BY <1>1, <1>3, <1>4, PTL DEF SerialSpec, ImplementsContract, Contract!Spec
=============================================================================
