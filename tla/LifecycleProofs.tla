--------------------------- MODULE LifecycleProofs ---------------------------
(***************************************************************************)
(* Theorems about Lifecycle for any sources, roots and base names, any      *)
(* retention window, and any number of processes, edits and deaths.         *)
(***************************************************************************)
EXTENDS Lifecycle, TLAPS

\* The time that a copy has been there and the time that a row, or a cleaner
\* about to write one, still grants it make up the window.
Granted(q, due) == copy[q] # None /\ age[q] + due >= Retention

\* At a path that was never purged, rows, cleaners and purge plans speak of
\* the copy that is there.
WindowKept ==
  \A q \in Slot \ reused :
    /\ \A s \in Source : record[s].path = q => Granted(q, record[s].due)
    /\ \A k \in Cleaner : clean[k].at = "copied" /\ clean[k].path = q =>
         Granted(q, clean[k].due)
    /\ \A o \in Purger : q \in purge[o] => Granted(q, 0)

LifecycleInv == CopiesAccounted /\ WindowKept

LEMMA Constants == /\ None \notin Nat /\ Retention \in Nat
                   /\ <<>> \notin Slot
                   /\ \A s \in Source, r \in Root : PathFor(s, r) \in Slot /\ NameOf[s] \in Names
BY LifecycleAssumption DEF None, Slot, PathFor, Names

LEMMA Records ==
  ASSUME TypeOK, NEW s \in Source
  PROVE  /\ Recorded(s) => record[s] \in [path: Slot, sha: Content, due: 0..Retention, locked: BOOLEAN]
         /\ Recorded(s) <=> record[s].path \in Slot
         /\ ~Recorded(s) => record[s].path = <<>>
         /\ record[s].due \in 0..Retention
BY Constants DEF TypeOK, Recorded, NoRecord

LEMMA InvParts ==
  ASSUME LifecycleInv
  PROVE  /\ TypeOK /\ PathsUnshared /\ WindowKept
         /\ \A q \in Slot : copy[q] # None =>
              \/ \E s \in Source : record[s].path = q
              \/ \E k \in Cleaner : clean[k].at = "copied" /\ clean[k].path = q
              \/ orphan[q] # "no"
BY DEF LifecycleInv, CopiesAccounted

LEMMA InitInv == Init => LifecycleInv
<1> SUFFICES ASSUME Init PROVE LifecycleInv
  OBVIOUS
<1>1. TypeOK
  BY LifecycleAssumption DEF Init, TypeOK, NoRecord, NoJob, NoItem, Content
<1>2. PathsUnshared
  BY DEF Init, PathsUnshared, Recorded
<1>3. WindowKept
  BY Constants DEF Init, WindowKept, NoRecord, NoJob
<1> QED
  BY <1>1, <1>2, <1>3 DEF Init, LifecycleInv, CopiesAccounted

-----------------------------------------------------------------------------
(* CLEANUP jobs.                                                              *)

LEMMA PlanQuarantineInv ==
  ASSUME LifecycleInv, NEW k \in Cleaner, NEW s \in Source, NEW r \in Root,
         PlanQuarantine(k, s, r)
  PROVE  LifecycleInv'
<1>1. /\ clean[k].at = "idle"
      /\ clean' = [clean EXCEPT ![k] = [at |-> "planned", src |-> s, path |-> PathFor(s, r),
                                        sha |-> content[s], due |-> Retention]]
      /\ UNCHANGED <<content, copy, restored, record, purge, restore, crashes, age, reused, orphan>>
  BY DEF PlanQuarantine, files, history
<1>2. TypeOK'
  BY <1>1, InvParts, Constants DEF TypeOK, Content
<1>3. \A h \in Cleaner : clean'[h].at = "copied" => h # k /\ clean'[h] = clean[h]
  BY <1>1, InvParts DEF TypeOK
<1>4. \A h \in Cleaner : clean[h].at = "copied" => h # k /\ clean'[h] = clean[h]
  BY <1>1, InvParts DEF TypeOK
<1>5. WindowKept'
  BY <1>1, <1>3, InvParts DEF WindowKept, Granted
<1>6. PathsUnshared'
  BY <1>1, InvParts DEF PathsUnshared, Recorded
<1> QED
  BY <1>1, <1>2, <1>4, <1>5, <1>6, InvParts DEF LifecycleInv, CopiesAccounted

LEMMA QuarantineTransferInv ==
  ASSUME LifecycleInv, NEW k \in Cleaner, QuarantineTransfer(k)
  PROVE  LifecycleInv'
<1> DEFINE c == clean[k]
<1>1. /\ c \in [at: {"planned", "copied"}, src: Source, path: Slot, sha: Content, due: 0..Retention]
      /\ c.at = "planned"
      /\ UNCHANGED <<content, restored, record, purge, restore, crashes, reused, orphan>>
  BY InvParts DEF QuarantineTransfer, TypeOK, NoJob
<1>2. CASE copy[c.path] = None
  <2>1. /\ copy' = [copy EXCEPT ![c.path] = content[c.src]]
        /\ clean' = [clean EXCEPT ![k].at = "copied"]
        /\ age' = [age EXCEPT ![c.path] = Retention - c.due]
    BY <1>2 DEF QuarantineTransfer
  <2>2. content[c.src] \in Nat /\ Retention - c.due \in 0..Retention
    BY <1>1, Constants, InvParts DEF TypeOK, Content
  <2>3. \A h \in Cleaner : clean'[h] = IF h = k THEN [c EXCEPT !.at = "copied"] ELSE clean[h]
    BY <2>1, InvParts DEF TypeOK
  <2>4. \A q \in Slot : /\ copy'[q] = IF q = c.path THEN content[c.src] ELSE copy[q]
                        /\ age'[q] = IF q = c.path THEN Retention - c.due ELSE age[q]
    BY <2>1, InvParts DEF TypeOK
  <2>5. TypeOK'
    <3>1. /\ copy' \in [Slot -> Content \cup {None}] /\ age' \in [Slot -> 0..Retention]
      BY <2>1, <2>2, InvParts DEF TypeOK, Content
    <3>2. clean' \in [Cleaner -> {NoJob} \cup
            [at: {"planned", "copied"}, src: Source, path: Slot, sha: Content, due: 0..Retention]]
      BY <1>1, <2>1, InvParts DEF TypeOK
    <3> QED
      BY <1>1, <3>1, <3>2, InvParts DEF TypeOK
  <2>6. \A q \in Slot : (q # c.path => copy'[q] = copy[q]) /\ copy'[c.path] # None
    BY <1>1, <2>2, <2>4, Constants
  <2>7. WindowKept'
    <3> SUFFICES ASSUME NEW q \in Slot \ reused
                 PROVE  /\ \A s \in Source : record[s].path = q => Granted(q, record[s].due)'
                        /\ \A h \in Cleaner : clean'[h].at = "copied" /\ clean'[h].path = q =>
                             Granted(q, clean[h].due)'
                        /\ \A o \in Purger : q \in purge[o] => Granted(q, 0)'
      BY <1>1 DEF WindowKept
    <3>1. CASE q # c.path
      <4>1. \A h \in Cleaner : clean'[h].at = "copied" /\ clean'[h].path = q => clean'[h] = clean[h]
        BY <1>1, <2>3, <3>1
      <4> QED
        BY <1>1, <2>4, <3>1, <4>1, InvParts DEF WindowKept, Granted
    <3>2. CASE q = c.path
      <4>1. /\ \A s \in Source : record[s].path # q
            /\ \A h \in Cleaner : clean[h].at = "copied" => clean[h].path # q
            /\ \A o \in Purger : q \notin purge[o]
        BY <1>2, <3>2, InvParts DEF WindowKept, Granted
      <4>2. \A h \in Cleaner : clean'[h].at = "copied" /\ clean'[h].path = q =>
              h = k /\ clean'[h].due = c.due
        BY <1>1, <2>3, <4>1
      <4>3. copy'[q] # None /\ age'[q] + c.due >= Retention
        BY <1>1, <2>2, <2>4, <3>2, Constants
      <4> QED
        BY <1>1, <4>1, <4>2, <4>3 DEF Granted
    <3> QED
      BY <3>1, <3>2
  <2>8. \A q \in Slot : copy'[q] # None =>
          \/ \E s \in Source : record'[s].path = q
          \/ \E h \in Cleaner : clean'[h].at = "copied" /\ clean'[h].path = q
          \/ orphan'[q] # "no"
    <3>1. clean'[k].at = "copied" /\ clean'[k].path = c.path
      BY <1>1, <2>3
    <3>2. \A h \in Cleaner : clean[h].at = "copied" => clean'[h] = clean[h]
      BY <1>1, <2>3
    <3> QED
      BY <1>1, <2>6, <3>1, <3>2, InvParts
  <2> QED
    BY <1>1, <2>5, <2>7, <2>8, InvParts DEF LifecycleInv, CopiesAccounted, PathsUnshared, Recorded
<1>3. CASE copy[c.path] # None
  <2>1. /\ clean' = [clean EXCEPT ![k] = NoJob]
        /\ UNCHANGED <<copy, age>>
    BY <1>3 DEF QuarantineTransfer
  <2>2. TypeOK'
    BY <1>1, <2>1, InvParts DEF TypeOK
  <2>3. \A h \in Cleaner : clean'[h].at = "copied" => h # k /\ clean'[h] = clean[h]
    BY <2>1, InvParts DEF TypeOK, NoJob
  <2>4. \A h \in Cleaner : clean[h].at = "copied" => clean'[h] = clean[h]
    BY <1>1, <2>1, InvParts DEF TypeOK
  <2>5. WindowKept'
    BY <1>1, <2>1, <2>3, InvParts DEF WindowKept, Granted
  <2> QED
    BY <1>1, <2>1, <2>2, <2>4, <2>5, InvParts
       DEF LifecycleInv, CopiesAccounted, PathsUnshared, Recorded
<1> QED
  BY <1>2, <1>3

\* A cleaner that has no job any more.
LEMMA Rested ==
  ASSUME LifecycleInv, NEW k \in Cleaner, clean' = [clean EXCEPT ![k] = NoJob]
  PROVE  /\ clean' \in [Cleaner -> {NoJob} \cup
              [at: {"planned", "copied"}, src: Source, path: Slot, sha: Content, due: 0..Retention]]
         /\ \A h \in Cleaner : clean'[h].at = "copied" => h # k /\ clean'[h] = clean[h]
         /\ \A h \in Cleaner \ {k} : clean'[h] = clean[h]
BY InvParts DEF TypeOK, NoJob

LEMMA QuarantineRecordInv ==
  ASSUME LifecycleInv, NEW k \in Cleaner, QuarantineRecord(k)
  PROVE  LifecycleInv'
<1> DEFINE c == clean[k]
           taken == \E s \in Source \ {c.src} : record[s].path = c.path
<1>1. /\ c \in [at: {"planned", "copied"}, src: Source, path: Slot, sha: Content, due: 0..Retention]
      /\ c.at = "copied"
      /\ clean' = [clean EXCEPT ![k] = NoJob]
      /\ UNCHANGED <<content, copy, restored, purge, restore, crashes, age, reused>>
  BY InvParts DEF QuarantineRecord, TypeOK, NoJob, files
<1>2. CASE taken
  <2>1. orphan' = [orphan EXCEPT ![c.path] = "unique"] /\ UNCHANGED record
    BY <1>2 DEF QuarantineRecord
  <2>2. TypeOK'
    BY <1>1, <2>1, Rested, InvParts DEF TypeOK
  <2>3. WindowKept'
    BY <1>1, <2>1, Rested, InvParts DEF WindowKept, Granted
  <2>4. \A q \in Slot : orphan'[q] = IF q = c.path THEN "unique" ELSE orphan[q]
    BY <2>1, InvParts DEF TypeOK
  <2>5. \A q \in Slot : copy'[q] # None =>
          \/ \E s \in Source : record'[s].path = q
          \/ \E h \in Cleaner : clean'[h].at = "copied" /\ clean'[h].path = q
          \/ orphan'[q] # "no"
    BY <1>1, <2>1, <2>4, Rested, InvParts
  <2> QED
    BY <2>1, <2>2, <2>3, <2>5, InvParts DEF LifecycleInv, CopiesAccounted, PathsUnshared, Recorded
<1>3. CASE ~taken
  <2>1. PICK row : row = [path |-> c.path, sha |-> c.sha, due |-> c.due, locked |-> FALSE]
    OBVIOUS
  <2>2. /\ record' = [record EXCEPT ![c.src] = row]
        /\ orphan' = [q \in Slot |-> IF q = c.path THEN "no"
                                     ELSE IF q = record[c.src].path THEN "moved"
                                     ELSE orphan[q]]
    BY <1>3, <2>1 DEF QuarantineRecord, Put
  <2>3. row \in [path: Slot, sha: Content, due: 0..Retention, locked: BOOLEAN]
        /\ row.path = c.path /\ row.due = c.due
    BY <1>1, <2>1
  <2>4. \A s \in Source : record'[s] = IF s = c.src THEN row ELSE record[s]
    BY <2>2, InvParts DEF TypeOK
  <2>5. TypeOK'
    <3>1. record' \in [Source -> {NoRecord} \cup
            [path: Slot, sha: Content, due: 0..Retention, locked: BOOLEAN]]
      BY <2>2, <2>3, InvParts DEF TypeOK
    <3>2. orphan' \in [Slot -> {"no", "unique", "moved", "crash"}]
      BY <2>2, InvParts DEF TypeOK
    <3> QED
      BY <1>1, <3>1, <3>2, Rested, InvParts DEF TypeOK
  <2>6. PathsUnshared'
    <3>1. \A s \in Source \ {c.src} : record[s].path # c.path
      BY <1>3
    <3>2. row # NoRecord
      BY <2>3, Constants DEF NoRecord
    <3>3. \A s, u \in Source : s # u /\ record[s] # NoRecord => record[s].path # record[u].path
      BY InvParts DEF PathsUnshared, Recorded
    <3> QED
      BY <2>3, <2>4, <3>1, <3>2, <3>3, <1>1 DEF PathsUnshared, Recorded
  <2>7. WindowKept'
    <3> SUFFICES ASSUME NEW q \in Slot \ reused
                 PROVE  /\ \A s \in Source : record'[s].path = q => Granted(q, record[s].due)'
                        /\ \A h \in Cleaner : clean'[h].at = "copied" /\ clean'[h].path = q =>
                             Granted(q, clean[h].due)'
                        /\ \A o \in Purger : q \in purge[o] => Granted(q, 0)'
      BY <1>1 DEF WindowKept
    <3>1. \A due : Granted(q, due) => copy'[q] # None /\ age'[q] + due >= Retention
      BY <1>1 DEF Granted
    <3>2. q = c.path => Granted(q, c.due)
      BY <1>1, InvParts DEF WindowKept
    <3>3. /\ \A s \in Source : record[s].path = q => Granted(q, record[s].due)
          /\ \A h \in Cleaner : clean[h].at = "copied" /\ clean[h].path = q =>
               Granted(q, clean[h].due)
          /\ \A o \in Purger : q \in purge[o] => Granted(q, 0)
      BY InvParts DEF WindowKept
    <3> QED
      BY <1>1, <2>3, <2>4, <3>1, <3>2, <3>3, Rested DEF Granted
  <2>8. \A q \in Slot : copy'[q] # None =>
          \/ \E s \in Source : record'[s].path = q
          \/ \E h \in Cleaner : clean'[h].at = "copied" /\ clean'[h].path = q
          \/ orphan'[q] # "no"
    <3> SUFFICES ASSUME NEW q \in Slot, copy'[q] # None, orphan'[q] = "no"
                 PROVE  \/ \E s \in Source : record'[s].path = q
                        \/ \E h \in Cleaner : clean'[h].at = "copied" /\ clean'[h].path = q
      OBVIOUS
    <3>1. CASE q = c.path
      BY <1>1, <2>3, <2>4, <3>1
    <3>2. CASE q # c.path
      <4>1. record[c.src].path # q /\ orphan[q] = "no" /\ copy[q] # None
        BY <1>1, <2>2, <3>2
      <4>2. CASE \E s \in Source : record[s].path = q
        BY <2>4, <4>1, <4>2
      <4>3. CASE \E h \in Cleaner : clean[h].at = "copied" /\ clean[h].path = q
        BY <1>1, <3>2, <4>3, Rested
      <4> QED
        BY <4>1, <4>2, <4>3, InvParts
    <3> QED
      BY <3>1, <3>2
  <2> QED
    BY <2>5, <2>6, <2>7, <2>8 DEF LifecycleInv, CopiesAccounted
<1> QED
  BY <1>2, <1>3

LEMMA CrashInv ==
  ASSUME LifecycleInv, NEW k \in Cleaner, Crash(k)
  PROVE  LifecycleInv'
<1>1. /\ clean' = [clean EXCEPT ![k] = NoJob]
      /\ UNCHANGED <<content, copy, restored, record, purge, restore, age, reused>>
      /\ crashes' = crashes + 1 /\ crashes < MaxCrashes
      /\ orphan' = IF clean[k].at = "copied"
                   THEN [orphan EXCEPT ![clean[k].path] = "crash"] ELSE orphan
  BY DEF Crash, files
<1>2. \A q \in Slot : orphan'[q] = IF clean[k].at = "copied" /\ q = clean[k].path
                                   THEN "crash" ELSE orphan[q]
  BY <1>1, InvParts DEF TypeOK
<1>3. TypeOK'
  <2>1. orphan' \in [Slot -> {"no", "unique", "moved", "crash"}]
    BY <1>1, InvParts DEF TypeOK
  <2>2. crashes' \in 0..MaxCrashes
    BY <1>1, LifecycleAssumption, InvParts DEF TypeOK
  <2> QED
    BY <1>1, <2>1, <2>2, Rested, InvParts DEF TypeOK
<1>4. WindowKept'
  BY <1>1, Rested, InvParts DEF WindowKept, Granted
<1>5. \A q \in Slot : copy'[q] # None =>
        \/ \E s \in Source : record'[s].path = q
        \/ \E h \in Cleaner : clean'[h].at = "copied" /\ clean'[h].path = q
        \/ orphan'[q] # "no"
  BY <1>1, <1>2, Rested, InvParts
<1> QED
  BY <1>1, <1>3, <1>4, <1>5, InvParts DEF LifecycleInv, CopiesAccounted, PathsUnshared, Recorded

-----------------------------------------------------------------------------
(* Locks and purges.                                                          *)

LEMMA LockInv ==
  ASSUME LifecycleInv, NEW s \in Source, Lock(s)
  PROVE  LifecycleInv'
<1>1. /\ record[s] \in [path: Slot, sha: Content, due: 0..Retention, locked: BOOLEAN]
      /\ record' = [record EXCEPT ![s].locked = TRUE]
      /\ UNCHANGED <<content, copy, restored, clean, purge, restore, crashes, age, reused, orphan>>
      /\ record[s] # NoRecord
  BY InvParts, Records DEF Lock, SetLocked, files, history, Recorded
<1>2. PICK row : row = [record[s] EXCEPT !.locked = TRUE]
  OBVIOUS
<1>3. /\ row \in [path: Slot, sha: Content, due: 0..Retention, locked: BOOLEAN]
      /\ row.path = record[s].path /\ row.due = record[s].due
  BY <1>1, <1>2
<1>4. /\ record' \in [Source -> {NoRecord} \cup
           [path: Slot, sha: Content, due: 0..Retention, locked: BOOLEAN]]
      /\ \A u \in Source : record'[u] = IF u = s THEN row ELSE record[u]
  BY <1>1, <1>2, <1>3, InvParts DEF TypeOK
<1>5. \A u \in Source : /\ record'[u].path = record[u].path
                        /\ record'[u].due = record[u].due
                        /\ record'[u] # NoRecord => record[u] # NoRecord
  BY <1>1, <1>3, <1>4, Constants DEF NoRecord
<1>6. TypeOK'
  BY <1>1, <1>4, InvParts DEF TypeOK
<1>7. PathsUnshared'
  BY <1>5, InvParts DEF PathsUnshared, Recorded
<1>8. WindowKept'
  BY <1>1, <1>5, InvParts DEF WindowKept, Granted
<1> QED
  BY <1>1, <1>5, <1>6, <1>7, <1>8, InvParts DEF LifecycleInv, CopiesAccounted

LEMMA PlanPurgeInv ==
  ASSUME LifecycleInv, NEW o \in Purger, PlanPurge(o)
  PROVE  LifecycleInv'
<1> DEFINE unlocked == {s \in Source : Recorded(s) /\ ~record[s].locked}
           plan == {record[s].path : s \in unlocked}
<1>1. /\ purge' = [purge EXCEPT ![o] = plan]
      /\ \A s \in unlocked : copy[record[s].path] # None /\ record[s].due = 0
      /\ UNCHANGED <<content, copy, restored, record, clean, restore, crashes, age, reused, orphan>>
  BY DEF PlanPurge, Ready, files, history
<1>2. plan \subseteq Slot
  BY InvParts, Records
<1>3. \A q \in plan \ reused : Granted(q, 0)
  <2> SUFFICES ASSUME NEW s \in unlocked, record[s].path \notin reused
               PROVE  Granted(record[s].path, 0)
    OBVIOUS
  <2>1. record[s].path \in Slot /\ record[s].due = 0
    BY <1>1, InvParts, Records
  <2> QED
    BY <2>1, InvParts DEF WindowKept
<1>4. \A p \in Purger : purge'[p] = IF p = o THEN plan ELSE purge[p]
  BY <1>1, InvParts DEF TypeOK
<1>5. TypeOK'
  BY <1>1, <1>2, InvParts DEF TypeOK
<1>6. WindowKept'
  BY <1>1, <1>3, <1>4, InvParts DEF WindowKept, Granted
<1> QED
  BY <1>1, <1>5, <1>6, InvParts DEF LifecycleInv, CopiesAccounted, PathsUnshared, Recorded

LEMMA PurgeItemInv ==
  ASSUME LifecycleInv, NEW o \in Purger, NEW q \in Slot, PurgeItem(o, q)
  PROVE  LifecycleInv'
<1>1. /\ copy' = [copy EXCEPT ![q] = None]
      /\ purge' = [purge EXCEPT ![o] = IF copy[q] = None THEN {} ELSE @ \ {q}]
      /\ reused' = reused \cup {q}
      /\ age' = [age EXCEPT ![q] = 0]
      /\ orphan' = [orphan EXCEPT ![q] = "no"]
      /\ UNCHANGED <<content, restored, record, clean, restore, crashes>>
  BY DEF PurgeItem
<1>2. \A p \in Slot : /\ copy'[p] = IF p = q THEN None ELSE copy[p]
                      /\ age'[p] = IF p = q THEN 0 ELSE age[p]
                      /\ orphan'[p] = IF p = q THEN "no" ELSE orphan[p]
  BY <1>1, InvParts DEF TypeOK
<1>3. \A p \in Purger : purge'[p] \subseteq purge[p]
  BY <1>1, InvParts DEF TypeOK
<1>4. TypeOK'
  BY <1>1, Constants, InvParts DEF TypeOK
<1>5. WindowKept'
  BY <1>1, <1>2, <1>3, InvParts DEF WindowKept, Granted
<1>6. \A p \in Slot : copy'[p] # None =>
        \/ \E s \in Source : record'[s].path = p
        \/ \E h \in Cleaner : clean'[h].at = "copied" /\ clean'[h].path = p
        \/ orphan'[p] # "no"
  BY <1>1, <1>2, InvParts
<1> QED
  BY <1>1, <1>4, <1>5, <1>6, InvParts DEF LifecycleInv, CopiesAccounted, PathsUnshared, Recorded

-----------------------------------------------------------------------------
(* Restores, sources and time.                                                *)

\* A step that leaves copies, rows, plans and the history alone.
LEMMA Aside ==
  ASSUME LifecycleInv, TypeOK',
         UNCHANGED <<copy, record, clean, purge, age, reused, orphan>>
  PROVE  LifecycleInv'
BY InvParts DEF LifecycleInv, CopiesAccounted, PathsUnshared, Recorded, WindowKept, Granted

LEMMA PlanRestoreInv ==
  ASSUME LifecycleInv, NEW t \in Restorer, NEW q \in Slot, PlanRestore(t, q)
  PROVE  LifecycleInv'
<1>1. UNCHANGED <<content, copy, restored, record, clean, purge, crashes, age, reused, orphan>>
  BY DEF PlanRestore, files, history
<1>2. PICK item \in {NoItem, [NoItem EXCEPT !.at = "ok"]} \cup
                    [at: {"planned"}, path: Slot, name: Names, sha: Content] :
        restore' = [restore EXCEPT ![t] = item]
  <2>1. CASE \E s \in Source : record[s].path = q
    <3>1. PICK s \in Source :
            /\ record[s].path = q
            /\ restore' = [restore EXCEPT ![t] =
                 [at |-> "planned", path |-> q, name |-> NameOf[s], sha |-> record[s].sha]]
      BY <2>1 DEF PlanRestore
    <3>2. record[s].sha \in Content /\ NameOf[s] \in Names
      BY <3>1, InvParts, Records DEF Names
    <3> QED
      BY <3>1, <3>2
  <2>2. CASE ~\E s \in Source : record[s].path = q
    BY <2>2 DEF PlanRestore, Answer
  <2> QED
    BY <2>1, <2>2
<1>3. TypeOK'
  BY <1>1, <1>2, InvParts DEF TypeOK
<1> QED
  BY <1>1, <1>3, Aside

\* A RESTORE job has planned what it restores.
LEMMA Planned ==
  ASSUME LifecycleInv, NEW t \in Restorer, restore[t].at = "planned"
  PROVE  restore[t] \in [at: {"planned"}, path: Slot, name: Names, sha: Content]
BY InvParts DEF TypeOK, NoItem

LEMMA RestoreTransferInv ==
  ASSUME LifecycleInv, NEW t \in Restorer, RestoreTransfer(t)
  PROVE  LifecycleInv'
<1>1. UNCHANGED <<content, copy, record, clean, purge, crashes, age, reused, orphan>>
  BY DEF RestoreTransfer, history
<1>2. restored' \in [Names -> Content \cup {None}]
  <2>1. restore[t].name \in Names /\ copy[restore[t].path] \in Content \cup {None}
    BY Planned, InvParts DEF RestoreTransfer, TypeOK
  <2>2. \/ restored' = [restored EXCEPT ![restore[t].name] = copy[restore[t].path]]
        \/ UNCHANGED restored
    BY DEF RestoreTransfer
  <2> QED
    BY <2>1, <2>2, InvParts DEF TypeOK
<1>3. PICK item \in {NoItem, [NoItem EXCEPT !.at = "ok"]} :
        restore' = [restore EXCEPT ![t] = item]
  <2>1. PICK success \in BOOLEAN : Answer(t, success)
    BY DEF RestoreTransfer
  <2>2. [NoItem EXCEPT !.at = "idle"] = NoItem
    BY DEF NoItem
  <2> QED
    BY <2>1, <2>2 DEF Answer
<1>4. TypeOK'
  BY <1>1, <1>2, <1>3, InvParts DEF TypeOK
<1> QED
  BY <1>1, <1>4, Aside

LEMMA EditInv ==
  ASSUME LifecycleInv, NEW s \in Source, Edit(s)
  PROVE  LifecycleInv'
<1>1. /\ content' = [content EXCEPT ![s] = @ + 1]
      /\ UNCHANGED <<copy, restored, record, clean, purge, restore, crashes, age, reused, orphan>>
  BY DEF Edit, history
<1>2. TypeOK'
  BY <1>1, InvParts DEF TypeOK, Content
<1> QED
  BY <1>1, <1>2, Aside

LEMMA CollectInv ==
  ASSUME LifecycleInv, NEW n \in Names, Collect(n)
  PROVE  LifecycleInv'
<1>1. /\ restored' = [restored EXCEPT ![n] = None]
      /\ UNCHANGED <<content, copy, record, clean, purge, restore, crashes, age, reused, orphan>>
  BY DEF Collect, history
<1>2. TypeOK'
  BY <1>1, InvParts DEF TypeOK
<1> QED
  BY <1>1, <1>2, Aside

LEMMA TickInv ==
  ASSUME LifecycleInv, Tick
  PROVE  LifecycleInv'
<1>1. UNCHANGED <<content, copy, restored, purge, restore, crashes, reused, orphan>>
  BY DEF Tick, files
<1>2. \A s \in Source :
        /\ record'[s] \in {NoRecord} \cup
             [path: Slot, sha: Content, due: 0..Retention, locked: BOOLEAN]
        /\ record'[s].path = record[s].path /\ record'[s].due = Sooner(record[s].due)
        /\ record'[s] # NoRecord => record[s] # NoRecord
  <2> SUFFICES ASSUME NEW s \in Source
               PROVE  /\ record'[s] \in {NoRecord} \cup
                           [path: Slot, sha: Content, due: 0..Retention, locked: BOOLEAN]
                      /\ record'[s].path = record[s].path
                      /\ record'[s].due = Sooner(record[s].due)
                      /\ record'[s] # NoRecord => record[s] # NoRecord
    OBVIOUS
  <2>1. record'[s] = [record[s] EXCEPT !.due = Sooner(record[s].due)]
    BY DEF Tick
  <2>2. CASE record[s] = NoRecord
    <3>1. record[s].due = 0 /\ Sooner(record[s].due) = 0
      BY <2>2 DEF NoRecord, Sooner
    <3>2. record'[s] = NoRecord
      BY <2>1, <2>2, <3>1 DEF NoRecord
    <3> QED
      BY <2>2, <3>1, <3>2
  <2>3. CASE record[s] # NoRecord
    <3>1. record[s] \in [path: Slot, sha: Content, due: 0..Retention, locked: BOOLEAN]
      BY <2>3, InvParts, Records DEF Recorded
    <3>2. Sooner(record[s].due) \in 0..Retention
      BY <3>1, Constants DEF Sooner
    <3> QED
      BY <2>1, <2>3, <3>1, <3>2
  <2> QED
    BY <2>2, <2>3
<1>3. \A k \in Cleaner :
        /\ clean'[k] \in {NoJob} \cup
             [at: {"planned", "copied"}, src: Source, path: Slot, sha: Content, due: 0..Retention]
        /\ clean'[k].at = clean[k].at /\ clean'[k].path = clean[k].path
        /\ clean'[k].due = Sooner(clean[k].due)
        /\ clean[k].due \in 0..Retention
  <2> SUFFICES ASSUME NEW k \in Cleaner
               PROVE  /\ clean'[k] \in {NoJob} \cup
                           [at: {"planned", "copied"}, src: Source, path: Slot, sha: Content,
                            due: 0..Retention]
                      /\ clean'[k].at = clean[k].at /\ clean'[k].path = clean[k].path
                      /\ clean'[k].due = Sooner(clean[k].due)
                      /\ clean[k].due \in 0..Retention
    OBVIOUS
  <2>1. clean'[k] = [clean[k] EXCEPT !.due = Sooner(clean[k].due)]
    BY DEF Tick
  <2>2. CASE clean[k] = NoJob
    BY <2>1, <2>2, Constants DEF NoJob, Sooner
  <2>3. CASE clean[k] # NoJob
    <3>1. clean[k] \in [at: {"planned", "copied"}, src: Source, path: Slot, sha: Content,
                        due: 0..Retention]
      BY <2>3, InvParts DEF TypeOK
    <3>2. Sooner(clean[k].due) \in 0..Retention
      BY <3>1, Constants DEF Sooner
    <3> QED
      BY <2>1, <3>1, <3>2
  <2> QED
    BY <2>2, <2>3
<1>4. \A q \in Slot : /\ age'[q] \in 0..Retention
                      /\ copy[q] # None /\ age[q] < Retention => age'[q] = age[q] + 1
                      /\ age[q] = Retention => age'[q] = Retention
                      /\ age[q] \in 0..Retention
  BY Constants, InvParts DEF Tick, TypeOK
<1>5. TypeOK'
  <2>1. /\ record' \in [Source -> {NoRecord} \cup
             [path: Slot, sha: Content, due: 0..Retention, locked: BOOLEAN]]
        /\ clean' \in [Cleaner -> {NoJob} \cup
             [at: {"planned", "copied"}, src: Source, path: Slot, sha: Content, due: 0..Retention]]
        /\ age' \in [Slot -> 0..Retention]
    BY <1>2, <1>3, <1>4 DEF Tick
  <2> QED
    BY <1>1, <2>1, InvParts DEF TypeOK
<1>6. \A q \in Slot, due \in 0..Retention :
        Granted(q, due) => copy'[q] # None /\ age'[q] + Sooner(due) >= Retention
  BY <1>1, <1>4, Constants DEF Granted, Sooner
<1>7. WindowKept'
  <2> SUFFICES ASSUME NEW q \in Slot \ reused
               PROVE  /\ \A s \in Source : record'[s].path = q => Granted(q, record[s].due)'
                      /\ \A k \in Cleaner : clean'[k].at = "copied" /\ clean'[k].path = q =>
                           Granted(q, clean[k].due)'
                      /\ \A o \in Purger : q \in purge'[o] => Granted(q, 0)'
    BY <1>1 DEF WindowKept
  <2>1. \A s \in Source : record'[s].path = q => Granted(q, record[s].due)'
    BY <1>2, <1>6, InvParts, Records DEF WindowKept, Granted
  <2>2. \A k \in Cleaner : clean'[k].at = "copied" /\ clean'[k].path = q =>
          Granted(q, clean[k].due)'
    BY <1>3, <1>6, InvParts DEF WindowKept, Granted
  <2>3. \A o \in Purger : q \in purge'[o] => Granted(q, 0)'
    BY <1>1, <1>6, Constants, InvParts DEF WindowKept, Granted, Sooner
  <2> QED
    BY <2>1, <2>2, <2>3
<1>8. PathsUnshared'
  BY <1>2, InvParts DEF PathsUnshared, Recorded
<1> QED
  BY <1>1, <1>2, <1>3, <1>5, <1>7, <1>8, InvParts DEF LifecycleInv, CopiesAccounted

-----------------------------------------------------------------------------
(* The theorems.                                                              *)

LEMMA StutterInv == LifecycleInv /\ UNCHANGED vars => LifecycleInv'
<1> SUFFICES ASSUME LifecycleInv, UNCHANGED vars PROVE LifecycleInv'
  OBVIOUS
<1>1. UNCHANGED <<content, copy, restored, record, clean, purge, restore, crashes, age, reused, orphan>>
  BY DEF vars, files, history
<1>2. TypeOK'
  BY <1>1, InvParts DEF TypeOK
<1> QED
  BY <1>1, <1>2, Aside

LEMMA NextInv == LifecycleInv /\ [Next]_vars => LifecycleInv'
<1> SUFFICES ASSUME LifecycleInv, Next PROVE LifecycleInv'
  BY StutterInv
<1>1. ASSUME NEW k \in Cleaner, NEW s \in Source, NEW r \in Root, PlanQuarantine(k, s, r)
      PROVE  LifecycleInv'
  BY <1>1, PlanQuarantineInv
<1>2. ASSUME NEW k \in Cleaner, QuarantineTransfer(k) \/ QuarantineRecord(k) \/ Crash(k)
      PROVE  LifecycleInv'
  BY <1>2, QuarantineTransferInv, QuarantineRecordInv, CrashInv
<1>3. ASSUME NEW o \in Purger, PlanPurge(o) \/ \E q \in Slot : PurgeItem(o, q)
      PROVE  LifecycleInv'
  BY <1>3, PlanPurgeInv, PurgeItemInv
<1>4. ASSUME NEW t \in Restorer, RestoreTransfer(t) \/ \E q \in Slot : PlanRestore(t, q)
      PROVE  LifecycleInv'
  BY <1>4, RestoreTransferInv, PlanRestoreInv
<1>5. ASSUME NEW s \in Source, Lock(s) \/ Edit(s)
      PROVE  LifecycleInv'
  BY <1>5, LockInv, EditInv
<1>6. ASSUME NEW n \in Names, Collect(n)
      PROVE  LifecycleInv'
  BY <1>6, CollectInv
<1>7. CASE Tick
  BY <1>7, TickInv
<1> QED
  BY <1>1, <1>2, <1>3, <1>4, <1>5, <1>6, <1>7 DEF Next

LEMMA Invariance == Spec => []LifecycleInv
<1>1. Init => LifecycleInv
  BY InitInv
<1>2. LifecycleInv /\ [Next]_vars => LifecycleInv'
  BY NextInv
<1> QED
  BY <1>1, <1>2, PTL DEF Spec

\* Every quarantined copy has a row, has a cleaner about to write one, or is
\* one of the orphans that a death, the UNIQUE path or a second quarantine of
\* its source explains; and no two rows claim one copy.
THEOREM EveryCopyAccounted == Spec => []CopiesAccounted
<1>1. LifecycleInv => CopiesAccounted
  BY DEF LifecycleInv
<1> QED
  BY <1>1, Invariance, PTL

\* What LifecyclePlanner.reconcile reports as missing was purged: quarantine
\* and restore never take a copy away from its row.
THEOREM MissingWasPurged == Spec => []MissingOnlyByPurge
<1>1. LifecycleInv => MissingOnlyByPurge
  <2> SUFFICES ASSUME LifecycleInv, NEW s \in Source, Recorded(s),
                      ReconcileState(s) = "MISSING_QUARANTINE"
               PROVE  record[s].path \in reused
    BY DEF MissingOnlyByPurge
  <2>1. copy[record[s].path] = None /\ record[s].path \in Slot
    BY InvParts, Records DEF ReconcileState
  <2> QED
    BY <2>1, InvParts DEF WindowKept, Granted
<1> QED
  BY <1>1, Invariance, PTL

-----------------------------------------------------------------------------
\* Only a purge removes a copy.
LEMMA OnlyPurgeRemoves ==
  ASSUME LifecycleInv, [Next]_vars, NEW q \in Slot, copy[q] # None, copy'[q] = None
  PROVE  \E o \in Purger : PurgeItem(o, q)
<1>1. UNCHANGED copy \/ (\E k \in Cleaner : QuarantineTransfer(k))
        \/ (\E o \in Purger, p \in Slot : PurgeItem(o, p))
  BY DEF Next, vars, files, history, PlanQuarantine, QuarantineRecord, Crash, PlanPurge,
         RestoreTransfer, PlanRestore, Lock, Edit, Collect, Tick
<1>2. ASSUME NEW k \in Cleaner, QuarantineTransfer(k) PROVE FALSE
  <2>1. clean[k].path \in Slot /\ content[clean[k].src] \in Nat
    BY <1>2, InvParts DEF QuarantineTransfer, TypeOK, NoJob, Content
  <2>2. copy' = copy \/ copy' = [copy EXCEPT ![clean[k].path] = content[clean[k].src]]
    BY <1>2 DEF QuarantineTransfer
  <2> QED
    BY <2>1, <2>2, Constants, InvParts DEF TypeOK
<1>3. ASSUME NEW o \in Purger, NEW p \in Slot, PurgeItem(o, p) PROVE PurgeItem(o, q)
  <2>1. copy' = [copy EXCEPT ![p] = None]
    BY <1>3 DEF PurgeItem
  <2>2. p = q
    BY <2>1, InvParts DEF TypeOK
  <2> QED
    BY <1>3, <2>2
<1> QED
  BY <1>1, <1>2, <1>3

\* A copy inside its window is purged only at a path that was purged before:
\* there an old row, or an old plan, grants it away.
THEOREM WindowHonoured == Spec => EarlyPurgeOnlyOfReused
<1>1. LifecycleInv /\ [Next]_vars =>
        [\A q \in Slot : copy[q] # None /\ copy'[q] = None /\ age[q] < Retention =>
           q \in reused]_vars
  <2> SUFFICES ASSUME LifecycleInv, [Next]_vars, NEW q \in Slot,
                      copy[q] # None, copy'[q] = None, age[q] < Retention, q \notin reused
               PROVE  FALSE
    OBVIOUS
  <2>1. PICK o \in Purger : PurgeItem(o, q)
    BY OnlyPurgeRemoves
  <2>2. Granted(q, 0)
    BY <2>1, InvParts DEF PurgeItem, WindowKept
  <2> QED
    BY <2>2, InvParts, Constants DEF Granted, TypeOK
<1> QED
  BY <1>1, Invariance, PTL DEF Spec, EarlyPurgeOnlyOfReused

\* A RESTORE job that planned something succeeds only with the recorded
\* content in place.
THEOREM RestoresVerify == Spec => RestoreVerified
<1>1. LifecycleInv /\ [Next]_vars =>
        [\A t \in Restorer : restore[t].at = "planned" /\ restore'[t].at = "ok" =>
           restored'[restore[t].name] = restore[t].sha]_vars
  <2> SUFFICES ASSUME LifecycleInv, [Next]_vars, NEW t \in Restorer,
                      restore[t].at = "planned", restore'[t].at = "ok"
               PROVE  restored'[restore[t].name] = restore[t].sha
    OBVIOUS
  <2>1. UNCHANGED restore \/ (\E u \in Restorer : RestoreTransfer(u))
          \/ (\E u \in Restorer, q \in Slot : PlanRestore(u, q))
    BY DEF Next, vars, files, history, PlanQuarantine, QuarantineTransfer, QuarantineRecord,
           Crash, PlanPurge, PurgeItem, Lock, Edit, Collect, Tick
  <2>2. ASSUME NEW u \in Restorer, NEW q \in Slot, PlanRestore(u, q) PROVE FALSE
    <3>1. restore[u].at # "planned" /\ \E i : restore' = [restore EXCEPT ![u] = i]
      BY <2>2 DEF PlanRestore, Answer
    <3> QED
      BY <3>1, InvParts DEF TypeOK
  <2>3. ASSUME NEW u \in Restorer, RestoreTransfer(u)
        PROVE  restored'[restore[t].name] = restore[t].sha
    <3>1. \E i : restore' = [restore EXCEPT ![u] = i]
      BY <2>3 DEF RestoreTransfer, Answer
    <3>2. u = t
      BY <3>1, InvParts DEF TypeOK
    <3>3. restore[t].name \in Names
      BY Planned, InvParts
    <3>4. CASE copy[restore[t].path] # None /\ restored[restore[t].name] = None
      <4>1. /\ restored' = [restored EXCEPT ![restore[t].name] = copy[restore[t].path]]
            /\ restore' = [restore EXCEPT ![t] =
                 [NoItem EXCEPT !.at = IF copy[restore[t].path] = restore[t].sha
                                       THEN "ok" ELSE "idle"]]
        BY <2>3, <3>2, <3>4 DEF RestoreTransfer, Answer
      <4>2. copy[restore[t].path] = restore[t].sha
        BY <4>1, InvParts DEF TypeOK, NoItem
      <4> QED
        BY <3>3, <4>1, <4>2, InvParts DEF TypeOK
    <3>5. CASE ~(copy[restore[t].path] # None /\ restored[restore[t].name] = None)
      <4>1. restore' = [restore EXCEPT ![t] = [NoItem EXCEPT !.at = "idle"]]
        BY <2>3, <3>2, <3>5 DEF RestoreTransfer, Answer
      <4> QED
        BY <4>1, InvParts DEF TypeOK, NoItem
    <3> QED
      BY <3>4, <3>5
  <2> QED
    BY <2>1, <2>2, <2>3
<1> QED
  BY <1>1, Invariance, PTL DEF Spec, RestoreVerified
=============================================================================
