------------------------ MODULE LocalPlatformProofs ------------------------
(***************************************************************************)
(* Six parts of the local platform, for every instance: no object and no    *)
(* pack of the content store is torn, the setup of the media server ends    *)
(* sealed, a remote transfer that reports success was one, snapshots and    *)
(* their verdicts are right about the files that nobody touches, the advice *)
(* on a cache takes no more than it must, and the dashboard shows what does *)
(* not move as it is.                                                       *)
(*                                                                          *)
(* The argument for the content store.  A chunk of the source only grows:   *)
(* an edit gives it a number that no chunk had.  So a digest is behind the  *)
(* source or equal to it, chunk by chunk.  If it is equal when the first    *)
(* reading ends, it is a content the source has; if not, some chunk is      *)
(* behind, and the second reading, which comes later, sees another value    *)
(* there: Telltale.                                                         *)
(***************************************************************************)
EXTENDS ContentStore, MediaServer, RemoteTransfer, Snapshots, StorageAdvice, ControlCenter,
        FiniteSetTheorems, SequenceTheorems, WellFoundedInduction, TLAPS

ReaderState == [at : {"idle", "hash", "hashed", "open", "copy", "answered"},
                task : {"put", "pack"}, done : 0..Chunks, digest : File, read : File]

\* Chunk i tells a torn digest from what the second reading gets.
Telltale(r, i) ==
  /\ r.digest[i] < source[i]
  /\ r.at = "copy" /\ i <= r.done => r.digest[i] < r.read[i]

\* A finished digest is of a content the source has had, or a chunk tells.
WholeOrTold(r) ==
  /\ r.digest \in Bytes
  /\ r.digest \in held \/ \E i \in Chunk : Telltale(r, i)

\* The first reading is never ahead of the source.
HashBehind(r) == \A i \in 1..r.done : r.digest[i] \in 0..source[i]

\* The partial holds what its writer read.
CopyAsRead(p, r) ==
  \A i \in 1..r.done : r.read[i] \in 0..MaxChanges /\ partial[<<p, r.digest>>][i] = r.read[i]

\* An answer names a content the source has had, and a put has stored it.
AnswerTrue(r) ==
  /\ r.digest \in held
  /\ r.task = "put" => object[r.digest] = r.digest

\* What holds of thread p in state r.
ReaderOK(p, r) ==
  /\ r \in ReaderState
  /\ r.at = "hash" => HashBehind(r)
  /\ r.at \in {"hashed", "open", "copy"} => WholeOrTold(r)
  /\ r.at = "copy" => CopyAsRead(p, r)
  /\ r.at = "answered" => AnswerTrue(r)

SourceKnown == source \in held /\ \A i \in Chunk : source[i] <= changes

ObjectsOK == \A d \in Bytes : object[d] \in {NoFile, d} /\ (object[d] # NoFile => d \in held)

\* The inductive invariant.
StoreInv ==
  /\ StoreTypes
  /\ SourceKnown
  /\ ObjectsOK
  /\ \A p \in Reader : ReaderOK(p, reader[p])

LEMMA InvSound == StoreInv => StoreSound
BY DEF StoreInv, StoreTypes, ObjectsOK, ReaderOK, AnswerTrue, StoreSound, NeverTorn

-----------------------------------------------------------------------------
(* Files and threads.                                                         *)

\* A content is a file, and no content is the missing file.
LEMMA FilesApart ==
  /\ Bytes \subseteq File /\ NoFile \in File /\ NoFile \notin Bytes
  /\ [i \in Chunk |-> 0] \in Bytes /\ 1 \in Chunk /\ Chunks \in Chunk
BY ContentAssumption DEF Bytes, File, NoFile, Hole, Chunk

\* A step of thread p that leaves the source alone, writes no partial but its
\* own, and stores no object but a known content under its name.
LEMMA ReaderMoves ==
  ASSUME StoreInv, NEW p \in Reader, NEW r, reader' = [reader EXCEPT ![p] = r],
         UNCHANGED <<source, changes, held>>, deaths' \in 0..MaxDeaths,
         partial' \in [Reader \X Bytes -> File],
         \A q \in Reader \ {p}, d \in Bytes : partial'[<<q, d>>] = partial[<<q, d>>],
         object' \in [Bytes -> File],
         \A d \in Bytes : object'[d] = object[d] \/ (object'[d] = d /\ d \in held),
         ReaderOK(p, r)'
  PROVE  StoreInv'
<1>1. reader'[p] = r /\ \A q \in Reader \ {p} : reader'[q] = reader[q]
  BY DEF StoreInv, StoreTypes
<1>2. r \in ReaderState
  BY DEF ReaderOK
<1>3. StoreTypes'
  BY <1>2 DEF StoreInv, StoreTypes, ReaderState
<1>4. SourceKnown' /\ ObjectsOK'
  BY DEF StoreInv, SourceKnown, ObjectsOK
<1>5. ASSUME NEW q \in Reader \ {p} PROVE ReaderOK(q, reader[q])'
  <2>1. ReaderOK(q, reader[q]) /\ reader'[q] = reader[q]
    BY <1>1 DEF StoreInv
  <2>2. HashBehind(reader[q]) => HashBehind(reader[q])'
    BY <2>1 DEF HashBehind
  <2>3. WholeOrTold(reader[q]) => WholeOrTold(reader[q])'
    BY <2>1 DEF WholeOrTold, Telltale
  <2>4. WholeOrTold(reader[q]) /\ CopyAsRead(q, reader[q]) => CopyAsRead(q, reader[q])'
    BY <2>1 DEF WholeOrTold, CopyAsRead
  <2>5. AnswerTrue(reader[q]) => AnswerTrue(reader[q])'
    <3>1. held \subseteq Bytes
      BY DEF StoreInv, StoreTypes
    <3> QED
      BY <2>1, <3>1 DEF AnswerTrue
  <2> QED
    BY <2>1, <2>2, <2>3, <2>4, <2>5 DEF ReaderOK
<1>6. ReaderOK(p, reader[p])'
  BY <1>1
<1> QED
  BY <1>3, <1>4, <1>5, <1>6 DEF StoreInv

\* A thread that rests claims nothing.
LEMMA RestingOK ==
  ASSUME NEW p \in Reader
  PROVE  ReaderOK(p, Resting)'
BY FilesApart, ContentAssumption DEF ReaderOK, Resting, ReaderState

\* The state of a thread that has answered.
LEMMA Answered ==
  ASSUME StoreInv, NEW p \in Reader, NEW r, reader[p] \in ReaderState,
         r = [reader[p] EXCEPT !.at = "answered", !.done = 0, !.read = NoFile]
  PROVE  /\ r \in ReaderState /\ r.at = "answered"
         /\ r.task = reader[p].task /\ r.digest = reader[p].digest
<1>1. r = [at |-> "answered", task |-> reader[p].task, done |-> 0,
           digest |-> reader[p].digest, read |-> NoFile]
  BY DEF ReaderState
<1>2. 0 \in 0..Chunks /\ NoFile \in File
  BY FilesApart, ContentAssumption
<1> QED
  BY <1>1, <1>2 DEF ReaderState

LEMMA InitInv == StoreInit => StoreInv
<1> SUFFICES ASSUME StoreInit PROVE StoreInv
  OBVIOUS
<1>1. StoreTypes
  BY FilesApart, ContentAssumption DEF StoreInit, StoreTypes, Resting
<1>2. SourceKnown /\ ObjectsOK
  BY FilesApart, ContentAssumption DEF StoreInit, SourceKnown, ObjectsOK
<1>3. \A p \in Reader : ReaderOK(p, reader[p])
  BY <1>1 DEF StoreInit, StoreTypes, ReaderOK, Resting, ReaderState
<1> QED
  BY <1>1, <1>2, <1>3 DEF StoreInv

-----------------------------------------------------------------------------
(* The two readings.                                                         *)

LEMMA BeginInv ==
  ASSUME StoreInv, NEW p \in Reader, NEW kind \in {"put", "pack"}, Begin(p, kind)
  PROVE  StoreInv'
<1>1. PICK r : r = [Resting EXCEPT !.at = "hash", !.task = kind]
  OBVIOUS
<1>2. r = [at |-> "hash", task |-> kind, done |-> 0, digest |-> NoFile, read |-> NoFile]
  BY <1>1 DEF Resting
<1>3. ReaderOK(p, r)'
  BY <1>2, FilesApart, ContentAssumption DEF ReaderOK, ReaderState, HashBehind
<1> QED
  BY <1>1, <1>3, ReaderMoves DEF Begin, StoreInv, StoreTypes

\* The last chunk makes the digest a content; it is the source or behind it.
LEMMA HashChunkInv ==
  ASSUME StoreInv, NEW p \in Reader, HashChunk(p)
  PROVE  StoreInv'
<1>1. PICK i : i = reader[p].done + 1
  OBVIOUS
<1>2. /\ reader[p] \in ReaderState /\ reader[p].at = "hash" /\ i \in Chunk
      /\ HashBehind(reader[p])
  BY <1>1 DEF HashChunk, StoreInv, ReaderOK
<1>3. PICK r : r = [reader[p] EXCEPT !.at = IF i = Chunks THEN "hashed" ELSE "hash",
                                     !.done = i, !.digest[i] = source[i]]
  OBVIOUS
<1>4. /\ r.at = (IF i = Chunks THEN "hashed" ELSE "hash")
      /\ r.task = reader[p].task /\ r.done = i /\ r.read = reader[p].read
      /\ r.digest = [reader[p].digest EXCEPT ![i] = source[i]]
      /\ r = [at |-> r.at, task |-> r.task, done |-> r.done, digest |-> r.digest,
              read |-> r.read]
  BY <1>2, <1>3 DEF ReaderState
<1>5. source \in Bytes /\ source \in held /\ reader[p].digest \in File
  BY <1>2 DEF StoreInv, StoreTypes, SourceKnown, ReaderState
<1>6. r.digest \in File /\ r \in ReaderState
  <2>1. r.digest \in File
    BY <1>2, <1>4, <1>5 DEF File, Bytes
  <2>2. i \in 0..Chunks
    BY <1>2, ContentAssumption DEF Chunk
  <2> QED
    BY <1>2, <1>4, <2>1, <2>2 DEF ReaderState
<1>7. \A k \in 1..i : r.digest[k] \in 0..source[k]
  BY <1>1, <1>2, <1>4, <1>5, ContentAssumption DEF HashBehind, File, Bytes, Chunk, ReaderState
<1>8. r.at = "hashed" => WholeOrTold(r)
  <2> SUFFICES ASSUME r.at = "hashed" PROVE WholeOrTold(r)
    OBVIOUS
  <2>1. \A k \in Chunk : r.digest[k] \in 0..source[k]
    BY <1>4, <1>7 DEF Chunk
  <2>2. r.digest \in Bytes
    BY <1>5, <1>6, <2>1, ContentAssumption DEF Bytes, File
  <2>3. CASE \E k \in Chunk : r.digest[k] < source[k]
    BY <2>2, <2>3 DEF WholeOrTold, Telltale
  <2>4. CASE \A k \in Chunk : ~(r.digest[k] < source[k])
    <3>1. r.digest = source
      BY <1>5, <2>1, <2>2, <2>4, ContentAssumption DEF Bytes
    <3> QED
      BY <1>5, <2>2, <3>1 DEF WholeOrTold
  <2> QED
    BY <2>3, <2>4
<1>9. ReaderOK(p, r)
  BY <1>4, <1>6, <1>7, <1>8 DEF ReaderOK, HashBehind
<1>10. UNCHANGED <<source, object, partial, changes, deaths, held>>
       /\ reader' = [reader EXCEPT ![p] = r]
  BY <1>1, <1>3 DEF HashChunk
<1>11. ReaderOK(p, r)'
  BY <1>9, <1>10 DEF ReaderOK, HashBehind, WholeOrTold, Telltale, CopyAsRead, AnswerTrue
<1> QED
  BY <1>10, <1>11, ReaderMoves DEF StoreInv, StoreTypes

LEMMA NotThereInv ==
  ASSUME StoreInv, NEW p \in Reader, NotThere(p)
  PROVE  StoreInv'
<1>1. reader[p] \in ReaderState /\ reader[p].at = "hashed" /\ WholeOrTold(reader[p])
  BY DEF NotThere, StoreInv, ReaderOK
<1>2. PICK r : r = [reader[p] EXCEPT !.at = "open"]
  OBVIOUS
<1>3. r \in ReaderState /\ r.at = "open" /\ r.digest = reader[p].digest
  BY <1>1, <1>2 DEF ReaderState
<1>4. WholeOrTold(r)
  BY <1>1, <1>3 DEF WholeOrTold, Telltale
<1>5. UNCHANGED <<source, object, partial, changes, deaths, held>>
      /\ reader' = [reader EXCEPT ![p] = r]
  BY <1>2 DEF NotThere
<1>6. ReaderOK(p, r)'
  BY <1>3, <1>4, <1>5 DEF ReaderOK, WholeOrTold, Telltale
<1> QED
  BY <1>5, <1>6, ReaderMoves DEF StoreInv, StoreTypes

LEMMA AlreadyThereInv ==
  ASSUME StoreInv, NEW p \in Reader, AlreadyThere(p)
  PROVE  StoreInv'
<1>1. /\ reader[p] \in ReaderState /\ WholeOrTold(reader[p])
      /\ object[reader[p].digest] # NoFile
  BY DEF AlreadyThere, StoreInv, ReaderOK
<1>2. PICK r : r = [reader[p] EXCEPT !.at = "answered", !.done = 0, !.read = NoFile]
  OBVIOUS
<1>3. r \in ReaderState /\ r.at = "answered" /\ r.digest = reader[p].digest
  BY <1>1, <1>2, Answered
<1>4. r.digest \in held /\ object[r.digest] = r.digest
  BY <1>1, <1>3 DEF WholeOrTold, StoreInv, ObjectsOK
<1>5. UNCHANGED <<source, object, partial, changes, deaths, held>>
      /\ reader' = [reader EXCEPT ![p] = r]
  BY <1>2 DEF AlreadyThere, Ends
<1>6. ReaderOK(p, r)'
  BY <1>3, <1>4, <1>5 DEF ReaderOK, AnswerTrue
<1> QED
  BY <1>5, <1>6, ReaderMoves DEF StoreInv, StoreTypes

LEMMA OpenCopyInv ==
  ASSUME StoreInv, NEW p \in Reader, OpenCopy(p)
  PROVE  StoreInv'
<1>1. reader[p] \in ReaderState /\ reader[p].at = "open" /\ WholeOrTold(reader[p])
  BY DEF OpenCopy, StoreInv, ReaderOK
<1>2. PICK r : r = [reader[p] EXCEPT !.at = "copy", !.done = 0]
  OBVIOUS
<1>3. r \in ReaderState /\ r.at = "copy" /\ r.done = 0 /\ r.digest = reader[p].digest
  <2>1. r = [at |-> "copy", task |-> reader[p].task, done |-> 0,
             digest |-> reader[p].digest, read |-> reader[p].read]
    BY <1>1, <1>2 DEF ReaderState
  <2>2. 0 \in 0..Chunks
    BY ContentAssumption
  <2> QED
    BY <1>1, <2>1, <2>2 DEF ReaderState
<1>4. WholeOrTold(r)
  BY <1>1, <1>3 DEF WholeOrTold, Telltale, Chunk
<1>5. /\ UNCHANGED <<source, object, changes, deaths, held>>
      /\ reader' = [reader EXCEPT ![p] = r]
      /\ partial' = [partial EXCEPT ![<<p, reader[p].digest>>] = NoFile]
  BY <1>2 DEF OpenCopy, TempOf
<1>6. partial' \in [Reader \X Bytes -> File]
      /\ \A q \in Reader \ {p}, d \in Bytes : partial'[<<q, d>>] = partial[<<q, d>>]
  BY <1>5, FilesApart DEF StoreInv, StoreTypes
<1>7. ReaderOK(p, r)'
  BY <1>3, <1>4, <1>5 DEF ReaderOK, WholeOrTold, Telltale, CopyAsRead
<1> QED
  BY <1>5, <1>6, <1>7, ReaderMoves DEF StoreInv, StoreTypes

\* The second reading keeps the telltale: it reads the chunk when it is ahead.
LEMMA CopyChunkInv ==
  ASSUME StoreInv, NEW p \in Reader, CopyChunk(p)
  PROVE  StoreInv'
<1>1. PICK i : i = reader[p].done + 1
  OBVIOUS
<1>2. /\ reader[p] \in ReaderState /\ reader[p].at = "copy" /\ i \in Chunk
      /\ WholeOrTold(reader[p]) /\ CopyAsRead(p, reader[p])
  BY <1>1 DEF CopyChunk, StoreInv, ReaderOK
<1>3. PICK r : r = [reader[p] EXCEPT !.done = i, !.read[i] = source[i]]
  OBVIOUS
<1>4. /\ r.at = "copy" /\ r.task = reader[p].task /\ r.done = i
      /\ r.digest = reader[p].digest
      /\ r.read = [reader[p].read EXCEPT ![i] = source[i]]
      /\ r = [at |-> r.at, task |-> r.task, done |-> r.done, digest |-> r.digest,
              read |-> r.read]
  BY <1>2, <1>3 DEF ReaderState
<1>5. /\ source \in Bytes /\ reader[p].read \in File /\ r.digest \in Bytes
      /\ reader[p].done \in 0..Chunks
  BY <1>2, <1>4 DEF StoreInv, StoreTypes, ReaderState, WholeOrTold
<1>6. r \in ReaderState
  <2>1. r.read \in File
    BY <1>2, <1>4, <1>5 DEF File, Bytes
  <2>2. i \in 0..Chunks
    BY <1>2, ContentAssumption DEF Chunk
  <2> QED
    BY <1>2, <1>4, <2>1, <2>2 DEF ReaderState
<1>7. /\ \A k \in Chunk : r.read[k] = IF k = i THEN source[i] ELSE reader[p].read[k]
      /\ \A k \in 1..i : k \in Chunk /\ (k # i => k \in 1..reader[p].done)
  BY <1>1, <1>2, <1>4, <1>5, ContentAssumption DEF File, Chunk
<1>8. WholeOrTold(r)
  <2>1. CASE r.digest \in held
    BY <1>5, <2>1 DEF WholeOrTold
  <2>2. ASSUME NEW k \in Chunk, Telltale(reader[p], k)
        PROVE  Telltale(r, k)
    <3>1. k <= r.done => k = i \/ k <= reader[p].done
      BY <1>1, <1>4, <1>5 DEF Chunk
    <3> QED
      BY <1>2, <1>4, <1>7, <2>2, <3>1 DEF Telltale
  <2> QED
    BY <1>2, <1>4, <1>5, <2>1, <2>2 DEF WholeOrTold
<1>9. /\ UNCHANGED <<source, object, changes, deaths, held>>
      /\ reader' = [reader EXCEPT ![p] = r]
      /\ partial' = [partial EXCEPT ![<<p, r.digest>>][i] = source[i]]
  BY <1>1, <1>3, <1>4 DEF CopyChunk, TempOf
<1>10. /\ partial' \in [Reader \X Bytes -> File]
       /\ \A q \in Reader \ {p}, d \in Bytes : partial'[<<q, d>>] = partial[<<q, d>>]
       /\ partial'[<<p, r.digest>>] = [partial[<<p, r.digest>>] EXCEPT ![i] = source[i]]
       /\ partial[<<p, r.digest>>] \in File
  <2>1. <<p, r.digest>> \in Reader \X Bytes /\ partial \in [Reader \X Bytes -> File]
    BY <1>5 DEF StoreInv, StoreTypes
  <2>2. PICK f : f = [partial[<<p, r.digest>>] EXCEPT ![i] = source[i]]
    OBVIOUS
  <2>3. f \in File
    BY <1>2, <1>5, <2>1, <2>2 DEF File, Bytes
  <2>4. partial' = [partial EXCEPT ![<<p, r.digest>>] = f]
    BY <1>9, <2>2
  <2> QED
    BY <2>1, <2>2, <2>3, <2>4
<1>11. CopyAsRead(p, r)'
  <2> SUFFICES ASSUME NEW k \in 1..i
               PROVE  /\ r.read[k] \in 0..MaxChanges
                      /\ partial'[<<p, r.digest>>][k] = r.read[k]
    BY <1>4 DEF CopyAsRead
  <2>1. CASE k = i
    BY <1>2, <1>5, <1>7, <1>10, <2>1 DEF File, Bytes
  <2>2. CASE k # i
    BY <1>2, <1>4, <1>7, <1>10, <2>2 DEF File, CopyAsRead
  <2> QED
    BY <2>1, <2>2
<1>12. ReaderOK(p, r)'
  BY <1>4, <1>6, <1>8, <1>9, <1>11 DEF ReaderOK, WholeOrTold, Telltale
<1> QED
  BY <1>9, <1>10, <1>12, ReaderMoves DEF StoreInv, StoreTypes

-----------------------------------------------------------------------------
(* The ends of the two calls, and the environment.                           *)

\* A finished copy that equals its digest is of a content the source has had.
LEMMA WholeCopy ==
  ASSUME StoreInv, NEW p \in Reader, reader[p].at = "copy", reader[p].done = Chunks
  PROVE  /\ reader[p] \in ReaderState /\ reader[p].digest \in Bytes
         /\ partial[<<p, reader[p].digest>>] \in File
         /\ partial[<<p, reader[p].digest>>] = reader[p].read
         /\ reader[p].read = reader[p].digest => reader[p].digest \in held
<1>1. /\ reader[p] \in ReaderState /\ WholeOrTold(reader[p]) /\ CopyAsRead(p, reader[p])
      /\ reader[p].read \in File
  BY DEF StoreInv, ReaderOK, ReaderState
<1>2. reader[p].digest \in Bytes /\ partial[<<p, reader[p].digest>>] \in File
  BY <1>1 DEF WholeOrTold, StoreInv, StoreTypes
<1>3. \A i \in Chunk : partial[<<p, reader[p].digest>>][i] = reader[p].read[i]
  BY <1>1 DEF CopyAsRead, Chunk
<1>4. partial[<<p, reader[p].digest>>] = reader[p].read
  BY <1>1, <1>2, <1>3 DEF File
<1>5. ASSUME reader[p].read = reader[p].digest PROVE ~ \E i \in Chunk : Telltale(reader[p], i)
  <2> SUFFICES ASSUME NEW i \in Chunk, Telltale(reader[p], i) PROVE FALSE
    OBVIOUS
  <2>1. i <= reader[p].done
    BY ContentAssumption DEF Chunk
  <2>2. reader[p].digest[i] \in Int /\ reader[p].digest[i] < reader[p].digest[i]
    BY <1>2, <1>5, <2>1 DEF Telltale, Bytes
  <2> QED
    BY <2>2
<1> QED
  BY <1>1, <1>2, <1>4, <1>5 DEF WholeOrTold

\* A thread that ends leaves its partial empty.
LEMMA Emptied ==
  ASSUME StoreInv, NEW p \in Reader, partial' = [partial EXCEPT ![TempOf(p)] = NoFile]
  PROVE  /\ partial' \in [Reader \X Bytes -> File]
         /\ \A q \in Reader \ {p}, d \in Bytes : partial'[<<q, d>>] = partial[<<q, d>>]
BY FilesApart DEF StoreInv, StoreTypes, TempOf

LEMMA InstallInv ==
  ASSUME StoreInv, NEW p \in Reader, Install(p)
  PROVE  StoreInv'
<1>1. /\ reader[p].at = "copy" /\ reader[p].done = Chunks
      /\ partial' = [partial EXCEPT ![TempOf(p)] = NoFile]
      /\ UNCHANGED <<source, changes, deaths, held>>
  BY DEF Install, FinishPut
<1>2. deaths' \in 0..MaxDeaths
  BY <1>1 DEF StoreInv, StoreTypes
<1>3. CASE reader[p].read # reader[p].digest
  <2>1. reader' = [reader EXCEPT ![p] = Resting] /\ object' = object
    BY <1>3 DEF Install, FinishPut, Ends
  <2> QED
    BY <1>1, <1>2, <2>1, Emptied, RestingOK, ReaderMoves DEF StoreInv, StoreTypes
<1>4. CASE reader[p].read = reader[p].digest
  <2>1. PICK r : r = [reader[p] EXCEPT !.at = "answered", !.done = 0, !.read = NoFile]
    OBVIOUS
  <2>2. reader' = [reader EXCEPT ![p] = r]
    BY <1>4, <2>1 DEF Install, FinishPut, Ends
  <2>3. /\ r \in ReaderState /\ r.at = "answered" /\ r.digest = reader[p].digest
        /\ r.digest \in Bytes /\ r.digest \in held
    BY <1>1, <1>4, <2>1, WholeCopy, Answered
  <2>4. object' = [object EXCEPT ![r.digest] = r.digest]
    BY <1>1, <1>4, <2>3, WholeCopy DEF Install, FinishPut, TempOf
  <2>5. /\ object' \in [Bytes -> File] /\ object'[r.digest] = r.digest
        /\ \A d \in Bytes : object'[d] = object[d] \/ (object'[d] = d /\ d \in held)
    BY <2>3, <2>4, FilesApart DEF StoreInv, StoreTypes
  <2>6. ReaderOK(p, r)'
    BY <1>1, <2>3, <2>5 DEF ReaderOK, AnswerTrue
  <2> QED
    BY <1>1, <1>2, <2>2, <2>5, <2>6, Emptied, ReaderMoves
<1> QED
  BY <1>3, <1>4

LEMMA VerifyPackInv ==
  ASSUME StoreInv, NEW p \in Reader, VerifyPack(p)
  PROVE  StoreInv'
<1>1. /\ reader[p].at = "copy" /\ reader[p].done = Chunks /\ reader[p].task = "pack"
      /\ partial' = [partial EXCEPT ![TempOf(p)] = NoFile]
      /\ UNCHANGED <<source, object, changes, deaths, held>>
  BY DEF VerifyPack
<1>2. deaths' \in 0..MaxDeaths /\ object' \in [Bytes -> File]
  BY <1>1 DEF StoreInv, StoreTypes
<1>3. CASE partial[TempOf(p)] # reader[p].digest
  <2>1. reader' = [reader EXCEPT ![p] = Resting]
    BY <1>3 DEF VerifyPack, Ends
  <2> QED
    BY <1>1, <1>2, <2>1, Emptied, RestingOK, ReaderMoves
<1>4. CASE partial[TempOf(p)] = reader[p].digest
  <2>1. PICK r : r = [reader[p] EXCEPT !.at = "answered", !.done = 0, !.read = NoFile]
    OBVIOUS
  <2>2. reader' = [reader EXCEPT ![p] = r]
    BY <1>4, <2>1 DEF VerifyPack, Ends
  <2>3. /\ r \in ReaderState /\ r.at = "answered" /\ r.task = "pack" /\ r.digest \in held
    BY <1>1, <1>4, <2>1, WholeCopy, Answered DEF TempOf
  <2>4. ReaderOK(p, r)'
    BY <1>1, <2>3 DEF ReaderOK, AnswerTrue
  <2> QED
    BY <1>1, <1>2, <2>2, <2>4, Emptied, ReaderMoves
<1> QED
  BY <1>3, <1>4

LEMMA ReaderDiesInv ==
  ASSUME StoreInv, NEW p \in Reader, ReaderDies(p)
  PROVE  StoreInv'
<1>1. deaths' \in 0..MaxDeaths
  BY ContentAssumption DEF ReaderDies, StoreInv, StoreTypes
<1>2. reader' = [reader EXCEPT ![p] = Resting] /\ UNCHANGED <<source, object, partial, changes, held>>
  BY DEF ReaderDies
<1> QED
  BY <1>1, <1>2, RestingOK, ReaderMoves DEF StoreInv, StoreTypes

\* An edit only raises the chunk it writes, so no digest catches up.
LEMMA WriteSourceInv ==
  ASSUME StoreInv, NEW i \in Chunk, WriteSource(i)
  PROVE  StoreInv'
<1>1. /\ changes < MaxChanges /\ changes' = changes + 1
      /\ source' = [source EXCEPT ![i] = changes + 1]
      /\ held' = held \cup {source'}
      /\ UNCHANGED <<object, partial, reader, deaths>>
  BY DEF WriteSource
<1>2. /\ source \in Bytes /\ changes \in 0..MaxChanges /\ held \subseteq Bytes
      /\ \A k \in Chunk : source[k] \in 0..changes
  BY ContentAssumption DEF StoreInv, StoreTypes, SourceKnown, Bytes
<1>3. /\ source' \in Bytes /\ changes' \in 0..MaxChanges
      /\ \A k \in Chunk : source'[k] \in 0..changes' /\ source[k] <= source'[k]
  BY <1>1, <1>2, ContentAssumption DEF Bytes
<1>4. StoreTypes' /\ SourceKnown' /\ ObjectsOK'
  <2>1. StoreTypes'
    BY <1>1, <1>2, <1>3 DEF StoreInv, StoreTypes
  <2>2. SourceKnown'
    BY <1>1, <1>3, ContentAssumption DEF SourceKnown
  <2>3. ObjectsOK'
    BY <1>1 DEF StoreInv, ObjectsOK
  <2> QED
    BY <2>1, <2>2, <2>3
<1>5. ASSUME NEW p \in Reader PROVE ReaderOK(p, reader[p])'
  <2>1. ReaderOK(p, reader[p]) /\ reader'[p] = reader[p]
    BY <1>1 DEF StoreInv
  <2>2. HashBehind(reader[p]) /\ reader[p] \in ReaderState => HashBehind(reader[p])'
    <3> SUFFICES ASSUME HashBehind(reader[p]), reader[p] \in ReaderState,
                        NEW k \in 1..reader[p].done
                 PROVE  reader[p].digest[k] \in 0..source'[k]
      BY <2>1 DEF HashBehind
    <3>1. k \in Chunk
      BY ContentAssumption DEF ReaderState, Chunk
    <3> QED
      BY <1>2, <1>3, <3>1 DEF HashBehind
  <2>3. WholeOrTold(reader[p]) => WholeOrTold(reader[p])'
    <3>1. ASSUME NEW k \in Chunk, reader[p].digest \in Bytes, Telltale(reader[p], k)
          PROVE  Telltale(reader[p], k)'
      <4>1. reader[p].digest[k] \in Int /\ source[k] \in Int /\ source'[k] \in Int
        BY <1>2, <1>3, <3>1 DEF Bytes
      <4> QED
        BY <1>3, <2>1, <3>1, <4>1 DEF Telltale
    <3> QED
      BY <1>1, <2>1, <3>1 DEF WholeOrTold
  <2>4. CopyAsRead(p, reader[p]) => CopyAsRead(p, reader[p])'
    BY <1>1 DEF CopyAsRead
  <2>5. AnswerTrue(reader[p]) => AnswerTrue(reader[p])'
    BY <1>1 DEF AnswerTrue
  <2> QED
    BY <2>1, <2>2, <2>3, <2>4, <2>5 DEF ReaderOK
<1> QED
  BY <1>4, <1>5 DEF StoreInv

-----------------------------------------------------------------------------

LEMMA NextInv == StoreInv /\ [StoreNext]_storeVars => StoreInv'
<1> SUFFICES ASSUME StoreInv, [StoreNext]_storeVars PROVE StoreInv'
  OBVIOUS
<1>1. CASE UNCHANGED storeVars
  BY <1>1 DEF storeVars, StoreInv, StoreTypes, SourceKnown, ObjectsOK, ReaderOK, HashBehind,
              WholeOrTold, Telltale, CopyAsRead, AnswerTrue
<1>2. ASSUME NEW p \in Reader
      PROVE  /\ \A kind \in {"put", "pack"} : Begin(p, kind) => StoreInv'
             /\ HashChunk(p) \/ AlreadyThere(p) \/ NotThere(p) \/ OpenCopy(p) => StoreInv'
             /\ CopyChunk(p) \/ Install(p) \/ VerifyPack(p) \/ ReaderDies(p) => StoreInv'
  BY BeginInv, HashChunkInv, AlreadyThereInv, NotThereInv, OpenCopyInv, CopyChunkInv,
     InstallInv, VerifyPackInv, ReaderDiesInv
<1>3. \A i \in Chunk : WriteSource(i) => StoreInv'
  BY WriteSourceInv
<1> QED
  BY <1>1, <1>2, <1>3 DEF StoreNext

\* Whatever other programs write to the source while it is read twice, and
\* whichever threads put it at once or die, an object of the store is whole and
\* named rightly, an answered put has its object, and what is stored or packed
\* was the source's whole content at one moment.
THEOREM StoredWhole == StoreSpec => []StoreSound
BY InitInv, NextInv, InvSound, PTL DEF StoreSpec

-----------------------------------------------------------------------------
(* The setup of the media server.  Only a request that is served turns remote *)
(* access off or closes the wizard, and a client passes the first of the two  *)
(* over only once somebody has sent the second: so the wizard is never closed *)
(* before remote access is off, and whoever is through finds it closed.       *)

WizardOrder ==
  /\ ~server.open => ~server.remote
  /\ \A a \in Admin : /\ admin[a].step >= 5 => ~server.remote
                      /\ admin[a].step = 6 => ~server.open
                      /\ admin[a].added => admin[a].token

MediaInv == SetupSealed /\ WizardOrder

LEMMA MediaConstants == /\ Len(Wizard) = 5 /\ DOMAIN Wizard = 1..5
                        /\ MaxRestarts \in Nat /\ MaxLost \in Nat /\ MaxQuits \in Nat
                        /\ Nobody \notin Admin
                        /\ \A r \in Refusable : r = "culture"
BY MediaAssumption DEF Wizard

LEMMA Requests == /\ Wizard[1] = "get" /\ Wizard[2] = "culture" /\ Wizard[3] = "user"
                  /\ Wizard[4] = "remote" /\ Wizard[5] = "complete"
BY DEF Wizard

\* The state a step of client a leads to.
LEMMA ServerOf ==
  ASSUME MediaTypes
  PROVE  /\ server \in [up : BOOLEAN, open : BOOLEAN, account : Admin \cup {Nobody},
                        remote : BOOLEAN, library : BOOLEAN]
         /\ admin \in [Admin -> [step : 0..6, token : BOOLEAN, added : BOOLEAN]]
         /\ faults \in [restarts : 0..MaxRestarts, lost : 0..MaxLost, quits : 0..MaxQuits]
BY MediaConstants DEF MediaTypes

LEMMA MediaInitInv == MediaInit => MediaInv
BY MediaConstants DEF MediaInit, MediaInv, SetupSealed, WizardOrder, MediaTypes, Begun

\* A step that neither opens the wizard nor changes an account, and advances
\* no client.
LEMMA ServerMoves ==
  ASSUME MediaInv, UNCHANGED admin,
         server' \in [up : BOOLEAN, open : BOOLEAN, account : Admin \cup {Nobody},
                      remote : BOOLEAN, library : BOOLEAN],
         faults' \in [restarts : 0..MaxRestarts, lost : 0..MaxLost, quits : 0..MaxQuits],
         server.open = server'.open /\ server.account = server'.account
           /\ server.remote = server'.remote,
         server.library => server'.library, server'.library => ~server.open
  PROVE  MediaInv'
BY DEF MediaInv, SetupSealed, WizardOrder, MediaTypes

LEMMA ServedInv ==
  ASSUME MediaInv, NEW a \in Admin, admin[a].step \in DOMAIN Wizard, server.open,
         server' = Served(a, Request(a)),
         faults' \in [restarts : 0..MaxRestarts, lost : 0..MaxLost, quits : 0..MaxQuits],
         UNCHANGED admin \/ Onward(a)
  PROVE  MediaInv'
<1>1. /\ server \in [up : BOOLEAN, open : BOOLEAN, account : Admin \cup {Nobody},
                     remote : BOOLEAN, library : BOOLEAN]
      /\ admin \in [Admin -> [step : 0..6, token : BOOLEAN, added : BOOLEAN]]
      /\ admin[a].step \in 1..5
  BY ServerOf, MediaConstants DEF MediaInv, SetupSealed
<1>2. (\A b \in Admin : ~admin[b].token) /\ ~server.library
  BY DEF MediaInv, SetupSealed
<1>3. /\ server' \in [up : BOOLEAN, open : BOOLEAN, account : Admin \cup {Nobody},
                      remote : BOOLEAN, library : BOOLEAN]
      /\ server'.library = server.library
      /\ server'.open = server.open \/ (admin[a].step = 5 /\ ~server'.open)
      /\ admin[a].step = 5 => ~server'.open
      /\ server'.remote = server.remote \/ (admin[a].step = 4 /\ ~server'.remote)
      /\ admin[a].step = 4 => ~server'.remote
  <2>1. CASE admin[a].step \in {1, 2}
    BY <1>1, <2>1, Requests DEF Served, Request
  <2>2. CASE admin[a].step = 3
    BY <1>1, <2>2, Requests DEF Served, Request
  <2>3. CASE admin[a].step = 4
    BY <1>1, <2>3, Requests DEF Served, Request
  <2>4. CASE admin[a].step = 5
    BY <1>1, <2>4, Requests DEF Served, Request
  <2>5. admin[a].step \in {1, 2} \/ admin[a].step = 3 \/ admin[a].step = 4 \/ admin[a].step = 5
    BY <1>1
  <2> QED
    BY <2>1, <2>2, <2>3, <2>4, <2>5
<1>4. /\ admin' \in [Admin -> [step : 0..6, token : BOOLEAN, added : BOOLEAN]]
      /\ \A b \in Admin : /\ admin'[b].token = admin[b].token
                          /\ admin'[b].added = admin[b].added
                          /\ admin'[b].step = admin[b].step
                               \/ (b = a /\ admin'[b].step = admin[a].step + 1)
  <2>1. CASE UNCHANGED admin
    BY <1>1, <2>1
  <2>2. CASE Onward(a)
    <3>1. PICK row : row = [admin[a] EXCEPT !.step = admin[a].step + 1]
      OBVIOUS
    <3>2. /\ row \in [step : 0..6, token : BOOLEAN, added : BOOLEAN]
          /\ row.step = admin[a].step + 1 /\ row.token = admin[a].token
          /\ row.added = admin[a].added
      BY <1>1, <3>1
    <3>3. admin' = [admin EXCEPT ![a] = row]
      BY <2>2, <3>1 DEF Onward
    <3> QED
      BY <1>1, <3>2, <3>3
  <2> QED
    BY <2>1, <2>2
<1>5. MediaTypes'
  BY <1>3, <1>4, MediaConstants DEF MediaTypes
<1>6. SetupSealed'
  BY <1>2, <1>3, <1>4, <1>5 DEF SetupSealed
<1>7. WizardOrder'
  <2>1. WizardOrder /\ (admin[a].step = 5 => ~server.remote)
    BY DEF MediaInv, WizardOrder
  <2>2. ~server'.open => ~server'.remote
    BY <1>3, <2>1
  <2>3. ASSUME NEW b \in Admin
        PROVE  /\ admin'[b].step >= 5 => ~server'.remote
               /\ admin'[b].step = 6 => ~server'.open
               /\ admin'[b].added => admin'[b].token
    <3>1. CASE admin'[b].step = admin[b].step
      BY <1>1, <1>3, <1>4, <2>1, <3>1 DEF WizardOrder
    <3>2. CASE b = a /\ admin'[b].step = admin[a].step + 1
      BY <1>1, <1>3, <1>4, <2>1, <3>2 DEF WizardOrder
    <3> QED
      BY <1>4, <3>1, <3>2
  <2> QED
    BY <2>2, <2>3 DEF WizardOrder
<1> QED
  BY <1>6, <1>7 DEF MediaInv

LEMMA PassOverInv ==
  ASSUME MediaInv, NEW a \in Admin, Reached(a) \/ PassOver(a)
  PROVE  MediaInv'
<1>1. /\ admin \in [Admin -> [step : 0..6, token : BOOLEAN, added : BOOLEAN]]
      /\ UNCHANGED <<server, faults>>
      /\ Onward(a)
      /\ admin[a].step \in 0..5
  BY ServerOf, MediaConstants DEF MediaInv, SetupSealed, Reached, PassOver
<1>2. admin[a].step > 2 => ~server.open
  <2>1. ASSUME admin[a].step > 2, server.open PROVE FALSE
    <3>1. Request(a) = "culture"
      BY <1>1, <2>1, MediaConstants DEF Reached, PassOver
    <3> QED
      BY <1>1, <2>1, <3>1, Requests DEF Request
  <2> QED
    BY <2>1
<1>3. PICK row : row = [admin[a] EXCEPT !.step = admin[a].step + 1]
  OBVIOUS
<1>4. /\ row \in [step : 0..6, token : BOOLEAN, added : BOOLEAN]
      /\ row.step = admin[a].step + 1 /\ row.token = admin[a].token /\ row.added = admin[a].added
  BY <1>1, <1>3
<1>5. admin' = [admin EXCEPT ![a] = row]
  BY <1>1, <1>3 DEF Onward
<1>6. \A b \in Admin : admin'[b] = IF b = a THEN row ELSE admin[b]
  BY <1>1, <1>5
<1>7. MediaTypes'
  BY <1>1, <1>4, <1>5, MediaConstants DEF MediaInv, SetupSealed, MediaTypes
<1>8. SetupSealed'
  BY <1>1, <1>4, <1>6, <1>7 DEF MediaInv, SetupSealed
<1>9. WizardOrder'
  BY <1>1, <1>2, <1>4, <1>6 DEF MediaInv, WizardOrder
<1> QED
  BY <1>8, <1>9 DEF MediaInv

LEMMA AuthenticateInv ==
  ASSUME MediaInv, NEW a \in Admin, Authenticate(a)
  PROVE  MediaInv'
<1>1. /\ admin \in [Admin -> [step : 0..6, token : BOOLEAN, added : BOOLEAN]]
      /\ UNCHANGED <<server, faults>>
      /\ admin[a].step = 6 /\ server.account = a
  BY ServerOf, MediaConstants DEF MediaInv, SetupSealed, Authenticate
<1>2. PICK row : row = [admin[a] EXCEPT !.token = TRUE]
  OBVIOUS
<1>3. /\ row \in [step : 0..6, token : BOOLEAN, added : BOOLEAN]
      /\ row.step = admin[a].step /\ row.token /\ row.added = admin[a].added
  BY <1>1, <1>2
<1>4. admin' = [admin EXCEPT ![a] = row]
  BY <1>2 DEF Authenticate
<1>5. \A b \in Admin : admin'[b] = IF b = a THEN row ELSE admin[b]
  BY <1>1, <1>4
<1>6. MediaTypes'
  BY <1>1, <1>3, <1>4, MediaConstants DEF MediaInv, SetupSealed, MediaTypes
<1> QED
  BY <1>1, <1>3, <1>5, <1>6 DEF MediaInv, SetupSealed, WizardOrder, Authenticate

LEMMA GiveUpSetupInv ==
  ASSUME MediaInv, NEW a \in Admin, GiveUpSetup(a)
  PROVE  MediaInv'
<1>1. /\ server \in [up : BOOLEAN, open : BOOLEAN, account : Admin \cup {Nobody},
                     remote : BOOLEAN, library : BOOLEAN]
      /\ admin \in [Admin -> [step : 0..6, token : BOOLEAN, added : BOOLEAN]]
      /\ faults \in [restarts : 0..MaxRestarts, lost : 0..MaxLost, quits : 0..MaxQuits]
  BY ServerOf DEF MediaInv, SetupSealed
<1>2. /\ server' \in [up : BOOLEAN, open : BOOLEAN, account : Admin \cup {Nobody},
                      remote : BOOLEAN, library : BOOLEAN]
      /\ server'.open = server.open /\ server'.remote = server.remote
      /\ server'.library = server.library
      /\ server'.account = server.account \/ server.account = a
  BY <1>1 DEF GiveUpSetup
<1>3. faults' \in [restarts : 0..MaxRestarts, lost : 0..MaxLost, quits : 0..MaxQuits]
  <2>1. faults.quits \in Nat /\ faults.quits < MaxQuits
    BY <1>1, MediaConstants DEF GiveUpSetup
  <2> QED
    BY <1>1, <2>1, MediaConstants DEF GiveUpSetup
<1>4. /\ admin' \in [Admin -> [step : 0..6, token : BOOLEAN, added : BOOLEAN]]
      /\ \A b \in Admin : admin'[b] = IF b = a THEN Begun ELSE admin[b]
      /\ Begun.step = 0 /\ ~Begun.token /\ ~Begun.added
      /\ ~admin[a].token
  BY <1>1 DEF GiveUpSetup, Begun
<1>5. MediaTypes'
  BY <1>2, <1>3, <1>4, MediaConstants DEF MediaTypes
<1>6. SetupSealed'
  BY <1>1, <1>2, <1>4, <1>5 DEF MediaInv, SetupSealed
<1>7. WizardOrder'
  BY <1>1, <1>2, <1>4 DEF MediaInv, WizardOrder
<1> QED
  BY <1>6, <1>7 DEF MediaInv

LEMMA AddLibraryInv ==
  ASSUME MediaInv, NEW a \in Admin, AddLibrary(a)
  PROVE  MediaInv'
<1>1. /\ server \in [up : BOOLEAN, open : BOOLEAN, account : Admin \cup {Nobody},
                     remote : BOOLEAN, library : BOOLEAN]
      /\ admin \in [Admin -> [step : 0..6, token : BOOLEAN, added : BOOLEAN]]
      /\ UNCHANGED faults
      /\ admin[a].token
  BY ServerOf DEF MediaInv, SetupSealed, AddLibrary
<1>2. /\ server' \in [up : BOOLEAN, open : BOOLEAN, account : Admin \cup {Nobody},
                      remote : BOOLEAN, library : BOOLEAN]
      /\ server'.open = server.open /\ server'.remote = server.remote
      /\ server'.account = server.account /\ server'.library
  BY <1>1 DEF AddLibrary
<1>3. PICK row : row = [admin[a] EXCEPT !.added = TRUE]
  OBVIOUS
<1>4. /\ row \in [step : 0..6, token : BOOLEAN, added : BOOLEAN]
      /\ row.step = admin[a].step /\ row.token
  BY <1>1, <1>3
<1>5. admin' = [admin EXCEPT ![a] = row]
  BY <1>3 DEF AddLibrary
<1>6. \A b \in Admin : admin'[b] = IF b = a THEN row ELSE admin[b]
  BY <1>1, <1>5
<1>7. MediaTypes'
  BY <1>1, <1>2, <1>4, <1>5, MediaConstants DEF MediaInv, SetupSealed, MediaTypes
<1> QED
  BY <1>1, <1>2, <1>4, <1>6, <1>7 DEF MediaInv, SetupSealed, WizardOrder

\* What the server does on its own, and a library whose answer is lost.
LEMMA ServerStepInv ==
  ASSUME MediaInv, ServerUp \/ ServerRestarts \/ (\E a \in Admin : AddLibraryLost(a))
  PROVE  MediaInv'
<1>1. /\ server \in [up : BOOLEAN, open : BOOLEAN, account : Admin \cup {Nobody},
                     remote : BOOLEAN, library : BOOLEAN]
      /\ faults \in [restarts : 0..MaxRestarts, lost : 0..MaxLost, quits : 0..MaxQuits]
      /\ server.library => ~server.open
  BY ServerOf DEF MediaInv, SetupSealed
<1>2. CASE ServerUp
  BY <1>1, <1>2, ServerMoves DEF ServerUp
<1>3. CASE ServerRestarts
  <2>1. faults' \in [restarts : 0..MaxRestarts, lost : 0..MaxLost, quits : 0..MaxQuits]
    BY <1>1, <1>3, MediaConstants DEF ServerRestarts
  <2> QED
    BY <1>1, <1>3, <2>1, ServerMoves DEF ServerRestarts
<1>4. ASSUME NEW a \in Admin, AddLibraryLost(a) PROVE MediaInv'
  <2>1. faults' \in [restarts : 0..MaxRestarts, lost : 0..MaxLost, quits : 0..MaxQuits]
    BY <1>1, <1>4, MediaConstants DEF AddLibraryLost
  <2>2. ~server.open
    BY <1>4 DEF MediaInv, SetupSealed, AddLibraryLost
  <2> QED
    BY <1>1, <1>4, <2>1, <2>2, ServerMoves DEF AddLibraryLost
<1> QED
  BY <1>2, <1>3, <1>4

LEMMA MediaNextInv == MediaInv /\ [MediaNext]_mediaVars => MediaInv'
<1> SUFFICES ASSUME MediaInv, [MediaNext]_mediaVars PROVE MediaInv'
  OBVIOUS
<1>1. ASSUME NEW a \in Admin, Post(a) PROVE MediaInv'
  <2>1. faults' \in [restarts : 0..MaxRestarts, lost : 0..MaxLost, quits : 0..MaxQuits]
    BY <1>1, ServerOf DEF MediaInv, SetupSealed, Post
  <2> QED
    BY <1>1, <2>1, ServedInv DEF Post
<1>2. ASSUME NEW a \in Admin, PostLost(a) PROVE MediaInv'
  <2>1. faults' \in [restarts : 0..MaxRestarts, lost : 0..MaxLost, quits : 0..MaxQuits]
    BY <1>2, ServerOf, MediaConstants DEF MediaInv, SetupSealed, PostLost
  <2> QED
    BY <1>2, <2>1, ServedInv DEF PostLost
<1>3. ASSUME NEW a \in Admin,
             Reached(a) \/ PassOver(a) \/ Authenticate(a) \/ GiveUpSetup(a) \/ AddLibrary(a)
      PROVE  MediaInv'
  BY <1>3, PassOverInv, AuthenticateInv, GiveUpSetupInv, AddLibraryInv
<1>4. CASE UNCHANGED mediaVars
  BY <1>4 DEF mediaVars, MediaInv, SetupSealed, WizardOrder, MediaTypes
<1> QED
  BY <1>1, <1>2, <1>3, <1>4, ServerStepInv DEF MediaNext

\* Whoever gets a token has set the server up for good: its password, a closed
\* wizard, no remote access; and no library is there before.
THEOREM SetupStaysSealed == MediaSpec => []SetupSealed
<1>1. MediaInit => MediaInv
  BY MediaInitInv
<1>2. MediaInv /\ [MediaNext]_mediaVars => MediaInv'
  BY MediaNextInv
<1>3. MediaInv => SetupSealed
  BY DEF MediaInv
<1> QED
  BY <1>1, <1>2, <1>3, PTL DEF MediaSpec

-----------------------------------------------------------------------------
(* Transfers by rclone.  Whatever is written while a check runs is noted in   *)
(* what the two sides have held, so each reading of the check is among them.  *)

TaskState == [at : {"queued", "copy", "copied", "check", "hash", "done", "failed"},
              tries : 0..MaxTries, carried : Data \cup {Unread},
              here : Data \cup {Unread}, there : Data \cup {Unread},
              heldHere : SUBSET Data, heldThere : SUBSET Data]

Outside(t) == {From[t], To[t]} \cap Protected = {}

\* What holds of job t in state r, while the places hold d.
TaskOK(t, r, d) ==
  /\ r \in TaskState
  /\ r.at # "check" => r.here = Unread /\ r.there = Unread
  /\ r.at = "check" => /\ d[From[t]] \in r.heldHere /\ d[To[t]] \in r.heldThere
                       /\ r.here \in r.heldHere \cup {Unread}
                       /\ r.there \in r.heldThere \cup {Unread}
  /\ r.at \in {"copy", "copied", "check"} => Outside(t)
  /\ r.at = "copy" => r.carried # Unread
  /\ r.at = "hash" => Kind[t] = "VERIFY"
  /\ r.at = "done" => \/ Kind[t] = "VERIFY"
                      \/ (r.heldHere \cap r.heldThere) \ {Absent} # {} /\ Outside(t)
  /\ r.at # "failed" => r.tries < MaxTries

RemoteInv ==
  /\ data \in [Place -> Data]
  /\ task \in [Task -> TaskState]
  /\ orphans \subseteq [job : Task, carried : Data]
  /\ spent \in [edits : 0..MaxEdits, deaths : 0..MaxDeathsOfWorkers]
  /\ \A p \in Protected : data[p] = 0
  /\ \A o \in orphans : Outside(o.job)
  /\ \A t \in Task : TaskOK(t, task[t], data)

LEMMA RemoteConstants == /\ MaxTries \in Nat \ {0} /\ MaxEdits \in Nat /\ MaxDeathsOfWorkers \in Nat
                         /\ \A t \in Task : From[t] \in Place /\ To[t] \in Place
                         /\ \A p \in Protected : p \in Place
                         /\ Unread \notin Data /\ Absent \in Data /\ Garbled \in Data /\ 0 \in Data
                         /\ 0 # Absent
                         /\ \A n \in Nat : n <= MaxEdits => n \in Data
BY RemoteAssumption DEF Data, Unread, Absent, Garbled

LEMMA WaitingState ==
  /\ Waiting \in TaskState
  /\ Waiting.at = "queued" /\ Waiting.here = Unread /\ Waiting.there = Unread /\ Waiting.tries = 0
BY RemoteConstants DEF Waiting, TaskState

LEMMA RemoteInitInv == RemoteInit => RemoteInv
<1> SUFFICES ASSUME RemoteInit PROVE RemoteInv
  OBVIOUS
<1>1. data \in [Place -> Data] /\ \A p \in Protected : data[p] = 0
  BY RemoteConstants DEF RemoteInit
<1>2. ASSUME NEW t \in Task PROVE TaskOK(t, task[t], data)
  BY WaitingState, RemoteConstants DEF RemoteInit, TaskOK
<1> QED
  BY <1>1, <1>2, WaitingState, RemoteConstants DEF RemoteInit, RemoteInv

-----------------------------------------------------------------------------

\* A place outside the boundary gets content d, and the running checks may see
\* that.
LEMMA NoticedOK ==
  ASSUME RemoteInv, NEW p \in Place, p \notin Protected, NEW d \in Data,
         data' = [data EXCEPT ![p] = d]
  PROVE  /\ data' \in [Place -> Data]
         /\ \A q \in Protected : data'[q] = 0
         /\ Noticed(p, d) \in [Task -> TaskState]
         /\ \A t \in Task : /\ TaskOK(t, Noticed(p, d)[t], data')
                            /\ task[t].at # "check" => Noticed(p, d)[t] = task[t]
<1>1. \A q \in Place : data'[q] = IF q = p THEN d ELSE data[q]
  BY DEF RemoteInv
<1>2. ASSUME NEW t \in Task
      PROVE  /\ TaskOK(t, Noticed(p, d)[t], data')
             /\ task[t].at # "check" => Noticed(p, d)[t] = task[t]
  <2>1. TaskOK(t, task[t], data) /\ task[t] \in TaskState
    BY DEF RemoteInv
  <2>2. CASE task[t].at # "check"
    <3>1. Noticed(p, d)[t] = task[t]
      BY <2>2 DEF Noticed
    <3> QED
      BY <2>1, <2>2, <3>1 DEF TaskOK
  <2>3. CASE task[t].at = "check"
    <3> DEFINE hereToo  == task[t].heldHere \cup (IF p = From[t] THEN {d} ELSE {})
               thereToo == task[t].heldThere \cup (IF p = To[t] THEN {d} ELSE {})
    <3>1. PICK r : r = [task[t] EXCEPT !.heldHere = hereToo, !.heldThere = thereToo]
      OBVIOUS
    <3>2. Noticed(p, d)[t] = r
      BY <2>3, <3>1 DEF Noticed
    <3>3. hereToo \in SUBSET Data /\ thereToo \in SUBSET Data
      BY <2>1 DEF TaskState
    <3>4. /\ r \in TaskState
          /\ r.at = "check" /\ r.tries = task[t].tries
          /\ r.here = task[t].here /\ r.there = task[t].there
          /\ r.heldHere = hereToo /\ r.heldThere = thereToo
      BY <2>1, <2>3, <3>1, <3>3 DEF TaskState
    <3>5. data'[From[t]] \in hereToo /\ data'[To[t]] \in thereToo
      BY <1>1, <2>1, <2>3, RemoteConstants DEF TaskOK
    <3> QED
      BY <2>1, <2>3, <3>2, <3>4, <3>5 DEF TaskOK
  <2> QED
    BY <2>2, <2>3
<1>3. Noticed(p, d) \in [Task -> TaskState]
  BY <1>2 DEF Noticed, TaskOK
<1>4. data' \in [Place -> Data] /\ \A q \in Protected : data'[q] = 0
  BY <1>1, RemoteConstants DEF RemoteInv
<1> QED
  BY <1>2, <1>3, <1>4

\* What an ended attempt leaves of its job.
LEMMA EndedOK ==
  ASSUME RemoteInv, NEW t \in Task, NEW tasks \in [Task -> TaskState], NEW d,
         task[t].at \notin {"done", "failed"},
         NEW end \in {"retry", "failed", "done"},
         end = "done" => \/ Kind[t] = "VERIFY"
                         \/ /\ (task[t].heldHere \cap task[t].heldThere) \ {Absent} # {}
                            /\ Outside(t)
  PROVE  /\ Ended(tasks, t, end) \in [Task -> TaskState]
         /\ TaskOK(t, Ended(tasks, t, end)[t], d)
         /\ \A u \in Task \ {t} : Ended(tasks, t, end)[u] = tasks[u]
<1> DEFINE tries == task[t].tries + 1
           r == IF end = "retry"
                THEN [Waiting EXCEPT !.tries = tries,
                                     !.at = IF tries < MaxTries THEN "queued" ELSE "failed"]
                ELSE [Waiting EXCEPT !.tries = task[t].tries, !.at = end,
                        !.heldHere = task[t].heldHere, !.heldThere = task[t].heldThere]
<1>1. Ended(tasks, t, end) = [tasks EXCEPT ![t] = r]
  BY DEF Ended
<1>2. TaskOK(t, task[t], data) /\ task[t] \in TaskState /\ tries \in 0..MaxTries
  BY RemoteConstants DEF RemoteInv, TaskOK, TaskState
<1>3. TaskOK(t, r, d)
  <2>1. CASE end = "retry"
    <3> DEFINE next == IF tries < MaxTries THEN "queued" ELSE "failed"
    <3>1. PICK q : q = [Waiting EXCEPT !.tries = tries, !.at = next]
      OBVIOUS
    <3>2. /\ q \in TaskState /\ q.at = next /\ q.tries = tries
          /\ q.here = Unread /\ q.there = Unread
      BY <1>2, <3>1, WaitingState DEF TaskState
    <3>3. q.at \in {"queued", "failed"} /\ (q.at # "failed" => q.tries < MaxTries)
      BY <3>2
    <3>4. r = q
      BY <2>1, <3>1
    <3> HIDE DEF r, next
    <3> QED
      BY <3>2, <3>3, <3>4 DEF TaskOK
  <2>2. CASE end # "retry"
    <3>1. PICK q : q = [Waiting EXCEPT !.tries = task[t].tries, !.at = end,
                          !.heldHere = task[t].heldHere, !.heldThere = task[t].heldThere]
      OBVIOUS
    <3>2. /\ q \in TaskState /\ q.at = end /\ q.tries = task[t].tries
          /\ q.here = Unread /\ q.there = Unread
          /\ q.heldHere = task[t].heldHere /\ q.heldThere = task[t].heldThere
      <4>1. /\ task[t].heldHere \in SUBSET Data /\ task[t].heldThere \in SUBSET Data
            /\ task[t].tries \in 0..MaxTries /\ end \in {"failed", "done"}
        BY <1>2, <2>2 DEF TaskState
      <4> HIDE DEF tries, r
      <4> QED
        BY <3>1, <4>1, WaitingState DEF TaskState
    <3>3. r = q
      BY <2>2, <3>1
    <3> QED
      BY <1>2, <2>2, <3>2, <3>3 DEF TaskOK
  <2> QED
    BY <2>1, <2>2
<1> QED
  BY <1>1, <1>3 DEF TaskOK

\* A step that changes the state of one job only.
LEMMA OneTask ==
  ASSUME RemoteInv, NEW t \in Task, NEW r, task' = [task EXCEPT ![t] = r], TaskOK(t, r, data),
         UNCHANGED data, orphans' \subseteq [job : Task, carried : Data],
         \A o \in orphans' : Outside(o.job),
         spent' \in [edits : 0..MaxEdits, deaths : 0..MaxDeathsOfWorkers]
  PROVE  RemoteInv'
BY DEF RemoteInv, TaskOK

LEMMA EndsOnly ==
  ASSUME RemoteInv, NEW t \in Task, task[t].at \notin {"done", "failed"},
         NEW end \in {"retry", "failed", "done"}, Finish(t, end),
         UNCHANGED <<data, orphans, spent>>,
         end = "done" => \/ Kind[t] = "VERIFY"
                         \/ /\ (task[t].heldHere \cap task[t].heldThere) \ {Absent} # {}
                            /\ Outside(t)
  PROVE  RemoteInv'
<1>1. task \in [Task -> TaskState] /\ task' = Ended(task, t, end)
  BY DEF RemoteInv, Finish
<1>2. /\ task' \in [Task -> TaskState]
      /\ TaskOK(t, task'[t], data)
      /\ \A u \in Task \ {t} : task'[u] = task[u]
  BY <1>1, EndedOK
<1> QED
  BY <1>2 DEF RemoteInv

-----------------------------------------------------------------------------

LEMMA StateOf ==
  ASSUME RemoteInv, NEW t \in Task
  PROVE  /\ task[t] \in TaskState /\ TaskOK(t, task[t], data)
         /\ data[From[t]] \in Data /\ data[To[t]] \in Data
         /\ task \in [Task -> TaskState]
BY RemoteConstants DEF RemoteInv, TaskOK

\* What a copy leaves is data.
LEMMA LeavesData ==
  ASSUME RemoteInv, NEW t \in Task, NEW c \in Data, NEW d,
         d \in Leaves(c, From[t], To[t]) \/ d = Absent
  PROVE  d \in Data
BY StateOf, RemoteConstants DEF Leaves

LEMMA RefuseInv ==
  ASSUME RemoteInv, NEW t \in Task, Refuse(t)
  PROVE  RemoteInv'
BY EndsOnly DEF Refuse

LEMMA StartCopyToInv ==
  ASSUME RemoteInv, NEW t \in Task, StartCopyTo(t)
  PROVE  RemoteInv'
<1>1. PICK r : r = [task[t] EXCEPT !.at = "copy", !.carried = data[From[t]]]
  OBVIOUS
<1>2. /\ r \in TaskState /\ r.at = "copy" /\ r.carried = data[From[t]]
      /\ r.here = task[t].here /\ r.there = task[t].there /\ r.tries = task[t].tries
  BY <1>1, StateOf DEF TaskState
<1>3. Outside(t)
  BY DEF StartCopyTo, Allowed, Outside
<1>4. TaskOK(t, r, data)
  BY <1>2, <1>3, StateOf, RemoteConstants DEF TaskOK, StartCopyTo
<1>5. task' = [task EXCEPT ![t] = r]
  BY <1>1 DEF StartCopyTo
<1> QED
  BY <1>4, <1>5, OneTask DEF StartCopyTo, RemoteInv

LEMMA CopyReturnsInv ==
  ASSUME RemoteInv, NEW t \in Task, CopyReturns(t)
  PROVE  RemoteInv'
<1>1. PICK d \in Leaves(task[t].carried, From[t], To[t]) :
        /\ data' = [data EXCEPT ![To[t]] = d]
        /\ task' = [Noticed(To[t], d) EXCEPT ![t].at = "copied", ![t].carried = Unread]
  BY DEF CopyReturns
<1>2. task[t].at = "copy" /\ task[t].carried \in Data /\ Outside(t)
  BY StateOf DEF CopyReturns, TaskOK, TaskState
<1>3. d \in Data /\ To[t] \in Place /\ To[t] \notin Protected
  BY <1>2, LeavesData, RemoteConstants DEF Outside
<1>4. /\ data' \in [Place -> Data]
      /\ \A q \in Protected : data'[q] = 0
      /\ Noticed(To[t], d) \in [Task -> TaskState]
      /\ \A u \in Task : TaskOK(u, Noticed(To[t], d)[u], data')
      /\ Noticed(To[t], d)[t] = task[t]
  BY <1>1, <1>2, <1>3, NoticedOK
<1>5. PICK r : r = [task[t] EXCEPT !.at = "copied", !.carried = Unread]
  OBVIOUS
<1>6. task' = [Noticed(To[t], d) EXCEPT ![t] = r]
  <2> DEFINE tasks == Noticed(To[t], d)
  <2>1. tasks \in [Task -> TaskState] /\ tasks[t] = task[t]
    BY <1>4
  <2>2. task' = [tasks EXCEPT ![t].at = "copied", ![t].carried = Unread]
    BY <1>1
  <2> HIDE DEF tasks
  <2>3. task' = [tasks EXCEPT ![t] = [[tasks[t] EXCEPT !.at = "copied"] EXCEPT !.carried = Unread]]
    BY <2>1, <2>2
  <2> QED
    BY <1>5, <2>1, <2>3 DEF tasks
<1>7. /\ r \in TaskState /\ r.at = "copied" /\ r.tries = task[t].tries
      /\ r.here = task[t].here /\ r.there = task[t].there
  BY <1>5, StateOf DEF TaskState
<1>8. TaskOK(t, r, data')
  BY <1>2, <1>7, StateOf DEF TaskOK
<1>9. task' \in [Task -> TaskState] /\ \A u \in Task : TaskOK(u, task'[u], data')
  BY <1>4, <1>6, <1>7, <1>8
<1> QED
  BY <1>4, <1>9 DEF RemoteInv, CopyReturns

LEMMA CopyFailsInv ==
  ASSUME RemoteInv, NEW t \in Task, CopyFails(t)
  PROVE  RemoteInv'
<1>1. PICK d \in {Absent} \cup Leaves(task[t].carried, From[t], To[t]) :
        /\ data' = [data EXCEPT ![To[t]] = d]
        /\ task' = Ended(Noticed(To[t], d), t, "retry")
  BY DEF CopyFails
<1>2. task[t].at = "copy" /\ task[t].carried \in Data /\ Outside(t)
  BY StateOf DEF CopyFails, TaskOK, TaskState
<1>3. d \in Data /\ To[t] \in Place /\ To[t] \notin Protected
  BY <1>2, LeavesData, RemoteConstants DEF Outside
<1>4. /\ data' \in [Place -> Data]
      /\ \A q \in Protected : data'[q] = 0
      /\ Noticed(To[t], d) \in [Task -> TaskState]
      /\ \A u \in Task : TaskOK(u, Noticed(To[t], d)[u], data')
  BY <1>1, <1>3, NoticedOK
<1>5. /\ task' \in [Task -> TaskState]
      /\ TaskOK(t, task'[t], data')
      /\ \A u \in Task \ {t} : task'[u] = Noticed(To[t], d)[u]
  <2> DEFINE tasks == Noticed(To[t], d)
  <2>1. tasks \in [Task -> TaskState] /\ task' = Ended(tasks, t, "retry")
    BY <1>1, <1>4
  <2> HIDE DEF tasks
  <2>2. /\ Ended(tasks, t, "retry") \in [Task -> TaskState]
        /\ TaskOK(t, Ended(tasks, t, "retry")[t], data')
        /\ \A u \in Task \ {t} : Ended(tasks, t, "retry")[u] = tasks[u]
    BY <1>2, <2>1, EndedOK
  <2> QED
    BY <2>1, <2>2 DEF tasks
<1>6. \A u \in Task : TaskOK(u, task'[u], data')
  BY <1>4, <1>5
<1> QED
  BY <1>4, <1>5, <1>6 DEF RemoteInv, CopyFails

LEMMA StartCheckInv ==
  ASSUME RemoteInv, NEW t \in Task, StartCheck(t)
  PROVE  RemoteInv'
<1>1. PICK r : r = [task[t] EXCEPT !.at = "check", !.heldHere = {data[From[t]]},
                                   !.heldThere = {data[To[t]]}]
  OBVIOUS
<1>2. /\ r \in TaskState /\ r.at = "check" /\ r.tries = task[t].tries
      /\ r.here = task[t].here /\ r.there = task[t].there
      /\ r.heldHere = {data[From[t]]} /\ r.heldThere = {data[To[t]]}
  <2>1. {data[From[t]]} \in SUBSET Data /\ {data[To[t]]} \in SUBSET Data
    BY StateOf
  <2> QED
    BY <1>1, <2>1, StateOf DEF TaskState
<1>3. TaskOK(t, r, data)
  BY <1>2, StateOf DEF TaskOK, StartCheck
<1>4. task' = [task EXCEPT ![t] = r]
  BY <1>1 DEF StartCheck
<1> QED
  BY <1>3, <1>4, OneTask DEF StartCheck, RemoteInv

LEMMA CheckReadsInv ==
  ASSUME RemoteInv, NEW t \in Task, CheckReads(t)
  PROVE  RemoteInv'
<1>1. PICK r : /\ \/ r = [task[t] EXCEPT !.here = data[From[t]]]
                  \/ r = [task[t] EXCEPT !.there = data[To[t]]]
               /\ task' = [task EXCEPT ![t] = r]
  BY DEF CheckReads
<1>2. /\ r \in TaskState /\ r.at = task[t].at /\ r.tries = task[t].tries
      /\ r.here \in {task[t].here, data[From[t]]} /\ r.there \in {task[t].there, data[To[t]]}
      /\ r.heldHere = task[t].heldHere /\ r.heldThere = task[t].heldThere
  BY <1>1, StateOf DEF TaskState
<1>3. TaskOK(t, r, data)
  BY <1>2, StateOf DEF TaskOK, CheckReads
<1> QED
  BY <1>1, <1>3, OneTask DEF CheckReads, RemoteInv

LEMMA CheckEndsInv ==
  ASSUME RemoteInv, NEW t \in Task, CheckAnswers(t) \/ CheckFails(t)
  PROVE  RemoteInv'
<1>1. CASE CheckFails(t)
  BY <1>1, EndsOnly DEF CheckFails
<1>2. CASE CheckAnswers(t)
  <2> DEFINE fine == task[t].here = task[t].there /\ task[t].here # Absent
  <2>1. /\ task[t].at = "check" /\ task[t].here # Unread /\ task[t].there # Unread
        /\ UNCHANGED <<data, orphans, spent>>
        /\ Finish(t, IF fine THEN "done" ELSE "retry")
    BY <1>2 DEF CheckAnswers, Checked
  <2>2. CASE fine
    <3>1. /\ task[t].here \in task[t].heldHere /\ task[t].there \in task[t].heldThere
          /\ Outside(t)
      BY <2>1, StateOf DEF TaskOK
    <3>2. (task[t].heldHere \cap task[t].heldThere) \ {Absent} # {}
      BY <2>2, <3>1
    <3> QED
      BY <2>1, <2>2, <3>1, <3>2, EndsOnly
  <2>3. CASE ~fine
    BY <2>1, <2>3, EndsOnly
  <2> QED
    BY <2>2, <2>3
<1> QED
  BY <1>1, <1>2

LEMMA VerifyInv ==
  ASSUME RemoteInv, NEW t \in Task, StartVerify(t) \/ HashTarget(t)
  PROVE  RemoteInv'
<1>1. CASE StartVerify(t) /\ data[From[t]] = Absent
  BY <1>1, EndsOnly DEF StartVerify
<1>2. CASE StartVerify(t) /\ data[From[t]] # Absent
  <2>1. PICK r : r = [task[t] EXCEPT !.at = "hash"]
    OBVIOUS
  <2>2. /\ r \in TaskState /\ r.at = "hash" /\ r.tries = task[t].tries
        /\ r.here = task[t].here /\ r.there = task[t].there
    BY <2>1, StateOf DEF TaskState
  <2>3. TaskOK(t, r, data)
    BY <1>2, <2>2, StateOf DEF TaskOK, StartVerify
  <2>4. task' = [task EXCEPT ![t] = r]
    BY <1>2, <2>1 DEF StartVerify
  <2> QED
    BY <1>2, <2>3, <2>4, OneTask DEF StartVerify, RemoteInv
<1>3. CASE HashTarget(t)
  <2>1. /\ task[t].at = "hash" /\ UNCHANGED <<data, orphans, spent>>
        /\ \E end \in {"retry", "failed", "done"} : Finish(t, end)
    BY <1>3 DEF HashTarget
  <2>2. Kind[t] = "VERIFY"
    BY <2>1, StateOf DEF TaskOK
  <2> QED
    BY <2>1, <2>2, EndsOnly
<1> QED
  BY <1>1, <1>2, <1>3

LEMMA WorkerDiesInv ==
  ASSUME RemoteInv, NEW t \in Task, WorkerDies(t)
  PROVE  RemoteInv'
<1>1. PICK r : r = [Waiting EXCEPT !.tries = task[t].tries]
  OBVIOUS
<1>2. task[t].tries \in 0..MaxTries
  BY StateOf DEF TaskState
<1>3. r \in TaskState /\ r.at = "queued" /\ r.tries = task[t].tries /\ r.here = Unread /\ r.there = Unread
  BY <1>1, <1>2, WaitingState DEF TaskState
<1>4. TaskOK(t, r, data)
  BY <1>3, StateOf DEF TaskOK, WorkerDies
<1>5. spent' \in [edits : 0..MaxEdits, deaths : 0..MaxDeathsOfWorkers]
  BY RemoteConstants DEF RemoteInv, WorkerDies
<1>6. orphans' \subseteq [job : Task, carried : Data] /\ \A o \in orphans' : Outside(o.job)
  <2>1. CASE task[t].at = "copy" /\ task[t].carried # Absent
    <3>1. task[t].carried \in Data /\ Outside(t)
      BY <2>1, StateOf DEF TaskOK, TaskState
    <3> QED
      BY <2>1, <3>1 DEF WorkerDies, RemoteInv
  <2>2. CASE ~(task[t].at = "copy" /\ task[t].carried # Absent)
    BY <2>2 DEF WorkerDies, RemoteInv
  <2> QED
    BY <2>1, <2>2
<1> QED
  BY <1>1, <1>4, <1>5, <1>6, OneTask DEF WorkerDies

\* A place outside the boundary changes, and no job.
LEMMA PlaceChanges ==
  ASSUME RemoteInv, NEW p \in Place, p \notin Protected, NEW d \in Data,
         data' = [data EXCEPT ![p] = d], task' = Noticed(p, d), orphans' \subseteq orphans,
         spent' \in [edits : 0..MaxEdits, deaths : 0..MaxDeathsOfWorkers]
  PROVE  RemoteInv'
<1>1. /\ data' \in [Place -> Data]
      /\ \A q \in Protected : data'[q] = 0
      /\ task' \in [Task -> TaskState]
      /\ \A t \in Task : TaskOK(t, task'[t], data')
  BY NoticedOK
<1> QED
  BY <1>1 DEF RemoteInv

LEMMA OrphanEndsInv ==
  ASSUME RemoteInv, NEW o \in orphans, OrphanEnds(o)
  PROVE  RemoteInv'
<1>1. /\ o.job \in Task /\ o.carried \in Data /\ Outside(o.job)
      /\ spent' \in [edits : 0..MaxEdits, deaths : 0..MaxDeathsOfWorkers]
      /\ orphans' \subseteq orphans
  BY DEF RemoteInv, OrphanEnds
<1>2. PICK d \in Leaves(o.carried, From[o.job], To[o.job]) :
        data' = [data EXCEPT ![To[o.job]] = d] /\ task' = Noticed(To[o.job], d)
  BY DEF OrphanEnds
<1>3. d \in Data /\ To[o.job] \in Place /\ To[o.job] \notin Protected
  BY <1>1, LeavesData, RemoteConstants DEF Outside
<1> QED
  BY <1>1, <1>2, <1>3, PlaceChanges

LEMMA EditPlaceInv ==
  ASSUME RemoteInv, NEW p \in Place, EditPlace(p)
  PROVE  RemoteInv'
<1>1. PICK d \in {Absent, spent.edits + 1} :
        data' = [data EXCEPT ![p] = d] /\ task' = Noticed(p, d)
  BY DEF EditPlace
<1>2. /\ p \notin Protected /\ UNCHANGED orphans
      /\ spent' \in [edits : 0..MaxEdits, deaths : 0..MaxDeathsOfWorkers]
  BY RemoteConstants DEF RemoteInv, EditPlace
<1>3. d \in Data
  BY <1>1, RemoteConstants DEF RemoteInv, EditPlace
<1> QED
  BY <1>1, <1>2, <1>3, PlaceChanges

LEMMA RemoteNextInv == RemoteInv /\ [RemoteNext]_remoteVars => RemoteInv'
<1> SUFFICES ASSUME RemoteInv, [RemoteNext]_remoteVars PROVE RemoteInv'
  OBVIOUS
<1>1. ASSUME NEW t \in Task,
             \/ Refuse(t) \/ StartCopyTo(t) \/ CopyReturns(t) \/ CopyFails(t)
             \/ StartCheck(t) \/ CheckReads(t) \/ CheckFails(t) \/ CheckAnswers(t)
             \/ StartVerify(t) \/ HashTarget(t) \/ WorkerDies(t)
      PROVE  RemoteInv'
  BY <1>1, RefuseInv, StartCopyToInv, CopyReturnsInv, CopyFailsInv, StartCheckInv, CheckReadsInv,
     CheckEndsInv, VerifyInv, WorkerDiesInv
<1>2. CASE UNCHANGED remoteVars
  BY <1>2 DEF remoteVars, RemoteInv
<1> QED
  BY <1>1, <1>2, OrphanEndsInv, EditPlaceInv DEF RemoteNext

\* A transfer job succeeds only if both sides held one content while rclone
\* checked; the protected boundary is neither changed nor copied from; and no
\* job is tried more often than allowed.
THEOREM TransfersEarnSuccess == RemoteSpec => []SuccessWasThere
<1>1. RemoteInit => RemoteInv
  BY RemoteInitInv
<1>2. RemoteInv /\ [RemoteNext]_remoteVars => RemoteInv'
  BY RemoteNextInv
<1>3. RemoteInv => SuccessWasThere
  <2> SUFFICES ASSUME RemoteInv PROVE SuccessWasThere
    OBVIOUS
  <2>1. RemoteTypes
    BY DEF RemoteInv, RemoteTypes, TaskState
  <2>2. \A t \in Task : TaskOK(t, task[t], data) /\ task[t] \in TaskState
    BY DEF RemoteInv, TaskOK
  <2>3. \A t \in Task : task[t].tries = MaxTries => task[t].at = "failed"
    BY <2>2, RemoteConstants DEF TaskOK
  <2> QED
    BY <2>1, <2>2, <2>3 DEF SuccessWasThere, TaskOK, Outside, RemoteInv
<1> QED
  BY <1>1, <1>2, <1>3, PTL DEF RemoteSpec

-----------------------------------------------------------------------------
(* Snapshots.  While a scan walks, opened holds the directories it has gone   *)
(* into, or found empty at the depth limit, and visited the files it counted. *)

Entry == [sha : 0..MaxEvents, mtime : 0..MaxEvents] \cup {NoEntry}
Stack == Seq(Dir \X (0..MaxDepth))

Scan ==
  [task : {"none", "snapshot", "verify", "manifest", "check"},
   at : {"idle", "walk", "hash", "stat", "saved", "verified", "differs", "raised"},
   stack : Stack, depth : 0..MaxDepth, entries : SUBSET (Dir \cup Path), children : Stack,
   listed : Seq(Path), count : 0..MaxFiles, found : [Path -> Entry]]
Document ==
  [by : {"none", "snapshot", "manifest"}, files : [Path -> Entry], parent : [Path -> Entry],
   changed : [Path -> Entry], deleted : SUBSET Path]

SnapTyped ==
  /\ tree \in [Path -> Entry] /\ events \in 0..MaxEvents /\ disturbed \subseteq Path
  /\ scan \in Scan /\ saved \in Document

On(stack) == {stack[i][1] : i \in DOMAIN stack}
Pending   == On(scan.children) \cup On(scan.stack) \cup (scan.entries \cap Dir)

\* No directory is twice on a stack, and each is there with its depth.
StackOK(stack) ==
  /\ \A i, j \in DOMAIN stack : stack[i][1] = stack[j][1] => i = j
  /\ \A i \in DOMAIN stack : stack[i][2] = DepthOf[stack[i][1]]

\* What is pending is pending once, and was found in an opened directory.
PendingOK(opened, visited) ==
  /\ opened \cap Pending = {} /\ visited \cap scan.entries = {}
  /\ StackOK(scan.children) /\ StackOK(scan.stack)
  /\ On(scan.children) \cap On(scan.stack) = {}
  /\ (On(scan.children) \cup On(scan.stack)) \cap scan.entries = {}
  /\ \A e \in scan.entries \cap Dir : DepthOf[e] = scan.depth + 1
  /\ Top \in opened \cup Pending
  /\ \A e \in opened \cup Pending \cup visited \cup scan.entries :
       e = Top \/ \E d \in opened : e \in Listing[d]

VisitedOK(visited) ==
  /\ scan.count = Cardinality(visited)
  /\ \A p \in visited \ disturbed :
       tree[p] # NoEntry /\ (scan.found[p] # NoEntry \/ p \in ToSet(scan.listed))

\* Everything in an opened directory that nobody has changed is opened, visited
\* or pending.
OpenedOK(opened, visited) ==
  \A d \in opened :
    /\ Listing[d] \cap Dir \subseteq opened \cup Pending
    /\ \A p \in (Listing[d] \cap Path) \ disturbed :
         p \in visited \cup scan.entries \/ tree[p] = NoEntry
    /\ DepthOf[d] > MaxDepth =>
         \A e \in Listing[d] : e \in Path /\ (e \notin disturbed => tree[e] = NoEntry)

WalkOK(opened, visited) ==
  PendingOK(opened, visited) /\ VisitedOK(visited) /\ OpenedOK(opened, visited)

Walking == scan.at = "walk" \/ (scan.at = "hash" /\ scan.task = "manifest")

\* After the walk, a file that nobody has changed is accounted for.
Accounted ==
  \A p \in Path \ disturbed :
    \/ tree[p] = NoEntry \/ scan.found[p] # NoEntry \/ p \in ToSet(scan.listed)
    \/ scan.task = "check" /\ p \notin Known(saved.files)

\* What was found of a file that nobody has changed is right, up to the mtime
\* that is read next.
FoundRight ==
  /\ \A p \in Path \ disturbed : scan.found[p] # NoEntry =>
       /\ scan.found[p].sha = tree[p].sha
       /\ scan.task \in {"snapshot", "verify"} =>
            scan.found[p] = tree[p] \/ (scan.at = "stat" /\ p = Head(scan.listed))
  /\ \A p \in ToSet(scan.listed) \ disturbed : tree[p] # NoEntry

SnapInv ==
  /\ SnapTyped
  /\ Walking => \E opened \in SUBSET Dir, visited \in SUBSET Path : WalkOK(opened, visited)
  /\ scan.at \in {"walk", "hash", "stat"} => FoundRight
  /\ scan.at \in {"hash", "stat"} /\ ~Walking => Accounted
  /\ scan.at = "stat" => /\ scan.listed # <<>> /\ scan.task \in {"snapshot", "verify"}
                         /\ scan.found[Head(scan.listed)] # NoEntry
  /\ Walking /\ scan.task = "manifest" => Len(scan.listed) = IF scan.at = "hash" THEN 1 ELSE 0
  /\ ~Walking /\ scan.at \notin {"idle", "raised"} /\ disturbed = {} => Within
  /\ scan.at = "raised" /\ disturbed = {} => ~Within
  /\ SnapshotExact /\ VerdictRight

-----------------------------------------------------------------------------
(* Stacks.                                                                    *)

LEMMA OnStack ==
  ASSUME NEW q \in Stack
  PROVE  /\ On(q) \subseteq Dir
         /\ q = <<>> <=> On(q) = {}
         /\ DOMAIN q = 1..Len(q) /\ Len(q) \in Nat
         /\ \A i \in DOMAIN q : q[i] = <<q[i][1], q[i][2]>> /\ q[i][1] \in Dir /\ q[i][2] \in 0..MaxDepth
<1>1. DOMAIN q = 1..Len(q) /\ Len(q) \in Nat
  BY DEF Stack
<1>2. \A i \in DOMAIN q : q[i] \in Dir \X (0..MaxDepth)
  BY <1>1 DEF Stack
<1>3. q = <<>> => DOMAIN q = {}
  BY <1>1
<1>4. q # <<>> => Len(q) # 0
  BY DEF Stack
<1>5. q # <<>> => 1 \in DOMAIN q
  BY <1>1, <1>4
<1>6. \A i \in DOMAIN q : q[i] = <<q[i][1], q[i][2]>> /\ q[i][1] \in Dir /\ q[i][2] \in 0..MaxDepth
  BY <1>2
<1>7. On(q) \subseteq Dir
  BY <1>6 DEF On
<1>8. q = <<>> <=> On(q) = {}
  BY <1>3, <1>5 DEF On
<1>. QED BY <1>1, <1>6, <1>7, <1>8

LEMMA EmptyStack == <<>> \in Stack /\ StackOK(<<>>) /\ On(<<>>) = {}
<1>1. <<>> \in Stack /\ DOMAIN <<>> = {}
  BY DEF Stack
<1>. QED BY <1>1 DEF StackOK, On

LEMMA JoinStacks ==
  ASSUME NEW q \in Stack, NEW r \in Stack, StackOK(q), StackOK(r), On(q) \cap On(r) = {}
  PROVE  q \o r \in Stack /\ StackOK(q \o r) /\ On(q \o r) = On(q) \cup On(r)
<1>. DEFINE z == q \o r
<1>1. /\ z \in Stack /\ Len(z) = Len(q) + Len(r)
      /\ \A i \in 1..(Len(q) + Len(r)) : z[i] = IF i <= Len(q) THEN q[i] ELSE r[i - Len(q)]
  BY ConcatProperties DEF Stack
<1>2. DOMAIN z = 1..(Len(q) + Len(r)) /\ DOMAIN q = 1..Len(q) /\ DOMAIN r = 1..Len(r)
      /\ Len(q) \in Nat /\ Len(r) \in Nat
  BY <1>1, OnStack
<1>3. \A i \in DOMAIN z : \/ i \in DOMAIN q /\ z[i] = q[i]
                          \/ i - Len(q) \in DOMAIN r /\ z[i] = r[i - Len(q)]
  BY <1>1, <1>2
<1>4. \A i \in DOMAIN q : i \in DOMAIN z /\ z[i] = q[i]
  BY <1>1, <1>2
<1>5. \A i \in DOMAIN r : i + Len(q) \in DOMAIN z /\ z[i + Len(q)] = r[i]
  BY <1>1, <1>2
<1>. HIDE DEF z
<1>6. On(z) = On(q) \cup On(r)
  <2>1. ASSUME NEW d \in On(z)
        PROVE  d \in On(q) \cup On(r)
    BY <1>3, <2>1 DEF On
  <2>2. ASSUME NEW d \in On(q)
        PROVE  d \in On(z)
    BY <1>4, <2>2 DEF On
  <2>3. ASSUME NEW d \in On(r)
        PROVE  d \in On(z)
    BY <1>5, <2>3 DEF On
  <2>. QED BY <2>1, <2>2, <2>3
<1>7. ASSUME NEW i \in DOMAIN z, NEW j \in DOMAIN z, z[i][1] = z[j][1]
      PROVE  i = j
  <2>1. CASE i \in DOMAIN q /\ z[i] = q[i] /\ j \in DOMAIN q /\ z[j] = q[j]
    BY <1>7, <2>1 DEF StackOK
  <2>2. CASE i - Len(q) \in DOMAIN r /\ z[i] = r[i - Len(q)]
             /\ j - Len(q) \in DOMAIN r /\ z[j] = r[j - Len(q)]
    <3>1. i - Len(q) = j - Len(q)
      BY <1>7, <2>2 DEF StackOK
    <3>. QED BY <3>1, <1>2
  <2>3. \A k \in DOMAIN q, l \in DOMAIN r : q[k][1] # r[l][1]
    BY DEF On
  <2>. QED BY <1>3, <1>7, <2>1, <2>2, <2>3
<1>8. \A i \in DOMAIN z : z[i][2] = DepthOf[z[i][1]]
  BY <1>3 DEF StackOK
<1>. QED BY <1>1, <1>6, <1>7, <1>8 DEF StackOK, z

LEMMA PushDir ==
  ASSUME NEW q \in Stack, StackOK(q), NEW d \in Dir, d \notin On(q), DepthOf[d] \in 0..MaxDepth
  PROVE  /\ Append(q, <<d, DepthOf[d]>>) \in Stack /\ StackOK(Append(q, <<d, DepthOf[d]>>))
         /\ On(Append(q, <<d, DepthOf[d]>>)) = On(q) \cup {d}
<1>. DEFINE x == <<d, DepthOf[d]>>
            r == Append(q, x)
<1>1. /\ r \in Stack /\ Len(r) = Len(q) + 1 /\ r[Len(q) + 1] = x
      /\ \A i \in 1..Len(q) : r[i] = q[i]
  <2>1. x \in Dir \X (0..MaxDepth)
    OBVIOUS
  <2>. QED BY <2>1, AppendProperties DEF Stack
<1>2. DOMAIN r = 1..(Len(q) + 1) /\ DOMAIN q = 1..Len(q) /\ Len(q) \in Nat
  BY <1>1, OnStack
<1>3. \A i \in DOMAIN r : (i \in DOMAIN q /\ r[i] = q[i]) \/ (i = Len(q) + 1 /\ r[i] = x)
  BY <1>1, <1>2
<1>4. \A i \in DOMAIN q : i \in DOMAIN r /\ r[i] = q[i]
  BY <1>1, <1>2
<1>5. Len(q) + 1 \in DOMAIN r
  BY <1>2
<1>. HIDE DEF r
<1>6. On(r) = On(q) \cup {d}
  BY <1>1, <1>3, <1>4, <1>5 DEF On
<1>7. StackOK(r)
  BY <1>3 DEF StackOK, On
<1>. QED BY <1>1, <1>6, <1>7 DEF r

LEMMA PopDir ==
  ASSUME NEW q \in Stack, StackOK(q), q # <<>>
  PROVE  /\ Tail(q) \in Stack /\ StackOK(Tail(q)) /\ On(Tail(q)) = On(q) \ {Head(q)[1]}
         /\ Head(q)[1] \in On(q) /\ Head(q)[2] = DepthOf[Head(q)[1]] /\ Head(q)[2] \in 0..MaxDepth
<1>. DEFINE r == Tail(q)
<1>1. /\ r \in Stack /\ Len(r) = Len(q) - 1 /\ \A i \in 1..Len(r) : r[i] = q[i + 1]
  BY HeadTailProperties DEF Stack
<1>2. /\ DOMAIN r = 1..(Len(q) - 1) /\ DOMAIN q = 1..Len(q) /\ Len(q) \in Nat /\ Len(q) # 0
      /\ Head(q) = q[1]
  BY <1>1, OnStack DEF Stack
<1>3. \A i \in DOMAIN r : i + 1 \in DOMAIN q /\ r[i] = q[i + 1] /\ i + 1 # 1
  BY <1>1, <1>2
<1>4. \A i \in DOMAIN q : i = 1 \/ (i - 1 \in DOMAIN r /\ r[i - 1] = q[i])
  BY <1>1, <1>2
<1>5. 1 \in DOMAIN q
  BY <1>2
<1>. HIDE DEF r
<1>6. StackOK(r)
  <2>1. ASSUME NEW i \in DOMAIN r, NEW j \in DOMAIN r, r[i][1] = r[j][1]
        PROVE  i = j
    <3>1. i + 1 = j + 1
      BY <1>3, <2>1 DEF StackOK
    <3>. QED BY <3>1, <1>2
  <2>. QED BY <1>3, <2>1 DEF StackOK
<1>7. \A i \in DOMAIN r : r[i][1] # q[1][1]
  BY <1>3, <1>5 DEF StackOK
<1>8. On(r) = On(q) \ {q[1][1]}
  BY <1>3, <1>4, <1>5, <1>7 DEF On
<1>9. q[1][1] \in On(q) /\ q[1][2] = DepthOf[q[1][1]] /\ q[1][2] \in 0..MaxDepth
  BY <1>5, OnStack DEF On, StackOK
<1>. QED BY <1>1, <1>2, <1>6, <1>8, <1>9 DEF r

-----------------------------------------------------------------------------
(* Lists of files, and the tree.                                              *)

LEMMA TakeFile ==
  ASSUME NEW q \in Seq(Path), q # <<>>
  PROVE  /\ Head(q) \in Path /\ Tail(q) \in Seq(Path) /\ Len(Tail(q)) = Len(q) - 1
         /\ ToSet(q) = {Head(q)} \cup ToSet(Tail(q))
<1>. DEFINE r == Tail(q)
<1>1. /\ r \in Seq(Path) /\ Len(r) = Len(q) - 1 /\ \A i \in 1..Len(r) : r[i] = q[i + 1]
      /\ Head(q) \in Path
  BY HeadTailProperties
<1>2. /\ DOMAIN r = 1..(Len(q) - 1) /\ DOMAIN q = 1..Len(q) /\ Len(q) \in Nat /\ Len(q) # 0
      /\ Head(q) = q[1]
  BY <1>1
<1>3. \A i \in DOMAIN r : i + 1 \in DOMAIN q /\ r[i] = q[i + 1]
  BY <1>1, <1>2
<1>4. \A i \in DOMAIN q : i = 1 \/ (i - 1 \in DOMAIN r /\ r[i - 1] = q[i])
  BY <1>1, <1>2
<1>5. 1 \in DOMAIN q
  BY <1>2
<1>. HIDE DEF r
<1>6. ToSet(q) = {q[1]} \cup ToSet(r)
  <2>1. ASSUME NEW p \in ToSet(q)
        PROVE  p \in {q[1]} \cup ToSet(r)
    BY <1>4, <2>1 DEF ToSet
  <2>2. ASSUME NEW p \in ToSet(r)
        PROVE  p \in ToSet(q)
    BY <1>3, <2>2 DEF ToSet
  <2>3. q[1] \in ToSet(q)
    BY <1>5 DEF ToSet
  <2>. QED BY <2>1, <2>2, <2>3
<1>. QED BY <1>1, <1>2, <1>6 DEF r

LEMMA AddFile ==
  ASSUME NEW q \in Seq(Path), NEW p \in Path
  PROVE  /\ Append(q, p) \in Seq(Path) /\ Len(Append(q, p)) = Len(q) + 1
         /\ ToSet(Append(q, p)) = ToSet(q) \cup {p}
<1>. DEFINE r == Append(q, p)
<1>1. /\ r \in Seq(Path) /\ Len(r) = Len(q) + 1 /\ r[Len(q) + 1] = p
      /\ \A i \in 1..Len(q) : r[i] = q[i]
  BY AppendProperties
<1>2. DOMAIN r = 1..(Len(q) + 1) /\ DOMAIN q = 1..Len(q) /\ Len(q) \in Nat
  BY <1>1
<1>3. \A i \in DOMAIN r : (i \in DOMAIN q /\ r[i] = q[i]) \/ (i = Len(q) + 1 /\ r[i] = p)
  BY <1>1, <1>2
<1>4. \A i \in DOMAIN q : i \in DOMAIN r /\ r[i] = q[i]
  BY <1>1, <1>2
<1>5. Len(q) + 1 \in DOMAIN r
  BY <1>2
<1>. HIDE DEF r
<1>6. ToSet(r) = ToSet(q) \cup {p}
  <2>1. ASSUME NEW x \in ToSet(r)
        PROVE  x \in ToSet(q) \cup {p}
    BY <1>3, <2>1 DEF ToSet
  <2>2. ASSUME NEW x \in ToSet(q)
        PROVE  x \in ToSet(r)
    BY <1>4, <2>2 DEF ToSet
  <2>3. p \in ToSet(r)
    BY <1>1, <1>5 DEF ToSet
  <2>. QED BY <2>1, <2>2, <2>3
<1>. QED BY <1>1, <1>6 DEF r

LEMMA NoList == <<>> \in Seq(Path) /\ ToSet(<<>>) = {} /\ Len(<<>>) = 0
<1>1. DOMAIN <<>> = {} /\ <<>> \in Seq(Path) /\ Len(<<>>) = 0
  OBVIOUS
<1>. QED BY <1>1 DEF ToSet

LEMMA LeastNumber ==
  ASSUME NEW S \in SUBSET Nat, S # {}
  PROVE  \E x \in S : \A y \in S : ~(y < x)
<1>. DEFINE R == {ss \in Nat \X Nat : ss[1] < ss[2]}
<1>1. IsWellFoundedOn(R, Nat)
  BY NatLessThanWellFounded DEF OpToRel
<1>2. PICK x \in S : \A y \in S : <<y, x>> \notin R
  BY <1>1, WFMin
<1>. QED BY <1>2

LEMMA LeastName ==
  ASSUME NEW S \in SUBSET (Dir \cup Path), S # {}
  PROVE  Min(S) \in S
<1>1. S \in SUBSET Nat
  BY TreeAssumption
<1>2. PICK x \in S : \A y \in S : ~(y < x)
  BY <1>1, LeastNumber
<1>3. \A y \in S : x <= y
  BY <1>1, <1>2
<1>. QED BY <1>1, <1>3 DEF Min

\* Each entry has one directory.
LEMMA OneHome ==
  /\ \A d, e \in Dir : \A x \in Listing[d] : x \in Listing[e] => d = e
  /\ \A x \in (Dir \ {Top}) \cup Path : \E d \in Dir : x \in Listing[d]
  /\ \A d \in Dir : \A x \in Listing[d] : x \in Dir \cup Path /\ x # Top
  /\ \A x \in Path : x \notin Dir
  /\ IsFiniteSet(Path)
<1>1. \A x \in (Dir \ {Top}) \cup Path : x \in UNION {Listing[d] : d \in Dir}
  BY TreeAssumption
<1>2. \A d \in Dir : \A x \in Listing[d] : x \in UNION {Listing[e] : e \in Dir}
  OBVIOUS
<1>3. \A d \in Dir : \A x \in Listing[d] : x \in (Dir \ {Top}) \cup Path
  BY <1>2, TreeAssumption
<1>4. IsFiniteSet(Path)
  BY FS_Subset, TreeAssumption
<1>5. \A x \in Path : x \notin Dir
  BY TreeAssumption
<1>6. \A d, e \in Dir : \A x \in Listing[d] : x \in Listing[e] => d = e
  BY TreeAssumption
<1>7. Top \notin Path
  BY <1>5, TreeAssumption
<1>. QED BY <1>1, <1>3, <1>4, <1>5, <1>6, <1>7

\* What holds Top and, with a directory, the directories in it, holds all.
LEMMA AllReached ==
  ASSUME NEW S \in SUBSET Dir, Top \in S, \A d \in S : Listing[d] \cap Dir \subseteq S
  PROVE  S = Dir
<1>. DEFINE T == {DepthOf[d] : d \in Dir \ S}
<1>1. SUFFICES ASSUME Dir \ S # {}
               PROVE  FALSE
  OBVIOUS
<1>2. T \in SUBSET Nat /\ T # {}
  BY <1>1, TreeAssumption
<1>4. PICK n \in T : \A m \in T : ~(m < n)
  BY <1>2, LeastNumber
<1>5. PICK d \in Dir \ S : n = DepthOf[d]
  BY <1>4
<1>6. PICK e \in Dir : d \in Listing[e]
  BY <1>5, OneHome
<1>7. DepthOf[d] = DepthOf[e] + 1 /\ DepthOf[e] \in Nat
  BY <1>5, <1>6, TreeAssumption
<1>8. e \notin S
  BY <1>5, <1>6
<1>9. DepthOf[e] \in T
  BY <1>8
<1>10. ~(DepthOf[e] < n)
  BY <1>4, <1>9
<1>. QED BY <1>5, <1>7, <1>10

-----------------------------------------------------------------------------
(* Each step keeps the invariant.                                             *)

LEMMA AsleepTyped == Asleep \in Scan /\ NoFiles \in [Path -> Entry] /\ Unsaved \in Document
<1>1. NoFiles \in [Path -> Entry]
  BY DEF NoFiles, Entry
<1>2. <<>> \in Stack /\ <<>> \in Seq(Path)
  BY EmptyStack, NoList
<1>. QED BY <1>1, <1>2, TreeAssumption DEF Asleep, Unsaved, Scan, Document

\* An entry is missing if its digest is.
LEMMA EntryParts ==
  /\ NoEntry.sha = -1 /\ NoEntry.mtime = -1
  /\ \A x \in Entry : x # NoEntry => x.sha \in 0..MaxEvents /\ x.mtime \in 0..MaxEvents /\ x.sha # -1
  /\ \A x, y \in Entry : x.sha = y.sha /\ x.mtime = y.mtime => x = y
BY DEF Entry, NoEntry

LEMMA SnapInitInv == SnapInit => SnapInv
<1>. SUFFICES ASSUME SnapInit
              PROVE  SnapInv
  OBVIOUS
<1>1. SnapTyped
  <2>1. [sha |-> 0, mtime |-> 0] \in Entry /\ NoEntry \in Entry /\ 0 \in 0..MaxEvents
    BY TreeAssumption DEF Entry
  <2>. QED BY <2>1, AsleepTyped DEF SnapInit, SnapTyped
<1>2. scan.at = "idle" /\ saved.by = "none"
  BY DEF SnapInit, Asleep, Unsaved
<1>. QED BY <1>1, <1>2 DEF SnapInv, Walking, SnapshotExact, VerdictRight

\* A scan that ends keeps nothing but its task and its outcome.
LEMMA EndsInv ==
  ASSUME SnapTyped, NEW o \in {"saved", "verified", "differs", "raised"}, Returns(o),
         UNCHANGED <<tree, events, disturbed>>, saved' \in Document,
         disturbed = {} => (o = "raised" <=> ~Within),
         SnapshotExact', VerdictRight'
  PROVE  SnapInv'
<1>1. scan' \in Scan /\ scan'.at = o
  BY AsleepTyped DEF SnapTyped, Scan, Returns, Asleep
<1>2. SnapTyped'
  BY <1>1 DEF SnapTyped
<1>3. ~Walking'
  BY <1>1 DEF Walking
<1>4. Within' <=> Within
  BY DEF Within, Known
<1>. QED BY <1>1, <1>2, <1>3, <1>4 DEF SnapInv

LEMMA RaisedInv ==
  ASSUME SnapInv, Returns("raised"), UNCHANGED <<tree, saved, events, disturbed>>,
         disturbed = {} => ~Within
  PROVE  SnapInv'
<1>1. scan'.at = "raised"
  BY DEF Returns, Asleep
<1>2. SnapshotExact' /\ VerdictRight'
  BY <1>1 DEF SnapInv, SnapshotExact, VerdictRight
<1>. QED BY <1>2, EndsInv DEF SnapInv, SnapTyped

\* A scan that is under way has said nothing yet.
LEMMA UnderWay ==
  ASSUME SnapInv, UNCHANGED <<tree, saved>>, scan'.at \in {"walk", "hash", "stat"}
  PROVE  SnapshotExact' /\ VerdictRight'
BY DEF SnapInv, SnapshotExact, VerdictRight

LEMMA StartScanInv ==
  ASSUME SnapInv, NEW kind \in {"snapshot", "verify", "manifest", "check"}, StartScan(kind)
  PROVE  SnapInv'
<1>1. /\ scan' = [Asleep EXCEPT !.task = kind, !.at = "walk", !.stack = <<<<Top, 0>>>>]
      /\ disturbed' = {} /\ UNCHANGED <<tree, saved, events>>
  BY DEF StartScan
<1>2. /\ <<<<Top, 0>>>> \in Stack /\ StackOK(<<<<Top, 0>>>>) /\ On(<<<<Top, 0>>>>) = {Top}
  <2>1. <<<<Top, 0>>>> = Append(<<>>, <<Top, 0>>) /\ DepthOf[Top] = 0 /\ 0 \in 0..MaxDepth /\ Top \in Dir
    BY TreeAssumption
  <2>. QED BY <2>1, EmptyStack, PushDir
<1>3. /\ scan' \in Scan /\ scan'.at = "walk" /\ scan'.task = kind /\ scan'.stack = <<<<Top, 0>>>>
      /\ scan'.children = <<>> /\ scan'.entries = {} /\ scan'.count = 0 /\ scan'.listed = <<>>
      /\ scan'.found = NoFiles
  BY <1>1, <1>2, AsleepTyped DEF Asleep, Scan
<1>4. SnapTyped'
  BY <1>1, <1>3 DEF SnapInv, SnapTyped
<1>5. Pending' = {Top}
  BY <1>2, <1>3, EmptyStack DEF Pending
<1>6. PendingOK({}, {})'
  BY <1>2, <1>3, <1>5, EmptyStack DEF PendingOK
<1>7. VisitedOK({})' /\ OpenedOK({}, {})'
  BY <1>3, FS_EmptySet DEF VisitedOK, OpenedOK
<1>8. \E opened \in SUBSET Dir, visited \in SUBSET Path : WalkOK(opened, visited)'
  BY <1>6, <1>7 DEF WalkOK
<1>9. FoundRight'
  BY <1>3, NoList DEF FoundRight, NoFiles
<1>10. SnapshotExact' /\ VerdictRight'
  BY <1>1, <1>3, UnderWay
<1>. QED BY <1>3, <1>4, <1>8, <1>9, <1>10, NoList DEF SnapInv, Walking

LEMMA OpenDirInv ==
  ASSUME SnapInv, OpenDir
  PROVE  SnapInv'
<1>. DEFINE q == scan.children \o scan.stack
<1>0. PICK d : d = Head(q)[1]
  OBVIOUS
<1>. DEFINE there == {e \in Listing[d] : e \in Dir \/ tree[e] # NoEntry}
<1>1. /\ scan.at = "walk" /\ scan.entries = {} /\ q # <<>>
      /\ scan' = [scan EXCEPT !.stack = Tail(q), !.children = <<>>, !.depth = Head(q)[2], !.entries = there]
      /\ UNCHANGED <<tree, saved, events, disturbed>>
  BY <1>0 DEF OpenDir
<1>2. scan \in Scan /\ SnapTyped /\ Walking /\ FoundRight
  BY <1>1 DEF SnapInv, SnapTyped, Walking
<1>3. PICK opened \in SUBSET Dir, visited \in SUBSET Path : WalkOK(opened, visited)
  BY <1>2 DEF SnapInv
<1>4. PendingOK(opened, visited) /\ VisitedOK(visited) /\ OpenedOK(opened, visited)
  BY <1>3 DEF WalkOK
<1>5. q \in Stack /\ StackOK(q) /\ On(q) = On(scan.children) \cup On(scan.stack)
  BY <1>2, <1>4, JoinStacks DEF Scan, PendingOK
<1>6. /\ Tail(q) \in Stack /\ StackOK(Tail(q)) /\ On(Tail(q)) = On(q) \ {d}
      /\ d \in On(q) /\ Head(q)[2] = DepthOf[d] /\ Head(q)[2] \in 0..MaxDepth
  BY <1>0, <1>1, <1>5, PopDir
<1>7. d \in Dir /\ Pending = On(q)
  BY <1>1, <1>5, <1>6, OnStack DEF Pending
<1>. HIDE DEF q
<1>8. there \subseteq Listing[d] /\ Listing[d] \cap Dir \subseteq there /\ there \subseteq Dir \cup Path
  BY <1>7, OneHome
<1>9. /\ scan' \in Scan /\ scan'.at = "walk" /\ scan'.task = scan.task
      /\ scan'.children = <<>> /\ scan'.stack = Tail(q) /\ scan'.entries = there
      /\ scan'.depth = DepthOf[d] /\ scan'.count = scan.count /\ scan'.listed = scan.listed
      /\ scan'.found = scan.found
  BY <1>1, <1>2, <1>6, <1>8, EmptyStack DEF Scan
<1>10. Pending' = (Pending \ {d}) \cup (Listing[d] \cap Dir)
  BY <1>6, <1>7, <1>8, <1>9, EmptyStack DEF Pending
<1>11. d \notin opened
  BY <1>4, <1>6, <1>7 DEF PendingOK
<1>12. \A x \in Listing[d] : x \notin opened \cup Pending \cup visited /\ x # Top
  <2>1. ASSUME NEW x \in Listing[d], x \in opened \cup Pending \cup visited
        PROVE  FALSE
    <3>1. x # Top
      BY <1>7, OneHome
    <3>2. PICK e \in opened : x \in Listing[e]
      BY <1>4, <2>1, <3>1 DEF PendingOK
    <3>. QED BY <1>7, <1>11, <3>2, OneHome
  <2>. QED BY <2>1, <1>7, OneHome
<1>13. PendingOK(opened \cup {d}, visited)'
  <2>1. (opened \cup {d}) \cap Pending' = {}
    BY <1>4, <1>7, <1>10, <1>11, <1>12, <1>6 DEF PendingOK
  <2>2. visited \cap there = {}
    BY <1>8, <1>12
  <2>3. On(Tail(q)) \cap there = {}
    BY <1>6, <1>7, <1>8, <1>12
  <2>4. \A e \in there \cap Dir : DepthOf[e] = DepthOf[d] + 1
    BY <1>7, <1>8, TreeAssumption
  <2>5. Top \in (opened \cup {d}) \cup Pending'
    BY <1>4, <1>10 DEF PendingOK
  <2>6. \A e \in (opened \cup {d}) \cup Pending' \cup visited \cup there :
          e = Top \/ \E c \in opened \cup {d} : e \in Listing[c]
    <3>1. ASSUME NEW e \in opened \cup Pending \cup visited
          PROVE  e = Top \/ \E c \in opened \cup {d} : e \in Listing[c]
      BY <1>4, <3>1 DEF PendingOK
    <3>2. ASSUME NEW e \in Listing[d]
          PROVE  \E c \in opened \cup {d} : e \in Listing[c]
      BY <3>2
    <3>3. d \in Pending
      BY <1>6, <1>7
    <3>. QED BY <1>8, <1>10, <3>1, <3>2, <3>3
  <2>7. /\ scan'.children = <<>> /\ scan'.stack = Tail(q) /\ scan'.entries = there
        /\ scan'.depth = DepthOf[d] /\ On(scan'.children) = {} /\ StackOK(scan'.children)
        /\ StackOK(scan'.stack) /\ On(scan'.stack) \cap scan'.entries = {}
    BY <1>6, <1>9, <2>3, EmptyStack
  <2>. HIDE DEF there
  <2>. QED BY <2>1, <2>2, <2>4, <2>5, <2>6, <2>7 DEF PendingOK
<1>14. VisitedOK(visited)'
  BY <1>1, <1>4, <1>9 DEF VisitedOK
<1>15. OpenedOK(opened \cup {d}, visited)'
  <2>1. ASSUME NEW e \in opened
        PROVE  /\ Listing[e] \cap Dir \subseteq (opened \cup {d}) \cup Pending'
               /\ \A p \in (Listing[e] \cap Path) \ disturbed' :
                    p \in visited \cup scan'.entries \/ tree'[p] = NoEntry
               /\ DepthOf[e] > MaxDepth =>
                    \A x \in Listing[e] : x \in Path /\ (x \notin disturbed' => tree'[x] = NoEntry)
    BY <1>1, <1>4, <1>10, <2>1 DEF OpenedOK
  <2>2. /\ Listing[d] \cap Dir \subseteq (opened \cup {d}) \cup Pending'
        /\ \A p \in (Listing[d] \cap Path) \ disturbed' :
             p \in visited \cup scan'.entries \/ tree'[p] = NoEntry
        /\ ~(DepthOf[d] > MaxDepth)
    <3>1. Listing[d] \cap Dir \subseteq (opened \cup {d}) \cup Pending'
      BY <1>10
    <3>2. \A p \in Listing[d] : p \in scan'.entries \/ tree'[p] = NoEntry
      BY <1>1, <1>9
    <3>3. ~(DepthOf[d] > MaxDepth)
      BY <1>6, TreeAssumption
    <3>. QED BY <3>1, <3>2, <3>3
  <2>3. ASSUME NEW e \in opened \cup {d}
        PROVE  /\ Listing[e] \cap Dir \subseteq (opened \cup {d}) \cup Pending'
               /\ \A p \in (Listing[e] \cap Path) \ disturbed' :
                    p \in visited \cup scan'.entries \/ tree'[p] = NoEntry
               /\ DepthOf[e] > MaxDepth =>
                    \A x \in Listing[e] : x \in Path /\ (x \notin disturbed' => tree'[x] = NoEntry)
    BY <2>1, <2>2, <2>3
  <2>. QED BY <2>3 DEF OpenedOK
<1>16. \E o \in SUBSET Dir, v \in SUBSET Path : WalkOK(o, v)'
  BY <1>3, <1>7, <1>13, <1>14, <1>15 DEF WalkOK
<1>17. FoundRight'
  BY <1>1, <1>2, <1>9 DEF FoundRight
<1>18. SnapshotExact' /\ VerdictRight'
  BY <1>1, <1>9, UnderWay
<1>. QED BY <1>1, <1>2, <1>9, <1>16, <1>17, <1>18 DEF SnapInv, SnapTyped, Walking

LEMMA VisitDirInv ==
  ASSUME SnapInv, VisitDir
  PROVE  SnapInv'
<1>1. PICK d : d = Min(scan.entries)
  OBVIOUS
<1>2. /\ scan.at = "walk" /\ scan.entries # {} /\ d \in Dir
      /\ IF TooDeep(d) THEN Returns("raised") ELSE
           scan' = [scan EXCEPT !.entries = @ \ {d}, !.children =
                      IF scan.depth < MaxDepth THEN Append(@, <<d, scan.depth + 1>>) ELSE @]
      /\ UNCHANGED <<tree, saved, events, disturbed>>
  BY <1>1 DEF VisitDir
<1>3. scan \in Scan /\ SnapTyped /\ Walking /\ FoundRight
  BY <1>2 DEF SnapInv, SnapTyped, Walking
<1>4. PICK opened \in SUBSET Dir, visited \in SUBSET Path : WalkOK(opened, visited)
  BY <1>3 DEF SnapInv
<1>5. PendingOK(opened, visited) /\ VisitedOK(visited) /\ OpenedOK(opened, visited)
  BY <1>4 DEF WalkOK
<1>6. d \in scan.entries /\ DepthOf[d] = scan.depth + 1
  <2>1. scan.entries \in SUBSET (Dir \cup Path)
    BY <1>3 DEF Scan
  <2>. QED BY <2>1, <1>1, <1>2, <1>5, LeastName DEF PendingOK
<1>7. scan.depth \in 0..MaxDepth /\ scan.children \in Stack /\ scan.stack \in Stack
  BY <1>3 DEF Scan
<1>8. CASE TooDeep(d)
  <2>1. PICK e \in Listing[d] : e \in Dir \/ tree[e] # NoEntry
    BY <1>8 DEF TooDeep
  <2>2. DepthOf[d] > MaxDepth
    BY <1>6, <1>7, <1>8, TreeAssumption DEF TooDeep
  <2>3. ~(e \in Path /\ tree[e] = NoEntry)
    BY <2>1, OneHome
  <2>4. ~Within
    BY <1>2, <2>1, <2>2, <2>3 DEF Within
  <2>. QED BY <1>2, <1>8, <2>4, RaisedInv
<1>9. CASE ~TooDeep(d)
  <2>. DEFINE kept == IF scan.depth < MaxDepth THEN Append(scan.children, <<d, scan.depth + 1>>)
                                               ELSE scan.children
  <2>1. scan' = [scan EXCEPT !.entries = scan.entries \ {d}, !.children = kept]
    BY <1>2, <1>9
  <2>2. d \notin On(scan.children) \cup On(scan.stack)
    BY <1>5, <1>6 DEF PendingOK
  <2>3. /\ kept \in Stack /\ StackOK(kept)
        /\ On(kept) = IF scan.depth < MaxDepth THEN On(scan.children) \cup {d} ELSE On(scan.children)
    <3>1. CASE scan.depth < MaxDepth
      <4>1. DepthOf[d] \in 0..MaxDepth
        BY <3>1, <1>6, <1>7, TreeAssumption
      <4>. QED BY <3>1, <4>1, <1>2, <1>5, <1>6, <1>7, <2>2, PushDir DEF PendingOK
    <3>2. CASE ~(scan.depth < MaxDepth)
      BY <3>2, <1>5, <1>7 DEF PendingOK
    <3>. QED BY <3>1, <3>2
  <2>. HIDE DEF kept
  <2>4. /\ scan' \in Scan /\ scan'.at = "walk" /\ scan'.task = scan.task
        /\ scan'.children = kept /\ scan'.stack = scan.stack /\ scan'.entries = scan.entries \ {d}
        /\ scan'.depth = scan.depth /\ scan'.count = scan.count /\ scan'.listed = scan.listed
        /\ scan'.found = scan.found
    BY <1>2, <1>3, <2>1, <2>3 DEF Scan
  <2>5. PICK more : more = IF scan.depth < MaxDepth THEN {} ELSE {d}
    OBVIOUS
  <2>6. more \subseteq Dir /\ more \subseteq {d}
    BY <1>2, <2>5
  <2>7. d \in Pending
    BY <1>2, <1>6 DEF Pending
  <2>8. Pending' = Pending \ more
    <3>1. Pending = On(scan.children) \cup On(scan.stack) \cup (scan.entries \cap Dir)
      BY DEF Pending
    <3>2. Pending' = On(kept) \cup On(scan.stack) \cup ((scan.entries \ {d}) \cap Dir)
      BY <2>4 DEF Pending
    <3>3. CASE scan.depth < MaxDepth
      BY <3>1, <3>2, <3>3, <2>3, <2>5, <2>7
    <3>4. CASE ~(scan.depth < MaxDepth)
      BY <3>1, <3>2, <3>4, <2>2, <2>3, <2>5
    <3>. QED BY <3>3, <3>4
  <2>9. PendingOK(opened \cup more, visited)'
    <3>1. (opened \cup more) \cap Pending' = {} /\ Top \in (opened \cup more) \cup Pending'
      BY <1>5, <2>8 DEF PendingOK
    <3>2. On(kept) \cap On(scan.stack) = {} /\ (On(kept) \cup On(scan.stack)) \cap (scan.entries \ {d}) = {}
      BY <1>5, <2>2, <2>3 DEF PendingOK
    <3>3. \A e \in (opened \cup more) \cup Pending' \cup visited \cup scan'.entries :
            e = Top \/ \E c \in opened \cup more : e \in Listing[c]
      BY <1>5, <2>4, <2>6, <2>7, <2>8 DEF PendingOK
    <3>4. visited \cap scan'.entries = {} /\ \A e \in scan'.entries \cap Dir : DepthOf[e] = scan'.depth + 1
      BY <1>5, <2>4 DEF PendingOK
    <3>5. StackOK(scan.stack)
      BY <1>5 DEF PendingOK
    <3>. QED BY <2>3, <2>4, <3>1, <3>2, <3>3, <3>4, <3>5 DEF PendingOK
  <2>10. VisitedOK(visited)'
    BY <1>2, <1>5, <2>4 DEF VisitedOK
  <2>11. OpenedOK(opened \cup more, visited)'
    <3>1. ASSUME NEW e \in opened
          PROVE  /\ Listing[e] \cap Dir \subseteq (opened \cup more) \cup Pending'
                 /\ \A p \in (Listing[e] \cap Path) \ disturbed' :
                      p \in visited \cup scan'.entries \/ tree'[p] = NoEntry
                 /\ DepthOf[e] > MaxDepth =>
                      \A x \in Listing[e] : x \in Path /\ (x \notin disturbed' => tree'[x] = NoEntry)
      <4>1. \A p \in Path : p # d
        BY <1>2, OneHome
      <4>. QED BY <1>2, <1>5, <2>4, <2>8, <3>1, <4>1 DEF OpenedOK
    <3>2. ASSUME d \in more
          PROVE  \A x \in Listing[d] : x \in Path /\ x \notin Dir /\ tree'[x] = NoEntry
      <4>1. scan.depth = MaxDepth
        BY <3>2, <2>5, <1>7, TreeAssumption
      <4>. QED BY <4>1, <1>2, <1>9, OneHome DEF TooDeep
    <3>3. ASSUME NEW e \in more
          PROVE  /\ Listing[e] \cap Dir \subseteq (opened \cup more) \cup Pending'
                 /\ \A p \in (Listing[e] \cap Path) \ disturbed' :
                      p \in visited \cup scan'.entries \/ tree'[p] = NoEntry
                 /\ DepthOf[e] > MaxDepth =>
                      \A x \in Listing[e] : x \in Path /\ (x \notin disturbed' => tree'[x] = NoEntry)
      <4>1. e = d
        BY <2>6, <3>3
      <4>. QED BY <3>2, <3>3, <4>1
    <3>. QED BY <3>1, <3>3 DEF OpenedOK
  <2>12. \E o \in SUBSET Dir, v \in SUBSET Path : WalkOK(o, v)'
    BY <1>4, <2>6, <2>9, <2>10, <2>11 DEF WalkOK
  <2>13. FoundRight'
    BY <1>2, <1>3, <2>4 DEF FoundRight
  <2>14. SnapshotExact' /\ VerdictRight'
    BY <1>2, <2>4, UnderWay
  <2>. QED BY <1>2, <1>3, <2>4, <2>12, <2>13, <2>14 DEF SnapInv, SnapTyped, Walking
<1>. QED BY <1>8, <1>9

LEMMA VisitFileInv ==
  ASSUME SnapInv, VisitFile
  PROVE  SnapInv'
<1>1. PICK p : p = Min(scan.entries)
  OBVIOUS
<1>2. /\ scan.at = "walk" /\ scan.entries # {} /\ p \in Path
      /\ UNCHANGED <<tree, saved, events, disturbed>>
  BY <1>1 DEF VisitFile
<1>3. \/ tree[p] = NoEntry /\ scan' = [scan EXCEPT !.entries = @ \ {p}]
      \/ tree[p] # NoEntry /\ scan.count = MaxFiles /\ Returns("raised")
      \/ /\ tree[p] # NoEntry /\ scan.count # MaxFiles
         /\ scan' = [scan EXCEPT !.entries = @ \ {p}, !.listed = Append(@, p), !.count = @ + 1,
                                 !.at = IF scan.task = "manifest" THEN "hash" ELSE "walk"]
  BY <1>1 DEF VisitFile
<1>4. scan \in Scan /\ SnapTyped /\ Walking /\ FoundRight
  BY <1>2 DEF SnapInv, SnapTyped, Walking
<1>5. PICK opened \in SUBSET Dir, visited \in SUBSET Path : WalkOK(opened, visited)
  BY <1>4 DEF SnapInv
<1>6. PendingOK(opened, visited) /\ VisitedOK(visited) /\ OpenedOK(opened, visited)
  BY <1>5 DEF WalkOK
<1>7. p \in scan.entries /\ p \notin Dir /\ p \notin visited
  <2>1. scan.entries \in SUBSET (Dir \cup Path)
    BY <1>4 DEF Scan
  <2>. QED BY <2>1, <1>1, <1>2, <1>6, LeastName, OneHome DEF PendingOK
<1>8. IsFiniteSet(visited) /\ Cardinality(visited \cup {p}) = scan.count + 1
  <2>1. IsFiniteSet(visited)
    BY FS_Subset, OneHome
  <2>. QED BY <2>1, <1>6, <1>7, FS_AddElement DEF VisitedOK
<1>9. scan.listed \in Seq(Path) /\ scan.count \in 0..MaxFiles
  BY <1>4 DEF Scan
<1>10. CASE scan.count = MaxFiles /\ tree[p] # NoEntry /\ Returns("raised")
  <2>1. ASSUME disturbed = {}
        PROVE  ~Within
    <3>1. visited \cup {p} \subseteq Known(tree) /\ Known(tree) \subseteq Path
      BY <1>2, <1>6, <1>10, <2>1 DEF VisitedOK, Known
    <3>2. IsFiniteSet(Known(tree))
      BY <3>1, FS_Subset, OneHome
    <3>3. Cardinality(visited \cup {p}) <= Cardinality(Known(tree))
      BY <3>1, <3>2, FS_Subset
    <3>4. Cardinality(Known(tree)) \in Nat
      BY <3>2, FS_CardinalityType
    <3>. QED BY <1>8, <1>9, <1>10, <3>3, <3>4, TreeAssumption DEF Within
  <2>. QED BY <1>2, <1>10, <2>1, RaisedInv
<1>11. CASE /\ ~(scan.count = MaxFiles /\ tree[p] # NoEntry)
            /\ ~(scan.count = MaxFiles /\ tree[p] # NoEntry /\ Returns("raised"))
  <2>1. PICK here : here = IF tree[p] = NoEntry THEN {} ELSE {p}
    OBVIOUS
  <2>2. here \subseteq {p} /\ visited \cup here \in SUBSET Path /\ (tree[p] # NoEntry => here = {p})
    BY <1>2, <2>1
  <2>3. /\ scan' \in Scan /\ scan'.task = scan.task
        /\ scan'.children = scan.children /\ scan'.stack = scan.stack /\ scan'.entries = scan.entries \ {p}
        /\ scan'.depth = scan.depth /\ scan'.found = scan.found
        /\ scan'.count = Cardinality(visited \cup here)
        /\ ToSet(scan'.listed) = ToSet(scan.listed) \cup here
        /\ scan'.at = IF here # {} /\ scan.task = "manifest" THEN "hash" ELSE "walk"
        /\ Len(scan'.listed) = IF here # {} THEN Len(scan.listed) + 1 ELSE Len(scan.listed)
    <3>1. CASE tree[p] = NoEntry
      <4>1. scan' = [scan EXCEPT !.entries = scan.entries \ {p}] /\ here = {}
        BY <3>1, <1>3, <2>1
      <4>2. visited \cup here = visited
        BY <4>1
      <4>. QED BY <4>1, <4>2, <1>2, <1>4, <1>6 DEF Scan, VisitedOK
    <3>2. CASE tree[p] # NoEntry
      <4>1. /\ scan' = [scan EXCEPT !.entries = scan.entries \ {p}, !.listed = Append(scan.listed, p),
                          !.count = scan.count + 1,
                          !.at = IF scan.task = "manifest" THEN "hash" ELSE "walk"]
            /\ here = {p}
        BY <3>2, <1>3, <1>11, <2>1
      <4>2. scan.count + 1 \in 0..MaxFiles
        BY <3>2, <1>9, <1>11, TreeAssumption
      <4>3. /\ Append(scan.listed, p) \in Seq(Path) /\ Len(Append(scan.listed, p)) = Len(scan.listed) + 1
            /\ ToSet(Append(scan.listed, p)) = ToSet(scan.listed) \cup {p}
        BY <1>2, <1>9, AddFile
      <4>. QED BY <4>1, <4>2, <4>3, <1>4, <1>8 DEF Scan
    <3>. QED BY <3>1, <3>2
  <2>4. Pending' = Pending
    BY <1>7, <2>3 DEF Pending
  <2>5. PendingOK(opened, visited \cup here)'
    <3>1. (visited \cup here) \cap scan'.entries = {}
      BY <1>6, <2>2, <2>3 DEF PendingOK
    <3>2. \A e \in opened \cup Pending' \cup (visited \cup here) \cup scan'.entries :
            e = Top \/ \E c \in opened : e \in Listing[c]
      BY <1>6, <1>7, <2>2, <2>3, <2>4 DEF PendingOK
    <3>. QED BY <1>6, <2>3, <2>4, <3>1, <3>2 DEF PendingOK
  <2>6. VisitedOK(visited \cup here)'
    <3>1. ASSUME NEW x \in (visited \cup here) \ disturbed'
          PROVE  tree'[x] # NoEntry /\ (scan'.found[x] # NoEntry \/ x \in ToSet(scan'.listed))
      <4>1. CASE x \in here
        BY <4>1, <1>2, <2>1, <2>3
      <4>2. CASE x \in visited
        BY <4>2, <3>1, <1>2, <1>6, <2>3 DEF VisitedOK
      <4>. QED BY <3>1, <4>1, <4>2
    <3>. QED BY <2>3, <3>1 DEF VisitedOK
  <2>7. OpenedOK(opened, visited \cup here)'
    <3>1. ASSUME NEW e \in opened
          PROVE  \A x \in (Listing[e] \cap Path) \ disturbed' :
                   x \in (visited \cup here) \cup scan'.entries \/ tree'[x] = NoEntry
      BY <1>2, <1>6, <2>2, <2>3, <3>1 DEF OpenedOK
    <3>. QED BY <1>2, <1>6, <2>4, <3>1 DEF OpenedOK
  <2>8. \E o \in SUBSET Dir, v \in SUBSET Path : WalkOK(o, v)'
    BY <1>5, <2>2, <2>5, <2>6, <2>7 DEF WalkOK
  <2>9. FoundRight'
    <3>1. \A x \in ToSet(scan'.listed) \ disturbed' : tree'[x] # NoEntry
      BY <1>2, <1>4, <2>1, <2>3 DEF FoundRight
    <3>. QED BY <1>2, <1>4, <2>3, <3>1 DEF FoundRight
  <2>10. SnapshotExact' /\ VerdictRight'
    BY <1>2, <2>3, UnderWay
  <2>11. Walking' /\ scan'.at \in {"walk", "hash"} /\ (scan'.at = "hash" => scan.task = "manifest")
    BY <2>3 DEF Walking
  <2>12. scan.task = "manifest" => Len(scan'.listed) = IF scan'.at = "hash" THEN 1 ELSE 0
    <3>1. scan.task = "manifest" => Len(scan.listed) = 0
      BY <1>2, <1>4 DEF SnapInv
    <3>. QED BY <2>3, <3>1
  <2>13. SnapTyped'
    BY <1>2, <1>4, <2>3 DEF SnapTyped
  <2>. QED BY <2>3, <2>8, <2>9, <2>10, <2>11, <2>12, <2>13 DEF SnapInv, Walking
<1>. QED BY <1>3, <1>10, <1>11

\* A walk that has nothing left to visit has been everywhere.
LEMMA WalkComplete ==
  ASSUME SnapTyped, scan.at = "walk", scan.entries = {}, scan.children = <<>>, scan.stack = <<>>,
         NEW opened \in SUBSET Dir, NEW visited \in SUBSET Path, WalkOK(opened, visited)
  PROVE  /\ \A p \in Path \ disturbed :
              tree[p] = NoEntry \/ scan.found[p] # NoEntry \/ p \in ToSet(scan.listed)
         /\ disturbed = {} => Within
<1>1. PendingOK(opened, visited) /\ VisitedOK(visited) /\ OpenedOK(opened, visited)
  BY DEF WalkOK
<1>2. Pending = {}
  BY EmptyStack DEF Pending
<1>3. opened = Dir
  BY <1>1, <1>2, AllReached DEF PendingOK, OpenedOK
<1>4. \A p \in Path \ disturbed : p \in visited \/ tree[p] = NoEntry
  BY <1>1, <1>3, OneHome DEF OpenedOK
<1>5. ASSUME disturbed = {}
      PROVE  Within
  <2>1. Known(tree) \subseteq visited
    BY <1>4, <1>5 DEF Known
  <2>2. IsFiniteSet(visited)
    BY FS_Subset, OneHome
  <2>3. Cardinality(Known(tree)) <= Cardinality(visited) /\ Cardinality(visited) <= MaxFiles
    BY <2>1, <2>2, <1>1, FS_Subset DEF VisitedOK, SnapTyped, Scan
  <2>4. Cardinality(Known(tree)) \in Nat /\ Cardinality(visited) \in Nat
    BY <2>1, <2>2, FS_Subset, FS_CardinalityType
  <2>5. \A d \in Dir : DepthOf[d] > MaxDepth => \A e \in Listing[d] : e \in Path /\ tree[e] = NoEntry
    BY <1>1, <1>3, <1>5 DEF OpenedOK
  <2>. QED BY <2>3, <2>4, <2>5, TreeAssumption DEF Within
<1>. QED BY <1>1, <1>4, <1>5 DEF VisitedOK

LEMMA WalkEndsInv ==
  ASSUME SnapInv, WalkEnds
  PROVE  SnapInv'
<1>1. /\ scan.at = "walk" /\ scan.task # "manifest"
      /\ scan.entries = {} /\ scan.children = <<>> /\ scan.stack = <<>>
      /\ scan' = [scan EXCEPT !.at = "hash"]
      /\ UNCHANGED <<tree, saved, events, disturbed>>
  BY DEF WalkEnds
<1>2. scan \in Scan /\ SnapTyped /\ Walking /\ FoundRight
  BY <1>1 DEF SnapInv, SnapTyped, Walking
<1>3. /\ scan' \in Scan /\ scan'.at = "hash" /\ scan'.task = scan.task /\ scan'.listed = scan.listed
      /\ scan'.found = scan.found
  BY <1>1, <1>2 DEF Scan
<1>4. PICK opened \in SUBSET Dir, visited \in SUBSET Path : WalkOK(opened, visited)
  BY <1>2 DEF SnapInv
<1>5. /\ \A p \in Path \ disturbed :
           tree[p] = NoEntry \/ scan.found[p] # NoEntry \/ p \in ToSet(scan.listed)
      /\ disturbed = {} => Within
  BY <1>1, <1>2, <1>4, WalkComplete
<1>6. Accounted'
  BY <1>1, <1>3, <1>5 DEF Accounted
<1>7. disturbed' = {} => Within'
  BY <1>1, <1>5 DEF Within, Known
<1>8. FoundRight'
  BY <1>1, <1>2, <1>3 DEF FoundRight
<1>9. SnapshotExact' /\ VerdictRight'
  BY <1>1, <1>3, UnderWay
<1>10. ~Walking'
  BY <1>1, <1>3 DEF Walking
<1>. QED BY <1>1, <1>2, <1>3, <1>6, <1>7, <1>8, <1>9, <1>10 DEF SnapInv, SnapTyped

LEMMA PassUnknownInv ==
  ASSUME SnapInv, PassUnknown
  PROVE  SnapInv'
<1>1. /\ scan.at = "hash" /\ scan.listed # <<>> /\ scan.task = "check"
      /\ Head(scan.listed) \notin Known(saved.files)
      /\ scan' = [scan EXCEPT !.listed = Tail(scan.listed)]
      /\ UNCHANGED <<tree, saved, events, disturbed>>
  BY DEF PassUnknown
<1>2. scan \in Scan /\ SnapTyped /\ ~Walking /\ FoundRight /\ Accounted
  BY <1>1 DEF SnapInv, SnapTyped, Walking
<1>3. /\ Tail(scan.listed) \in Seq(Path)
      /\ ToSet(scan.listed) = {Head(scan.listed)} \cup ToSet(Tail(scan.listed))
  BY <1>1, <1>2, TakeFile DEF Scan
<1>4. /\ scan' \in Scan /\ scan'.at = "hash" /\ scan'.task = "check" /\ scan'.listed = Tail(scan.listed)
      /\ scan'.found = scan.found
  BY <1>1, <1>2, <1>3 DEF Scan
<1>5. Accounted'
  BY <1>1, <1>2, <1>3, <1>4 DEF Accounted, Known
<1>6. FoundRight'
  BY <1>1, <1>2, <1>3, <1>4 DEF FoundRight
<1>7. disturbed' = {} => Within'
  BY <1>1, <1>2 DEF SnapInv, Within, Known
<1>8. SnapshotExact' /\ VerdictRight'
  BY <1>1, <1>4, UnderWay
<1>9. ~Walking'
  BY <1>4 DEF Walking
<1>. QED BY <1>1, <1>2, <1>4, <1>5, <1>6, <1>7, <1>8, <1>9 DEF SnapInv, SnapTyped

\* A file that nobody has changed since it was listed is still there.
LEMMA GoneWasDisturbed ==
  ASSUME SnapInv, scan.at \in {"hash", "stat"}, scan.listed # <<>>, tree[Head(scan.listed)] = NoEntry,
         Returns("raised"), UNCHANGED <<tree, saved, events, disturbed>>
  PROVE  SnapInv'
<1>1. Head(scan.listed) \in ToSet(scan.listed) /\ FoundRight
  BY TakeFile DEF SnapInv, SnapTyped, Scan
<1>2. disturbed # {}
  BY <1>1 DEF FoundRight
<1>. QED BY <1>2, RaisedInv

LEMMA HashFileInv ==
  ASSUME SnapInv, HashFile
  PROVE  SnapInv'
<1>1. PICK p : p = Head(scan.listed)
  OBVIOUS
<1>2. PICK now : now = [sha |-> tree[p].sha, mtime |-> 0]
  OBVIOUS
<1>3. /\ scan.at = "hash" /\ scan.listed # <<>> /\ (scan.task = "check" => p \in Known(saved.files))
      /\ UNCHANGED <<tree, saved, events, disturbed>>
  BY <1>1 DEF HashFile
<1>4. \/ tree[p] = NoEntry /\ Returns("raised")
      \/ tree[p] # NoEntry /\ scan.task \in {"snapshot", "verify"} /\
         scan' = [scan EXCEPT !.found[p] = now, !.at = "stat"]
      \/ tree[p] # NoEntry /\ scan.task \notin {"snapshot", "verify"} /\
         scan' = [scan EXCEPT !.found[p] = now, !.listed = Tail(scan.listed),
                              !.at = IF scan.task = "manifest" THEN "walk" ELSE "hash"]
  BY <1>1, <1>2 DEF HashFile
<1>5. scan \in Scan /\ SnapTyped /\ FoundRight
  BY <1>3 DEF SnapInv, SnapTyped
<1>6. /\ p \in Path /\ Tail(scan.listed) \in Seq(Path) /\ Len(Tail(scan.listed)) = Len(scan.listed) - 1
      /\ ToSet(scan.listed) = {p} \cup ToSet(Tail(scan.listed))
  BY <1>1, <1>3, <1>5, TakeFile DEF Scan
<1>7. CASE tree[p] = NoEntry
  BY <1>1, <1>3, <1>4, <1>7, GoneWasDisturbed
<1>8. CASE tree[p] # NoEntry
  <2>1. now \in Entry /\ now # NoEntry /\ now.sha = tree[p].sha
    <3>1. tree[p] \in Entry
      BY <1>5, <1>6 DEF SnapTyped
    <3>2. tree[p].sha \in 0..MaxEvents
      BY <3>1, <1>8, EntryParts
    <3>. QED BY <3>2, <1>2, TreeAssumption DEF Entry, NoEntry
  <2>2. /\ scan' \in Scan /\ scan'.task = scan.task
        /\ scan'.found = [scan.found EXCEPT ![p] = now]
        /\ scan'.at = CASE scan.task \in {"snapshot", "verify"} -> "stat"
                        [] scan.task = "manifest" -> "walk" [] OTHER -> "hash"
        /\ scan'.listed = IF scan.task \in {"snapshot", "verify"} THEN scan.listed ELSE Tail(scan.listed)
        /\ scan'.entries = scan.entries /\ scan'.children = scan.children /\ scan'.stack = scan.stack
        /\ scan'.depth = scan.depth /\ scan'.count = scan.count
    <3>1. [scan.found EXCEPT ![p] = now] \in [Path -> Entry]
      BY <1>5, <2>1 DEF Scan
    <3>2. CASE scan.task \in {"snapshot", "verify"}
      BY <3>1, <3>2, <1>4, <1>5, <1>8 DEF Scan
    <3>3. CASE scan.task \notin {"snapshot", "verify"}
      BY <3>1, <3>3, <1>4, <1>5, <1>6, <1>8 DEF Scan
    <3>. QED BY <3>2, <3>3
  <2>3. scan'.found[p] = now /\ \A x \in Path \ {p} : scan'.found[x] = scan.found[x]
    BY <1>5, <1>6, <2>2 DEF Scan
  <2>4. \A x \in ToSet(scan.listed) : x = p \/ x \in ToSet(scan'.listed)
    BY <1>6, <2>2
  <2>5. \A x \in ToSet(scan'.listed) : x \in ToSet(scan.listed)
    BY <1>6, <2>2
  <2>6. FoundRight'
    <3>1. ASSUME NEW x \in Path \ disturbed', scan'.found[x] # NoEntry
          PROVE  /\ scan'.found[x].sha = tree'[x].sha
                 /\ scan'.task \in {"snapshot", "verify"} =>
                      scan'.found[x] = tree'[x] \/ (scan'.at = "stat" /\ x = Head(scan'.listed))
      <4>1. CASE x = p
        BY <4>1, <1>1, <1>3, <2>1, <2>2, <2>3
      <4>2. CASE x # p
        BY <4>2, <3>1, <1>3, <1>5, <2>2, <2>3 DEF FoundRight
      <4>. QED BY <4>1, <4>2
    <3>2. \A x \in ToSet(scan'.listed) \ disturbed' : tree'[x] # NoEntry
      BY <1>3, <1>5, <2>5 DEF FoundRight
    <3>. QED BY <3>1, <3>2 DEF FoundRight
  <2>7. SnapshotExact' /\ VerdictRight' /\ scan'.at \in {"walk", "hash", "stat"}
    <3>1. scan'.at \in {"walk", "hash", "stat"}
      BY <2>2
    <3>. QED BY <3>1, <1>3, UnderWay
  <2>8. SnapTyped'
    BY <1>3, <1>5, <2>2 DEF SnapTyped
  <2>9. scan'.at = "stat" => /\ scan'.listed # <<>> /\ scan'.task \in {"snapshot", "verify"}
                             /\ scan'.found[Head(scan'.listed)] # NoEntry
    BY <1>1, <1>3, <2>1, <2>2, <2>3
  <2>10. CASE scan.task = "manifest"
    <3>1. Walking /\ Walking' /\ scan'.at = "walk"
      BY <1>3, <2>2, <2>10 DEF Walking
    <3>2. PICK opened \in SUBSET Dir, visited \in SUBSET Path : WalkOK(opened, visited)
      BY <3>1 DEF SnapInv
    <3>3. Pending' = Pending
      BY <2>2 DEF Pending
    <3>4. PendingOK(opened, visited)'
      BY <2>2, <3>2, <3>3 DEF WalkOK, PendingOK
    <3>5. VisitedOK(visited)'
      BY <1>3, <2>1, <2>2, <2>3, <2>4, <3>2 DEF WalkOK, VisitedOK
    <3>6. OpenedOK(opened, visited)'
      BY <1>3, <2>2, <3>2, <3>3 DEF WalkOK, OpenedOK
    <3>7. \E o \in SUBSET Dir, v \in SUBSET Path : WalkOK(o, v)'
      BY <3>2, <3>4, <3>5, <3>6 DEF WalkOK
    <3>8. Len(scan'.listed) = 0
      <4>1. Len(scan.listed) = 1
        BY <1>3, <2>10, <3>1 DEF SnapInv
      <4>. QED BY <4>1, <1>6, <2>2, <2>10
    <3>. QED BY <2>6, <2>7, <2>8, <3>1, <3>7, <3>8 DEF SnapInv
  <2>11. CASE scan.task # "manifest"
    <3>1. ~Walking /\ ~Walking' /\ scan'.at \in {"hash", "stat"}
      BY <1>3, <2>2, <2>11 DEF Walking
    <3>2. Accounted'
      BY <1>3, <2>1, <2>2, <2>3, <2>4, <3>1 DEF SnapInv, Accounted
    <3>3. disturbed' = {} => Within'
      BY <1>3, <3>1 DEF SnapInv, Within, Known
    <3>. QED BY <2>6, <2>7, <2>8, <2>9, <3>1, <3>2, <3>3 DEF SnapInv
  <2>. QED BY <2>10, <2>11
<1>. QED BY <1>7, <1>8

LEMMA StatFileInv ==
  ASSUME SnapInv, StatFile
  PROVE  SnapInv'
<1>1. PICK p : p = Head(scan.listed)
  OBVIOUS
<1>2. scan.at = "stat" /\ UNCHANGED <<tree, saved, events, disturbed>>
  BY DEF StatFile
<1>3. \/ tree[p] = NoEntry /\ Returns("raised")
      \/ tree[p] # NoEntry /\
         scan' = [scan EXCEPT !.found[p].mtime = tree[p].mtime, !.listed = Tail(scan.listed), !.at = "hash"]
  BY <1>1, <1>2 DEF StatFile
<1>4. /\ scan \in Scan /\ SnapTyped /\ FoundRight /\ Accounted /\ ~Walking /\ scan.listed # <<>>
      /\ scan.task \in {"snapshot", "verify"} /\ scan.found[p] # NoEntry
  BY <1>1, <1>2 DEF SnapInv, SnapTyped, Walking
<1>5. /\ p \in Path /\ Tail(scan.listed) \in Seq(Path)
      /\ ToSet(scan.listed) = {p} \cup ToSet(Tail(scan.listed))
  BY <1>1, <1>4, TakeFile DEF Scan
<1>6. CASE tree[p] = NoEntry
  BY <1>1, <1>2, <1>3, <1>4, <1>6, GoneWasDisturbed
<1>7. CASE tree[p] # NoEntry
  <2>1. PICK now : now = [scan.found[p] EXCEPT !.mtime = tree[p].mtime]
    OBVIOUS
  <2>2. tree[p] \in Entry /\ scan.found[p] \in Entry
    BY <1>4, <1>5 DEF SnapTyped, Scan
  <2>3. now \in Entry /\ now # NoEntry /\ now.sha = scan.found[p].sha /\ now.mtime = tree[p].mtime
    <3>1. tree[p].mtime \in 0..MaxEvents /\ scan.found[p].sha \in 0..MaxEvents
      BY <1>4, <1>7, <2>2, EntryParts
    <3>2. scan.found[p] \in [sha : 0..MaxEvents, mtime : 0..MaxEvents]
      BY <1>4, <2>2 DEF Entry
    <3>. QED BY <2>1, <3>1, <3>2, TreeAssumption DEF Entry, NoEntry
  <2>4. scan' = [scan EXCEPT !.found = [scan.found EXCEPT ![p] = now], !.listed = Tail(scan.listed),
                             !.at = "hash"]
    BY <1>3, <1>7, <2>1, <1>4 DEF Scan
  <2>5. /\ scan' \in Scan /\ scan'.task = scan.task /\ scan'.at = "hash"
        /\ scan'.found = [scan.found EXCEPT ![p] = now] /\ scan'.listed = Tail(scan.listed)
    <3>1. [scan.found EXCEPT ![p] = now] \in [Path -> Entry]
      BY <1>4, <2>3 DEF Scan
    <3>. QED BY <3>1, <1>4, <1>5, <2>4 DEF Scan
  <2>6. scan'.found[p] = now /\ \A x \in Path \ {p} : scan'.found[x] = scan.found[x]
    BY <1>4, <1>5, <2>5 DEF Scan
  <2>7. FoundRight'
    <3>1. ASSUME NEW x \in Path \ disturbed', scan'.found[x] # NoEntry
          PROVE  scan'.found[x].sha = tree'[x].sha /\ scan'.found[x] = tree'[x]
      <4>1. CASE x = p
        <5>1. now.sha = tree[p].sha
          BY <4>1, <3>1, <1>2, <1>4, <2>3 DEF FoundRight
        <5>. QED BY <5>1, <4>1, <1>2, <2>2, <2>3, <2>6, EntryParts
      <4>2. CASE x # p
        BY <4>2, <3>1, <1>1, <1>2, <1>4, <2>6 DEF FoundRight
      <4>. QED BY <4>1, <4>2
    <3>2. \A x \in ToSet(scan'.listed) \ disturbed' : tree'[x] # NoEntry
      BY <1>2, <1>4, <1>5, <2>5 DEF FoundRight
    <3>. QED BY <3>1, <3>2 DEF FoundRight
  <2>8. Accounted'
    BY <1>2, <1>4, <1>5, <2>3, <2>5, <2>6 DEF Accounted
  <2>9. SnapshotExact' /\ VerdictRight'
    BY <1>2, <2>5, UnderWay
  <2>10. SnapTyped'
    BY <1>2, <1>4, <2>5 DEF SnapTyped
  <2>11. ~Walking'
    BY <1>4, <2>5 DEF Walking
  <2>12. disturbed' = {} => Within'
    BY <1>2, <1>4 DEF SnapInv, Within, Known
  <2>. QED BY <1>4, <2>5, <2>7, <2>8, <2>9, <2>10, <2>11, <2>12 DEF SnapInv
<1>. QED BY <1>3, <1>6, <1>7

\* What a finished scan has found, of the files that nobody changed meanwhile.
LEMMA FoundAll ==
  ASSUME SnapInv, scan.listed = <<>>, FoundRight, Accounted, scan.at # "stat", NEW p \in Path \ disturbed,
         scan.task = "check" => p \in Known(saved.files)
  PROVE  /\ scan.found[p].sha = tree[p].sha
         /\ scan.task \in {"snapshot", "verify"} => scan.found[p] = tree[p]
<1>1. tree[p] \in Entry /\ scan.found[p] \in Entry
  BY DEF SnapInv, SnapTyped, Scan
<1>2. tree[p] = NoEntry \/ scan.found[p] # NoEntry
  BY NoList DEF Accounted
<1>3. scan.found[p] # NoEntry => scan.found[p].sha # -1
  BY <1>1, EntryParts
<1>4. scan.found[p] = NoEntry \/ scan.found[p].sha = tree[p].sha
  BY DEF FoundRight
<1>5. scan.found[p] = NoEntry <=> tree[p] = NoEntry
  BY <1>2, <1>3, <1>4, EntryParts
<1>. QED BY <1>4, <1>5 DEF FoundRight

LEMMA SaveInv ==
  ASSUME SnapInv, Save
  PROVE  SnapInv'
<1>1. /\ scan.at = "hash" /\ scan.listed = <<>> /\ scan.task = "snapshot"
      /\ Returns("saved") /\ UNCHANGED <<tree, events, disturbed>>
  BY DEF Save
<1>2. scan \in Scan /\ SnapTyped /\ FoundRight /\ Accounted /\ ~Walking
  BY <1>1 DEF SnapInv, SnapTyped, Walking
<1>3. PICK parent \in [Path -> Entry] :
        saved' = [by |-> "snapshot", files |-> scan.found, parent |-> parent,
                  changed |-> Changed(scan.found, parent), deleted |-> Known(parent) \ Known(scan.found)]
  <2>1. NoFiles \in [Path -> Entry] /\ saved.files \in [Path -> Entry]
    BY <1>2, AsleepTyped DEF SnapTyped, Document
  <2>. QED BY <2>1 DEF Save
<1>4. scan.found \in [Path -> Entry] /\ NoEntry \in Entry
  BY <1>2 DEF Scan, Entry
<1>5. saved' \in Document
  <2>1. Changed(scan.found, parent) \in [Path -> Entry]
    BY <1>3, <1>4 DEF Changed
  <2>. QED BY <2>1, <1>3, <1>4 DEF Document, Known
<1>6. scan'.at = "saved"
  BY <1>1 DEF Returns, Asleep
<1>7. SnapshotExact'
  <2>1. \A p \in Path \ disturbed' : saved'.files[p].sha = tree'[p].sha /\ saved'.files[p] = tree'[p]
    BY <1>1, <1>2, <1>3, FoundAll
  <2>2. ASSUME NEW p \in Path
        PROVE  saved'.files[p] = IF p \in saved'.deleted THEN NoEntry
                                 ELSE IF saved'.changed[p] # NoEntry THEN saved'.changed[p]
                                 ELSE saved'.parent[p]
    <3>1. /\ saved'.files[p] = scan.found[p] /\ saved'.parent[p] = parent[p]
          /\ saved'.changed[p] = IF scan.found[p] # parent[p] THEN scan.found[p] ELSE NoEntry
          /\ p \in saved'.deleted <=> parent[p] # NoEntry /\ scan.found[p] = NoEntry
      BY <1>3 DEF Changed, Known
    <3>. QED BY <3>1
  <2>. QED BY <2>1, <2>2 DEF SnapshotExact
<1>8. VerdictRight'
  BY <1>6 DEF VerdictRight
<1>9. disturbed = {} => Within
  BY <1>1, <1>2 DEF SnapInv
<1>. QED BY <1>1, <1>2, <1>5, <1>7, <1>8, <1>9, EndsInv

LEMMA SaveManifestInv ==
  ASSUME SnapInv, SaveManifest
  PROVE  SnapInv'
<1>1. /\ scan.at = "walk" /\ scan.task = "manifest"
      /\ scan.entries = {} /\ scan.children = <<>> /\ scan.stack = <<>>
      /\ saved' = [Unsaved EXCEPT !.by = "manifest", !.files = scan.found]
      /\ Returns("saved") /\ UNCHANGED <<tree, events, disturbed>>
  BY DEF SaveManifest
<1>2. scan \in Scan /\ SnapTyped /\ FoundRight /\ Walking
  BY <1>1 DEF SnapInv, SnapTyped, Walking
<1>3. scan.listed = <<>>
  <2>1. Len(scan.listed) = 0
    BY <1>1, <1>2 DEF SnapInv
  <2>. QED BY <2>1, <1>2 DEF Scan
<1>4. PICK opened \in SUBSET Dir, visited \in SUBSET Path : WalkOK(opened, visited)
  BY <1>2 DEF SnapInv
<1>5. /\ \A p \in Path \ disturbed :
           tree[p] = NoEntry \/ scan.found[p] # NoEntry \/ p \in ToSet(scan.listed)
      /\ disturbed = {} => Within
  BY <1>1, <1>2, <1>4, WalkComplete
<1>6. Accounted
  BY <1>5 DEF Accounted
<1>7. saved' \in Document /\ saved'.by = "manifest" /\ saved'.files = scan.found
  BY <1>1, <1>2, AsleepTyped DEF Unsaved, Document, Scan
<1>8. scan'.at = "saved"
  BY <1>1 DEF Returns, Asleep
<1>9. SnapshotExact'
  <2>1. \A p \in Path \ disturbed' : saved'.files[p].sha = tree'[p].sha
    BY <1>1, <1>2, <1>3, <1>6, <1>7, FoundAll
  <2>. QED BY <2>1, <1>7 DEF SnapshotExact
<1>10. VerdictRight'
  BY <1>8 DEF VerdictRight
<1>. QED BY <1>1, <1>2, <1>5, <1>7, <1>9, <1>10, EndsInv

LEMMA JudgeInv ==
  ASSUME SnapInv, Judge
  PROVE  SnapInv'
<1>1. /\ scan.at = "hash" /\ scan.listed = <<>> /\ scan.task \in {"verify", "check"}
      /\ Returns(IF Same(scan.found) THEN "verified" ELSE "differs")
      /\ UNCHANGED <<tree, saved, events, disturbed>>
  BY DEF Judge
<1>2. scan \in Scan /\ SnapTyped /\ FoundRight /\ Accounted /\ ~Walking
  BY <1>1 DEF SnapInv, SnapTyped, Walking
<1>3. scan'.task = scan.task /\ scan'.at = IF Same(scan.found) THEN "verified" ELSE "differs"
  BY <1>1 DEF Returns, Asleep
<1>4. scan.found \in [Path -> Entry] /\ saved.files \in [Path -> Entry] /\ tree \in [Path -> Entry]
  BY <1>2 DEF SnapTyped, Scan, Document
<1>5. \A p \in Path \ disturbed : (scan.task = "check" => p \in Known(saved.files)) =>
        scan.found[p].sha = tree[p].sha
  BY <1>1, <1>2, FoundAll
<1>6. ASSUME Same(scan.found), NEW p \in Path \ disturbed
      PROVE  tree[p].sha = saved.files[p].sha \/ (scan.task = "check" /\ p \notin Known(saved.files))
  <2>1. CASE p \in Known(saved.files)
    BY <1>5, <1>6, <2>1 DEF Same
  <2>2. CASE p \notin Known(saved.files) /\ scan.task = "verify"
    <3>1. scan.found[p] = NoEntry /\ saved.files[p] = NoEntry
      BY <1>6, <2>2 DEF Same, Known
    <3>. QED BY <1>5, <2>2, <3>1
  <2>. QED BY <1>1, <2>1, <2>2
<1>7. ASSUME ~Same(scan.found), disturbed = {}
      PROVE  \E p \in Path : tree[p].sha # saved.files[p].sha
  <2>1. CASE \E p \in Known(saved.files) : scan.found[p].sha # saved.files[p].sha
    BY <1>5, <1>7, <2>1 DEF Known
  <2>2. CASE scan.task = "verify" /\ ~(Known(scan.found) \subseteq Known(saved.files))
    <3>1. PICK p \in Path : scan.found[p] # NoEntry /\ saved.files[p] = NoEntry
      BY <2>2 DEF Known
    <3>2. scan.found[p].sha # saved.files[p].sha
      BY <3>1, <1>4, EntryParts
    <3>. QED BY <1>5, <1>7, <2>2, <3>2
  <2>. QED BY <1>7, <2>1, <2>2 DEF Same
<1>8. VerdictRight'
  <2>1. scan'.at = "verified" => \A p \in Path \ disturbed :
          tree[p].sha = saved.files[p].sha \/ (scan.task = "check" /\ p \notin Known(saved.files))
    BY <1>3, <1>6
  <2>2. scan'.at = "differs" => disturbed # {} \/ \E p \in Path : tree[p].sha # saved.files[p].sha
    BY <1>3, <1>7
  <2>. QED BY <1>1, <1>3, <2>1, <2>2 DEF VerdictRight, Known
<1>9. SnapshotExact'
  BY <1>1, <1>3 DEF SnapInv, SnapshotExact
<1>10. disturbed = {} => Within
  BY <1>1, <1>2 DEF SnapInv
<1>11. CASE Same(scan.found)
  BY <1>1, <1>2, <1>8, <1>9, <1>10, <1>11, EndsInv DEF SnapTyped
<1>12. CASE ~Same(scan.found)
  BY <1>1, <1>2, <1>8, <1>9, <1>10, <1>12, EndsInv DEF SnapTyped
<1>. QED BY <1>11, <1>12

\* Other programs change what is disturbed from then on, and nothing else.
LEMMA DisturbInv ==
  ASSUME SnapInv, events < MaxEvents, events' = events + 1, UNCHANGED <<scan, saved>>,
         NEW paths \in SUBSET Path, paths # {},
         disturbed' = disturbed \cup paths,
         tree' \in [Path -> Entry], \A p \in Path \ paths : tree'[p] = tree[p]
  PROVE  SnapInv'
<1>1. SnapTyped' /\ disturbed' # {}
  BY TreeAssumption DEF SnapInv, SnapTyped
<1>2. \A p \in Path \ disturbed' : p \in Path \ disturbed /\ tree'[p] = tree[p]
  OBVIOUS
<1>3. (Walking' <=> Walking) /\ Pending' = Pending
  BY DEF Walking, Pending
<1>4. ASSUME NEW opened \in SUBSET Dir, NEW visited \in SUBSET Path, WalkOK(opened, visited)
      PROVE  WalkOK(opened, visited)'
  <2>1. PendingOK(opened, visited)'
    BY <1>3, <1>4 DEF WalkOK, PendingOK
  <2>2. VisitedOK(visited)'
    BY <1>2, <1>4 DEF WalkOK, VisitedOK
  <2>3. OpenedOK(opened, visited)'
    BY <1>2, <1>3, <1>4 DEF WalkOK, OpenedOK
  <2>. QED BY <2>1, <2>2, <2>3 DEF WalkOK
<1>5. FoundRight => FoundRight'
  <2>1. scan \in Scan => ToSet(scan.listed) \subseteq Path
    BY DEF Scan, ToSet
  <2>. QED BY <1>2, <2>1 DEF FoundRight, SnapInv, SnapTyped
<1>6. Accounted => Accounted'
  BY <1>2 DEF Accounted
<1>7. SnapshotExact' /\ VerdictRight'
  BY <1>1, <1>2 DEF SnapInv, SnapshotExact, VerdictRight
<1>8. Walking => \E opened \in SUBSET Dir, visited \in SUBSET Path : WalkOK(opened, visited)'
  BY <1>4 DEF SnapInv
<1>. QED BY <1>1, <1>3, <1>5, <1>6, <1>7, <1>8 DEF SnapInv

LEMMA ChangeTreeInv ==
  ASSUME SnapInv, ChangeTree
  PROVE  SnapInv'
<1>1. /\ tree \in [Path -> Entry] /\ events \in Nat /\ NoEntry \in Entry
      /\ events < MaxEvents => events + 1 \in 0..MaxEvents
  BY TreeAssumption DEF SnapInv, SnapTyped, Entry
<1>2. CASE \E p \in Path : Disturb({p}, [tree EXCEPT ![p] = [sha |-> events + 1, mtime |-> events + 1]])
  <2>1. PICK p \in Path : Disturb({p}, [tree EXCEPT ![p] = [sha |-> events + 1, mtime |-> events + 1]])
    BY <1>2
  <2>2. [sha |-> events + 1, mtime |-> events + 1] \in Entry
    BY <1>1, <2>1 DEF Disturb, Entry
  <2>3. tree' \in [Path -> Entry] /\ \A x \in Path \ {p} : tree'[x] = tree[x]
    BY <1>1, <2>1, <2>2 DEF Disturb
  <2>4. events < MaxEvents /\ events' = events + 1 /\ UNCHANGED <<scan, saved>> /\ {p} # {}
        /\ disturbed' = disturbed \cup {p} /\ {p} \in SUBSET Path
    BY <2>1 DEF Disturb
  <2>. QED BY <2>3, <2>4, DisturbInv
<1>3. CASE \E p \in Path : tree[p] # NoEntry /\ Disturb({p}, [tree EXCEPT ![p].mtime = events + 1])
  <2>1. PICK p \in Path : tree[p] # NoEntry /\ Disturb({p}, [tree EXCEPT ![p].mtime = events + 1])
    BY <1>3
  <2>2. [tree[p] EXCEPT !.mtime = events + 1] \in Entry
    <3>1. tree[p] \in [sha : 0..MaxEvents, mtime : 0..MaxEvents]
      BY <1>1, <2>1 DEF Entry
    <3>. QED BY <1>1, <2>1, <3>1 DEF Disturb, Entry
  <2>3. tree' \in [Path -> Entry] /\ \A x \in Path \ {p} : tree'[x] = tree[x]
    BY <1>1, <2>1, <2>2 DEF Disturb
  <2>4. events < MaxEvents /\ events' = events + 1 /\ UNCHANGED <<scan, saved>> /\ {p} # {}
        /\ disturbed' = disturbed \cup {p} /\ {p} \in SUBSET Path
    BY <2>1 DEF Disturb
  <2>. QED BY <2>3, <2>4, DisturbInv
<1>4. CASE \E p \in Path : tree[p] # NoEntry /\ Disturb({p}, [tree EXCEPT ![p] = NoEntry])
  <2>1. PICK p \in Path : Disturb({p}, [tree EXCEPT ![p] = NoEntry])
    BY <1>4
  <2>2. tree' \in [Path -> Entry] /\ \A x \in Path \ {p} : tree'[x] = tree[x]
    BY <1>1, <2>1 DEF Disturb
  <2>3. events < MaxEvents /\ events' = events + 1 /\ UNCHANGED <<scan, saved>> /\ {p} # {}
        /\ disturbed' = disturbed \cup {p} /\ {p} \in SUBSET Path
    BY <2>1 DEF Disturb
  <2>. QED BY <2>2, <2>3, DisturbInv
<1>5. CASE \E p, q \in Path : /\ tree[p] # NoEntry /\ p # q
                              /\ Disturb({p, q}, [tree EXCEPT ![q] = tree[p], ![p] = NoEntry])
  <2>1. PICK p \in Path, q \in Path : Disturb({p, q}, [tree EXCEPT ![q] = tree[p], ![p] = NoEntry])
    BY <1>5
  <2>2. tree' \in [Path -> Entry] /\ \A x \in Path \ {p, q} : tree'[x] = tree[x]
    BY <1>1, <2>1 DEF Disturb
  <2>3. events < MaxEvents /\ events' = events + 1 /\ UNCHANGED <<scan, saved>> /\ {p, q} # {}
        /\ disturbed' = disturbed \cup {p, q} /\ {p, q} \in SUBSET Path
    BY <2>1 DEF Disturb
  <2>. QED BY <2>2, <2>3, DisturbInv
<1>. QED BY <1>2, <1>3, <1>4, <1>5 DEF ChangeTree

LEMMA SnapNextInv ==
  ASSUME SnapInv, [SnapNext]_snapVars
  PROVE  SnapInv'
<1>1. CASE UNCHANGED snapVars
  BY <1>1 DEF snapVars, SnapInv, SnapTyped, Walking, WalkOK, PendingOK, VisitedOK, OpenedOK, Pending,
              FoundRight, Accounted, Within, Known, SnapshotExact, VerdictRight
<1>2. CASE SnapNext
  BY <1>2, StartScanInv, OpenDirInv, VisitDirInv, VisitFileInv, WalkEndsInv, PassUnknownInv, HashFileInv,
     StatFileInv, SaveInv, SaveManifestInv, JudgeInv, ChangeTreeInv DEF SnapNext
<1>. QED BY <1>1, <1>2

\* For any tree and limits of iter_files, and any number of files that other
\* programs write, move and remove during a scan of create_snapshot,
\* verify_snapshot or the manifests: what nobody touches is seen as it is, and a
\* scan of a quiet tree raises exactly when the tree is beyond the limits.
THEOREM ScansAreRight == SnapSpec => []ScanRight
<1>1. SnapInv => ScanRight
  <2>. SUFFICES ASSUME SnapInv
                PROVE  ScanRight
    OBVIOUS
  <2>1. SnapTyped /\ SnapshotExact /\ VerdictRight
    BY DEF SnapInv
  <2>2. SnapTypes
    <3>1. Entry \subseteq [sha : -1..MaxEvents, mtime : -1..MaxEvents]
      BY TreeAssumption DEF Entry, NoEntry
    <3>2. \A q \in Seq(Path) : ToSet(q) \subseteq Path
      BY DEF ToSet
    <3>3. \A q \in Stack : ToSet(q) \subseteq Dir \X Depths
      <4>1. \A q \in Stack : \A i \in DOMAIN q : q[i] \in Dir \X (0..MaxDepth)
        BY DEF Stack
      <4>2. 0..MaxDepth \subseteq Depths
        BY TreeAssumption DEF Depths
      <4>. QED BY <4>1, <4>2 DEF ToSet
    <3>4. 0..MaxDepth \subseteq Depths
      BY TreeAssumption DEF Depths
    <3>. QED BY <2>1, <3>1, <3>2, <3>3, <3>4 DEF SnapTyped, SnapTypes, Scan, Document
  <2>3. scan.at \in {"saved", "verified", "differs", "raised"} /\ disturbed = {} =>
          (scan.at = "raised" <=> ~Within)
    BY DEF SnapInv, Walking
  <2>. QED BY <2>1, <2>2, <2>3 DEF ScanRight
<1>2. SnapInit => SnapInv
  BY SnapInitInv
<1>3. SnapInv /\ [SnapNext]_snapVars => SnapInv'
  BY SnapNextInv
<1>. QED BY <1>1, <1>2, <1>3, PTL DEF SnapSpec

-----------------------------------------------------------------------------
(* Cache advice.                                                              *)

CachedFile == [size : 1..Biggest, mtime : 0..MaxClock] \cup {Removed}
Heat == [size : 1..Biggest, tier : {"hot", "warm", "cold"}] \cup {NoHeat}
Report == [at : {"idle", "list", "stat", "planned"}, now : 0..MaxClock, freq : [Files -> 0..MaxUses],
           left : SUBSET Files, heat : [Files -> Heat], plan : SUBSET Files]

AdviceTyped ==
  /\ cache \in [Files -> CachedFile] /\ log \in [Files -> 0..uses]
  /\ clock \in 0..MaxClock /\ uses \in 0..MaxUses
  /\ report \in Report /\ report.now <= clock
  /\ early \subseteq Files

\* A plan takes what is ahead of the rest, as long as that is too little.
PlanSound ==
  /\ SizeOf(report.plan) >= Target \/ report.plan = Cold
  /\ \A fs \in SUBSET Cold : Cardinality(fs) < Cardinality(report.plan) => SizeOf(fs) < Target

\* What was used or written shortly before the report began is found warm, as
\* long as it is there: the log was read after the clock, and a file that is
\* written meanwhile is not older.
AdviceInv ==
  /\ AdviceTyped
  /\ report.at \in {"list", "stat"} => \A f \in early :
       report.freq[f] > 0 \/ f \notin There \/ report.now - cache[f].mtime <= WarmAge
  /\ report.at \in {"list", "stat", "planned"} => Cold \cap early = {}
  /\ report.at = "planned" => report.plan \subseteq Cold /\ PlanSound

-----------------------------------------------------------------------------
(* Sums of sizes.                                                             *)

BytesOf(fs) == {fb \in fs \X (1..Biggest) : fb[2] <= report.heat[fb[1]].size}

LEMMA FilesFinite ==
  ASSUME NEW fs \in SUBSET Files
  PROVE  /\ IsFiniteSet(fs) /\ Cardinality(fs) \in Nat /\ Cardinality(fs) <= Cached
         /\ IsFiniteSet(BytesOf(fs)) /\ SizeOf(fs) \in Nat /\ SizeOf(fs) = Cardinality(BytesOf(fs))
<1>1. IsFiniteSet(Files) /\ Cardinality(Files) = Cached
  BY FS_Interval, AdviceAssumption DEF Files
<1>2. IsFiniteSet(fs) /\ Cardinality(fs) <= Cached
  BY <1>1, FS_Subset
<1>3. IsFiniteSet(1..Biggest)
  BY FS_Interval, AdviceAssumption
<1>4. IsFiniteSet(fs \X (1..Biggest))
  BY <1>2, <1>3, FS_Product
<1>5. IsFiniteSet(BytesOf(fs))
  BY <1>4, FS_Subset DEF BytesOf
<1>6. SizeOf(fs) = Cardinality(BytesOf(fs))
  BY DEF SizeOf, BytesOf
<1>. QED BY <1>2, <1>5, <1>6, FS_CardinalityType

LEMMA MoreFiles ==
  ASSUME NEW fs \in SUBSET Files, NEW gs \in SUBSET fs
  PROVE  SizeOf(gs) <= SizeOf(fs)
<1>1. BytesOf(gs) \subseteq BytesOf(fs)
  BY DEF BytesOf
<1>. QED BY <1>1, FilesFinite, FS_Subset

LEMMA SplitFiles ==
  ASSUME NEW fs \in SUBSET Files, NEW gs \in SUBSET Files
  PROVE  /\ SizeOf(fs) = SizeOf(fs \cap gs) + SizeOf(fs \ gs)
         /\ Cardinality(fs) = Cardinality(fs \cap gs) + Cardinality(fs \ gs)
<1>1. /\ BytesOf(fs) = BytesOf(fs \cap gs) \cup BytesOf(fs \ gs)
      /\ BytesOf(fs \cap gs) \cap BytesOf(fs \ gs) = {}
  BY DEF BytesOf
<1>2. IsFiniteSet(BytesOf(fs \cap gs)) /\ IsFiniteSet(BytesOf(fs \ gs)) /\ IsFiniteSet(BytesOf(fs))
  BY FilesFinite
<1>3. Cardinality(BytesOf(fs)) =
        Cardinality(BytesOf(fs \cap gs)) + Cardinality(BytesOf(fs \ gs)) - Cardinality({})
  BY <1>1, <1>2, FS_Union
<1>4. Cardinality({}) = 0
  BY FS_EmptySet
<1>5. SizeOf(fs) = SizeOf(fs \cap gs) + SizeOf(fs \ gs)
  BY <1>3, <1>4, FilesFinite
<1>6. Cardinality(fs \ gs) = Cardinality(fs) - Cardinality(fs \cap gs)
  BY FilesFinite, FS_Difference
<1>7. Cardinality(fs) \in Nat /\ Cardinality(fs \cap gs) \in Nat
  BY FilesFinite
<1>. QED BY <1>5, <1>6, <1>7

LEMMA AllAtMost ==
  ASSUME NEW fs \in SUBSET Files, NEW s \in 0..Biggest, \A f \in fs : report.heat[f].size \in 0..s
  PROVE  SizeOf(fs) <= Cardinality(fs) * s
<1>1. BytesOf(fs) \subseteq fs \X (1..s)
  <2>1. ASSUME NEW fb \in BytesOf(fs)
        PROVE  fb \in fs \X (1..s)
    <3>1. /\ fb \in fs \X (1..Biggest) /\ fb[2] <= report.heat[fb[1]].size
          /\ fb[1] \in fs /\ fb[2] \in 1..Biggest
      BY <2>1 DEF BytesOf
    <3>2. fb[2] <= report.heat[fb[1]].size /\ report.heat[fb[1]].size <= s
      BY <3>1
    <3>3. fb[2] \in 1..s
      BY <3>1, <3>2, AdviceAssumption
    <3>. QED BY <3>1, <3>3
  <2>. QED BY <2>1
<1>2. IsFiniteSet(1..s) /\ Cardinality(1..s) = s
  BY FS_Interval
<1>3. IsFiniteSet(fs)
  BY FilesFinite
<1>4. IsFiniteSet(fs \X (1..s)) /\ Cardinality(fs \X (1..s)) = Cardinality(fs) * Cardinality(1..s)
  BY <1>2, <1>3, FS_Product
<1>5. Cardinality(fs \X (1..s)) = Cardinality(fs) * s
  BY <1>2, <1>4
<1>6. Cardinality(BytesOf(fs)) <= Cardinality(fs \X (1..s))
  BY <1>1, <1>4, FS_Subset
<1>. QED BY <1>5, <1>6, FilesFinite

LEMMA AllAtLeast ==
  ASSUME NEW fs \in SUBSET Files, NEW s \in 0..Biggest, \A f \in fs : report.heat[f].size \in s..Biggest
  PROVE  Cardinality(fs) * s <= SizeOf(fs)
<1>1. fs \X (1..s) \subseteq BytesOf(fs)
  BY AdviceAssumption DEF BytesOf
<1>2. IsFiniteSet(1..s) /\ Cardinality(1..s) = s
  BY FS_Interval
<1>3. IsFiniteSet(fs)
  BY FilesFinite
<1>4. IsFiniteSet(fs \X (1..s)) /\ Cardinality(fs \X (1..s)) = Cardinality(fs) * Cardinality(1..s)
  BY <1>2, <1>3, FS_Product
<1>5. Cardinality(fs \X (1..s)) = Cardinality(fs) * s
  BY <1>2, <1>4
<1>6. IsFiniteSet(BytesOf(fs))
  BY FilesFinite
<1>7. Cardinality(fs \X (1..s)) <= Cardinality(BytesOf(fs))
  BY <1>1, <1>6, FS_Subset
<1>. QED BY <1>5, <1>7, FilesFinite

-----------------------------------------------------------------------------
(* The order of candidates, and a plan.                                       *)

LEMMA HeatSizes ==
  ASSUME AdviceTyped, NEW f \in Files
  PROVE  report.heat[f].size \in 0..Biggest
<1>1. report.heat[f] \in Heat
  BY DEF AdviceTyped, Report
<1>2. \A h \in Heat : h.size \in 0..Biggest
  BY AdviceAssumption DEF Heat, NoHeat
<1>. QED BY <1>1, <1>2

LEMMA AheadOrders ==
  ASSUME AdviceTyped, NEW f \in Files, NEW g \in Files
  PROVE  /\ ~Ahead(f, f) /\ (f # g => Ahead(f, g) \/ Ahead(g, f))
         /\ Ahead(f, g) => report.heat[g].size <= report.heat[f].size
         /\ \A h \in Files : Ahead(f, g) /\ Ahead(g, h) => Ahead(f, h)
<1>1. \A h \in Files : report.heat[h].size \in Nat /\ h \in Nat
  BY HeatSizes, AdviceAssumption DEF Files
<1>. QED BY <1>1 DEF Ahead

Before(f) == {g \in Cold : Ahead(g, f)}

LEMMA BeforeGrows ==
  ASSUME AdviceTyped, NEW f \in Cold, NEW g \in Before(f)
  PROVE  Cardinality(Before(g)) < Cardinality(Before(f))
<1>1. Cold \subseteq Files /\ f \in Files /\ g \in Files /\ g \in Cold
  BY DEF Cold, Before
<1>2. Before(g) \subseteq Before(f) /\ g \notin Before(g)
  BY <1>1, AheadOrders DEF Before
<1>3. Before(f) \in SUBSET Files /\ Before(g) \in SUBSET Files
  BY <1>1 DEF Before
<1>4. IsFiniteSet(Before(f)) /\ Cardinality(Before(f)) \in Nat /\ Cardinality(Before(g)) \in Nat
  BY <1>3, FilesFinite
<1>5. Cardinality(Before(g)) <= Cardinality(Before(f)) /\ Cardinality(Before(g)) # Cardinality(Before(f))
  BY <1>2, <1>4, FS_Subset
<1>. QED BY <1>4, <1>5

\* The files of a plan that stops as soon as enough is taken, largest first.
LEMMA PlanIsSound ==
  ASSUME AdviceTyped, NEW plan, plan = {f \in Cold : SizeOf(Before(f)) < Target}
  PROVE  /\ plan \subseteq Cold
         /\ SizeOf(plan) >= Target \/ plan = Cold
         /\ \A fs \in SUBSET Cold : Cardinality(fs) < Cardinality(plan) => SizeOf(fs) < Target
<1>1. plan \in SUBSET Files /\ Cold \in SUBSET Files /\ \A f \in Files : Before(f) \in SUBSET Files
  BY DEF Cold, Before
<1>2. \A fs \in SUBSET Files : SizeOf(fs) \in Nat /\ Cardinality(fs) \in Nat /\ IsFiniteSet(fs)
                               /\ Cardinality(fs) <= Cached
  BY FilesFinite
<1>3. ASSUME plan # Cold
      PROVE  SizeOf(plan) >= Target
  <2>. DEFINE N == {Cardinality(Before(f)) : f \in Cold \ plan}
  <2>1. N \in SUBSET Nat /\ N # {}
    BY <1>1, <1>2, <1>3
  <2>2. PICK n \in N : \A m \in N : ~(m < n)
    BY <2>1, LeastNumber
  <2>3. PICK f \in Cold \ plan : n = Cardinality(Before(f))
    BY <2>2
  <2>4. Before(f) \subseteq plan
    <3>1. ASSUME NEW g \in Before(f), g \notin plan
          PROVE  FALSE
      <4>1. Cardinality(Before(g)) \in N
        BY <3>1 DEF Before
      <4>. QED BY <4>1, <2>2, <2>3, BeforeGrows
    <3>. QED BY <3>1
  <2>5. SizeOf(Before(f)) <= SizeOf(plan)
    BY <1>1, <2>4, MoreFiles
  <2>6. ~(SizeOf(Before(f)) < Target)
    BY <2>3
  <2>. QED BY <1>1, <1>2, <2>3, <2>5, <2>6, AdviceAssumption
<1>4. ASSUME NEW fs \in SUBSET Cold, Cardinality(fs) < Cardinality(plan)
      PROVE  SizeOf(fs) < Target
  <2>. DEFINE N == {Cached - Cardinality(Before(f)) : f \in plan}
  <2>1. N \in SUBSET Nat
    BY <1>1, <1>2, AdviceAssumption
  <2>2. plan # {}
    BY <1>1, <1>2, <1>4, FS_EmptySet
  <2>3. PICK n \in N : \A m \in N : ~(m < n)
    BY <2>1, <2>2, LeastNumber
  <2>4. PICK l \in plan : n = Cached - Cardinality(Before(l))
    BY <2>3
  <2>5. PICK B : B = Before(l)
    OBVIOUS
  <2>6. B \in SUBSET Files /\ l \in Files /\ SizeOf(B) < Target
    BY <1>1, <2>4, <2>5
  <2>7. plan \subseteq B \cup {l}
    <3>1. ASSUME NEW g \in plan, g # l, g \notin B
          PROVE  FALSE
      <4>1. Ahead(l, g)
        BY <1>1, <2>5, <3>1, AheadOrders DEF Before
      <4>2. l \in Before(g) /\ g \in Cold
        BY <4>1 DEF Before
      <4>3. Cardinality(Before(l)) < Cardinality(Before(g))
        BY <4>2, BeforeGrows
      <4>4. Cached - Cardinality(Before(g)) \in N
        OBVIOUS
      <4>5. Cardinality(Before(l)) \in Nat /\ Cardinality(Before(g)) \in Nat
        BY <1>1, <1>2
      <4>. QED BY <2>3, <2>4, <4>3, <4>4, <4>5, AdviceAssumption
    <3>. QED BY <3>1
  <2>8. Cardinality(fs) <= Cardinality(B)
    <3>1. IsFiniteSet(B \cup {l}) /\ Cardinality(B \cup {l}) <= Cardinality(B) + 1
      BY <1>2, <2>6, FS_AddElement
    <3>2. Cardinality(plan) <= Cardinality(B \cup {l})
      BY <2>7, <3>1, FS_Subset
    <3>3. B \cup {l} \in SUBSET Files
      BY <2>6
    <3>. QED BY <1>1, <1>2, <1>4, <2>6, <3>1, <3>2, <3>3
  <2>9. PICK s \in 0..Biggest : s = report.heat[l].size
    BY <2>6, HeatSizes
  <2>10. \A f \in fs \ B : report.heat[f].size \in 0..s
    <3>1. ASSUME NEW f \in fs \ B
          PROVE  report.heat[f].size <= s /\ report.heat[f].size \in Nat
      <4>1. f \in Files /\ f \in Cold /\ ~Ahead(f, l)
        BY <1>1, <2>5, <3>1 DEF Before
      <4>2. f = l \/ Ahead(l, f)
        BY <4>1, <2>6, AheadOrders
      <4>. QED BY <4>1, <4>2, <2>6, <2>9, AheadOrders, HeatSizes
    <3>. QED BY <3>1
  <2>11. \A f \in B \ fs : report.heat[f].size \in s..Biggest
    <3>1. ASSUME NEW f \in B \ fs
          PROVE  s <= report.heat[f].size /\ report.heat[f].size \in 0..Biggest
      <4>1. f \in Files /\ Ahead(f, l)
        BY <1>1, <2>5, <3>1 DEF Before
      <4>. QED BY <4>1, <2>6, <2>9, AheadOrders, HeatSizes
    <3>. QED BY <3>1
  <2>12. /\ fs \in SUBSET Files /\ fs \ B \in SUBSET Files
         /\ B \ fs \in SUBSET Files /\ fs \cap B \in SUBSET Files
    BY <1>1, <2>6
  <2>13. SizeOf(fs \ B) <= Cardinality(fs \ B) * s
    BY <2>10, <2>12, AllAtMost
  <2>14. Cardinality(B \ fs) * s <= SizeOf(B \ fs)
    BY <2>11, <2>12, AllAtLeast
  <2>15. /\ SizeOf(fs) = SizeOf(fs \cap B) + SizeOf(fs \ B)
         /\ Cardinality(fs) = Cardinality(fs \cap B) + Cardinality(fs \ B)
    BY <2>6, <2>12, SplitFiles
  <2>16. /\ SizeOf(B) = SizeOf(fs \cap B) + SizeOf(B \ fs)
         /\ Cardinality(B) = Cardinality(fs \cap B) + Cardinality(B \ fs)
    <3>1. B \cap fs = fs \cap B
      OBVIOUS
    <3>. QED BY <2>6, <2>12, <3>1, SplitFiles
  <2>17. Cardinality(fs \ B) <= Cardinality(B \ fs)
    BY <1>2, <2>8, <2>12, <2>15, <2>16
  <2>18. Cardinality(fs \ B) * s <= Cardinality(B \ fs) * s
    <3>1. \A i, j, k \in Nat : i <= j => i * k <= j * k
      OBVIOUS
    <3>2. Cardinality(fs \ B) \in Nat /\ Cardinality(B \ fs) \in Nat /\ s \in Nat
      BY <1>2, <2>12
    <3>. QED BY <2>17, <3>1, <3>2
  <2>19. PICK lo \in Nat, hi \in Nat : lo = Cardinality(fs \ B) * s /\ hi = Cardinality(B \ fs) * s
    <3>1. \A i, k \in Nat : i * k \in Nat
      OBVIOUS
    <3>. QED BY <1>2, <2>12, <3>1
  <2>20. SizeOf(fs) <= SizeOf(B)
    BY <1>2, <2>6, <2>12, <2>13, <2>14, <2>15, <2>16, <2>18, <2>19
  <2>. QED BY <1>2, <2>6, <2>12, <2>20, AdviceAssumption
<1>5. plan \subseteq Cold
  OBVIOUS
<1>. QED BY <1>3, <1>4, <1>5

-----------------------------------------------------------------------------
(* Each step keeps the invariant.                                             *)

LEMMA AdviceInitInv == AdviceInit => AdviceInv
<1>. SUFFICES ASSUME AdviceInit
              PROVE  AdviceInv
  OBVIOUS
<1>1. NoReport \in Report /\ NoReport.at = "idle" /\ NoReport.now = 0
  BY AdviceAssumption DEF NoReport, Report, Heat
<1>2. cache \in [Files -> CachedFile]
  <2>1. \A s \in 1..Biggest : [size |-> s, mtime |-> 0] \in CachedFile
    BY AdviceAssumption DEF CachedFile
  <2>. QED BY <2>1 DEF AdviceInit
<1>3. AdviceTyped
  BY <1>1, <1>2, AdviceAssumption DEF AdviceInit, AdviceTyped
<1>. QED BY <1>1, <1>3 DEF AdviceInit, AdviceInv

\* A report that others leave alone keeps its plan.
LEMMA SameReport ==
  ASSUME UNCHANGED report
  PROVE  Cold' = Cold /\ (PlanSound' <=> PlanSound)
BY DEF Cold, PlanSound, SizeOf

LEMMA OthersInv ==
  ASSUME AdviceInv, Others, NEW f \in Files,
         \/ RecordAccess(f) \/ RemoveFile(f) \/ \E s \in 1..Biggest : WriteFile(f, s)
  PROVE  AdviceInv'
<1>1. UNCHANGED <<report, early, clock>> /\ uses' = uses + 1 /\ uses' \in 0..MaxUses
  BY AdviceAssumption DEF Others, AdviceInv, AdviceTyped
<1>2. AdviceTyped
  BY DEF AdviceInv
<1>3. /\ log' \in [Files -> 0..uses'] /\ cache' \in [Files -> CachedFile]
      /\ \A g \in Files : cache'[g] = cache[g] \/ cache'[g] = Removed \/ cache'[g].mtime = clock
  <2>1. CASE RecordAccess(f)
    <3>1. log' = [log EXCEPT ![f] = log[f] + 1] /\ cache' = cache
      BY <2>1 DEF RecordAccess
    <3>2. \A g \in Files : log[g] \in 0..uses
      BY <1>2 DEF AdviceTyped
    <3>3. \A g \in Files : log'[g] \in 0..uses'
      BY <1>1, <1>2, <3>1, <3>2, AdviceAssumption DEF AdviceTyped
    <3>. QED BY <1>2, <3>1, <3>3 DEF AdviceTyped
  <2>2. CASE RemoveFile(f)
    <3>1. log' = log /\ cache' = [cache EXCEPT ![f] = Removed]
      BY <2>2 DEF RemoveFile
    <3>2. 0..uses \subseteq 0..uses'
      BY <1>1, <1>2 DEF AdviceTyped
    <3>. QED BY <1>2, <3>1, <3>2 DEF AdviceTyped, CachedFile
  <2>3. CASE \E s \in 1..Biggest : WriteFile(f, s)
    <3>1. PICK s \in 1..Biggest : log' = log /\ cache' = [cache EXCEPT ![f] = [size |-> s, mtime |-> clock]]
      BY <2>3 DEF WriteFile
    <3>2. 0..uses \subseteq 0..uses'
      BY <1>1, <1>2 DEF AdviceTyped
    <3>3. [size |-> s, mtime |-> clock] \in CachedFile
      BY <1>2 DEF AdviceTyped, CachedFile
    <3>. QED BY <1>2, <3>1, <3>2, <3>3 DEF AdviceTyped
  <2>. QED BY <2>1, <2>2, <2>3
<1>4. AdviceTyped'
  BY <1>1, <1>2, <1>3 DEF AdviceTyped
<1>5. ASSUME report'.at \in {"list", "stat"}, NEW g \in early'
      PROVE  report'.freq[g] > 0 \/ g \notin There' \/ report'.now - cache'[g].mtime <= WarmAge
  <2>1. g \in Files /\ (report.freq[g] > 0 \/ g \notin There \/ report.now - cache[g].mtime <= WarmAge)
    BY <1>1, <1>2, <1>5 DEF AdviceInv, AdviceTyped
  <2>2. CASE cache'[g] = cache[g]
    BY <1>1, <2>1, <2>2 DEF There
  <2>3. CASE cache'[g] = Removed
    BY <2>3 DEF There
  <2>4. CASE cache'[g].mtime = clock
    <3>1. report.now <= clock /\ report.now \in Nat /\ clock \in Nat
      BY <1>2, AdviceAssumption DEF AdviceTyped, Report
    <3>. QED BY <1>1, <2>4, <3>1, AdviceAssumption
  <2>. QED BY <1>3, <2>1, <2>2, <2>3, <2>4
<1>. QED BY <1>1, <1>4, <1>5, SameReport DEF AdviceInv

LEMMA DayPassesInv ==
  ASSUME AdviceInv, DayPasses
  PROVE  AdviceInv'
<1>1. clock' \in 0..MaxClock /\ clock < clock' /\ UNCHANGED <<cache, log, uses, report, early>>
  BY AdviceAssumption DEF DayPasses, AdviceInv, AdviceTyped
<1>2. AdviceTyped'
  BY <1>1, AdviceAssumption DEF AdviceInv, AdviceTyped, Report
<1>. QED BY <1>1, <1>2, SameReport DEF AdviceInv, There

LEMMA ReadLogInv ==
  ASSUME AdviceInv, ReadLog
  PROVE  AdviceInv'
<1>1. /\ report' = [NoReport EXCEPT !.at = "list", !.now = clock, !.freq = log]
      /\ early' = {f \in Files : log[f] > 0 \/ (f \in There /\ clock - cache[f].mtime <= WarmAge)}
      /\ UNCHANGED <<cache, log, clock, uses>>
  BY DEF ReadLog
<1>2. log \in [Files -> 0..MaxUses] /\ clock \in 0..MaxClock
  BY AdviceAssumption DEF AdviceInv, AdviceTyped
<1>3. /\ report' \in Report /\ report'.at = "list" /\ report'.now = clock /\ report'.freq = log
      /\ report'.heat = [f \in Files |-> NoHeat]
  BY <1>1, <1>2 DEF NoReport, Report, Heat
<1>4. AdviceTyped'
  BY <1>1, <1>2, <1>3, AdviceAssumption DEF AdviceInv, AdviceTyped
<1>5. Cold' = {}
  BY <1>3 DEF Cold, NoHeat
<1>6. \A f \in early' : report'.freq[f] > 0 \/ f \notin There' \/ report'.now - cache'[f].mtime <= WarmAge
  BY <1>1, <1>3 DEF There
<1>. QED BY <1>3, <1>4, <1>5, <1>6 DEF AdviceInv

LEMMA ListFilesInv ==
  ASSUME AdviceInv, ListFiles
  PROVE  AdviceInv'
<1>1. /\ report.at = "list" /\ report' = [report EXCEPT !.at = "stat", !.left = There]
      /\ UNCHANGED <<cache, log, clock, uses, early>>
  BY DEF ListFiles
<1>2. /\ report' \in Report /\ report'.at = "stat" /\ report'.now = report.now
      /\ report'.freq = report.freq /\ report'.heat = report.heat
  BY <1>1 DEF AdviceInv, AdviceTyped, Report, There
<1>3. AdviceTyped'
  BY <1>1, <1>2 DEF AdviceInv, AdviceTyped
<1>4. Cold' = Cold /\ There' = There
  BY <1>1, <1>2 DEF Cold, There
<1>. QED BY <1>1, <1>2, <1>3, <1>4 DEF AdviceInv

\* A file that was used or written shortly before is not cold.
LEMMA StatCachedInv ==
  ASSUME AdviceInv, StatCached
  PROVE  AdviceInv'
<1>1. PICK f : f = Min(report.left)
  OBVIOUS
<1>2. PICK age : age = Max({0, report.now - cache[f].mtime})
  OBVIOUS
<1>3. PICK h : h = IF f \notin There THEN NoHeat
                   ELSE [size |-> cache[f].size, tier |-> Tier(report.freq[f], age)]
  OBVIOUS
<1>4. /\ report.at = "stat" /\ report.left # {}
      /\ report' = [report EXCEPT !.left = report.left \ {f}, !.heat[f] = h]
      /\ UNCHANGED <<cache, log, clock, uses, early>>
  BY <1>1, <1>2, <1>3 DEF StatCached
<1>5. AdviceTyped /\ report \in Report
  BY DEF AdviceInv, AdviceTyped
<1>6. f \in Files
  <2>1. report.left \in SUBSET Nat /\ report.left \subseteq Files
    BY <1>5, AdviceAssumption DEF Report, Files
  <2>2. PICK x \in report.left : \A y \in report.left : ~(y < x)
    BY <1>4, <2>1, LeastNumber
  <2>3. \A y \in report.left : x <= y
    BY <2>1, <2>2
  <2>. QED BY <1>1, <2>1, <2>3 DEF Min
<1>7. f \in There => cache[f].size \in 1..Biggest /\ cache[f].mtime \in 0..MaxClock
  <2>1. cache[f] \in CachedFile
    BY <1>5, <1>6 DEF AdviceTyped
  <2>. QED BY <2>1 DEF There, CachedFile
<1>8. h \in Heat
  BY <1>3, <1>7 DEF Heat, Tier
<1>9. /\ report' \in Report /\ report'.at = "stat" /\ report'.now = report.now
      /\ report'.freq = report.freq /\ report'.heat = [report.heat EXCEPT ![f] = h]
  BY <1>4, <1>5, <1>6, <1>8 DEF Report
<1>10. AdviceTyped'
  BY <1>4, <1>5, <1>9 DEF AdviceTyped
<1>11. f \in early => h.tier # "cold"
  <2>1. ASSUME f \in early, f \in There
        PROVE  h.tier # "cold"
    <3>1. report.freq[f] > 0 \/ report.now - cache[f].mtime <= WarmAge
      BY <1>4, <2>1 DEF AdviceInv
    <3>2. report.now \in Int /\ cache[f].mtime \in Int /\ report.now - cache[f].mtime \in Int
      BY <1>5, <1>7, <2>1, AdviceAssumption DEF Report
    <3>3. age = IF report.now - cache[f].mtime >= 0 THEN report.now - cache[f].mtime ELSE 0
      <4>1. \A n \in Int : Max({0, n}) = IF n >= 0 THEN n ELSE 0
        BY DEF Max
      <4>. QED BY <1>2, <3>2, <4>1
    <3>4. report.freq[f] > 0 \/ age <= WarmAge
      BY <3>1, <3>2, <3>3, AdviceAssumption
    <3>5. Tier(report.freq[f], age) # "cold"
      BY <3>4 DEF Tier
    <3>. QED BY <1>3, <2>1, <3>5
  <2>2. f \notin There => h.tier # "cold"
    BY <1>3 DEF NoHeat
  <2>. QED BY <2>1, <2>2
<1>12. Cold' \cap early' = {}
  BY <1>4, <1>5, <1>6, <1>9, <1>11 DEF Cold, AdviceInv, Report
<1>13. There' = There
  BY <1>4 DEF There
<1>. QED BY <1>4, <1>9, <1>10, <1>12, <1>13 DEF AdviceInv

LEMMA PlanEvictionInv ==
  ASSUME AdviceInv, PlanEviction
  PROVE  AdviceInv'
<1>1. PICK plan : plan = {f \in Cold : SizeOf({g \in Cold : Ahead(g, f)}) < Target}
  OBVIOUS
<1>2. /\ report.at = "stat" /\ report' = [report EXCEPT !.at = "planned", !.plan = plan]
      /\ UNCHANGED <<cache, log, clock, uses, early>>
  BY <1>1 DEF PlanEviction
<1>3. AdviceTyped /\ report \in Report
  BY DEF AdviceInv, AdviceTyped
<1>4. plan = {f \in Cold : SizeOf(Before(f)) < Target}
  BY <1>1 DEF Before
<1>5. /\ plan \subseteq Cold
      /\ SizeOf(plan) >= Target \/ plan = Cold
      /\ \A fs \in SUBSET Cold : Cardinality(fs) < Cardinality(plan) => SizeOf(fs) < Target
  BY <1>3, <1>4, PlanIsSound
<1>6. /\ report' \in Report /\ report'.at = "planned" /\ report'.plan = plan
      /\ report'.heat = report.heat /\ report'.now = report.now
  BY <1>2, <1>3, <1>5 DEF Report, Cold
<1>7. AdviceTyped'
  BY <1>2, <1>3, <1>6 DEF AdviceTyped
<1>8. Cold' = Cold
  BY <1>6 DEF Cold
<1>9. PlanSound'
  <2>1. \A fs : SizeOf(fs)' = SizeOf(fs)
    BY <1>6 DEF SizeOf
  <2>. QED BY <1>5, <1>6, <1>8, <2>1 DEF PlanSound
<1>. QED BY <1>2, <1>5, <1>6, <1>7, <1>8, <1>9 DEF AdviceInv

LEMMA AdviceNextInv ==
  ASSUME AdviceInv, [AdviceNext]_adviceVars
  PROVE  AdviceInv'
<1>1. CASE UNCHANGED adviceVars
  BY <1>1, SameReport DEF adviceVars, AdviceInv, AdviceTyped, There
<1>2. ASSUME NEW f \in Files, RecordAccess(f) \/ RemoveFile(f) \/ \E s \in 1..Biggest : WriteFile(f, s)
      PROVE  AdviceInv'
  <2>1. Others
    BY <1>2 DEF RecordAccess, RemoveFile, WriteFile
  <2>. QED BY <1>2, <2>1, OthersInv
<1>. QED BY <1>1, <1>2, ReadLogInv, ListFilesInv, StatCachedInv, PlanEvictionInv, DayPassesInv DEF AdviceNext

\* For any files, sizes, ages and target of storage_heatmap and eviction_plan,
\* and whatever is used, written and removed during a report: the plan takes
\* cold files only, as few as can be, enough of them if there are, and none that
\* was used or written shortly before the report began.
THEOREM AdviceIsSound == AdviceSpec => []AdviceSound
<1>1. AdviceInv => AdviceSound
  <2>. SUFFICES ASSUME AdviceInv
                PROVE  AdviceSound
    OBVIOUS
  <2>1. AdviceTypes
    <3>1. CachedFile \subseteq [size : 0..Biggest, mtime : 0..MaxClock]
      BY AdviceAssumption DEF CachedFile, Removed
    <3>2. uses \in 0..MaxUses => 0..uses \subseteq 0..MaxUses
      BY AdviceAssumption
    <3>3. AdviceTyped
      BY DEF AdviceInv
    <3>4. \A f \in Files : report.heat[f] = NoHeat \/ report.heat[f].tier \in {"hot", "warm", "cold"}
      <4>1. \A f \in Files : report.heat[f] \in Heat
        BY <3>3 DEF AdviceTyped, Report
      <4>. QED BY <4>1 DEF Heat
    <3>. QED BY <3>1, <3>2, <3>3, <3>4 DEF AdviceTyped, AdviceTypes, Report
  <2>2. report.at = "planned" => report.plan \subseteq Cold \ early /\ PlanSound
    BY DEF AdviceInv
  <2>. QED BY <2>1, <2>2 DEF AdviceSound, PlanSound
<1>2. AdviceInit => AdviceInv
  BY AdviceInitInv
<1>3. AdviceInv /\ [AdviceNext]_adviceVars => AdviceInv'
  BY AdviceNextInv
<1>. QED BY <1>1, <1>2, <1>3, PTL DEF AdviceSpec

-----------------------------------------------------------------------------
(* The dashboard.  Its queries are numbered: the jobs in the i-th state are   *)
(* counted by query 5 + i.                                                    *)

JobSets    == SUBSET JobRow
RecordSets == SUBSET RecordRow
MediaSets  == SUBSET Media
EventSets  == SUBSET (1..eventCount)
Counts     == [JobRow -> 0..7]
Groups     == [Checks -> Nat]

View ==
  [next : 0..18, sample : RecordSets, total : Nat, byCheck : Groups, items : JobSets,
   counted : Counts, transfers : JobSets, active : JobSets, media : MediaSets,
   events : EventSets, number : 0..eventCount]

CenterTyped ==
  /\ stage \in [JobRow -> Stage \cup {Missing}] /\ checked \in [RecordRow -> Checks \cup {Missing}]
  /\ moves \in 0..MaxMoves /\ eventCount \in 0..moves
  /\ view \in View

Few(j, S, limit) == Cardinality({i \in S : i > j}) < limit

\* The jobs and the records that have stayed as they were.
Quiet == {j \in JobsIn(Stage) : <<"job", j>> \notin touched}
Still == {r \in RecordRow : <<"record", r>> \notin touched}

\* A job that stays is counted with its state, and not before.
JobsCounted ==
  /\ \A j \in JobRow : view.counted[j] = 0 \/ view.counted[j] <= view.next - 6
  /\ \A j \in Quiet, i \in 1..7 : stage[j] = Stages[i] =>
       /\ view.next <= 5 + i => view.counted[j] = 0
       /\ view.next > 5 + i => /\ view.counted[j] <= 1
                               /\ Few(j, JobsIn(Stage), Cap) => view.counted[j] = 1

JobsListed ==
  \A j \in Quiet :
    /\ view.next > 5 /\ Few(j, JobsIn(Stage), RowLimit) => j \in view.items
    /\ view.next > 13 /\ Few(j, JobsIn(Stage), Cap) /\ j \in Transferring =>
         (j \in view.active <=> stage[j] \in {"RUNNING", "VERIFYING"})

\* The records in all are off by those that have changed at most.
RecordsSeen ==
  /\ view.next > 3 =>
       view.total - Cardinality(Still \cap Listed) \in 0..Cardinality(RecordRow \ Still)
  /\ view.next > 4 /\ touched = {} =>
       view.byCheck["UNVERIFIED"] + view.byCheck["VERIFIED"] = Cardinality(Listed)
  /\ view.sample \cap Still \subseteq Listed
  /\ view.media \cap Still \subseteq Listed

\* What is written after the events were read has been written since.
EventsSeen ==
  /\ view.next > 16 => \A e \in 1..eventCount :
       e \in view.events \/ <<"event", e>> \in touched \/ e + RowLimit <= eventCount
  /\ view.next > 17 =>
       /\ view.events \subseteq 1..view.number
       /\ \A e \in 1..view.number : e \in view.events \/ <<"event", e>> \in touched
                                    \/ e + RowLimit <= view.number

CenterInv == CenterTyped /\ JobsCounted /\ JobsListed /\ RecordsSeen /\ EventsSeen


-----------------------------------------------------------------------------
(* States and queries.                                                        *)

LEMMA StageNames ==
  /\ Stage = {"QUEUED", "RUNNING", "PAUSED", "VERIFYING", "COMPLETED", "FAILED", "CANCELLED"}
  /\ Missing \notin Stage
<1>1. DOMAIN Stages = 1..7
  BY DEF Stages
<1>2. /\ Stages[1] = "QUEUED" /\ Stages[2] = "RUNNING" /\ Stages[3] = "PAUSED"
      /\ Stages[4] = "VERIFYING" /\ Stages[5] = "COMPLETED" /\ Stages[6] = "FAILED"
      /\ Stages[7] = "CANCELLED"
  BY DEF Stages
<1>3. Stage = {Stages[1], Stages[2], Stages[3], Stages[4], Stages[5], Stages[6], Stages[7]}
  BY <1>1 DEF Stage
<1>. QED BY <1>2, <1>3 DEF Missing

LEMMA StageOrder ==
  /\ \A i \in 1..7 : Stages[i] \in Stage
  /\ \A i, k \in 1..7 : Stages[i] = Stages[k] => i = k
  /\ \A s \in Stage : \E i \in 1..7 : s = Stages[i]
  /\ Len(Stages) = 7 /\ Stages \in Seq(Stage)
<1>1. DOMAIN Stages = 1..7 /\ Len(Stages) = 7 /\ Stages \in Seq(Stage)
  BY DEF Stages, Stage
<1>2. \A i, k \in 1..7 : Stages[i] = Stages[k] => i = k
  BY DEF Stages
<1>3. \A s \in Stage : \E i \in 1..7 : s = Stages[i]
  BY <1>1 DEF Stage
<1>4. \A i \in 1..7 : Stages[i] \in Stage
  BY <1>1 DEF Stage
<1>. QED BY <1>1, <1>2, <1>3, <1>4

LEMMA Joined ==
  ASSUME NEW S, NEW a \in Seq(S), NEW b \in Seq(S)
  PROVE  /\ a \o b \in Seq(S) /\ Len(a \o b) = Len(a) + Len(b)
         /\ \A i \in 1..Len(a) : (a \o b)[i] = a[i]
         /\ \A i \in 1..Len(b) : (a \o b)[Len(a) + i] = b[i]
OBVIOUS

LEMMA QueryNames ==
  /\ DOMAIN Queries = 1..17 /\ Len(Queries) = 17
  /\ \A i \in 1..7 : Queries[5 + i] = Stages[i]
  /\ Queries[1] = "sample" /\ Queries[2] = "get" /\ Queries[3] = "count" /\ Queries[4] = "checks"
  /\ Queries[5] = "items" /\ Queries[13] = "transfers" /\ Queries[14] = "media"
  /\ Queries[15] = "look up" /\ Queries[16] = "events" /\ Queries[17] = "number"
<1>. DEFINE before == <<"sample", "get", "count", "checks", "items">>
            after  == <<"transfers", "media", "look up", "events", "number">>
            Word   == Stage \cup {"sample", "get", "count", "checks", "items", "transfers", "media",
                                  "look up", "events", "number"}
            most   == before \o Stages
<1>1. Len(before) = 5 /\ Len(Stages) = 7 /\ Len(after) = 5
  BY StageOrder
<1>2. before \in Seq(Word) /\ Stages \in Seq(Word) /\ after \in Seq(Word)
  <2>1. before \in Seq(Word)
    OBVIOUS
  <2>2. Stages \in Seq(Word)
    BY DEF Stages, Stage
  <2>3. after \in Seq(Word)
    OBVIOUS
  <2>. QED BY <2>1, <2>2, <2>3
<1>3. /\ before[1] = "sample" /\ before[2] = "get" /\ before[3] = "count" /\ before[4] = "checks"
      /\ before[5] = "items" /\ after[1] = "transfers" /\ after[2] = "media"
      /\ after[3] = "look up" /\ after[4] = "events" /\ after[5] = "number"
  OBVIOUS
<1>4. Queries = most \o after
  BY DEF Queries
<1>. HIDE DEF before, after, Word
<1>5. /\ most \in Seq(Word) /\ Len(most) = Len(before) + Len(Stages)
      /\ \A i \in 1..Len(before) : most[i] = before[i]
      /\ \A i \in 1..Len(Stages) : most[Len(before) + i] = Stages[i]
  BY <1>2, Joined
<1>. HIDE DEF most
<1>6. /\ Len(most) = 12
      /\ \A i \in 1..5 : most[i] = before[i]
      /\ \A i \in 1..7 : most[5 + i] = Stages[i]
  <2>1. Len(most) = Len(before) + Len(Stages)
    BY <1>5
  <2>2. \A i \in 1..5 : most[i] = before[i]
    <3>1. \A i \in 1..Len(before) : most[i] = before[i]
      BY <1>5
    <3>. QED BY <3>1, <1>1
  <2>3. \A i \in 1..7 : most[5 + i] = Stages[i]
    <3>1. \A i \in 1..Len(Stages) : most[Len(before) + i] = Stages[i]
      BY <1>5
    <3>. QED BY <3>1, <1>1
  <2>. QED BY <2>1, <2>2, <2>3, <1>1
<1>7. /\ Queries \in Seq(Word) /\ Len(Queries) = Len(most) + Len(after)
      /\ \A i \in 1..Len(most) : Queries[i] = most[i]
      /\ \A i \in 1..Len(after) : Queries[Len(most) + i] = after[i]
  <2>1. most \in Seq(Word)
    BY <1>5
  <2>. QED BY <1>2, <1>4, <2>1, Joined
<1>8. /\ \A i \in 1..12 : Queries[i] = most[i]
      /\ \A i \in 1..5 : Queries[12 + i] = after[i]
  <2>1. \A i \in 1..Len(most) : Queries[i] = most[i]
    BY <1>7
  <2>2. \A i \in 1..Len(after) : Queries[Len(most) + i] = after[i]
    BY <1>7
  <2>3. \A i \in 1..12 : Queries[i] = most[i]
    BY <2>1, <1>6
  <2>4. \A i \in 1..5 : Queries[12 + i] = after[i]
    <3>1. Len(most) = 12
      BY <1>6
    <3>. QED BY <2>2, <3>1, <1>1
  <2>. QED BY <2>3, <2>4
<1>9. Queries \in Seq(Word) /\ Len(Queries) = 17
  BY <1>1, <1>6, <1>7
<1>10. DOMAIN Queries = 1..17 /\ Len(Queries) = 17
  BY <1>9
<1>11. \A i \in 1..7 : Queries[5 + i] = Stages[i]
  <2>1. \A i \in 1..7 : 5 + i \in 1..12
    OBVIOUS
  <2>. QED BY <2>1, <1>6, <1>8, Zenon
<1>12. /\ Queries[1] = before[1] /\ Queries[2] = before[2] /\ Queries[3] = before[3]
       /\ Queries[4] = before[4] /\ Queries[5] = before[5]
  <2>1. \A i \in 1..5 : i \in 1..12
    OBVIOUS
  <2>2. \A i \in 1..5 : Queries[i] = before[i]
    BY <1>6, <1>8, <2>1, Zenon
  <2>. QED BY <2>2
<1>13. /\ Queries[13] = after[1] /\ Queries[14] = after[2] /\ Queries[15] = after[3]
       /\ Queries[16] = after[4] /\ Queries[17] = after[5]
  <2>1. \A i \in 1..5 : Queries[12 + i] = after[i]
    BY <1>8, Zenon
  <2>2. /\ Queries[12 + 1] = after[1] /\ Queries[12 + 2] = after[2] /\ Queries[12 + 3] = after[3]
        /\ Queries[12 + 4] = after[4] /\ Queries[12 + 5] = after[5]
    BY <2>1
  <2>. QED BY <2>2
<1>. QED BY <1>3, <1>10, <1>11, <1>12, <1>13, Zenon

-----------------------------------------------------------------------------
(* The newest rows.                                                           *)

LEMMA RowsFinite ==
  /\ \A S \in SUBSET JobRow : IsFiniteSet(S) /\ Cardinality(S) \in Nat
  /\ \A S \in SUBSET RecordRow : IsFiniteSet(S) /\ Cardinality(S) \in Nat
<1>1. IsFiniteSet(JobRow) /\ IsFiniteSet(RecordRow)
  BY FS_Interval, CenterAssumption DEF JobRow, RecordRow
<1>. QED BY <1>1, FS_Subset, FS_CardinalityType

\* Among fewer rows, fewer are newer.
LEMMA FewerAmong ==
  ASSUME NEW T \in SUBSET JobRow, NEW S \in SUBSET T, NEW j, NEW limit \in Nat, Few(j, T, limit)
  PROVE  Few(j, S, limit)
<1>1. {i \in S : i > j} \subseteq {i \in T : i > j} /\ {i \in T : i > j} \in SUBSET JobRow
  OBVIOUS
<1>2. Cardinality({i \in S : i > j}) <= Cardinality({i \in T : i > j})
  BY <1>1, RowsFinite, FS_Subset
<1>3. Cardinality({i \in S : i > j}) \in Nat /\ Cardinality({i \in T : i > j}) \in Nat
  BY RowsFinite
<1>. QED BY <1>2, <1>3 DEF Few

LEMMA NewestAre ==
  ASSUME NEW S, NEW limit
  PROVE  Newest(S, limit) = {j \in S : Few(j, S, limit)}
BY DEF Newest, Few

-----------------------------------------------------------------------------
(* Each step keeps the invariant.                                             *)

LEMMA SetsTyped ==
  /\ \A ss : JobsIn(ss) \in SUBSET JobRow
  /\ Listed \in SUBSET RecordRow /\ Still \in SUBSET RecordRow
  /\ Quiet \in SUBSET JobsIn(Stage) /\ RowLimit \in Nat /\ Cap \in Nat /\ MaxMoves \in Nat
  /\ Media \in SUBSET RecordRow /\ Transferring \in SUBSET JobRow
BY CenterAssumption DEF JobsIn, Listed, Still, Quiet

LEMMA NoViewTyped ==
  /\ NoView \in [next : 0..18, sample : SUBSET RecordRow, total : Nat, byCheck : [Checks -> Nat],
                 items : SUBSET JobRow, counted : [JobRow -> 0..7], transfers : SUBSET JobRow,
                 active : SUBSET JobRow, media : SUBSET Media, events : {{}}, number : {0}]
  /\ NoView.next = 0 /\ NoView.counted = [j \in JobRow |-> 0]
  /\ NoView.sample = {} /\ NoView.media = {} /\ NoView.events = {} /\ NoView.number = 0
BY DEF NoView

LEMMA CenterInitInv == CenterInit => CenterInv
<1>. SUFFICES ASSUME CenterInit
              PROVE  CenterInv
  OBVIOUS
<1>1. /\ stage \in [JobRow -> {Missing, "RUNNING"}] /\ checked \in [RecordRow -> {Missing, "UNVERIFIED"}]
      /\ eventCount = 0 /\ moves = 0 /\ view = NoView /\ touched = {}
  BY DEF CenterInit
<1>2. "RUNNING" \in Stage
  BY StageNames
<1>3. view \in View /\ view.next = 0 /\ view.counted = [j \in JobRow |-> 0]
  BY <1>1, NoViewTyped DEF View, JobSets, RecordSets, MediaSets, EventSets, Counts, Groups
<1>4. CenterTyped
  BY <1>1, <1>2, <1>3, SetsTyped DEF CenterTyped, Checks
<1>5. JobsCounted /\ JobsListed
  BY <1>3, SetsTyped DEF JobsCounted, JobsListed, Quiet
<1>6. RecordsSeen
  BY <1>1, NoViewTyped DEF RecordsSeen
<1>7. EventsSeen
  BY <1>3 DEF EventsSeen
<1>. QED BY <1>4, <1>5, <1>6, <1>7 DEF CenterInv

\* A job that goes to state s, or arrives in it.
LEMMA JobChanges ==
  ASSUME CenterInv, NEW j \in JobRow, NEW s \in Stage, stage' = [stage EXCEPT ![j] = s],
         Moved(<<"job", j>>), UNCHANGED <<checked, eventCount, view>>
  PROVE  CenterInv'
<1>1. CenterTyped /\ moves' = moves + 1 /\ moves < MaxMoves /\ touched' = touched \cup {<<"job", j>>}
  BY DEF CenterInv, Moved
<1>2. CenterTyped'
  BY <1>1, SetsTyped DEF CenterTyped, View, JobSets, RecordSets, MediaSets, EventSets, Counts, Groups
<1>3. /\ \A i \in Quiet' : i \in Quiet /\ stage'[i] = stage[i]
      /\ JobsIn(Stage) \in SUBSET JobsIn(Stage)' /\ JobsIn(Stage)' \in SUBSET JobRow
  BY <1>1, StageNames DEF Quiet, JobsIn, CenterTyped
<1>4. \A i, limit \in Nat : Few(i, JobsIn(Stage)', limit) => Few(i, JobsIn(Stage), limit)
  BY <1>3, FewerAmong
<1>5. \A i \in Quiet : i \in Nat
  BY SetsTyped DEF JobRow
<1>6. JobsCounted'
  <2>1. JobsCounted
    BY DEF CenterInv
  <2>. QED BY <1>3, <1>4, <1>5, <2>1, SetsTyped DEF JobsCounted
<1>7. JobsListed'
  <2>1. JobsListed
    BY DEF CenterInv
  <2>. QED BY <1>3, <1>4, <1>5, <2>1, SetsTyped DEF JobsListed
<1>8. Still' = Still /\ Listed' = Listed /\ touched' # {}
  BY <1>1 DEF Still, Listed
<1>9. RecordsSeen' /\ EventsSeen'
  BY <1>1, <1>8 DEF CenterInv, RecordsSeen, EventsSeen
<1>. QED BY <1>2, <1>6, <1>7, <1>9 DEF CenterInv

LEMMA RecordChangesInv ==
  ASSUME CenterInv, NEW r \in RecordRow, RecordChanges(r)
  PROVE  CenterInv'
<1>1. /\ CenterTyped /\ moves' = moves + 1 /\ moves < MaxMoves /\ touched' = touched \cup {<<"record", r>>}
      /\ UNCHANGED <<stage, eventCount, view>>
  BY DEF CenterInv, RecordChanges, Moved
<1>2. PICK c \in Checks \cup {Missing} : checked' = [checked EXCEPT ![r] = c]
  BY DEF RecordChanges
<1>3. CenterTyped'
  BY <1>1, <1>2, SetsTyped DEF CenterTyped, View, JobSets, RecordSets, MediaSets, EventSets, Counts, Groups
<1>4. Quiet' = Quiet /\ JobsIn(Stage)' = JobsIn(Stage)
  BY <1>1 DEF Quiet, JobsIn
<1>5. JobsCounted' /\ JobsListed' /\ EventsSeen'
  BY <1>1, <1>4 DEF CenterInv, JobsCounted, JobsListed, EventsSeen
<1>6. Still' = Still \ {r} /\ \A q \in RecordRow \ {r} : checked'[q] = checked[q]
  BY <1>1, <1>2 DEF Still, CenterTyped
<1>7. Still' \cap Listed' = (Still \cap Listed) \ {r} /\ RecordRow \ Still' = (RecordRow \ Still) \cup {r}
  BY <1>6, SetsTyped DEF Listed
<1>8. /\ IsFiniteSet(Still \cap Listed) /\ IsFiniteSet(RecordRow \ Still)
      /\ Cardinality(Still \cap Listed) \in Nat /\ Cardinality(RecordRow \ Still) \in Nat
  BY RowsFinite, SetsTyped
<1>9. /\ Cardinality(Still' \cap Listed') =
           Cardinality(Still \cap Listed) - IF r \in Still \cap Listed THEN 1 ELSE 0
      /\ Cardinality(RecordRow \ Still') =
           Cardinality(RecordRow \ Still) + IF r \in RecordRow \ Still THEN 0 ELSE 1
  <2>1. Cardinality((Still \cap Listed) \ {r}) =
          Cardinality(Still \cap Listed) - IF r \in Still \cap Listed THEN 1 ELSE 0
    BY <1>8, FS_RemoveElement
  <2>2. Cardinality((RecordRow \ Still) \cup {r}) =
          Cardinality(RecordRow \ Still) + IF r \in RecordRow \ Still THEN 0 ELSE 1
    <3>1. r \in RecordRow \ Still => (RecordRow \ Still) \cup {r} = RecordRow \ Still
      OBVIOUS
    <3>2. r \notin RecordRow \ Still =>
            Cardinality((RecordRow \ Still) \cup {r}) = Cardinality(RecordRow \ Still) + 1
      BY <1>8, FS_AddElement
    <3>. QED BY <1>8, <3>1, <3>2
  <2>. QED BY <1>7, <2>1, <2>2
<1>10. RecordsSeen'
  <2>1. RecordsSeen /\ view.total \in Nat /\ view.sample \subseteq RecordRow
    BY <1>1 DEF CenterInv, CenterTyped, View, JobSets, RecordSets, MediaSets, EventSets, Counts, Groups
  <2>2. view.next > 3 => view.total - Cardinality(Still' \cap Listed') \in 0..Cardinality(RecordRow \ Still')
    <3>1. view.next > 3 => view.total - Cardinality(Still \cap Listed) \in 0..Cardinality(RecordRow \ Still)
      BY <2>1 DEF RecordsSeen
    <3>. QED BY <2>1, <3>1, <1>8, <1>9
  <2>3. /\ view.sample \cap Still' \subseteq Listed'
        /\ view.media \cap Still' \subseteq Listed'
    BY <2>1, <1>6, SetsTyped DEF RecordsSeen, Listed
  <2>4. touched' # {}
    BY <1>1
  <2>. QED BY <1>1, <2>2, <2>3, <2>4 DEF RecordsSeen
<1>. QED BY <1>3, <1>5, <1>10 DEF CenterInv

LEMMA EventWrittenInv ==
  ASSUME CenterInv, EventWritten
  PROVE  CenterInv'
<1>1. /\ CenterTyped /\ moves' = moves + 1 /\ moves < MaxMoves /\ eventCount' = eventCount + 1
      /\ touched' = touched \cup {<<"event", eventCount + 1>>} /\ UNCHANGED <<stage, checked, view>>
  BY DEF CenterInv, EventWritten, Moved
<1>2. CenterTyped'
  <2>1. /\ eventCount \in Nat /\ 1..eventCount \subseteq 1..(eventCount + 1)
        /\ 0..eventCount \subseteq 0..(eventCount + 1)
    BY <1>1 DEF CenterTyped
  <2>2. view' \in View'
    BY <1>1, <2>1 DEF CenterTyped, View, JobSets, RecordSets, MediaSets, EventSets, Counts, Groups
  <2>. QED BY <1>1, <2>2, SetsTyped DEF CenterTyped
<1>3. Quiet' = Quiet /\ JobsIn(Stage)' = JobsIn(Stage) /\ Still' = Still /\ Listed' = Listed
  BY <1>1 DEF Quiet, JobsIn, Still, Listed
<1>4. JobsCounted' /\ JobsListed' /\ RecordsSeen'
  BY <1>1, <1>3 DEF CenterInv, JobsCounted, JobsListed, RecordsSeen
<1>5. EventsSeen'
  <2>1. EventsSeen /\ eventCount \in Nat /\ RowLimit \in Nat
    BY <1>1, SetsTyped DEF CenterInv, CenterTyped
  <2>2. \A e \in 1..(eventCount + 1) : e \in 1..eventCount \/ e = eventCount + 1
    BY <2>1
  <2>. QED BY <1>1, <2>1, <2>2 DEF EventsSeen
<1>. QED BY <1>2, <1>4, <1>5 DEF CenterInv

LEMMA OpenViewInv ==
  ASSUME CenterInv, OpenView
  PROVE  CenterInv'
<1>1. /\ CenterTyped /\ UNCHANGED <<stage, checked, eventCount, moves>> /\ touched' = {}
      /\ view' = [NoView EXCEPT !.next = 1]
  BY DEF CenterInv, OpenView
<1>2. /\ view' \in View' /\ view'.next = 1 /\ view'.counted = [j \in JobRow |-> 0]
      /\ view'.sample = {} /\ view'.media = {}
  BY <1>1, NoViewTyped DEF View, JobSets, RecordSets, MediaSets, EventSets, Counts, Groups, CenterTyped
<1>3. CenterTyped'
  BY <1>1, <1>2 DEF CenterTyped
<1>4. JobsCounted' /\ JobsListed'
  BY <1>2, SetsTyped DEF JobsCounted, JobsListed, Quiet, JobsIn
<1>5. RecordsSeen' /\ EventsSeen'
  BY <1>2 DEF RecordsSeen, EventsSeen
<1>. QED BY <1>3, <1>4, <1>5 DEF CenterInv

-----------------------------------------------------------------------------
(* The queries.                                                               *)

\* A query that keeps to its own fields, and gets them right.
LEMMA OneQuery ==
  ASSUME CenterInv, UNCHANGED <<stage, checked, eventCount, moves, touched>>,
         NEW n \in 1..17, view.next = n, view'.next = n + 1, view' \in View,
         n \notin 6..12 => view'.counted = view.counted,
         n # 5 => view'.items = view.items,
         n # 13 => view'.active = view.active,
         n # 3 => view'.total = view.total,
         n # 4 => view'.byCheck = view.byCheck,
         n # 16 => view'.events = view.events,
         n # 17 => view'.number = view.number,
         view'.sample \cap Still \subseteq Listed,
         view'.media \cap Still \subseteq Listed,
         n \in 6..12 => JobsCounted',
         n = 5 => \A j \in Quiet : Few(j, JobsIn(Stage), RowLimit) => j \in view'.items,
         n = 13 => \A j \in Quiet : Few(j, JobsIn(Stage), Cap) /\ j \in Transferring =>
                     (j \in view'.active <=> stage[j] \in {"RUNNING", "VERIFYING"}),
         n = 3 => view'.total = Cardinality(Listed),
         n = 4 => view'.byCheck["UNVERIFIED"] + view'.byCheck["VERIFIED"] = Cardinality(Listed),
         n = 16 => \A e \in 1..eventCount : e \in view'.events \/ e + RowLimit <= eventCount,
         n = 17 => view'.number = eventCount
  PROVE  CenterInv'
<1>1. CenterTyped'
  BY DEF CenterInv, CenterTyped, View, JobSets, RecordSets, MediaSets, EventSets, Counts, Groups
<1>2. /\ Quiet' = Quiet /\ JobsIn(Stage)' = JobsIn(Stage) /\ Still' = Still /\ Listed' = Listed
      /\ \A j, S, limit : Few(j, S, limit)' = Few(j, S, limit)
  BY DEF Quiet, JobsIn, Still, Listed, Few
<1>3. JobsCounted'
  <2>1. CASE n \in 6..12
    BY <2>1
  <2>2. CASE n \notin 6..12
    <3>1. JobsCounted /\ view.counted \in [JobRow -> 0..7] /\ Quiet \subseteq JobRow
      BY SetsTyped DEF CenterInv, CenterTyped, View, JobSets, RecordSets, MediaSets, EventSets, Counts, Groups
    <3>2. \A j \in JobRow : view'.counted[j] = 0 \/ view'.counted[j] <= view'.next - 6
      BY <2>2, <3>1 DEF JobsCounted
    <3>3. \A i \in 1..7 : /\ n <= 5 + i <=> n + 1 <= 5 + i
                          /\ n > 5 + i <=> n + 1 > 5 + i
      BY <2>2
    <3>4. \A j \in Quiet, i \in 1..7 : stage[j] = Stages[i] =>
            /\ n + 1 <= 5 + i => view'.counted[j] = 0
            /\ n + 1 > 5 + i => /\ view'.counted[j] <= 1
                                /\ Few(j, JobsIn(Stage), Cap) => view'.counted[j] = 1
      BY <2>2, <3>1, <3>3 DEF JobsCounted
    <3>. QED BY <1>2, <3>2, <3>4 DEF JobsCounted
  <2>. QED BY <2>1, <2>2
<1>4. JobsListed'
  <2>1. JobsListed
    BY DEF CenterInv
  <2>2. \A j \in Quiet : n + 1 > 5 /\ Few(j, JobsIn(Stage), RowLimit) => j \in view'.items
    BY <2>1 DEF JobsListed
  <2>3. \A j \in Quiet : n + 1 > 13 /\ Few(j, JobsIn(Stage), Cap) /\ j \in Transferring =>
          (j \in view'.active <=> stage[j] \in {"RUNNING", "VERIFYING"})
    BY <2>1 DEF JobsListed
  <2>. QED BY <1>2, <2>2, <2>3 DEF JobsListed
<1>5. RecordsSeen'
  <2>1. RecordsSeen /\ Cardinality(Listed) \in Nat
    BY RowsFinite, SetsTyped DEF CenterInv
  <2>2. n + 1 > 3 => view'.total - Cardinality(Still \cap Listed) \in 0..Cardinality(RecordRow \ Still)
    <3>1. CASE n = 3
      <4>1. /\ IsFiniteSet(Still \cap Listed) /\ IsFiniteSet(Listed \ Still) /\ IsFiniteSet(RecordRow \ Still)
            /\ IsFiniteSet(Listed)
        BY RowsFinite, SetsTyped
      <4>2. Cardinality(Listed \ Still) <= Cardinality(RecordRow \ Still)
        BY <4>1, FS_Subset, SetsTyped
      <4>3. Cardinality(Listed \ Still) = Cardinality(Listed) - Cardinality(Listed \cap Still)
        BY <4>1, FS_Difference
      <4>4. /\ Cardinality(Listed \cap Still) = Cardinality(Still \cap Listed)
            /\ Cardinality(Listed \ Still) \in Nat /\ Cardinality(RecordRow \ Still) \in Nat
            /\ Cardinality(Still \cap Listed) \in Nat
        BY <4>1, FS_CardinalityType
      <4>. QED BY <3>1, <4>2, <4>3, <4>4, <2>1
    <3>2. CASE n # 3
      BY <3>2, <2>1 DEF RecordsSeen
    <3>. QED BY <3>1, <3>2
  <2>3. n + 1 > 4 /\ touched = {} =>
          view'.byCheck["UNVERIFIED"] + view'.byCheck["VERIFIED"] = Cardinality(Listed)
    BY <2>1 DEF RecordsSeen
  <2>. QED BY <1>2, <2>2, <2>3 DEF RecordsSeen
<1>6. EventsSeen'
  <2>1. EventsSeen /\ eventCount \in Nat /\ view'.events \subseteq 1..eventCount
    BY DEF CenterInv, CenterTyped, View, JobSets, RecordSets, MediaSets, EventSets, Counts, Groups
  <2>2. n + 1 > 16 => \A e \in 1..eventCount :
          e \in view'.events \/ <<"event", e>> \in touched \/ e + RowLimit <= eventCount
    <3>1. CASE n = 17
      <4>1. view.next > 16 /\ view'.events = view.events
        BY <3>1
      <4>. QED BY <4>1, <2>1 DEF EventsSeen
    <3>2. CASE n = 16
      BY <3>2
    <3>3. n + 1 > 16 => n = 16 \/ n = 17
      OBVIOUS
    <3>. QED BY <3>1, <3>2, <3>3
  <2>3. n + 1 > 17 => n = 17
    OBVIOUS
  <2>. QED BY <2>1, <2>2, <2>3 DEF EventsSeen
<1>. QED BY <1>1, <1>3, <1>4, <1>5, <1>6 DEF CenterInv


\* Which queries ask for what.
LEMMA StageQueries ==
  ASSUME NEW n \in 1..17
  PROVE  /\ Queries[n] \in Stage => n \in 6..12
         /\ n \in 6..12 => Queries[n] = Stages[n - 5] /\ n - 5 \in 1..7 /\ Queries[n] \in Stage
<1>1. n \in 6..12 => n - 5 \in 1..7 /\ Queries[5 + (n - 5)] = Stages[n - 5] /\ 5 + (n - 5) = n
  <2>1. n \in 6..12 => n - 5 \in 1..7 /\ 5 + (n - 5) = n
    OBVIOUS
  <2>2. \A i \in 1..7 : Queries[5 + i] = Stages[i]
    BY QueryNames
  <2>. QED BY <2>1, <2>2
<1>2. n \in 6..12 => Queries[n] = Stages[n - 5] /\ n - 5 \in 1..7
  BY <1>1
<1>3. n \in 6..12 => Stages[n - 5] \in Stage
  BY <1>1, StageOrder
<1>4. n \in 1..5 => Queries[n] \in {"sample", "get", "count", "checks", "items"}
  <2>1. \A k \in 1..5 : k = 1 \/ k = 2 \/ k = 3 \/ k = 4 \/ k = 5
    OBVIOUS
  <2>. QED BY <2>1, QueryNames
<1>5. n \in 13..17 => Queries[n] \in {"transfers", "media", "look up", "events", "number"}
  <2>1. \A k \in 13..17 : k = 13 \/ k = 14 \/ k = 15 \/ k = 16 \/ k = 17
    OBVIOUS
  <2>. QED BY <2>1, QueryNames
<1>6. n \in 1..5 \/ n \in 6..12 \/ n \in 13..17
  OBVIOUS
<1>7. Queries[n] \in Stage => n \notin 1..5 /\ n \notin 13..17
  BY <1>4, <1>5, StageNames
<1>. QED BY <1>2, <1>3, <1>6, <1>7

\* What each query answers.
LEMMA Answers ==
  /\ Answer("get") = [view EXCEPT !.sample = IF @ \subseteq Foreign THEN @ \cap Listed ELSE @]
  /\ Answer("count") = [view EXCEPT !.total = Cardinality(Listed)]
  /\ Answer("checks") = [view EXCEPT !.byCheck =
                           [c \in Checks |-> Cardinality({r \in Listed : checked[r] = c})]]
  /\ Answer("items") = [view EXCEPT !.items = Newest(JobsIn(Stage), RowLimit)]
  /\ \A s \in Stage : Answer(s) = [view EXCEPT !.counted = [j \in JobRow |->
                           view.counted[j] + IF j \in Newest(JobsIn({s}), Cap) THEN 1 ELSE 0]]
  /\ Answer("look up") = [view EXCEPT !.media = @ \cap Listed]
  /\ Answer("events") = [view EXCEPT !.events = Newest(1..eventCount, RowLimit)]
  /\ Answer("number") = [view EXCEPT !.number = eventCount]
  /\ LET found == Newest(JobsIn(Stage), Cap) \cap Transferring IN
     Answer("transfers") = [view EXCEPT !.transfers = Newest(found, RowLimit),
                                        !.active = found \cap JobsIn({"RUNNING", "VERIFYING"})]
<1>1. /\ "get" \notin Stage /\ "count" \notin Stage /\ "checks" \notin Stage /\ "items" \notin Stage
      /\ "look up" \notin Stage /\ "events" \notin Stage /\ "number" \notin Stage /\ "transfers" \notin Stage
  BY StageNames
<1>2. \A s \in Stage : s \notin {"get", "count", "checks", "items", "look up", "events", "number"}
  BY <1>1
<1>3. Answer("get") = [view EXCEPT !.sample = IF @ \subseteq Foreign THEN @ \cap Listed ELSE @]
  BY <1>1 DEF Answer
<1>4. Answer("count") = [view EXCEPT !.total = Cardinality(Listed)]
  BY <1>1 DEF Answer
<1>5. Answer("checks") = [view EXCEPT !.byCheck =
                            [c \in Checks |-> Cardinality({r \in Listed : checked[r] = c})]]
  BY <1>1 DEF Answer
<1>6. Answer("items") = [view EXCEPT !.items = Newest(JobsIn(Stage), RowLimit)]
  BY <1>1 DEF Answer
<1>7. \A s \in Stage : Answer(s) = [view EXCEPT !.counted = [j \in JobRow |->
                            view.counted[j] + IF j \in Newest(JobsIn({s}), Cap) THEN 1 ELSE 0]]
  BY <1>2 DEF Answer
<1>8. Answer("look up") = [view EXCEPT !.media = @ \cap Listed]
  BY <1>1 DEF Answer, MediaAnswer
<1>9. Answer("events") = [view EXCEPT !.events = Newest(1..eventCount, RowLimit)]
  BY <1>1 DEF Answer, AuditAnswer
<1>10. Answer("number") = [view EXCEPT !.number = eventCount]
  BY <1>1 DEF Answer, AuditAnswer
<1>11. LET found == Newest(JobsIn(Stage), Cap) \cap Transferring IN
       Answer("transfers") = [view EXCEPT !.transfers = Newest(found, RowLimit),
                                          !.active = found \cap JobsIn({"RUNNING", "VERIFYING"})]
  BY <1>1 DEF Answer
<1>. QED BY <1>3, <1>4, <1>5, <1>6, <1>7, <1>8, <1>9, <1>10, <1>11


LEMMA QueryIs ==
  ASSUME NEW n \in 1..17
  PROVE  /\ Queries[n] = "sample" => n = 1
         /\ Queries[n] = "media" => n = 14
<1>1. n \in 6..12 => Queries[n] \notin {"sample", "media"}
  BY StageQueries, StageNames
<1>2. n \in 1..5 => n = 1 \/ n = 2 \/ n = 3 \/ n = 4 \/ n = 5
  OBVIOUS
<1>3. n \in 13..17 => n = 13 \/ n = 14 \/ n = 15 \/ n = 16 \/ n = 17
  OBVIOUS
<1>4. n \in 1..5 \/ n \in 6..12 \/ n \in 13..17
  OBVIOUS
<1>. QED BY <1>1, <1>2, <1>3, <1>4, QueryNames

LEMMA SampleInv ==
  ASSUME CenterInv, QuerySample
  PROVE  CenterInv'
<1>1. /\ view.next \in 1..17 /\ view \in View /\ UNCHANGED <<stage, checked, eventCount, moves, touched>>
  BY QueryNames DEF CenterInv, CenterTyped, QuerySample
<1>2. /\ view.sample \cap Still \subseteq Listed /\ view.media \cap Still \subseteq Listed
  BY DEF CenterInv, RecordsSeen
<1>3. ASSUME NEW S \in SUBSET Listed, view.next = 1, view' = [view EXCEPT !.sample = S, !.next = @ + 1]
      PROVE  CenterInv'
  <2>1. /\ view' \in View /\ view'.next = view.next + 1 /\ view'.sample = S /\ view'.media = view.media
        /\ view'.counted = view.counted /\ view'.items = view.items /\ view'.active = view.active
        /\ view'.total = view.total /\ view'.byCheck = view.byCheck /\ view'.events = view.events
        /\ view'.number = view.number
    <3>1. S \in RecordSets /\ view.next + 1 \in 0..18
      BY <1>1, <1>3, SetsTyped DEF RecordSets
    <3>2. view' = [[view EXCEPT !.sample = S] EXCEPT !.next = view.next + 1]
      BY <1>1, <1>3 DEF View
    <3>3. view \in View
      BY <1>1
    <3>. QED BY <3>1, <3>2, <3>3 DEF View
  <2>. QED BY <1>1, <1>2, <1>3, <2>1, OneQuery
<1>4. ASSUME NEW S \in SUBSET (Listed \cap Media), view.next = 14,
             view' = [view EXCEPT !.media = S, !.next = @ + 1]
      PROVE  CenterInv'
  <2>1. /\ view' \in View /\ view'.next = view.next + 1 /\ view'.sample = view.sample /\ view'.media = S
        /\ view'.counted = view.counted /\ view'.items = view.items /\ view'.active = view.active
        /\ view'.total = view.total /\ view'.byCheck = view.byCheck /\ view'.events = view.events
        /\ view'.number = view.number
    <3>1. S \in MediaSets /\ view.next + 1 \in 0..18
      BY <1>1, <1>4, SetsTyped DEF MediaSets
    <3>2. view' = [[view EXCEPT !.media = S] EXCEPT !.next = view.next + 1]
      BY <1>1, <1>4 DEF View
    <3>3. view \in View
      BY <1>1
    <3>. QED BY <3>1, <3>2, <3>3 DEF View
  <2>. QED BY <1>1, <1>2, <1>4, <2>1, OneQuery
<1>5. CASE Queries[view.next] = "sample"
  <2>1. view.next = 1
    BY <1>1, <1>5, QueryIs
  <2>2. PICK S \in Samples : view' = [view EXCEPT !.sample = S, !.next = @ + 1]
    BY <1>5 DEF QuerySample
  <2>3. S \in SUBSET Listed
    BY DEF Samples, SeenLast
  <2>. QED BY <1>3, <2>1, <2>2, <2>3
<1>6. CASE Queries[view.next] = "media"
  <2>1. view.next = 14
    BY <1>1, <1>6, QueryIs
  <2>2. PICK S \in SeenLast(Listed \cap Media) : view' = [view EXCEPT !.media = S, !.next = @ + 1]
    BY <1>6 DEF QuerySample
  <2>3. S \in SUBSET (Listed \cap Media)
    BY DEF SeenLast
  <2>. QED BY <1>4, <2>1, <2>2, <2>3
<1>. QED BY <1>5, <1>6 DEF QuerySample

\* The query of one state counts the newest jobs in it.
LEMMA CountInv ==
  ASSUME CenterInv, Query, view.next \in 6..12
  PROVE  CenterInv'
<1>. DEFINE n == view.next
            s == Stages[n - 5]
            plus == [j \in JobRow |-> view.counted[j] + IF j \in Newest(JobsIn({s}), Cap) THEN 1 ELSE 0]
<1>1. /\ n \in 1..17 /\ n \in Nat /\ view \in View /\ UNCHANGED <<stage, checked, eventCount, moves, touched>>
      /\ Queries[n] = s /\ s \in Stage /\ n - 5 \in 1..7
      /\ stage \in [JobRow -> Stage \cup {Missing}]
  BY StageQueries DEF CenterInv, CenterTyped, Query
<1>2. view' = [[view EXCEPT !.counted = plus] EXCEPT !.next = view.next + 1]
  <2>1. Answer(s) = [view EXCEPT !.counted = plus]
    BY <1>1, Answers
  <2>2. view' = [Answer(s) EXCEPT !.next = @ + 1] /\ [view EXCEPT !.counted = plus].next = view.next
    BY <1>1 DEF Query, View
  <2>. QED BY <2>1, <2>2
<1>3. /\ JobsCounted /\ view.counted \in [JobRow -> 0..7]
      /\ view.sample \cap Still \subseteq Listed /\ view.media \cap Still \subseteq Listed
  BY <1>1 DEF CenterInv, RecordsSeen, View, Counts
<1>4. plus \in [JobRow -> 0..7] /\ \A j \in JobRow : plus[j] = 0 \/ plus[j] <= n - 5
  <2>1. ASSUME NEW j \in JobRow
        PROVE  plus[j] \in 0..7 /\ plus[j] <= n - 5
    <3>1. view.counted[j] \in 0..7 /\ (view.counted[j] = 0 \/ view.counted[j] <= n - 6)
      BY <1>3 DEF JobsCounted
    <3>2. plus[j] = view.counted[j] + IF j \in Newest(JobsIn({s}), Cap) THEN 1 ELSE 0
      OBVIOUS
    <3>. HIDE DEF plus
    <3>3. plus[j] = view.counted[j] \/ plus[j] = view.counted[j] + 1
      BY <3>1, <3>2
    <3>. QED BY <1>1, <3>1, <3>3
  <2>. QED BY <2>1
<1>. HIDE DEF plus
<1>5. /\ view' \in View /\ view'.next = n + 1 /\ view'.counted = plus /\ view'.sample = view.sample
      /\ view'.media = view.media /\ view'.items = view.items /\ view'.active = view.active
      /\ view'.total = view.total /\ view'.byCheck = view.byCheck /\ view'.events = view.events
      /\ view'.number = view.number
  <2>1. plus \in Counts /\ n + 1 \in 0..18
    BY <1>1, <1>4 DEF Counts
  <2>. QED BY <1>1, <1>2, <2>1 DEF View
<1>6. /\ Quiet' = Quiet /\ JobsIn(Stage)' = JobsIn(Stage)
      /\ \A j, S, limit : Few(j, S, limit)' = Few(j, S, limit)
  BY <1>1 DEF Quiet, JobsIn, Few
<1>7. ASSUME NEW j \in Quiet, NEW i \in 1..7, stage[j] = Stages[i]
      PROVE  /\ n + 1 <= 5 + i => plus[j] = 0
             /\ n + 1 > 5 + i => plus[j] <= 1 /\ (Few(j, JobsIn(Stage), Cap) => plus[j] = 1)
  <2>1. /\ j \in JobRow /\ (n <= 5 + i => view.counted[j] = 0)
        /\ n > 5 + i => view.counted[j] <= 1 /\ (Few(j, JobsIn(Stage), Cap) => view.counted[j] = 1)
    BY <1>3, <1>7, SetsTyped DEF JobsCounted
  <2>2. view.counted[j] \in 0..7
    BY <1>3, <2>1
  <2>3. plus[j] = view.counted[j] + IF j \in Newest(JobsIn({s}), Cap) THEN 1 ELSE 0
    BY <2>1 DEF plus
  <2>4. CASE i # n - 5
    <3>1. stage[j] # s
      BY <1>1, <1>7, <2>4, StageOrder
    <3>2. j \notin Newest(JobsIn({s}), Cap)
      BY <3>1 DEF Newest, JobsIn
    <3>3. plus[j] = view.counted[j]
      BY <2>2, <2>3, <3>2
    <3>. QED BY <1>1, <2>1, <2>4, <3>3
  <2>5. CASE i = n - 5
    <3>1. j \in JobsIn({s}) /\ JobsIn({s}) \in SUBSET JobsIn(Stage)
      BY <1>1, <1>7, <2>1, <2>5 DEF JobsIn
    <3>2. Few(j, JobsIn(Stage), Cap) => j \in Newest(JobsIn({s}), Cap)
      BY <3>1, FewerAmong, NewestAre, SetsTyped
    <3>3. n = 5 + i /\ view.counted[j] = 0
      BY <1>1, <2>1, <2>5
    <3>4. plus[j] \in {0, 1} /\ (j \in Newest(JobsIn({s}), Cap) => plus[j] = 1)
      BY <2>3, <3>3
    <3>. QED BY <3>2, <3>3, <3>4
  <2>. QED BY <2>4, <2>5
<1>8. JobsCounted'
  <2>1. \A j \in JobRow : view'.counted[j] = 0 \/ view'.counted[j] <= view'.next - 6
    BY <1>1, <1>4, <1>5
  <2>. QED BY <1>1, <1>5, <1>6, <1>7, <2>1 DEF JobsCounted
<1>. QED BY <1>1, <1>3, <1>5, <1>8, OneQuery


LEMMA QueryInv ==
  ASSUME CenterInv, Query
  PROVE  CenterInv'
<1>1. /\ view.next \in 1..17 /\ view \in View /\ UNCHANGED <<stage, checked, eventCount, moves, touched>>
      /\ Queries[view.next] \notin {"sample", "media"}
      /\ view' = [Answer(Queries[view.next]) EXCEPT !.next = @ + 1]
  BY QueryNames DEF CenterInv, CenterTyped, Query
<1>2. view.sample \cap Still \subseteq Listed /\ view.media \cap Still \subseteq Listed
  BY DEF CenterInv, RecordsSeen
<1>3. CASE view.next = 2
  <2>. DEFINE new == IF view.sample \subseteq Foreign THEN view.sample \cap Listed ELSE view.sample
  <2>1. Queries[view.next] = "get"
    BY <1>3, QueryNames
  <2>2. view' = [[view EXCEPT !.sample = new] EXCEPT !.next = @ + 1]
    BY <1>1, <2>1, Answers
  <2>3. new \in RecordSets /\ view.next + 1 \in 0..18
    BY <1>1, <1>3 DEF View, RecordSets
  <2>4. new \cap Still \subseteq Listed
    BY <1>2
  <2>. HIDE DEF new
  <2>5. /\ view' \in View /\ view'.next = view.next + 1 /\ view'.sample = new
        /\ view'.total = view.total /\ view'.byCheck = view.byCheck /\ view'.items = view.items
        /\ view'.counted = view.counted /\ view'.transfers = view.transfers /\ view'.active = view.active
        /\ view'.media = view.media /\ view'.events = view.events /\ view'.number = view.number
    <3>1. view' = [[view EXCEPT !.sample = new] EXCEPT !.next = view.next + 1]
      BY <1>1, <2>2 DEF View
    <3>. QED BY <1>1, <2>3, <3>1 DEF View
  <2>. QED BY <1>1, <1>2, <1>3, <2>4, <2>5, OneQuery
<1>4. CASE view.next = 3
  <2>. DEFINE new == Cardinality(Listed)
  <2>1. Queries[view.next] = "count"
    BY <1>4, QueryNames
  <2>2. view' = [[view EXCEPT !.total = new] EXCEPT !.next = @ + 1]
    BY <1>1, <2>1, Answers
  <2>3. new \in Nat /\ view.next + 1 \in 0..18
    BY <1>4, RowsFinite, SetsTyped
  <2>4. new = Cardinality(Listed)
    OBVIOUS
  <2>. HIDE DEF new
  <2>5. /\ view' \in View /\ view'.next = view.next + 1 /\ view'.total = new
        /\ view'.sample = view.sample /\ view'.byCheck = view.byCheck /\ view'.items = view.items
        /\ view'.counted = view.counted /\ view'.transfers = view.transfers /\ view'.active = view.active
        /\ view'.media = view.media /\ view'.events = view.events /\ view'.number = view.number
    <3>1. view' = [[view EXCEPT !.total = new] EXCEPT !.next = view.next + 1]
      BY <1>1, <2>2 DEF View
    <3>. QED BY <1>1, <2>3, <3>1 DEF View
  <2>. QED BY <1>1, <1>2, <1>4, <2>4, <2>5, OneQuery
<1>5. CASE view.next = 4
  <2>. DEFINE new == [c \in Checks |-> Cardinality({r \in Listed : checked[r] = c})]
  <2>1. Queries[view.next] = "checks"
    BY <1>5, QueryNames
  <2>2. view' = [[view EXCEPT !.byCheck = new] EXCEPT !.next = @ + 1]
    BY <1>1, <2>1, Answers
  <2>3. new \in Groups /\ view.next + 1 \in 0..18
    BY <1>5, RowsFinite, SetsTyped DEF Groups
  <2>4. new["UNVERIFIED"] + new["VERIFIED"] = Cardinality(Listed)
    <3>. DEFINE In(c) == {r \in Listed : checked[r] = c}
    <3>1. new["UNVERIFIED"] = Cardinality(In("UNVERIFIED")) /\ new["VERIFIED"] = Cardinality(In("VERIFIED"))
      BY DEF Checks
    <3>2. IsFiniteSet(In("UNVERIFIED")) /\ IsFiniteSet(In("VERIFIED"))
      BY RowsFinite, SetsTyped
    <3>3. In("UNVERIFIED") \cap In("VERIFIED") = {} /\ In("UNVERIFIED") \cup In("VERIFIED") = Listed
      BY DEF CenterInv, CenterTyped, Listed, Checks
    <3>4. Cardinality(In("UNVERIFIED")) \in Nat /\ Cardinality(In("VERIFIED")) \in Nat
      BY <3>2, FS_CardinalityType
    <3>. HIDE DEF In, new
    <3>5. Cardinality(Listed) =
            Cardinality(In("UNVERIFIED")) + Cardinality(In("VERIFIED")) - Cardinality({})
      BY <3>2, <3>3, FS_Union
    <3>6. Cardinality({}) = 0
      BY FS_EmptySet
    <3>. QED BY <3>1, <3>4, <3>5, <3>6
  <2>. HIDE DEF new
  <2>5. /\ view' \in View /\ view'.next = view.next + 1 /\ view'.byCheck = new
        /\ view'.sample = view.sample /\ view'.total = view.total /\ view'.items = view.items
        /\ view'.counted = view.counted /\ view'.transfers = view.transfers /\ view'.active = view.active
        /\ view'.media = view.media /\ view'.events = view.events /\ view'.number = view.number
    <3>1. view' = [[view EXCEPT !.byCheck = new] EXCEPT !.next = view.next + 1]
      BY <1>1, <2>2 DEF View
    <3>. QED BY <1>1, <2>3, <3>1 DEF View
  <2>. QED BY <1>1, <1>2, <1>5, <2>4, <2>5, OneQuery
<1>6. CASE view.next = 5
  <2>. DEFINE new == Newest(JobsIn(Stage), RowLimit)
  <2>1. Queries[view.next] = "items"
    BY <1>6, QueryNames
  <2>2. view' = [[view EXCEPT !.items = new] EXCEPT !.next = @ + 1]
    BY <1>1, <2>1, Answers
  <2>3. new \in JobSets /\ view.next + 1 \in 0..18
    BY <1>6, SetsTyped DEF Newest, JobSets
  <2>4. \A j \in Quiet : Few(j, JobsIn(Stage), RowLimit) => j \in new
    BY NewestAre, SetsTyped
  <2>. HIDE DEF new
  <2>5. /\ view' \in View /\ view'.next = view.next + 1 /\ view'.items = new
        /\ view'.sample = view.sample /\ view'.total = view.total /\ view'.byCheck = view.byCheck
        /\ view'.counted = view.counted /\ view'.transfers = view.transfers /\ view'.active = view.active
        /\ view'.media = view.media /\ view'.events = view.events /\ view'.number = view.number
    <3>1. view' = [[view EXCEPT !.items = new] EXCEPT !.next = view.next + 1]
      BY <1>1, <2>2 DEF View
    <3>. QED BY <1>1, <2>3, <3>1 DEF View
  <2>. QED BY <1>1, <1>2, <1>6, <2>4, <2>5, OneQuery
<1>7. CASE view.next \in 6..12
  BY <1>7, CountInv
<1>8. CASE view.next = 13
  <2>. DEFINE found == Newest(JobsIn(Stage), Cap) \cap Transferring
              shown == Newest(found, RowLimit)
              busy  == found \cap JobsIn({"RUNNING", "VERIFYING"})
  <2>1. Queries[view.next] = "transfers"
    BY <1>8, QueryNames
  <2>2. view' = [[view EXCEPT !.transfers = shown, !.active = busy] EXCEPT !.next = @ + 1]
    BY <1>1, <2>1, Answers
  <2>3. shown \in JobSets /\ busy \in JobSets /\ view.next + 1 \in 0..18
    BY <1>8, SetsTyped DEF Newest, JobSets
  <2>4. \A j \in Quiet : Few(j, JobsIn(Stage), Cap) /\ j \in Transferring =>
          (j \in busy <=> stage[j] \in {"RUNNING", "VERIFYING"})
    BY NewestAre, SetsTyped DEF JobsIn
  <2>. HIDE DEF shown, busy
  <2>5. /\ view' \in View /\ view'.next = view.next + 1 /\ view'.active = busy
        /\ view'.sample = view.sample /\ view'.total = view.total /\ view'.byCheck = view.byCheck
        /\ view'.items = view.items /\ view'.counted = view.counted /\ view'.media = view.media
        /\ view'.events = view.events /\ view'.number = view.number
    <3>1. view' = [[view EXCEPT !.transfers = shown, !.active = busy] EXCEPT !.next = view.next + 1]
      BY <1>1, <2>2 DEF View
    <3>. QED BY <1>1, <2>3, <3>1 DEF View
  <2>. QED BY <1>1, <1>2, <1>8, <2>4, <2>5, OneQuery
<1>9. CASE view.next = 15
  <2>. DEFINE new == view.media \cap Listed
  <2>1. Queries[view.next] = "look up"
    BY <1>9, QueryNames
  <2>2. view' = [[view EXCEPT !.media = new] EXCEPT !.next = @ + 1]
    BY <1>1, <2>1, Answers
  <2>3. new \in MediaSets /\ view.next + 1 \in 0..18
    BY <1>1, <1>9 DEF View, MediaSets
  <2>4. new \cap Still \subseteq Listed
    OBVIOUS
  <2>. HIDE DEF new
  <2>5. /\ view' \in View /\ view'.next = view.next + 1 /\ view'.media = new
        /\ view'.sample = view.sample /\ view'.total = view.total /\ view'.byCheck = view.byCheck
        /\ view'.items = view.items /\ view'.counted = view.counted /\ view'.transfers = view.transfers
        /\ view'.active = view.active /\ view'.events = view.events /\ view'.number = view.number
    <3>1. view' = [[view EXCEPT !.media = new] EXCEPT !.next = view.next + 1]
      BY <1>1, <2>2 DEF View
    <3>. QED BY <1>1, <2>3, <3>1 DEF View
  <2>. QED BY <1>1, <1>2, <1>9, <2>4, <2>5, OneQuery
<1>10. CASE view.next = 16
  <2>. DEFINE new == Newest(1..eventCount, RowLimit)
  <2>1. Queries[view.next] = "events"
    BY <1>10, QueryNames
  <2>2. view' = [[view EXCEPT !.events = new] EXCEPT !.next = @ + 1]
    BY <1>1, <2>1, Answers
  <2>3. new \in EventSets /\ view.next + 1 \in 0..18
    BY <1>10 DEF Newest, EventSets
  <2>4. \A e \in 1..eventCount : e \in new \/ e + RowLimit <= eventCount
    <3>1. eventCount \in Nat /\ RowLimit \in Nat
      BY SetsTyped DEF CenterInv, CenterTyped
    <3>2. ASSUME NEW e \in 1..eventCount, e \notin new
          PROVE  e + RowLimit <= eventCount
      <4>1. {y \in 1..eventCount : y > e} = (e + 1)..eventCount
        BY <3>1, <3>2
      <4>2. Cardinality((e + 1)..eventCount) = eventCount - e
        BY <3>1, <3>2, FS_Interval
      <4>3. ~(Cardinality({y \in 1..eventCount : y > e}) < RowLimit)
        BY <3>2 DEF Newest
      <4>4. ~(eventCount - e < RowLimit)
        BY <4>1, <4>2, <4>3
      <4>5. e \in Nat
        BY <3>2
      <4>. QED BY <3>1, <4>4, <4>5
    <3>. QED BY <3>2
  <2>. HIDE DEF new
  <2>5. /\ view' \in View /\ view'.next = view.next + 1 /\ view'.events = new
        /\ view'.sample = view.sample /\ view'.total = view.total /\ view'.byCheck = view.byCheck
        /\ view'.items = view.items /\ view'.counted = view.counted /\ view'.transfers = view.transfers
        /\ view'.active = view.active /\ view'.media = view.media /\ view'.number = view.number
    <3>1. view' = [[view EXCEPT !.events = new] EXCEPT !.next = view.next + 1]
      BY <1>1, <2>2 DEF View
    <3>. QED BY <1>1, <2>3, <3>1 DEF View
  <2>. QED BY <1>1, <1>2, <1>10, <2>4, <2>5, OneQuery
<1>11. CASE view.next = 17
  <2>. DEFINE new == eventCount
  <2>1. Queries[view.next] = "number"
    BY <1>11, QueryNames
  <2>2. view' = [[view EXCEPT !.number = new] EXCEPT !.next = @ + 1]
    BY <1>1, <2>1, Answers
  <2>3. new \in 0..eventCount /\ view.next + 1 \in 0..18
    BY <1>11 DEF CenterInv, CenterTyped
  <2>4. new = eventCount
    OBVIOUS
  <2>. HIDE DEF new
  <2>5. /\ view' \in View /\ view'.next = view.next + 1 /\ view'.number = new
        /\ view'.sample = view.sample /\ view'.total = view.total /\ view'.byCheck = view.byCheck
        /\ view'.items = view.items /\ view'.counted = view.counted /\ view'.transfers = view.transfers
        /\ view'.active = view.active /\ view'.media = view.media /\ view'.events = view.events
    <3>1. view' = [[view EXCEPT !.number = new] EXCEPT !.next = view.next + 1]
      BY <1>1, <2>2 DEF View
    <3>. QED BY <1>1, <2>3, <3>1 DEF View
  <2>. QED BY <1>1, <1>2, <1>11, <2>4, <2>5, OneQuery
<1>12. view.next \notin {1, 14}
  BY <1>1, QueryNames
<1>13. \/ view.next = 2 \/ view.next = 3 \/ view.next = 4 \/ view.next = 5 \/ view.next \in 6..12
       \/ view.next = 13 \/ view.next = 15 \/ view.next = 16 \/ view.next = 17
  BY <1>1, <1>12
<1>. QED BY <1>3, <1>4, <1>5, <1>6, <1>7, <1>8, <1>9, <1>10, <1>11, <1>13

LEMMA CenterNextInv ==
  ASSUME CenterInv, [CenterNext]_centerVars
  PROVE  CenterInv'
<1>1. CASE UNCHANGED centerVars
  BY <1>1 DEF centerVars, CenterInv, CenterTyped, View, EventSets, JobsCounted, JobsListed, RecordsSeen,
              EventsSeen, Quiet, Still, Listed, JobsIn, Few
<1>2. ASSUME NEW j \in JobRow, JobMoves(j)
      PROVE  CenterInv'
  <2>1. PICK s \in Onto(stage[j]) \ {stage[j]} : stage' = [stage EXCEPT ![j] = s]
    BY <1>2 DEF JobMoves
  <2>2. s \in Stage
    <3>1. stage[j] \in Stage
      BY <1>2 DEF JobMoves, CenterInv, CenterTyped
    <3>2. s \in {"QUEUED", "RUNNING", "PAUSED", "VERIFYING", "COMPLETED", "FAILED", "CANCELLED"}
      BY <2>1, <3>1, StageNames DEF Onto
    <3>. QED BY <3>2, StageNames
  <2>. QED BY <1>2, <2>1, <2>2, JobChanges DEF JobMoves
<1>3. ASSUME JobEnqueued
      PROVE  CenterInv'
  <2>1. "QUEUED" \in Stage
    BY StageNames
  <2>. QED BY <1>3, <2>1, JobChanges DEF JobEnqueued
<1>. QED BY <1>1, <1>2, <1>3, RecordChangesInv, EventWrittenInv, OpenViewInv, SampleInv, QueryInv
        DEF CenterNext

\* For any numbers of jobs and records, any limits, and whatever others do to the
\* tables between the queries of dashboard(): what stays as it is is shown as it
\* is, once, if the limits let it; the number of records is off by no more than
\* the records that changed; and the events shown are the last that are counted.
THEOREM DashboardIsHonest == CenterSpec => []QuietRowsShown
<1>1. CenterInv => QuietRowsShown
  <2>. SUFFICES ASSUME CenterInv
                PROVE  QuietRowsShown
    OBVIOUS
  <2>1. CenterTyped /\ JobsCounted /\ JobsListed /\ RecordsSeen /\ EventsSeen
    BY DEF CenterInv
  <2>2. Len(Queries) = 17 /\ Len(Stages) = 7
    BY QueryNames, StageOrder
  <2>3. CenterTypes
    <3>1. view \in View /\ MaxMoves \in Nat
      BY <2>1, SetsTyped DEF CenterTyped
    <3>. QED BY <2>1, <2>2, <3>1, SetsTyped
            DEF CenterTypes, CenterTyped, View, JobSets, RecordSets, MediaSets, EventSets, Counts
  <2>4. ASSUME view.next = 18, NEW j \in Quiet
        PROVE  /\ view.counted[j] <= 1
               /\ Few(j, JobsIn(Stage), Cap) => view.counted[j] = 1
               /\ Few(j, JobsIn(Stage), RowLimit) => j \in view.items
               /\ Few(j, JobsIn(Stage), Cap) /\ j \in Transferring =>
                    (j \in view.active <=> stage[j] \in {"RUNNING", "VERIFYING"})
    <3>1. stage[j] \in Stage
      BY DEF Quiet, JobsIn
    <3>2. PICK i \in 1..7 : stage[j] = Stages[i]
      BY <3>1, StageOrder
    <3>3. view.next > 5 + i /\ view.next > 13 /\ view.next > 5
      BY <2>4
    <3>4. view.counted[j] <= 1 /\ (Few(j, JobsIn(Stage), Cap) => view.counted[j] = 1)
      BY <2>1, <3>2, <3>3 DEF JobsCounted
    <3>. QED BY <2>1, <3>3, <3>4 DEF JobsListed
  <2>5. ASSUME view.next = 18
        PROVE  /\ view.total - Cardinality(Still \cap Listed) \in 0..Cardinality(RecordRow \ Still)
               /\ view.sample \cap Still \subseteq Listed
               /\ view.media \cap Still \subseteq Listed \cap Media
    BY <2>1, <2>5 DEF RecordsSeen, CenterTyped, View, MediaSets
  <2>6. ASSUME view.next = 18, touched = {}
        PROVE  view.total = view.byCheck["UNVERIFIED"] + view.byCheck["VERIFIED"]
    <3>1. Still = RecordRow /\ Still \cap Listed = Listed /\ RecordRow \ Still = {}
      BY <2>6, SetsTyped DEF Still
    <3>2. view.total - Cardinality(Listed) \in 0..0
      BY <2>5, <2>6, <3>1, FS_EmptySet
    <3>3. Cardinality(Listed) \in Nat /\ view.total \in Nat
      BY <2>1, RowsFinite, SetsTyped DEF CenterTyped, View
    <3>. QED BY <2>1, <2>6, <3>2, <3>3 DEF RecordsSeen
  <2>7. ASSUME view.next = 18
        PROVE  /\ view.events \subseteq 1..view.number
               /\ \A e \in 1..view.number : e \notin view.events =>
                    <<"event", e>> \in touched \/ e + RowLimit <= view.number
    BY <2>1, <2>7 DEF EventsSeen
  <2>. QED BY <2>2, <2>3, <2>4, <2>5, <2>6, <2>7 DEF QuietRowsShown, Quiet, Still, Few
<1>2. CenterInit => CenterInv
  BY CenterInitInv
<1>3. CenterInv /\ [CenterNext]_centerVars => CenterInv'
  BY CenterNextInv
<1>. QED BY <1>1, <1>2, <1>3, PTL DEF CenterSpec
=============================================================================
