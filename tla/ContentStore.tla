---------------------------- MODULE ContentStore ----------------------------
(***************************************************************************)
(* The content-addressed store and the packing of snapshots: CASStore.put   *)
(* and compressed_snapshot of teldrive_lab/advanced.py, with the streaming  *)
(* reads of resources.py.                                                   *)
(*                                                                          *)
(* Threads read the same source, chunk by chunk, while other programs write *)
(* it.  Each reads it twice: once for its digest, once for the bytes.  A    *)
(* content is a function from chunk to value and stands for its digest too; *)
(* its length is part of it.  No edit brings back bytes that were there     *)
(* before: two equal readings prove nothing against that.                   *)
(***************************************************************************)
EXTENDS Integers

CONSTANTS
  Reader,       \* threads; each calls CASStore.put or compressed_snapshot
  Chunks,       \* length of the source in chunks
  MaxChanges,   \* bound on the edits of the source
  MaxDeaths     \* bound on the deaths of threads

ASSUME ContentAssumption == Chunks \in Nat \ {0} /\ MaxChanges \in Nat /\ MaxDeaths \in Nat

Chunk  == 1..Chunks
Hole   == -1                             \* a chunk that is not written
Bytes  == [Chunk -> 0..MaxChanges]       \* a content, or its digest
NoFile == [i \in Chunk |-> Hole]         \* no file, or an empty one
File   == [Chunk -> 0..MaxChanges \cup {Hole}]

VARIABLES
  source,   \* the file that is put and packed
  object,   \* the objects of the store, by digest
  partial,  \* files being written: partials of a put, destinations of a pack
  reader,   \* each thread: its task and where it is, chunks done, digest, bytes copied
  changes,  \* edits of the source so far
  deaths,   \* deaths of threads so far
  held      \* history: every content the source has had

storeVars == <<source, object, partial, reader, changes, deaths, held>>

Resting == [at |-> "idle", task |-> "put", done |-> 0, digest |-> NoFile, read |-> NoFile]

StoreInit ==
  /\ source = [i \in Chunk |-> 0]
  /\ object = [d \in Bytes |-> NoFile]
  /\ partial = [n \in Reader \X Bytes |-> NoFile]
  /\ reader = [p \in Reader |-> Resting]
  /\ changes = 0 /\ deaths = 0
  /\ held = {source}

\* Mutant of TempOf: the partial's name does not say whose it is.
TempOfDigest(p) == <<CHOOSE q \in Reader : TRUE, reader[p].digest>>

\* The partial's name is the object's with the process and the thread; a pack
\* has a destination of its own.
TempOf(p) == <<p, reader[p].digest>>

\* The call ends: it answers with its digest, or fails.
Ends(p, ok) ==
  reader' = [reader EXCEPT ![p] = 
    IF ok THEN [@ EXCEPT !.at = "answered", !.done = 0, !.read = NoFile] ELSE Resting]

-----------------------------------------------------------------------------
(* The two readings.                                                         *)

Begin(p, task) ==
  /\ reader[p].at \in {"idle", "answered"}
  /\ reader' = [reader EXCEPT ![p] = [Resting EXCEPT !.at = "hash", !.task = task]]
  /\ UNCHANGED <<source, object, partial, changes, deaths, held>>

\* stream_sha256: the next chunk goes into the digest.
HashChunk(p) ==
  LET i == reader[p].done + 1 IN
  /\ reader[p].at = "hash" /\ i \in Chunk
  /\ reader' = [reader EXCEPT ![p] =
       [@ EXCEPT !.at = IF i = Chunks THEN "hashed" ELSE "hash",
                 !.done = i, !.digest[i] = source[i]]]
  /\ UNCHANGED <<source, object, partial, changes, deaths, held>>

\* dest.exists(): an object of this digest is already there.
AlreadyThere(p) ==
  /\ reader[p].at = "hashed" /\ reader[p].task = "put" /\ object[reader[p].digest] # NoFile
  /\ Ends(p, TRUE)
  /\ UNCHANGED <<source, object, partial, changes, deaths, held>>

NotThere(p) ==
  /\ reader[p].at = "hashed"
  /\ reader[p].task = "pack" \/ object[reader[p].digest] = NoFile
  /\ reader' = [reader EXCEPT ![p].at = "open"]
  /\ UNCHANGED <<source, object, partial, changes, deaths, held>>

\* The destination is opened for writing, which empties what is left there.
OpenCopy(p) ==
  /\ reader[p].at = "open"
  /\ partial' = [partial EXCEPT ![TempOf(p)] = NoFile]
  /\ reader' = [reader EXCEPT ![p] = [@ EXCEPT !.at = "copy", !.done = 0]]
  /\ UNCHANGED <<source, object, changes, deaths, held>>

\* copy_stream: the next chunk is written, and goes into a second digest.
CopyChunk(p) ==
  LET i == reader[p].done + 1 IN
  /\ reader[p].at = "copy" /\ i \in Chunk
  /\ partial' = [partial EXCEPT ![TempOf(p)][i] = source[i]]
  /\ reader' = [reader EXCEPT ![p] = [@ EXCEPT !.done = i, !.read[i] = source[i]]]
  /\ UNCHANGED <<source, object, changes, deaths, held>>

-----------------------------------------------------------------------------
(* The end of a put and of a pack.                                           *)

\* The partial replaces the object of digest d, if ok; else it is removed.
FinishPut(p, d, ok) ==
  /\ reader[p].task = "put" /\ reader[p].at = "copy" /\ reader[p].done = Chunks
  /\ object' = IF ok THEN [object EXCEPT ![d] = partial[TempOf(p)]] ELSE object
  /\ partial' = [partial EXCEPT ![TempOf(p)] = NoFile]
  /\ Ends(p, ok)
  /\ UNCHANGED <<source, changes, deaths, held>>

Install(p) == FinishPut(p, reader[p].digest, reader[p].read = reader[p].digest)

\* The packed file is read back and compared with the digest of the source.
VerifyPack(p) ==
  /\ reader[p].task = "pack" /\ reader[p].at = "copy" /\ reader[p].done = Chunks
  /\ Ends(p, partial[TempOf(p)] = reader[p].digest)
  /\ partial' = [partial EXCEPT ![TempOf(p)] = NoFile]   \* it is of no more interest
  /\ UNCHANGED <<source, object, changes, deaths, held>>

-----------------------------------------------------------------------------
(* The environment.                                                          *)

\* A thread dies and leaves its partial behind, which a later put may meet.
\* One that packs, or has written nothing yet, leaves nothing that others use:
\* it is one that takes no more steps.
ReaderDies(p) ==
  /\ reader[p].at = "copy" /\ reader[p].task = "put" /\ reader[p].done > 0
  /\ deaths < MaxDeaths
  /\ deaths' = deaths + 1
  /\ reader' = [reader EXCEPT ![p] = Resting]
  /\ UNCHANGED <<source, object, partial, changes, held>>

\* Another program writes a chunk of the source.
WriteSource(i) ==
  /\ changes < MaxChanges
  /\ changes' = changes + 1
  /\ source' = [source EXCEPT ![i] = changes + 1]
  /\ held' = held \cup {source'}
  /\ UNCHANGED <<object, partial, reader, deaths>>

StoreNext ==
  \/ \E p \in Reader :
       \/ \E task \in {"put", "pack"} : Begin(p, task)
       \/ HashChunk(p) \/ AlreadyThere(p) \/ NotThere(p) \/ OpenCopy(p)
       \/ CopyChunk(p) \/ Install(p) \/ VerifyPack(p) \/ ReaderDies(p)
  \/ \E i \in Chunk : WriteSource(i)

StoreSpec == StoreInit /\ [][StoreNext]_storeVars

-----------------------------------------------------------------------------
(* Properties.                                                               *)

StoreTypes ==
  /\ source \in Bytes /\ changes \in 0..MaxChanges /\ deaths \in 0..MaxDeaths
  /\ object \in [Bytes -> File] /\ partial \in [Reader \X Bytes -> File]
  /\ reader \in [Reader -> [at : {"idle", "hash", "hashed", "open", "copy", "answered"},
                            task : {"put", "pack"}, done : 0..Chunks, digest : File, read : File]]
  /\ held \subseteq Bytes

\* What a put has stored, and a pack has verified, was the whole content of the
\* source at one moment, although both read it while others write it.
NeverTorn ==
  /\ \A d \in Bytes : object[d] # NoFile => d \in held
  /\ \A p \in Reader : reader[p].at = "answered" => reader[p].digest \in held

\* An object is absent or has the content its name says, and an answered put
\* has one: no death, edit or other put of the same file leaves half an object.
\* And neither an object nor a pack is torn.
StoreSound ==
  /\ StoreTypes
  /\ \A d \in Bytes : object[d] \in {NoFile, d}
  /\ \A p \in Reader :
       reader[p].at = "answered" /\ reader[p].task = "put" =>
         object[reader[p].digest] = reader[p].digest
  /\ NeverTorn
=============================================================================
