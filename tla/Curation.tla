------------------------------ MODULE Curation ------------------------------
(***************************************************************************)
(* The commands that work through the catalogued files of one source:       *)
(* `td archive`, `td organize` and `td verify` (teldrive_lab/archive.py,    *)
(* organization.py, integrity.py), under the boundary of safety.py.         *)
(*                                                                          *)
(* Archive and organize first plan every record, reading the disk record    *)
(* by record, and then transfer what the plan says, one item after the      *)
(* other.  Several commands run at once, other programs edit and remove the *)
(* sources, and a command may die at every step.  A transfer is two steps   *)
(* here, what it asks and reads and what it installs; the Transfer module   *)
(* has all of its steps.                                                    *)
(***************************************************************************)
EXTENDS Integers, FiniteSets, FiniteSetsExt, Sequences, SequencesExt

CONSTANTS
  Command,      \* the commands at work, each a process
  Catalog,      \* the catalog's records, in the order of their paths
  ArchiveRoot, RawRoot, CryptRoot,  \* the roots the commands are given
  Existing,     \* the choices for existing_records, sequences of records
  BuiltinRoots, \* the protected roots and state paths of safety.py
  Occupied,     \* the destinations that may hold a file already
  ExtraRoots,   \* the choices for TELDRIVE_LAB_PROTECTED_ROOTS
  MaxCommands,  \* bound on commands started
  MaxEdits      \* bound on edits and removals by other programs

Record == 1..Len(Catalog)
Foreign == 100 \* the content of a file nobody here put at a destination
Source(r) == Catalog[r].path
Name(r) == Last(Source(r))
Local(r) == Catalog[r].type = "LOCAL"

CatalogRecord == [origin : STRING, type : {"LOCAL", "TELDRIVE"}, path : Seq(STRING) \ {<<>>},
                  ext : STRING, mime : STRING, data : 0..(Foreign - 1)]

ASSUME CurationAssumption ==
  /\ Catalog \in Seq(CatalogRecord)
  /\ {ArchiveRoot, RawRoot, CryptRoot} \subseteq Seq(STRING) /\ Existing \subseteq Seq(Record)
  /\ MaxCommands \in Nat /\ MaxEdits \in Nat

-----------------------------------------------------------------------------
(* organization.py: classification *)

\* The path rules; earlier rules have precedence.
Rules == <<[segment |-> "projects", class |-> "project",  storage |-> "CRYPT"],
           [segment |-> "backups",  class |-> "backup",   storage |-> "CRYPT"],
           [segment |-> "movies",   class |-> "movie",    storage |-> "RAW"],
           [segment |-> "datasets", class |-> "dataset",  storage |-> "RAW"]>>

\* One extension stands for each class of the extension map.
ExtensionClass == [jpg |-> "image", mp4 |-> "video", mp3 |-> "audio",
                   pdf |-> "document", zip |-> "archive"]
MimeClass == [image |-> "image", video |-> "video", audio |-> "audio", text |-> "document"]

Matching(r) == {k \in DOMAIN Rules : \E i \in DOMAIN Source(r) : Source(r)[i] = Rules[k].segment}

PathRule(r) == Rules[Min(Matching(r))]

Classify(r) ==
  LET e == Catalog[r].ext  m == Catalog[r].mime IN
  CASE Matching(r) # {}              -> [class |-> PathRule(r).class, storage |-> PathRule(r).storage]
    [] Matching(r) = {} /\ e \in DOMAIN ExtensionClass
                                     -> [class |-> ExtensionClass[e], storage |-> "RAW"]
    [] Matching(r) = {} /\ e \notin DOMAIN ExtensionClass /\ m \in DOMAIN MimeClass
                                     -> [class |-> MimeClass[m], storage |-> "RAW"]
    [] OTHER                         -> [class |-> "unknown", storage |-> "RAW"]

Destination(role, r) ==
  IF role = "archive"
  THEN ArchiveRoot \o <<"archive", Name(r)>>
  ELSE (IF Classify(r).storage = "CRYPT" THEN CryptRoot ELSE RawRoot)
         \o <<Classify(r).class, Name(r)>>

Sources == {Source(r) : r \in Record}
Dests   == {Destination(role, r) : role \in {"archive", "organize"}, r \in Record}
Path    == Sources \cup Dests

-----------------------------------------------------------------------------
VARIABLES
  file,      \* the disk: path -> content, or None
  mtime,     \* when each record's source was last modified
  edits,     \* edits and removals so far
  started,   \* commands started so far
  cmd,       \* each command's progress
  evidence,  \* the IntegrityStore: record -> what verify_records recorded
  made,      \* history: the records each command has copied
  copied,    \* history: how the file at a destination came to be copied there
  torn       \* history: records edited between the digest and the stat of evidence

disk    == <<file, mtime, edits>>
records == <<started, evidence, copied, torn>>
cvars   == <<disk, records, cmd, made>>

None == -1     \* no file
Idle == [at |-> "idle", role |-> "none", known |-> <<>>, roots |-> {},
         todo |-> {}, verdict |-> [r \in Record |-> "none"],
         sha |-> [r \in Record |-> None], data |-> None]
NoEvidence == [sha |-> None, stamp |-> None]
Nobody == [of |-> 0, role |-> "none", planned |-> None, data |-> None,
           known |-> <<>>, roots |-> {}]

CInit ==
  /\ \E there \in SUBSET Occupied :
       file = [p \in Path |->
                 IF \E r \in Record : Local(r) /\ Source(r) = p
                 THEN Catalog[CHOOSE r \in Record : Source(r) = p].data
                 ELSE IF p \in there THEN Foreign ELSE None]
  /\ mtime = [r \in Record |-> 0]
  /\ edits = 0 /\ started = 0
  /\ cmd = [c \in Command |-> Idle]
  /\ evidence = [r \in Record |-> NoEvidence]
  /\ made = [c \in Command |-> {}]
  /\ copied = [p \in Path |-> Nobody]
  /\ torn = {}

AtHand(c) == Min(cmd[c].todo)
Data(r) == file[Source(r)]
Target(c, r) == Destination(cmd[c].role, r)

\* The command goes on in state s ...
GoOn(c, s) == cmd' = [cmd EXCEPT ![c] = s] /\ UNCHANGED made

\* ... or is over, and its plan with it.
Stop(c) ==
  /\ cmd' = [cmd EXCEPT ![c] = Idle]
  /\ made' = [made EXCEPT ![c] = {}]

\* The command has its verdict on record r, whose digest it has taken.
Judge(c, r, v, digest) ==
  GoOn(c, [cmd[c] EXCEPT !.todo = @ \ {r}, !.verdict[r] = v, !.sha[r] = digest])

-----------------------------------------------------------------------------
(* safety.py: is_protected and authorize, with the roots of command c *)

\* Mutant of Protected: only the root itself counts, not what is below it.
ProtectedExactly(c, p) == p \in BuiltinRoots \cup cmd[c].roots

Protected(c, p) == \E root \in BuiltinRoots \cup cmd[c].roots : IsPrefix(root, p)

\* authorize(TRANSFER, source, destination), past the question of a receipt:
\* neither path may be protected.
Permitted(c, r) == ~Protected(c, Source(r)) /\ ~Protected(c, Target(c, r))

-----------------------------------------------------------------------------
(* Planning *)

\* The command reads its part of the catalog; archive may get existing_records.
Begin(c, role, origin, known, roots) ==
  /\ cmd[c].at = "idle" /\ started < MaxCommands
  /\ started' = started + 1
  /\ cmd' = [cmd EXCEPT ![c] = [Idle EXCEPT
       !.at = IF role = "verify" THEN "hash" ELSE "plan",
       !.role = role, !.known = known, !.roots = roots,
       !.todo = {r \in Record : Catalog[r].origin = origin}]]
  /\ made' = [made EXCEPT ![c] = {}]
  /\ UNCHANGED <<file, mtime, edits, evidence, copied, torn>>

\* _existing_hashes: of the records of one digest, the last one's path is kept.
KnownAt(known, data) ==
  LET k == SelectLastInSeq(known, LAMBDA x : Catalog[x].data = data) IN
  IF k = 0 THEN <<>> ELSE Source(known[k])

ArchiveVerdict(c, r) ==
  CASE ~Local(r) \/ Data(r) = None -> "BLOCKED"
    [] OTHER ->
       IF KnownAt(cmd[c].known, Data(r)) \notin {<<>>, Source(r)} THEN "DUPLICATE"
       ELSE IF Source(r) = Target(c, r) THEN "NOOP"
       ELSE IF file[Target(c, r)] # None THEN "CONFLICT"
       ELSE IF Permitted(c, r) THEN "COPY" ELSE "BLOCKED"

OrganizeVerdict(c, r) ==
  IF Source(r) = Target(c, r) THEN "NOOP"
  ELSE IF file[Target(c, r)] # None THEN "CONFLICT"
  ELSE IF Permitted(c, r) THEN "COPY" ELSE "BLOCKED"

PlanItem(c) ==
  LET r == AtHand(c) IN
  /\ cmd[c].at = "plan" /\ cmd[c].todo # {}
  /\ IF cmd[c].role = "archive"
     THEN Judge(c, r, ArchiveVerdict(c, r), Data(r))
     ELSE Judge(c, r, OrganizeVerdict(c, r), None)
  /\ UNCHANGED <<disk, records>>

Verdicts(c) == {cmd[c].verdict[r] : r \in Record}
Copies(c) == {r \in Record : cmd[c].verdict[r] = "COPY"}

\* Mutant of Gate: duplicates are left to the review of the plan.
GateDuplicates(c) ==
  /\ cmd[c].at = "plan" /\ cmd[c].todo = {}
  /\ IF Verdicts(c) \cap {"BLOCKED", "CONFLICT"} # {}
     THEN Stop(c)
     ELSE GoOn(c, [cmd[c] EXCEPT !.at = "apply",
                 !.todo = {r \in Record : cmd[c].verdict[r] \in {"COPY", "DUPLICATE"}}])
  /\ UNCHANGED <<disk, records>>

\* apply() refuses a plan as a whole, and skips what is in place already.
Gate(c) ==
  /\ cmd[c].at = "plan" /\ cmd[c].todo = {}
  /\ IF Verdicts(c) \cap {"BLOCKED", "CONFLICT", "DUPLICATE"} # {}
     THEN Stop(c)
     ELSE GoOn(c, [cmd[c] EXCEPT !.at = "apply", !.todo = Copies(c)])
  /\ UNCHANGED <<disk, records>>

-----------------------------------------------------------------------------
(* Applying *)

Transferable(c, r) == Permitted(c, r) /\ Data(r) # None /\ file[Target(c, r)] = None

\* Mutant of TransferCheck: after a failed item the next one is tried.
TransferCheckOn(c) ==
  LET r == AtHand(c) IN
  /\ cmd[c].at = "apply" /\ cmd[c].todo # {}
  /\ IF Transferable(c, r)
     THEN GoOn(c, [cmd[c] EXCEPT !.at = "install", !.data = Data(r)])
     ELSE GoOn(c, [cmd[c] EXCEPT !.todo = @ \ {r}])
  /\ UNCHANGED <<disk, records>>

\* The transfer asks the boundary, the source and the destination, and reads
\* the source; a failed transfer ends the command.
TransferCheck(c) ==
  LET r == AtHand(c) IN
  /\ cmd[c].at = "apply" /\ cmd[c].todo # {}
  /\ IF Transferable(c, r)
     THEN GoOn(c, [cmd[c] EXCEPT !.at = "install", !.data = Data(r)])
     ELSE Stop(c)
  /\ UNCHANGED <<disk, records>>

\* copystat, and os.replace, unless the source has gone; it does not look at
\* what has appeared at the destination.
Install(c) ==
  LET r == AtHand(c) IN
  /\ cmd[c].at = "install"
  /\ Data(r) # None
  /\ file' = [file EXCEPT ![Target(c, r)] = cmd[c].data]
  /\ mtime' = [k \in Record |-> IF Source(k) = Target(c, r) THEN mtime[r] ELSE mtime[k]]
  /\ copied' = [copied EXCEPT ![Target(c, r)] =
       [of |-> r, role |-> cmd[c].role, planned |-> cmd[c].sha[r], data |-> cmd[c].data,
        known |-> cmd[c].known, roots |-> cmd[c].roots]]
  /\ made' = [made EXCEPT ![c] = @ \cup {r}]
  /\ cmd' = [cmd EXCEPT ![c].at = "apply", ![c].todo = @ \ {r}, ![c].data = None]
  /\ UNCHANGED <<edits, started, evidence, torn>>

Succeed(c) ==
  /\ cmd[c].at = "apply" /\ cmd[c].todo = {}
  /\ Stop(c)
  /\ UNCHANGED <<disk, records>>

-----------------------------------------------------------------------------
(* verify_records *)

\* verify_path: a file that is missing, or that an I/O error makes unreadable,
\* has no digest and leaves no evidence.
Hash(c) ==
  LET r == AtHand(c) IN
  /\ cmd[c].at = "hash" /\ cmd[c].todo # {}
  /\ IF Data(r) = None
     THEN Judge(c, r, "MISSING", None)
     ELSE \/ GoOn(c, [cmd[c] EXCEPT !.at = "stat", !.data = Data(r)])
          \/ Judge(c, r, "UNVERIFIABLE", None)
  /\ UNCHANGED <<disk, records>>

\* Mutant of RecordEvidence: the row of an earlier run keeps its digest.
RecordEvidenceOnce(c) ==
  LET r == AtHand(c) IN
  /\ cmd[c].at = "stat" /\ Data(r) # None
  /\ evidence' = [evidence EXCEPT
       ![r] = [sha |-> IF @ = NoEvidence THEN cmd[c].data ELSE @.sha, stamp |-> mtime[r]]]
  /\ GoOn(c, [cmd[c] EXCEPT !.at = "hash", !.todo = @ \ {r}, !.data = None])
  /\ UNCHANGED <<disk, started, copied, torn>>

\* The second stat() and IntegrityStore.record, after the digest.
RecordEvidence(c) ==
  LET r == AtHand(c) IN
  /\ cmd[c].at = "stat" /\ Data(r) # None
  /\ evidence' = [evidence EXCEPT ![r] = [sha |-> cmd[c].data, stamp |-> mtime[r]]]
  /\ GoOn(c, [cmd[c] EXCEPT !.at = "hash", !.todo = @ \ {r}, !.data = None])
  /\ UNCHANGED <<disk, started, copied, torn>>

Verified(c) ==
  /\ cmd[c].at = "hash" /\ cmd[c].todo = {}
  /\ Stop(c)
  /\ UNCHANGED <<disk, records>>

-----------------------------------------------------------------------------
(* The rest of the system *)

\* The process dies, or leaves through an I/O error or an exception: also the
\* one that verify_records raises when a file goes between digest and stat.
Quit(c) ==
  /\ cmd[c].at # "idle"
  /\ Stop(c)
  /\ UNCHANGED <<disk, records>>

\* Another program removes the file, writes new data, or the first data again.
Edit(r) ==
  LET same == {k \in Record : Source(k) = Source(r)} IN
  /\ edits < MaxEdits
  /\ edits' = edits + 1
  /\ \E d \in {None, Foreign + edits', Catalog[r].data} \ {Data(r)} :
       file' = [file EXCEPT ![Source(r)] = d]
  /\ mtime' = [k \in Record |-> IF k \in same THEN edits' ELSE mtime[k]]
  /\ torn' = torn \cup {k \in same : \E c \in Command : cmd[c].at = "stat" /\ AtHand(c) = k}
  /\ UNCHANGED <<started, cmd, evidence, made, copied>>

CStep(c) ==
  \/ PlanItem(c) \/ Gate(c) \/ TransferCheck(c) \/ Install(c) \/ Succeed(c)
  \/ Hash(c) \/ RecordEvidence(c) \/ Verified(c) \/ Quit(c)

Origins == {Catalog[r].origin : r \in Record}

CNext ==
  \/ \E c \in Command :
       \/ CStep(c)
       \/ \E o \in Origins, x \in ExtraRoots :
            \/ \E k \in Existing : Begin(c, "archive", o, k, x)
            \/ Begin(c, "organize", o, <<>>, x)
            \/ Begin(c, "verify", o, <<>>, {})
  \/ \E r \in Record : Local(r) /\ Edit(r)

CSpec == CInit /\ [][CNext]_cvars

-----------------------------------------------------------------------------

\* Every variable has its type; a command holds data exactly between its
\* reading and its writing step.
\* A conjunct of AppliedIsPrefix.
CTypeOK ==
  /\ file \in [Path -> {None} \cup (0..Foreign + MaxEdits)]
  /\ mtime \in [Record -> 0..MaxEdits] /\ edits \in 0..MaxEdits
  /\ started \in 0..MaxCommands
  /\ \A c \in Command :
       /\ cmd[c].at \in {"idle", "plan", "apply", "install", "hash", "stat"}
       /\ cmd[c].at \in {"install", "stat"} <=> cmd[c].data # None
       /\ cmd[c].at \in {"install", "stat"} => cmd[c].todo # {}
  /\ made \in [Command -> SUBSET Record] /\ torn \subseteq Record

\* What whoever configures the roots has to see to, for the boundary: the crypt
\* root is not above a place in the raw root.
RootsApart ==
  \A r \in Record : ~IsPrefix(CryptRoot, RawRoot \o <<Classify(r).class, Name(r)>>)

\* For the evidence: no record is copied to the place of another.  Else copystat
\* may give the file that is there from now on the time of the one before.
PlacesApart ==
  \A role \in {"archive", "organize"}, r, k \in Record :
    Destination(role, r) = Source(k) => Source(r) = Source(k)

\* Files of projects and backups: a word of the path says so, wherever it is.
Sensitive(r) == Range(Source(r)) \cap {"projects", "backups"} # {}

\* Whatever a command was given and whatever roots the operator added to the
\* boundary, it neither writes below a protected path nor copies a protected
\* file out to somewhere else; and what it organizes goes below the crypt root
\* exactly if it is of a project or a backup.
BoundaryKept ==
  \A p \in Path : copied[p] # Nobody =>
    /\ \A root \in BuiltinRoots \cup copied[p].roots :
         ~IsPrefix(root, p) /\ ~IsPrefix(root, Source(copied[p].of))
    /\ copied[p].role = "organize" =>
         (IsPrefix(CryptRoot, p) <=> Sensitive(copied[p].of))

\* What a plan has applied is a prefix of its copies: the command stops at the
\* first item that fails, and reports success only when each copy was made.
AppliedIsPrefix ==
  /\ CTypeOK
  /\ \A c \in Command : cmd[c].at \in {"apply", "install"} =>
       made[c] = {r \in Copies(c) : \A k \in cmd[c].todo : r < k}

\* A plan is applied only if no item of it awaits a decision: data of which
\* existing_records say that it is elsewhere is archived only if they name the
\* source itself later in the list, or the source changed after its digest was
\* taken.
NothingKnownArchived ==
  \A p \in Path : copied[p].role = "archive" /\ copied[p].data = copied[p].planned =>
    LET known == copied[p].known IN
    \A k \in DOMAIN known :
      Catalog[known[k]].data = copied[p].data =>
        \E n \in k..Len(known) : Source(known[n]) = Source(copied[p].of)

\* stale_checksum_paths: the file is there, and its mtime or size is another.
Stale == {r \in Record : evidence[r] # NoEvidence /\ Data(r) # None
                           /\ evidence[r].stamp # mtime[r]}

\* Evidence of a file that stale_checksum_paths does not report is the digest of
\* the file as it is, unless the file was edited between the digest and the stat
\* of some run.
FreshEvidenceIsRight ==
  \A r \in Record \ (torn \cup Stale) :
    evidence[r] # NoEvidence /\ Data(r) # None => evidence[r].sha = Data(r)
=============================================================================
