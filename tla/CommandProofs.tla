---------------------------- MODULE CommandProofs ----------------------------
(***************************************************************************)
(* What two groups of commands promise, which share no state.               *)
(*                                                                          *)
(* `td archive`, `td organize` and `td verify` (Curation), for any catalog, *)
(* roots and protected paths, any number of commands and any edits.         *)
(*                                                                          *)
(* `td monitor collect` (Monitoring), for every number of collections, every *)
(* set of levels of the gauges, every bound on the counts and on deaths.    *)
(* Its invariant needs two strengthenings.  The notifications of a          *)
(* fingerprint are bounded on both sides by its events: by those            *)
(* collections that stand between the two, and by the dead that may have    *)
(* stood there.  And a collection that writes its alerts knows of every     *)
(* gauge it read: what is raised and no longer to be written is found.      *)
(***************************************************************************)
EXTENDS Curation, Monitoring, WellFoundedInduction, FiniteSetTheorems, TLAPS

-----------------------------------------------------------------------------
(* Curation: the inductive invariant.                                         *)

Content == {None} \cup (0..(Foreign + MaxEdits))
Role    == {"archive", "organize"}
Given   == {<<>>} \cup Existing
Roots   == {{}} \cup ExtraRoots
Mark    == {"none", "BLOCKED", "DUPLICATE", "NOOP", "CONFLICT", "COPY", "MISSING", "UNVERIFIABLE"}
Progress == [at : {"idle", "plan", "apply", "install", "hash", "stat"},
             role : Role \cup {"none", "verify"}, known : Given, roots : Roots,
             todo : SUBSET Record, verdict : [Record -> Mark],
             sha : [Record -> Content], data : Content]
Copying == [of : Record \cup {0}, role : Role \cup {"none"}, planned : Content,
            data : Content, known : Given, roots : Roots]

Typed ==
  /\ file \in [Path -> Content] /\ edits \in 0..MaxEdits /\ mtime \in [Record -> 0..edits]
  /\ started \in 0..MaxCommands /\ cmd \in [Command -> Progress]
  /\ evidence \in [Record -> [sha : Content, stamp : {None} \cup (0..edits)]]
  /\ made \in [Command -> SUBSET Record] /\ torn \in SUBSET Record
  /\ copied \in [Path -> Copying]

\* What existing_records say of this digest does not name another path.
NotElsewhere(known, sha, r) == KnownAt(known, sha) \in {<<>>, Source(r)}

\* A record was planned as a copy for a reason.
Planned(c, r) ==
  /\ Source(r) # Target(c, r)
  /\ cmd[c].role = "archive" => NotElsewhere(cmd[c].known, cmd[c].sha[r], r)

\* A command holds data between its reading and its writing step; its plan is
\* applied in order; and what it installs was permitted when it was read.
InOrder(c) ==
  /\ cmd[c].at \in {"install", "stat"} <=> cmd[c].data # None
  /\ cmd[c].at \in {"install", "stat"} => cmd[c].todo # {}
  /\ cmd[c].at \in {"plan", "apply", "install"} =>
       cmd[c].role \in Role /\ \A r \in Copies(c) : Planned(c, r)
  /\ cmd[c].at = "plan" => made[c] = {}
  /\ cmd[c].at \in {"apply", "install"} =>
       /\ cmd[c].todo \subseteq Copies(c) /\ made[c] = Copies(c) \ cmd[c].todo
       /\ \A r \in made[c], k \in cmd[c].todo : r < k
  /\ cmd[c].at = "install" => Permitted(c, AtHand(c))

\* What was copied was planned and permitted.
CopyRight(p) == copied[p] # Nobody =>
  /\ copied[p].of \in Record /\ copied[p].role \in Role
  /\ p = Destination(copied[p].role, copied[p].of)
  /\ \A root \in BuiltinRoots \cup copied[p].roots :
       ~IsPrefix(root, p) /\ ~IsPrefix(root, Source(copied[p].of))
  /\ copied[p].role = "archive" =>
       NotElsewhere(copied[p].known, copied[p].planned, copied[p].of)

CurationInv ==
  /\ Typed
  /\ \A c \in Command : InOrder(c)
  /\ \A p \in Path : CopyRight(p)

-----------------------------------------------------------------------------
(* Sets of numbers, constants and paths.                                      *)

LEMMA Least ==
  ASSUME NEW S \in SUBSET Nat, S # {}
  PROVE  \E x \in S : \A y \in S : x <= y
<1>. DEFINE R == {ss \in Nat \X Nat : ss[1] < ss[2]}
<1>1. IsWellFoundedOn(R, Nat)
  BY NatLessThanWellFounded DEF OpToRel
<1>2. PICK x \in S : \A y \in S : <<y, x>> \notin R
  BY <1>1, WFMin
<1>3. \A y \in S : ~(y < x)
  BY <1>2
<1>. QED BY <1>3

LEMMA MinIsLeast ==
  ASSUME NEW S \in SUBSET Nat, S # {}
  PROVE  Min(S) \in S /\ \A y \in S : Min(S) <= y
BY Least DEF Min

LEMMA MaxIsGreatest ==
  ASSUME NEW n \in Nat, NEW S \in SUBSET (1..n), S # {}
  PROVE  Max(S) \in S /\ \A y \in S : Max(S) >= y
<1>. DEFINE T == {n - x : x \in S}
<1>1. T \in SUBSET Nat /\ T # {}
  <2>1. \A x \in S : n - x \in Nat
    OBVIOUS
  <2>2. PICK x \in S : TRUE
    OBVIOUS
  <2>3. n - x \in T
    OBVIOUS
  <2>. QED BY <2>1, <2>3
<1>2. PICK t \in T : \A y \in T : t <= y
  BY <1>1, Least
<1>3. PICK x \in S : t = n - x
  OBVIOUS
<1>4. ASSUME NEW y \in S
      PROVE  x >= y
  <2>1. n - y \in T
    OBVIOUS
  <2>. QED BY <2>1, <1>2, <1>3
<1>5. \E z \in S : \A y \in S : z >= y
  BY <1>4
<1>. QED BY <1>5 DEF Max

LEMMA Constants ==
  /\ MaxCommands \in Nat /\ MaxEdits \in Nat /\ None = -1 /\ Foreign = 100
  /\ None \in Content /\ None \notin 0..(Foreign + MaxEdits)
  /\ Record \subseteq Nat /\ 0 \notin Record
  /\ \A r \in Record : Catalog[r].data \in Content /\ Source(r) \in Seq(STRING) \ {<<>>}
  /\ \A e \in 0..MaxEdits : Foreign + e \in Content
<1>1. /\ Len(Catalog) \in Nat /\ \A r \in Record : Catalog[r] \in CatalogRecord
  BY CurationAssumption DEF Record
<1>2. MaxCommands \in Nat /\ MaxEdits \in Nat
  BY CurationAssumption
<1>3. Record \subseteq Nat /\ 0 \notin Record
  BY <1>1 DEF Record
<1>4. \A e \in 0..MaxEdits : 100 + e \in 0..(100 + MaxEdits)
  BY <1>2
<1>5. \A r \in Record : Catalog[r].data \in 0..99 /\ Source(r) \in Seq(STRING) \ {<<>>}
  BY <1>1 DEF CatalogRecord, Foreign, Source
<1>6. 0..99 \subseteq 0..(100 + MaxEdits)
  BY <1>2
<1>7. None = -1 /\ Foreign = 100 /\ None \in Content /\ None \notin 0..(Foreign + MaxEdits)
  BY <1>2 DEF None, Foreign, Content
<1>8. Content = {-1} \cup (0..(100 + MaxEdits))
  BY DEF Content, None, Foreign
<1>. QED BY <1>2, <1>3, <1>4, <1>5, <1>6, <1>7, <1>8

LEMMA Paths ==
  /\ \A r \in Record : Source(r) \in Path /\ Source(r) # <<>>
  /\ \A role, r : r \in Record => Destination(role, r) \in Path
<1>1. ASSUME NEW r \in Record, NEW role
      PROVE  Destination(role, r) \in Dests
  <2>1. \/ Destination(role, r) = Destination("archive", r)
        \/ Destination(role, r) = Destination("organize", r)
    BY DEF Destination
  <2>. QED BY <2>1 DEF Dests
<1>2. \A r \in Record : Source(r) \in Path /\ Source(r) # <<>>
  BY Constants DEF Path, Sources
<1>. QED BY <1>1, <1>2 DEF Path

LEMMA InvParts ==
  ASSUME CurationInv
  PROVE  /\ Typed /\ (\A c \in Command : InOrder(c)) /\ (\A p \in Path : CopyRight(p))
         /\ \A c \in Command : cmd[c] \in Progress
         /\ \A r \in Record : Data(r) \in Content
BY Paths DEF CurationInv, Typed, Data

LEMMA AtHandFirst ==
  ASSUME CurationInv, NEW c \in Command, cmd[c].todo # {}
  PROVE  /\ AtHand(c) \in cmd[c].todo /\ AtHand(c) \in Record
         /\ \A k \in cmd[c].todo : AtHand(c) <= k
<1>1. cmd[c].todo \in SUBSET Record
  BY InvParts DEF Progress
<1>. QED BY <1>1, Constants, MinIsLeast DEF AtHand

-----------------------------------------------------------------------------
(* A step of one command.                                                     *)

LEMMA OneCommand ==
  ASSUME CurationInv, NEW c \in Command, NEW s \in Progress, NEW m \in SUBSET Record,
         cmd' = [cmd EXCEPT ![c] = s], made' = [made EXCEPT ![c] = m],
         evidence' \in [Record -> [sha : Content, stamp : {None} \cup (0..edits)]],
         started' \in 0..MaxCommands, InOrder(c)',
         UNCHANGED <<file, mtime, edits, copied, torn>>
  PROVE  CurationInv'
<1>1. Typed'
  BY InvParts DEF Typed
<1>2. ASSUME NEW d \in Command
      PROVE  InOrder(d)'
  <2>1. CASE d = c
    BY <2>1
  <2>2. CASE d # c
    <3>1. cmd'[d] = cmd[d] /\ made'[d] = made[d]
      BY <2>2, InvParts DEF Typed
    <3>. QED BY <3>1, InvParts
         DEF InOrder, Copies, Planned, Target, Permitted, Protected, AtHand
  <2>. QED BY <2>1, <2>2
<1>3. \A p \in Path : CopyRight(p)'
  BY InvParts DEF CopyRight
<1>. QED BY <1>1, <1>2, <1>3 DEF CurationInv

LEMMA StopKeeps ==
  ASSUME CurationInv, NEW c \in Command, Stop(c), UNCHANGED <<disk, records>>
  PROVE  CurationInv'
<1>1. Idle \in Progress /\ {} \in SUBSET Record
  BY Constants DEF Idle, Progress, Given, Roots, Mark
<1>2. cmd'[c] = Idle /\ made'[c] = {}
  BY InvParts DEF Stop, Typed
<1>3. InOrder(c)'
  BY <1>2 DEF InOrder, Idle
<1>4. /\ evidence' \in [Record -> [sha : Content, stamp : {None} \cup (0..edits)]]
      /\ started' \in 0..MaxCommands
  BY InvParts DEF records, Typed
<1>. QED BY <1>1, <1>3, <1>4, OneCommand DEF Stop, disk, records

\* A command goes on in a state of the right type.
LEMMA GoOnKeeps ==
  ASSUME CurationInv, NEW c \in Command, NEW s \in Progress, GoOn(c, s),
         evidence' \in [Record -> [sha : Content, stamp : {None} \cup (0..edits)]],
         UNCHANGED <<disk, started, copied, torn>>,
         cmd'[c] = s => InOrder(c)'
  PROVE  CurationInv'
<1>1. cmd' = [cmd EXCEPT ![c] = s] /\ made' = made /\ made' = [made EXCEPT ![c] = made[c]]
  BY InvParts DEF GoOn, Typed
<1>2. cmd'[c] = s /\ made[c] \in SUBSET Record /\ started' \in 0..MaxCommands
  BY <1>1, InvParts DEF Typed
<1>. QED BY <1>1, <1>2, OneCommand DEF disk

LEMMA BeginKeeps ==
  ASSUME CurationInv, NEW c \in Command, NEW role \in Role \cup {"verify"}, NEW o,
         NEW known \in Given, NEW roots \in Roots, Begin(c, role, o, known, roots)
  PROVE  CurationInv'
<1>1. PICK s : s = [Idle EXCEPT
       !.at = IF role = "verify" THEN "hash" ELSE "plan",
       !.role = role, !.known = known, !.roots = roots,
       !.todo = {r \in Record : Catalog[r].origin = o}]
  OBVIOUS
<1>2. /\ s.at = IF role = "verify" THEN "hash" ELSE "plan"
      /\ s.role = role /\ s.data = None /\ s.verdict = [r \in Record |-> "none"]
  BY <1>1 DEF Idle
<1>3. s \in Progress
  BY <1>1, Constants DEF Idle, Progress, Mark
<1>4. /\ cmd' = [cmd EXCEPT ![c] = s] /\ made' = [made EXCEPT ![c] = {}]
      /\ started' = started + 1 /\ started < MaxCommands
      /\ UNCHANGED <<file, mtime, edits, evidence, copied, torn>>
  BY <1>1 DEF Begin
<1>5. cmd'[c] = s /\ made'[c] = {}
  BY <1>4, InvParts DEF Typed
<1>6. Copies(c)' = {}
  BY <1>2, <1>5 DEF Copies
<1>7. InOrder(c)'
  BY <1>2, <1>5, <1>6 DEF InOrder
<1>8. /\ evidence' \in [Record -> [sha : Content, stamp : {None} \cup (0..edits)]]
      /\ started' \in 0..MaxCommands
  BY <1>4, Constants, InvParts DEF Typed
<1>9. {} \in SUBSET Record
  OBVIOUS
<1>. QED BY <1>3, <1>4, <1>7, <1>8, <1>9, OneCommand

\* A verdict on record r; one to copy has its reason.
LEMMA JudgeKeeps ==
  ASSUME CurationInv, NEW c \in Command, NEW r \in Record, NEW v \in Mark, NEW digest \in Content,
         cmd[c].at \in {"plan", "hash"}, Judge(c, r, v, digest), UNCHANGED <<disk, records>>,
         cmd[c].at = "plan" /\ v = "COPY" =>
           /\ Source(r) # Target(c, r)
           /\ cmd[c].role = "archive" => NotElsewhere(cmd[c].known, digest, r)
  PROVE  CurationInv'
<1>1. PICK s : s = [cmd[c] EXCEPT !.todo = @ \ {r}, !.verdict[r] = v, !.sha[r] = digest]
  OBVIOUS
<1>2. cmd[c] \in Progress /\ InOrder(c)
  BY InvParts
<1>3. /\ s \in Progress /\ s.at = cmd[c].at /\ s.role = cmd[c].role /\ s.known = cmd[c].known
      /\ s.data = cmd[c].data
      /\ s.verdict[r] = v /\ s.sha[r] = digest
      /\ \A k \in Record \ {r} : s.verdict[k] = cmd[c].verdict[k] /\ s.sha[k] = cmd[c].sha[k]
  BY <1>1, <1>2 DEF Progress
<1>4. GoOn(c, s)
  BY <1>1 DEF Judge
<1>5. made' = made
  BY <1>4 DEF GoOn
<1>6. ASSUME cmd'[c] = s
      PROVE  InOrder(c)'
  <2>1. ASSUME NEW k \in Copies(c)', cmd[c].at = "plan"
        PROVE  Planned(c, k)'
    <3>1. k \in Record /\ s.verdict[k] = "COPY"
      BY <1>6 DEF Copies
    <3>2. CASE k = r
      BY <3>1, <3>2, <2>1, <1>3, <1>6 DEF Planned, Target
    <3>3. CASE k # r
      <4>1. k \in Copies(c)
        BY <3>1, <3>3, <1>3 DEF Copies
      <4>2. Planned(c, k)
        BY <4>1, <2>1, <1>2 DEF InOrder
      <4>. QED BY <4>2, <3>1, <3>3, <1>3, <1>6 DEF Planned, Target
    <3>. QED BY <3>2, <3>3
  <2>2. cmd'[c].at \in {"plan", "hash"} /\ cmd'[c].data = None
    BY <1>2, <1>3, <1>6 DEF InOrder
  <2>. QED BY <2>1, <2>2, <1>2, <1>3, <1>5, <1>6 DEF InOrder
<1>7. evidence' \in [Record -> [sha : Content, stamp : {None} \cup (0..edits)]]
  BY InvParts DEF records, Typed
<1>. QED BY <1>3, <1>4, <1>6, <1>7, GoOnKeeps DEF disk, records

LEMMA PlanItemKeeps ==
  ASSUME CurationInv, NEW c \in Command, PlanItem(c)
  PROVE  CurationInv'
<1>. DEFINE r == AtHand(c)
<1>1. r \in Record /\ cmd[c].at = "plan" /\ UNCHANGED <<disk, records>>
  BY AtHandFirst DEF PlanItem
<1>2. Data(r) \in Content /\ None \in Content
  BY <1>1, InvParts, Constants
<1>3. CASE cmd[c].role = "archive"
  <2>1. Judge(c, r, ArchiveVerdict(c, r), Data(r))
    BY <1>3 DEF PlanItem
  <2>2. ArchiveVerdict(c, r) \in Mark
    BY DEF ArchiveVerdict, Mark
  <2>3. ArchiveVerdict(c, r) = "COPY" =>
          Source(r) # Target(c, r) /\ NotElsewhere(cmd[c].known, Data(r), r)
    BY DEF ArchiveVerdict, NotElsewhere
  <2>. QED BY <2>1, <2>2, <2>3, <1>1, <1>2, JudgeKeeps
<1>4. CASE cmd[c].role # "archive"
  <2>1. Judge(c, r, OrganizeVerdict(c, r), None)
    BY <1>4 DEF PlanItem
  <2>2. OrganizeVerdict(c, r) \in Mark
    BY DEF OrganizeVerdict, Mark
  <2>3. OrganizeVerdict(c, r) = "COPY" => Source(r) # Target(c, r)
    BY DEF OrganizeVerdict
  <2>. QED BY <2>1, <2>2, <2>3, <1>1, <1>2, <1>4, JudgeKeeps
<1>. QED BY <1>3, <1>4

LEMMA GateKeeps ==
  ASSUME CurationInv, NEW c \in Command, Gate(c)
  PROVE  CurationInv'
<1>1. CASE Verdicts(c) \cap {"BLOCKED", "CONFLICT", "DUPLICATE"} # {}
  BY <1>1, StopKeeps DEF Gate
<1>2. CASE Verdicts(c) \cap {"BLOCKED", "CONFLICT", "DUPLICATE"} = {}
  <2>1. PICK s : s = [cmd[c] EXCEPT !.at = "apply", !.todo = Copies(c)]
    OBVIOUS
  <2>2. GoOn(c, s) /\ cmd[c].at = "plan" /\ UNCHANGED <<disk, records>>
    BY <1>2, <2>1 DEF Gate
  <2>3. cmd[c] \in Progress /\ InOrder(c)
    BY InvParts
  <2>4. /\ s \in Progress /\ s.at = "apply" /\ s.role = cmd[c].role /\ s.known = cmd[c].known
        /\ s.data = cmd[c].data /\ s.verdict = cmd[c].verdict /\ s.sha = cmd[c].sha
        /\ s.todo = Copies(c)
    BY <2>1, <2>3 DEF Progress, Copies
  <2>5. ASSUME cmd'[c] = s
        PROVE  InOrder(c)'
    <3>1. Copies(c)' = Copies(c) /\ made'[c] = {}
      BY <2>2, <2>3, <2>4, <2>5 DEF Copies, GoOn, InOrder
    <3>2. \A k \in Copies(c) : Planned(c, k)'
      BY <2>2, <2>3, <2>4, <2>5 DEF InOrder, Planned, Target
    <3>. QED BY <3>1, <3>2, <2>2, <2>3, <2>4, <2>5 DEF InOrder
  <2>6. evidence' \in [Record -> [sha : Content, stamp : {None} \cup (0..edits)]]
    BY <2>2, InvParts DEF records, Typed
  <2>. QED BY <2>2, <2>4, <2>5, <2>6, GoOnKeeps DEF disk, records
<1>. QED BY <1>1, <1>2

LEMMA TransferCheckKeeps ==
  ASSUME CurationInv, NEW c \in Command, TransferCheck(c)
  PROVE  CurationInv'
<1>1. CASE ~Transferable(c, AtHand(c))
  BY <1>1, StopKeeps DEF TransferCheck
<1>2. CASE Transferable(c, AtHand(c))
  <2>1. PICK s : s = [cmd[c] EXCEPT !.at = "install", !.data = Data(AtHand(c))]
    OBVIOUS
  <2>2. /\ GoOn(c, s) /\ cmd[c].at = "apply" /\ cmd[c].todo # {}
        /\ UNCHANGED <<disk, records>>
    BY <1>2, <2>1 DEF TransferCheck
  <2>3. /\ cmd[c] \in Progress /\ InOrder(c)
        /\ Data(AtHand(c)) \in Content /\ Data(AtHand(c)) # None /\ Permitted(c, AtHand(c))
    BY <1>2, <2>2, InvParts, AtHandFirst DEF Transferable
  <2>4. /\ s \in Progress /\ s.at = "install" /\ s.role = cmd[c].role /\ s.known = cmd[c].known
        /\ s.roots = cmd[c].roots /\ s.verdict = cmd[c].verdict /\ s.sha = cmd[c].sha
        /\ s.todo = cmd[c].todo /\ s.data # None
    BY <2>1, <2>3 DEF Progress
  <2>5. ASSUME cmd'[c] = s
        PROVE  InOrder(c)'
    <3>1. Copies(c)' = Copies(c) /\ made'[c] = made[c] /\ AtHand(c)' = AtHand(c)
      BY <2>2, <2>4, <2>5 DEF Copies, GoOn, AtHand
    <3>2. \A k \in Copies(c) : Planned(c, k)'
      BY <2>2, <2>3, <2>4, <2>5 DEF InOrder, Planned, Target
    <3>3. Permitted(c, AtHand(c))'
      BY <3>1, <2>3, <2>4, <2>5 DEF Permitted, Protected, Target
    <3>. QED BY <3>1, <3>2, <3>3, <2>2, <2>3, <2>4, <2>5 DEF InOrder
  <2>6. evidence' \in [Record -> [sha : Content, stamp : {None} \cup (0..edits)]]
    BY <2>2, InvParts DEF records, Typed
  <2>. QED BY <2>2, <2>4, <2>5, <2>6, GoOnKeeps DEF disk, records
<1>. QED BY <1>1, <1>2

LEMMA HashKeeps ==
  ASSUME CurationInv, NEW c \in Command, Hash(c)
  PROVE  CurationInv'
<1>1. /\ cmd[c].at = "hash" /\ cmd[c].todo # {} /\ UNCHANGED <<disk, records>>
      /\ AtHand(c) \in Record /\ cmd[c] \in Progress /\ InOrder(c)
  BY AtHandFirst, InvParts DEF Hash
<1>2. CASE Judge(c, AtHand(c), "MISSING", None) \/ Judge(c, AtHand(c), "UNVERIFIABLE", None)
  <2>1. {"MISSING", "UNVERIFIABLE"} \subseteq Mark /\ None \in Content
    BY Constants DEF Mark
  <2>. QED BY <2>1, <1>1, <1>2, JudgeKeeps
<1>3. CASE Data(AtHand(c)) # None /\ GoOn(c, [cmd[c] EXCEPT !.at = "stat", !.data = Data(AtHand(c))])
  <2>1. PICK s : s = [cmd[c] EXCEPT !.at = "stat", !.data = Data(AtHand(c))]
    OBVIOUS
  <2>2. Data(AtHand(c)) \in Content
    BY <1>1, InvParts
  <2>3. s \in Progress /\ s.at = "stat" /\ s.data # None /\ s.todo = cmd[c].todo
    BY <2>1, <2>2, <1>1, <1>3 DEF Progress
  <2>4. cmd'[c] = s => InOrder(c)'
    BY <2>3, <1>1 DEF InOrder
  <2>5. evidence' \in [Record -> [sha : Content, stamp : {None} \cup (0..edits)]]
    BY <1>1, InvParts DEF records, Typed
  <2>. QED BY <2>1, <2>3, <2>4, <2>5, <1>1, <1>3, GoOnKeeps DEF disk, records
<1>. QED BY <1>2, <1>3 DEF Hash

LEMMA RecordEvidenceKeeps ==
  ASSUME CurationInv, NEW c \in Command, RecordEvidence(c)
  PROVE  CurationInv'
<1>. DEFINE r == AtHand(c)
<1>1. PICK s : s = [cmd[c] EXCEPT !.at = "hash", !.todo = @ \ {r}, !.data = None]
  OBVIOUS
<1>2. /\ GoOn(c, s) /\ UNCHANGED <<disk, started, copied, torn>> /\ cmd[c].at = "stat"
      /\ evidence' = [evidence EXCEPT ![r] = [sha |-> cmd[c].data, stamp |-> mtime[r]]]
  BY <1>1 DEF RecordEvidence
<1>3. cmd[c] \in Progress /\ InOrder(c) /\ cmd[c].todo # {} /\ r \in Record
  BY <1>2, InvParts, AtHandFirst DEF InOrder
<1>4. s \in Progress /\ s.at = "hash" /\ s.data = None
  BY <1>1, <1>3, Constants DEF Progress
<1>5. cmd'[c] = s => InOrder(c)'
  BY <1>4 DEF InOrder
<1>6. evidence' \in [Record -> [sha : Content, stamp : {None} \cup (0..edits)]]
  BY <1>2, <1>3, InvParts DEF Typed, Progress
<1>. QED BY <1>2, <1>4, <1>5, <1>6, GoOnKeeps

LEMMA InstallKeeps ==
  ASSUME CurationInv, NEW c \in Command, Install(c)
  PROVE  CurationInv'
<1>1. PICK r : r = AtHand(c)
  OBVIOUS
<1>2. PICK t : t = Target(c, r)
  OBVIOUS
<1>3. PICK e : e = [of |-> r, role |-> cmd[c].role, planned |-> cmd[c].sha[r], data |-> cmd[c].data,
                    known |-> cmd[c].known, roots |-> cmd[c].roots]
  OBVIOUS
<1>4. PICK s : s = [cmd[c] EXCEPT !.at = "apply", !.todo = cmd[c].todo \ {r}, !.data = None]
  OBVIOUS
<1>5. cmd[c] \in Progress /\ InOrder(c) /\ cmd \in [Command -> Progress]
  BY InvParts DEF Typed
<1>6. /\ cmd[c].at = "install" /\ file' = [file EXCEPT ![t] = cmd[c].data]
      /\ mtime' = [k \in Record |-> IF Source(k) = t THEN mtime[r] ELSE mtime[k]]
      /\ copied' = [copied EXCEPT ![t] = e] /\ made' = [made EXCEPT ![c] = @ \cup {r}]
      /\ UNCHANGED <<edits, started, evidence, torn>>
  BY <1>1, <1>2, <1>3 DEF Install
<1>7. cmd' = [cmd EXCEPT ![c] = s]
  BY <1>1, <1>4, <1>5 DEF Install, Progress
<1>8. /\ cmd[c].todo # {} /\ r \in cmd[c].todo /\ r \in Record
      /\ \A k \in cmd[c].todo : r <= k
  BY <1>1, <1>5, <1>6, AtHandFirst DEF InOrder
<1>9. /\ cmd[c].role \in Role /\ cmd[c].todo \subseteq Copies(c)
      /\ made[c] = Copies(c) \ cmd[c].todo /\ \A x \in made[c], k \in cmd[c].todo : x < k
      /\ \A k \in Copies(c) : Planned(c, k)
      /\ Permitted(c, r)
  BY <1>1, <1>5, <1>6 DEF InOrder
<1>10. /\ s \in Progress /\ s.at = "apply" /\ s.role = cmd[c].role /\ s.known = cmd[c].known
       /\ s.verdict = cmd[c].verdict /\ s.sha = cmd[c].sha
       /\ s.todo = cmd[c].todo \ {r} /\ s.data = None
  BY <1>4, <1>5, Constants DEF Progress
<1>11. t \in Path /\ e \in Copying
  <2>1. t \in Path
    BY <1>2, <1>8, Paths DEF Target
  <2>2. e \in Copying
    BY <1>3, <1>5, <1>8, <1>9 DEF Copying, Progress
  <2>. QED BY <2>1, <2>2
<1>12. cmd'[c] = s /\ made'[c] = made[c] \cup {r} /\ \A d \in Command \ {c} :
         cmd'[d] = cmd[d] /\ made'[d] = made[d]
  BY <1>6, <1>7, InvParts DEF Typed
<1>13. Typed'
  <2>1. file' \in [Path -> Content]
    BY <1>5, <1>6, <1>11, InvParts DEF Typed, Progress
  <2>2. mtime' \in [Record -> 0..edits']
    BY <1>6, <1>8, InvParts DEF Typed
  <2>3. cmd' \in [Command -> Progress] /\ made' \in [Command -> SUBSET Record]
    BY <1>6, <1>7, <1>8, <1>10, InvParts DEF Typed
  <2>4. copied' \in [Path -> Copying]
    BY <1>6, <1>11, InvParts DEF Typed
  <2>. QED BY <2>1, <2>2, <2>3, <2>4, <1>6, InvParts DEF Typed
<1>14. ASSUME NEW d \in Command
       PROVE  InOrder(d)'
  <2>1. CASE d = c
    <3>1. Copies(c)' = Copies(c) /\ Copies(c) \subseteq Nat
      BY <1>10, <1>12, Constants DEF Copies
    <3>2. \A k \in Copies(c) : Planned(c, k)'
      BY <1>9, <1>10, <1>12 DEF Planned, Target
    <3>3. made'[c] = Copies(c) \ s.todo
      BY <1>8, <1>9, <1>10, <1>12
    <3>4. \A x \in made'[c], k \in s.todo : x < k
      BY <1>8, <1>9, <1>10, <1>12, <3>1
    <3>5. s.todo \subseteq Copies(c)
      BY <1>9, <1>10
    <3>6. InOrder(c)'
      BY <3>1, <3>2, <3>3, <3>4, <3>5, <1>9, <1>10, <1>12 DEF InOrder
    <3>. QED BY <2>1, <3>6
  <2>2. CASE d # c
    <3>1. cmd'[d] = cmd[d] /\ made'[d] = made[d]
      BY <2>2, <1>12
    <3>. QED BY <3>1, InvParts
         DEF InOrder, Copies, Planned, Target, Permitted, Protected, AtHand
  <2>. QED BY <2>1, <2>2
<1>15. ASSUME NEW p \in Path
       PROVE  CopyRight(p)'
  <2>1. CASE p = t
    <3>1. copied'[p] = e
      BY <2>1, <1>6, <1>11, InvParts DEF Typed
    <3>2. /\ e.of = r /\ e.role = cmd[c].role /\ e.planned = cmd[c].sha[r]
          /\ e.known = cmd[c].known /\ e.roots = cmd[c].roots
      BY <1>3
    <3>3. p = Destination(e.role, e.of)
      BY <3>2, <2>1, <1>2 DEF Target
    <3>4. \A root \in BuiltinRoots \cup e.roots : ~IsPrefix(root, p) /\ ~IsPrefix(root, Source(r))
      BY <3>2, <2>1, <1>2, <1>9 DEF Permitted, Protected
    <3>5. e.role = "archive" => NotElsewhere(e.known, e.planned, r)
      BY <3>2, <1>8, <1>9 DEF Planned
    <3>. QED BY <3>1, <3>2, <3>3, <3>4, <3>5, <1>8, <1>9 DEF CopyRight
  <2>2. CASE p # t
    <3>1. copied'[p] = copied[p]
      BY <2>2, <1>6, <1>11, InvParts DEF Typed
    <3>. QED BY <3>1, InvParts DEF CopyRight
  <2>. QED BY <2>1, <2>2
<1>. QED BY <1>13, <1>14, <1>15 DEF CurationInv

LEMMA EditKeeps ==
  ASSUME CurationInv, NEW r \in Record, Edit(r)
  PROVE  CurationInv'
<1>1. /\ edits' = edits + 1 /\ edits < MaxEdits /\ edits \in Nat /\ edits' \in 0..MaxEdits
      /\ UNCHANGED <<started, cmd, evidence, made, copied>>
  BY Constants, InvParts DEF Edit, Typed
<1>2. PICK d \in {None, Foreign + edits', Catalog[r].data} : file' = [file EXCEPT ![Source(r)] = d]
  BY DEF Edit
<1>3. d \in Content
  BY <1>1, <1>2, Constants
<1>4. file' \in [Path -> Content]
  BY <1>2, <1>3, Paths, InvParts DEF Typed
<1>5. mtime' \in [Record -> 0..edits']
  <2>1. \A k \in Record : mtime[k] \in 0..edits' /\ edits' \in 0..edits'
    BY <1>1, InvParts DEF Typed
  <2>. QED BY <2>1 DEF Edit
<1>6. torn' \in SUBSET Record
  BY InvParts DEF Edit, Typed
<1>7. evidence \in [Record -> [sha : Content, stamp : {None} \cup (0..edits')]]
  <2>1. {None} \cup (0..edits) \subseteq {None} \cup (0..edits')
    BY <1>1
  <2>. QED BY <2>1, InvParts DEF Typed
<1>8. Typed'
  BY <1>1, <1>4, <1>5, <1>6, <1>7, InvParts DEF Typed
<1>9. \A c \in Command : InOrder(c)'
  BY <1>1, InvParts DEF InOrder, Copies, Planned, Target, Permitted, Protected, AtHand
<1>10. \A p \in Path : CopyRight(p)'
  BY <1>1, InvParts DEF CopyRight
<1>. QED BY <1>8, <1>9, <1>10 DEF CurationInv

-----------------------------------------------------------------------------
(* The commands together.                                                     *)

LEMMA InitCurationInv == CInit => CurationInv
<1>. SUFFICES ASSUME CInit PROVE CurationInv
  OBVIOUS
<1>1. \A c \in Command : cmd[c] = Idle /\ made[c] = {}
  BY DEF CInit
<1>2. \A p \in Path : copied[p] = Nobody
  BY DEF CInit
<1>3. Typed
  <2>1. PICK there \in SUBSET Occupied :
          file = [p \in Path |->
                   IF \E r \in Record : Local(r) /\ Source(r) = p
                   THEN Catalog[CHOOSE r \in Record : Source(r) = p].data
                   ELSE IF p \in there THEN Foreign ELSE None]
    BY DEF CInit
  <2>2. Foreign \in Content
    BY Constants DEF Content
  <2>3. \A p \in Path : (\E r \in Record : Source(r) = p) =>
          (CHOOSE r \in Record : Source(r) = p) \in Record
    OBVIOUS
  <2>4. ASSUME NEW p \in Path
        PROVE  file[p] \in Content
    <3>1. CASE \E r \in Record : Local(r) /\ Source(r) = p
      BY <3>1, <2>1, <2>3, Constants
    <3>2. CASE ~\E r \in Record : Local(r) /\ Source(r) = p
      BY <3>2, <2>1, <2>2, Constants
    <3>. QED BY <3>1, <3>2
  <2>5. file \in [Path -> Content]
    BY <2>1, <2>4
  <2>6. Idle \in Progress /\ NoEvidence \in [sha : Content, stamp : {None} \cup (0..edits)]
    BY Constants DEF Idle, Progress, Given, Roots, Mark, NoEvidence
  <2>7. Nobody \in Copying
    BY Constants DEF Nobody, Copying, Given, Roots
  <2>. QED BY <2>5, <2>6, <2>7, Constants DEF CInit, Typed
<1>4. \A c \in Command : InOrder(c)
  BY <1>1 DEF InOrder, Idle
<1>5. \A p \in Path : CopyRight(p)
  BY <1>2 DEF CopyRight
<1>. QED BY <1>3, <1>4, <1>5 DEF CurationInv

LEMMA CStepKeeps ==
  ASSUME CurationInv, NEW c \in Command, CStep(c)
  PROVE  CurationInv'
BY PlanItemKeeps, GateKeeps, TransferCheckKeeps, InstallKeeps, HashKeeps, RecordEvidenceKeeps,
   StopKeeps DEF CStep, Succeed, Verified, Quit

LEMMA NextCurationInv == CurationInv /\ [CNext]_cvars => CurationInv'
<1>. SUFFICES ASSUME CurationInv, [CNext]_cvars PROVE CurationInv'
  OBVIOUS
<1>1. CASE \E c \in Command : CStep(c)
  BY <1>1, CStepKeeps
<1>2. ASSUME NEW c \in Command, NEW o \in Origins, NEW x \in ExtraRoots,
             \/ \E k \in Existing : Begin(c, "archive", o, k, x)
             \/ Begin(c, "organize", o, <<>>, x)
             \/ Begin(c, "verify", o, <<>>, {})
      PROVE  CurationInv'
  <2>1. <<>> \in Given /\ {} \in Roots /\ x \in Roots /\ \A k \in Existing : k \in Given
    BY DEF Given, Roots
  <2>2. {"archive", "organize", "verify"} \subseteq Role \cup {"verify"}
    BY DEF Role
  <2>. QED BY <2>1, <2>2, <1>2, BeginKeeps
<1>3. CASE \E r \in Record : Local(r) /\ Edit(r)
  BY <1>3, EditKeeps
<1>4. CASE UNCHANGED cvars
  <2>1. UNCHANGED <<file, mtime, edits, started, evidence, copied, torn, cmd, made>>
    BY <1>4 DEF cvars, disk, records
  <2>. QED BY <2>1, InvParts DEF CurationInv, Typed, InOrder, Copies, Planned, Target, Permitted,
                               Protected, AtHand, CopyRight
<1>. QED BY <1>1, <1>2, <1>3, <1>4 DEF CNext

\* archive, organize and verify keep their invariant in every interleaving with
\* each other and with the programs that edit and remove their files.
THEOREM CurationInvariance == CSpec => []CurationInv
BY InitCurationInv, NextCurationInv, PTL DEF CSpec

LEMMA InvPrefix == CurationInv => AppliedIsPrefix
<1>. SUFFICES ASSUME CurationInv PROVE AppliedIsPrefix
  OBVIOUS
<1>1. ASSUME NEW c \in Command
      PROVE  /\ cmd[c].at \in {"idle", "plan", "apply", "install", "hash", "stat"}
             /\ cmd[c].at \in {"install", "stat"} <=> cmd[c].data # None
             /\ cmd[c].at \in {"install", "stat"} => cmd[c].todo # {}
  BY InvParts DEF Progress, InOrder
<1>2. mtime \in [Record -> 0..MaxEdits] /\ edits \in 0..MaxEdits /\ started \in 0..MaxCommands
  BY Constants, InvParts DEF Typed
<1>3. CTypeOK
  BY <1>1, <1>2, InvParts DEF CTypeOK, Typed, Content
<1>4. ASSUME NEW c \in Command, cmd[c].at \in {"apply", "install"}
      PROVE  made[c] = {r \in Copies(c) : \A k \in cmd[c].todo : r < k}
  <2>1. /\ cmd[c].todo \subseteq Copies(c) /\ made[c] = Copies(c) \ cmd[c].todo
        /\ \A r \in made[c], k \in cmd[c].todo : r < k
    BY <1>4, InvParts DEF InOrder
  <2>2. Copies(c) \subseteq Nat
    BY Constants DEF Copies
  <2>3. \A r \in Copies(c) : r \in cmd[c].todo => ~(r < r)
    BY <2>2
  <2>. QED BY <2>1, <2>3
<1>. QED BY <1>3, <1>4 DEF AppliedIsPrefix

\* For any catalog and any number of commands: a plan is applied in its order
\* up to the first failure, and success means that all of it was.
THEOREM PlansAreAppliedInOrder == CSpec => []AppliedIsPrefix
BY CurationInvariance, InvPrefix, PTL

\* Of the known records of one digest, the last is the one that counts.
LEMMA KnownIsLast ==
  ASSUME NEW known \in Seq(Record), NEW data, NEW k \in DOMAIN known,
         Catalog[known[k]].data = data
  PROVE  \E n \in k..Len(known) : KnownAt(known, data) = Source(known[n])
<1>. DEFINE I == {i \in 1..Len(known) : Catalog[known[i]].data = data}
<1>1. Len(known) \in Nat /\ k \in I /\ I \in SUBSET (1..Len(known))
  OBVIOUS
<1>2. Max(I) \in I /\ Max(I) >= k
  BY <1>1, MaxIsGreatest
<1>3. SelectLastInSeq(known, LAMBDA x : Catalog[x].data = data) = Max(I)
  BY <1>1 DEF SelectLastInSeq
<1>4. Max(I) \in k..Len(known) /\ Max(I) # 0
  BY <1>1, <1>2
<1>. HIDE DEF I
<1>5. KnownAt(known, data) = Source(known[Max(I)])
  BY <1>3, <1>4 DEF KnownAt
<1>. QED BY <1>4, <1>5

LEMMA InvKnown == CurationInv => NothingKnownArchived
<1>. SUFFICES ASSUME CurationInv, NEW p \in Path, copied[p].role = "archive",
                     copied[p].data = copied[p].planned,
                     NEW k \in DOMAIN copied[p].known,
                     Catalog[copied[p].known[k]].data = copied[p].data
              PROVE  \E n \in k..Len(copied[p].known) :
                       Source(copied[p].known[n]) = Source(copied[p].of)
  BY DEF NothingKnownArchived
<1>1. copied[p] # Nobody /\ copied[p] \in Copying
  BY InvParts DEF Nobody, Typed
<1>2. copied[p].known \in Seq(Record)
  <2>1. copied[p].known \in Given
    BY <1>1 DEF Copying
  <2>2. <<>> \in Seq(Record)
    OBVIOUS
  <2>. QED BY <2>1, <2>2, CurationAssumption DEF Given
<1>3. PICK n \in k..Len(copied[p].known) :
        KnownAt(copied[p].known, copied[p].planned) = Source(copied[p].known[n])
  BY <1>2, KnownIsLast
<1>4. KnownAt(copied[p].known, copied[p].planned) \in {<<>>, Source(copied[p].of)}
  BY <1>1, InvParts DEF CopyRight, NotElsewhere
<1>5. copied[p].known[n] \in Record
  BY <1>2, <1>3
<1>6. Source(copied[p].known[n]) # <<>>
  BY <1>5, Paths
<1>. QED BY <1>3, <1>4, <1>6

\* For any catalog and any existing_records: what they place elsewhere is not
\* archived, but for the two exceptions that the property names.
THEOREM KnownIsNotArchived == CSpec => []NothingKnownArchived
BY CurationInvariance, InvKnown, PTL

-----------------------------------------------------------------------------
(* The boundary.                                                              *)

\* A rule of projects or backups comes before every other.
LEMMA SensitiveIsCrypt ==
  ASSUME NEW r \in Record
  PROVE  Sensitive(r) <=> Classify(r).storage = "CRYPT"
<1>1. /\ DOMAIN Rules = 1..4
      /\ Rules[1].segment = "projects" /\ Rules[2].segment = "backups"
      /\ Rules[1].storage = "CRYPT" /\ Rules[2].storage = "CRYPT"
      /\ Rules[3].storage = "RAW" /\ Rules[4].storage = "RAW"
  BY DEF Rules
<1>2. Matching(r) \subseteq 1..4 /\ Matching(r) \in SUBSET Nat
  BY <1>1 DEF Matching
<1>3. 1 \in Matching(r) \/ 2 \in Matching(r) <=> Sensitive(r)
  BY <1>1 DEF Matching, Sensitive, Range
<1>4. CASE Matching(r) = {}
  <2>1. Classify(r).storage = "RAW"
    BY <1>4 DEF Classify
  <2>. QED BY <2>1, <1>3, <1>4
<1>5. CASE Matching(r) # {}
  <2>1. Classify(r).storage = Rules[Min(Matching(r))].storage
    BY <1>5 DEF Classify, PathRule
  <2>2. Min(Matching(r)) \in Matching(r) /\ \A y \in Matching(r) : Min(Matching(r)) <= y
    BY <1>2, <1>5, MinIsLeast
  <2>3. Sensitive(r) <=> Min(Matching(r)) \in {1, 2}
    BY <2>2, <1>2, <1>3
  <2>4. Min(Matching(r)) \in {1, 2, 3, 4}
    BY <2>2, <1>2
  <2>. QED BY <2>1, <2>3, <2>4, <1>1
<1>. QED BY <1>4, <1>5

LEMMA InvBoundary ==
  ASSUME CurationInv, RootsApart
  PROVE  BoundaryKept
<1>. SUFFICES ASSUME NEW p \in Path, copied[p] # Nobody
              PROVE  /\ \A root \in BuiltinRoots \cup copied[p].roots :
                          ~IsPrefix(root, p) /\ ~IsPrefix(root, Source(copied[p].of))
                     /\ copied[p].role = "organize" =>
                          (IsPrefix(CryptRoot, p) <=> Sensitive(copied[p].of))
  BY DEF BoundaryKept
<1>. DEFINE r == copied[p].of
<1>1. /\ r \in Record /\ p = Destination(copied[p].role, r)
      /\ \A root \in BuiltinRoots \cup copied[p].roots :
           ~IsPrefix(root, p) /\ ~IsPrefix(root, Source(r))
  BY InvParts DEF CopyRight
<1>2. CASE copied[p].role = "organize" /\ Classify(r).storage = "CRYPT"
  <2>1. p = CryptRoot \o <<Classify(r).class, Name(r)>>
    BY <1>1, <1>2 DEF Destination
  <2>2. ASSUME NEW x, NEW y
        PROVE  IsPrefix(CryptRoot, CryptRoot \o <<x, y>>)
    BY CurationAssumption DEF IsPrefix
  <2>. QED BY <2>1, <2>2, <1>1, <1>2, SensitiveIsCrypt
<1>3. CASE copied[p].role = "organize" /\ Classify(r).storage # "CRYPT"
  <2>1. p = RawRoot \o <<Classify(r).class, Name(r)>>
    BY <1>1, <1>3 DEF Destination
  <2>. QED BY <2>1, <1>1, <1>3, SensitiveIsCrypt DEF RootsApart
<1>. QED BY <1>1, <1>2, <1>3

\* For any catalog, any protected roots, and any roots of the operator's whose
\* crypt root is not above the raw places: no command writes below a protected
\* path or copies from below one, and projects and backups, and nothing else, are
\* organized below the crypt root.
THEOREM BoundaryIsKept ==
  ASSUME RootsApart
  PROVE  CSpec => []BoundaryKept
<1>1. CurationInv => BoundaryKept
  BY InvBoundary
<1>. QED BY <1>1, CurationInvariance, PTL

-----------------------------------------------------------------------------
(* Evidence.                                                                  *)

EvidenceRight ==
  /\ \A r \in Record \ torn :
       evidence[r] # NoEvidence /\ evidence[r].stamp = mtime[r] /\ Data(r) # None =>
         evidence[r].sha = Data(r)
  /\ \A c \in Command : cmd[c].at = "stat" /\ AtHand(c) \notin torn =>
       cmd[c].data = Data(AtHand(c))

\* Nothing happens to the files and the evidence, and no command has just read.
LEMMA EvidenceStays ==
  ASSUME EvidenceRight, UNCHANGED <<disk, evidence, torn>>,
         \A c \in Command : cmd'[c].at = "stat" => cmd'[c] = cmd[c]
  PROVE  EvidenceRight'
BY DEF EvidenceRight, disk, Data, AtHand

\* One command moves on to a state other than stat.
LEMMA OthersStay ==
  ASSUME CurationInv, EvidenceRight, UNCHANGED <<disk, evidence, torn>>, NEW c \in Command, NEW s,
         cmd' = [cmd EXCEPT ![c] = s], s.at # "stat"
  PROVE  EvidenceRight'
<1>1. cmd'[c] = s /\ \A d \in Command \ {c} : cmd'[d] = cmd[d]
  BY InvParts DEF Typed
<1>. QED BY <1>1, EvidenceStays

LEMMA JudgeEvidence ==
  ASSUME CurationInv, EvidenceRight, UNCHANGED <<disk, records>>, NEW c \in Command,
         NEW r, NEW v, NEW digest, cmd[c].at # "stat", Judge(c, r, v, digest)
  PROVE  EvidenceRight'
<1>1. PICK s : s = [cmd[c] EXCEPT !.todo = @ \ {r}, !.verdict[r] = v, !.sha[r] = digest]
  OBVIOUS
<1>2. s.at = cmd[c].at
  BY <1>1, InvParts DEF Progress
<1>. QED BY <1>1, <1>2, OthersStay DEF Judge, GoOn, records

LEMMA StopEvidence ==
  ASSUME CurationInv, EvidenceRight, UNCHANGED <<disk, records>>, NEW c \in Command, Stop(c)
  PROVE  EvidenceRight'
<1>1. Idle.at # "stat"
  BY DEF Idle
<1>. QED BY <1>1, OthersStay DEF Stop, records

LEMMA BeginEvidence ==
  ASSUME CurationInv, EvidenceRight, NEW c \in Command, NEW role, NEW o, NEW known, NEW roots,
         Begin(c, role, o, known, roots)
  PROVE  EvidenceRight'
<1>1. PICK s : s = [Idle EXCEPT
       !.at = IF role = "verify" THEN "hash" ELSE "plan",
       !.role = role, !.known = known, !.roots = roots,
       !.todo = {r \in Record : Catalog[r].origin = o}]
  OBVIOUS
<1>2. s.at # "stat"
  BY <1>1 DEF Idle
<1>. QED BY <1>1, <1>2, OthersStay DEF Begin, disk

LEMMA GateEvidence ==
  ASSUME CurationInv, EvidenceRight, NEW c \in Command, Gate(c)
  PROVE  EvidenceRight'
<1>1. PICK s : s = [cmd[c] EXCEPT !.at = "apply", !.todo = Copies(c)]
  OBVIOUS
<1>2. s.at # "stat"
  BY <1>1, InvParts DEF Progress
<1>. QED BY <1>1, <1>2, OthersStay, StopEvidence DEF Gate, GoOn, records

LEMMA CheckEvidence ==
  ASSUME CurationInv, EvidenceRight, NEW c \in Command, TransferCheck(c)
  PROVE  EvidenceRight'
<1>1. PICK s : s = [cmd[c] EXCEPT !.at = "install", !.data = Data(AtHand(c))]
  OBVIOUS
<1>2. s.at # "stat"
  BY <1>1, InvParts DEF Progress
<1>. QED BY <1>1, <1>2, OthersStay, StopEvidence DEF TransferCheck, GoOn, records

\* What is installed is at the place of no record.
LEMMA InstallEvidence ==
  ASSUME CurationInv, EvidenceRight, PlacesApart, NEW c \in Command, Install(c)
  PROVE  EvidenceRight'
<1>. DEFINE r == AtHand(c)
            t == Target(c, r)
<1>1. cmd[c].at = "install" /\ InOrder(c) /\ r \in cmd[c].todo /\ r \in Record
  BY InvParts, AtHandFirst DEF Install, InOrder
<1>2. cmd[c].role \in Role /\ Source(r) # t
  BY <1>1 DEF InOrder, Planned
<1>3. \A k \in Record : Source(k) # t
  BY <1>1, <1>2 DEF PlacesApart, Target, Role
<1>4. t \in Path
  BY <1>1, Paths DEF Target
<1>5. /\ file' = [file EXCEPT ![t] = cmd[c].data]
      /\ mtime' = [k \in Record |-> IF Source(k) = t THEN mtime[r] ELSE mtime[k]]
      /\ UNCHANGED <<evidence, torn>>
  BY DEF Install
<1>6. \A k \in Record : mtime'[k] = mtime[k] /\ Data(k)' = Data(k)
  <2>. HIDE DEF t
  <2>. QED BY <1>3, <1>4, <1>5, Paths, InvParts DEF Typed, Data
<1>7. \A d \in Command : cmd'[d].at = "stat" => cmd'[d] = cmd[d] /\ cmd[d].todo # {}
  <2>1. cmd \in [Command -> Progress] /\ cmd[c] \in Progress
    BY InvParts DEF Typed
  <2>2. cmd'[c].at = "apply" /\ \A d \in Command \ {c} : cmd'[d] = cmd[d]
    BY <2>1 DEF Install, Progress
  <2>. QED BY <2>2, InvParts DEF InOrder
<1>8. \A d \in Command : cmd'[d].at = "stat" => AtHand(d)' = AtHand(d) /\ AtHand(d) \in Record
  BY <1>7, AtHandFirst DEF AtHand
<1>. QED BY <1>5, <1>6, <1>7, <1>8 DEF EvidenceRight

LEMMA HashEvidence ==
  ASSUME CurationInv, EvidenceRight, NEW c \in Command, Hash(c)
  PROVE  EvidenceRight'
<1>1. /\ cmd[c].at = "hash" /\ cmd[c] \in Progress /\ UNCHANGED <<disk, records>>
      /\ cmd \in [Command -> Progress]
  BY InvParts DEF Hash, Typed
<1>2. CASE Judge(c, AtHand(c), "MISSING", None) \/ Judge(c, AtHand(c), "UNVERIFIABLE", None)
  BY <1>1, <1>2, JudgeEvidence
<1>3. CASE GoOn(c, [cmd[c] EXCEPT !.at = "stat", !.data = Data(AtHand(c))])
  <2>1. PICK s : s = [cmd[c] EXCEPT !.at = "stat", !.data = Data(AtHand(c))]
    OBVIOUS
  <2>2. s.data = Data(AtHand(c)) /\ s.todo = cmd[c].todo
    BY <2>1, <1>1 DEF Progress
  <2>3. cmd'[c] = s /\ \A d \in Command \ {c} : cmd'[d] = cmd[d]
    BY <2>1, <1>1, <1>3 DEF GoOn
  <2>4. \A d \in Command : AtHand(d)' = AtHand(d)
    BY <2>2, <2>3 DEF AtHand
  <2>5. \A r : Data(r)' = Data(r)
    BY <1>1 DEF Data, disk
  <2>6. UNCHANGED <<evidence, mtime, torn>>
    BY <1>1 DEF disk, records
  <2>. QED BY <2>2, <2>3, <2>4, <2>5, <2>6 DEF EvidenceRight
<1>. QED BY <1>2, <1>3 DEF Hash

LEMMA RecordRightEvidence ==
  ASSUME CurationInv, EvidenceRight, NEW c \in Command, RecordEvidence(c)
  PROVE  EvidenceRight'
<1>. DEFINE r == AtHand(c)
<1>1. /\ cmd[c].at = "stat" /\ cmd[c] \in Progress /\ cmd \in [Command -> Progress]
      /\ evidence' = [evidence EXCEPT ![r] = [sha |-> cmd[c].data, stamp |-> mtime[r]]]
      /\ UNCHANGED <<disk, torn>>
  BY InvParts DEF RecordEvidence, Typed
<1>2. r \in Record
  BY <1>1, InvParts, AtHandFirst DEF InOrder
<1>3. PICK s : s = [cmd[c] EXCEPT !.at = "hash", !.todo = @ \ {r}, !.data = None]
  OBVIOUS
<1>4. cmd'[c] = s /\ s.at = "hash" /\ \A d \in Command \ {c} : cmd'[d] = cmd[d]
  BY <1>1, <1>3 DEF RecordEvidence, GoOn, Progress
<1>5. /\ evidence'[r].sha = cmd[c].data
      /\ \A k \in Record \ {r} : evidence'[k] = evidence[k]
  BY <1>1, <1>2, InvParts DEF Typed
<1>6. UNCHANGED <<file, mtime>> /\ \A k : Data(k)' = Data(k)
  BY <1>1 DEF disk, Data
<1>7. r \notin torn => cmd[c].data = Data(r)
  BY <1>1 DEF EvidenceRight
<1>8. \A k \in Record \ torn' :
        evidence'[k] # NoEvidence /\ evidence'[k].stamp = mtime'[k] /\ Data(k)' # None =>
          evidence'[k].sha = Data(k)'
  <2>. HIDE DEF r
  <2>. QED BY <1>1, <1>5, <1>6, <1>7 DEF EvidenceRight
<1>9. \A d \in Command : cmd'[d].at = "stat" /\ AtHand(d)' \notin torn' =>
        cmd'[d].data = Data(AtHand(d))'
  BY <1>1, <1>4, <1>6 DEF EvidenceRight, AtHand
<1>. QED BY <1>8, <1>9 DEF EvidenceRight

\* An edit makes the evidence of the file stale, or torn.
LEMMA EditEvidence ==
  ASSUME CurationInv, EvidenceRight, NEW r \in Record, Edit(r)
  PROVE  EvidenceRight'
<1>. DEFINE same == {k \in Record : Source(k) = Source(r)}
<1>1. /\ edits' = edits + 1 /\ edits \in Nat
      /\ mtime' = [k \in Record |-> IF k \in same THEN edits' ELSE mtime[k]]
      /\ torn' = torn \cup {k \in same : \E c \in Command : cmd[c].at = "stat" /\ AtHand(c) = k}
      /\ UNCHANGED <<cmd, evidence>>
  BY Constants, InvParts DEF Edit, Typed
<1>2. PICK d : file' = [file EXCEPT ![Source(r)] = d]
  BY DEF Edit
<1>3. \A k \in Record \ same : mtime'[k] = mtime[k] /\ Data(k)' = Data(k)
  BY <1>1, <1>2, Paths, InvParts DEF Typed, Data
<1>4. \A k \in same : mtime'[k] = edits + 1 /\ evidence[k].stamp # edits + 1
  <2>1. \A k \in Record : evidence[k].stamp \in {-1} \cup (0..edits)
    BY Constants, InvParts DEF Typed
  <2>. QED BY <2>1, <1>1
<1>5. \A k \in Record \ torn' :
        evidence'[k] # NoEvidence /\ evidence'[k].stamp = mtime'[k] /\ Data(k)' # None =>
          evidence'[k].sha = Data(k)'
  BY <1>1, <1>3, <1>4 DEF EvidenceRight
<1>6. \A c \in Command : AtHand(c)' = AtHand(c)
  BY <1>1 DEF AtHand
<1>7. ASSUME NEW c \in Command, cmd[c].at = "stat", AtHand(c) \notin torn'
      PROVE  cmd[c].data = Data(AtHand(c))'
  <2>1. PICK k \in Record : k = AtHand(c)
    BY <1>7, InvParts, AtHandFirst DEF InOrder
  <2>2. k \notin same /\ k \notin torn
    BY <2>1, <1>1, <1>7
  <2>3. cmd[c].data = Data(k) /\ Data(k)' = Data(k)
    BY <2>1, <2>2, <1>3, <1>7 DEF EvidenceRight
  <2>. QED BY <2>1, <2>3, <1>6 DEF Data
<1>. QED BY <1>1, <1>5, <1>6, <1>7 DEF EvidenceRight

LEMMA NextEvidence ==
  ASSUME PlacesApart
  PROVE  CurationInv /\ EvidenceRight /\ [CNext]_cvars => EvidenceRight'
<1>. SUFFICES ASSUME CurationInv, EvidenceRight, [CNext]_cvars PROVE EvidenceRight'
  OBVIOUS
<1>1. ASSUME NEW c \in Command, CStep(c)
      PROVE  EvidenceRight'
  <2>1. CASE PlanItem(c)
    <3>1. /\ cmd[c].at # "stat" /\ UNCHANGED <<disk, records>>
          /\ \E v, digest : Judge(c, AtHand(c), v, digest)
      BY <2>1 DEF PlanItem
    <3>. QED BY <3>1, JudgeEvidence
  <2>2. CASE Succeed(c) \/ Verified(c) \/ Quit(c)
    BY <2>2, StopEvidence DEF Succeed, Verified, Quit
  <2>. QED BY <2>1, <2>2, <1>1, GateEvidence, CheckEvidence, InstallEvidence, HashEvidence,
              RecordRightEvidence DEF CStep
<1>2. CASE UNCHANGED cvars
  BY <1>2, EvidenceStays DEF cvars, records
<1>3. ASSUME NEW c \in Command, NEW role, NEW o, NEW k, NEW x, Begin(c, role, o, k, x)
      PROVE  EvidenceRight'
  BY <1>3, BeginEvidence
<1>4. CASE \E r \in Record : Local(r) /\ Edit(r)
  BY <1>4, EditEvidence
<1>. QED BY <1>1, <1>2, <1>3, <1>4 DEF CNext

LEMMA InitEvidence == CInit => EvidenceRight
<1>. SUFFICES ASSUME CInit PROVE EvidenceRight
  OBVIOUS
<1>1. \A r \in Record : evidence[r] = NoEvidence
  BY DEF CInit
<1>2. \A c \in Command : cmd[c].at = "idle"
  BY DEF CInit, Idle
<1>. QED BY <1>1, <1>2 DEF EvidenceRight

LEMMA RightIsFresh ==
  ASSUME EvidenceRight
  PROVE  FreshEvidenceIsRight
BY DEF EvidenceRight, FreshEvidenceIsRight, Stale

\* For any catalog whose records are copied to places of their own: evidence
\* that stale_checksum_paths does not report is the digest of the file as it is,
\* unless the file was edited between the digest and the stat behind it.
THEOREM FreshEvidenceHolds ==
  ASSUME PlacesApart
  PROVE  CSpec => []FreshEvidenceIsRight
<1>1. CurationInv /\ EvidenceRight /\ [CNext]_cvars => EvidenceRight'
  BY NextEvidence
<1>2. EvidenceRight => FreshEvidenceIsRight
  BY RightIsFresh
<1>. QED BY <1>1, <1>2, InitEvidence, CurationInvariance, PTL DEF CSpec

-----------------------------------------------------------------------------
(* Monitoring: the inductive invariant.                                       *)

Place == Gauge \cup {"alerts", "write", "notify", "audit", "report"}
Process == [at : Place, seen : [Gauge -> Level], todo : SUBSET Gauge,
            row : BOOLEAN, found : SUBSET Possible]

\* The alert that a collection with the record x writes of.
AlertOf(x) == <<Due(x.todo), x.seen[Due(x.todo)]>>

\* The collections that have written f and not told of it, and those among
\* them that have notified it.
Telling(f)  == {c \in Collector : /\ collector[c].at \in {"notify", "audit"}
                                  /\ Current(c) = f}
Auditing(f) == {c \in Collector : collector[c].at = "audit" /\ Current(c) = f}

\* What holds of one collection with the record x.
Knows(x) ==
  /\ \A g \in Gauge : x.seen[g] \in Levels[g]
  /\ \A g \in x.todo : x.seen[g] # "ok"
  /\ x.at \in {"write", "notify", "audit"} => x.todo # {}
  /\ x.at \in {"notify", "audit"} => AlertOf(x) \in x.found
  /\ x.at \in {"alerts", "write", "notify", "audit"} =>
       \A g \in Gauge : x.seen[g] # "ok" => g \in x.todo \/ <<g, x.seen[g]>> \in x.found

MTyped ==
  /\ level \in [Gauge -> Level] /\ \A g \in Gauge : level[g] \in Levels[g]
  /\ alerts \in [Possible -> [active : BOOLEAN, occurrences : 0..Many]]
  /\ notes \in [Possible -> 0..Many] /\ events \in [Possible -> 0..Many]
  /\ deaths \in 0..MaxDeaths
  /\ unsaid \in [Possible -> Nat] /\ \A f \in Possible : unsaid[f] <= deaths
  /\ collector \in [Collector -> Process]

\* The books of one fingerprint.
Booked(f) ==
  alerts[f].occurrences < Many =>
    /\ alerts[f].occurrences = events[f] + unsaid[f] + Cardinality(Telling(f))
    /\ events[f] + Cardinality(Auditing(f)) <= notes[f]
    /\ notes[f] <= events[f] + Cardinality(Auditing(f)) + unsaid[f]

MInv ==
  /\ MTyped
  /\ \A c \in Collector : Knows(collector[c])
  /\ \A f \in Possible : IsFiniteSet(Telling(f)) /\ Booked(f)

-----------------------------------------------------------------------------
(* Fingerprints, and the sets of collections that tell of one *)

LEMMA PossibleAre ==
  /\ \A f \in Possible : /\ f = <<f[1], f[2]>> /\ f[1] \in Gauge
                         /\ f[2] \in Levels[f[1]] /\ f[2] # "ok"
  /\ \A g \in Gauge : \A l \in Levels[g] : l # "ok" => <<g, l>> \in Possible
BY DEF Possible, Level

LEMMA DueIsDue ==
  ASSUME NEW todo \in SUBSET Gauge, todo # {}
  PROVE  Due(todo) \in todo
<1>1. /\ Evaluated["disk"] = 1 /\ Evaluated["health"] = 2 /\ Evaluated["jobs"] = 3
      /\ \A g \in todo : g \in {"disk", "health", "jobs"}
  BY DEF Gauge, Evaluated
<1>2. \E g \in todo : \A h \in todo : Evaluated[g] <= Evaluated[h]
  <2>1. CASE "disk" \in todo
    BY <1>1, <2>1
  <2>2. CASE "disk" \notin todo /\ "health" \in todo
    BY <1>1, <2>2
  <2>3. CASE "disk" \notin todo /\ "health" \notin todo
    <3>1. todo = {"jobs"}
      BY <1>1, <2>3
    <3>. QED BY <3>1, <1>1
  <2>. QED BY <2>1, <2>2, <2>3
<1>. QED BY <1>2 DEF Due

LEMMA AlertIsPossible ==
  ASSUME NEW x \in Process, Knows(x), x.todo # {}
  PROVE  AlertOf(x) \in Possible /\ Due(x.todo) \in x.todo
<1>1. Due(x.todo) \in x.todo /\ x.todo \subseteq Gauge
  BY DueIsDue DEF Process
<1>. QED BY <1>1, PossibleAre DEF AlertOf, Knows

\* Adding a member, or taking one away.
LEMMA OneMore ==
  ASSUME NEW S, IsFiniteSet(S), NEW c
  PROVE  /\ Cardinality(S) \in Nat
         /\ IsFiniteSet(S \cup {c}) /\ IsFiniteSet(S \ {c})
         /\ Cardinality(S \cup {c}) \in Nat /\ Cardinality(S \ {c}) \in Nat
         /\ c \notin S => Cardinality(S \cup {c}) = Cardinality(S) + 1
         /\ c \in S => Cardinality(S \ {c}) = Cardinality(S) - 1
<1>1. Cardinality(S) \in Nat /\ IsFiniteSet(S \cup {c}) /\ IsFiniteSet(S \ {c})
  BY FS_CardinalityType, FS_AddElement, FS_RemoveElement
<1>2. Cardinality(S \cup {c}) \in Nat /\ Cardinality(S \ {c}) \in Nat
  BY <1>1, FS_CardinalityType
<1>3. c \notin S => Cardinality(S \cup {c}) = Cardinality(S) + 1
  BY FS_AddElement
<1>4. c \in S => Cardinality(S \ {c}) = Cardinality(S) - 1
  BY FS_RemoveElement
<1>. QED BY <1>1, <1>2, <1>3, <1>4

LEMMA AuditingTell ==
  ASSUME NEW f, IsFiniteSet(Telling(f))
  PROVE  /\ Auditing(f) \subseteq Telling(f) /\ IsFiniteSet(Auditing(f))
         /\ Cardinality(Auditing(f)) \in Nat /\ Cardinality(Telling(f)) \in Nat
         /\ Cardinality(Auditing(f)) <= Cardinality(Telling(f))
         /\ \A c \in Telling(f) \ Auditing(f) :
              Cardinality(Auditing(f)) + 1 <= Cardinality(Telling(f))
<1>1. Auditing(f) \subseteq Telling(f)
  BY DEF Auditing, Telling
<1>2. /\ IsFiniteSet(Auditing(f)) /\ Cardinality(Auditing(f)) <= Cardinality(Telling(f))
      /\ Cardinality(Auditing(f)) = Cardinality(Telling(f)) => Auditing(f) = Telling(f)
  BY <1>1, FS_Subset
<1>3. Cardinality(Auditing(f)) \in Nat /\ Cardinality(Telling(f)) \in Nat
  BY <1>2, FS_CardinalityType
<1>4. \A c \in Telling(f) \ Auditing(f) : Auditing(f) # Telling(f)
  OBVIOUS
<1>. QED BY <1>1, <1>2, <1>3, <1>4

\* What a step of collection c to the record q does to these sets.
LEMMA TellingMoves ==
  ASSUME collector \in [Collector -> Process], NEW c \in Collector, NEW q,
         collector' = [collector EXCEPT ![c] = q], NEW f
  PROVE  /\ Telling(f)' = IF q.at \in {"notify", "audit"} /\ AlertOf(q) = f
                          THEN Telling(f) \cup {c} ELSE Telling(f) \ {c}
         /\ Auditing(f)' = IF q.at = "audit" /\ AlertOf(q) = f
                           THEN Auditing(f) \cup {c} ELSE Auditing(f) \ {c}
         /\ c \in Telling(f) <=> /\ collector[c].at \in {"notify", "audit"}
                                 /\ AlertOf(collector[c]) = f
         /\ c \in Auditing(f) <=> collector[c].at = "audit" /\ AlertOf(collector[c]) = f
<1>1. \A d \in Collector : collector'[d] = IF d = c THEN q ELSE collector[d]
  OBVIOUS
<1>2. /\ Telling(f) = {d \in Collector : /\ collector[d].at \in {"notify", "audit"}
                                         /\ AlertOf(collector[d]) = f}
      /\ Auditing(f) = {d \in Collector : /\ collector[d].at = "audit"
                                          /\ AlertOf(collector[d]) = f}
  BY DEF Telling, Auditing, Current, AlertOf
<1>3. /\ Telling(f)' = {d \in Collector : /\ collector'[d].at \in {"notify", "audit"}
                                          /\ AlertOf(collector'[d]) = f}
      /\ Auditing(f)' = {d \in Collector : /\ collector'[d].at = "audit"
                                           /\ AlertOf(collector'[d]) = f}
  BY DEF Telling, Auditing, Current, AlertOf
<1>4. Telling(f)' = IF q.at \in {"notify", "audit"} /\ AlertOf(q) = f
                    THEN Telling(f) \cup {c} ELSE Telling(f) \ {c}
  BY <1>1, <1>2, <1>3
<1>5. Auditing(f)' = IF q.at = "audit" /\ AlertOf(q) = f
                     THEN Auditing(f) \cup {c} ELSE Auditing(f) \ {c}
  BY <1>1, <1>2, <1>3
<1>. QED BY <1>2, <1>4, <1>5

-----------------------------------------------------------------------------
(* Each step keeps the invariant *)

\* A collection that reaches q without touching the tables, and tells of
\* nothing before or after, leaves everything as it was.
LEMMA QuietStep ==
  ASSUME MInv, NEW c \in Collector, NEW q \in Process, Knows(q),
         collector' = [collector EXCEPT ![c] = q],
         collector[c].at \notin {"notify", "audit"}, q.at \notin {"notify", "audit"},
         UNCHANGED <<level, tables, deaths, unsaid>>
  PROVE  MInv'
<1>1. collector \in [Collector -> Process]
  BY DEF MInv, MTyped
<1>2. collector' \in [Collector -> Process] /\ \A d \in Collector : Knows(collector'[d])
  BY <1>1 DEF MInv
<1>3. MTyped'
  BY <1>2 DEF MInv, MTyped, tables
<1>4. ASSUME NEW f \in Possible
      PROVE  Telling(f)' = Telling(f) /\ Auditing(f)' = Auditing(f)
  <2>1. c \notin Telling(f) /\ c \notin Auditing(f)
    BY <1>1, TellingMoves
  <2>2. Telling(f)' = Telling(f) \ {c} /\ Auditing(f)' = Auditing(f) \ {c}
    BY <1>1, TellingMoves
  <2>. QED BY <2>1, <2>2
<1>5. \A f \in Possible : IsFiniteSet(Telling(f)') /\ Booked(f)'
  BY <1>4 DEF MInv, Booked, tables
<1>. QED BY <1>2, <1>3, <1>5 DEF MInv

LEMMA RestingFits == Resting \in Process /\ Knows(Resting)
<1>1. \A g \in Gauge : "ok" \in Levels[g] /\ "ok" \in Level
  BY MonitoringAssumption DEF Level, Gauge
<1>2. Resting.at = "health" /\ "health" \in Place
  BY DEF Resting, Sampled, Place, Gauge
<1>3. Resting \in Process
  BY <1>1, <1>2 DEF Resting, Process
<1>4. /\ \A g \in Gauge : Resting.seen[g] = "ok"
      /\ Resting.todo = {}
  BY DEF Resting
<1>5. "health" \notin {"alerts", "write", "notify", "audit"}
  OBVIOUS
<1>. QED BY <1>1, <1>2, <1>3, <1>4, <1>5 DEF Knows

LEMMA SampleKeeps ==
  ASSUME MInv, NEW c \in Collector, Sample(c)
  PROVE  MInv'
<1>. DEFINE x == collector[c]
<1>1. PICK k \in DOMAIN Sampled :
        /\ x.at = Sampled[k]
        /\ collector' = [collector EXCEPT
             ![c].seen = [x.seen EXCEPT ![Sampled[k]] = level[Sampled[k]]],
             ![c].at = IF k < Len(Sampled) THEN Sampled[k + 1] ELSE "alerts",
             ![c].todo = IF k < Len(Sampled) THEN {}
                         ELSE Evaluate([x.seen EXCEPT ![Sampled[k]] = level[Sampled[k]]])]
        /\ UNCHANGED <<level, tables, deaths, unsaid>>
  BY DEF Sample
<1>2. x \in Process /\ Knows(x) /\ collector \in [Collector -> Process]
  BY DEF MInv, MTyped
<1>3. /\ DOMAIN Sampled = 1..3 /\ Len(Sampled) = 3 /\ Sampled[k] \in Gauge
      /\ k < Len(Sampled) => Sampled[k + 1] \in Gauge
  BY DEF Sampled, Gauge
<1>. DEFINE y == [x.seen EXCEPT ![Sampled[k]] = level[Sampled[k]]]
<1>4. /\ y \in [Gauge -> Level] /\ \A g \in Gauge : y[g] \in Levels[g]
      /\ Evaluate(y) \subseteq Gauge
      /\ \A g \in Gauge : g \in Evaluate(y) <=> y[g] # "ok"
  BY <1>2, <1>3 DEF MInv, MTyped, Process, Knows, Evaluate
<1>5. PICK q : q = [x EXCEPT !.seen = y,
                     !.at = IF k < Len(Sampled) THEN Sampled[k + 1] ELSE "alerts",
                     !.todo = IF k < Len(Sampled) THEN {} ELSE Evaluate(y)]
  OBVIOUS
<1>6. collector' = [collector EXCEPT ![c] = q]
  BY <1>1, <1>2, <1>5
<1>7. /\ q.seen = y /\ q.found = x.found /\ q.row = x.row
      /\ q.at = IF k < Len(Sampled) THEN Sampled[k + 1] ELSE "alerts"
      /\ q.todo = IF k < Len(Sampled) THEN {} ELSE Evaluate(y)
  BY <1>2, <1>5 DEF Process
<1>8. q \in Process
  <2>1. q.at \in Place /\ q.todo \in SUBSET Gauge
    BY <1>3, <1>4, <1>7 DEF Place
  <2>. QED BY <1>2, <1>4, <1>5, <1>7, <2>1 DEF Process
<1>9. Gauge \cap {"alerts", "write", "notify", "audit"} = {}
  BY DEF Gauge
<1>10. Knows(q)
  <2>1. CASE k < Len(Sampled)
    BY <1>3, <1>4, <1>7, <1>9, <2>1 DEF Knows
  <2>2. CASE ~(k < Len(Sampled))
    BY <1>4, <1>7, <2>2 DEF Knows
  <2>. QED BY <2>1, <2>2
<1>11. x.at \notin {"notify", "audit"} /\ q.at \notin {"notify", "audit"}
  BY <1>1, <1>3, <1>7, <1>9
<1>. QED BY <1>1, <1>6, <1>8, <1>10, <1>11, QuietStep

LEMMA LookKeeps ==
  ASSUME MInv, NEW c \in Collector, Look(c)
  PROVE  MInv'
<1>. DEFINE x == collector[c]
<1>1. x \in Process /\ Knows(x) /\ collector \in [Collector -> Process]
  BY DEF MInv, MTyped
<1>2. PICK b \in BOOLEAN : b = (alerts[Current(c)] # NoAlert)
  OBVIOUS
<1>3. PICK q : q = [x EXCEPT !.at = "write", !.row = b]
  OBVIOUS
<1>4. collector' = [collector EXCEPT ![c] = q]
  BY <1>1, <1>2, <1>3 DEF Look
<1>5. /\ q.seen = x.seen /\ q.todo = x.todo /\ q.found = x.found
      /\ q.at = "write" /\ q.row = b
  BY <1>1, <1>3 DEF Process
<1>6. q \in Process
  BY <1>1, <1>3, <1>5 DEF Process, Place
<1>7. x.at = "alerts" /\ x.todo # {} /\ UNCHANGED <<level, tables, deaths, unsaid>>
  BY DEF Look
<1>8. Knows(q)
  BY <1>1, <1>5, <1>7 DEF Knows
<1>. QED BY <1>4, <1>5, <1>6, <1>7, <1>8, QuietStep

LEMMA ReportKeeps ==
  ASSUME MInv, NEW c \in Collector, Report(c)
  PROVE  MInv'
<1>1. /\ collector[c].at = "report" /\ collector' = [collector EXCEPT ![c] = Resting]
      /\ UNCHANGED <<level, tables, deaths, unsaid>>
  BY DEF Report
<1>2. Resting.at \notin {"notify", "audit"}
  BY DEF Resting, Sampled
<1>. QED BY <1>1, <1>2, RestingFits, QuietStep

\* The write of one alert, whether it inserts or updates: one more occurrence,
\* of which collection c is about to tell.
LEMMA WriteKeeps ==
  ASSUME MInv, NEW c \in Collector, collector[c].at = "write", Wrote(c),
         NEW r \in [active : BOOLEAN, occurrences : 0..Many],
         r.occurrences < Many => /\ alerts[Current(c)].occurrences < Many
                                 /\ r.occurrences = alerts[Current(c)].occurrences + 1,
         alerts' = [alerts EXCEPT ![Current(c)] = r],
         UNCHANGED <<level, notes, events, deaths, unsaid>>
  PROVE  MInv'
<1>. DEFINE x == collector[c]
<1>1. /\ x \in Process /\ Knows(x) /\ collector \in [Collector -> Process]
      /\ alerts \in [Possible -> [active : BOOLEAN, occurrences : 0..Many]]
      /\ notes \in [Possible -> 0..Many] /\ events \in [Possible -> 0..Many]
      /\ unsaid \in [Possible -> Nat]
  BY DEF MInv, MTyped
<1>2. PICK a : a = AlertOf(x)
  OBVIOUS
<1>3. a = Current(c) /\ x.todo # {}
  BY <1>1, <1>2 DEF Current, AlertOf, Knows
<1>4. a \in Possible
  BY <1>1, <1>2, <1>3, AlertIsPossible
<1>5. PICK q : q = [x EXCEPT !.at = "notify", !.found = @ \cup {a}]
  OBVIOUS
<1>6. collector' = [collector EXCEPT ![c] = q]
  BY <1>1, <1>3, <1>5 DEF Wrote
<1>7. /\ q.seen = x.seen /\ q.todo = x.todo /\ q.row = x.row
      /\ q.at = "notify" /\ q.found = x.found \cup {a}
  BY <1>1, <1>5 DEF Process
<1>8. q \in Process
  BY <1>1, <1>4, <1>5, <1>7 DEF Process, Place
<1>9. AlertOf(q) = a
  BY <1>2, <1>7 DEF AlertOf
<1>10. Knows(q)
  BY <1>1, <1>3, <1>7, <1>9 DEF Knows
<1>11. alerts' \in [Possible -> [active : BOOLEAN, occurrences : 0..Many]]
  BY <1>1
<1>12. MTyped'
  BY <1>1, <1>6, <1>8, <1>11 DEF MInv, MTyped
<1>13. \A d \in Collector : Knows(collector'[d])
  BY <1>1, <1>6, <1>10 DEF MInv
<1>14. ASSUME NEW f \in Possible
       PROVE  IsFiniteSet(Telling(f)') /\ Booked(f)'
  <2>1. IsFiniteSet(Telling(f)) /\ Booked(f)
    BY DEF MInv
  <2>2. c \notin Telling(f) /\ c \notin Auditing(f)
    BY <1>1, TellingMoves, <1>6
  <2>3. /\ Telling(f)' = IF f = a THEN Telling(f) \cup {c} ELSE Telling(f)
        /\ Auditing(f)' = Auditing(f)
    <3>1. /\ Telling(f)' = IF f = a THEN Telling(f) \cup {c} ELSE Telling(f) \ {c}
          /\ Auditing(f)' = Auditing(f) \ {c}
      BY <1>1, <1>6, <1>7, <1>9, TellingMoves
    <3>. QED BY <3>1, <2>2
  <2>4. IsFiniteSet(Telling(f)')
    BY <2>1, <2>3, OneMore
  <2>5. CASE f # a
    <3>1. alerts'[f] = alerts[f]
      BY <1>1, <1>3, <2>5
    <3>. QED BY <2>1, <2>3, <2>4, <2>5, <3>1 DEF Booked
  <2>6. CASE f = a
    <3>1. alerts'[f] = r /\ r.occurrences \in Nat
      BY <1>1, <1>3, <2>6, MonitoringAssumption
    <3>2. /\ Cardinality(Telling(f)) \in Nat /\ Cardinality(Auditing(f)) \in Nat
          /\ Cardinality(Telling(f)') = Cardinality(Telling(f)) + 1
      BY <2>1, <2>2, <2>3, <2>6, OneMore, AuditingTell
    <3>3. r.occurrences < Many =>
            /\ alerts[f].occurrences < Many
            /\ r.occurrences = alerts[f].occurrences + 1
      BY <1>3, <2>6
    <3>4. /\ events[f] \in Nat /\ notes[f] \in Nat /\ unsaid[f] \in Nat
          /\ alerts[f].occurrences \in Nat
      BY <1>1, MonitoringAssumption
    <3>5. alerts'[f].occurrences < Many =>
            alerts'[f].occurrences = events[f] + unsaid[f] + Cardinality(Telling(f)')
      BY <2>1, <3>1, <3>2, <3>3, <3>4 DEF Booked
    <3>6. alerts'[f].occurrences < Many =>
            /\ events[f] + Cardinality(Auditing(f)) <= notes[f]
            /\ notes[f] <= events[f] + Cardinality(Auditing(f)) + unsaid[f]
      BY <2>1, <3>1, <3>3 DEF Booked
    <3>7. Booked(f)'
      BY <2>3, <3>5, <3>6 DEF Booked
    <3>. QED BY <2>4, <3>7
  <2>. QED BY <2>5, <2>6
<1>. QED BY <1>12, <1>13, <1>14 DEF MInv

LEMMA InsertKeeps ==
  ASSUME MInv, NEW c \in Collector, Insert(c)
  PROVE  MInv'
<1>1. collector[c].at = "write" /\ UNCHANGED <<level, notes, events, deaths, unsaid>>
  BY DEF Insert
<1>2. CASE alerts[Current(c)] = NoAlert
  <2>1. PICK r : r = [active |-> TRUE, occurrences |-> 1]
    OBVIOUS
  <2>2. r \in [active : BOOLEAN, occurrences : 0..Many]
    BY <2>1, MonitoringAssumption
  <2>3. alerts' = [alerts EXCEPT ![Current(c)] = r] /\ Wrote(c)
    BY <1>2, <2>1 DEF Insert
  <2>4. /\ r.occurrences < Many => alerts[Current(c)].occurrences < Many
        /\ r.occurrences = alerts[Current(c)].occurrences + 1
    BY <1>2, <2>1, MonitoringAssumption DEF NoAlert
  <2>. QED BY <1>1, <2>2, <2>3, <2>4, WriteKeeps
<1>3. CASE alerts[Current(c)] # NoAlert
  <2>1. collector' = [collector EXCEPT ![c] = Resting] /\ UNCHANGED alerts
    BY <1>3 DEF Insert
  <2>2. Resting.at \notin {"notify", "audit"}
    BY DEF Resting, Sampled
  <2>. QED BY <1>1, <2>1, <2>2, RestingFits, QuietStep DEF tables
<1>. QED BY <1>2, <1>3

LEMMA UpdateKeeps ==
  ASSUME MInv, NEW c \in Collector, Update(c)
  PROVE  MInv'
<1>1. /\ collector[c].at = "write" /\ Wrote(c)
      /\ alerts' = [alerts EXCEPT ![Current(c)] =
                      [active |-> TRUE, occurrences |-> Count(alerts[Current(c)].occurrences)]]
      /\ UNCHANGED <<level, notes, events, deaths, unsaid>>
  BY DEF Update
<1>2. /\ collector[c] \in Process /\ Knows(collector[c])
      /\ alerts \in [Possible -> [active : BOOLEAN, occurrences : 0..Many]]
  BY DEF MInv, MTyped
<1>3. Current(c) \in Possible
  BY <1>1, <1>2, AlertIsPossible DEF Knows, Current, AlertOf
<1>4. PICK n : n = alerts[Current(c)].occurrences
  OBVIOUS
<1>5. n \in 0..Many
  BY <1>2, <1>3, <1>4
<1>6. Count(n) \in 0..Many /\ (Count(n) < Many => n < Many /\ Count(n) = n + 1)
  BY <1>5, MonitoringAssumption DEF Count
<1>7. PICK r : r = [active |-> TRUE, occurrences |-> Count(n)]
  OBVIOUS
<1>8. r \in [active : BOOLEAN, occurrences : 0..Many]
  BY <1>6, <1>7
<1>9. /\ alerts' = [alerts EXCEPT ![Current(c)] = r]
      /\ r.occurrences < Many => /\ alerts[Current(c)].occurrences < Many
                                 /\ r.occurrences = alerts[Current(c)].occurrences + 1
  BY <1>1, <1>4, <1>6, <1>7
<1>. QED BY <1>1, <1>8, <1>9, WriteKeeps

LEMMA NotifyKeeps ==
  ASSUME MInv, NEW c \in Collector, Notify(c)
  PROVE  MInv'
<1>. DEFINE x == collector[c]
<1>1. /\ x \in Process /\ Knows(x) /\ collector \in [Collector -> Process]
      /\ alerts \in [Possible -> [active : BOOLEAN, occurrences : 0..Many]]
      /\ notes \in [Possible -> 0..Many] /\ events \in [Possible -> 0..Many]
      /\ unsaid \in [Possible -> Nat]
  BY DEF MInv, MTyped
<1>2. PICK a : a = AlertOf(x)
  OBVIOUS
<1>3. /\ x.at = "notify" /\ x.todo # {} /\ a = Current(c)
      /\ notes' = [notes EXCEPT ![a] = Count(@)]
      /\ UNCHANGED <<level, alerts, events, deaths, unsaid>>
  BY <1>1, <1>2 DEF Notify, Knows, Current, AlertOf
<1>4. a \in Possible
  BY <1>1, <1>2, <1>3, AlertIsPossible
<1>5. PICK q : q = [x EXCEPT !.at = "audit"]
  OBVIOUS
<1>6. collector' = [collector EXCEPT ![c] = q]
  BY <1>1, <1>5 DEF Notify
<1>7. /\ q.seen = x.seen /\ q.todo = x.todo /\ q.row = x.row
      /\ q.at = "audit" /\ q.found = x.found
  BY <1>1, <1>5 DEF Process
<1>8. q \in Process
  BY <1>1, <1>5, <1>7 DEF Process, Place
<1>9. AlertOf(q) = a
  BY <1>2, <1>7 DEF AlertOf
<1>10. Knows(q)
  BY <1>1, <1>2, <1>3, <1>7, <1>9 DEF Knows
<1>11. notes' \in [Possible -> 0..Many]
  <2>1. notes[a] \in 0..Many
    BY <1>1, <1>4
  <2>2. Count(notes[a]) \in 0..Many
    BY <2>1, MonitoringAssumption DEF Count
  <2>. QED BY <1>1, <1>3, <2>2
<1>12. MTyped'
  BY <1>1, <1>3, <1>6, <1>8, <1>11 DEF MInv, MTyped
<1>13. \A d \in Collector : Knows(collector'[d])
  BY <1>1, <1>6, <1>10 DEF MInv
<1>14. ASSUME NEW f \in Possible
       PROVE  IsFiniteSet(Telling(f)') /\ Booked(f)'
  <2>1. IsFiniteSet(Telling(f)) /\ Booked(f)
    BY DEF MInv
  <2>2. /\ c \in Telling(f) <=> f = a
        /\ c \notin Auditing(f)
    BY <1>1, <1>2, <1>3, <1>6, TellingMoves
  <2>3. /\ Telling(f)' = Telling(f)
        /\ Auditing(f)' = IF f = a THEN Auditing(f) \cup {c} ELSE Auditing(f)
    <3>1. /\ Telling(f)' = IF f = a THEN Telling(f) \cup {c} ELSE Telling(f) \ {c}
          /\ Auditing(f)' = IF f = a THEN Auditing(f) \cup {c} ELSE Auditing(f) \ {c}
      BY <1>1, <1>6, <1>7, <1>9, TellingMoves
    <3>. QED BY <3>1, <2>2
  <2>4. CASE f # a
    <3>1. notes'[f] = notes[f]
      BY <1>1, <1>3, <2>4
    <3>. QED BY <1>3, <2>1, <2>3, <2>4, <3>1 DEF Booked
  <2>5. CASE f = a
    <3>1. notes'[f] = Count(notes[f])
      BY <1>1, <1>3, <2>5
    <3>2. /\ Cardinality(Telling(f)) \in Nat /\ Cardinality(Auditing(f)) \in Nat
          /\ Cardinality(Auditing(f)') = Cardinality(Auditing(f)) + 1
          /\ Cardinality(Auditing(f)) + 1 <= Cardinality(Telling(f))
      <4>1. IsFiniteSet(Auditing(f)) /\ c \in Telling(f) \ Auditing(f)
        BY <2>1, <2>2, <2>5, AuditingTell
      <4>. QED BY <4>1, <2>1, <2>3, <2>5, OneMore, AuditingTell
    <3>3. /\ events[f] \in Nat /\ notes[f] \in Nat /\ unsaid[f] \in Nat
          /\ alerts[f].occurrences \in Nat /\ Many \in Nat
      BY <1>1, MonitoringAssumption
    <3>4. alerts[f].occurrences < Many => notes[f] < Many
      BY <2>1, <3>2, <3>3 DEF Booked
    <3>5. alerts[f].occurrences < Many => notes'[f] = notes[f] + 1
      BY <3>1, <3>4 DEF Count
    <3>6. alerts[f].occurrences < Many =>
            /\ alerts[f].occurrences = events[f] + unsaid[f] + Cardinality(Telling(f))
            /\ events[f] + Cardinality(Auditing(f)') <= notes'[f]
            /\ notes'[f] <= events[f] + Cardinality(Auditing(f)') + unsaid[f]
      BY <2>1, <3>2, <3>3, <3>5 DEF Booked
    <3>. QED BY <1>3, <2>1, <2>3, <3>6 DEF Booked
  <2>. QED BY <2>4, <2>5
<1>. QED BY <1>12, <1>13, <1>14 DEF MInv

LEMMA AuditKeeps ==
  ASSUME MInv, NEW c \in Collector, Audit(c)
  PROVE  MInv'
<1>. DEFINE x == collector[c]
<1>1. /\ x \in Process /\ Knows(x) /\ collector \in [Collector -> Process]
      /\ alerts \in [Possible -> [active : BOOLEAN, occurrences : 0..Many]]
      /\ notes \in [Possible -> 0..Many] /\ events \in [Possible -> 0..Many]
      /\ unsaid \in [Possible -> Nat]
  BY DEF MInv, MTyped
<1>2. PICK a : a = AlertOf(x)
  OBVIOUS
<1>3. /\ x.at = "audit" /\ x.todo # {} /\ a = Current(c)
      /\ events' = [events EXCEPT ![a] = Count(@)]
      /\ UNCHANGED <<level, alerts, notes, deaths, unsaid>>
  BY <1>1, <1>2 DEF Audit, Knows, Current, AlertOf
<1>4. a \in Possible /\ a = <<Due(x.todo), x.seen[Due(x.todo)]>> /\ a \in x.found
  BY <1>1, <1>2, <1>3, AlertIsPossible DEF AlertOf, Knows
<1>5. PICK q : q = [x EXCEPT !.at = "alerts", !.todo = @ \ {Due(x.todo)}]
  OBVIOUS
<1>6. collector' = [collector EXCEPT ![c] = q]
  <2>1. collector' = [collector EXCEPT ![c].at = "alerts", ![c].todo = @ \ {Current(c)[1]}]
    BY DEF Audit
  <2>2. Current(c)[1] = Due(x.todo)
    BY <1>3, <1>4
  <2>. QED BY <1>1, <1>5, <2>1, <2>2
<1>7. /\ q.seen = x.seen /\ q.todo = x.todo \ {Due(x.todo)} /\ q.row = x.row
      /\ q.at = "alerts" /\ q.found = x.found
  BY <1>1, <1>5 DEF Process
<1>8. q \in Process
  BY <1>1, <1>5, <1>7 DEF Process, Place
<1>9. Knows(q)
  <2>1. ASSUME NEW g \in Gauge, q.seen[g] # "ok"
        PROVE  g \in q.todo \/ <<g, q.seen[g]>> \in q.found
    <3>1. CASE g = Due(x.todo)
      BY <1>4, <1>7, <3>1
    <3>2. CASE g # Due(x.todo)
      <4>1. g \in x.todo \/ <<g, x.seen[g]>> \in x.found
        BY <1>1, <1>3, <1>7, <2>1 DEF Knows
      <4>. QED BY <4>1, <1>7, <3>2
    <3>. QED BY <3>1, <3>2
  <2>2. \A g \in Gauge : q.seen[g] \in Levels[g]
    BY <1>1, <1>7 DEF Knows
  <2>3. \A g \in q.todo : q.seen[g] # "ok"
    BY <1>1, <1>7 DEF Knows
  <2>4. q.at \notin {"write", "notify", "audit"}
    BY <1>7
  <2>5. q.at \notin {"notify", "audit"}
    BY <1>7
  <2>. QED BY <2>1, <2>2, <2>3, <2>4, <2>5 DEF Knows
<1>10. events' \in [Possible -> 0..Many]
  <2>1. events[a] \in 0..Many
    BY <1>1, <1>4
  <2>2. Count(events[a]) \in 0..Many
    BY <2>1, MonitoringAssumption DEF Count
  <2>. QED BY <1>1, <1>3, <2>2
<1>11. MTyped'
  BY <1>1, <1>3, <1>6, <1>8, <1>10 DEF MInv, MTyped
<1>12. \A d \in Collector : Knows(collector'[d])
  BY <1>1, <1>6, <1>9 DEF MInv
<1>13. ASSUME NEW f \in Possible
       PROVE  IsFiniteSet(Telling(f)') /\ Booked(f)'
  <2>1. IsFiniteSet(Telling(f)) /\ Booked(f)
    BY DEF MInv
  <2>2. /\ c \in Telling(f) <=> f = a
        /\ c \in Auditing(f) <=> f = a
    BY <1>1, <1>2, <1>3, <1>6, TellingMoves
  <2>3. /\ Telling(f)' = Telling(f) \ {c}
        /\ Auditing(f)' = Auditing(f) \ {c}
    BY <1>1, <1>6, <1>7, TellingMoves
  <2>4. IsFiniteSet(Telling(f)')
    BY <2>1, <2>3, OneMore
  <2>5. CASE f # a
    <3>1. events'[f] = events[f] /\ Telling(f)' = Telling(f) /\ Auditing(f)' = Auditing(f)
      BY <1>1, <1>3, <2>2, <2>3, <2>5
    <3>. QED BY <1>3, <2>1, <2>5, <3>1 DEF Booked
  <2>6. CASE f = a
    <3>1. events'[f] = Count(events[f])
      BY <1>1, <1>3, <2>6
    <3>2. /\ Cardinality(Telling(f)) \in Nat /\ Cardinality(Auditing(f)) \in Nat
          /\ Cardinality(Auditing(f)') = Cardinality(Auditing(f)) - 1
          /\ Cardinality(Telling(f)') = Cardinality(Telling(f)) - 1
          /\ Cardinality(Telling(f)') \in Nat
      <4>1. IsFiniteSet(Auditing(f))
        BY <2>1, AuditingTell
      <4>. QED BY <4>1, <2>1, <2>2, <2>3, <2>6, OneMore
    <3>3. /\ events[f] \in Nat /\ notes[f] \in Nat /\ unsaid[f] \in Nat
          /\ alerts[f].occurrences \in Nat /\ Many \in Nat
      BY <1>1, MonitoringAssumption
    <3>4. alerts[f].occurrences < Many => events[f] < Many
      BY <2>1, <3>2, <3>3 DEF Booked
    <3>5. alerts[f].occurrences < Many => events'[f] = events[f] + 1
      BY <3>1, <3>4 DEF Count
    <3>6. alerts[f].occurrences < Many =>
            /\ alerts[f].occurrences = events'[f] + unsaid[f] + Cardinality(Telling(f)')
            /\ events'[f] + Cardinality(Auditing(f)') <= notes[f]
            /\ notes[f] <= events'[f] + Cardinality(Auditing(f)') + unsaid[f]
      BY <2>1, <3>2, <3>3, <3>5 DEF Booked
    <3>. QED BY <1>3, <2>4, <3>6 DEF Booked
  <2>. QED BY <2>5, <2>6
<1>. QED BY <1>11, <1>12, <1>13 DEF MInv

LEMMA ResolveMissingKeeps ==
  ASSUME MInv, NEW c \in Collector, ResolveMissing(c)
  PROVE  MInv'
<1>. DEFINE x == collector[c]
<1>1. /\ x \in Process /\ Knows(x) /\ collector \in [Collector -> Process]
      /\ alerts \in [Possible -> [active : BOOLEAN, occurrences : 0..Many]]
  BY DEF MInv, MTyped
<1>2. /\ x.at = "alerts"
      /\ alerts' = [f \in Possible |-> [alerts[f] EXCEPT !.active = @ /\ f \in x.found]]
      /\ collector' = [collector EXCEPT ![c].at = "report"]
      /\ UNCHANGED <<level, notes, events, deaths, unsaid>>
  BY DEF ResolveMissing, Deactivate
<1>3. PICK q : q = [x EXCEPT !.at = "report"]
  OBVIOUS
<1>4. collector' = [collector EXCEPT ![c] = q]
  BY <1>1, <1>2, <1>3
<1>5. /\ q.seen = x.seen /\ q.todo = x.todo /\ q.row = x.row
      /\ q.at = "report" /\ q.found = x.found
  BY <1>1, <1>3 DEF Process
<1>6. q \in Process /\ Knows(q)
  <2>1. q \in Process
    BY <1>1, <1>3, <1>5 DEF Process, Place
  <2>. QED BY <1>1, <1>5, <2>1 DEF Knows
<1>7. ASSUME NEW f \in Possible
      PROVE  /\ alerts'[f] \in [active : BOOLEAN, occurrences : 0..Many]
             /\ alerts'[f].occurrences = alerts[f].occurrences
  <2>1. PICK b \in BOOLEAN : b = (alerts[f].active /\ f \in x.found)
    OBVIOUS
  <2>2. alerts[f] \in [active : BOOLEAN, occurrences : 0..Many]
    BY <1>1
  <2>3. alerts'[f] = [alerts[f] EXCEPT !.active = b]
    BY <1>2, <2>1
  <2>. QED BY <2>2, <2>3
<1>8. alerts' \in [Possible -> [active : BOOLEAN, occurrences : 0..Many]]
  BY <1>2, <1>7
<1>9. MTyped'
  <2>1. collector' \in [Collector -> Process]
    BY <1>1, <1>4, <1>6
  <2>2. UNCHANGED <<level, notes, events, deaths, unsaid>>
    BY <1>2
  <2>. QED BY <1>8, <2>1, <2>2 DEF MInv, MTyped
<1>10. \A d \in Collector : Knows(collector'[d])
  BY <1>1, <1>4, <1>6 DEF MInv
<1>11. ASSUME NEW f \in Possible
       PROVE  IsFiniteSet(Telling(f)') /\ Booked(f)'
  <2>1. c \notin Telling(f) /\ c \notin Auditing(f)
    BY <1>1, <1>2, <1>4, TellingMoves
  <2>2. Telling(f)' = Telling(f) \ {c} /\ Auditing(f)' = Auditing(f) \ {c}
    BY <1>1, <1>4, <1>5, TellingMoves
  <2>3. Telling(f)' = Telling(f) /\ Auditing(f)' = Auditing(f)
    BY <2>1, <2>2
  <2>. QED BY <1>2, <1>7, <2>3 DEF MInv, Booked
<1>. QED BY <1>9, <1>10, <1>11 DEF MInv

LEMMA DieKeeps ==
  ASSUME MInv, NEW c \in Collector, Die(c)
  PROVE  MInv'
<1>. DEFINE x == collector[c]
<1>1. /\ x \in Process /\ Knows(x) /\ collector \in [Collector -> Process]
      /\ alerts \in [Possible -> [active : BOOLEAN, occurrences : 0..Many]]
      /\ notes \in [Possible -> 0..Many] /\ events \in [Possible -> 0..Many]
      /\ unsaid \in [Possible -> Nat] /\ \A f \in Possible : unsaid[f] <= deaths
      /\ deaths \in Nat /\ MaxDeaths \in Nat
  BY MonitoringAssumption DEF MInv, MTyped
<1>2. PICK a : a = AlertOf(x)
  OBVIOUS
<1>3. /\ deaths < MaxDeaths /\ deaths' = deaths + 1
      /\ unsaid' = IF x.at \in {"notify", "audit"} THEN [unsaid EXCEPT ![a] = @ + 1] ELSE unsaid
      /\ collector' = [collector EXCEPT ![c] = Resting]
      /\ UNCHANGED <<level, alerts, notes, events>>
  <2>1. a = Current(c)
    BY <1>2 DEF Current, AlertOf
  <2>2. UNCHANGED <<level, alerts, notes, events>>
    BY DEF Die, tables
  <2>3. /\ deaths < MaxDeaths /\ deaths' = deaths + 1
        /\ collector' = [collector EXCEPT ![c] = Resting]
        /\ unsaid' = IF x.at \in {"notify", "audit"}
                     THEN [unsaid EXCEPT ![Current(c)] = @ + 1] ELSE unsaid
    BY DEF Die
  <2>. QED BY <2>1, <2>2, <2>3
<1>4. x.at \in {"notify", "audit"} => a \in Possible
  BY <1>1, <1>2, AlertIsPossible DEF Knows
<1>5. Resting.at \notin {"notify", "audit"}
  BY DEF Resting, Sampled
<1>6. unsaid' \in [Possible -> Nat]
  BY <1>1, <1>3, <1>4
<1>7. ASSUME NEW f \in Possible
      PROVE  unsaid'[f] = IF x.at \in {"notify", "audit"} /\ f = a THEN unsaid[f] + 1 ELSE unsaid[f]
  BY <1>1, <1>3
<1>8. MTyped'
  <2>1. \A f \in Possible : unsaid'[f] <= deaths'
    BY <1>1, <1>3, <1>7
  <2>2. deaths' \in 0..MaxDeaths
    BY <1>1, <1>3
  <2>3. collector' \in [Collector -> Process]
    BY <1>1, <1>3, RestingFits
  <2>. QED BY <1>3, <1>6, <2>1, <2>2, <2>3 DEF MInv, MTyped
<1>9. \A d \in Collector : Knows(collector'[d])
  BY <1>1, <1>3, RestingFits DEF MInv
<1>10. ASSUME NEW f \in Possible
       PROVE  IsFiniteSet(Telling(f)') /\ Booked(f)'
  <2>1. IsFiniteSet(Telling(f)) /\ Booked(f)
    BY DEF MInv
  <2>2. /\ c \in Telling(f) <=> x.at \in {"notify", "audit"} /\ f = a
        /\ c \in Auditing(f) <=> x.at = "audit" /\ f = a
    BY <1>1, <1>2, <1>3, TellingMoves
  <2>3. /\ Telling(f)' = Telling(f) \ {c}
        /\ Auditing(f)' = Auditing(f) \ {c}
    BY <1>1, <1>3, <1>5, TellingMoves
  <2>4. IsFiniteSet(Telling(f)')
    BY <2>1, <2>3, OneMore
  <2>5. CASE c \notin Telling(f)
    <3>1. Telling(f)' = Telling(f) /\ Auditing(f)' = Auditing(f) /\ unsaid'[f] = unsaid[f]
      BY <1>7, <2>2, <2>3, <2>5
    <3>. QED BY <1>3, <2>1, <3>1 DEF Booked
  <2>6. CASE c \in Telling(f)
    <3>1. unsaid'[f] = unsaid[f] + 1
      BY <1>7, <2>2, <2>6
    <3>2. /\ Cardinality(Telling(f)) \in Nat
          /\ Cardinality(Telling(f)') = Cardinality(Telling(f)) - 1
      BY <2>1, <2>3, <2>6, OneMore
    <3>3. /\ Cardinality(Auditing(f)) \in Nat /\ Cardinality(Auditing(f)') \in Nat
          /\ Cardinality(Auditing(f)') <= Cardinality(Auditing(f))
          /\ Cardinality(Auditing(f)) <= Cardinality(Auditing(f)') + 1
      <4>1. IsFiniteSet(Auditing(f))
        BY <2>1, AuditingTell
      <4>2. CASE c \in Auditing(f)
        <5>1. /\ Cardinality(Auditing(f)) \in Nat /\ Cardinality(Auditing(f)') \in Nat
              /\ Cardinality(Auditing(f)') = Cardinality(Auditing(f)) - 1
          BY <4>1, <4>2, <2>3, OneMore
        <5>. QED BY <5>1
      <4>3. CASE c \notin Auditing(f)
        <5>1. Auditing(f)' = Auditing(f)
          BY <2>3, <4>3
        <5>2. Cardinality(Auditing(f)) \in Nat
          BY <4>1, OneMore
        <5>. QED BY <5>1, <5>2
      <4>. QED BY <4>2, <4>3
    <3>4. /\ events[f] \in Nat /\ notes[f] \in Nat /\ unsaid[f] \in Nat
          /\ alerts[f].occurrences \in Nat /\ Many \in Nat
      BY <1>1, MonitoringAssumption
    <3>5. alerts[f].occurrences < Many =>
            /\ alerts[f].occurrences = events[f] + unsaid'[f] + Cardinality(Telling(f)')
            /\ events[f] + Cardinality(Auditing(f)') <= notes[f]
            /\ notes[f] <= events[f] + Cardinality(Auditing(f)') + unsaid'[f]
      BY <2>1, <3>1, <3>2, <3>3, <3>4 DEF Booked
    <3>. QED BY <1>3, <2>4, <3>5 DEF Booked
  <2>. QED BY <2>5, <2>6
<1>. QED BY <1>8, <1>9, <1>10 DEF MInv

\* A step that leaves every collection and every table alone.
LEMMA ElsewhereKeeps ==
  ASSUME MInv, UNCHANGED <<tables, collector, deaths, unsaid>>,
         level' \in [Gauge -> Level], \A g \in Gauge : level'[g] \in Levels[g]
  PROVE  MInv'
<1>1. UNCHANGED <<alerts, notes, events, collector, deaths, unsaid>>
  BY DEF tables
<1>2. MTyped'
  BY <1>1 DEF MInv, MTyped
<1>3. ASSUME NEW f \in Possible
      PROVE  IsFiniteSet(Telling(f)') /\ Booked(f)'
  <2>1. Telling(f)' = Telling(f) /\ Auditing(f)' = Auditing(f)
    BY <1>1 DEF Telling, Auditing, Current
  <2>. QED BY <1>1, <2>1 DEF MInv, Booked
<1>4. \A c \in Collector : Knows(collector'[c])
  BY <1>1 DEF MInv
<1>. QED BY <1>2, <1>3, <1>4 DEF MInv

LEMMA MoveKeeps ==
  ASSUME MInv, NEW g \in Gauge, NEW l \in Levels[g], Move(g, l)
  PROVE  MInv'
<1>1. level \in [Gauge -> Level] /\ \A h \in Gauge : level[h] \in Levels[h]
  BY DEF MInv, MTyped
<1>2. l \in Level
  BY DEF Level
<1>3. level' \in [Gauge -> Level] /\ \A h \in Gauge : level'[h] \in Levels[h]
  BY <1>1, <1>2 DEF Move
<1>. QED BY <1>3, ElsewhereKeeps DEF Move

LEMMA MonitoringInit == Init => MInv
<1>. SUFFICES ASSUME Init PROVE MInv
  OBVIOUS
<1>1. \A g \in Gauge : level[g] \in Levels[g]
  BY DEF Init
<1>2. level \in [Gauge -> Level]
  BY DEF Init
<1>3. collector \in [Collector -> Process] /\ \A c \in Collector : collector[c] = Resting
  BY RestingFits DEF Init
<1>4. MTyped
  <2>1. NoAlert \in [active : BOOLEAN, occurrences : 0..Many]
    BY MonitoringAssumption DEF NoAlert
  <2>2. alerts \in [Possible -> [active : BOOLEAN, occurrences : 0..Many]]
    BY <2>1 DEF Init
  <2>3. notes \in [Possible -> 0..Many] /\ events \in [Possible -> 0..Many]
    BY MonitoringAssumption DEF Init
  <2>4. /\ deaths \in 0..MaxDeaths
        /\ unsaid \in [Possible -> Nat] /\ \A f \in Possible : unsaid[f] <= deaths
    BY MonitoringAssumption DEF Init
  <2>. QED BY <1>1, <1>2, <1>3, <2>2, <2>3, <2>4 DEF MTyped
<1>5. ASSUME NEW f \in Possible
      PROVE  IsFiniteSet(Telling(f)) /\ Booked(f)
  <2>1. Telling(f) = {} /\ Auditing(f) = {}
    BY <1>3 DEF Telling, Auditing, Resting, Sampled
  <2>2. /\ alerts[f].occurrences = 0 /\ events[f] = 0 /\ notes[f] = 0 /\ unsaid[f] = 0
    BY DEF Init, NoAlert
  <2>. QED BY <2>1, <2>2, FS_EmptySet DEF Booked
<1>. QED BY <1>3, <1>4, <1>5, RestingFits DEF MInv

LEMMA MonitoringStep == MInv /\ [Next]_mvars => MInv'
<1>. SUFFICES ASSUME MInv, [Next]_mvars PROVE MInv'
  OBVIOUS
<1>1. CASE UNCHANGED mvars
  BY <1>1, ElsewhereKeeps DEF mvars, MInv, MTyped
<1>2. ASSUME NEW c \in Collector, Step(c) \/ Die(c) PROVE MInv'
  BY <1>2, SampleKeeps, LookKeeps, InsertKeeps, UpdateKeeps, NotifyKeeps, AuditKeeps,
     ResolveMissingKeeps, ReportKeeps, DieKeeps DEF Step
<1>3. ASSUME NEW g \in Gauge, NEW l \in Levels[g], Move(g, l) PROVE MInv'
  BY <1>3, MoveKeeps
<1>. QED BY <1>1, <1>2, <1>3 DEF Next

THEOREM MonitoringInvariance == Spec => []MInv
BY MonitoringInit, MonitoringStep, PTL DEF Spec

-----------------------------------------------------------------------------

LEMMA BooksAreRight == MInv => OccurrencesTold
<1>. SUFFICES ASSUME MInv PROVE OccurrencesTold
  OBVIOUS
<1>1. TypeOK
  <2>1. deaths \in 0..MaxDeaths /\ unsaid \in [Possible -> 0..MaxDeaths]
    BY MonitoringAssumption DEF MInv, MTyped
  <2>2. ASSUME NEW c \in Collector
        PROVE  /\ collector[c].at \in Gauge \cup
                      {"alerts", "write", "notify", "audit", "report"}
               /\ collector[c].at \in {"write", "notify", "audit"} => collector[c].todo # {}
               /\ collector[c].found \subseteq Possible
    BY DEF MInv, MTyped, Process, Place, Knows
  <2>. QED BY <2>1, <2>2 DEF MInv, MTyped, TypeOK
<1>2. ASSUME NEW f \in Possible, alerts[f].occurrences < Many
      PROVE  /\ alerts[f].occurrences = events[f] + unsaid[f] + Cardinality(Telling(f))
             /\ notes[f] \in events[f]..alerts[f].occurrences
  <2>1. IsFiniteSet(Telling(f)) /\ Booked(f)
    BY DEF MInv
  <2>2. /\ Cardinality(Telling(f)) \in Nat /\ Cardinality(Auditing(f)) \in Nat
        /\ Cardinality(Auditing(f)) <= Cardinality(Telling(f))
    BY <2>1, AuditingTell
  <2>3. /\ events[f] \in Nat /\ notes[f] \in Nat /\ unsaid[f] \in Nat
        /\ alerts[f].occurrences \in Nat
    BY MonitoringAssumption DEF MInv, MTyped
  <2>. QED BY <1>2, <2>1, <2>2, <2>3 DEF Booked
<1>. QED BY <1>1, <1>2 DEF OccurrencesTold, Telling

\* However many collections race and die, no occurrence of an alert is lost
\* or counted twice: upsert_alert, notify and the audit event of collect.
THEOREM NothingUntold == Spec => []OccurrencesTold
BY MonitoringInvariance, BooksAreRight, PTL

LEMMA SightStep ==
  ASSUME MInv, [Next]_mvars, NEW f \in Possible, f \in Active, ~alerts'[f].active
  PROVE  \E c \in Collector : /\ collector[c].at = "alerts" /\ collector'[c].at = "report"
                               /\ collector[c].seen[f[1]] # f[2]
<1>1. /\ alerts \in [Possible -> [active : BOOLEAN, occurrences : 0..Many]]
      /\ collector \in [Collector -> Process] /\ alerts[f].active
  BY DEF MInv, MTyped, Active
<1>2. ~ UNCHANGED alerts
  BY <1>1
<1>3. PICK c \in Collector : Insert(c) \/ Update(c) \/ ResolveMissing(c)
  BY <1>2 DEF Next, Step, Sample, Look, Notify, Audit, Report, Die, Move, mvars, tables
<1>4. ~Insert(c)
  <2>1. SUFFICES ASSUME Insert(c) PROVE FALSE
    OBVIOUS
  <2>2. alerts' = [alerts EXCEPT ![Current(c)] = [active |-> TRUE, occurrences |-> 1]]
    BY <1>2, <2>1 DEF Insert
  <2>. QED BY <1>1, <2>2
<1>5. ~Update(c)
  <2>1. SUFFICES ASSUME Update(c) PROVE FALSE
    OBVIOUS
  <2>2. PICK n : alerts' = [alerts EXCEPT ![Current(c)] = [active |-> TRUE, occurrences |-> n]]
    BY <2>1 DEF Update
  <2>. QED BY <1>1, <2>2
<1>6. /\ collector[c].at = "alerts" /\ collector[c].todo = {}
      /\ alerts' = [h \in Possible |->
                      [alerts[h] EXCEPT !.active = @ /\ h \in collector[c].found]]
      /\ collector' = [collector EXCEPT ![c].at = "report"]
  BY <1>3, <1>4, <1>5 DEF ResolveMissing, Deactivate
<1>7. f \notin collector[c].found
  BY <1>1, <1>6
<1>8. collector'[c].at = "report"
  BY <1>1, <1>6 DEF Process
<1>9. f = <<f[1], f[2]>> /\ f[1] \in Gauge /\ f[2] # "ok"
  BY PossibleAre
<1>10. \A g \in Gauge : collector[c].seen[g] # "ok" =>
                          <<g, collector[c].seen[g]>> \in collector[c].found
  BY <1>6 DEF MInv, Knows
<1>11. collector[c].seen[f[1]] # f[2]
  <2>1. SUFFICES ASSUME collector[c].seen[f[1]] = f[2] PROVE FALSE
    OBVIOUS
  <2>2. <<f[1], f[2]>> \in collector[c].found
    BY <1>9, <1>10, <2>1
  <2>. QED BY <1>7, <1>9, <2>2
<1>. QED BY <1>6, <1>8, <1>11

\* No alert is resolved by a collection that did not itself see its gauge at
\* another level: resolve_missing, whatever happened to the writes before it.
THEOREM NothingResolvedUnseen == Spec => ResolvedOnSight
<1>1. MInv /\ [Next]_mvars =>
        [\A f \in Possible : f \in Active /\ ~alerts'[f].active =>
           \E c \in Collector : /\ collector[c].at = "alerts" /\ collector'[c].at = "report"
                                /\ collector[c].seen[f[1]] # f[2]]_mvars
  BY SightStep
<1>. QED BY <1>1, MonitoringInvariance, PTL DEF Spec, ResolvedOnSight

=============================================================================
