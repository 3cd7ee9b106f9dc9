---------------------------- MODULE ControlCenter ----------------------------
(***************************************************************************)
(* The dashboard of teldrive_lab/control_center.py.  It is put together     *)
(* from many queries, each on a connection of its own, over the catalog and *)
(* the job table, while discovery and workers change them: a job that moves *)
(* is counted once, several times or not at all.                            *)
(*                                                                          *)
(* Jobs are numbered as they were created, records in the order of their    *)
(* paths.  A job moves as the statements of jobs.py let it (JobStore.tla *)
(* has their guards).  The health of the host is left out.                  *)
(***************************************************************************)
EXTENDS Integers, Sequences, FiniteSets, FiniteSetsExt

CONSTANTS
  Jobs, Records,  \* bounds on the jobs and the catalog's records
  Transferring,   \* the jobs of a type that moves files
  Foreign,        \* the records that are not of the source "teldrive"
  Media,          \* the records with the extension of a media file
  RowLimit, Cap,  \* the dashboard's limit on rows, and the limit of 1000 on counts
  MaxMoves        \* bound on the changes of the two tables

JobRow == 1..Jobs
RecordRow == 1..Records

ASSUME CenterAssumption ==
  /\ Jobs \in Nat /\ Records \in Nat /\ MaxMoves \in Nat
  /\ RowLimit \in Nat \ {0} /\ Cap \in Nat \ {0}
  /\ Transferring \subseteq JobRow /\ Foreign \subseteq RecordRow /\ Media \subseteq RecordRow

\* JobState, in the order of the enumeration.
Stages == <<"QUEUED", "RUNNING", "PAUSED", "VERIFYING", "COMPLETED", "FAILED", "CANCELLED">>
Stage  == {Stages[i] : i \in DOMAIN Stages}
Checks == {"UNVERIFIED", "VERIFIED"}
Missing == "missing"

VARIABLES
  stage,    \* the state of each job
  checked,  \* the verification state of each catalog record
  eventCount, \* how many events the audit log has
  moves,    \* changes so far
  view,     \* the dashboard: the next query, and what the earlier ones found
  touched   \* history: the rows changed since the dashboard was begun

centerVars == <<stage, checked, eventCount, moves, view, touched>>

\* Mutant of Queries: the jobs under verification are not asked for.
QueriesNoVerifying == <<"sample", "get", "count", "checks", "items">> \o
  <<"QUEUED", "RUNNING", "PAUSED", "COMPLETED", "FAILED", "CANCELLED">> \o
  <<"transfers", "media", "look up", "events", "number">>

\* The queries of dashboard(), in their order.
Queries == <<"sample", "get", "count", "checks", "items">> \o Stages \o
  <<"transfers", "media", "look up", "events", "number">>

NoView == [next |-> 0, sample |-> {}, total |-> 0, byCheck |-> [c \in Checks |-> 0],
           items |-> {}, counted |-> [j \in JobRow |-> 0], transfers |-> {}, active |-> {},
           media |-> {}, events |-> {}, number |-> 0]

CenterInit ==
  /\ stage \in [JobRow -> {Missing, "RUNNING"}]
  /\ \A i, j \in JobRow : i < j /\ stage[i] = Missing => stage[j] = Missing
  /\ checked \in [RecordRow -> {Missing, "UNVERIFIED"}]
  /\ eventCount = 0 /\ moves = 0
  /\ view = NoView
  /\ touched = {}

JobsIn(ss) == {j \in JobRow : stage[j] \in ss}
Listed     == {r \in RecordRow : checked[r] # Missing}
Newest(S, limit) == {x \in S : Cardinality({y \in S : y > x}) < limit}

-----------------------------------------------------------------------------
(* What others do to the tables.                                             *)

\* Where one statement of jobs.py takes a job; that of retry() asks only for
\* the id.
Onto(s) ==
  {"QUEUED", "FAILED"} \cup
  CASE s = "QUEUED"    -> {"RUNNING", "CANCELLED"}
    [] s = "RUNNING"   -> {"VERIFYING", "COMPLETED", "PAUSED", "CANCELLED"}
    [] s = "VERIFYING" -> {"COMPLETED", "CANCELLED"}
    [] s = "PAUSED"    -> {"CANCELLED"}
    [] OTHER           -> {}

Moved(row) == moves < MaxMoves /\ moves' = moves + 1 /\ touched' = touched \cup {row}

JobMoves(j) ==
  /\ stage[j] # Missing
  /\ \E s \in Onto(stage[j]) \ {stage[j]} : stage' = [stage EXCEPT ![j] = s]
  /\ Moved(<<"job", j>>)
  /\ UNCHANGED <<checked, eventCount, view>>

JobEnqueued ==
  \E j \in JobRow :
    /\ stage[j] = Missing /\ \A i \in 1..(j - 1) : stage[i] # Missing
    /\ stage' = [stage EXCEPT ![j] = "QUEUED"]
    /\ Moved(<<"job", j>>)
    /\ UNCHANGED <<checked, eventCount, view>>

\* Discovery adds, verifies and removes records.
RecordChanges(r) ==
  /\ \E c \in Checks \cup {Missing} : c # checked[r] /\ checked' = [checked EXCEPT ![r] = c]
  /\ Moved(<<"record", r>>)
  /\ UNCHANGED <<stage, eventCount, view>>

EventWritten ==
  /\ eventCount' = eventCount + 1
  /\ Moved(<<"event", eventCount'>>)
  /\ UNCHANGED <<stage, checked, view>>

-----------------------------------------------------------------------------
(* The dashboard.                                                            *)

OpenView ==
  /\ view.next \in {0, Len(Queries) + 1}
  /\ view' = [NoView EXCEPT !.next = 1]
  /\ touched' = {}
  /\ UNCHANGED <<stage, checked, eventCount, moves>>

\* Those of rs that were seen last; the catalog of this model does not say which.
SeenLast(rs) == {S \in SUBSET rs : Cardinality(S) = Min({RowLimit, Cardinality(rs)})}

\* The first records of "teldrive", or else those of all that were seen last.
Samples ==
  LET own == Listed \ Foreign IN
  IF own # {} THEN {{r \in own : Cardinality({s \in own : s < r}) < RowLimit}}
  ELSE SeenLast(Listed)

QuerySample ==
  /\ view.next \in DOMAIN Queries
  /\ \/ /\ Queries[view.next] = "sample"
        /\ \E S \in Samples : view' = [view EXCEPT !.sample = S, !.next = @ + 1]
     \/ /\ Queries[view.next] = "media"
        /\ \E S \in SeenLast(Listed \cap Media) : view' = [view EXCEPT !.media = S, !.next = @ + 1]
  /\ UNCHANGED <<stage, checked, eventCount, moves, touched>>

\* media_state looks its records up again.
MediaAnswer == [view EXCEPT !.media = @ \cap Listed]

\* audit_state: the last events, and then their number.
AuditAnswer(q) ==
  IF q = "events" THEN [view EXCEPT !.events = Newest(1..eventCount, RowLimit)]
                  ELSE [view EXCEPT !.number = eventCount]

\* catalog_state: those of a sample of all are looked up again (here in one
\* step); the number of records; their groups.
\* jobs_state: the newest jobs, and those in each state.  transfers_state.
Answer(q) ==
  CASE q = "get"    -> [view EXCEPT !.sample = IF @ \subseteq Foreign THEN @ \cap Listed ELSE @]
    [] q = "count"  -> [view EXCEPT !.total = Cardinality(Listed)]
    [] q = "checks" -> [view EXCEPT !.byCheck =
                          [c \in Checks |-> Cardinality({r \in Listed : checked[r] = c})]]
    [] q = "items"  -> [view EXCEPT !.items = Newest(JobsIn(Stage), RowLimit)]
    [] q \in Stage  -> [view EXCEPT !.counted = [j \in JobRow |->
                          view.counted[j] + IF j \in Newest(JobsIn({q}), Cap) THEN 1 ELSE 0]]
    [] q = "look up"             -> MediaAnswer
    [] q \in {"events", "number"} -> AuditAnswer(q)
    [] OTHER ->
         LET found == Newest(JobsIn(Stage), Cap) \cap Transferring IN
         [view EXCEPT !.transfers = Newest(found, RowLimit),
                      !.active = found \cap JobsIn({"RUNNING", "VERIFYING"})]

Query ==
  /\ view.next \in DOMAIN Queries /\ Queries[view.next] \notin {"sample", "media"}
  /\ view' = [Answer(Queries[view.next]) EXCEPT !.next = @ + 1]
  /\ UNCHANGED <<stage, checked, eventCount, moves, touched>>

CenterNext ==
  \/ \E j \in JobRow : JobMoves(j)
  \/ \E r \in RecordRow : RecordChanges(r)
  \/ JobEnqueued \/ EventWritten \/ OpenView \/ QuerySample \/ Query

CenterSpec == CenterInit /\ [][CenterNext]_centerVars

-----------------------------------------------------------------------------
(* Properties.                                                               *)

CenterTypes ==
  /\ stage \in [JobRow -> Stage \cup {Missing}] /\ checked \in [RecordRow -> Checks \cup {Missing}]
  /\ eventCount \in 0..MaxMoves /\ moves \in 0..MaxMoves /\ view.next \in 0..(Len(Queries) + 1)
  /\ view.counted \in [JobRow -> 0..Len(Stages)]
  /\ view.items \cup view.transfers \cup view.active \subseteq JobRow /\ view.sample \cup view.media \subseteq RecordRow
  /\ view.events \subseteq 1..eventCount /\ view.number \in 0..eventCount

\* Whatever moves during a dashboard, what did not move is shown as it is: such
\* a job is counted once, unless its state has more than Cap jobs, and shown if
\* few enough jobs are newer; and the number of records is off by no more than
\* the records that came or went.  The events shown are the last of those that
\* their number counts.
QuietRowsShown ==
  LET quiet == {j \in JobsIn(Stage) : <<"job", j>> \notin touched}
      still == {r \in RecordRow : <<"record", r>> \notin touched}
      few(j, S, limit) == Cardinality({i \in S : i > j}) < limit IN
  /\ CenterTypes
  /\ view.next = Len(Queries) + 1 =>
       /\ \A j \in quiet :
            /\ view.counted[j] <= 1
            /\ few(j, JobsIn(Stage), Cap) => view.counted[j] = 1
            /\ few(j, JobsIn(Stage), RowLimit) => j \in view.items
            /\ few(j, JobsIn(Stage), Cap) /\ j \in Transferring =>
                 (j \in view.active <=> stage[j] \in {"RUNNING", "VERIFYING"})
       /\ view.total - Cardinality(still \cap Listed) \in 0..Cardinality(RecordRow \ still)
       /\ view.sample \cap still \subseteq Listed
       /\ view.media \cap still \subseteq Listed \cap Media
       /\ view.events \subseteq 1..view.number
       /\ \A e \in 1..view.number : e \notin view.events =>
            <<"event", e>> \in touched \/ e + RowLimit <= view.number
       /\ touched = {} => view.total = view.byCheck["UNVERIFIED"] + view.byCheck["VERIFIED"]
=============================================================================
