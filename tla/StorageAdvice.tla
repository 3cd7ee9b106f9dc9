---------------------------- MODULE StorageAdvice ----------------------------
(***************************************************************************)
(* Advice on what a cache could let go of: storage_tier, record_access,     *)
(* storage_heatmap and eviction_plan of teldrive_lab/advanced.py.           *)
(*                                                                          *)
(* A report reads the access log, lists the files, stats them one by one    *)
(* and plans, while others use, write, replace and remove them.  It goes on *)
(* with the clock it read first.  A plan is a proposal: nothing runs it.    *)
(***************************************************************************)
EXTENDS Integers, FiniteSets, FiniteSetsExt

CONSTANTS
  Cached,       \* how many files there can be; they are 1..Cached, sorted by name
  Biggest,      \* their possible sizes are 1..Biggest
  HotUses,      \* hot_accesses
  HotAge, WarmAge, \* ages up to which a file is hot, or warm, unused
  Target,       \* target_free_bytes
  MaxClock, MaxUses \* bounds on the clock and on what others do

ASSUME AdviceAssumption ==
  /\ Cached \in Nat \ {0} /\ Biggest \in Nat \ {0} /\ HotUses \in Nat \ {0}
  /\ HotAge \in Nat /\ WarmAge \in Nat /\ HotAge <= WarmAge
  /\ Target \in Nat /\ MaxClock \in Nat /\ MaxUses \in Nat

Files == 1..Cached
Removed == [size |-> 0, mtime |-> 0]
NoHeat  == [size |-> 0, tier |-> "none"]

VARIABLES
  cache,  \* size and mtime of each file
  log,    \* the access table: rows of each file
  clock,  \* the time, in days
  uses,   \* what others have done so far
  report, \* the report: where it is, its clock, counts, files to stat, heat and plan
  early   \* history: files used or written shortly before the report began

adviceVars == <<cache, log, clock, uses, report, early>>

NoReport == [at |-> "idle", now |-> 0, freq |-> [f \in Files |-> 0], left |-> {},
             heat |-> [f \in Files |-> NoHeat], plan |-> {}]

AdviceInit ==
  /\ cache \in [Files -> {[size |-> s, mtime |-> 0] : s \in 1..Biggest}]
  /\ log = [f \in Files |-> 0]
  /\ clock \in 0..MaxClock
  /\ uses = 0
  /\ report = NoReport
  /\ early = {}

There == {f \in Files : cache[f] # Removed}

\* Mutant of Tier: one use is as little as none.
TierByAge(n, age) ==
  IF n >= HotUses \/ age <= HotAge THEN "hot"
  ELSE IF n > 1 \/ age <= WarmAge THEN "warm" ELSE "cold"

\* storage_tier
Tier(n, age) ==
  IF n >= HotUses \/ age <= HotAge THEN "hot"
  ELSE IF n > 0 \/ age <= WarmAge THEN "warm" ELSE "cold"

-----------------------------------------------------------------------------
(* What others do.                                                           *)

Others == uses < MaxUses /\ uses' = uses + 1 /\ UNCHANGED <<report, early, clock>>

\* record_access
RecordAccess(f) == Others /\ log' = [log EXCEPT ![f] = @ + 1] /\ UNCHANGED cache

\* A file is written anew, or removed.
WriteFile(f, s) == Others /\ cache' = [cache EXCEPT ![f] = [size |-> s, mtime |-> clock]] /\ UNCHANGED log
RemoveFile(f)   == Others /\ cache' = [cache EXCEPT ![f] = Removed] /\ UNCHANGED log

DayPasses ==
  clock < MaxClock /\ clock' = clock + 1 /\ UNCHANGED <<cache, log, uses, report, early>>

-----------------------------------------------------------------------------
(* storage_heatmap and eviction_plan.                                        *)

\* The clock is read, then the log as a whole.
ReadLog ==
  /\ report.at \in {"idle", "planned"}
  /\ report' = [NoReport EXCEPT !.at = "list", !.now = clock, !.freq = log]
  /\ early' = {f \in Files : log[f] > 0 \/ (f \in There /\ clock - cache[f].mtime <= WarmAge)}
  /\ UNCHANGED <<cache, log, clock, uses>>

ListFiles ==
  /\ report.at = "list"
  /\ report' = [report EXCEPT !.at = "stat", !.left = There]
  /\ UNCHANGED <<cache, log, clock, uses, early>>

\* A file that is gone by now is passed over.
StatCached ==
  LET f == Min(report.left)
      age == Max({0, report.now - cache[f].mtime}) IN
  /\ report.at = "stat" /\ report.left # {}
  /\ report' = [report EXCEPT !.left = @ \ {f}, !.heat[f] =
       IF f \notin There THEN NoHeat
       ELSE [size |-> cache[f].size, tier |-> Tier(report.freq[f], age)]]
  /\ UNCHANGED <<cache, log, clock, uses, early>>

Cold == {f \in Files : report.heat[f].tier = "cold"}

\* Their sizes in all, byte by byte.
SizeOf(fs) == Cardinality({fb \in fs \X (1..Biggest) : fb[2] <= report.heat[fb[1]].size})

\* The order of candidates: by score, which is 0 for whatever is cold, then the
\* largest, then by path.
Ahead(f, g) == report.heat[f].size > report.heat[g].size
            \/ (report.heat[f].size = report.heat[g].size /\ f < g)

\* Candidates are taken in order as long as those before them are too few.
PlanEviction ==
  /\ report.at = "stat" /\ report.left = {}
  /\ report' = [report EXCEPT !.at = "planned",
       !.plan = {f \in Cold : SizeOf({g \in Cold : Ahead(g, f)}) < Target}]
  /\ UNCHANGED <<cache, log, clock, uses, early>>

AdviceNext ==
  \/ ReadLog \/ ListFiles \/ StatCached \/ PlanEviction
  \/ \E f \in Files : RecordAccess(f) \/ RemoveFile(f) \/ \E s \in 1..Biggest : WriteFile(f, s)
  \/ DayPasses

AdviceSpec == AdviceInit /\ [][AdviceNext]_adviceVars

-----------------------------------------------------------------------------
(* Properties.                                                               *)

AdviceTypes ==
  /\ cache \in [Files -> [size : 0..Biggest, mtime : 0..MaxClock]]
  /\ log \in [Files -> 0..MaxUses] /\ clock \in 0..MaxClock /\ uses \in 0..MaxUses
  /\ report.left \subseteq Files /\ report.plan \subseteq Files /\ early \subseteq Files
  /\ \A f \in Files : report.heat[f] = NoHeat \/ report.heat[f].tier \in {"hot", "warm", "cold"}

\* A plan of eviction_plan takes cold files only, enough of them or all there
\* are, and no smaller number of them would have done.  And a file that was
\* used, or written within the warm age, before the report began is spared,
\* however long the report takes and whatever the clock and the others do.
AdviceSound ==
  /\ AdviceTypes
  /\ report.at = "planned" =>
       /\ report.plan \subseteq Cold \ early
       /\ SizeOf(report.plan) >= Target \/ report.plan = Cold
       /\ \A fs \in SUBSET Cold : Cardinality(fs) < Cardinality(report.plan) => SizeOf(fs) < Target
=============================================================================
