----------------------------- MODULE Monitoring -----------------------------
(***************************************************************************)
(* `td monitor collect`: collect, evaluate and the MonitoringStore of       *)
(* teldrive_lab/monitoring.py.                                              *)
(*                                                                          *)
(* A collection reads three gauges, one after the other, writes an alert    *)
(* for each that is not "ok", and then resolves every other alert.  Each    *)
(* statement on the store commits on its own, several collections overlap,  *)
(* the gauges move all the time, and a collection may die at every step.    *)
(* A fingerprint is a gauge and its level.  The integrity count and the     *)
(* backup status that a caller may pass would be further gauges.            *)
(***************************************************************************)
EXTENDS Integers, FiniteSets, Sequences

CONSTANTS
  Collector,  \* the processes that collect
  Levels,     \* gauge -> its levels, "ok" among them
  Many,       \* counts stop here
  MaxDeaths   \* bound on deaths of collections

Sampled   == <<"health", "disk", "jobs">>  \* the order of reading the gauges
Evaluated == [disk |-> 1, health |-> 2, jobs |-> 3]  \* the order of writing the alerts
Gauge == {"health", "disk", "jobs"}

ASSUME MonitoringAssumption ==
  /\ DOMAIN Levels = Gauge
  /\ \A g \in Gauge : "ok" \in Levels[g]
  /\ Many \in Nat \ {0} /\ MaxDeaths \in Nat

Level == UNION {Levels[g] : g \in Gauge}

\* The fingerprints of the alerts there can be: a gauge and its level.
Possible == {f \in Gauge \X Level : f[2] \in Levels[f[1]] /\ f[2] # "ok"}

VARIABLES
  level,      \* gauge -> its level
  alerts,     \* the alerts table, by fingerprint
  notes,      \* fingerprint -> its rows in the notifications table
  events,     \* fingerprint -> its MONITOR events in the audit log
  collector,  \* each process's collection
  deaths,     \* deaths so far
  unsaid      \* history: fingerprint -> alerts written by a collection that died
              \* before it had told of them

tables == <<alerts, notes, events>>
mvars  == <<level, tables, collector, deaths, unsaid>>

NoAlert == [active |-> FALSE, occurrences |-> 0]
\* Between collections a process is about to read the first gauge.
Resting == [at |-> Sampled[1], seen |-> [g \in Gauge |-> "ok"], todo |-> {},
            row |-> FALSE, found |-> {}]

Count(n) == IF n < Many THEN n + 1 ELSE Many
Active == {f \in Possible : alerts[f].active}
\* The next gauge to write of, and its alert.
Due(todo) == CHOOSE g \in todo : \A h \in todo : Evaluated[g] <= Evaluated[h]
Current(c) == LET g == Due(collector[c].todo) IN <<g, collector[c].seen[g]>>

Init ==
  /\ level \in {v \in [Gauge -> Level] : \A g \in Gauge : v[g] \in Levels[g]}
  /\ alerts = [f \in Possible |-> NoAlert]
  /\ notes = [f \in Possible |-> 0]
  /\ events = [f \in Possible |-> 0]
  /\ collector = [c \in Collector |-> Resting]
  /\ deaths = 0
  /\ unsaid = [f \in Possible |-> 0]

-----------------------------------------------------------------------------
(* collect, step by step *)

\* evaluate: at most one alert of each gauge.
Evaluate(seen) == {g \in Gauge : seen[g] # "ok"}

\* health_probe, storage_snapshot and job_snapshot, each at its own time.
Sample(c) ==
  \E k \in DOMAIN Sampled :
    LET g == Sampled[k]
        seen == [collector[c].seen EXCEPT ![g] = level[g]]
    IN
    /\ collector[c].at = g
    /\ collector' = [collector EXCEPT ![c].seen = seen,
         ![c].at = IF k < Len(Sampled) THEN Sampled[k + 1] ELSE "alerts",
         ![c].todo = IF k < Len(Sampled) THEN {} ELSE Evaluate(seen)]
    /\ UNCHANGED <<level, tables, deaths, unsaid>>

\* upsert_alert looks the fingerprint up ...
Look(c) ==
  /\ collector[c].at = "alerts" /\ collector[c].todo # {}
  /\ collector' = [collector EXCEPT ![c].at = "write", ![c].row = alerts[Current(c)] # NoAlert]
  /\ UNCHANGED <<level, tables, deaths, unsaid>>

\* The row is written, and its fingerprint is one of those that hold.
Wrote(c) ==
  collector' = [collector EXCEPT ![c].at = "notify", ![c].found = @ \cup {Current(c)}]

\* Mutant of Insert: INSERT OR REPLACE.
InsertOver(c) ==
  /\ collector[c].at = "write" /\ ~collector[c].row
  /\ alerts' = [alerts EXCEPT ![Current(c)] = [active |-> TRUE, occurrences |-> 1]]
  /\ Wrote(c)
  /\ UNCHANGED <<level, notes, events, deaths, unsaid>>

\* ... and inserts a row if it found none.  The fingerprint is UNIQUE: if
\* another collection was faster, the IntegrityError ends this one.
Insert(c) ==
  /\ collector[c].at = "write" /\ ~collector[c].row
  /\ IF alerts[Current(c)] = NoAlert
     THEN /\ alerts' = [alerts EXCEPT ![Current(c)] = [active |-> TRUE, occurrences |-> 1]]
          /\ Wrote(c)
     ELSE /\ collector' = [collector EXCEPT ![c] = Resting]
          /\ UNCHANGED alerts
  /\ UNCHANGED <<level, notes, events, deaths, unsaid>>

\* Mutant of Update: a resolved alert is counted but stays resolved.
UpdateQuietly(c) ==
  /\ collector[c].at = "write" /\ collector[c].row
  /\ alerts' = [alerts EXCEPT ![Current(c)].occurrences = Count(@)]
  /\ Wrote(c)
  /\ UNCHANGED <<level, notes, events, deaths, unsaid>>

\* Or it updates the row, whatever has become of it, counting in SQL.
Update(c) ==
  /\ collector[c].at = "write" /\ collector[c].row
  /\ alerts' = [alerts EXCEPT ![Current(c)] = [active |-> TRUE, occurrences |-> Count(@.occurrences)]]
  /\ Wrote(c)
  /\ UNCHANGED <<level, notes, events, deaths, unsaid>>

Notify(c) ==
  /\ collector[c].at = "notify"
  /\ notes' = [notes EXCEPT ![Current(c)] = Count(@)]
  /\ collector' = [collector EXCEPT ![c].at = "audit"]
  /\ UNCHANGED <<level, alerts, events, deaths, unsaid>>

Audit(c) ==
  /\ collector[c].at = "audit"
  /\ events' = [events EXCEPT ![Current(c)] = Count(@)]
  /\ collector' = [collector EXCEPT ![c].at = "alerts", ![c].todo = @ \ {Current(c)[1]}]
  /\ UNCHANGED <<level, alerts, notes, deaths, unsaid>>

\* The alerts outside kept become inactive.
Deactivate(c, kept) ==
  /\ alerts' = [f \in Possible |-> [alerts[f] EXCEPT !.active = @ /\ f \in kept]]
  /\ collector' = [collector EXCEPT ![c].at = "report"]

\* Mutant of ResolveMissing: the statement without its NOT IN.
ResolveAll(c) ==
  /\ collector[c].at = "alerts" /\ collector[c].todo = {}
  /\ Deactivate(c, {})
  /\ UNCHANGED <<level, notes, events, deaths, unsaid>>

\* resolve_missing: what this collection has not found is over.
ResolveMissing(c) ==
  /\ collector[c].at = "alerts" /\ collector[c].todo = {}
  /\ Deactivate(c, collector[c].found)
  /\ UNCHANGED <<level, notes, events, deaths, unsaid>>

\* The active alerts are read again, and decide the exit status.
Report(c) ==
  /\ collector[c].at = "report"
  /\ collector' = [collector EXCEPT ![c] = Resting]
  /\ UNCHANGED <<level, tables, deaths, unsaid>>

\* The process dies, or a locked database ends the collection.
Die(c) ==
  /\ collector[c].at # Sampled[1] /\ deaths < MaxDeaths
  /\ deaths' = deaths + 1
  /\ unsaid' = IF collector[c].at \in {"notify", "audit"}
               THEN [unsaid EXCEPT ![Current(c)] = @ + 1] ELSE unsaid
  /\ collector' = [collector EXCEPT ![c] = Resting]
  /\ UNCHANGED <<level, tables>>

-----------------------------------------------------------------------------

\* The observed system moves.
Move(g, l) ==
  /\ level[g] # l
  /\ level' = [level EXCEPT ![g] = l]
  /\ UNCHANGED <<tables, collector, deaths, unsaid>>

Step(c) ==
  \/ Sample(c) \/ Look(c) \/ Insert(c) \/ Update(c)
  \/ Notify(c) \/ Audit(c) \/ ResolveMissing(c) \/ Report(c)

Next ==
  \/ \E c \in Collector : Step(c) \/ Die(c)
  \/ \E g \in Gauge : \E l \in Levels[g] : Move(g, l)

Spec == Init /\ [][Next]_mvars

\* A timer outside the repository runs the command again and again, and no
\* statement waits for ever.
FairSpec == Spec /\ \A c \in Collector : WF_mvars(Step(c))

-----------------------------------------------------------------------------

\* Every variable has its type; a collection writes only what is left to write.
\* A conjunct of OccurrencesTold.
TypeOK ==
  /\ level \in [Gauge -> Level]
  /\ alerts \in [Possible -> [active : BOOLEAN, occurrences : 0..Many]]
  /\ notes \in [Possible -> 0..Many] /\ events \in [Possible -> 0..Many]
  /\ deaths \in 0..MaxDeaths /\ unsaid \in [Possible -> 0..MaxDeaths]
  /\ \A c \in Collector :
       /\ collector[c].at \in Gauge \cup
            {"alerts", "write", "notify", "audit", "report"}
       /\ collector[c].at \in {"write", "notify", "audit"} => collector[c].todo # {}
       /\ collector[c].found \subseteq Possible

\* No occurrence is lost or counted twice, however collections race: each one
\* counted has been notified and audited, or its collection is about to do so
\* or died there.
OccurrencesTold ==
  /\ TypeOK
  /\ \A f \in Possible : alerts[f].occurrences < Many =>
       /\ alerts[f].occurrences = events[f] + unsaid[f]
            + Cardinality({c \in Collector : /\ collector[c].at \in {"notify", "audit"}
                                             /\ Current(c) = f})
       /\ notes[f] \in events[f]..alerts[f].occurrences

\* An alert is resolved only by a collection that itself read another level
\* of its gauge: never because a write was skipped or a statement failed.
ResolvedOnSight ==
  [][\A f \in Possible : f \in Active /\ ~alerts'[f].active =>
       \E c \in Collector : /\ collector[c].at = "alerts" /\ collector'[c].at = "report"
                            /\ collector[c].seen[f[1]] # f[2]]_mvars

\* Whatever overlapping collections do to each other on the way: once a gauge
\* stays at a level, the alert of that level becomes active for good, and once
\* it stays away from it, the alert is resolved for good.
Converges ==
  \A f \in Possible :
    /\ <>[](level[f[1]] = f[2]) => <>[](f \in Active)
    /\ <>[](level[f[1]] # f[2]) => <>[](f \notin Active)
=============================================================================
