------------------------------ MODULE MCBackup ------------------------------
(* Model-checking instance of Backup: interchangeable schedulers.            *)
EXTENDS Backup, TLC

Runners == Permutations(Runner)

Running == {r \in Runner : runner[r] # Idle}

\* Bounds the instance.  Time passes during a run_due only if it is alone, and one
\* row at most is locked.  When a restore has begun, no process dies, no attempt
\* fails, no row is locked, and calls of run_due do not overlap.
Narrow ==
  /\ Cardinality(Running) > 1 => \A r \in Running : runner[r].late = 0
  /\ Cardinality({x \in Row : row[x].locked}) <= 1
  /\ restores # <<[o \in Restorer |-> Resting], [i \in Item |-> None]>> =>
       /\ crashes = 0 /\ Cardinality(Running) <= 1
       /\ \A n \in Job : job[n].attempts = 0
       /\ \A x \in Row : ~row[x].locked
=============================================================================
