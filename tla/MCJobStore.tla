----------------------------- MODULE MCJobStore -----------------------------
(* Model-checking instance of JobStore: the symmetry of its model values.    *)
EXTENDS JobStore, TLC

CallersAndWorkers == Permutations(WorkerId) \cup Permutations(Caller)
=============================================================================
