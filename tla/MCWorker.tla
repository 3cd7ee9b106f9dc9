------------------------------ MODULE MCWorker ------------------------------
(* Model-checking instance of Worker: the workers are interchangeable.       *)
EXTENDS Worker, TLC

Workers == Permutations(WorkerId)
=============================================================================
