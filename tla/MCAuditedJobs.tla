---------------------------- MODULE MCAuditedJobs ----------------------------
(* Model-checking instance of AuditedJobs: one job, two workers and an       *)
(* operator, one lost event.                                                 *)
EXTENDS AuditedJobs, TLC

Workers == Permutations(WorkerId)
=============================================================================
