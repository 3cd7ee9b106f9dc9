---------------------------- MODULE MCLifecycle ----------------------------
(* Model-checking instance of Lifecycle: two sources with the same name, one *)
(* of which is quarantined under either of two roots.                        *)
EXTENDS Lifecycle, TLC

CONSTANTS n1, s1, s2, r1, r2

OneName == [s \in Source |-> n1]
ThreeTargets == {<<s1, r1>>, <<s1, r2>>, <<s2, r1>>}

Interchangeable == Permutations(Cleaner) \cup Permutations(Purger)
=============================================================================
