------------------------------ MODULE MCCatalog ------------------------------
(* Model-checking instance of Catalog: interchangeable files and processes.  *)
EXTENDS Catalog, TLC

Interchangeable == Permutations(Path) \cup Permutations(Scanner)
=============================================================================
