----------------------------- MODULE MCTransfer -----------------------------
(* Model-checking instance of Transfer: two jobs copy one source to one      *)
(* destination.                                                              *)
EXTENDS Transfer, TLC

CONSTANTS t1, t2, s1, d1

OneSource == [t \in Task |-> s1]
OneDest   == [t \in Task |-> d1]
UploadAndArchive == (t1 :> "UPLOAD") @@ (t2 :> "ARCHIVE")
=============================================================================
