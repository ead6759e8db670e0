----------------------------- MODULE MCDataFile -----------------------------
(* Model-checking instance of DataFileOwner, with the mutants of its code. *)
EXTENDS DataFileOwner
=============================================================================
