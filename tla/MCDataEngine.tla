---------------------------- MODULE MCDataEngine ----------------------------
(* Model-checking instance of DataEngine. *)
EXTENDS DataEngine
=============================================================================
