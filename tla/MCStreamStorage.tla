-------------------------- MODULE MCStreamStorage --------------------------
(* Model-checking instance of StreamStorage. *)
EXTENDS StreamStorage
=============================================================================
