---------------------------- MODULE MCDataStream ----------------------------
(* Model-checking instance of DataStream. *)
EXTENDS DataStream
=============================================================================
