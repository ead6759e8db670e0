----------------------------- MODULE MCPresence -----------------------------
(* Model-checking instance of Presence. *)
EXTENDS Presence
=============================================================================
