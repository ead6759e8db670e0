---------------------------- MODULE MCQuarantine ----------------------------
(* Messages with entries of lengths 2, 3 and 5: with a rotation size of 5  *)
(* the first two share a segment and the third fills one.  The first and   *)
(* the third are from the same device.                                     *)
EXTENDS Quarantine

CONSTANTS m1, m2, m3

MCSize == [m \in Message |-> CASE m = m1 -> 2 [] m = m2 -> 3 [] OTHER -> 5]
MCKnown == {{}, {m1, m3}, {m1, m2, m3}}
=============================================================================
