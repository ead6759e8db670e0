---------------------------- MODULE MCMonitoring ----------------------------
(* Two connections of one device, of which the first also reports samples; *)
(* a second device of the same room is silent.  One client may stall, the  *)
(* other reads on.  The goroutines of the UDP server act as a connection   *)
(* that reports and are left out to keep the instance small.               *)
EXTENDS Monitoring

CONSTANTS d1, d2, c1, c2, ok, high, fast, slow

MCReports == [g \in Connection \cup Worker |-> IF g = c1 THEN {d1} ELSE {}]
MCBoundTo == [c \in Connection |-> d1]
MCFeed == <<ok, high, ok>>
MCRoomOf == [d \in Device |-> "hall"]
=============================================================================
