------------------------------ MODULE Presence ------------------------------
(***************************************************************************)
(* The TCP server with the monitoring state attached to its callbacks, as  *)
(* main.go does it: who is connected, according to the server's registry   *)
(* and according to what the HTTP plugin reports.                          *)
(***************************************************************************)
EXTENDS TCPServer

VARIABLE connectionID

Monitor == INSTANCE MonitoringState WITH
    Device <- MAC, Connection <- ID, NoConnection <- 0

vars == <<tcpVars, connectionID>>

Init == TCPInit /\ Monitor!MSInit

Connected(c) == NotifyConnected(c) /\ Monitor!OnDeviceConnected(c, mac[c])
Disconnected(c) == NotifyDisconnected(c) /\ Monitor!OnDeviceDisconnected(c, mac[c])

Receive(c) ==
    /\ (\E m \in MAC : Read(c, m)) \/ ReadFails(c)
    /\ UNCHANGED connectionID

Work(c) ==
    \/ Proceed(c) /\ UNCHANGED connectionID
    \/ Connected(c) \/ Disconnected(c)

Next ==
    \/ ServeNext /\ UNCHANGED connectionID
    \/ CloseNext /\ UNCHANGED connectionID
    \/ \E c \in ID : Receive(c) \/ Work(c)

Spec == Init /\ [][Next]_vars

(* Goroutines that can move do; Serve leaves Accept when the listener is   *)
(* closed.  Nothing is assumed of peers, nor that anyone calls Close.      *)
Fairness ==
    /\ WF_vars((ServeNext /\ (serve = "accept" => ~listening)) /\ UNCHANGED connectionID)
    /\ WF_vars(CloseNext /\ closer # "idle" /\ UNCHANGED connectionID)
    /\ \A c \in ID : WF_vars(Work(c))

FairSpec == Spec /\ Fairness

-----------------------------------------------------------------------------
(* Properties *)

Stages == {"none", "read", "bind", "connected", "replace", "route", "remove",
           "release", "uncount", "disconnected", "finish", "done"}

TypeOK ==
    /\ listening \in BOOLEAN /\ closer \in {"idle", "collect", "shut", "returned"}
    /\ serve \in {"accept", "admit", "insert", "spawn", "exited"}
    /\ nextID \in 0..MaxID /\ limit \in 0..MaximumConnections
    /\ active \in Nat /\ waitGroup \in Nat
    /\ connections \cup toClose \cup late \subseteq ID
    /\ byMAC \in [MAC -> ID \cup {0}] /\ connectionID \in [MAC -> ID \cup {0}]
    /\ pc \in [ID -> Stages] /\ socket \in [ID -> BOOLEAN] /\ previous \in [ID -> ID \cup {0}]
    /\ got \in [ID -> MAC \cup {NoMAC}] /\ mac \in [ID -> MAC \cup {NoMAC}]

(* Connections that hold a token of server.limit.                          *)
Admitted == {c \in ID : pc[c] \notin {"none", "uncount", "disconnected", "finish", "done"}}
    \cup (IF serve \in {"insert", "spawn"} THEN {nextID} ELSE {})

(* The limit counts exactly the connections between admission and release, *)
(* however they end: tokens neither leak nor are returned twice, and the   *)
(* map of connections never holds one without a token.                     *)
TokensMatchConnections == limit = Cardinality(Admitted) /\ connections \subseteq Admitted

(* "At most one TCP connection may be active for a MAC": of those bound to *)
(* one, all but the registered one are closed, or a goroutine is about to  *)
(* close them; and the registered one has not been removed: a connection   *)
(* on its way out neither deletes its replacement nor stays registered.    *)
OneActivePerMAC ==
    /\ \A m \in MAC : byMAC[m] # 0 => mac[byMAC[m]] = m /\ byMAC[m] \in connections
    /\ \A c \in ID :
        mac[c] # NoMAC /\ socket[c] /\ byMAC[mac[c]] # c =>
            \E r \in ID : pc[r] \in {"connected", "replace"} /\ previous[r] = c

(* A device reported as connected has a connection whose disconnection has *)
(* not been handled yet: whatever the order of callbacks of replaced and   *)
(* new connections, no device stays connected after its last one is gone.  *)
ReportsOnlyTheLiving ==
    \A m \in MAC : connectionID[m] # 0 =>
        mac[connectionID[m]] = m /\ pc[connectionID[m]] \notin {"finish", "done"}

(* When Close has returned, the goroutines of all connections started      *)
(* before it collected its list have ended, their disconnections reported. *)
CloseEndsConnections ==
    closer = "returned" => \A c \in ID \ late : pc[c] \in {"none", "done"}

(* Close returns without the help of any peer, unless a connection that    *)
(* was accepted before and started behind its back stays open.             *)
CloseCompletes == closer # "idle" ~> (closer = "returned" \/ \E c \in late : socket[c])

=============================================================================
