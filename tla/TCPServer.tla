----------------------------- MODULE TCPServer ------------------------------
(***************************************************************************)
(* The TCP server (tcp-server.go): the Serve goroutine that admits         *)
(* connections under a limit, one goroutine per connection that reads      *)
(* messages and binds the connection to the MAC address of the first one,  *)
(* and Close.                                                              *)
(*                                                                         *)
(* The steps are the points where these goroutines can interleave: channel *)
(* operations, sections locked by server.mu, sockets, the WaitGroup and    *)
(* the two device callbacks, which run outside the lock.  A connection is  *)
(* its ID.  Malformed messages that do not break the framing, and messages *)
(* with another MAC than the bound one, are counted and dropped; they      *)
(* change nothing else and are not modelled.                               *)
(***************************************************************************)
EXTENDS Integers, FiniteSets

CONSTANTS
    MAC,                    \* MAC addresses
    NoMAC,                  \* connection.mac of an unbound connection
    MaximumConnections,     \* options.MaximumConnections
    MaxID                   \* bound: connections admitted in all

ASSUME TCPAssumption ==
    /\ NoMAC \notin MAC
    /\ MaximumConnections \in Nat \ {0} /\ MaxID \in Nat

VARIABLES
    listening,      \* the listener is open
    serve,          \* where Serve is: "accept", "admit", "insert", "spawn" or "exited"
    nextID,         \* server.nextID
    limit,          \* tokens in the channel server.limit
    active,         \* the counter of active connections
    waitGroup,      \* the counter of server.waitGroup
    connections,    \* server.connections
    byMAC,          \* server.byMAC; 0 for no entry
    pc,             \* connection -> where its goroutine is
    socket,         \* connection -> its socket is open on our side
    got,            \* connection -> MAC of the message being handled
    mac,            \* connection.mac; connection.bound is mac # NoMAC
    previous,       \* local of bindConnection
    closer,         \* where Close is
    toClose,        \* local of Close: connections it has yet to close
    late            \* history: connections started after Close collected its list

admission == <<serve, nextID, limit, active>>
registry == <<connections, byMAC>>
handler == <<pc, got, mac, previous>>
closing == <<listening, closer, toClose>>
tcpVars == <<closing, admission, waitGroup, registry, handler, socket, late>>

ID == 1..MaxID

TCPInit ==
    /\ listening = TRUE /\ closer = "idle" /\ toClose = {}
    /\ serve = "accept" /\ nextID = 0 /\ limit = 0 /\ active = 0 /\ waitGroup = 0
    /\ connections = {} /\ byMAC = [m \in MAC |-> 0]
    /\ pc = [c \in ID |-> "none"] /\ socket = [c \in ID |-> FALSE]
    /\ got = [c \in ID |-> NoMAC] /\ mac = [c \in ID |-> NoMAC]
    /\ previous = [c \in ID |-> 0] /\ late = {}

-----------------------------------------------------------------------------
(* Serve and startConnection *)

Accept ==
    /\ serve = "accept" /\ listening /\ nextID < MaxID
    /\ serve' = "admit"
    /\ UNCHANGED <<closing, nextID, limit, active, waitGroup, registry, handler, socket, late>>

(* The listener is closed, or Accept fails and Serve returns the error.    *)
AcceptFails ==
    /\ serve = "accept"
    /\ serve' = "exited"
    /\ UNCHANGED <<closing, nextID, limit, active, waitGroup, registry, handler, socket, late>>

Admit ==
    /\ serve = "admit" /\ limit < MaximumConnections
    /\ limit' = limit + 1 /\ nextID' = nextID + 1
    /\ socket' = [socket EXCEPT ![nextID + 1] = TRUE]
    /\ serve' = "insert"
    /\ UNCHANGED <<closing, active, waitGroup, registry, handler, late>>

(* The limit is reached: the connection is closed.                         *)
Reject ==
    /\ serve = "admit" /\ limit = MaximumConnections
    /\ serve' = "accept"
    /\ UNCHANGED <<closing, nextID, limit, active, waitGroup, registry, handler, socket, late>>

Insert ==
    /\ serve = "insert"
    /\ connections' = connections \cup {nextID}
    /\ serve' = "spawn"
    /\ UNCHANGED <<closing, nextID, limit, active, waitGroup, byMAC, handler, socket, late>>

Spawn ==
    /\ serve = "spawn"
    /\ active' = active + 1 /\ waitGroup' = waitGroup + 1
    /\ pc' = [pc EXCEPT ![nextID] = "read"]
    /\ late' = IF closer \in {"shut", "returned"} THEN late \cup {nextID} ELSE late
    /\ serve' = "accept"
    /\ UNCHANGED <<closing, nextID, limit, registry, got, mac, previous, socket>>

-----------------------------------------------------------------------------
(* serveConnection *)

(* A message with MAC address m has been read.                             *)
Read(c, m) ==
    /\ pc[c] = "read" /\ socket[c]
    /\ mac[c] \in {NoMAC, m}
    /\ got' = [got EXCEPT ![c] = m]
    /\ pc' = [pc EXCEPT ![c] = IF mac[c] = NoMAC THEN "bind" ELSE "route"]
    /\ UNCHANGED <<closing, admission, waitGroup, registry, mac, previous, socket, late>>

(* bindConnection, its locked section ...                                  *)
Bind(c) ==
    /\ pc[c] = "bind"
    /\ previous' = [previous EXCEPT ![c] = byMAC[got[c]]]
    /\ mac' = [mac EXCEPT ![c] = got[c]]
    /\ byMAC' = [byMAC EXCEPT ![got[c]] = c]
    /\ pc' = [pc EXCEPT ![c] = "connected"]
    /\ UNCHANGED <<closing, admission, waitGroup, connections, got, socket, late>>

(* ... the callback OnDeviceConnected ...                                  *)
NotifyConnected(c) ==
    /\ pc[c] = "connected"
    /\ pc' = [pc EXCEPT ![c] = "replace"]
    /\ UNCHANGED <<closing, admission, waitGroup, registry, got, mac, previous, socket, late>>

(* ... and the closing of the connection it replaces.                      *)
Replace(c) ==
    /\ pc[c] = "replace"
    /\ socket' = IF previous[c] \in {0, c} THEN socket ELSE [socket EXCEPT ![previous[c]] = FALSE]
    /\ pc' = [pc EXCEPT ![c] = "route"]
    /\ UNCHANGED <<closing, admission, waitGroup, registry, got, mac, previous, late>>

Route(c) ==
    /\ pc[c] = "route"
    /\ pc' = [pc EXCEPT ![c] = "read"]
    /\ UNCHANGED <<closing, admission, waitGroup, registry, got, mac, previous, socket, late>>

(* The socket was closed on our side.                                      *)
ReadClosed(c) ==
    /\ pc[c] = "read" /\ ~socket[c]
    /\ pc' = [pc EXCEPT ![c] = "remove"]
    /\ UNCHANGED <<closing, admission, waitGroup, registry, got, mac, previous, socket, late>>

(* The peer closed the connection, the framing is lost or the payload did  *)
(* not arrive in time; conn.Close is the first deferred call.              *)
ReadFails(c) ==
    /\ pc[c] = "read" /\ socket[c]
    /\ socket' = [socket EXCEPT ![c] = FALSE]
    /\ pc' = [pc EXCEPT ![c] = "remove"]
    /\ UNCHANGED <<closing, admission, waitGroup, registry, got, mac, previous, late>>

(* Mutant: the entry is deleted whoever it belongs to.                     *)
Remove_AnyEntry(c) ==
    /\ pc[c] = "remove"
    /\ connections' = connections \ {c}
    /\ byMAC' = [m \in MAC |-> IF m = mac[c] THEN 0 ELSE byMAC[m]]
    /\ pc' = [pc EXCEPT ![c] = "release"]
    /\ UNCHANGED <<closing, admission, waitGroup, got, mac, previous, socket, late>>

(* removeConnection.                                                       *)
Remove(c) ==
    /\ pc[c] = "remove"
    /\ connections' = connections \ {c}
    /\ byMAC' = [m \in MAC |-> IF m = mac[c] /\ byMAC[m] = c THEN 0 ELSE byMAC[m]]
    /\ pc' = [pc EXCEPT ![c] = "release"]
    /\ UNCHANGED <<closing, admission, waitGroup, got, mac, previous, socket, late>>

(* Mutant: a connection that never bound keeps its token.                  *)
Release_OnlyBound(c) ==
    /\ pc[c] = "release"
    /\ limit' = IF mac[c] = NoMAC THEN limit ELSE limit - 1
    /\ pc' = [pc EXCEPT ![c] = "uncount"]
    /\ UNCHANGED <<closing, serve, nextID, active, waitGroup, registry, got, mac, previous, socket, late>>

Release(c) ==
    /\ pc[c] = "release"
    /\ limit' = limit - 1
    /\ pc' = [pc EXCEPT ![c] = "uncount"]
    /\ UNCHANGED <<closing, serve, nextID, active, waitGroup, registry, got, mac, previous, socket, late>>

Uncount(c) ==
    /\ pc[c] = "uncount"
    /\ active' = active - 1
    /\ pc' = [pc EXCEPT ![c] = IF mac[c] = NoMAC THEN "finish" ELSE "disconnected"]
    /\ UNCHANGED <<closing, serve, nextID, limit, waitGroup, registry, got, mac, previous, socket, late>>

(* The callback OnDeviceDisconnected.                                      *)
NotifyDisconnected(c) ==
    /\ pc[c] = "disconnected"
    /\ pc' = [pc EXCEPT ![c] = "finish"]
    /\ UNCHANGED <<closing, admission, waitGroup, registry, got, mac, previous, socket, late>>

Finish(c) ==
    /\ pc[c] = "finish"
    /\ waitGroup' = waitGroup - 1
    /\ pc' = [pc EXCEPT ![c] = "done"]
    /\ UNCHANGED <<closing, admission, registry, got, mac, previous, socket, late>>

-----------------------------------------------------------------------------
(* Close *)

(* The context is cancelled and the listener closed.  From then on a       *)
(* connection that meets any error ends without a warning, and Route, to   *)
(* which the context is passed, refuses the records of its messages        *)
(* (modules Routing and Server); neither is the state of this module.      *)
CloseListener ==
    /\ closer = "idle"
    /\ listening' = FALSE
    /\ closer' = "collect"
    /\ UNCHANGED <<toClose, admission, waitGroup, registry, handler, socket, late>>

(* Mutant: only bound connections are collected.                           *)
CloseCollect_Bound ==
    /\ closer = "collect"
    /\ toClose' = {byMAC[m] : m \in MAC} \ {0}
    /\ closer' = "shut"
    /\ UNCHANGED <<listening, admission, waitGroup, registry, handler, socket, late>>

CloseCollect ==
    /\ closer = "collect"
    /\ toClose' = connections
    /\ closer' = "shut"
    /\ UNCHANGED <<listening, admission, waitGroup, registry, handler, socket, late>>

CloseShut(c) ==
    /\ closer = "shut" /\ c \in toClose
    /\ toClose' = toClose \ {c}
    /\ socket' = [socket EXCEPT ![c] = FALSE]
    /\ UNCHANGED <<listening, closer, admission, waitGroup, registry, handler, late>>

(* Mutant: Close does not wait.                                            *)
CloseReturns_Early ==
    /\ closer = "shut" /\ toClose = {}
    /\ closer' = "returned"
    /\ UNCHANGED <<listening, toClose, admission, waitGroup, registry, handler, socket, late>>

(* waitGroup.Wait returns.                                                 *)
CloseReturns ==
    /\ closer = "shut" /\ toClose = {} /\ waitGroup = 0
    /\ closer' = "returned"
    /\ UNCHANGED <<listening, toClose, admission, waitGroup, registry, handler, socket, late>>

-----------------------------------------------------------------------------
(* The steps of connection c that wait for nobody but server.mu.  Read and *)
(* ReadFails are not among them: a peer may stay silent for ever.          *)
Proceed(c) ==
    \/ Bind(c) \/ Replace(c) \/ Route(c) \/ ReadClosed(c)
    \/ Remove(c) \/ Release(c) \/ Uncount(c) \/ Finish(c)

ServeNext == Accept \/ AcceptFails \/ Admit \/ Reject \/ Insert \/ Spawn
CloseNext == CloseListener \/ CloseCollect \/ (\E c \in ID : CloseShut(c)) \/ CloseReturns
=============================================================================
