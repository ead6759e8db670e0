-------------------------- MODULE MonitoringState ---------------------------
(***************************************************************************)
(* The connection state the HTTP plugin reports for a device               *)
(* (plugins/http/monitor-state.go), updated by the callbacks of the TCP    *)
(* server.  Each callback is one section locked by state.mu.               *)
(***************************************************************************)
CONSTANTS Device, Connection, NoConnection

VARIABLE connectionID   \* device.connectionID; NoConnection when not device.connected

MSInit == connectionID = [d \in Device |-> NoConnection]

OnDeviceConnected(c, d) ==
    connectionID' = [connectionID EXCEPT ![d] = c]

(* Mutant: only the disconnection of an older connection is obeyed.        *)
OnDeviceDisconnected_OtherID(c, d) ==
    connectionID' = [connectionID EXCEPT ![d] = IF @ # c THEN NoConnection ELSE @]

(* Only the connection that was reported last can end the report.          *)
OnDeviceDisconnected(c, d) ==
    connectionID' = [connectionID EXCEPT ![d] = IF @ = c THEN NoConnection ELSE @]
=============================================================================
