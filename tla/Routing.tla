------------------------------ MODULE Routing -------------------------------
(***************************************************************************)
(* The configuration of a running server and what routes by it: the        *)
(* registry (router.go), the poller that reloads the file into it          *)
(* (config-poller.go), the part of OpenServer that sets both up            *)
(* (server.go), and any number of MessageRouter.Route calls, one per TCP   *)
(* connection or UDP worker, that use one snapshot each.                   *)
(*                                                                         *)
(* Somebody edits the file at any time.  Modification time and size, the   *)
(* fingerprint of the poller, are one number.                              *)
(***************************************************************************)
EXTENDS Config, FiniteSets

CONSTANTS
    Contents,       \* what the file may contain: name -> contents
    Messages,       \* decoded messages: [mac, sensors]
    Routers,        \* the goroutines that call Route
    Backdated,      \* TRUE: an edit may leave a modification time and size seen before
    MaxEdits, MaxFaults, MaxMessages    \* bounds: edits, failing calls, messages

Reported == UNION {{m.sensors[i] : i \in DOMAIN m.sensors} : m \in Messages}

ASSUME RoutingAssumption ==
    /\ IsFiniteSet(Routers) /\ \A m \in Messages : m.sensors \in Seq(Reported)
    /\ Backdated \in BOOLEAN /\ MaxEdits \in Nat /\ MaxFaults \in Nat /\ MaxMessages \in Nat
    /\ \A m \in Messages : DOMAIN m = {"mac", "sensors"}
    /\ \A n \in DOMAIN Contents : DOMAIN Contents[n] = {"decodes", "devices", "sensors", "settings", "rest"}

Loaded == [n \in DOMAIN Contents |-> LoadConfig(Contents[n])]

VARIABLES
    file,           \* name of the contents, and fingerprint, of the configuration file
    startup,        \* server.config: the snapshot OpenServer loaded, as {} or {s}
    registry,       \* registry.snapshot, as {} or {s}
    poller,         \* "load", "stat", "wait", "open", "stopped" or "failed"
    observed,       \* poller.observed
    edits, faults,  \* counted against the bounds
    checked,        \* history: the contents loaded last, whatever the outcome
    route,          \* router -> its call: message, snapshot, records left; <<>> if none
    owes,           \* router -> the counter it has still to add to for a record, as {} or {k}
    sent,           \* history: router -> locations its call has used
    seen,           \* history: router -> snapshots current during its call
    count,          \* the counters of RouterCounters
    handed          \* history: records of messages from known devices

config == <<startup, registry, poller, observed, checked>>
routing == <<route, owes, sent, count, handed>>
vars == <<file, config, edits, faults, routing, seen>>

Counters == {"messages", "keepalives", "accepted", "rejected", "unknownDevices",
             "unknownSensors", "quarantineFailures", "dataEngineFailures"}

Init ==
    /\ file \in [content : DOMAIN Contents, stamp : {0}]
    /\ startup = {} /\ registry = {} /\ poller = "load" /\ observed = 0
    /\ edits = 0 /\ faults = 0 /\ checked = file.content
    /\ route = [r \in Routers |-> <<>>] /\ owes = [r \in Routers |-> {}]
    /\ sent = [r \in Routers |-> {}] /\ seen = [r \in Routers |-> {}]
    /\ count = [k \in Counters |-> 0] /\ handed = 0

-----------------------------------------------------------------------------
(* The surroundings *)

Edit ==
    /\ edits < MaxEdits
    /\ \E c \in DOMAIN Contents, s \in IF Backdated THEN 0..edits + 1 ELSE {edits + 1} :
        file' = [content |-> c, stamp |-> s]
    /\ edits' = edits + 1
    /\ UNCHANGED <<config, faults, routing, seen>>

Fault == faults < MaxFaults /\ faults' = faults + 1

-----------------------------------------------------------------------------
(* OpenServer *)

(* LoadConfigFile and NewConfigRegistry.                                   *)
OpenLoad ==
    /\ poller = "load"
    /\ startup' = Loaded[file.content] /\ registry' = startup'
    /\ checked' = file.content
    /\ poller' = IF startup' = {} THEN "failed" ELSE "stat"
    /\ UNCHANGED <<file, observed, edits, faults, routing, seen>>

(* Storage is opened and the quarantine replayed in between; then          *)
(* NewConfigPoller stats the file and the goroutines start.                *)
OpenPoller ==
    /\ poller = "stat"
    /\ observed' = file.stamp /\ poller' = "wait"
    /\ UNCHANGED <<file, startup, registry, edits, faults, checked, routing, seen>>

OpenFails ==
    /\ poller \in {"load", "stat"} /\ Fault
    /\ poller' = "failed"
    /\ UNCHANGED <<file, startup, registry, observed, edits, checked, routing, seen>>

-----------------------------------------------------------------------------
(* ConfigPoller.Run and Poll.  A tick that finds nothing new, or whose     *)
(* Stat fails, changes nothing.                                            *)

(* Mutant: only a later modification time counts as a change.              *)
PollStat_Later ==
    /\ poller = "wait" /\ file.stamp > observed
    /\ observed' = file.stamp /\ poller' = "open"
    /\ UNCHANGED <<file, startup, registry, edits, faults, checked, routing, seen>>

PollStat ==
    /\ poller = "wait" /\ file.stamp # observed
    /\ observed' = file.stamp /\ poller' = "open"
    /\ UNCHANGED <<file, startup, registry, edits, faults, checked, routing, seen>>

Reload(candidate) ==
    IF \A s \in registry, c \in candidate : ValidateReload(s, c) THEN candidate ELSE registry

(* The file is opened again, and may have changed since the Stat.          *)
PollLoad ==
    /\ poller = "open"
    /\ LET candidate == Loaded[file.content]
       IN  registry' = IF candidate = {} THEN registry ELSE Reload(candidate)
    /\ seen' = [r \in Routers |-> IF route[r] = <<>> THEN {} ELSE seen[r] \cup registry']
    /\ checked' = file.content
    /\ poller' = "wait"
    /\ UNCHANGED <<file, startup, observed, edits, faults, routing>>

PollFails ==
    /\ poller = "open" /\ Fault
    /\ poller' = "wait"
    /\ UNCHANGED <<file, startup, registry, observed, edits, checked, routing, seen>>

(* Close cancels server.ctx, at any time.                                  *)
PollerStops ==
    /\ poller = "wait"
    /\ poller' = "stopped"
    /\ UNCHANGED <<file, startup, registry, observed, edits, faults, checked, routing, seen>>

-----------------------------------------------------------------------------
(* MessageRouter.Route *)

Return(r) ==
    /\ route' = [route EXCEPT ![r] = <<>>]
    /\ sent' = [sent EXCEPT ![r] = {}] /\ seen' = [seen EXCEPT ![r] = {}]

Add(ks) == count' = [k \in Counters |-> IF k \in ks THEN count[k] + 1 ELSE count[k]]

Known(r) == route[r].message.mac \in DOMAIN route[r].snapshot.devices

(* The servers run once the poller exists, and some time after it stops.   *)
RouteBegin(r) ==
    /\ poller \in {"wait", "open", "stopped"} /\ route[r] = <<>> /\ count["messages"] < MaxMessages
    /\ \E m \in Messages, s \in registry :
        /\ route' = [route EXCEPT ![r] = [message |-> m, snapshot |-> s, left |-> m.sensors]]
        /\ Add({"messages"} \cup (IF m.sensors = <<>> THEN {"keepalives"} ELSE {})
                \cup (IF m.mac \in DOMAIN s.devices THEN {} ELSE {"unknownDevices"}))
        /\ handed' = handed + (IF m.mac \in DOMAIN s.devices THEN Len(m.sensors) ELSE 0)
    /\ seen' = [seen EXCEPT ![r] = registry]
    /\ UNCHANGED <<file, config, edits, faults, owes, sent>>

RouteUnknown(r) ==
    /\ route[r] # <<>> /\ ~Known(r)
    /\ \/ UNCHANGED <<count, faults>>
       \/ Fault /\ Add({"quarantineFailures"})
    /\ Return(r)
    /\ UNCHANGED <<file, config, edits, owes, handed>>

(* The record at the head of the call is next.                             *)
AtRecord(r) == route[r] # <<>> /\ Known(r) /\ owes[r] = {} /\ route[r].left # <<>>

(* Mutant: the rejection is counted before its reason.                     *)
UnknownSensor_RejectedFirst(r) ==
    /\ AtRecord(r) /\ Head(route[r].left) \notin route[r].snapshot.sensors
    /\ Add({"rejected"}) /\ owes' = [owes EXCEPT ![r] = {"unknownSensors"}]
    /\ route' = [route EXCEPT ![r].left = Tail(@)]
    /\ UNCHANGED <<file, config, edits, faults, sent, handed, seen>>

(* A rejected record is counted twice, by its reason and then as rejected. *)
UnknownSensor(r) ==
    /\ AtRecord(r) /\ Head(route[r].left) \notin route[r].snapshot.sensors
    /\ Add({"unknownSensors"}) /\ owes' = [owes EXCEPT ![r] = {"rejected"}]
    /\ route' = [route EXCEPT ![r].left = Tail(@)]
    /\ UNCHANGED <<file, config, edits, faults, sent, handed, seen>>

(* Mutant: the location is looked up in the registry for every record.     *)
WriteRecord_Rereads(r) ==
    /\ AtRecord(r) /\ Head(route[r].left) \in route[r].snapshot.sensors
    /\ \E s \in registry :
        /\ route[r].message.mac \in DOMAIN s.devices
        /\ sent' = [sent EXCEPT ![r] = @ \cup {s.devices[route[r].message.mac]}]
    /\ Add({"accepted"}) /\ UNCHANGED <<faults, owes>>
    /\ route' = [route EXCEPT ![r].left = Tail(@)]
    /\ UNCHANGED <<file, config, edits, handed, seen>>

(* The observer is told of the record, then the data engine gets it.       *)
WriteRecord(r) ==
    /\ AtRecord(r) /\ Head(route[r].left) \in route[r].snapshot.sensors
    /\ sent' = [sent EXCEPT ![r] = @ \cup {route[r].snapshot.devices[route[r].message.mac]}]
    /\ \/ Add({"accepted"}) /\ UNCHANGED <<faults, owes>>
       \/ Fault /\ Add({"dataEngineFailures"}) /\ owes' = [owes EXCEPT ![r] = {"rejected"}]
    /\ route' = [route EXCEPT ![r].left = Tail(@)]
    /\ UNCHANGED <<file, config, edits, handed, seen>>

(* The second of the two.                                                  *)
AddOwed(r) ==
    /\ owes[r] # {}
    /\ Add(owes[r]) /\ owes' = [owes EXCEPT ![r] = {}]
    /\ UNCHANGED <<file, config, edits, faults, route, sent, handed, seen>>

RouteReturns(r) ==
    /\ route[r] # <<>> /\ Known(r) /\ owes[r] = {} /\ route[r].left = <<>>
    /\ Return(r)
    /\ UNCHANGED <<file, config, edits, faults, owes, count, handed>>

-----------------------------------------------------------------------------
Poll == OpenLoad \/ OpenPoller \/ PollStat \/ PollLoad
RouteStep(r) == RouteUnknown(r) \/ UnknownSensor(r) \/ WriteRecord(r) \/ AddOwed(r) \/ RouteReturns(r)

Next ==
    \/ Edit \/ Poll \/ OpenFails \/ PollFails \/ PollerStops
    \/ \E r \in Routers : RouteBegin(r) \/ RouteStep(r)

Spec == Init /\ [][Next]_vars

(* The ticker fires every interval, and OpenServer goes on.                *)
FairSpec == Spec /\ WF_vars(Poll)

-----------------------------------------------------------------------------
(* Properties *)

Loadable == UNION {Loaded[n] : n \in DOMAIN Contents}

TypeOK ==
    /\ file \in [content : DOMAIN Contents, stamp : 0..MaxEdits]
    /\ startup \subseteq Loadable /\ registry \subseteq Loadable
    /\ poller \in {"load", "stat", "wait", "open", "stopped", "failed"}
    /\ observed \in 0..MaxEdits /\ checked \in DOMAIN Contents
    /\ edits \in 0..MaxEdits /\ faults \in 0..MaxFaults
    /\ \A r \in Routers : sent[r] \subseteq Locations /\ seen[r] \subseteq Loadable
    /\ owes \in [Routers -> SUBSET {"rejected"}]
    /\ count \in [Counters -> Nat] /\ handed \in Nat

(* However often the file is reloaded, the server keeps running on the     *)
(* settings and sensors it was started with (server.config was read once), *)
(* and every device of the registry has one entry in the file it is from.  *)
OnlyDevicesChange ==
    \A s \in startup, g \in registry :
        /\ g.sensors = s.sensors /\ g.config.settings = s.config.settings /\ g.config.rest = s.config.rest
        /\ \A mac \in DOMAIN g.devices :
            Cardinality({i \in DOMAIN g.config.devices : ParseMACAddress(g.config.devices[i].mac) = {mac}}) = 1

(* All records of a message go to one location, that of its device in a    *)
(* registry which was current while the message was routed, whatever is    *)
(* reloaded meanwhile.                                                     *)
OneSnapshotPerMessage ==
    \A r \in Routers : route[r] # <<>> /\ sent[r] # {} =>
        \E s \in seen[r] :
            route[r].message.mac \in DOMAIN s.devices /\ sent[r] = {s.devices[route[r].message.mac]}

(* The records a call has still to count as accepted or rejected.          *)
Left == [r \in Routers |->
    IF route[r] = <<>> THEN 0
    ELSE IF Known(r) THEN Len(route[r].left) + (IF owes[r] = {"rejected"} THEN 1 ELSE 0) ELSE 0]

(* The counters of concurrent Route calls add up, between any two of their *)
(* atomic additions: every record of a known device is accepted, rejected  *)
(* or still to come, and there is a reason for every rejection, and at     *)
(* most one more for each call that has counted the reason and not yet the *)
(* rejection.  So Counters, which loads the rejections before the reasons, *)
(* never reports one without its reason.                                   *)
RecordsAddUp ==
    /\ count["accepted"] + count["rejected"] + SumFunction(Left) = handed
    /\ count["unknownSensors"] + count["dataEngineFailures"] =
        count["rejected"] + Cardinality({r \in Routers : owes[r] # {}})

(* The registry has the devices of the file, unless the file cannot be     *)
(* loaded or needs a restart.                                              *)
Applied ==
    \A s \in startup, c \in Loaded[file.content] : ValidateReload(s, c) => registry = {c}

(* The poller has taken note of the file without having read it.           *)
Missed == observed = file.stamp /\ checked # file.content

(* A file that is left alone is in force at some point, for as long as the *)
(* poller runs, unless the poller took its fingerprint and did not get to  *)
(* read what it belongs to.                                                *)
FollowsFile == <>[](poller \in {"stopped", "failed"} \/ Missed \/ Applied)

=============================================================================
