----------------------------- MODULE Monitoring -----------------------------
(***************************************************************************)
(* The HTTP plugin: the monitoring state (plugins/http/monitor-state.go),  *)
(* its event hub (events.go), the event streams of HTTP clients and the    *)
(* shutdown of the HTTP server (http-server.go).                           *)
(*                                                                         *)
(* Callbacks run on the goroutines of TCP connections and UDP workers.     *)
(* Each has two parts that others may come between: the update, locked by  *)
(* state.mu, and the publication of the event, locked by hub.mu.  A device *)
(* has one sensor; of an event its name, device and value are kept.        *)
(***************************************************************************)
EXTENDS MonitoringState, SampleRing, FiniteSets, SequencesExt

CONSTANTS
    Worker,             \* goroutines of the UDP server
    Reports,            \* goroutine -> the devices whose messages it routes
    BoundTo,            \* connection -> the device it will bind to
    RoomOf,             \* device -> the room it is configured in
    OutOfRange,         \* samples outside the range of the sensor type
    Client,             \* HTTP clients; each opens one event stream
    Stalled,            \* clients that may stop reading for ever
    EventQueueCapacity, \* eventQueueCapacity
    Feed,               \* bound: the samples that arrive in all, in their order
    Untold              \* no event has been published

ASSUME MonitoringAssumption ==
    /\ BoundTo \in [Connection -> Device] /\ DOMAIN RoomOf = Device
    /\ Reports \in [Connection \cup Worker -> SUBSET Device]
    /\ \A c \in Connection : Reports[c] \subseteq {BoundTo[c]}
    /\ IsFiniteSet(Device) /\ Connection \cap Worker = {} /\ NoConnection \notin Connection
    /\ OutOfRange \subseteq Sample /\ Stalled \subseteq Client /\ Untold # TRUE
    /\ EventQueueCapacity \in Nat \ {0} /\ Feed \in Seq(Sample)

VARIABLES
    transport,      \* device.transport: "unknown", "tcp" or "udp"
    ring,           \* the sensor's history; its count is 0 iff there is no sensor yet
    current,        \* sensor.current
    warned,         \* sensor.warning # ""
    stage,          \* connection -> "new", "bound" or "gone"
    outbox,         \* goroutine -> the event it is about to publish, as <<>> or <<e>>
    subscribers,    \* hub.subscribers
    queue,          \* client -> the channel of its subscription
    stream,         \* client -> handleEvents: "none", "select", "write" or "ended"
    core,           \* the core server is running
    http,           \* Server.Shutdown: "serving", "waiting", "returned" or "expired"
    observations,   \* bound: the number of observations so far
    recent,         \* history: device -> its latest samples, in the order of the updates
    told,           \* history: device, kind -> the value last published, Untold if none
    owed,           \* history: client -> events published since it subscribed, not yet taken,
    lagging,        \*   unless one was published when as many as the capacity were owed
    overtaken       \* history: <<device, kind>> updated while another such event was in an outbox

Goroutine == Connection \cup Worker
Kind == {"observation", "connection"}

device == <<connectionID, transport, ring, current, warned>>
callbacks == <<stage, outbox>>
clients == <<subscribers, queue, stream>>
lives == <<core, http>>
history == <<observations, recent, told, owed, lagging, overtaken>>
vars == <<device, callbacks, clients, lives, history>>

Init ==
    /\ MSInit
    /\ transport = [d \in Device |-> "unknown"] /\ ring = [d \in Device |-> newSampleRing]
    /\ current = [d \in Device |-> NoSample] /\ warned = [d \in Device |-> FALSE]
    /\ stage = [c \in Connection |-> "new"] /\ outbox = [g \in Goroutine |-> <<>>]
    /\ subscribers = {} /\ queue = [s \in Client |-> <<>>] /\ stream = [s \in Client |-> "none"]
    /\ core = TRUE /\ http = "serving"
    /\ observations = 0 /\ recent = [d \in Device |-> <<>>] /\ told = [d \in Device |-> [k \in Kind |-> Untold]]
    /\ owed = [s \in Client |-> <<>>] /\ lagging = {} /\ overtaken = {}

-----------------------------------------------------------------------------
(* The callbacks, their locked part *)

(* The event is kept for publication; when another one of its kind is on   *)
(* its way, nobody knows which will come last.                             *)
Prepare(g, e) ==
    /\ outbox' = [outbox EXCEPT ![g] = <<e>>]
    /\ overtaken' =
        IF \E h \in Goroutine \ {g} : outbox[h] # <<>> /\ outbox[h][1].kind = e.kind /\ outbox[h][1].device = e.device
        THEN overtaken \cup {<<e.device, e.kind>>}
        ELSE overtaken \ {<<e.device, e.kind>>}

thresholdWarning(sample) == sample \in OutOfRange

OnSensorObservation(g, d, sample) ==
    /\ outbox[g] = <<>> /\ observations < Len(Feed) /\ sample = Feed[observations + 1]
    /\ d \in Reports[g] /\ (g \in Connection => stage[g] = "bound")
    /\ transport' = [transport EXCEPT ![d] = IF g \in Connection THEN "tcp" ELSE "udp"]
    /\ ring' = [ring EXCEPT ![d] = RingAppend(@, sample)]
    /\ current' = [current EXCEPT ![d] = sample]
    /\ warned' = [warned EXCEPT ![d] = thresholdWarning(sample)]
    /\ observations' = observations + 1
    /\ recent' = [recent EXCEPT ![d] =
            Append(IF Len(@) = HistoryCapacity THEN Tail(@) ELSE @, sample)]
    /\ Prepare(g, [name |-> "sensor_observation", kind |-> "observation", device |-> d, value |-> sample])
    /\ UNCHANGED <<connectionID, stage, clients, lives, told, owed, lagging>>

Connected(c) ==
    LET d == BoundTo[c] IN
    /\ stage[c] = "new"
    /\ OnDeviceConnected(c, d)
    /\ transport' = [transport EXCEPT ![d] = "tcp"]
    /\ stage' = [stage EXCEPT ![c] = "bound"]
    /\ IF connectionID[d] = NoConnection
       THEN Prepare(c, [name |-> "device_connected", kind |-> "connection", device |-> d, value |-> TRUE])
       ELSE UNCHANGED <<outbox, overtaken>>
    /\ UNCHANGED <<ring, current, warned, clients, lives, observations, recent, told, owed, lagging>>

(* Mutant: the event is published whether or not it ends the report.       *)
Disconnected_Always(c) ==
    LET d == BoundTo[c] IN
    /\ stage[c] = "bound" /\ outbox[c] = <<>>
    /\ OnDeviceDisconnected(c, d)
    /\ stage' = [stage EXCEPT ![c] = "gone"]
    /\ Prepare(c, [name |-> "device_disconnected", kind |-> "connection", device |-> d, value |-> FALSE])
    /\ UNCHANGED <<transport, ring, current, warned, clients, lives, observations, recent, told, owed, lagging>>

Disconnected(c) ==
    LET d == BoundTo[c] IN
    /\ stage[c] = "bound" /\ outbox[c] = <<>>
    /\ OnDeviceDisconnected(c, d)
    /\ stage' = [stage EXCEPT ![c] = "gone"]
    /\ IF connectionID[d] = c
       THEN Prepare(c, [name |-> "device_disconnected", kind |-> "connection", device |-> d, value |-> FALSE])
       ELSE UNCHANGED <<outbox, overtaken>>
    /\ UNCHANGED <<transport, ring, current, warned, clients, lives, observations, recent, told, owed, lagging>>

-----------------------------------------------------------------------------
(* The event hub *)

Full(s) == Len(queue[s]) = EventQueueCapacity

(* What the event at hand leaves in the queues of those it is offered to.  *)
Offered(g, offered) ==
    [s \in Client |-> IF s \in offered /\ ~Full(s) THEN Append(queue[s], outbox[g][1].name) ELSE queue[s]]

(* The history: all that a client is to see, unless it lags.               *)
Owe(g) ==
    /\ lagging' = lagging \cup {s \in subscribers : Len(owed[s]) = EventQueueCapacity}
    /\ owed' = [s \in Client |->
            IF s \in lagging' THEN <<>> ELSE IF s \in subscribers THEN Append(owed[s], outbox[g][1].name) ELSE owed[s]]
    /\ LET e == outbox[g][1] IN told' = [told EXCEPT ![e.device][e.kind] = e.value]

(* Mutant: a full queue ends the loop, before the others were reached.     *)
Publish_StopsAtFull(g) ==
    /\ outbox[g] # <<>>
    /\ queue' = Offered(g, IF \E s \in subscribers : Full(s) THEN {} ELSE subscribers)
    /\ outbox' = [outbox EXCEPT ![g] = <<>>]
    /\ Owe(g)
    /\ UNCHANGED <<device, stage, subscribers, stream, lives, observations, recent, overtaken>>

(* hub.Publish offers the event to every subscriber and waits for none.    *)
Publish(g) ==
    /\ outbox[g] # <<>>
    /\ queue' = Offered(g, subscribers)
    /\ outbox' = [outbox EXCEPT ![g] = <<>>]
    /\ Owe(g)
    /\ UNCHANGED <<device, stage, subscribers, stream, lives, observations, recent, overtaken>>

-----------------------------------------------------------------------------
(* handleEvents *)

Subscribe(s) ==
    /\ stream[s] = "none" /\ http # "returned"
    /\ subscribers' = subscribers \cup {s}
    /\ stream' = [stream EXCEPT ![s] = "write"]
    /\ UNCHANGED <<device, callbacks, queue, lives, history>>

TakeEvent(s) ==
    /\ stream[s] = "select" /\ queue[s] # <<>>
    /\ queue' = [queue EXCEPT ![s] = Tail(@)]
    /\ owed' = [owed EXCEPT ![s] = IF s \in lagging THEN <<>> ELSE Tail(@)]
    /\ stream' = [stream EXCEPT ![s] = "write"]
    /\ UNCHANGED <<device, callbacks, subscribers, lives, observations, recent, told, lagging, overtaken>>

Heartbeat(s) ==
    /\ stream[s] = "select"
    /\ stream' = [stream EXCEPT ![s] = "write"]
    /\ UNCHANGED <<device, callbacks, subscribers, queue, lives, history>>

Written(s) ==
    /\ stream[s] = "write"
    /\ stream' = [stream EXCEPT ![s] = "select"]
    /\ UNCHANGED <<device, callbacks, subscribers, queue, lives, history>>

Unsubscribe(s) ==
    /\ subscribers' = subscribers \ {s}
    /\ stream' = [stream EXCEPT ![s] = "ended"]
    /\ queue' = [queue EXCEPT ![s] = <<>>] /\ owed' = [owed EXCEPT ![s] = <<>>]
    /\ UNCHANGED <<device, callbacks, lives, observations, recent, told, lagging, overtaken>>

(* The client is gone, which a write or the request's context tells.       *)
Hangup(s) == stream[s] \in {"select", "write"} /\ Unsubscribe(s)

(* Mutant: only the request's context and core.Done are listened to.       *)
Stop_CoreOnly(s) == stream[s] = "select" /\ ~core /\ Unsubscribe(s)

(* The server's context is cancelled, or the core server is done.          *)
Stop(s) == stream[s] = "select" /\ (http # "serving" \/ ~core) /\ Unsubscribe(s)

-----------------------------------------------------------------------------
(* Server.Shutdown *)

(* A connection started behind the back of Server.Close may call back even *)
(* now (module Server).  Once the HTTP server's context is cancelled this  *)
(* tells the handlers nothing new.                                         *)
CoreDone ==
    /\ core /\ http = "serving"
    /\ core' = FALSE
    /\ UNCHANGED <<device, callbacks, clients, http, history>>

ShutdownBegins ==
    /\ http = "serving"
    /\ http' = "waiting"
    /\ UNCHANGED <<device, callbacks, clients, core, history>>

(* All requests have ended, or the context given to Shutdown has.          *)
ShutdownReturns ==
    /\ http = "waiting" /\ \A s \in Client : stream[s] \in {"none", "ended"}
    /\ http' = "returned"
    /\ UNCHANGED <<device, callbacks, clients, core, history>>

ShutdownExpires ==
    /\ http = "waiting"
    /\ http' = "expired"
    /\ UNCHANGED <<device, callbacks, clients, core, history>>

-----------------------------------------------------------------------------
(* What the REST endpoints answer, each in one section locked by state.mu  *)

Readings(d) == RingSnapshot(ring[d])

(* snapshotDevice: the configured room with the state of the device.       *)
DeviceSnapshot(d) ==
    [room |-> RoomOf[d], connected |-> connectionID[d] # NoConnection, transport |-> transport[d],
     observedSensors |-> IF ring[d].count > 0 THEN 1 ELSE 0, warnings |-> IF warned[d] THEN 1 ELSE 0,
     sampleCount |-> ring[d].count]

Devices == [d \in Device |-> DeviceSnapshot(d)]

(* Rooms adds up the devices, in any order, per name of a room.            *)
AddDevice(d, rooms) ==
    LET shot == Devices[d] IN
    [rooms EXCEPT ![shot.room] =
        [deviceCount |-> @.deviceCount + 1,
         connectedDevices |-> IF shot.connected THEN @.connectedDevices + 1 ELSE @.connectedDevices,
         warningCount |-> @.warningCount + shot.warnings]]

Rooms ==
    LET zero == [deviceCount |-> 0, connectedDevices |-> 0, warningCount |-> 0]
    IN FoldSet(AddDevice, [r \in {RoomOf[d] : d \in Device} |-> zero], Device)

-----------------------------------------------------------------------------
Callback(g) ==
    \/ \E d \in Device, sample \in Sample : OnSensorObservation(g, d, sample)
    \/ g \in Connection /\ (Connected(g) \/ Disconnected(g))

Handle(s) == TakeEvent(s) \/ Heartbeat(s) \/ Stop(s)

Next ==
    \/ \E g \in Goroutine : Callback(g) \/ Publish(g)
    \/ \E s \in Client : Subscribe(s) \/ Handle(s) \/ Written(s) \/ Hangup(s)
    \/ CoreDone \/ ShutdownBegins \/ ShutdownReturns \/ ShutdownExpires

Spec == Init /\ [][Next]_vars

(* A handler goes on when its client reads; select chooses among the ready *)
(* cases at random, so that it does not ignore the end of the server for   *)
(* ever.  Nothing is assumed of the callbacks or of the other clients.     *)
Fairness == \A s \in Client \ Stalled : SF_vars(Stop(s)) /\ WF_vars(Written(s))

FairSpec == Spec /\ Fairness

-----------------------------------------------------------------------------
(* Properties *)

(* What the REST endpoints answer is what the updates were, in their       *)
(* order: the history of a sensor is its latest samples, oldest first, as  *)
(* many as the ring holds, also when it wraps (sample-ring.go); the        *)
(* current sample and its warning are those of the last one; and the       *)
(* summary of a room counts its devices in one consistent moment.          *)
HistoryIsRecent ==
    /\ \A d \in Device :
        /\ Readings(d) = recent[d]
        /\ recent[d] # <<>> => current[d] = Last(recent[d]) /\ (warned[d] <=> current[d] \in OutOfRange)
    /\ LET rooms == Rooms IN \A r \in DOMAIN rooms :
        LET here == {d \in Device : RoomOf[d] = r} IN
        rooms[r] = [deviceCount |-> Cardinality(here),
                    connectedDevices |-> Cardinality({d \in here : \E c \in Connection : connectionID[d] = c}),
                    warningCount |-> Cardinality({d \in here : warned[d]})]

(* A stream shows every event published since it subscribed, once and in   *)
(* the order of publication, as long as its own handler is never a whole   *)
(* queue behind: a client that stops reading costs the others nothing      *)
(* (events.go, Publish).  A handler that has returned is not kept in the   *)
(* hub (the deferred unsubscribe of handleEvents).                         *)
SlowClientsHurtThemselves ==
    \A s \in Client :
        /\ s \notin lagging => queue[s] = owed[s]
        /\ s \in subscribers <=> stream[s] \in {"select", "write"}

(* When no event is on its way, the last one published of a device and     *)
(* kind agrees with the state.  The exception is in the code: events are   *)
(* published after state.mu is released, so that two whose updates         *)
(* overlapped may be published in the other order.                         *)
EventsMatchState ==
    \A d \in Device :
        LET settled(k) == <<d, k>> \notin overtaken /\ \A g \in Goroutine :
                outbox[g] # <<>> => outbox[g][1].device # d \/ outbox[g][1].kind # k
        IN /\ settled("connection") => ((connectionID[d] # NoConnection) <=> (told[d]["connection"] = TRUE))
           /\ settled("observation") /\ recent[d] # <<>> => told[d]["observation"] = current[d]

(* When the HTTP server shuts down or the core server is done, every event *)
(* stream whose client goes on reading ends, however many events are still *)
(* queued for it: Shutdown waits for no client that reads.                 *)
StreamsEnd ==
    \A s \in Client \ Stalled : (http # "serving" \/ ~core) ~> (stream[s] \in {"none", "ended"})
=============================================================================
