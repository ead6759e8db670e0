----------------------------- MODULE UDPServer ------------------------------
(***************************************************************************)
(* The UDP server (udp-server.go): the Serve goroutine reads datagrams     *)
(* into pooled buffers and queues them without ever waiting, workers       *)
(* decode and route them, and Close stops both.                            *)
(*                                                                         *)
(* Devices send the messages of Sent, each once; the network may damage    *)
(* the d-th datagram.  A buffer keeps what it held before behind what was  *)
(* last read into it (protocol in module Protocol).  Both sections under   *)
(* queueMu (the select of Serve, the close of the queue) are short and are *)
(* one step each, so the lock itself is not a variable.                    *)
(***************************************************************************)
EXTENDS Protocol, FiniteSets

CONSTANTS
    Workers,        \* the worker goroutines
    Buffer,         \* packet buffers
    QueueCapacity,  \* options.QueueCapacity
    Sent,           \* the messages devices send, in the order they arrive; a bound too
    Damage,         \* the ways the d-th datagram may be damaged: "cut", "padded", "flipped"
    UdpMaxPacketSize    \* the size of a buffer

(* The pool makes a buffer when it has none: there are always enough.      *)
ASSUME UDPAssumption ==
    /\ IsFiniteSet(Workers) /\ Workers # {} /\ IsFiniteSet(Buffer)
    /\ QueueCapacity \in Nat \ {0} /\ UdpMaxPacketSize \in Nat
    /\ Damage \in [DOMAIN Sent -> SUBSET {"cut", "padded", "flipped"}]
    /\ Cardinality(Buffer) > Cardinality(Workers) + QueueCapacity

VARIABLES
    serve,          \* where Serve is: "read", "select", "exited" or "panicked"
    packet,         \* local p of Serve, as <<>> or <<b>>
    content,        \* buffer -> p.Buf, up to the longest that was ever read into it
    size,           \* buffer -> p.N
    free,           \* buffers in the pool, and those not made yet, which are empty
    queue,          \* server.queue
    queueClosed,    \* close(server.queue) has happened
    ctxDone,        \* server.ctx is cancelled
    connected,      \* the packet connection is open
    closer,         \* where Close is
    stage,          \* worker -> "idle", "decode", "route" or "exited"
    job,            \* worker -> its datagram buffer, as <<>> or <<b>>
    message,        \* worker -> the message it decoded, as <<>> or <<m>>
    datagrams, messages, malformed, dropped,    \* the counters
    intact,         \* history: the datagrams of which the buffer got just what was sent
    routed,         \* history: the messages Route has taken, in order
    refused         \* history: number of messages it refused as the context was cancelled

server == <<queueClosed, ctxDone, connected, closer>>
buffers == <<content, size, free>>
workers == <<stage, job, message>>
counters == <<datagrams, messages, malformed, dropped>>
handed == <<routed, refused>>
vars == <<serve, packet, buffers, queue, server, workers, counters, intact, handed>>

Init ==
    /\ serve = "read" /\ packet = <<>> /\ content = [b \in Buffer |-> <<>>]
    /\ size = [b \in Buffer |-> 0] /\ free = Buffer
    /\ queue = <<>> /\ queueClosed = FALSE /\ ctxDone = FALSE /\ connected = TRUE /\ closer = "idle"
    /\ stage = [w \in Workers |-> "idle"] /\ job = [w \in Workers |-> <<>>]
    /\ message = [w \in Workers |-> <<>>] /\ intact = {}
    /\ datagrams = 0 /\ messages = 0 /\ malformed = 0 /\ dropped = 0
    /\ routed = <<>> /\ refused = 0

-----------------------------------------------------------------------------
(* Serve *)

(* A device's own encoding of a sample, and what is sent of a message.     *)
Sample(record) ==
    LET unsigned == (record.Value + 16777216) % 16777216
    IN <<record.SensorType, unsigned % 256, (unsigned \div 256) % 256, unsigned \div 65536>>

Payload(m) ==
    [k \in 1..(SensorRecordSize * Len(m.Sensors)) |->
        Sample(m.Sensors[(k + 3) \div SensorRecordSize])[((k - 1) % SensorRecordSize) + 1]]

Wire(m) == EncodeMessage(MessageTypeSensorData, m.MAC, Payload(m))[1]

(* What the server is to make of a message: types it does not know are     *)
(* all one to it.                                                          *)
Meant(m) ==
    [MAC |-> m.MAC,
     Sensors |-> [i \in DOMAIN m.Sensors |->
        IF m.Sensors[i].SensorType \in 0..LastSensorType THEN m.Sensors[i]
        ELSE [SensorType |-> SENSOR_ID_UNKNOWN, Value |-> m.Sensors[i].Value]]]

(* The values of a sample.                                                 *)
Int24 == {v \in Int : -8388608 <= v /\ v <= 8388607}

(* Devices send messages of bytes and 24-bit values that a wire message    *)
(* can hold, each different from the others to the server.  Only a payload *)
(* has bytes to flip.                                                      *)
ASSUME SentAssumption ==
    /\ Sent \in Seq([MAC : {Sent[d].MAC : d \in DOMAIN Sent},
                     Sensors : Seq([SensorType : 0..255, Value : Int24])])
    /\ \A d \in DOMAIN Sent :
        /\ SensorRecordSize * Len(Sent[d].Sensors) <= MaximumPayloadSize
        /\ "flipped" \in Damage[d] => Sent[d].Sensors # <<>>
    /\ \A i, j \in DOMAIN Sent : Meant(Sent[i]) = Meant(Sent[j]) => i = j

(* What may arrive as the d-th datagram.                                   *)
Arriving(d) ==
    LET w == Wire(Sent[d])
        damaged(x) == CASE x = "cut" -> SubSeq(w, 1, Len(w) - 1)
                        [] x = "padded" -> Append(w, 0)
                        [] x = "flipped" -> [w EXCEPT ![Len(w)] = (@ + 1) % 256]
    IN {w} \cup {damaged(x) : x \in Damage[d]}

(* ReadFrom fills the front of the buffer and cuts off what does not fit.  *)
Fitting(w) == SubSeq(w, 1, IF Len(w) < UdpMaxPacketSize THEN Len(w) ELSE UdpMaxPacketSize)

ReadInto(b, w) ==
    LET n == Len(Fitting(w)) IN
    /\ content' = [content EXCEPT ![b] = Fitting(w) \o SubSeq(@, n + 1, Len(@))]
    /\ size' = [size EXCEPT ![b] = n]

(* packetPool.Get: any buffer put back, or a new one.                      *)
Pool ==
    LET new == {b \in free : content[b] = <<>>}
    IN (free \ new) \cup (IF new = {} THEN {} ELSE {CHOOSE b \in new : TRUE})

Receive ==
    /\ serve = "read" /\ connected /\ datagrams < Len(Sent)
    /\ \E b \in Pool, w \in Arriving(datagrams + 1) :
        /\ packet' = <<b>> /\ free' = free \ {b}
        /\ ReadInto(b, w)
        /\ intact' = IF Fitting(w) = Wire(Sent[datagrams + 1]) THEN intact \cup {datagrams + 1} ELSE intact
    /\ datagrams' = datagrams + 1
    /\ serve' = "select"
    /\ UNCHANGED <<queue, server, workers, messages, malformed, dropped, handed>>

(* The connection is closed, or fails and Serve returns the error.         *)
ReadFails ==
    /\ serve = "read"
    /\ serve' = "exited"
    /\ UNCHANGED <<packet, buffers, queue, server, workers, counters, intact, handed>>

Send ==
    /\ serve = "select" /\ ~queueClosed /\ Len(queue) < QueueCapacity
    /\ queue' = queue \o packet
    /\ packet' = <<>> /\ serve' = "read"
    /\ UNCHANGED <<buffers, server, workers, counters, intact, handed>>

(* The select finds the queue closed.  The panic is recovered in           *)
(* Server.componentDone; queueMu stays read-locked, but Close is past it.  *)
SendPanics ==
    /\ serve = "select" /\ queueClosed
    /\ serve' = "panicked"
    /\ UNCHANGED <<packet, buffers, queue, server, workers, counters, intact, handed>>

GiveUp ==
    /\ serve = "select" /\ ctxDone
    /\ serve' = "exited"
    /\ UNCHANGED <<packet, buffers, queue, server, workers, counters, intact, handed>>

(* The buffer is not put back; it is left to the garbage collector.        *)
Forget(b) ==
    /\ content' = [content EXCEPT ![b] = <<>>] /\ size' = [size EXCEPT ![b] = 0]
    /\ free' = free \cup {b}

(* Mutant: a datagram that finds the queue full is not counted.            *)
Drop_Uncounted ==
    /\ serve = "select" /\ ~ctxDone /\ ~queueClosed /\ Len(queue) = QueueCapacity
    /\ Forget(packet[1])
    /\ packet' = <<>> /\ serve' = "read"
    /\ UNCHANGED <<queue, server, workers, counters, intact, handed>>

Drop ==
    /\ serve = "select" /\ ~ctxDone /\ ~queueClosed /\ Len(queue) = QueueCapacity
    /\ dropped' = dropped + 1
    /\ Forget(packet[1])
    /\ packet' = <<>> /\ serve' = "read"
    /\ UNCHANGED <<queue, server, workers, datagrams, messages, malformed, intact, handed>>

-----------------------------------------------------------------------------
(* worker *)

(* Mutant: the buffer goes back to the pool before it is decoded.          *)
Take_PutsEarly(w) ==
    /\ stage[w] = "idle" /\ queue # <<>>
    /\ job' = [job EXCEPT ![w] = <<Head(queue)>>]
    /\ free' = free \cup {Head(queue)}
    /\ queue' = Tail(queue)
    /\ stage' = [stage EXCEPT ![w] = "decode"]
    /\ UNCHANGED <<serve, packet, content, size, server, message, counters, intact, handed>>

Take(w) ==
    /\ stage[w] = "idle" /\ queue # <<>>
    /\ job' = [job EXCEPT ![w] = <<Head(queue)>>]
    /\ queue' = Tail(queue)
    /\ stage' = [stage EXCEPT ![w] = "decode"]
    /\ UNCHANGED <<serve, packet, buffers, server, message, counters, intact, handed>>

Decoded(b) == DecodeDatagram(SubSeq(content[b], 1, size[b]))

(* The message is a copy: from here on the buffer is not looked at.        *)
Decode(w) ==
    /\ stage[w] = "decode" /\ Decoded(job[w][1]) # <<>>
    /\ message' = [message EXCEPT ![w] = Decoded(job[w][1])]
    /\ messages' = messages + 1
    /\ stage' = [stage EXCEPT ![w] = "route"]
    /\ UNCHANGED <<serve, packet, buffers, queue, server, job, datagrams, malformed, dropped, intact, handed>>

DecodeFails(w) ==
    /\ stage[w] = "decode" /\ Decoded(job[w][1]) = <<>>
    /\ malformed' = malformed + 1
    /\ free' = free \cup {job[w][1]}
    /\ stage' = [stage EXCEPT ![w] = "idle"] /\ job' = [job EXCEPT ![w] = <<>>]
    /\ UNCHANGED <<serve, packet, content, size, queue, server, message, datagrams, messages, dropped, intact, handed>>

(* Route, then the buffer goes back.  Route is given the server's context: *)
(* once it is cancelled the quarantine refuses the message, and the data   *)
(* streams may.                                                            *)
Route(w) ==
    /\ stage[w] = "route"
    /\ \/ routed' = routed \o message[w] /\ UNCHANGED refused
       \/ ctxDone /\ refused' = refused + 1 /\ UNCHANGED routed
    /\ free' = free \cup {job[w][1]}
    /\ stage' = [stage EXCEPT ![w] = "idle"] /\ job' = [job EXCEPT ![w] = <<>>]
    /\ message' = [message EXCEPT ![w] = <<>>]
    /\ UNCHANGED <<serve, packet, content, size, queue, server, counters, intact>>

(* Mutant: a worker leaves when the server is closed.                      *)
Exit_Undrained(w) ==
    /\ stage[w] = "idle" /\ queueClosed
    /\ stage' = [stage EXCEPT ![w] = "exited"]
    /\ UNCHANGED <<serve, packet, buffers, queue, server, job, message, counters, intact, handed>>

Exit(w) ==
    /\ stage[w] = "idle" /\ queueClosed /\ queue = <<>>
    /\ stage' = [stage EXCEPT ![w] = "exited"]
    /\ UNCHANGED <<serve, packet, buffers, queue, server, job, message, counters, intact, handed>>

-----------------------------------------------------------------------------
(* Close *)

CloseCancel ==
    /\ closer = "idle"
    /\ ctxDone' = TRUE /\ closer' = "connection"
    /\ UNCHANGED <<serve, packet, buffers, queue, queueClosed, connected, workers, counters, intact, handed>>

CloseConnection ==
    /\ closer = "connection"
    /\ connected' = FALSE /\ closer' = "queue"
    /\ UNCHANGED <<serve, packet, buffers, queue, queueClosed, ctxDone, workers, counters, intact, handed>>

(* Mutant: the queue is not closed.                                        *)
CloseQueue_Forgotten ==
    /\ closer = "queue"
    /\ closer' = "wait"
    /\ UNCHANGED <<serve, packet, buffers, queue, queueClosed, ctxDone, connected, workers, counters, intact, handed>>

CloseQueue ==
    /\ closer = "queue"
    /\ queueClosed' = TRUE /\ closer' = "wait"
    /\ UNCHANGED <<serve, packet, buffers, queue, ctxDone, connected, workers, counters, intact, handed>>

CloseReturns ==
    /\ closer = "wait" /\ \A w \in Workers : stage[w] = "exited"
    /\ closer' = "returned"
    /\ UNCHANGED <<serve, packet, buffers, queue, queueClosed, ctxDone, connected, workers, counters, intact, handed>>

-----------------------------------------------------------------------------
Select == Send \/ SendPanics \/ GiveUp \/ Drop
Work(w) == Take(w) \/ Decode(w) \/ DecodeFails(w) \/ Route(w) \/ Exit(w)
CloseNext == CloseCancel \/ CloseConnection \/ CloseQueue \/ CloseReturns

Next == Receive \/ ReadFails \/ Select \/ CloseNext \/ \E w \in Workers : Work(w)

Spec == Init /\ [][Next]_vars

(* Goroutines that can move do, and Route returns: the data engine bounds  *)
(* its wait.  Datagrams need not arrive and Close need not be called.      *)
Fairness ==
    /\ WF_vars(Select) /\ WF_vars(ReadFails /\ ~connected)
    /\ WF_vars(CloseNext /\ closer # "idle")
    /\ \A w \in Workers : WF_vars(Work(w))

FairSpec == Spec /\ Fairness

-----------------------------------------------------------------------------
(* Properties *)

TypeOK ==
    /\ serve \in {"read", "select", "exited", "panicked"}
    /\ packet \in Seq(Buffer) /\ queue \in Seq(Buffer) /\ Len(queue) <= QueueCapacity
    /\ \A b \in Buffer : size[b] <= Len(content[b]) /\ Len(content[b]) <= UdpMaxPacketSize
    /\ free \subseteq Buffer
    /\ queueClosed \in BOOLEAN /\ ctxDone \in BOOLEAN /\ connected \in BOOLEAN
    /\ closer \in {"idle", "connection", "queue", "wait", "returned"}
    /\ stage \in [Workers -> {"idle", "decode", "route", "exited"}] /\ job \in [Workers -> Seq(Buffer)]
    /\ datagrams \in 0..Len(Sent) /\ messages \in Nat /\ malformed \in Nat /\ dropped \in Nat
    /\ intact \subseteq DOMAIN Sent /\ refused \in Nat

Busy(s) == Cardinality({w \in Workers : stage[w] = s})

(* Every datagram read from the socket is counted as a message, malformed  *)
(* or dropped, or still on its way; only one that Serve holds when it is   *)
(* stopped, be it by the panic, is not counted.                            *)
DatagramsAddUp ==
    datagrams = messages + malformed + dropped + Len(queue) + Busy("decode") + Len(packet)

(* Buffers are reused while workers still process others, and keep the end *)
(* of longer datagrams: still each message is routed at most once and just *)
(* as its device meant it, sign of the values included, and only if its    *)
(* buffer holds the bytes the device sent and no others; none of these     *)
(* counts as malformed.  In three points this is not what docs/design.md   *)
(* says, but what the code does: extra bytes are not noticed when the      *)
(* buffer ends before them (line 184: malformed), a payload of less than   *)
(* 8 KiB is malformed when the buffer cannot hold it (line 144: accepted), *)
(* and a record of an unknown type is routed (line 186: malformed).        *)
RoutedAsSent ==
    /\ \A i, j \in DOMAIN routed : routed[i] = routed[j] => i = j
    /\ \A i \in DOMAIN routed : \E d \in intact : routed[i] = Meant(Sent[d])
    /\ malformed <= datagrams - Cardinality(intact)

(* When Close has returned, all queued datagrams have been decoded and     *)
(* offered to Route, which took or refused each once, and nothing is       *)
(* routed any more: the server may close its storage.                      *)
CloseDrains ==
    closer = "returned" =>
        queue = <<>> /\ Len(routed) + refused = messages /\ Busy("exited") = Cardinality(Workers)

(* Close and Serve both end, also when a datagram arrives between the      *)
(* steps of Close and Serve meets the closed queue.                        *)
CloseCompletes == closer # "idle" ~> closer = "returned" /\ serve \in {"exited", "panicked"}
=============================================================================
