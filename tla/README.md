# TLA+ models of the sensor server

The sensor server receives small binary messages from devices over TCP and UDP, looks the
device up by MAC address, and appends each sensor value to a binary file per floor, room and
sensor. Messages of unknown devices go to a quarantine log and are replayed at the next start.
These modules model the concurrent and the crash-prone parts of that program, TLC checks them
on small instances, and TLAPS proves the central ones for all instances.

Every definition is translated from the Go source; `PROJECT.json` ("map") names the lines.

## 1. Inventory

| Part | Source | State | Operations | Talks to |
|---|---|---|---|---|
| Data file | `sensor-server/data-file.go` | segments on disk, bufio buffer, size, sequence | `OpenDataFile` (repair), `WriteRecord` (rotate), `Flush`, `Close` | file system |
| Data stream | `data-stream.go` | bounded queue, `submitMu`, `closed`, counters, locals of `run` | `Write`, `Close`, goroutine `run` with retries and ticker | data file |
| Data engine | `data-engine.go` | map of streams, `closed`, mutex | `WriteSensorData`, `stream`, `Close`, `Counters` | data streams |
| Quarantine | `quarantine.go` | segments, completion markers, writer | `OpenQuarantineWriter`, `WriteUnknownMessage`, `ReplayQuarantine`, `Close` | data engine, file system |
| Router, registry | `router.go` | atomic snapshot pointer, counters | `Route`, `Reload` | engine, quarantine, monitoring |
| TCP server | `tcp-server.go` | connections, `byMAC`, limit, WaitGroup | `Serve`, `serveConnection`, `Close` | router, monitoring callbacks |
| UDP server | `udp-server.go` | queue, packet pool, counters | `Serve`, `worker`, `Close` | router |
| Configuration, poller | `config.go`, `config-poller.go` | snapshot, observed fingerprint | `LoadConfig`, `ValidateReload`, `Poll`, `Run` | file system, registry |
| Server lifecycle | `server.go`, `cmd/sensor-server/main.go` | components, WaitGroup, `closeOnce` | `OpenServer`, `Close`, `Shutdown`, `fail` | everything |
| Wire protocol | `protocol.go`, `binary_data.go` | none | decode and encode headers, messages, datagrams | servers |
| HTTP plugin | `plugins/http/*.go` | device states, sample rings, subscribers | callbacks, REST snapshots, event stream | TCP server, router |
| Logging | `logging/logging.go` | last time per key | `RateLimiter.Allow` | everything |
| House tables | `house*.go` | none | name lookups | - |

What is hard here: producers, closers and a consumer on one channel; a buffered file whose
rotation can fail half-way; files that must survive crashes and short writes; replay that reads
the log it is writing; callbacks and events outside the mutex they describe; `Close` racing the
accept and receive loops; a start and a shutdown in which any part may fail. The full list, line by line, is "hazards" in `PROJECT.json`.

## 2. Modules

| Module | Models |
|---|---|
| `DataFile` | the data file, one step per system call; every call may fail, a buffer flush may be short, the machine may crash and lose what was not synced |
| `DataFileOwner` | a sequential owner that writes, flushes, closes, crashes and reopens the file |
| `Ingest` | abstract: a bounded, ordered log that drops explicitly and finishes when closed |
| `DataStream` | the data stream over an arbitrary failing writer; implements `Ingest` |
| `StreamStorage` | the data stream on its data file, as `NewFileDataStreamFactory` builds it |
| `DataEngine` | the map of streams with lazy creation and `Close`; a stream is what `Ingest` promises |
| `Quarantine` | writer, startup repair, replay and the router's use of them over several server sessions |
| `TCPServer` | `Serve`, connection goroutines, `Close` |
| `MonitoringState` | the reported connection state of a device |
| `Presence` | the TCP server with the monitoring callbacks attached, as `main.go` wires them |
| `Protocol` | headers, payload records, 24-bit values, datagrams: decoding and encoding as operators |
| `UDPServer` | receive loop, packet pool, workers, `Close`, on damaged and oversized datagrams |
| `SampleRing` | the history of one sensor as operators |
| `Monitoring` | the HTTP plugin: callbacks, event hub, event streams, REST snapshots, shutdown |
| `Server` | the life of the process: `OpenServer`, components, `Close`, `Shutdown`, `run` of `main.go` |
| `Config` | defaults, validation, lookups and `ValidateReload` as operators on abstract file contents |
| `Routing` | registry, poller and concurrent `Route` calls while the file is edited |
| `DataStreamProofs` | theorems about `DataStream` |
| `MC...` | instances for TLC; each `.cfg` gives the constants |

Conventions. A step is a point where another goroutine, the operating system or a crash can
interfere: a channel operation, a section under a mutex, an atomic flag, a system call. Records,
messages and datagrams are numbers or model values; where the bytes matter (segments), a byte is
the pair of its record and its position, so a torn or misaligned record is visible.
Operators named `<Definition>_<Bug>` are deliberate mistakes: each replaces the definition it is
named after to show that a property would notice. Nothing else uses them.

### How state and actions follow the code

* **DataFile.** `disk` holds the segments, `synced` how much of each survives a crash, `memory` is
  the Go struct. `WriteRecord` is `BeginWrite` (rotate or not), then `SegmentFlush`, `SegmentSync`,
  `SegmentClose`, `RotateOpen` when it rotates, then one of the `Append...` steps: the record fits
  the buffer, spills it, or meets a buffer with a sticky error. `NilBuffer` is the use of a nil
  buffer after a failed rotation. Startup is `OpenDataFile`, one `RepairSegment` per segment in the
  order of their names, then `OpenCurrentSegment`; each may fail, and the machine may stop in between.
* **DataStream.** The RWMutex is `readers` and `lockWaiting` (a waiting `Lock` holds back `RLock`,
  as Go documents). `accepted` is counted after the send, so `run` can be ahead of it. The two
  results of a call to the writer are parameters of the action (`RunFlushed(ok)`).
* **DataEngine.** `Lock`, `Lookup`, `Factory` and `Insert` are `stream()`: the second check of
  `closed`, the check of the map, the making of the stream and its insertion, with the mutex held;
  `CloseBegin` is the compare-and-swap, `CloseSnapshot` the locked copy of the map.
* **Quarantine.** The writer's mutex covers a whole `WriteUnknownMessage`, so its outcomes are
  single steps (`WriteSucceeds`, `WriteShort`, `WriteCloseFails`, `WriteOpenFails`, `WritePanics`),
  except that a crash may cut a write anywhere (`Cut`). Replay is one step per entry; `list` is a
  set, of which the loop takes the smallest, as the discovered segments are sorted.
* **TCPServer.** One step per lock section or channel operation of `startConnection`,
  `bindConnection`, the deferred function of `serveConnection`, and `Close`. Whether `Route` takes a
  message or refuses it changes nothing here.
* **Protocol, UDPServer.** A datagram is a sequence: one item per header field, then the bytes of
  the payload. `ReadInto` overwrites the front of a pooled buffer and leaves the rest, so a buffer
  reused too early or read past its datagram shows up in what is routed. `Arriving` is the network:
  the message as its device encoded it, or cut, padded or with a changed byte. The checksum is taken
  to tell all payloads apart. `free` is the packet pool together with buffers nobody refers to.
  `Meant` is what a message is to the server, for which all sensor types it does not know are one;
  `intact` is history: the datagrams of which the buffer got exactly what the device sent (a padded
  one can be among them, when the buffer ends where the message does). Once `Close` has cancelled the
  context `Route` may refuse a message, which `refused` counts.
* **Config, Routing.** A file is a name in `Contents` and a number for modification time and size.
  `Limits` is the table of defaults and ranges. `OpenLoad` and `OpenPoller` are the two moments of
  `OpenServer` that look at the file, `PollStat` and `PollLoad` those of `Poll`; edits fall between.
  A `Route` call keeps its snapshot in `route` and takes one step per addition to a counter; a record
  that is rejected is counted twice, under its reason and, in the next step (`owes`), as rejected.
* **Monitoring.** A callback is two steps, the update under `state.mu` and `Publish` under `hub.mu`;
  between them the event is in `outbox`. A handler is in its `select` or in a write, which a client
  that does not read can hold up for ever. `owed`, `recent`, `told` and `overtaken` are history.
* **Server.** `step` walks through the parts `OpenServer` acquires, `Cleanup` is what each failure
  gives up. `main` is where `run` is, `closeStage` where the function of `closeOnce` is, with one step per
  wait. TCP connections, UDP workers and the engine are reduced to who may still route and what is
  not handled yet; their own races are in `Presence`, `UDPServer` and `DataEngine`.

## 3. Runs

| Run | Bounds | Shows |
|---|---|---|
| `data_file` | records of 2 bytes, buffer 3, rotation 5, 2 failing calls, 2 crashes | segments are sequences of whole records in order of arrival, numbered densely enough that nothing lies above the active one, bounded in size, and a completed one gets no byte any more and loses at most an incomplete record or what no fsync covered, whatever restarts there are; a clean `Close` is durable and acknowledged records are in the buffer or the file |
| `data_stream` | 2 producers with 2 records, 2 closers, queue of 1, 1 retry | no send on the closed queue, no record unaccounted, `Close` means drained, refinement of `Ingest` with its liveness, `Write` and `Close` return |
| `stream_storage` | 4 records, queue of 2, 2 failing calls | a stream that reports neither error nor retry has made everything durable |
| `data_engine` | 2 writers, 2 closers, 2 keys | one stream per key, none created behind or surviving `Close`, `Close` returns |
| `quarantine` | 3 messages, 3 sessions, 2 interruptions (crash, failing call, short write) | nothing accepted is lost before it is handed over, duplicates only after interruptions, replay reads only completed segments and ends |
| `presence` | 3 connections, limit 2, one device | tokens, registry and reported state agree with the connections; replaced ones are closed; `Close` completes |
| `udp_server` | 4 datagrams (two samples, one of an unknown type, none, too long for a buffer; the extreme values of 24 bits), buffers of 13 items, which the first just fills, 2 workers, queue of 1 | counters add up; every message routed is one a device sent, with its values, at most once, and arrived whole; no datagram that arrived whole counts as malformed; `Close` hands over all that is queued and returns |
| `routing` | 2 edits over 7 contents (other devices, other sensors, other settings, a device twice, a setting out of range), also with an old modification time, 2 callers of `Route`, 1 failing call | one snapshot per message, counters add up, only devices ever change, the file is followed unless `Missed` |
| `server` | 2 connections, 1 worker, queue of 1, 1 record in the streams; any part, component, plugin or deadline may fail | a failed start leaves nothing open; after `Close` nothing runs and all accepted records are handled, but for one `late` connection; failures are reported; the process ends |
| `monitoring` | 2 devices, 2 connections of one of them, ring of 2, 3 samples, 2 event streams with queues of 2 | histories and room summaries are exact; a slow client costs only itself; the last event agrees with the state unless updates overlapped; streams end at shutdown |
| `stream_panic` | as `stream_storage` | violated: see findings |
| `replay_loss` | 1 interruption | violated |

Why the bounds are enough. In the file runs a record neither fits the free buffer exactly nor the
segment exactly, so spilling, rotation and repair all meet partial records; two faults and two
crashes let a second failure hit the recovery from the first. A queue of one makes full and empty
adjacent. Two closers are needed for a second `Close` to overtake the first, two interruptions for
a duplicate of a duplicate, three connections for a replacement of a replacement and for a
connection that waits for a token. Devices do not interact in the TCP server except through the
limit, so one MAC address is enough. In `quarantine` the entries have different lengths, two of
them fill a segment exactly and the third needs its own, so replay rotates the segment it writes.
In `monitoring` three samples, the second out of range, wrap a ring of two, and queues of two hold
events in an order; a callback of the UDP server differs from one of
a connection only in the transport it notes, so connections are enough. In `server` one worker and
two connections suffice for one goroutine inside `Route`, one waited for and one that `Close` missed.

Deadlock checking is off: every one of these components may legitimately stop (closed, out of
messages, out of the bounded number of sessions).

### Fairness

* `DataStream`: every goroutine that can move does. A `Write` leaves its `select` because its timer
  fires. `run` may find a tick ready each time it returns to its `select`; Go chooses among ready
  cases at random, hence strong fairness for receiving and for noticing the closed queue.
* `DataEngine`: callers and streams that can move do.
* `Quarantine`: replay is a loop that waits for nobody.
* `Presence`: nothing is assumed of peers: `Read` and `ReadFails` are not fair, since a quiet
  connection has no timeout. `Serve` is only fair once the listener is closed or a connection is in hand.
* `UDPServer`: `Route` returns, because `DataStream.Write` bounds its wait (`CallsReturn`).
* `Monitoring`: a handler whose client reads finishes its writes, and notices the end of the server:
  strong fairness of `Stop`, since `select` chooses at random among the ready cases. Nothing is assumed
  of the handlers of clients in `Stalled`, or of the callbacks.
* `Server`: goroutines that can move do, timers fire, `Route` returns and streams drain (the liveness
  of `DataStream` and `DataEngine`). Nothing is assumed of peers, signals or failures.
* `Routing`: the ticker keeps firing and `OpenServer` goes on. Nothing is assumed of `Route` calls.

Nobody is assumed to call `Close`.

## 4. Findings

Two runs end in a counterexample to something the repository says of the program; the quotations
are in `PROJECT.json`.

* `stream_panic`: `rotate` drops file and buffer before calls that can fail. After a failed close or
  open, the next write or flush uses a nil buffer in the `run` goroutine, where nothing recovers.
* `replay_loss`: a segment is marked complete when its records have been queued. A crash before
  they are written loses them, although replay is documented as at-least-once.

Met on the way, and visible in the exceptions that passing properties have to make:

* `CloseEndsConnections` and `CloseCompletes` of `Presence` exclude `late` connections: one accepted
  before the listener closes can enter the map after `Close` has collected it; it is served on after
  `Close`, or `Close` waits for its peer. `DoneMeansStopped` of `Server` has the same exception, where
  `docs/design.md` (line 415) says "Wait for all owned goroutines to exit"; it shows that there is at
  most one such connection, and that nothing it routes is stored.
* `CloseDrains` counts messages that `Route` may have refused: `Close` of the UDP server cancels the
  context before its workers have drained the queue, and quarantine and data streams look at it.
* `RoutedAsSent` follows the code in three points in which `docs/design.md` says otherwise: a payload
  of up to 8 KiB (line 144) that exceeds the buffer of 1500 bytes is malformed over UDP; extra bytes
  (line 184) are not noticed when the buffer ends before them, so that a datagram cut to the buffer can
  be a valid message; a record of an unknown sensor type (line 186) is routed and counted by the router.
* `RecordsAddUp` holds of the counters up to the additions that are still to come: `Route` counts a
  rejected record under its reason first, so that a reader of `Counters` may see the two differ.
* `AcceptedStayAvailable` excludes short writes of the quarantine log: one leaves some bytes in the
  segment and the next entry is appended behind them; the next start rejects the segment, or loses
  what follows.
* `ReportsOnlyTheLiving` says only that no dead connection is reported. `OnDeviceConnected` runs after
  the mutex is released: the callback of an old connection can overtake that of its replacement, and
  its end then hides the replacement.
* `EventsMatchState` excludes `overtaken` events: they are published after `state.mu` is released, so
  the last event a client sees may be the older one.
* `ProcessEnds` excludes a `Straggler`: after an error of the HTTP plugin `run` calls `Close`, which
  has no deadline and may wait for a connection it has not closed.
* `ShutdownExpires` leaves the quarantine and the data engine open until the process is gone, where
  `docs/design.md` has the remaining resources closed when the deadline expires.
* `FollowsFile` excludes `Missed`: `Poll` remembers the fingerprint before it reads the file, so a
  read that fails is not repeated; and `NewConfigPoller` takes its first fingerprint after the
  replay, so an edit made since the file was loaded is never applied.
* The file factory never sets `Retryable`, so the documented retries do not happen
  (`Verdicts = {FALSE}`). The quarantine writer has the same nil-file state as the data file
  (`RoutePanics`). The UDP receive loop may panic on the closed queue, which `componentDone`
  recovers (`SendPanics`; `CloseCompletes` of `UDPServer` shows that `Close` is not held up).

## 5. Proofs

`DataStreamProofs` proves, for any sets of producers and closers and any capacity, retry and
backoff settings that satisfy `StreamAssumption` (what `NewDataStream` validates):

* `TypeCorrect`: the type invariant, including that `attempt` and `backoff` stay in their ranges;
* `NeverSendsOnClosedQueue`, `AllRecordsAccounted`, `CloseDrains`: the three safety invariants;
* `StreamKeepsOrder`: the stream implements the safety part of `Ingest`, with the record in hand
  and the queue as its pending records.

None of the invariants is inductive alone. `Inv` adds: who holds the read lock is exactly who is
inside `Write`, and the queue is only closed when nobody holds it (`LockInv`); `run` holds a record
exactly while writing or backing off and has left its loop only after the queue was closed and
empty (`RunInv`); `decided` is the sum of the places a record can be in, `written` the length of the
log (`CountInv`); a `Close` has returned only if `run` has exited
(`ReturnInv`). Each part has one lemma for the steps of the clients and one for those of `run`.
The refinement follows from `Inv` by mapping each action to a step of `Ingest` or to a stutter.

Only model-checked: everything about the other modules so far; liveness and fairness everywhere
(`KeepsPromise`, `CallsReturn`, `FollowsFile`, `ProcessEnds`, `ReplayFinishes`, `StreamsEnd`, the
`...Completes` properties), which is outside this prover; and what recursive
definitions such as `Scan` compute.

## 6. Not modelled

* The bytes of stored records and quarantine entries beyond their boundaries, formatting, log texts.
* Time: timers fire at any moment; latency and the sizes of intervals are not represented.
* Logging and its rate limiter (`logging.go`): output, and a table of the last time of each warning
  that no other part reads.
* HTTP request routing, JSON, CORS and the health status (`http-server.go`, `newHandler`,
  `buildStatus`): functions of one request and the state modelled in `Monitoring`, without state of
  their own. The plugin's configuration is checked once and never changes.
* `ReadMessage` of `protocol.go`, which only tests call. The framing of messages in `TCPServer` is
  their MAC: one that is framed but cannot be decoded changes only a counter, lost framing is `ReadFails`.
* The house tables (`house*.go`): constants and name lookups. `platform.go`: direct calls of the
  operating system, whose outcomes are part of the actions that make them.
* `Counters`, `Address` and other accessors, which read single values.
* How names are spelled: JSON, MAC addresses, listen addresses and paths are values that parse or not.
* Power failure in the quarantine: its crash is that of the process (`DataFile` has the stronger one).
* Segment numbers of more than eight digits, which the code does not parse.
