----------------------------- MODULE Quarantine -----------------------------
(***************************************************************************)
(* The quarantine log of messages from unknown devices (quarantine.go):    *)
(* its writer, the repair of its segments at startup, and the replay that  *)
(* runs between startup and the opening of the listeners (server.go).      *)
(*                                                                         *)
(* A segment is a sequence of bytes <<m, k>>, the k-th byte of the entry   *)
(* of message m.  Two bytes stand for the header: byte 1 for the magic     *)
(* number, byte 2 for the entry length.  Entries have different lengths.   *)
(*                                                                         *)
(* The data engine is only what replay can see of it: it accepts a record  *)
(* or refuses it, holds it in memory (queue and write buffer) and stores   *)
(* it some time later.  Every message has one sensor record.               *)
(***************************************************************************)
EXTENDS Integers, Sequences, FiniteSetsExt

CONSTANTS
    Message,        \* messages from devices
    Known,          \* the messages whose device is configured, for every configuration
    Size,           \* message -> length of its entry
    RotationSize,   \* options.RotationSize
    MaxSessions,    \* bound: times the server is started
    MaxInterruptions    \* bound: process crashes, failing calls and short writes

HeaderSize == 2

ASSUME QuarantineAssumption ==
    /\ Size \in [Message -> Nat] /\ \A m \in Message : Size[m] >= HeaderSize
    /\ Known \subseteq SUBSET Message
    /\ RotationSize \in Nat

VARIABLES
    disk,       \* segment number -> bytes
    done,       \* segments with a completion marker
    phase,      \* "down", "replay", "running", "stopping" or "panic"
    opened,     \* writer.file is not nil
    sequence,   \* writer.sequence
    size,       \* writer.size
    known,      \* messages whose device is in the configuration
    list,       \* replay: the segments it discovered and has not looked at, taken in ascending order
    source,     \* replay: the segment being read, 0 if none
    entries,    \* replay: its entries not yet processed
    fresh,      \* messages that have not arrived yet
    acked,      \* history: messages WriteUnknownMessage accepted from the router
    held,       \* messages accepted by the data engine, in memory only
    stored,     \* messages in the data files
    handed,     \* history: message -> times replay gave it to the data engine
    sessions, crashes, faults, shorts

writer == <<disk, opened, sequence, size>>
replay == <<list, source, entries>>
bounds == <<sessions, crashes, faults, shorts>>
vars == <<writer, done, phase, known, replay, fresh, acked, held, stored, handed, bounds>>

Interruptions == crashes + faults + shorts

Segments == DOMAIN disk
Encode(m) == [k \in 1..Size[m] |-> <<m, k>>]
Take(s, n) == SubSeq(s, 1, n)

-----------------------------------------------------------------------------
(* Reading segments *)

(* decodeQuarantineEntry: the checksum covers every byte of the entry.     *)
Decodes(data, m) == data = Encode(m)

(* scanQuarantineEntries: the length of the valid prefix when what follows *)
(* looks like an incomplete entry, -1 when the scan returns an error.      *)
Scan(data) ==
    LET scan[o \in 0..Len(data)] ==
            IF Len(data) - o < HeaderSize THEN o
            ELSE IF data[o + 1][2] # 1 \/ data[o + 2][2] # 2 THEN -1
            ELSE LET m == data[o + 2][1] IN
                 IF Size[m] > Len(data) - o THEN o
                 ELSE IF Decodes(SubSeq(data, o + 1, o + Size[m]), m) THEN scan[o + Size[m]] ELSE -1
    IN scan[0]

(* repairQuarantineTail: what is left of a segment.                        *)
Repaired(s) == Take(disk[s], Scan(disk[s]))

(* readQuarantineEntries, of a repaired segment.                           *)
Entries(data) ==
    LET read[o \in Nat] ==
            IF o >= Len(data) THEN <<>> ELSE <<data[o + 1][1]>> \o read[o + Size[data[o + 1][1]]]
    IN read[0]

-----------------------------------------------------------------------------
(* WriteUnknownMessage, by outcome.  The writer is locked throughout, so   *)
(* only the outcome and a crash in the middle (see Crash) are visible.     *)

NeedsRotation(m) == size > 0 /\ size + Size[m] > RotationSize

(* The first n bytes of the entry reach the active segment, or the next    *)
(* one when rotate succeeds first.                                         *)
Put(m, n) ==
    IF NeedsRotation(m)
    THEN disk' = [s \in Segments \cup {sequence + 1} |->
                    IF s = sequence + 1 THEN Take(Encode(m), n) ELSE disk[s]]
    ELSE opened /\ disk' = [disk EXCEPT ![sequence] = @ \o Take(Encode(m), n)]

Rotated(m) == sequence' = IF NeedsRotation(m) THEN sequence + 1 ELSE sequence

WriteSucceeds(m) ==
    /\ Put(m, Size[m])
    /\ Rotated(m) /\ opened' = TRUE
    /\ size' = (IF NeedsRotation(m) THEN 0 ELSE size) + Size[m]

(* file.Write returns an error after n bytes: size is not updated.         *)
WriteShort(m, n) ==
    /\ Interruptions < MaxInterruptions /\ shorts' = shorts + 1 /\ UNCHANGED faults
    /\ n \in 0..(Size[m] - 1)
    /\ Put(m, n)
    /\ Rotated(m) /\ opened' = TRUE
    /\ size' = IF NeedsRotation(m) THEN 0 ELSE size

(* rotate fails to sync or close the old segment: file becomes nil.        *)
WriteCloseFails(m) ==
    /\ Interruptions < MaxInterruptions /\ faults' = faults + 1 /\ UNCHANGED shorts
    /\ NeedsRotation(m) /\ opened
    /\ opened' = FALSE
    /\ UNCHANGED <<disk, sequence, size>>

(* rotate fails to open the new segment, after sequence and size moved on. *)
WriteOpenFails(m) ==
    /\ Interruptions < MaxInterruptions /\ faults' = faults + 1 /\ UNCHANGED shorts
    /\ NeedsRotation(m)
    /\ opened' = FALSE /\ sequence' = sequence + 1 /\ size' = 0
    /\ UNCHANGED disk

WriteFails(m) ==
    \/ \E n \in 0..Size[m] : WriteShort(m, n)
    \/ WriteCloseFails(m) \/ WriteOpenFails(m)

(* writer.file is nil and no rotation is due: file.Write is called on nil. *)
WritePanics(m) == ~opened /\ ~NeedsRotation(m)

-----------------------------------------------------------------------------
(* OpenServer: OpenQuarantineWriter, then ReplayQuarantine *)

(* Every segment is scanned and its tail repaired, and a new segment is    *)
(* opened; a scan error fails the startup.  The configuration of this      *)
(* session knows the devices of K.  Replay lists the segments, the new one *)
(* included, in ascending order.                                           *)
OpenQuarantineWriter(K) ==
    /\ phase = "down"
    /\ sessions < MaxSessions /\ sessions' = sessions + 1
    /\ \A s \in Segments : Scan(disk[s]) # -1
    /\ LET next == IF Segments = {} THEN 1 ELSE Max(Segments) + 1 IN
        /\ disk' = [s \in Segments \cup {next} |->
                      IF s = next THEN <<>> ELSE Repaired(s)]
        /\ sequence' = next
        /\ list' = Segments \cup {next}
    /\ opened' = TRUE /\ size' = 0
    /\ known' = K /\ phase' = "replay"
    /\ UNCHANGED <<done, source, entries, fresh, acked, held, stored, handed, crashes, faults, shorts>>

(* Mutant: the writer's own segment is not skipped.                        *)
ReplaySegment_Active ==
    /\ phase = "replay" /\ source = 0 /\ list # {}
    /\ list' = list \ {Min(list)}
    /\ IF Min(list) > sequence \/ Min(list) \in done
       THEN UNCHANGED <<source, entries>>
       ELSE source' = Min(list) /\ entries' = Entries(disk[Min(list)])
    /\ UNCHANGED <<writer, done, phase, known, fresh, acked, held, stored, handed, bounds>>

(* Mutant: completion markers are not looked at.                           *)
ReplaySegment_Again ==
    /\ phase = "replay" /\ source = 0 /\ list # {}
    /\ list' = list \ {Min(list)}
    /\ IF Min(list) >= sequence
       THEN UNCHANGED <<source, entries>>
       ELSE source' = Min(list) /\ entries' = Entries(disk[Min(list)])
    /\ UNCHANGED <<writer, done, phase, known, fresh, acked, held, stored, handed, bounds>>

(* Mutant: a segment is marked before its entries are processed.           *)
ReplaySegment_MarksFirst ==
    /\ phase = "replay" /\ source = 0 /\ list # {}
    /\ list' = list \ {Min(list)}
    /\ IF Min(list) >= sequence \/ Min(list) \in done
       THEN UNCHANGED <<source, entries, done>>
       ELSE /\ source' = Min(list) /\ entries' = Entries(disk[Min(list)])
            /\ done' = done \cup {Min(list)}
    /\ UNCHANGED <<writer, phase, known, fresh, acked, held, stored, handed, bounds>>

(* Mutant: skipping a segment does not advance the loop.                   *)
ReplaySegment_Stays ==
    /\ phase = "replay" /\ source = 0 /\ list # {}
    /\ Min(list) < sequence /\ Min(list) \notin done
    /\ list' = list \ {Min(list)}
    /\ source' = Min(list) /\ entries' = Entries(disk[Min(list)])
    /\ UNCHANGED <<writer, done, phase, known, fresh, acked, held, stored, handed, bounds>>

(* The loop head: segments at or above the writer's current number, and    *)
(* completed ones, are skipped.                                            *)
ReplaySegment ==
    /\ phase = "replay" /\ source = 0 /\ list # {}
    /\ list' = list \ {Min(list)}
    /\ IF Min(list) >= sequence \/ Min(list) \in done
       THEN UNCHANGED <<source, entries>>
       ELSE source' = Min(list) /\ entries' = Entries(disk[Min(list)])
    /\ UNCHANGED <<writer, done, phase, known, fresh, acked, held, stored, handed, bounds>>

(* An entry whose device is known now goes to the data engine.             *)
ReplayKnown ==
    /\ phase = "replay" /\ entries # <<>> /\ Head(entries) \in known
    /\ held' = held \cup {Head(entries)}
    /\ handed' = [handed EXCEPT ![Head(entries)] = @ + 1]
    /\ entries' = Tail(entries)
    /\ UNCHANGED <<writer, done, phase, known, list, source, fresh, acked, stored, bounds>>

(* One that is still unknown is carried over into the writer's segment.    *)
ReplayCarry ==
    /\ phase = "replay" /\ entries # <<>> /\ Head(entries) \notin known
    /\ WriteSucceeds(Head(entries))
    /\ entries' = Tail(entries)
    /\ UNCHANGED <<done, phase, known, list, source, fresh, acked, held, stored, handed, bounds>>

(* All entries are processed: the marker is renamed into place.            *)
ReplayMark ==
    /\ phase = "replay" /\ source # 0 /\ entries = <<>>
    /\ done' = done \cup {source}
    /\ source' = 0
    /\ UNCHANGED <<writer, phase, known, list, entries, fresh, acked, held, stored, handed, bounds>>

(* Any error ends the replay, and OpenServer closes what it has opened:    *)
(* a file cannot be read, the data engine refuses a record, the context is *)
(* done, the marker cannot be written ...                                  *)
ReplayFails ==
    /\ phase = "replay"
    /\ Interruptions < MaxInterruptions /\ faults' = faults + 1
    /\ phase' = "stopping"
    /\ UNCHANGED <<writer, done, known, replay, fresh, acked, held, stored, handed, sessions, crashes, shorts>>

(* ... or a message cannot be carried.                                     *)
ReplayCarryFails ==
    /\ phase = "replay" /\ entries # <<>> /\ Head(entries) \notin known
    /\ WriteFails(Head(entries))
    /\ phase' = "stopping"
    /\ UNCHANGED <<done, known, replay, fresh, acked, held, stored, handed, sessions, crashes>>

ReplayEnds ==
    /\ phase = "replay" /\ source = 0 /\ list = {}
    /\ phase' = "running"
    /\ UNCHANGED <<writer, done, known, replay, fresh, acked, held, stored, handed, bounds>>

-----------------------------------------------------------------------------
(* The running server: MessageRouter.Route of a new message *)

RouteKnown(m) ==
    /\ phase = "running" /\ m \in fresh \cap known
    /\ fresh' = fresh \ {m}
    /\ held' = held \cup {m}
    /\ UNCHANGED <<writer, done, phase, known, replay, acked, stored, handed, bounds>>

RouteUnknown(m) ==
    /\ phase = "running" /\ m \in fresh \ known
    /\ WriteSucceeds(m)
    /\ fresh' = fresh \ {m}
    /\ acked' = acked \cup {m}
    /\ UNCHANGED <<done, phase, known, replay, held, stored, handed, bounds>>

(* A write fails; or, when the server is about to stop, the context of the *)
(* call is done or the writer closed, and nothing is written.              *)
RouteFails(m) ==
    /\ phase = "running" /\ m \in fresh \ known
    /\ WriteFails(m) \/ UNCHANGED <<writer, faults, shorts>>
    /\ fresh' = fresh \ {m}
    /\ UNCHANGED <<done, phase, known, replay, acked, held, stored, handed, sessions, crashes>>

RoutePanics(m) ==
    /\ phase = "running" /\ m \in fresh \ known
    /\ WritePanics(m)
    /\ phase' = "panic"
    /\ UNCHANGED <<writer, done, known, replay, fresh, acked, held, stored, handed, bounds>>

EngineStores(m) ==
    /\ m \in held
    /\ held' = held \ {m} /\ stored' = stored \cup {m}
    /\ UNCHANGED <<writer, done, phase, known, replay, fresh, acked, handed, bounds>>

Close == opened' = FALSE

(* Server.Close, or the cleanup of a failed OpenServer: the writer is      *)
(* closed and the data engine drained.                                     *)
Stop ==
    /\ phase \in {"running", "stopping"}
    /\ phase' = "down"
    /\ held' = {} /\ stored' = stored \cup held
    /\ Close /\ list' = {} /\ source' = 0 /\ entries' = <<>>
    /\ UNCHANGED <<disk, done, sequence, size, known, fresh, acked, handed, bounds>>

(* The process dies: memory is lost, files keep what was written, and an   *)
(* entry being written may be cut anywhere.                                *)
Cut(m) == \E n \in 0..(Size[m] - 1) : Put(m, n)

Crash ==
    /\ phase # "down"
    /\ Interruptions < MaxInterruptions /\ crashes' = crashes + 1
    /\ \/ UNCHANGED <<disk, fresh>>
       \/ /\ phase = "replay" /\ entries # <<>> /\ Head(entries) \notin known
          /\ Cut(Head(entries))
          /\ UNCHANGED fresh
       \/ /\ phase = "running"
          /\ \E m \in fresh \ known : Cut(m) /\ fresh' = fresh \ {m}
    /\ phase' = "down" /\ held' = {}
    /\ opened' = FALSE /\ list' = {} /\ source' = 0 /\ entries' = <<>>
    /\ UNCHANGED <<done, sequence, size, known, acked, stored, handed, sessions, faults, shorts>>

(* A reload changes which devices are known and does not replay anything.  *)
Reload(K) ==
    /\ phase = "running"
    /\ known' = K
    /\ UNCHANGED <<writer, done, phase, replay, fresh, acked, held, stored, handed, bounds>>

-----------------------------------------------------------------------------
Init ==
    /\ disk = [s \in {} |-> <<>>] /\ done = {} /\ phase = "down"
    /\ opened = FALSE /\ sequence = 0 /\ size = 0 /\ known = {}
    /\ list = {} /\ source = 0 /\ entries = <<>>
    /\ fresh = Message /\ acked = {} /\ held = {} /\ stored = {}
    /\ handed = [m \in Message |-> 0]
    /\ sessions = 0 /\ crashes = 0 /\ faults = 0 /\ shorts = 0

Replaying ==
    \/ ReplaySegment \/ ReplayKnown \/ ReplayCarry \/ ReplayMark
    \/ ReplayFails \/ ReplayCarryFails \/ ReplayEnds

Running == \E m \in Message :
    RouteKnown(m) \/ RouteUnknown(m) \/ RouteFails(m) \/ RoutePanics(m) \/ EngineStores(m)

Next ==
    \/ \E K \in Known : OpenQuarantineWriter(K) \/ Reload(K)
    \/ Replaying \/ Running \/ Stop \/ Crash

Spec == Init /\ [][Next]_vars

(* Replay is a loop of the starting goroutine that waits for nobody.       *)
FairSpec == Spec /\ WF_vars(Replaying)

-----------------------------------------------------------------------------
(* Properties *)

TypeOK ==
    /\ Segments \subseteq Nat /\ \A s \in Segments : disk[s] \in Seq(Message \X Nat)
    /\ done \subseteq Segments /\ source \in Segments \cup {0}
    /\ phase \in {"down", "replay", "running", "stopping", "panic"}
    /\ opened \in BOOLEAN /\ sequence \in Nat
    /\ size \in Nat /\ \E n \in {RotationSize} \cup {Size[m] : m \in Message} : size <= n
    /\ list \subseteq Segments /\ entries \in Seq(Message)
    /\ known \cup fresh \cup acked \cup held \cup stored \subseteq Message
    /\ handed \in [Message -> Nat]

(* What the next startup reads: nothing at all if one scan fails.          *)
Readable(s) == Entries(Repaired(s))
Copies(m) ==
    IF \E s \in Segments : Scan(disk[s]) = -1 THEN 0
    ELSE Cardinality(UNION {{s} \X {i \in DOMAIN Readable(s) : Readable(s)[i] = m} : s \in Segments \ done})

Available(m) == handed[m] > 0 \/ Copies(m) > 0

(* A message the quarantine accepted can be read at the next startup until *)
(* a replay has handed it to the data engine, unless a short write damaged *)
(* a segment: a crash in the middle of a write, a failed rotation, a carry *)
(* or a crash before a marker never costs one.                             *)
AcceptedStayAvailable == shorts = 0 => \A m \in acked : Available(m)

(* Replay delivers more than once only because replays were cut short, and *)
(* every interruption at most doubles the copies of a message: without     *)
(* one, each message is delivered exactly once, or still waits once.       *)
DuplicatesNeedInterruptions ==
    phase = "running" =>
        \A m \in Message : handed[m] + Copies(m) <= 2 ^ Interruptions

(* Replay never reads a segment that is being written, and neither the     *)
(* segment it reads nor a completed one ever changes again, although       *)
(* replay itself writes into the quarantine and may rotate it.             *)
SourceNeverChanges == [][\A s \in done \cup ({source} \ {0}) : disk'[s] = disk[s]]_vars

(* Replay ends, although the messages it carries over may rotate the       *)
(* writer's segment, which then is no longer skipped and is replayed too.  *)
ReplayFinishes == phase = "replay" ~> phase # "replay"

(* "Replay provides at-least-once delivery" (docs/design.md:292-296): a    *)
(* message the quarantine accepted is available for replay, or in the data *)
(* engine's hands, or stored.  Short writes, which damage the segments for *)
(* any reader, are left out: the violation is one of the replay.           *)
ReplayIsAtLeastOnce == shorts = 0 => \A m \in acked : Copies(m) > 0 \/ m \in held \cup stored
=============================================================================
