------------------------------ MODULE DataFile ------------------------------
(***************************************************************************)
(* The segmented data file of one data stream (data-file.go).              *)
(*                                                                         *)
(* A data file appends records of RecordSize bytes to numbered segments    *)
(* through a bufio.Writer.  It has a single owner, so calls never overlap; *)
(* what makes it hard is that every system call may fail (a write may also *)
(* be short) and that the machine may stop between any two of them.  An    *)
(* operation is therefore a sequence of steps, one per system call (one    *)
(* per segment in the repair at startup), driven by pc; a caller starts    *)
(* one with BeginWrite, BeginFlush or BeginClose and collects its error    *)
(* from result.                                                            *)
(*                                                                         *)
(* The k-th byte of record r is <<r, k>>: its value never matters, only    *)
(* which record it belongs to and where in the record it stands.           *)
(***************************************************************************)
EXTENDS Integers, Sequences

CONSTANTS
    RecordSize,     \* SensorDataRecordSize (12 in the code)
    BufferSize,     \* options.BufferSize of the bufio.Writer
    RotationSize    \* options.RotationSize

ASSUME SizesAssumption ==
    /\ RecordSize \in Nat \ {0}
    /\ BufferSize \in Nat \ {0}
    /\ RotationSize \in Nat
    /\ RotationSize >= RecordSize

VARIABLES
    disk,       \* segment number -> bytes in the file, as any reader sees them
    synced,     \* segment number -> how many of these bytes fsync has covered
    up,         \* a DataFile exists: OpenDataFile succeeded and no crash since
    opened,     \* dataFile.file (and with it dataFile.buffer) is not nil
    buffer,     \* bytes held by the bufio.Writer
    stuck,      \* the bufio.Writer's sticky error is set
    sequence,   \* dataFile.sequence; during repair its local, 0 as long as ~found
    size,       \* dataFile.size; during repair the local activeSize
    closed,     \* dataFile.closed
    pc,         \* next step of the running operation, "idle" between calls
    rest,       \* append: bytes of the record not yet taken by the buffer
    failed,     \* closeCurrentSegment: the errors joined so far are not nil
    result      \* error of the last call: "none" while it runs

memory == <<up, opened, buffer, stuck, sequence, size, closed, pc, rest, failed, result>>
dfVars == <<disk, synced, memory>>

Encode(r) == [k \in 1..RecordSize |-> <<r, k>>]
Take(s, n) == SubSeq(s, 1, IF n <= Len(s) THEN n ELSE Len(s))
Drop(s, n) == SubSeq(s, n + 1, Len(s))

firstSegmentSequence == 1

(* Size the startup repair leaves of a segment: its last whole record.     *)
RepairedSize(s) == Len(disk[s]) - (Len(disk[s]) % RecordSize)

Return(err) == pc' = "idle" /\ result' = err

-----------------------------------------------------------------------------
(* System calls *)

(* file.Write(bytes) on the active segment (O_APPEND): n bytes arrive; the *)
(* call succeeds exactly when all of them do.                              *)
FileWrite(bytes, n) ==
    disk' = [disk EXCEPT ![sequence] = @ \o Take(bytes, n)]

(* OpenFile(segmentPath, O_CREATE|O_APPEND|O_RDWR) for segment s.          *)
FileCreate(s) ==
    /\ disk' = IF s \in DOMAIN disk THEN disk
               ELSE [x \in DOMAIN disk \cup {s} |-> IF x = s THEN <<>> ELSE disk[x]]
    /\ synced' = IF s \in DOMAIN disk THEN synced
                 ELSE [x \in DOMAIN disk \cup {s} |-> IF x = s THEN 0 ELSE synced[x]]

-----------------------------------------------------------------------------
(* WriteRecord *)

(* The entry of WriteRecord: the closed check, then rotation when the      *)
(* record does not fit.  rotate starts with closeCurrentSegment, which     *)
(* returns at once when there is no file.                                  *)
BeginWrite(r) ==
    /\ up /\ pc = "idle"
    /\ IF closed
       THEN /\ Return("error")
            /\ UNCHANGED <<rest, failed>>
       ELSE /\ result' = "none"
            /\ rest' = Encode(r)
            /\ failed' = FALSE
            /\ pc' = IF size + RecordSize <= RotationSize THEN "append"
                     ELSE IF opened THEN "rotateFlush" ELSE "rotateOpen"
    /\ UNCHANGED <<disk, synced, up, opened, buffer, stuck, sequence, size, closed>>

(* buffer.Write, one round of bufio's loop.  The record fits: it is copied *)
(* into the buffer and accepted.                                           *)
AppendFits ==
    /\ pc = "append" /\ opened /\ ~stuck
    /\ Len(rest) <= BufferSize - Len(buffer)
    /\ buffer' = buffer \o rest
    /\ rest' = <<>>
    /\ size' = size + RecordSize
    /\ Return("ok")
    /\ UNCHANGED <<disk, synced, up, opened, stuck, sequence, closed, failed>>

(* What bufio sends to the file when the record does not fit: the record   *)
(* itself if the buffer is empty, else the buffer filled to its capacity.  *)
Chunk ==
    IF buffer = <<>> THEN rest ELSE buffer \o Take(rest, BufferSize - Len(buffer))

AppendSpills(n) ==
    /\ pc = "append" /\ opened /\ ~stuck
    /\ Len(rest) > BufferSize - Len(buffer)
    /\ n \in 0..Len(Chunk)
    /\ FileWrite(Chunk, n)
    /\ IF n = Len(Chunk)
       THEN /\ buffer' = <<>>
            /\ rest' = IF buffer = <<>> THEN <<>> ELSE Drop(rest, BufferSize - Len(buffer))
            /\ UNCHANGED <<stuck, pc, result>>
       ELSE /\ buffer' = IF buffer = <<>> THEN <<>> ELSE Drop(Chunk, n)
            /\ stuck' = TRUE
            /\ rest' = <<>>
            /\ Return("error")
    /\ UNCHANGED <<synced, up, opened, sequence, size, closed, failed>>

(* bufio refuses every write once a flush has failed.                      *)
AppendStuck ==
    /\ pc = "append" /\ opened /\ stuck
    /\ rest' = <<>>
    /\ Return("error")
    /\ UNCHANGED <<disk, synced, up, opened, buffer, stuck, sequence, size, closed, failed>>

(* dataFile.buffer is nil: the method call dereferences it.                *)
NilBuffer ==
    /\ pc \in {"append", "flush"} /\ ~opened
    /\ pc' = "panic"
    /\ UNCHANGED <<disk, synced, up, opened, buffer, stuck, sequence, size, closed, rest, failed, result>>

-----------------------------------------------------------------------------
(* Flush, and the steps of closeCurrentSegment.  Rotation and Close run    *)
(* the same three: all are attempted whatever the earlier ones returned.   *)

BeginFlush ==
    /\ up /\ pc = "idle"
    /\ IF closed THEN Return("error") ELSE pc' = "flush" /\ result' = "none"
    /\ UNCHANGED <<disk, synced, up, opened, buffer, stuck, sequence, size, closed, rest, failed>>

(* Mutant: a successful flush does not reset the buffer.                   *)
BufferFlush_KeepsBuffer(n) ==
    /\ n \in 0..(IF stuck THEN 0 ELSE Len(buffer))
    /\ FileWrite(buffer, n)
    /\ stuck' = (stuck \/ n < Len(buffer))
    /\ UNCHANGED buffer

(* bufio.Flush with n bytes reaching the file; it succeeds when the buffer *)
(* is empty afterwards and no earlier flush failed.                        *)
BufferFlush(n) ==
    /\ n \in 0..(IF stuck THEN 0 ELSE Len(buffer))
    /\ FileWrite(buffer, n)
    /\ buffer' = Drop(buffer, n)
    /\ stuck' = (stuck \/ n < Len(buffer))

Flush(n) ==
    /\ pc = "flush" /\ opened
    /\ BufferFlush(n)
    /\ Return(IF stuck' THEN "error" ELSE "ok")
    /\ UNCHANGED <<synced, up, opened, sequence, size, closed, rest, failed>>

BeginClose ==
    /\ up /\ pc = "idle"
    /\ closed' = TRUE
    /\ failed' = FALSE
    /\ IF closed \/ ~opened THEN Return("ok") ELSE pc' = "closeFlush" /\ result' = "none"
    /\ UNCHANGED <<disk, synced, up, opened, buffer, stuck, sequence, size, rest>>

(* Mutant: the buffer is not flushed before its file is closed.            *)
SegmentFlush_Skipped(n) ==
    /\ pc \in {"rotateFlush", "closeFlush"} /\ n = 0
    /\ failed' = stuck
    /\ pc' = IF pc = "rotateFlush" THEN "rotateSync" ELSE "closeSync"
    /\ UNCHANGED <<disk, synced, up, opened, buffer, stuck, sequence, size, closed, rest, result>>

SegmentFlush(n) ==
    /\ pc \in {"rotateFlush", "closeFlush"}
    /\ BufferFlush(n)
    /\ failed' = stuck'
    /\ pc' = IF pc = "rotateFlush" THEN "rotateSync" ELSE "closeSync"
    /\ UNCHANGED <<synced, up, opened, sequence, size, closed, rest, result>>

(* Mutant: the error of Sync is not joined to the others.                  *)
SegmentSync_IgnoresError(ok) ==
    /\ pc \in {"rotateSync", "closeSync"}
    /\ synced' = IF ok THEN [synced EXCEPT ![sequence] = Len(disk[sequence])] ELSE synced
    /\ pc' = IF pc = "rotateSync" THEN "rotateClose" ELSE "closeClose"
    /\ UNCHANGED <<disk, up, opened, buffer, stuck, sequence, size, closed, rest, failed, result>>

SegmentSync(ok) ==
    /\ pc \in {"rotateSync", "closeSync"}
    /\ synced' = IF ok THEN [synced EXCEPT ![sequence] = Len(disk[sequence])] ELSE synced
    /\ failed' = (failed \/ ~ok)
    /\ pc' = IF pc = "rotateSync" THEN "rotateClose" ELSE "closeClose"
    /\ UNCHANGED <<disk, up, opened, buffer, stuck, sequence, size, closed, rest, result>>

(* file.Close; file and buffer become nil even when an error is returned.  *)
SegmentClose(ok) ==
    /\ pc \in {"rotateClose", "closeClose"}
    /\ opened' = FALSE /\ buffer' = <<>> /\ stuck' = FALSE
    /\ failed' = FALSE
    /\ IF failed \/ ~ok
       THEN Return("error") /\ rest' = <<>>
       ELSE IF pc = "rotateClose"
            THEN pc' = "rotateOpen" /\ UNCHANGED <<rest, result>>
            ELSE Return("ok") /\ UNCHANGED rest
    /\ UNCHANGED <<disk, synced, up, sequence, size, closed>>

(* The rest of rotate: the counters move on before the new file is opened, *)
(* and stay moved when that fails.                                         *)
RotateOpen(ok) ==
    /\ pc = "rotateOpen"
    /\ sequence' = sequence + 1
    /\ size' = 0
    /\ opened' = ok
    /\ IF ok
       THEN /\ FileCreate(sequence + 1)
            /\ pc' = "append"
            /\ UNCHANGED <<rest, result>>
       ELSE /\ Return("error")
            /\ rest' = <<>>
            /\ UNCHANGED <<disk, synced>>
    /\ UNCHANGED <<up, buffer, stuck, closed, failed>>

-----------------------------------------------------------------------------
(* Process boundaries *)

Down ==
    /\ up' = FALSE /\ opened' = FALSE /\ buffer' = <<>> /\ stuck' = FALSE
    /\ sequence' = firstSegmentSequence /\ size' = 0 /\ closed' = FALSE
    /\ pc' = "idle" /\ rest' = <<>> /\ failed' = FALSE /\ result' = "none"

(* The machine stops: memory is gone and each segment keeps at least what  *)
(* fsync covered; keep[s] is the number of its bytes that survive.         *)
Crash(keep) ==
    /\ up \/ pc = "repair"
    /\ \A s \in DOMAIN disk : keep[s] \in synced[s]..Len(disk[s])
    /\ disk' = [s \in DOMAIN disk |-> Take(disk[s], keep[s])]
    /\ Down
    /\ UNCHANGED synced

(* OpenDataFile reads the directory.                                       *)
OpenDataFile ==
    /\ ~up /\ pc = "idle"
    /\ pc' = "repair" /\ sequence' = 0 /\ size' = 0
    /\ UNCHANGED <<disk, synced, up, opened, buffer, stuck, closed, rest, failed, result>>

(* The segment the loop of discoverAndRepairSegments is at: ReadDir sorts  *)
(* by name, and so by number.                                              *)
AtSegment(s) ==
    /\ pc = "repair" /\ s \in DOMAIN disk
    /\ sequence < s /\ \A t \in DOMAIN disk : sequence < t => s <= t

(* The incomplete record at the end of a segment is cut off.               *)
Truncate(s) == disk' = [disk EXCEPT ![s] = Take(@, RepairedSize(s))]

(* Mutant: activeSize is not set, and the active segment taken as empty.   *)
RepairSegment_NoSize(s) ==
    /\ AtSegment(s)
    /\ Truncate(s)
    /\ synced' = IF RepairedSize(s) < Len(disk[s]) THEN [synced EXCEPT ![s] = RepairedSize(s)] ELSE synced
    /\ sequence' = s
    /\ UNCHANGED <<size, up, opened, buffer, stuck, closed, pc, rest, failed, result>>

(* It is truncated and synced if its size is no multiple of a record's.    *)
RepairSegment(s) ==
    /\ AtSegment(s)
    /\ Truncate(s)
    /\ synced' = IF RepairedSize(s) < Len(disk[s]) THEN [synced EXCEPT ![s] = RepairedSize(s)] ELSE synced
    /\ sequence' = s /\ size' = RepairedSize(s)
    /\ UNCHANGED <<up, opened, buffer, stuck, closed, pc, rest, failed, result>>

(* One of its system calls fails, before or after the truncation, and      *)
(* OpenDataFile with it.                                                   *)
RepairFails(s) ==
    /\ AtSegment(s)
    /\ \/ UNCHANGED <<disk, synced>>
       \/ /\ Truncate(s)
          /\ synced' = [synced EXCEPT ![s] = IF @ > RepairedSize(s) THEN RepairedSize(s) ELSE @]
    /\ Down

(* All segments are repaired; the last one found becomes active.           *)
Repaired == pc = "repair" /\ \A s \in DOMAIN disk : s <= sequence
Active == IF sequence = 0 THEN firstSegmentSequence ELSE sequence

(* Mutant: startup continues the first segment instead of the last.        *)
OpenCurrentSegment_First ==
    /\ Repaired
    /\ FileCreate(firstSegmentSequence) /\ sequence' = firstSegmentSequence
    /\ size' = IF sequence = 0 THEN 0 ELSE Len(disk[firstSegmentSequence])
    /\ up' = TRUE /\ opened' = TRUE /\ pc' = "idle"
    /\ UNCHANGED <<buffer, stuck, closed, rest, failed, result>>

(* It is opened for appending.                                             *)
OpenCurrentSegment ==
    /\ Repaired
    /\ FileCreate(Active) /\ sequence' = Active
    /\ up' = TRUE /\ opened' = TRUE /\ pc' = "idle"
    /\ UNCHANGED <<size, buffer, stuck, closed, rest, failed, result>>

OpenCurrentFails ==
    /\ Repaired
    /\ Down
    /\ UNCHANGED <<disk, synced>>

-----------------------------------------------------------------------------
DFInit ==
    /\ disk = <<>> /\ synced = <<>>
    /\ up = FALSE /\ opened = FALSE /\ buffer = <<>> /\ stuck = FALSE
    /\ sequence = firstSegmentSequence /\ size = 0 /\ closed = FALSE
    /\ pc = "idle" /\ rest = <<>> /\ failed = FALSE /\ result = "none"

Flushable == IF stuck THEN 0 ELSE Len(buffer)

(* A step of the running operation whose system call, if any, succeeds.    *)
Proceed ==
    \/ AppendFits \/ AppendStuck \/ NilBuffer
    \/ AppendSpills(Len(Chunk)) \/ Flush(Flushable) \/ SegmentFlush(Flushable)
    \/ SegmentSync(TRUE) \/ SegmentClose(TRUE) \/ RotateOpen(TRUE)

(* A step of the running operation whose system call fails.                *)
Fail ==
    \/ \E n \in 0..(Len(Chunk) - 1) : AppendSpills(n)
    \/ \E n \in 0..(Flushable - 1) : Flush(n) \/ SegmentFlush(n)
    \/ SegmentSync(FALSE) \/ SegmentClose(FALSE) \/ RotateOpen(FALSE)

(* A step of OpenDataFile, and one that fails.                             *)
Startup == OpenDataFile \/ OpenCurrentSegment \/ \E s \in DOMAIN disk : RepairSegment(s)
StartupFails == OpenCurrentFails \/ \E s \in DOMAIN disk : RepairFails(s)

-----------------------------------------------------------------------------
(* Properties of the files *)

Segments == DOMAIN disk

(* rotate runs before the record that would not fit: no segment exceeds    *)
(* RotationSize, also when it is continued after a restart.                *)
DFTypeOK ==
    /\ \A s \in Segments : s \in Nat \ {0} /\ Len(disk[s]) \in 0..RotationSize
    /\ DOMAIN synced = Segments
    /\ \A s \in Segments : synced[s] \in 0..Len(disk[s])
    /\ up \in BOOLEAN /\ opened \in BOOLEAN /\ stuck \in BOOLEAN
    /\ closed \in BOOLEAN /\ failed \in BOOLEAN
    /\ sequence \in Nat /\ (sequence = 0 => pc = "repair") /\ size \in 0..RotationSize
    /\ Len(buffer) \in 0..BufferSize /\ Len(rest) \in 0..RecordSize
    /\ pc \in {"idle", "append", "flush", "rotateFlush", "rotateSync", "rotateClose",
               "rotateOpen", "closeFlush", "closeSync", "closeClose", "panic", "repair"}
    /\ result \in {"none", "ok", "error"}

(* Segment s is the encoding of whole records, cut at most at its end.     *)
WholeRecords(s) ==
    \A i \in 1..Len(disk[s]) :
        /\ disk[s][i][2] = ((i - 1) % RecordSize) + 1
        /\ disk[s][i][2] > 1 => disk[s][i][1] = disk[s][i - 1][1]

(* Where segment s has room for a whole record: the positions a reader of  *)
(* the fixed-size format looks at.                                         *)
Starts(s) == {i \in 1..Len(disk[s]) : i % RecordSize = 1 % RecordSize /\ i + RecordSize - 1 <= Len(disk[s])}

(* A reader going through the segments in name order meets whole records   *)
(* at multiples of the record size, in the order they were written and     *)
(* none of them twice, whatever short writes, failed rotations, crashes    *)
(* and repairs happened in between.                                        *)
ArrivalOrder ==
    /\ \A s \in Segments : WholeRecords(s)
    /\ \A s, t \in Segments : \A i \in Starts(s), j \in Starts(t) :
        (s < t \/ (s = t /\ i < j)) => disk[s][i][1] < disk[t][j][1]

(* While the file is in use no segment lies above the active one, so the   *)
(* next rotation creates its segment and never appends to an existing one; *)
(* and no segment outgrows RotationSize, also when failed rotations, short *)
(* writes and repairs came between the file and the counter beside it.     *)
NothingAboveActive ==
    /\ up => \A s \in Segments : s <= sequence
    /\ \A s \in Segments : Len(disk[s]) <= RotationSize

(* "Completed segments are immutable" (docs/design.md): once a segment has *)
(* a successor on disk, no step of this or of any later life of the        *)
(* process, neither a failed rotation nor a restart nor a repair cut short *)
(* by a crash, adds a byte to it; and it can only lose an incomplete       *)
(* record at its end, or what fsync had not covered when the machine       *)
(* stopped.                                                                *)
CompletedImmutable ==
    [][\A s \in Segments : (\E t \in Segments : s < t) =>
          /\ disk'[s] = Take(disk[s], Len(disk'[s]))
          /\ Len(disk'[s]) >= synced[s] - (synced[s] % RecordSize)]_dfVars
=============================================================================
