--------------------------- MODULE StreamStorage ---------------------------
(***************************************************************************)
(* A data stream writing to its data file, as NewFileDataStreamFactory     *)
(* (data-engine.go) puts them together: the RecordWriter of DataStream is  *)
(* a DataFile.  Each call run makes starts an operation of the file in the *)
(* same step; its system calls follow one by one, interleaved with the     *)
(* goroutines that call Write and Close; then run collects the result.     *)
(* There is no crash here (DataFileOwner has them); a nil dereference in   *)
(* the run goroutine, which nothing recovers, ends the process.            *)
(***************************************************************************)
EXTENDS DataStream, FiniteSets

CONSTANTS
    RecordSize, BufferSize, RotationSize,   \* as in DataFile
    MaxFaults                               \* bound: system calls that fail

ASSUME StorageAssumption ==
    /\ RecordSize \in Nat \ {0} /\ BufferSize \in Nat \ {0}
    /\ RotationSize \in Nat /\ RotationSize >= RecordSize
    /\ MaxFaults \in Nat

VARIABLES
    disk, synced, up, opened, buffer, stuck, sequence, size, fileClosed, pc, rest, failed, result,
    received,       \* history: number of records run has received; the r-th is record r on disk
    kept,           \* history: the records counted in written
    faults          \* number of system calls that failed

DF == INSTANCE DataFile WITH closed <- fileClosed

fileVars == <<disk, synced, up, opened, buffer, stuck, sequence, size, fileClosed, pc, rest, failed, result>>
vars == <<dsVars, fileVars, received, kept, faults>>

(* The factory has opened an empty directory.                              *)
Init ==
    /\ DSInit
    /\ disk = <<<<>>>> /\ synced = <<0>>
    /\ up = TRUE /\ opened = TRUE /\ buffer = <<>> /\ stuck = FALSE
    /\ sequence = 1 /\ size = 0 /\ fileClosed = FALSE
    /\ pc = "idle" /\ rest = <<>> /\ failed = FALSE /\ result = "none"
    /\ received = 0 /\ kept = {} /\ faults = 0

Clients ==
    /\ pc # "panic"
    /\ ClientNext
    /\ UNCHANGED <<fileVars, received, kept, faults>>

-----------------------------------------------------------------------------
(* run calls its writer *)

Receive ==
    /\ RunReceive
    /\ DF!BeginWrite(received + 1)
    /\ received' = received + 1
    /\ UNCHANGED <<kept, faults>>

Retry ==
    /\ RunBackoff
    /\ DF!BeginWrite(received)
    /\ UNCHANGED <<received, kept, faults>>

Tick ==
    /\ RunTick
    /\ DF!BeginFlush
    /\ UNCHANGED <<received, kept, faults>>

Drained ==
    /\ RunDrained
    /\ IF dirty THEN DF!BeginFlush ELSE DF!BeginClose
    /\ UNCHANGED <<received, kept, faults>>

-----------------------------------------------------------------------------
(* the file works *)

FileStep ==
    /\ pc # "idle"
    /\ \/ DF!Proceed /\ UNCHANGED faults
       \/ DF!Fail /\ faults < MaxFaults /\ faults' = faults + 1
    /\ UNCHANGED <<dsVars, received, kept>>

-----------------------------------------------------------------------------
(* run collects the result *)

Returned == pc = "idle" /\ result # "none"

Wrote ==
    /\ Returned /\ result = "ok"
    /\ RunWrote
    /\ kept' = kept \cup {received}
    /\ UNCHANGED <<fileVars, received, faults>>

WriteFailed ==
    /\ Returned /\ result = "error"
    /\ \E verdict \in Verdicts : RunWriteFailed(verdict)
    /\ UNCHANGED <<fileVars, received, kept, faults>>

Flushed ==
    /\ Returned
    /\ RunFlushed(result = "ok")
    /\ UNCHANGED <<fileVars, received, kept, faults>>

FinalFlush ==
    /\ Returned
    /\ RunFinalFlush(result = "ok")
    /\ DF!BeginClose
    /\ UNCHANGED <<received, kept, faults>>

Closed ==
    /\ Returned
    /\ RunClosed(result = "ok")
    /\ UNCHANGED <<fileVars, received, kept, faults>>

Next ==
    \/ Clients
    \/ Receive \/ Retry \/ Tick \/ Drained
    \/ FileStep
    \/ Wrote \/ WriteFailed \/ Flushed \/ FinalFlush \/ Closed

Spec == Init /\ [][Next]_vars

-----------------------------------------------------------------------------
(* Properties *)

(* The records whose bytes are all among the first n[s] bytes of some s.   *)
Recorded(n) ==
    {r \in 1..received : \E s \in DOMAIN disk : \E i \in DF!Starts(s) :
        i + RecordSize - 1 <= n[s] /\ disk[s][i][1] = r}

(* If the stream has counted neither an error nor a retry and Close        *)
(* returns no error, then every record it counted as written is in a       *)
(* segment and covered by fsync.  (A retry alone is not innocent: the      *)
(* error it answers may be the failed close of a full segment, whose       *)
(* buffered records are gone although the retry succeeds.)                 *)
NoErrorMeansDurable ==
    run = "exited" /\ errors = 0 /\ retries = 0 /\ ~closeErr => kept \subseteq Recorded(synced)

(* "Expected ... file errors are returned or logged; they must not panic   *)
(* the process" (docs/design.md): no failed call leaves the file in a      *)
(* state whose next use dereferences nil.                                  *)
FileErrorsNeverPanic == pc # "panic"
=============================================================================
