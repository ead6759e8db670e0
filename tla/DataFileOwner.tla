--------------------------- MODULE DataFileOwner ---------------------------
(***************************************************************************)
(* A data file in the hands of a single owner that calls WriteRecord,      *)
(* Flush and Close in any order, on a machine whose system calls may fail  *)
(* and that may stop and start again.  The calls are those of the          *)
(* RecordWriter interface (data-stream.go); StreamStorage replaces this    *)
(* arbitrary owner by the data stream itself.                              *)
(***************************************************************************)
EXTENDS DataFile

CONSTANTS
    MaxRecords,     \* bound: records written over all lives of the process
    MaxFaults,      \* bound: system calls that fail
    MaxCrashes      \* bound: machine stops

ASSUME OwnerAssumption ==
    MaxRecords \in Nat /\ MaxFaults \in Nat /\ MaxCrashes \in Nat

VARIABLES
    next,           \* number of the next record
    writing,        \* record of the running WriteRecord, 0 if none
    acked,          \* records of this life whose WriteRecord returned nil
    erred,          \* some call of this life returned an error
    promised,       \* records of lives that ended in Close without any error
    faults, crashes

history == <<next, writing, acked, erred, promised>>
vars == <<dfVars, history, faults, crashes>>

Init ==
    /\ DFInit
    /\ next = 1 /\ writing = 0 /\ acked = {} /\ erred = FALSE /\ promised = {}
    /\ faults = 0 /\ crashes = 0

(* The owner learns the outcome of a call when it returns.                 *)
Learn ==
    /\ erred' = (erred \/ result' = "error")
    /\ acked' = IF writing # 0 /\ result' = "ok" THEN acked \cup {writing} ELSE acked
    /\ promised' = IF closed /\ writing = 0 /\ result' = "ok" /\ ~erred
                   THEN promised \cup acked ELSE promised
    /\ writing' = IF result' = "none" THEN writing ELSE 0

CallWrite ==
    /\ next <= MaxRecords
    /\ BeginWrite(next)
    /\ next' = next + 1
    /\ writing' = IF result' = "none" THEN next ELSE 0
    /\ erred' = (erred \/ result' = "error")
    /\ UNCHANGED <<acked, promised, faults, crashes>>

CallFlush ==
    /\ ~(closed /\ result = "error")
    /\ BeginFlush
    /\ erred' = (erred \/ result' = "error")
    /\ UNCHANGED <<next, writing, acked, promised, faults, crashes>>

CallClose ==
    /\ ~closed
    /\ BeginClose
    /\ UNCHANGED <<next, writing, acked, erred, promised, faults, crashes>>

Run ==
    /\ result = "none" /\ pc # "idle"
    /\ \/ Proceed /\ UNCHANGED faults
       \/ Fail /\ faults < MaxFaults /\ faults' = faults + 1
    /\ Learn
    /\ UNCHANGED <<next, crashes>>

Stop ==
    /\ crashes < MaxCrashes /\ crashes' = crashes + 1
    /\ \E keep \in [Segments -> 0..RotationSize] : Crash(keep)
    /\ writing' = 0 /\ acked' = {} /\ erred' = FALSE
    /\ UNCHANGED <<next, promised, faults>>

Start ==
    /\ \/ Startup /\ UNCHANGED faults
       \/ StartupFails /\ faults < MaxFaults /\ faults' = faults + 1
    /\ UNCHANGED <<history, crashes>>

Next == CallWrite \/ CallFlush \/ CallClose \/ Run \/ Stop \/ Start

Spec == Init /\ [][Next]_vars

-----------------------------------------------------------------------------
TypeOK ==
    /\ DFTypeOK
    /\ next \in 1..MaxRecords + 1 /\ writing \in 0..MaxRecords
    /\ acked \subseteq 1..MaxRecords /\ promised \subseteq 1..MaxRecords
    /\ erred \in BOOLEAN /\ faults \in 0..MaxFaults /\ crashes \in 0..MaxCrashes

(* The records of which all bytes stand in the first n[s] bytes of some s. *)
Recorded(n) ==
    {r \in 1..MaxRecords : \E s \in Segments : \E i \in Starts(s) :
        i + RecordSize - 1 <= n[s] /\ disk[s][i][1] = r}

(* Record r is on disk or in the buffer of the open segment.               *)
Held(r) ==
    \/ r \in Recorded([s \in Segments |-> Len(disk[s])])
    \/ opened /\ LET open == disk[sequence] \o buffer IN
         \E i \in 1..Len(open) : i + RecordSize - 1 <= Len(open)
                                 /\ SubSeq(open, i, i + RecordSize - 1) = Encode(r)

(* Until a call returns an error, every acknowledged record is held:       *)
(* rotation drops none.  Once an owner got no error from any call up to    *)
(* and including Close, which flushes and fsyncs what rotation has not     *)
(* already, the records it wrote are durable, and no later crash, restart, *)
(* repair or append may take one of them away.                             *)
CleanCloseIsDurable ==
    /\ up /\ ~erred /\ ~failed /\ ~stuck => \A r \in acked : Held(r)
    /\ promised \subseteq Recorded(synced)
=============================================================================
