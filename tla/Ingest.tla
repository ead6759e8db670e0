------------------------------- MODULE Ingest -------------------------------
(***************************************************************************)
(* What a data stream promises its callers, without queue, locks, retries  *)
(* or goroutines: a bounded first-in first-out buffer in front of a log.   *)
(* A submitted record is refused and counted as lost, or accepted; an      *)
(* accepted record is stored in the log, in order of acceptance, or        *)
(* discarded and counted as lost.  Once shut, nothing more is accepted     *)
(* and the stream finishes when it holds no record any more.               *)
(***************************************************************************)
EXTENDS Integers, Sequences

CONSTANTS
    Record,         \* the records that can be submitted
    Room            \* how many accepted records may wait at once

VARIABLES pending, log, lost, open, finished

vars == <<pending, log, lost, open, finished>>

Init ==
    /\ pending = <<>> /\ log = <<>> /\ lost = 0
    /\ open = TRUE /\ finished = FALSE

Accept ==
    /\ open
    /\ Len(pending) < Room
    /\ \E r \in Record : pending' = Append(pending, r)
    /\ UNCHANGED <<log, lost, open, finished>>

Refuse ==
    /\ lost' = lost + 1
    /\ UNCHANGED <<pending, log, open, finished>>

Store ==
    /\ pending # <<>>
    /\ log' = Append(log, Head(pending))
    /\ pending' = Tail(pending)
    /\ UNCHANGED <<lost, open, finished>>

Discard ==
    /\ pending # <<>>
    /\ lost' = lost + 1
    /\ pending' = Tail(pending)
    /\ UNCHANGED <<log, open, finished>>

Shut ==
    /\ open
    /\ open' = FALSE
    /\ UNCHANGED <<pending, log, lost, finished>>

Finish ==
    /\ ~open /\ pending = <<>> /\ ~finished
    /\ finished' = TRUE
    /\ UNCHANGED <<pending, log, lost, open>>

Next == Accept \/ Refuse \/ Store \/ Discard \/ Shut \/ Finish

SafeSpec == Init /\ [][Next]_vars

(* Accepted records do not wait for ever, and a shut stream finishes.      *)
Spec == SafeSpec /\ WF_vars(Store \/ Discard) /\ WF_vars(Finish)
=============================================================================
