----------------------------- MODULE DataEngine -----------------------------
(***************************************************************************)
(* The data engine (data-engine.go): a map from (floor, room, sensor type) *)
(* to data streams, filled on first use by a factory that may fail, and    *)
(* closed once.  A stream is only what Ingest says of it: it holds the     *)
(* records it accepted, refuses all once shut, and finishes when shut and  *)
(* empty.                                                                  *)
(*                                                                         *)
(* closed is an atomic flag read with and without the mutex mu; the steps  *)
(* are the points between which another goroutine can act on either.       *)
(***************************************************************************)
EXTENDS Integers

CONSTANTS
    Writers,        \* goroutines that call WriteSensorData
    Closers,        \* goroutines that call Close
    Keys,           \* (floor, room, sensor type) triples
    None,           \* no goroutine, no key
    QueueRoom,      \* records a stream can hold
    MaxWrites       \* bound: calls of WriteSensorData per writer

ASSUME EngineAssumption ==
    /\ None \notin Writers \cup Closers \cup Keys
    /\ Writers \cap Closers = {}
    /\ QueueRoom \in Nat \ {0} /\ MaxWrites \in Nat

VARIABLES
    closed,         \* engine.closed
    mu,             \* goroutine holding engine.mu, or None
    streams,        \* key -> "absent", "open", "shut" or "finished"
    backlog,        \* key -> records its stream has accepted and not handled
    created,        \* key -> history: streams the factory made for it
    wpc,            \* writer -> "idle", "lock", "lookup", "factory", "insert" or "submit"
    wkey,           \* writer -> key of its call
    wcalls,         \* writer -> calls made
    cpc,            \* closer -> "idle", "snapshot", "closing" or "returned"
    todo            \* closer -> streams of its snapshot it has not closed

deVars == <<closed, mu, streams, backlog, created, wpc, wkey, wcalls, cpc, todo>>

DEInit ==
    /\ closed = FALSE /\ mu = None
    /\ streams = [k \in Keys |-> "absent"] /\ backlog = [k \in Keys |-> 0]
    /\ created = [k \in Keys |-> 0]
    /\ wpc = [w \in Writers |-> "idle"] /\ wkey = [w \in Writers |-> None]
    /\ wcalls = [w \in Writers |-> 0]
    /\ cpc = [c \in Closers |-> "idle"] /\ todo = [c \in Closers |-> {}]

-----------------------------------------------------------------------------
(* WriteSensorData *)

WriteSensorData(w, k) ==
    /\ wpc[w] = "idle" /\ wcalls[w] < MaxWrites
    /\ wcalls' = [wcalls EXCEPT ![w] = @ + 1]
    /\ IF closed THEN UNCHANGED <<wpc, wkey>>
       ELSE wpc' = [wpc EXCEPT ![w] = "lock"] /\ wkey' = [wkey EXCEPT ![w] = k]
    /\ UNCHANGED <<closed, mu, streams, backlog, created, cpc, todo>>

(* Mutant: closed is not read again under the mutex.                       *)
Lock_NoRecheck(w) ==
    /\ wpc[w] = "lock" /\ mu = None
    /\ wpc' = [wpc EXCEPT ![w] = "lookup"] /\ mu' = w
    /\ UNCHANGED <<closed, streams, backlog, created, wkey, wcalls, cpc, todo>>

(* stream(): mu is taken and closed read again.                            *)
Lock(w) ==
    /\ wpc[w] = "lock" /\ mu = None
    /\ IF closed
       THEN wpc' = [wpc EXCEPT ![w] = "idle"] /\ UNCHANGED mu
       ELSE wpc' = [wpc EXCEPT ![w] = "lookup"] /\ mu' = w
    /\ UNCHANGED <<closed, streams, backlog, created, wkey, wcalls, cpc, todo>>

(* Mutant: mu is released while the factory runs.                          *)
Lookup_Unlocks(w) ==
    /\ wpc[w] = "lookup"
    /\ wpc' = [wpc EXCEPT ![w] = IF streams[wkey[w]] = "absent" THEN "factory" ELSE "submit"]
    /\ mu' = None
    /\ UNCHANGED <<closed, streams, backlog, created, wkey, wcalls, cpc, todo>>

(* The map is consulted: the stream is there and mu is released, or the    *)
(* factory is to make it, with mu held.                                    *)
Lookup(w) ==
    /\ wpc[w] = "lookup"
    /\ IF streams[wkey[w]] = "absent"
       THEN wpc' = [wpc EXCEPT ![w] = "factory"] /\ UNCHANGED mu
       ELSE wpc' = [wpc EXCEPT ![w] = "submit"] /\ mu' = None
    /\ UNCHANGED <<closed, streams, backlog, created, wkey, wcalls, cpc, todo>>

(* Mutant: the mutex is not released when the factory fails.               *)
Factory_LeaksLock(w, made) ==
    /\ wpc[w] = "factory"
    /\ IF made
       THEN /\ created' = [created EXCEPT ![wkey[w]] = @ + 1]
            /\ wpc' = [wpc EXCEPT ![w] = "insert"]
       ELSE wpc' = [wpc EXCEPT ![w] = "idle"] /\ UNCHANGED created
    /\ UNCHANGED <<closed, mu, streams, backlog, wkey, wcalls, cpc, todo>>

(* The factory opens the directory of the key and starts a stream on it,   *)
(* or fails, and the call returns its error.                               *)
Factory(w, made) ==
    /\ wpc[w] = "factory"
    /\ IF made
       THEN /\ created' = [created EXCEPT ![wkey[w]] = @ + 1]
            /\ wpc' = [wpc EXCEPT ![w] = "insert"] /\ UNCHANGED mu
       ELSE /\ wpc' = [wpc EXCEPT ![w] = "idle"] /\ mu' = None
            /\ UNCHANGED created
    /\ UNCHANGED <<closed, streams, backlog, wkey, wcalls, cpc, todo>>

(* The new stream goes into the map and mu is released.                    *)
Insert(w) ==
    /\ wpc[w] = "insert"
    /\ streams' = [streams EXCEPT ![wkey[w]] = "open"]
    /\ wpc' = [wpc EXCEPT ![w] = "submit"] /\ mu' = None
    /\ UNCHANGED <<closed, backlog, created, wkey, wcalls, cpc, todo>>

(* stream.Write: accepted, or refused because the stream is full, shut or  *)
(* the caller's context is done.                                           *)
Submit(w, accept) ==
    /\ wpc[w] = "submit"
    /\ accept => streams[wkey[w]] = "open" /\ backlog[wkey[w]] < QueueRoom
    /\ backlog' = IF accept THEN [backlog EXCEPT ![wkey[w]] = @ + 1] ELSE backlog
    /\ wpc' = [wpc EXCEPT ![w] = "idle"]
    /\ UNCHANGED <<closed, mu, streams, created, wkey, wcalls, cpc, todo>>

-----------------------------------------------------------------------------
(* Close *)

(* CompareAndSwap; whoever loses returns nil at once.                      *)
CloseBegin(c) ==
    /\ cpc[c] = "idle"
    /\ closed' = TRUE
    /\ cpc' = [cpc EXCEPT ![c] = IF closed THEN "returned" ELSE "snapshot"]
    /\ UNCHANGED <<mu, streams, backlog, created, wpc, wkey, wcalls, todo>>

(* The streams are listed under mu.                                        *)
CloseSnapshot(c) ==
    /\ cpc[c] = "snapshot" /\ mu = None
    /\ cpc' = [cpc EXCEPT ![c] = "closing"]
    /\ todo' = [todo EXCEPT ![c] = {k \in Keys : streams[k] # "absent"}]
    /\ UNCHANGED <<closed, mu, streams, backlog, created, wpc, wkey, wcalls>>

(* stream.Close shuts one stream; the loop goes on when it has finished.   *)
ShutStream(c) ==
    /\ cpc[c] = "closing"
    /\ \A k \in todo[c] : streams[k] # "shut"
    /\ \E k \in todo[c] :
        /\ streams[k] = "open"
        /\ streams' = [streams EXCEPT ![k] = "shut"]
    /\ UNCHANGED <<closed, mu, backlog, created, wpc, wkey, wcalls, cpc, todo>>

CloseWaited(c) ==
    /\ cpc[c] = "closing"
    /\ \E k \in todo[c] :
        /\ streams[k] = "finished"
        /\ todo' = [todo EXCEPT ![c] = @ \ {k}]
    /\ UNCHANGED <<closed, mu, streams, backlog, created, wpc, wkey, wcalls, cpc>>

CloseEnds(c) ==
    /\ cpc[c] = "closing" /\ todo[c] = {}
    /\ cpc' = [cpc EXCEPT ![c] = "returned"]
    /\ UNCHANGED <<closed, mu, streams, backlog, created, wpc, wkey, wcalls, todo>>

-----------------------------------------------------------------------------
(* The streams, as Ingest describes them: a record leaves, written or      *)
(* dropped; a shut and empty stream finishes.                              *)

StreamHandles(k) ==
    /\ backlog[k] > 0
    /\ backlog' = [backlog EXCEPT ![k] = @ - 1]
    /\ UNCHANGED <<closed, mu, streams, created, wpc, wkey, wcalls, cpc, todo>>

StreamFinishes(k) ==
    /\ streams[k] = "shut" /\ backlog[k] = 0
    /\ streams' = [streams EXCEPT ![k] = "finished"]
    /\ UNCHANGED <<closed, mu, backlog, created, wpc, wkey, wcalls, cpc, todo>>

-----------------------------------------------------------------------------
WriterNext(w) ==
    \/ \E k \in Keys : WriteSensorData(w, k)
    \/ Lock(w) \/ Lookup(w) \/ Insert(w)
    \/ \E ok \in BOOLEAN : Factory(w, ok) \/ Submit(w, ok)

CloserNext(c) ==
    CloseBegin(c) \/ CloseSnapshot(c) \/ ShutStream(c) \/ CloseWaited(c) \/ CloseEnds(c)

DENext ==
    \/ \E w \in Writers : WriterNext(w)
    \/ \E c \in Closers : CloserNext(c)
    \/ \E k \in Keys : StreamHandles(k) \/ StreamFinishes(k)

DESpec == DEInit /\ [][DENext]_deVars

(* A call that has begun goes on: a free mutex is granted, factory and     *)
(* stream calls return, streams drain (Ingest).  Locks are fair: a         *)
(* goroutine waiting for mu is not overtaken for ever.                     *)
DEFairness ==
    /\ \A w \in Writers : /\ SF_deVars(Lock(w)) /\ WF_deVars(Lookup(w)) /\ WF_deVars(Insert(w))
                          /\ WF_deVars(\E ok \in BOOLEAN : Factory(w, ok))
                          /\ WF_deVars(\E ok \in BOOLEAN : Submit(w, ok))
    /\ \A c \in Closers : /\ SF_deVars(CloseSnapshot(c))
                          /\ WF_deVars(ShutStream(c)) /\ WF_deVars(CloseWaited(c)) /\ WF_deVars(CloseEnds(c))
    /\ \A k \in Keys : WF_deVars(StreamHandles(k)) /\ WF_deVars(StreamFinishes(k))

DEFairSpec == DESpec /\ DEFairness

-----------------------------------------------------------------------------
(* Properties *)

DETypeOK ==
    /\ closed \in BOOLEAN /\ mu \in Writers \cup {None}
    /\ streams \in [Keys -> {"absent", "open", "shut", "finished"}]
    /\ backlog \in [Keys -> 0..QueueRoom] /\ created \in [Keys -> Nat]
    /\ wpc \in [Writers -> {"idle", "lock", "lookup", "factory", "insert", "submit"}]
    /\ wkey \in [Writers -> Keys \cup {None}] /\ wcalls \in [Writers -> 0..MaxWrites]
    /\ cpc \in [Closers -> {"idle", "snapshot", "closing", "returned"}]
    /\ todo \in [Closers -> SUBSET Keys]

(* "Concurrent first writes for the same key must resolve to the same      *)
(* stream" (docs/design.md): the factory, which opens the directory of the *)
(* key, is not run again for a key whose stream is in the map or on its    *)
(* way into it, although it runs for long and may fail, and two streams    *)
(* would write the same segments.  No stream made is lost on that way.     *)
OneStreamPerKey ==
    \A k \in Keys :
        /\ created[k] <= 1
        /\ streams[k] = "absent" =>
            (created[k] = 1 <=> \E w \in Writers : wpc[w] = "insert" /\ wkey[w] = k)

(* When the Close that won the race has returned, every stream ever made   *)
(* has been closed and drained, even one whose creation overlapped Close.  *)
(* The winner is the closer that took a snapshot; the losers return early. *)
NoStreamOutlivesClose ==
    (closed /\ \A c \in Closers : cpc[c] \notin {"snapshot", "closing"}) =>
        \A k \in Keys : streams[k] \in {"absent", "finished"} /\ backlog[k] = 0

(* Close drains every stream and returns.                                  *)
EngineCloseCompletes == \A c \in Closers : cpc[c] = "snapshot" ~> cpc[c] = "returned"
=============================================================================
