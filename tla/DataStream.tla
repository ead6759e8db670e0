----------------------------- MODULE DataStream -----------------------------
(***************************************************************************)
(* One data stream (data-stream.go): a bounded queue between any number of *)
(* goroutines calling Write and Close and the stream's own goroutine run,  *)
(* which hands the records to a RecordWriter with retries and flushes it   *)
(* on a ticker.                                                            *)
(*                                                                         *)
(* The steps are the points where goroutines can interleave: taking the    *)
(* RWMutex submitMu, the select of Write, the counter updated after it,    *)
(* the locked section of Close, and each call run makes to its writer.     *)
(* The writer is only its interface here: every call may fail.             *)
(***************************************************************************)
EXTENDS Integers, Sequences

CONSTANTS
    Producers,          \* goroutines that call Write
    Closers,            \* goroutines that call Close
    QueueCapacity,      \* options.QueueCapacity
    RetryCount,         \* options.RetryCount
    InitialBackoff,     \* options.InitialBackoff
    MaximumBackoff,     \* options.MaximumBackoff
    Verdicts,           \* what options.Retryable may answer; {FALSE} when it is nil
    MaxWrites,          \* bound: calls of Write per producer
    MaxErrors           \* bound: the ticker stops ticking at this many errors

ASSUME StreamAssumption ==
    /\ QueueCapacity \in Nat \ {0}
    /\ RetryCount \in Nat
    /\ InitialBackoff \in Nat \ {0} /\ MaximumBackoff \in Nat
    /\ MaximumBackoff >= InitialBackoff
    /\ Verdicts \subseteq BOOLEAN
    /\ MaxWrites \in Nat /\ MaxErrors \in Nat

VARIABLES
    queue,          \* stream.queue
    closed,         \* stream.closed; close(queue) happens in the same locked section
    readers,        \* producers holding submitMu.RLock
    lockWaiting,    \* Close is blocked in submitMu.Lock, which also blocks RLock
    once,           \* stream.closeOnce: "new", "running" or "done"
    wpc,            \* producer -> "idle", "select" or "sent"
    calls,          \* producer -> calls of Write made
    cpc,            \* closer -> "idle", "waiting" or "returned"
    run,            \* where the run goroutine is
    hand,           \* the record run has received and not finished with, as <<>> or <<d>>
    attempt, backoff, dirty,                        \* locals of run and writeWithRetry
    accepted, written, dropped, retries, errors,    \* the counters
    closeErr,       \* stream.closeErr is not nil
    log,            \* history: records the writer accepted, in order
    decided         \* history: calls of Write whose record was sent or refused

submit == <<readers, lockWaiting, once>>
clients == <<wpc, calls, cpc>>
runner == <<run, hand, attempt, backoff, dirty>>
counters == <<accepted, written, dropped, retries, errors>>
dsVars == <<queue, closed, submit, clients, runner, counters, closeErr, log, decided>>

(* The n-th record of producer p.                                          *)
Record == Producers \X (1..MaxWrites)

DSInit ==
    /\ queue = <<>> /\ closed = FALSE
    /\ readers = {} /\ lockWaiting = FALSE /\ once = "new"
    /\ wpc = [p \in Producers |-> "idle"] /\ calls = [p \in Producers |-> 0]
    /\ cpc = [c \in Closers |-> "idle"]
    /\ run = "select" /\ hand = <<>> /\ attempt = 0 /\ backoff = InitialBackoff /\ dirty = FALSE
    /\ accepted = 0 /\ written = 0 /\ dropped = 0 /\ retries = 0 /\ errors = 0
    /\ closeErr = FALSE /\ log = <<>> /\ decided = 0

-----------------------------------------------------------------------------
(* Write *)

(* RLock, which a waiting Lock holds back, and the closed check.           *)
WriteBegin(p) ==
    /\ wpc[p] = "idle" /\ calls[p] < MaxWrites
    /\ ~lockWaiting
    /\ calls' = [calls EXCEPT ![p] = @ + 1]
    /\ IF closed
       THEN /\ dropped' = dropped + 1
            /\ decided' = decided + 1
            /\ UNCHANGED <<wpc, readers>>
       ELSE /\ wpc' = [wpc EXCEPT ![p] = "select"]
            /\ readers' = readers \cup {p}
            /\ UNCHANGED <<dropped, decided>>
    /\ UNCHANGED <<queue, closed, lockWaiting, once, cpc, runner, accepted, written, retries, errors, closeErr, log>>

WriteSend(p) ==
    /\ wpc[p] = "select"
    /\ Len(queue) < QueueCapacity
    /\ queue' = Append(queue, <<p, calls[p]>>)
    /\ decided' = decided + 1
    /\ wpc' = [wpc EXCEPT ![p] = "sent"]
    /\ UNCHANGED <<closed, submit, calls, cpc, runner, counters, closeErr, log>>

(* Mutant: Write takes the read lock a second time to count, and is held   *)
(* back by the Close that waits for it.                                    *)
WriteAccepted_Relocks(p) ==
    /\ wpc[p] = "sent" /\ ~lockWaiting
    /\ accepted' = accepted + 1
    /\ wpc' = [wpc EXCEPT ![p] = "idle"]
    /\ readers' = readers \ {p}
    /\ UNCHANGED <<queue, closed, lockWaiting, once, calls, cpc, runner, written, dropped, retries, errors, closeErr, log, decided>>

(* accepted is incremented after the send: run may be ahead of it.         *)
WriteAccepted(p) ==
    /\ wpc[p] = "sent"
    /\ accepted' = accepted + 1
    /\ wpc' = [wpc EXCEPT ![p] = "idle"]
    /\ readers' = readers \ {p}
    /\ UNCHANGED <<queue, closed, lockWaiting, once, calls, cpc, runner, written, dropped, retries, errors, closeErr, log, decided>>

(* Mutant: a record refused by a full queue is not counted.                *)
WriteGivesUp_Uncounted(p) ==
    /\ wpc[p] = "select"
    /\ decided' = decided + 1
    /\ wpc' = [wpc EXCEPT ![p] = "idle"]
    /\ readers' = readers \ {p}
    /\ UNCHANGED <<queue, closed, lockWaiting, once, calls, cpc, runner, counters, closeErr, log>>

(* The context is done or the enqueue timer fires; either may win the      *)
(* select although the queue has room.                                     *)
WriteGivesUp(p) ==
    /\ wpc[p] = "select"
    /\ dropped' = dropped + 1
    /\ decided' = decided + 1
    /\ wpc' = [wpc EXCEPT ![p] = "idle"]
    /\ readers' = readers \ {p}
    /\ UNCHANGED <<queue, closed, lockWaiting, once, calls, cpc, runner, accepted, written, retries, errors, closeErr, log>>

-----------------------------------------------------------------------------
(* Close *)

(* The first caller runs the body of closeOnce, the others wait for it.    *)
CloseBegin(c) ==
    /\ cpc[c] = "idle"
    /\ cpc' = [cpc EXCEPT ![c] = "waiting"]
    /\ IF once = "new"
       THEN once' = "running" /\ lockWaiting' = TRUE
       ELSE UNCHANGED <<once, lockWaiting>>
    /\ UNCHANGED <<queue, closed, readers, wpc, calls, runner, counters, closeErr, log, decided>>

(* Mutant: the queue is closed without waiting for the readers.            *)
CloseQueue_Unlocked ==
    /\ once = "running"
    /\ closed' = TRUE
    /\ once' = "done" /\ lockWaiting' = FALSE
    /\ UNCHANGED <<queue, readers, clients, runner, counters, closeErr, log, decided>>

(* submitMu.Lock is granted: closed is set, the queue closed, the lock     *)
(* released.                                                               *)
CloseQueue ==
    /\ once = "running"
    /\ readers = {}
    /\ closed' = TRUE
    /\ once' = "done" /\ lockWaiting' = FALSE
    /\ UNCHANGED <<queue, readers, clients, runner, counters, closeErr, log, decided>>

(* Mutant: Close does not wait for run.                                    *)
CloseReturns_Early(c) ==
    /\ cpc[c] = "waiting" /\ once = "done"
    /\ cpc' = [cpc EXCEPT ![c] = "returned"]
    /\ UNCHANGED <<queue, closed, submit, wpc, calls, runner, counters, closeErr, log, decided>>

(* <-done, then closeErr is returned.                                      *)
CloseReturns(c) ==
    /\ cpc[c] = "waiting" /\ once = "done" /\ run = "exited"
    /\ cpc' = [cpc EXCEPT ![c] = "returned"]
    /\ UNCHANGED <<queue, closed, submit, wpc, calls, runner, counters, closeErr, log, decided>>

-----------------------------------------------------------------------------
(* run *)

(* Mutant: run stops receiving when the stream is closed.                  *)
RunReceive_WhileOpen ==
    /\ run = "select" /\ queue # <<>> /\ ~closed
    /\ hand' = <<Head(queue)>>
    /\ queue' = Tail(queue)
    /\ run' = "write" /\ attempt' = 0 /\ backoff' = InitialBackoff
    /\ UNCHANGED <<closed, submit, clients, dirty, counters, closeErr, log, decided>>

RunReceive ==
    /\ run = "select" /\ queue # <<>>
    /\ hand' = <<Head(queue)>>
    /\ queue' = Tail(queue)
    /\ run' = "write" /\ attempt' = 0 /\ backoff' = InitialBackoff
    /\ UNCHANGED <<closed, submit, clients, dirty, counters, closeErr, log, decided>>

(* WriteRecord returned: success, an error worth a retry, or a final one.  *)
RunWrote ==
    /\ run = "write"
    /\ written' = written + 1 /\ dirty' = TRUE
    /\ log' = log \o hand
    /\ hand' = <<>> /\ run' = "select"
    /\ UNCHANGED <<queue, closed, submit, clients, attempt, backoff, accepted, dropped, retries, errors, closeErr, decided>>

(* Mutant: a record worth a retry is put back at the end of the queue.     *)
RunWriteFailed_Requeues(retryable) ==
    /\ run = "write" /\ errors < MaxErrors
    /\ errors' = errors + 1
    /\ hand' = <<>> /\ run' = "select"
    /\ IF retryable THEN queue' = queue \o hand /\ UNCHANGED dropped
       ELSE dropped' = dropped + 1 /\ UNCHANGED queue
    /\ UNCHANGED <<closed, submit, clients, attempt, backoff, dirty, accepted, written, retries, closeErr, log, decided>>

RunWriteFailed(retryable) ==
    /\ run = "write"
    /\ IF attempt >= RetryCount \/ ~retryable
       THEN /\ errors' = errors + 1 /\ dropped' = dropped + 1
            /\ hand' = <<>> /\ run' = "select"
            /\ UNCHANGED retries
       ELSE /\ retries' = retries + 1
            /\ run' = "backoff"
            /\ UNCHANGED <<errors, dropped, hand>>
    /\ UNCHANGED <<queue, closed, submit, clients, attempt, backoff, dirty, accepted, written, closeErr, log, decided>>

(* Mutant: the backoff is doubled without its cap.                         *)
RunBackoff_Uncapped ==
    /\ run = "backoff"
    /\ run' = "write"
    /\ attempt' = attempt + 1
    /\ backoff' = backoff * 2
    /\ UNCHANGED <<queue, closed, submit, clients, hand, dirty, counters, closeErr, log, decided>>

RunBackoff ==
    /\ run = "backoff"
    /\ run' = "write"
    /\ attempt' = attempt + 1
    /\ backoff' = IF backoff * 2 > MaximumBackoff THEN MaximumBackoff ELSE backoff * 2
    /\ UNCHANGED <<queue, closed, submit, clients, hand, dirty, counters, closeErr, log, decided>>

(* A tick while nothing is dirty changes nothing and is not modelled.      *)
RunTick ==
    /\ run = "select" /\ dirty /\ errors < MaxErrors
    /\ run' = "flush"
    /\ UNCHANGED <<queue, closed, submit, clients, hand, attempt, backoff, dirty, counters, closeErr, log, decided>>

RunFlushed(ok) ==
    /\ run = "flush"
    /\ run' = "select"
    /\ IF ok THEN dirty' = FALSE /\ UNCHANGED errors
       ELSE errors' = errors + 1 /\ UNCHANGED dirty
    /\ UNCHANGED <<queue, closed, submit, clients, hand, attempt, backoff, accepted, written, dropped, retries, closeErr, log, decided>>

(* The closed queue is empty: flushIfDirty, then writer.Close.             *)
RunDrained ==
    /\ run = "select" /\ closed /\ queue = <<>>
    /\ run' = IF dirty THEN "finalFlush" ELSE "close"
    /\ UNCHANGED <<queue, closed, submit, clients, hand, attempt, backoff, dirty, counters, closeErr, log, decided>>

RunFinalFlush(ok) ==
    /\ run = "finalFlush"
    /\ run' = "close"
    /\ errors' = IF ok THEN errors ELSE errors + 1
    /\ closeErr' = ~ok
    /\ UNCHANGED <<queue, closed, submit, clients, hand, attempt, backoff, dirty, accepted, written, dropped, retries, log, decided>>

RunClosed(ok) ==
    /\ run = "close"
    /\ run' = "exited"
    /\ closeErr' = (closeErr \/ ~ok)
    /\ UNCHANGED <<queue, closed, submit, clients, hand, attempt, backoff, dirty, counters, log, decided>>

-----------------------------------------------------------------------------
ClientNext ==
    \/ \E p \in Producers : WriteBegin(p) \/ WriteSend(p) \/ WriteAccepted(p) \/ WriteGivesUp(p)
    \/ \E c \in Closers : CloseBegin(c) \/ CloseReturns(c)
    \/ CloseQueue

RunNext ==
    \/ RunReceive \/ RunWrote \/ RunBackoff \/ RunTick \/ RunDrained
    \/ \E verdict \in Verdicts : RunWriteFailed(verdict)
    \/ \E ok \in BOOLEAN : RunFlushed(ok) \/ RunFinalFlush(ok) \/ RunClosed(ok)

DSNext == ClientNext \/ RunNext

DSSpec == DSInit /\ [][DSNext]_dsVars

(* Scheduling: goroutines that can move do.  A Write leaves its select     *)
(* because its timer fires.  run may meet a tick each time it is back in   *)
(* its select, but Go picks among the ready cases at random, so a queue    *)
(* that stays ready is not passed over for ever: strong fairness.          *)
Fairness ==
    /\ \A p \in Producers : WF_dsVars(WriteSend(p) \/ WriteGivesUp(p)) /\ WF_dsVars(WriteAccepted(p))
    /\ WF_dsVars(CloseQueue)
    /\ \A c \in Closers : WF_dsVars(CloseReturns(c))
    /\ SF_dsVars(RunReceive) /\ SF_dsVars(RunDrained)
    /\ WF_dsVars(RunWrote \/ \E verdict \in Verdicts : RunWriteFailed(verdict))
    /\ WF_dsVars(RunBackoff)
    /\ WF_dsVars(\E ok \in BOOLEAN : RunFlushed(ok) \/ RunFinalFlush(ok) \/ RunClosed(ok))

DSFairSpec == DSSpec /\ Fairness

-----------------------------------------------------------------------------
(* Properties *)

DSTypeOK ==
    /\ queue \in Seq(Record) /\ hand \in Seq(Record) /\ log \in Seq(Record)
    /\ closed \in BOOLEAN /\ lockWaiting \in BOOLEAN /\ dirty \in BOOLEAN /\ closeErr \in BOOLEAN
    /\ readers \subseteq Producers
    /\ once \in {"new", "running", "done"}
    /\ wpc \in [Producers -> {"idle", "select", "sent"}]
    /\ calls \in [Producers -> 0..MaxWrites]
    /\ cpc \in [Closers -> {"idle", "waiting", "returned"}]
    /\ run \in {"select", "write", "backoff", "flush", "finalFlush", "close", "exited"}
    /\ attempt \in 0..RetryCount /\ backoff \in InitialBackoff..MaximumBackoff
    /\ accepted \in Nat /\ written \in Nat /\ dropped \in Nat /\ retries \in Nat /\ errors \in Nat
    /\ decided \in Nat

(* Close closes the queue under submitMu.Lock and Write sends under RLock: *)
(* no Write is in its select once the queue is closed, where a send would  *)
(* panic.                                                                  *)
NoSendOnClosedQueue == closed => \A p \in Producers : wpc[p] # "select"

(* Every record submitted is in exactly one place: counted as written, or  *)
(* as dropped, or in the hands of run, or in the queue.                    *)
NoRecordUnaccounted == written + dropped + Len(hand) + Len(queue) = decided

(* When any Close has returned, every accepted record has been written or  *)
(* counted as dropped, and no Write is still in flight.                    *)
ClosedMeansDrained ==
    (\E c \in Closers : cpc[c] = "returned") =>
        /\ queue = <<>> /\ hand = <<>>
        /\ written = Len(log) /\ written + dropped = decided
        /\ \A p \in Producers : wpc[p] = "idle"

(* The stream implements the bounded ordered log of Ingest: what has been  *)
(* received but not written counts as pending.                             *)
Promise == INSTANCE Ingest WITH
    Room <- QueueCapacity + 1, pending <- hand \o queue, lost <- dropped,
    open <- ~closed, finished <- (run = "exited")

KeepsOrder == Promise!SafeSpec

(* It also implements its progress: accepted records do not wait for ever, *)
(* and a closed stream finishes.                                           *)
KeepsPromise == Promise!Spec

(* No call blocks for ever, whatever the writer does: Write leaves by its  *)
(* timer; Close comes back once the readers have left, the queue is        *)
(* drained and the retries of a failing writer have ended.                 *)
CallsReturn ==
    /\ \A p \in Producers : wpc[p] # "idle" ~> wpc[p] = "idle"
    /\ \A c \in Closers : cpc[c] = "waiting" ~> cpc[c] = "returned"
=============================================================================
