-------------------------- MODULE DataStreamProofs --------------------------
(***************************************************************************)
(* Proofs about DataStream for any number of producers and closers, any    *)
(* queue capacity and any retry settings.                                  *)
(***************************************************************************)
EXTENDS DataStream, SequenceTheorems, TLAPS

(* The RWMutex: its readers are the producers inside Write, its writer is  *)
(* the body of closeOnce, and the two exclude each other.                  *)
LockInv ==
    /\ readers = {p \in Producers : wpc[p] # "idle"}
    /\ closed <=> once = "done"
    /\ lockWaiting <=> once = "running"
    /\ closed => readers = {}
    /\ \A p \in Producers : wpc[p] # "idle" => calls[p] >= 1

(* run holds a record exactly while it is writing it, and starts to shut   *)
(* down only when the queue is closed and empty.                           *)
RunInv ==
    /\ run \in {"write", "backoff"} => Len(hand) = 1
    /\ run \notin {"write", "backoff"} => hand = <<>>
    /\ run = "backoff" => attempt < RetryCount
    /\ run \in {"finalFlush", "close", "exited"} => closed /\ queue = <<>>

CountInv ==
    /\ written = Len(log)
    /\ NoRecordUnaccounted

ReturnInv == \A c \in Closers : cpc[c] = "returned" => run = "exited"

Inv == DSTypeOK /\ LockInv /\ RunInv /\ CountInv /\ ReturnInv

-----------------------------------------------------------------------------
(* What the actions leave alone, and their outcomes *)

(* The run goroutine touches neither locks nor callers.                    *)
LEMMA RunFrame ==
    ASSUME RunNext
    PROVE  UNCHANGED <<closed, submit, clients, decided, accepted>>
BY Zenon DEF RunNext, RunReceive, RunWrote, RunBackoff, RunTick, RunDrained, RunWriteFailed,
             RunFlushed, RunFinalFlush, RunClosed, counters

(* Write and Close touch neither the locals of run nor what it has stored. *)
LEMMA ClientFrame ==
    ASSUME ClientNext
    PROVE  UNCHANGED <<runner, written, retries, errors, closeErr, log>>
BY Zenon DEF ClientNext, WriteBegin, WriteSend, WriteAccepted, WriteGivesUp, CloseBegin,
             CloseReturns, CloseQueue, counters

(* A failed WriteRecord drops the record, or is retried while attempts are *)
(* left.                                                                   *)
LEMMA WriteFailedCases ==
    ASSUME DSTypeOK, NEW verdict \in Verdicts, RunWriteFailed(verdict)
    PROVE  /\ run = "write"
           /\ UNCHANGED <<queue, attempt, backoff, dirty, accepted, written, closeErr, log, decided>>
           /\ \/ /\ errors' = errors + 1 /\ dropped' = dropped + 1
                 /\ hand' = <<>> /\ run' = "select" /\ UNCHANGED retries
              \/ /\ attempt < RetryCount /\ retries' = retries + 1
                 /\ run' = "backoff" /\ UNCHANGED <<errors, dropped, hand>>
<1>1. /\ run = "write"
      /\ UNCHANGED <<queue, attempt, backoff, dirty, accepted, written, closeErr, log, decided>>
      /\ \/ /\ errors' = errors + 1 /\ dropped' = dropped + 1
            /\ hand' = <<>> /\ run' = "select" /\ UNCHANGED retries
         \/ /\ ~(attempt >= RetryCount) /\ retries' = retries + 1
            /\ run' = "backoff" /\ UNCHANGED <<errors, dropped, hand>>
    BY Zenon DEF RunWriteFailed
<1>. QED
    BY <1>1, StreamAssumption DEF DSTypeOK

(* A periodic flush clears dirty or counts an error.                       *)
LEMMA FlushedCases ==
    ASSUME NEW ok \in BOOLEAN, RunFlushed(ok)
    PROVE  /\ run = "flush" /\ run' = "select"
           /\ UNCHANGED <<queue, hand, attempt, backoff, accepted, written, dropped, retries, closeErr, log, decided>>
           /\ \/ dirty' = FALSE /\ UNCHANGED errors
              \/ errors' = errors + 1 /\ UNCHANGED dirty
BY Zenon DEF RunFlushed

-----------------------------------------------------------------------------
(* Type correctness *)

(* The callers' steps keep the types; LockInv is needed for the number of  *)
(* the record a producer sends.                                            *)
LEMMA ClientTypeOK ==
    ASSUME DSTypeOK, LockInv, ClientNext
    PROVE  DSTypeOK'
<1>. USE DEF DSTypeOK, submit, clients, runner, counters
<1>0. UNCHANGED <<runner, written, retries, errors, closeErr, log>>
    BY ClientFrame
<1>1. ASSUME NEW p \in Producers, WriteBegin(p) PROVE DSTypeOK'
    <2>1. calls[p] + 1 \in 0..MaxWrites
        BY <1>1, StreamAssumption DEF WriteBegin
    <2>2. calls' \in [Producers -> 0..MaxWrites]
        BY <1>1, <2>1 DEF WriteBegin
    <2>3. CASE closed
        BY <1>0, <1>1, <2>2, <2>3 DEF WriteBegin
    <2>4. CASE ~closed
        BY <1>0, <1>1, <2>2, <2>4 DEF WriteBegin
    <2>. QED
        BY <2>3, <2>4
<1>2. ASSUME NEW p \in Producers, WriteSend(p) PROVE DSTypeOK'
    <2>1. <<p, calls[p]>> \in Record
        BY <1>2, StreamAssumption DEF LockInv, WriteSend, Record
    <2>2. queue' \in Seq(Record)
        BY <1>2, <2>1 DEF WriteSend
    <2>. QED
        BY <1>2, <2>2 DEF WriteSend
<1>3. ASSUME NEW p \in Producers, WriteAccepted(p) PROVE DSTypeOK'
    BY <1>3 DEF WriteAccepted
<1>4. ASSUME NEW p \in Producers, WriteGivesUp(p) PROVE DSTypeOK'
    BY <1>4 DEF WriteGivesUp
<1>5. ASSUME NEW c \in Closers, CloseBegin(c) PROVE DSTypeOK'
    BY <1>5 DEF CloseBegin
<1>6. ASSUME NEW c \in Closers, CloseReturns(c) PROVE DSTypeOK'
    BY <1>6 DEF CloseReturns
<1>7. CASE CloseQueue
    BY <1>7 DEF CloseQueue
<1>. QED
    BY <1>1, <1>2, <1>3, <1>4, <1>5, <1>6, <1>7 DEF ClientNext

(* So do the steps of run; RunInv bounds the attempts of writeWithRetry.   *)
LEMMA RunTypeOK ==
    ASSUME DSTypeOK, RunInv, RunNext
    PROVE  DSTypeOK'
<1>. USE DEF DSTypeOK, submit, clients, counters
<1>0. UNCHANGED <<closed, submit, clients, decided, accepted>>
    BY RunFrame
<1>1. CASE RunReceive
    BY <1>1, StreamAssumption DEF RunReceive
<1>2. CASE RunWrote
    BY <1>2 DEF RunWrote
<1>3. CASE RunBackoff
    BY <1>3, StreamAssumption DEF RunBackoff, RunInv
<1>4. CASE RunTick
    BY <1>4 DEF RunTick
<1>5. CASE RunDrained
    BY <1>5 DEF RunDrained
<1>6. ASSUME NEW verdict \in Verdicts, RunWriteFailed(verdict) PROVE DSTypeOK'
    <2>. HIDE DEF DSTypeOK
    <2>1. UNCHANGED <<queue, attempt, backoff, dirty, written, closeErr, log>>
        BY <1>6, WriteFailedCases
    <2>2. CASE /\ errors' = errors + 1 /\ dropped' = dropped + 1
               /\ hand' = <<>> /\ run' = "select" /\ UNCHANGED retries
        BY <1>0, <2>1, <2>2 DEF DSTypeOK
    <2>3. CASE /\ retries' = retries + 1
               /\ run' = "backoff" /\ UNCHANGED <<errors, dropped, hand>>
        BY <1>0, <2>1, <2>3 DEF DSTypeOK
    <2>. QED
        BY <1>6, <2>2, <2>3, WriteFailedCases
<1>7. ASSUME NEW ok \in BOOLEAN, RunFlushed(ok) PROVE DSTypeOK'
    <2>. HIDE DEF DSTypeOK
    <2>1. /\ run' = "select"
          /\ UNCHANGED <<queue, hand, attempt, backoff, written, dropped, retries, closeErr, log>>
        BY <1>7, FlushedCases
    <2>2. CASE dirty' = FALSE /\ UNCHANGED errors
        BY <1>0, <2>1, <2>2 DEF DSTypeOK
    <2>3. CASE errors' = errors + 1 /\ UNCHANGED dirty
        BY <1>0, <2>1, <2>3 DEF DSTypeOK
    <2>. QED
        BY <1>7, <2>2, <2>3, FlushedCases
<1>8. ASSUME NEW ok \in BOOLEAN, RunFinalFlush(ok) PROVE DSTypeOK'
    BY <1>8 DEF RunFinalFlush
<1>9. ASSUME NEW ok \in BOOLEAN, RunClosed(ok) PROVE DSTypeOK'
    BY <1>9 DEF RunClosed
<1>. QED
    BY <1>1, <1>2, <1>3, <1>4, <1>5, <1>6, <1>7, <1>8, <1>9 DEF RunNext

-----------------------------------------------------------------------------
(* The locks *)

(* Write enters as a reader only while the queue is open, and Close closes *)
(* it only when no reader is left.                                         *)
LEMMA ClientLock ==
    ASSUME DSTypeOK, LockInv, ClientNext
    PROVE  LockInv'
<1>. USE DEF LockInv
<1>1. ASSUME NEW p \in Producers, WriteBegin(p) PROVE LockInv'
    <2>1. calls' \in [Producers -> Int] /\ calls'[p] >= 1 /\ \A q \in Producers : calls'[q] >= calls[q]
        BY <1>1, StreamAssumption DEF DSTypeOK, WriteBegin
    <2>2. CASE closed
        BY <1>1, <2>1, <2>2 DEF DSTypeOK, WriteBegin
    <2>3. CASE ~closed
        <3>1. UNCHANGED <<closed, lockWaiting, once>> /\ readers' = {q \in Producers : wpc'[q] # "idle"}
            BY <1>1, <2>3 DEF DSTypeOK, WriteBegin
        <3>2. \A q \in Producers : wpc'[q] # "idle" => calls'[q] >= 1
            BY <1>1, <2>1, <2>3 DEF DSTypeOK, WriteBegin
        <3>. QED
            BY <2>3, <3>1, <3>2
    <2>. QED
        BY <2>2, <2>3
<1>2. ASSUME NEW p \in Producers, WriteSend(p) PROVE LockInv'
    BY <1>2 DEF DSTypeOK, WriteSend, submit
<1>3. ASSUME NEW p \in Producers, WriteAccepted(p) PROVE LockInv'
    BY <1>3 DEF DSTypeOK, WriteAccepted
<1>4. ASSUME NEW p \in Producers, WriteGivesUp(p) PROVE LockInv'
    BY <1>4 DEF DSTypeOK, WriteGivesUp
<1>5. ASSUME NEW c \in Closers, CloseBegin(c) PROVE LockInv'
    <2>1. CASE once = "new"
        BY <1>5, <2>1 DEF DSTypeOK, CloseBegin
    <2>2. CASE once # "new"
        BY <1>5, <2>2 DEF DSTypeOK, CloseBegin
    <2>. QED
        BY <2>1, <2>2
<1>6. ASSUME NEW c \in Closers, CloseReturns(c) PROVE LockInv'
    BY <1>6 DEF CloseReturns, submit
<1>7. CASE CloseQueue
    BY <1>7 DEF CloseQueue, clients
<1>. QED
    BY <1>1, <1>2, <1>3, <1>4, <1>5, <1>6, <1>7 DEF ClientNext

(* run holds no lock of the stream.                                        *)
LEMMA RunLock ==
    ASSUME LockInv, RunNext
    PROVE  LockInv'
<1>1. UNCHANGED <<closed, submit, clients>>
    BY RunFrame
<1>. QED
    BY <1>1 DEF LockInv, submit, clients

-----------------------------------------------------------------------------
(* The run goroutine *)

(* Only an open stream's queue grows, so a stream that found its closed    *)
(* queue empty never finds it otherwise again.                             *)
LEMMA ClientRun ==
    ASSUME DSTypeOK, LockInv, RunInv, ClientNext
    PROVE  RunInv'
<1>1. UNCHANGED <<run, hand, attempt>>
    BY ClientFrame DEF runner
<1>2. closed => closed' /\ UNCHANGED queue
    <2>1. \A p \in Producers : WriteSend(p) => ~closed
        BY DEF LockInv, WriteSend
    <2>. QED
        BY <2>1, Zenon DEF ClientNext, WriteBegin, WriteAccepted, WriteGivesUp, CloseBegin, CloseReturns,
                           CloseQueue
<1>. QED
    BY <1>1, <1>2 DEF RunInv

(* The loop of run and the retry loop inside it.                           *)
LEMMA RunRun ==
    ASSUME DSTypeOK, RunInv, RunNext
    PROVE  RunInv'
<1>. USE DEF RunInv, DSTypeOK
<1>0. UNCHANGED closed
    BY RunFrame
<1>1. CASE RunReceive
    BY <1>1 DEF RunReceive
<1>2. CASE RunWrote
    BY <1>2 DEF RunWrote
<1>3. CASE RunBackoff
    BY <1>3 DEF RunBackoff
<1>4. CASE RunTick
    BY <1>4 DEF RunTick
<1>5. CASE RunDrained
    BY <1>5 DEF RunDrained
<1>6. ASSUME NEW verdict \in Verdicts, RunWriteFailed(verdict) PROVE RunInv'
    <2>. HIDE DEF RunInv, DSTypeOK
    <2>1. run = "write" /\ UNCHANGED <<queue, attempt>>
        BY <1>6, WriteFailedCases
    <2>2. CASE hand' = <<>> /\ run' = "select"
        BY <2>2 DEF RunInv
    <2>3. CASE attempt < RetryCount /\ run' = "backoff" /\ UNCHANGED hand
        BY <2>1, <2>3 DEF RunInv
    <2>. QED
        BY <1>6, <2>2, <2>3, WriteFailedCases
<1>7. ASSUME NEW ok \in BOOLEAN, RunFlushed(ok) PROVE RunInv'
    <2>1. run = "flush" /\ run' = "select" /\ UNCHANGED hand
        BY <1>7, FlushedCases
    <2>. QED
        BY <2>1
<1>8. ASSUME NEW ok \in BOOLEAN, RunFinalFlush(ok) PROVE RunInv'
    BY <1>8 DEF RunFinalFlush
<1>9. ASSUME NEW ok \in BOOLEAN, RunClosed(ok) PROVE RunInv'
    BY <1>9 DEF RunClosed
<1>. QED
    BY <1>1, <1>2, <1>3, <1>4, <1>5, <1>6, <1>7, <1>8, <1>9 DEF RunNext

-----------------------------------------------------------------------------
(* The counters *)

(* A call of Write adds its record to the queue or to dropped.             *)
LEMMA ClientCount ==
    ASSUME DSTypeOK, CountInv, ClientNext
    PROVE  CountInv'
<1>. USE DEF CountInv, NoRecordUnaccounted, DSTypeOK
<1>0. UNCHANGED <<hand, written, log>>
    BY ClientFrame DEF runner
<1>1. ASSUME NEW p \in Producers, WriteBegin(p) PROVE CountInv'
    <2>1. UNCHANGED queue /\ (UNCHANGED <<dropped, decided>> \/ (dropped' = dropped + 1 /\ decided' = decided + 1))
        BY <1>1, Zenon DEF WriteBegin
    <2>. QED
        BY <1>0, <2>1
<1>2. ASSUME NEW p \in Producers, WriteSend(p) PROVE CountInv'
    <2>1. UNCHANGED dropped /\ decided' = decided + 1 /\ Len(queue') = Len(queue) + 1
        BY <1>2 DEF WriteSend, counters
    <2>. QED
        BY <1>0, <2>1
<1>3. ASSUME NEW p \in Producers, WriteAccepted(p) PROVE CountInv'
    BY <1>0, <1>3 DEF WriteAccepted
<1>4. ASSUME NEW p \in Producers, WriteGivesUp(p) PROVE CountInv'
    <2>1. UNCHANGED queue /\ dropped' = dropped + 1 /\ decided' = decided + 1
        BY <1>4 DEF WriteGivesUp
    <2>. QED
        BY <1>0, <2>1
<1>5. ASSUME NEW c \in Closers, CloseBegin(c) PROVE CountInv'
    BY <1>0, <1>5 DEF CloseBegin, counters
<1>6. ASSUME NEW c \in Closers, CloseReturns(c) PROVE CountInv'
    BY <1>0, <1>6 DEF CloseReturns, counters
<1>7. CASE CloseQueue
    BY <1>0, <1>7 DEF CloseQueue, counters
<1>. QED
    BY <1>1, <1>2, <1>3, <1>4, <1>5, <1>6, <1>7 DEF ClientNext

(* run moves a record from the queue to its hand, and from its hand to     *)
(* written or dropped.                                                     *)
LEMMA RunCount ==
    ASSUME DSTypeOK, RunInv, CountInv, RunNext
    PROVE  CountInv'
<1>. USE DEF CountInv, NoRecordUnaccounted, DSTypeOK
<1>0. UNCHANGED decided
    BY RunFrame
<1>1. CASE RunReceive
    <2>1. Len(hand') = 1 /\ Len(hand) = 0 /\ Len(queue') = Len(queue) - 1
        BY <1>1 DEF RunReceive, RunInv
    <2>2. UNCHANGED <<written, dropped, log>>
        BY <1>1 DEF RunReceive, counters
    <2>3. Len(queue) \in Nat /\ written \in Nat /\ dropped \in Nat
        OBVIOUS
    <2>. HIDE DEF DSTypeOK
    <2>. QED
        BY <1>0, <2>1, <2>2, <2>3
<1>2. CASE RunWrote
    <2>. HIDE DEF DSTypeOK
    <2>1. UNCHANGED <<queue, dropped>> /\ written' = written + 1 /\ log' = log \o hand /\ hand' = <<>>
        BY <1>2 DEF RunWrote
    <2>2. hand \in Seq(Record) /\ log \in Seq(Record) /\ Len(hand) = 1
        BY <1>2 DEF RunWrote, RunInv, DSTypeOK
    <2>3. Len(log') = Len(log) + 1
        BY <2>1, <2>2, ConcatProperties
    <2>4. Len(hand') = 0
        BY <2>1
    <2>5. Len(queue) \in Nat /\ Len(log) \in Nat /\ written \in Nat /\ dropped \in Nat /\ decided \in Nat
        BY DEF DSTypeOK
    <2>. QED
        BY <1>0, <2>1, <2>2, <2>3, <2>4, <2>5
<1>3. CASE RunBackoff
    BY <1>0, <1>3 DEF RunBackoff, counters
<1>4. CASE RunTick
    BY <1>0, <1>4 DEF RunTick, counters
<1>5. CASE RunDrained
    BY <1>0, <1>5 DEF RunDrained, counters
<1>6. ASSUME NEW verdict \in Verdicts, RunWriteFailed(verdict) PROVE CountInv'
    <2>. HIDE DEF DSTypeOK
    <2>1. run = "write" /\ UNCHANGED <<queue, written, log>>
        BY <1>6, WriteFailedCases
    <2>2. CASE dropped' = dropped + 1 /\ hand' = <<>>
        <3>1. Len(hand) = 1 /\ Len(hand') = 0
            BY <2>1, <2>2 DEF RunInv
        <3>. QED
            BY <1>0, <2>1, <2>2, <3>1 DEF DSTypeOK
    <2>3. CASE UNCHANGED <<dropped, hand>>
        BY <1>0, <2>1, <2>3
    <2>. QED
        BY <1>6, <2>2, <2>3, WriteFailedCases
<1>7. ASSUME NEW ok \in BOOLEAN, RunFlushed(ok) PROVE CountInv'
    <2>1. UNCHANGED <<queue, hand, written, dropped, log>>
        BY <1>7, FlushedCases
    <2>. QED
        BY <1>0, <2>1
<1>8. ASSUME NEW ok \in BOOLEAN, RunFinalFlush(ok) PROVE CountInv'
    BY <1>0, <1>8 DEF RunFinalFlush
<1>9. ASSUME NEW ok \in BOOLEAN, RunClosed(ok) PROVE CountInv'
    BY <1>0, <1>9 DEF RunClosed, counters
<1>. QED
    BY <1>1, <1>2, <1>3, <1>4, <1>5, <1>6, <1>7, <1>8, <1>9 DEF RunNext

-----------------------------------------------------------------------------
(* Close returns after done is closed, and run has then ended for good.    *)
LEMMA NextReturn ==
    ASSUME DSTypeOK, ReturnInv, DSNext
    PROVE  ReturnInv'
<1>1. CASE RunNext
    <2>1. UNCHANGED cpc
        BY <1>1, RunFrame DEF clients
    <2>2. run # "exited"
        BY <1>1 DEF RunNext, RunReceive, RunWrote, RunBackoff, RunTick, RunDrained, RunWriteFailed,
                    RunFlushed, RunFinalFlush, RunClosed
    <2>. QED
        BY <2>1, <2>2 DEF ReturnInv
<1>2. CASE ClientNext
    <2>1. UNCHANGED run
        BY <1>2, ClientFrame DEF runner
    <2>2. UNCHANGED cpc \/ \E c \in Closers : CloseBegin(c) \/ CloseReturns(c)
        BY <1>2, Zenon DEF ClientNext, WriteBegin, WriteSend, WriteAccepted, WriteGivesUp, CloseQueue, clients
    <2>3. ASSUME NEW c \in Closers, CloseBegin(c) PROVE ReturnInv'
        BY <2>1, <2>3 DEF CloseBegin, ReturnInv, DSTypeOK
    <2>4. ASSUME NEW c \in Closers, CloseReturns(c) PROVE ReturnInv'
        BY <2>1, <2>4 DEF CloseReturns, ReturnInv, DSTypeOK
    <2>. QED
        BY <2>1, <2>2, <2>3, <2>4 DEF ReturnInv
<1>. QED
    BY <1>1, <1>2 DEF DSNext

-----------------------------------------------------------------------------
(* The theorems *)

(* The inductive invariant holds initially.                                *)
LEMMA InitInv == DSInit => Inv
<1>. SUFFICES ASSUME DSInit PROVE Inv
    OBVIOUS
<1>1. DSTypeOK
    <2>1. queue \in Seq(Record) /\ hand \in Seq(Record) /\ log \in Seq(Record)
        BY DEF DSInit
    <2>0. closed \in BOOLEAN /\ lockWaiting \in BOOLEAN /\ dirty \in BOOLEAN /\ closeErr \in BOOLEAN
        BY DEF DSInit
    <2>2. attempt \in 0..RetryCount /\ backoff \in InitialBackoff..MaximumBackoff
        BY StreamAssumption DEF DSInit
    <2>3. /\ wpc \in [Producers -> {"idle", "select", "sent"}]
          /\ calls \in [Producers -> 0..MaxWrites]
          /\ cpc \in [Closers -> {"idle", "waiting", "returned"}]
        BY StreamAssumption DEF DSInit
    <2>4. /\ readers \subseteq Producers /\ once = "new" /\ run = "select" /\ decided = 0
          /\ accepted = 0 /\ written = 0 /\ dropped = 0 /\ retries = 0 /\ errors = 0
        BY DEF DSInit
    <2>. QED
        BY <2>0, <2>1, <2>2, <2>3, <2>4 DEF DSTypeOK
<1>2. LockInv /\ RunInv /\ ReturnInv
    BY DEF DSInit, LockInv, RunInv, ReturnInv
<1>3. CountInv
    BY DEF DSInit, CountInv, NoRecordUnaccounted
<1>. QED
    BY <1>1, <1>2, <1>3 DEF Inv

(* Every step of the stream preserves it.                                  *)
LEMMA NextInv == Inv /\ [DSNext]_dsVars => Inv'
<1>. SUFFICES ASSUME Inv, [DSNext]_dsVars PROVE Inv'
    OBVIOUS
<1>1. CASE ClientNext
    BY <1>1, ClientTypeOK, ClientLock, ClientRun, ClientCount, NextReturn DEF Inv, DSNext
<1>2. CASE RunNext
    BY <1>2, RunTypeOK, RunLock, RunRun, RunCount, NextReturn DEF Inv, DSNext
<1>3. CASE UNCHANGED dsVars
    BY <1>3 DEF Inv, DSTypeOK, LockInv, RunInv, CountInv, NoRecordUnaccounted, ReturnInv,
                dsVars, submit, clients, runner, counters
<1>. QED
    BY <1>1, <1>2, <1>3 DEF DSNext

(* Inv is an invariant of the data stream.                                 *)
THEOREM Invariance == DSSpec => []Inv
BY InitInv, NextInv, PTL DEF DSSpec

(* Type correctness of the stream's state, the bounds on the retry         *)
(* counter and on the backoff of writeWithRetry included.                  *)
THEOREM TypeCorrect == DSSpec => []DSTypeOK
<1>1. Inv => DSTypeOK
    BY DEF Inv
<1>. QED
    BY <1>1, Invariance, PTL

(* Write never sends on the queue that Close has closed.                   *)
THEOREM NeverSendsOnClosedQueue == DSSpec => []NoSendOnClosedQueue
<1>1. Inv => NoSendOnClosedQueue
    BY DEF Inv, LockInv, NoSendOnClosedQueue
<1>. QED
    BY <1>1, Invariance, PTL

(* Every record given to Write is queued, held by run, counted as written  *)
(* or counted as dropped.                                                  *)
THEOREM AllRecordsAccounted == DSSpec => []NoRecordUnaccounted
<1>1. Inv => NoRecordUnaccounted
    BY DEF Inv, CountInv
<1>. QED
    BY <1>1, Invariance, PTL

(* When Close has returned to anyone, nothing is queued or in flight.      *)
THEOREM CloseDrains == DSSpec => []ClosedMeansDrained
<1>1. Inv => ClosedMeansDrained
    <2>. SUFFICES ASSUME Inv, NEW c \in Closers, cpc[c] = "returned"
                  PROVE  /\ queue = <<>> /\ hand = <<>>
                         /\ written = Len(log) /\ written + dropped = decided
                         /\ \A p \in Producers : wpc[p] = "idle"
        BY DEF ClosedMeansDrained
    <2>1. run = "exited"
        BY DEF Inv, ReturnInv
    <2>2. closed /\ queue = <<>> /\ hand = <<>>
        BY <2>1 DEF Inv, RunInv
    <2>3. written = Len(log) /\ written + dropped = decided
        BY <2>2 DEF Inv, CountInv, NoRecordUnaccounted, DSTypeOK
    <2>4. \A p \in Producers : wpc[p] = "idle"
        BY <2>2 DEF Inv, LockInv
    <2>. QED
        BY <2>2, <2>3, <2>4
<1>. QED
    BY <1>1, Invariance, PTL

-----------------------------------------------------------------------------
(* The stream implements the ordered log of Ingest *)

(* Facts about the pending records, hand \o queue: what a send appends, and *)
(* what run takes from the front.                                          *)
LEMMA PendingFacts ==
    ASSUME NEW S, NEW h \in Seq(S), NEW q \in Seq(S)
    PROVE  /\ \A e \in S : h \o Append(q, e) = Append(h \o q, e)
           /\ h = <<>> => h \o q = q
           /\ Len(h) = 1 => /\ h \o q # <<>> /\ h = <<h[1]>>
                            /\ Head(h \o q) = h[1] /\ Tail(h \o q) = q
           /\ q # <<>> => <<Head(q)>> \o Tail(q) = q
           /\ Len(h \o q) = Len(h) + Len(q)
<1>0. Len(h \o q) = Len(h) + Len(q)
    OBVIOUS
<1>1. \A e \in S : h \o Append(q, e) = Append(h \o q, e)
    OBVIOUS
<1>2. h = <<>> => h \o q = q
    OBVIOUS
<1>3. ASSUME Len(h) = 1 PROVE h \o q # <<>> /\ h = <<h[1]>> /\ Head(h \o q) = h[1] /\ Tail(h \o q) = q
    <2>1. h \o q # <<>> /\ Head(h \o q) = h[1]
        BY <1>3
    <2>2. h = <<h[1]>>
        BY <1>3
    <2>3. Tail(h \o q) = q
        <3>0. h \o q \in Seq(S)
            OBVIOUS
        <3>1. Len(h \o q) = 1 + Len(q)
            BY <1>0, <1>3
        <3>2. Tail(h \o q) \in Seq(S) /\ Len(Tail(h \o q)) = Len(q)
            BY <2>1, <3>0, <3>1, HeadTailProperties
        <3>3. ASSUME NEW i \in 1..Len(q) PROVE Tail(h \o q)[i] = q[i]
            BY <1>3, <3>0, <3>1
        <3>. QED
            BY <3>2, <3>3, SeqEqual
    <2>. QED
        BY <2>1, <2>2, <2>3
<1>4. q # <<>> => <<Head(q)>> \o Tail(q) = q
    OBVIOUS
<1>. QED
    BY <1>0, <1>1, <1>2, <1>3, <1>4

(* A step of a caller: a send is Accept, a refusal is Refuse, closing the  *)
(* queue is Shut, and the rest is invisible.                               *)
LEMMA ClientRefines ==
    ASSUME Inv, ClientNext
    PROVE  [Promise!Next]_(Promise!vars)
<1>. DEFINE P == hand \o queue
<1>. USE DEF Promise!vars, Promise!Next
<1>0. UNCHANGED <<run, hand, log>>
    BY ClientFrame DEF runner
<1>t. hand \in Seq(Record) /\ queue \in Seq(Record)
    BY DEF Inv, DSTypeOK
<1>1. ASSUME NEW p \in Producers, WriteBegin(p) PROVE [Promise!Next]_(Promise!vars)
    <2>1. UNCHANGED <<queue, closed>> /\ (UNCHANGED dropped \/ dropped' = dropped + 1)
        BY <1>1, Zenon DEF WriteBegin
    <2>. QED
        BY <1>0, <2>1, Zenon DEF Promise!Refuse
<1>2. ASSUME NEW p \in Producers, WriteSend(p) PROVE [Promise!Next]_(Promise!vars)
    <2>1. <<p, calls[p]>> \in Record
        BY <1>2, StreamAssumption DEF Inv, DSTypeOK, LockInv, WriteSend, Record
    <2>2. P' = Append(P, <<p, calls[p]>>)
        BY <1>0, <1>2, <1>t, <2>1, PendingFacts DEF WriteSend
    <2>3. Len(hand) = 0 \/ Len(hand) = 1
        <3>1. hand = <<>> \/ Len(hand) = 1
            BY DEF Inv, RunInv
        <3>. QED
            BY <3>1
    <2>4. Len(P) < QueueCapacity + 1
        BY <1>2, <1>t, <2>3, PendingFacts, StreamAssumption DEF WriteSend
    <2>5. ~closed
        BY <1>2 DEF Inv, LockInv, WriteSend
    <2>6. UNCHANGED <<closed, dropped>>
        BY <1>2 DEF WriteSend, counters
    <2>. QED
        BY <1>0, <2>1, <2>2, <2>4, <2>5, <2>6 DEF Promise!Accept
<1>3. ASSUME NEW p \in Producers, WriteAccepted(p) PROVE [Promise!Next]_(Promise!vars)
    BY <1>0, <1>3 DEF WriteAccepted
<1>4. ASSUME NEW p \in Producers, WriteGivesUp(p) PROVE [Promise!Next]_(Promise!vars)
    BY <1>0, <1>4 DEF WriteGivesUp, Promise!Refuse
<1>5. ASSUME NEW c \in Closers, CloseBegin(c) PROVE [Promise!Next]_(Promise!vars)
    BY <1>0, <1>5 DEF CloseBegin, counters
<1>6. ASSUME NEW c \in Closers, CloseReturns(c) PROVE [Promise!Next]_(Promise!vars)
    BY <1>0, <1>6 DEF CloseReturns, counters
<1>7. CASE CloseQueue
    <2>1. ~closed /\ closed' = TRUE
        BY <1>7 DEF Inv, LockInv, CloseQueue
    <2>2. UNCHANGED <<queue, dropped>>
        BY <1>7 DEF CloseQueue, counters
    <2>. QED
        BY <1>0, <2>1, <2>2 DEF Promise!Shut
<1>. QED
    BY <1>1, <1>2, <1>3, <1>4, <1>5, <1>6, <1>7 DEF ClientNext

(* A step of run: a write that succeeds is Store, one given up is Discard, *)
(* closing the writer is Finish, and receiving moves a record inside the   *)
(* pending sequence.                                                       *)
LEMMA RunRefines ==
    ASSUME Inv, RunNext
    PROVE  [Promise!Next]_(Promise!vars)
<1>. DEFINE P == hand \o queue
<1>. USE DEF Promise!vars, Promise!Next
<1>0. UNCHANGED closed
    BY RunFrame
<1>t. hand \in Seq(Record) /\ queue \in Seq(Record) /\ log \in Seq(Record)
    BY DEF Inv, DSTypeOK
<1>1. CASE RunReceive
    <2>1. P' = P
        BY <1>1, <1>t, PendingFacts DEF RunReceive, Inv, RunInv
    <2>. QED
        BY <1>0, <1>1, <2>1 DEF RunReceive, counters
<1>2. CASE RunWrote
    <2>1. Len(hand) = 1
        BY <1>2 DEF RunWrote, Inv, RunInv
    <2>2. P # <<>> /\ log' = Append(log, Head(P)) /\ P' = Tail(P)
        BY <1>2, <1>t, <2>1, PendingFacts DEF RunWrote
    <2>3. UNCHANGED dropped /\ (run = "exited" <=> run' = "exited")
        BY <1>2 DEF RunWrote
    <2>. QED
        BY <1>0, <2>2, <2>3 DEF Promise!Store
<1>3. CASE RunBackoff
    BY <1>0, <1>3 DEF RunBackoff, counters
<1>4. CASE RunTick
    BY <1>0, <1>4 DEF RunTick, counters
<1>5. CASE RunDrained
    BY <1>0, <1>5 DEF RunDrained, counters
<1>6. ASSUME NEW verdict \in Verdicts, RunWriteFailed(verdict) PROVE [Promise!Next]_(Promise!vars)
    <2>1. run = "write" /\ UNCHANGED <<queue, log>> /\ Len(hand) = 1
        BY <1>6, WriteFailedCases DEF Inv, RunInv
    <2>2. CASE dropped' = dropped + 1 /\ hand' = <<>> /\ run' = "select"
        <3>1. P # <<>> /\ P' = Tail(P)
            BY <1>t, <2>1, <2>2, PendingFacts
        <3>. QED
            BY <1>0, <2>1, <2>2, <3>1 DEF Promise!Discard
    <2>3. CASE run' = "backoff" /\ UNCHANGED <<dropped, hand>>
        BY <1>0, <2>1, <2>3
    <2>. QED
        BY <1>6, <2>2, <2>3, WriteFailedCases DEF Inv
<1>7. ASSUME NEW ok \in BOOLEAN, RunFlushed(ok) PROVE [Promise!Next]_(Promise!vars)
    <2>1. run = "flush" /\ run' = "select" /\ UNCHANGED <<queue, hand, dropped, log>>
        BY <1>7, FlushedCases
    <2>. QED
        BY <1>0, <2>1
<1>8. ASSUME NEW ok \in BOOLEAN, RunFinalFlush(ok) PROVE [Promise!Next]_(Promise!vars)
    BY <1>0, <1>8 DEF RunFinalFlush
<1>9. ASSUME NEW ok \in BOOLEAN, RunClosed(ok) PROVE [Promise!Next]_(Promise!vars)
    <2>1. closed /\ P = <<>> /\ run = "close" /\ run' = "exited"
        BY <1>9, <1>t, PendingFacts DEF RunClosed, Inv, RunInv
    <2>2. UNCHANGED <<queue, hand, dropped, log>>
        BY <1>9 DEF RunClosed, counters
    <2>. QED
        BY <1>0, <2>1, <2>2 DEF Promise!Finish
<1>. QED
    BY <1>1, <1>2, <1>3, <1>4, <1>5, <1>6, <1>7, <1>8, <1>9 DEF RunNext

(* The data stream implements Ingest: records reach the log in the order   *)
(* they were accepted, none twice, none skipped unless counted as lost,    *)
(* never more than the queue capacity and one pending, none accepted after *)
(* Close has closed the queue, and it ends only when none is pending.      *)
THEOREM StreamKeepsOrder == DSSpec => KeepsOrder
<1>1. DSInit => Promise!Init
    BY DEF DSInit, Promise!Init
<1>2. Inv /\ [DSNext]_dsVars => [Promise!Next]_(Promise!vars)
    <2>1. CASE UNCHANGED dsVars
        BY <2>1 DEF dsVars, submit, clients, runner, counters, Promise!vars
    <2>. QED
        BY <2>1, ClientRefines, RunRefines DEF DSNext
<1>. QED
    BY <1>1, <1>2, Invariance, PTL DEF DSSpec, KeepsOrder, Promise!SafeSpec
=============================================================================
