----------------------------- MODULE SampleRing -----------------------------
(***************************************************************************)
(* The fixed-size history of one sensor (plugins/http/sample-ring.go), as  *)
(* operators on a record with the fields of sampleRing.  Indices start     *)
(* at 0 as in the code; a snapshot is a sequence and starts at 1.          *)
(***************************************************************************)
EXTENDS Integers, Sequences

CONSTANTS
    HistoryCapacity,    \* len(ring.samples)
    Sample, NoSample    \* samples, and the zero value that fills a new ring

ASSUME RingAssumption == HistoryCapacity \in Nat \ {0} /\ NoSample \notin Sample

newSampleRing ==
    [samples |-> [i \in 0..(HistoryCapacity - 1) |-> NoSample], next |-> 0, count |-> 0]

(* ring.Append.                                                            *)
RingAppend(ring, sample) ==
    [samples |-> [ring.samples EXCEPT ![ring.next] = sample],
     next |-> (ring.next + 1) % HistoryCapacity,
     count |-> IF ring.count < HistoryCapacity THEN ring.count + 1 ELSE ring.count]

(* Mutant: the oldest sample is taken to be in the first slot for ever.    *)
RingSnapshot_FromFirst(ring) ==
    [i \in 1..ring.count |-> ring.samples[i - 1]]

(* ring.Snapshot: the oldest sample first.                                 *)
RingSnapshot(ring) ==
    LET before == ring.next - ring.count
        start == IF before < 0 THEN before + HistoryCapacity ELSE before
    IN [i \in 1..ring.count |-> ring.samples[(start + i - 1) % HistoryCapacity]]
=============================================================================
