----------------------------- MODULE Histogram -----------------------------
(***************************************************************************)
(* StatsEventSubscriber::SimpleHistogram (src/unnamed/part_000): a fixed   *)
(* bucket-width counter with an underflow bucket 0 and an overflow bucket  *)
(* at the end, and the exported bucket labels of GetHistogram.             *)
(*                                                                         *)
(* Callers pass latencies as TimeDelta::InMillisecondsF(), a double, to    *)
(* Add(int64): the implicit conversion truncates toward zero.  The         *)
(* environment here adds latency deltas given in microseconds (the unit    *)
(* of TimeDelta) through that conversion, and keeps the multiset of deltas *)
(* added since the last Reset as history.                                  *)
(***************************************************************************)
EXTENDS Integers, Bags, BagsExt

CONSTANTS
  MinMs, MaxMs, WidthMs,   \* SimpleHistogram(min, max, width)
  LatencySamplesUs,        \* latency deltas a caller may add, microseconds
  MaxAdds                  \* bound on Add calls between resets

\* Constructor CHECKs.
ASSUME WidthMs > 0 /\ (MaxMs - MinMs) % WidthMs = 0
ASSUME (MaxMs - MinMs) \div WidthMs + 2 > 2

NumBuckets == (MaxMs - MinMs) \div WidthMs + 2
Buckets == 0 .. NumBuckets - 1

VARIABLES
  buckets_,   \* bucket index -> count
  added       \* history: bag of the deltas (us) added since Reset

vars == <<buckets_, added>>

(* double -> int64 conversion of InMillisecondsF(): truncation toward 0.   *)
InMillisecondsTrunc(us) ==
  IF us >= 0 THEN us \div 1000 ELSE -((-us) \div 1000)

(* Mutant: the interior index without the underflow bucket's offset.       *)
BucketIndexNoOffset(sample) ==
  CASE sample < MinMs  -> 0
    [] sample >= MaxMs -> NumBuckets - 1
    [] OTHER           -> (sample - MinMs) \div WidthMs

(* SimpleHistogram::Add(sample): the index of the bucket it increments.    *)
BucketIndex(sample) ==
  CASE sample < MinMs  -> 0
    [] sample >= MaxMs -> NumBuckets - 1
    [] OTHER           -> 1 + (sample - MinMs) \div WidthMs

Add(sample) ==
  buckets_' = [buckets_ EXCEPT ![BucketIndex(sample)] = @ + 1]

(* Mutant: Reset rebuilding one bucket too many.                           *)
ResetExtraBucket == buckets_' = [i \in 0 .. NumBuckets |-> 0]

(* SimpleHistogram::Reset: zero every bucket, keep the shape.              *)
Reset == buckets_' = [i \in Buckets |-> 0]

Init ==
  /\ buckets_ = [i \in Buckets |-> 0]
  /\ added = EmptyBag

AddLatency ==
  /\ BagCardinality(added) < MaxAdds
  /\ \E us \in LatencySamplesUs :
       /\ Add(InMillisecondsTrunc(us))
       /\ added' = BagAdd(added, us)

ResetHistogram ==
  /\ Reset
  /\ added' = EmptyBag

Next == AddLatency \/ ResetHistogram

Spec == Init /\ [][Next]_vars

-----------------------------------------------------------------------------
(* GetHistogram's labels: "< min", "lower - upper" with                    *)
(* lower = min + (i-1)*width, upper = lower + width - 1, and ">= max".     *)
LabelHolds(i, ms) ==
  LET lower == MinMs + (i - 1) * WidthMs
      upper == lower + WidthMs - 1
  IN CASE i = 0              -> ms < MinMs
       [] i = NumBuckets - 1 -> ms >= MaxMs
       [] OTHER              -> lower <= ms /\ ms <= upper

CountAdded(P(_)) ==
  LET S == {us \in BagToSet(added) : P(us)}
  IN BagCardinality([us \in S |-> added[us]])

TypeOK ==
  /\ buckets_ \in [Buckets -> Nat]
  /\ IsABag(added)

(* The count GetHistogram exports under each label is the number of        *)
(* samples added since Reset whose millisecond value the label covers:     *)
(* Add's index arithmetic agrees with the labels of the export.            *)
BucketsMatchLabels ==
  \A i \in Buckets :
    buckets_[i] = CountAdded(LAMBDA us : LabelHolds(i, InMillisecondsTrunc(us)))

(* spec.md 9: a negative latency (capture-end timestamp subtracted from    *)
(* capture-begin in RecordCaptureLatency) lands in the underflow bucket.   *)
NegativeLatencyUnderflows ==
  buckets_[0] = CountAdded(LAMBDA us : us < 0)
=============================================================================
