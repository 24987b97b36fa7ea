------------------------------- MODULE HdrHistogram -------------------------------
(***********************************************************************************)
(* The latency histogram (src/hdr_histogram.c).  A value goes to one of            *)
(* CountsLen counters: the counters of bucket b stand for ranges of 2^b values,    *)
(* and all buckets but the first use the upper half of their sub-buckets only.     *)
(* A histogram is a record of its counters and total_count; what hdr_init derives  *)
(* from its arguments are the constant definitions below.                          *)
(***********************************************************************************)
EXTENDS Integers, FiniteSetsExt

CONSTANTS
    LowestTrackable, HighestTrackable, SignificantFigures,      \* of hdr_init
    IntBits         \* the width of an int: 32

ASSUME HistogramAssumption ==
    /\ LowestTrackable \in Nat \ {0} /\ HighestTrackable \in Nat
    /\ SignificantFigures \in 1 .. 5        \* EINVAL otherwise
    /\ IntBits \in Nat \ {0}

\* 64 - clz(v): the number of binary digits of v.
BitLength(v) == CHOOSE n \in 0 .. 62 : v < 2^n /\ (n = 0 \/ v >= 2^(n-1))

\* x << n in an int, as the instruction does it: the count is taken modulo the width, and
\* what does not fit wraps.  Values and counts are of twice that width.
AsInt(x)        == ((x + 2^(IntBits - 1)) % 2^IntBits) - 2^(IntBits - 1)
ShiftLeft(x, n) == AsInt(x * 2^(n % IntBits))

-----------------------------------------------------------------------------------
(* hdr_init.  It does not return if the mask has become negative: the loop that     *)
(* counts the buckets doubles it until it is as great as the highest value.         *)

LargestSingleUnit   == 2 * 10^SignificantFigures
SubBucketCountMagnitude == BitLength(LargestSingleUnit - 1)     \* ceil(log2(...))
SubBucketHalfCountMagnitude ==
    (IF SubBucketCountMagnitude > 1 THEN SubBucketCountMagnitude ELSE 1) - 1
UnitMagnitude       == BitLength(LowestTrackable) - 1           \* floor(log2(...))
SubBucketCount      == 2^(SubBucketHalfCountMagnitude + 1)
SubBucketHalfCount  == SubBucketCount \div 2
SubBucketMask       == ShiftLeft(SubBucketCount - 1, UnitMagnitude)
BucketCount == CHOOSE n \in 1 .. 62 :
    /\ SubBucketMask * 2^(n-1) >= HighestTrackable
    /\ n = 1 \/ SubBucketMask * 2^(n-2) < HighestTrackable
CountsLen == (BucketCount + 1) * SubBucketHalfCount

Indexes == 0 .. (CountsLen - 1)

\* After hdr_init, and after hdr_reset.
Empty == [counts |-> [i \in Indexes |-> 0], total_count |-> 0]

-----------------------------------------------------------------------------------
(* Values and indexes.                                                              *)

\* The position of the highest bit of value | sub_bucket_mask picks the bucket.
BucketIndex(v) ==
    LET pow2ceiling == IF v > SubBucketMask THEN BitLength(v) ELSE BitLength(SubBucketMask) IN
    pow2ceiling - UnitMagnitude - (SubBucketHalfCountMagnitude + 1)

SubBucketIndex(v, b) == v \div 2^(b + UnitMagnitude)

CountsIndex(b, s) == (b + 1) * SubBucketHalfCount + (s - SubBucketHalfCount)
CountsIndexFor(v) == CountsIndex(BucketIndex(v), SubBucketIndex(v, BucketIndex(v)))

\* The assertions of counts_index; a value that fails them aborts the program.
Trackable(v) == v >= 0 /\ BucketIndex(v) < BucketCount

\* The values that the buckets cover.
Values == 0 .. (SubBucketCount * 2^(BucketCount - 1 + UnitMagnitude) - 1)

ValueFromIndex(b, s) == s * 2^(b + UnitMagnitude)

SizeOfEquivalentValueRange(v) ==
    LET b == BucketIndex(v)
        adjusted == IF SubBucketIndex(v, b) >= SubBucketCount THEN b + 1 ELSE b IN
    ShiftLeft(1, UnitMagnitude + adjusted)

LowestEquivalentValue(v) ==
    ValueFromIndex(BucketIndex(v), SubBucketIndex(v, BucketIndex(v)))
NextNonEquivalentValue(v) == LowestEquivalentValue(v) + SizeOfEquivalentValueRange(v)
HighestEquivalentValue(v) == NextNonEquivalentValue(v) - 1
MedianEquivalentValue(v)  ==
    LowestEquivalentValue(v) + (SizeOfEquivalentValueRange(v) \div 2)

-----------------------------------------------------------------------------------
(* Recording.                                                                       *)

\* hdr_record_values; hdr_record_value is one of them.
RecordValues(h, v, n) ==
    [counts      |-> [h.counts EXCEPT ![CountsIndexFor(v)] = @ + n],
     total_count |-> h.total_count + n]
RecordValue(h, v) == RecordValues(h, v, 1)

-----------------------------------------------------------------------------------
(* The iterator: from (0, -1) it visits (bucket, sub-bucket) pairs in this order,   *)
(* until the counts it has passed add up to total_count.                            *)

IncrementBucket(at) ==
    IF at.s + 1 >= SubBucketCount THEN [b |-> at.b + 1, s |-> SubBucketHalfCount]
    ELSE [at EXCEPT !.s = @ + 1]

\* Where the iterator is after visit k, counted from 0.
VisitsFrom[k \in Indexes] ==
    IncrementBucket(IF k = 0 THEN [b |-> 0, s |-> -1] ELSE VisitsFrom[k - 1])
Visit == [k \in Indexes |-> VisitsFrom[k]]

CountAt(h, k) == h.counts[CountsIndex(Visit[k].b, Visit[k].s)]
ValueAt(k)    == ValueFromIndex(Visit[k].b, Visit[k].s)

\* Visits of counters that are zero change nothing: count_to_index after visit k, and
\* the visits, before the counts add up, of counters that are not zero.
NonZero(h)    == {k \in Indexes : CountAt(h, k) # 0}
CountTo(h, k) == MapThenSumSet(LAMBDA i : CountAt(h, i), {i \in NonZero(h) : i <= k})
Counted(h)    == {k \in NonZero(h) : CountTo(h, k) - CountAt(h, k) < h.total_count}

-----------------------------------------------------------------------------------
(* What is asked of a histogram.                                                    *)

\* hdr_add: every visited count is recorded under the value of its index.
Add(h, from) ==
    LET counted == Counted(from)
        moved(i) == MapThenSumSet(LAMBDA k : CountAt(from, k),
                                  {k \in counted : CountsIndexFor(ValueAt(k)) = i}) IN
    [counts      |-> [i \in Indexes |-> h.counts[i] + moved(i)],
     total_count |-> h.total_count + MapThenSumSet(LAMBDA k : CountAt(from, k), counted)]

HdrMax(h) ==
    LowestEquivalentValue(IF Counted(h) = {} THEN 0
                          ELSE HighestEquivalentValue(ValueAt(Max(Counted(h)))))

HdrMin(h) == IF Counted(h) = {} THEN 0 ELSE ValueAt(Min(Counted(h)))

\* (int64_t)(percentile / 100 * total_count + 0.5), but not below 1.  Mutant: 0.5 is
\* not added.
CountAtPercentileDown(h, p) == Max({1, (p * h.total_count) \div 100})
CountAtPercentile(h, p) ==
    LET rounded == (2 * p * h.total_count + 100) \div 200 IN
    IF rounded > 1 THEN rounded ELSE 1

ValueAtPercentile(h, p) ==
    LET reached == {k \in Counted(h) : CountTo(h, k) >= CountAtPercentile(h, p)} IN
    IF reached = {} THEN 0 ELSE HighestEquivalentValue(ValueAt(Min(reached)))

\* hdr_mean is this sum over total_count: 0 / 0, not a number, if nothing is recorded.
MeanTotal(h) ==
    MapThenSumSet(LAMBDA k : CountAt(h, k) * MedianEquivalentValue(ValueAt(k)), Counted(h))

-----------------------------------------------------------------------------------
(* What the counters have to be for.                                                *)

\* r agrees with v to SignificantFigures digits.
Agrees(r, v) == 10^SignificantFigures * (IF r > v THEN r - v ELSE v - r) <= v

\* The ranges of the counters partition the values, in order, the iterator visits them in
\* order, and a range is no wider than the precision that was asked for.
RangesPartition ==
    /\ \A v \in Values :
          /\ Trackable(v) /\ CountsIndexFor(v) \in Indexes
          /\ LowestEquivalentValue(v) <= v /\ v <= HighestEquivalentValue(v)
          /\ CountsIndexFor(LowestEquivalentValue(v)) = CountsIndexFor(v)
          /\ CountsIndexFor(HighestEquivalentValue(v)) = CountsIndexFor(v)
          /\ UnitMagnitude = 0 => /\ Agrees(HighestEquivalentValue(v), v)
                                  /\ Agrees(LowestEquivalentValue(v), v)
          /\ v > 0 => CountsIndexFor(v - 1) <= CountsIndexFor(v)
    /\ \A k \in Indexes : CountsIndex(Visit[k].b, Visit[k].s) = k
    /\ HighestTrackable \in Values
===================================================================================
