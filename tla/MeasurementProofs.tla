---------------------------- MODULE MeasurementProofs ----------------------------
(***********************************************************************************)
(* Proofs about the histogram, for every range of values and every precision that  *)
(* fits an int64_t: the ranges of the counters partition the values, in order, the *)
(* iterator passes all counters in that order, and what hdr_add makes of two       *)
(* histograms whose counters add up is the histogram of both.                      *)
(*                                                                                  *)
(* Then, for every number of threads, every set of latencies and rates and every   *)
(* order of the threads' steps, that the shared histogram of rates loses no        *)
(* sample, that every histogram adds up, that main's total is that of all          *)
(* latencies that were recorded after the calibration, and that the percentiles it *)
(* prints are theirs, to the significant figures asked for.                        *)
(***********************************************************************************)
EXTENDS Measurement, SumProofs

-----------------------------------------------------------------------------------
(* Powers of two.  A set of n elements has 2^n subsets.                              *)

LEMMA SubsetsOfInterval ==
    ASSUME NEW n \in Nat
    PROVE  /\ IsFiniteSet(SUBSET (1 .. n)) /\ Cardinality(SUBSET (1 .. n)) = 2^n
           /\ 2^n \in Nat
<1>1. IsFiniteSet(1 .. n) /\ Cardinality(1 .. n) = n
  BY FS_Interval
<1> QED BY <1>1, FS_SUBSET, FS_CardinalityType

LEMMA TwiceThePower ==
    ASSUME NEW n \in Nat
    PROVE  2^n \in Nat /\ 2^n >= 1 /\ 2^(n + 1) = 2 * 2^n
<1> DEFINE A == SUBSET (1 .. n)
           B == {s \cup {n + 1} : s \in A}
           f == [s \in A |-> s \cup {n + 1}]
<1>1. /\ IsFiniteSet(A) /\ Cardinality(A) = 2^n /\ 2^n \in Nat
      /\ Cardinality(SUBSET (1 .. (n + 1))) = 2^(n + 1)
  BY SubsetsOfInterval
<1>2. SUBSET (1 .. (n + 1)) = A \cup B
  <2>1. ASSUME NEW s \in SUBSET (1 .. (n + 1)), s \notin A PROVE s \in B
    <3>1. n + 1 \in s
      BY <2>1
    <3>2. s \ {n + 1} \in A
      OBVIOUS
    <3>3. s = (s \ {n + 1}) \cup {n + 1}
      BY <3>1
    <3> HIDE DEF A
    <3> QED BY <3>2, <3>3
  <2>2. A \subseteq SUBSET (1 .. (n + 1)) /\ B \subseteq SUBSET (1 .. (n + 1))
    <3>1. 1 .. n \subseteq 1 .. (n + 1) /\ n + 1 \in 1 .. (n + 1)
      OBVIOUS
    <3> DEFINE N == 1 .. (n + 1)
    <3>2. A \subseteq SUBSET N
      <4> HIDE DEF N
      <4> QED BY <3>1 DEF N
    <3>3. B \subseteq SUBSET N
      <4>1. n + 1 \in N
        BY <3>1
      <4> HIDE DEF A, N
      <4>2. ASSUME NEW s \in A PROVE s \cup {n + 1} \subseteq N
        BY <3>2, <4>1
      <4> QED BY <4>2
    <3> QED BY <3>2, <3>3
  <2> HIDE DEF A, B
  <2> QED BY <2>1, <2>2
<1>3. A \cap B = {}
  <2>1. n + 1 \notin 1 .. n
    OBVIOUS
  <2> QED BY <2>1
<1>4. f \in Bijection(A, B)
  <2>1. n + 1 \notin 1 .. n
    OBVIOUS
  <2>2. \A s, r \in A : f[s] = f[r] => s = r
    BY <2>1
  <2>3. f \in [A -> B] /\ \A b \in B : \E s \in A : f[s] = b
    OBVIOUS
  <2> HIDE DEF A, B, f
  <2> QED BY <2>2, <2>3 DEF Bijection, Injection, Surjection, IsInjective
<1> HIDE DEF A, B, f
<1>5. IsFiniteSet(B) /\ Cardinality(B) = Cardinality(A)
  BY <1>1, <1>4, FS_Bijection DEF ExistsBijection
<1>6. Cardinality(A \cap B) = 0
  BY <1>3, FS_EmptySet
<1>7. Cardinality(A \cup B) = Cardinality(A) + Cardinality(B) - Cardinality(A \cap B)
  BY <1>1, <1>5, FS_Union
<1>8. 2^(n + 1) = 2 * 2^n
  <2> DEFINE x == 2^n  y == 2^(n + 1)
  <2>1. x \in Nat /\ y = x + x - 0
    BY <1>1, <1>2, <1>5, <1>6, <1>7
  <2>2. y = 2 * x
    <3> HIDE DEF x, y
    <3> QED BY <2>1
  <2> QED BY <2>2
<1>9. 2^n # 0
  <2>1. {} \in A
    BY DEF A
  <2> QED BY <1>1, <2>1, FS_EmptySet
<1> QED BY <1>1, <1>8, <1>9

LEMMA PowerOfZero == 2^0 = 1
BY SMT

\* Induction, by the least counterexample.
LEMMA PowerOfSum ==
    ASSUME NEW a \in Nat, NEW b \in Nat
    PROVE  2^(a + b) = 2^a * 2^b
<1> DEFINE bad == {n \in 0 .. b : 2^(a + n) # 2^a * 2^n}
<1>1. SUFFICES ASSUME bad # {} PROVE FALSE
  <2>1. b \in 0 .. b
    OBVIOUS
  <2> QED BY <2>1
<1>2. bad \subseteq Int /\ IsFiniteSet(bad)
  <2>1. IsFiniteSet(0 .. b) /\ bad \subseteq 0 .. b
    BY FS_Interval
  <2> QED BY <2>1, FS_Subset
<1>3. PICK n \in bad : \A k \in bad : n <= k
  <2> HIDE DEF bad
  <2> QED BY <1>1, <1>2, MinOfFinite
<1>4. CASE n = 0
  <2>1. 2^a \in Nat /\ a + 0 = a
    BY TwiceThePower
  <2>2. 2^(a + n) = 2^a * 2^n
    BY <1>4, <2>1, PowerOfZero
  <2> QED BY <2>2
<1>5. CASE n # 0
  <2>1. n - 1 \in 0 .. b /\ n - 1 \notin bad
    BY <1>3, <1>5
  <2> DEFINE k == n - 1
  <2>2. k \in Nat /\ n = k + 1 /\ a + k \in Nat /\ a + n = (a + k) + 1
    BY <2>1
  <2>3. 2^(a + k) = 2^a * 2^k
    BY <2>1
  <2>4. 2^n = 2 * 2^k /\ 2^(a + n) = 2 * 2^(a + k) /\ 2^a \in Nat /\ 2^k \in Nat
    <3> HIDE DEF k
    <3> QED BY <2>2, TwiceThePower
  <2>5. 2^(a + n) = 2^a * 2^n
    <3> HIDE DEF k
    <3> DEFINE x == 2^a  y == 2^k
    <3>1. x \in Nat /\ y \in Nat /\ 2^(a + n) = 2 * (x * y) /\ 2^n = 2 * y
      BY <2>3, <2>4
    <3>2. 2 * (x * y) = x * (2 * y)
      <4> HIDE DEF x, y
      <4> QED BY <3>1
    <3> QED BY <3>1, <3>2
  <2> QED BY <2>5
<1> QED BY <1>4, <1>5

LEMMA PowersGrow ==
    ASSUME NEW a \in Nat, NEW b \in Nat, a <= b
    PROVE  2^a <= 2^b
<1>1. b - a \in Nat /\ b = a + (b - a)
  OBVIOUS
<1> DEFINE d == b - a
<1>2. 2^b = 2^a * 2^d
  <2> HIDE DEF d
  <2> QED BY <1>1, PowerOfSum DEF d
<1>3. 2^a \in Nat /\ 2^d \in Nat /\ 2^d >= 1
  <2> HIDE DEF d
  <2> QED BY <1>1, TwiceThePower DEF d
<1> DEFINE x == 2^a  y == 2^d
<1>4. x \in Nat /\ y \in Nat /\ y >= 1 /\ 2^b = x * y
  BY <1>2, <1>3
<1>5. x <= x * y
  <2> HIDE DEF x, y
  <2> QED BY <1>4
<1> QED BY <1>4, <1>5

-----------------------------------------------------------------------------------
(* Numbers of digits, quotients and remainders.                                      *)

LEMMA Quotient ==
    ASSUME NEW v \in Nat, NEW d \in Nat, d >= 1
    PROVE  /\ v \div d \in Nat /\ v % d \in 0 .. (d - 1)
           /\ v = d * (v \div d) + (v % d)
OBVIOUS

LEMMA QuotientBelow ==
    ASSUME NEW v \in Nat, NEW d \in Nat, d >= 1, NEW n \in Nat
    PROVE  (v \div d < n) <=> (v < n * d)
<1> DEFINE q == v \div d
           r == v % d
<1>1. q \in Nat /\ r \in 0 .. (d - 1) /\ v = d * q + r
  BY Quotient
<1> HIDE DEF q, r
<1>2. CASE q < n
  <2>1. n - q - 1 \in Nat /\ n = q + 1 + (n - q - 1)
    BY <1>1, <1>2
  <2> DEFINE e == n - q - 1
  <2>2. e \in Nat /\ n = q + 1 + e
    BY <2>1
  <2> HIDE DEF e
  <2>3. n * d = d * q + d + e * d /\ e * d \in Nat
    BY <1>1, <2>2
  <2>4. v < n * d
    BY <1>1, <2>3
  <2> QED BY <1>2, <2>4 DEF q
<1>3. CASE ~(q < n)
  <2> DEFINE e == q - n
  <2>1. e \in Nat /\ q = n + e
    BY <1>1, <1>3
  <2> HIDE DEF e
  <2>2. d * q = n * d + e * d /\ e * d \in Nat
    BY <1>1, <2>1
  <2>3. ~(v < n * d)
    BY <1>1, <2>2
  <2> QED BY <1>3, <2>3 DEF q
<1> QED BY <1>2, <1>3

LEMMA QuotientIs ==
    ASSUME NEW v \in Nat, NEW d \in Nat, d >= 1, NEW q \in Nat, q * d <= v, v < (q + 1) * d
    PROVE  v \div d = q
<1>1. v \div d \in Nat
  BY Quotient
<1>2. v \div d < q + 1
  BY QuotientBelow
<1>3. ~(v \div d < q)
  <2>1. ~(v < q * d)
    OBVIOUS
  <2> QED BY <2>1, QuotientBelow
<1> DEFINE r == v \div d
<1>4. r \in Nat /\ r < q + 1 /\ ~(r < q)
  BY <1>1, <1>2, <1>3
<1> HIDE DEF r
<1>5. r = q
  BY <1>4
<1> QED BY <1>5 DEF r

LEMMA BitLengthBounds ==
    ASSUME NEW v \in Nat, NEW n \in 0 .. 62, v < 2^n
    PROVE  /\ BitLength(v) \in 0 .. n /\ v < 2^BitLength(v)
           /\ BitLength(v) = 0 \/ v >= 2^(BitLength(v) - 1)
<1> DEFINE S == {k \in 0 .. n : v < 2^k}
<1>1. S \subseteq Int /\ IsFiniteSet(S) /\ S # {}
  <2>1. IsFiniteSet(0 .. n) /\ S \subseteq 0 .. n /\ n \in S
    BY FS_Interval
  <2>2. 0 .. n \subseteq Int
    OBVIOUS
  <2> HIDE DEF S
  <2>3. IsFiniteSet(S)
    BY <2>1, FS_Subset
  <2> QED BY ONLY <2>1, <2>2, <2>3
<1>2. PICK k \in S : \A j \in S : k <= j
  <2> HIDE DEF S
  <2> QED BY ONLY <1>1, MinOfFinite
<1>3. k = 0 \/ v >= 2^(k - 1)
  <2> SUFFICES ASSUME k # 0 PROVE v >= 2^(k - 1)
    OBVIOUS
  <2>1. k - 1 \in 0 .. n /\ k - 1 \in Nat
    OBVIOUS
  <2>2. k - 1 \notin S
    BY <1>2, <2>1
  <2>3. ~(v < 2^(k - 1))
    BY <2>1, <2>2
  <2>4. 2^(k - 1) \in Nat
    <3> DEFINE j == k - 1
    <3> HIDE DEF j
    <3> QED BY <2>1, TwiceThePower DEF j
  <2> QED BY <2>3, <2>4
<1>4. k \in 0 .. 62 /\ v < 2^k
  OBVIOUS
<1> DEFINE b == BitLength(v)
<1>5. b \in 0 .. 62 /\ v < 2^b /\ (b = 0 \/ v >= 2^(b - 1))
  BY <1>3, <1>4 DEF BitLength
<1> HIDE DEF b, S
<1>6. b <= n
  <2> SUFFICES ASSUME ~(b <= n) PROVE FALSE
    OBVIOUS
  <2> DEFINE j == b - 1
  <2>1. j \in Nat /\ n <= j /\ v >= 2^j
    BY <1>5
  <2> HIDE DEF j
  <2>2. 2^n <= 2^j /\ 2^n \in Nat /\ 2^j \in Nat
    BY <2>1, PowersGrow, TwiceThePower
  <2> DEFINE x == 2^n  y == 2^j
  <2>3. x <= y /\ x \in Nat /\ y \in Nat /\ v < x /\ v >= y
    BY <2>1, <2>2
  <2> HIDE DEF x, y
  <2> QED BY <2>3
<1> QED BY <1>5, <1>6 DEF b

LEMMA BitLengthIs ==
    ASSUME NEW v \in Nat, NEW n \in 1 .. 62, 2^(n - 1) <= v, v < 2^n
    PROVE  BitLength(v) = n
<1> DEFINE b == BitLength(v)
<1>1. b \in 0 .. n /\ v < 2^b
  <2>1. n \in 0 .. 62
    OBVIOUS
  <2> QED BY <2>1, BitLengthBounds
<1> HIDE DEF b
<1>2. b = n
  <2> SUFFICES ASSUME b # n PROVE FALSE
    OBVIOUS
  <2> DEFINE j == n - 1
  <2>1. j \in Nat /\ b \in Nat /\ b <= j /\ 2^j <= v
    BY <1>1
  <2> HIDE DEF j
  <2>2. 2^b <= 2^j /\ 2^b \in Nat /\ 2^j \in Nat
    BY <2>1, PowersGrow, TwiceThePower
  <2> DEFINE x == 2^b  y == 2^j
  <2>3. x <= y /\ x \in Nat /\ y \in Nat /\ v < x /\ y <= v
    BY <1>1, <2>1, <2>2
  <2> HIDE DEF x, y
  <2> QED BY <2>3
<1> QED BY <1>2 DEF b

-----------------------------------------------------------------------------------
(* The parameters of a histogram.                                                    *)

Magnitude == SubBucketHalfCountMagnitude

\* The parameters for which no shift of hdr_histogram.c leaves its integers: values and the
\* ends of the buckets have an int64_t, sub_bucket_mask and the width of a range (1 << n) an
\* int of IntBits.
FitsInts ==
    /\ LowestTrackable < 2^62 /\ HighestTrackable < 2^62
    /\ Magnitude + UnitMagnitude + BucketCount <= 62
    /\ Magnitude + UnitMagnitude + 1 < IntBits
    /\ UnitMagnitude + BucketCount < IntBits

\* What fits an int is not changed by being one.
LEMMA IntFits ==
    ASSUME NEW x \in Nat, x < 2^(IntBits - 1) PROVE AsInt(x) = x
<1> DEFINE m == IntBits - 1
           h == 2^m
           y == x + h
           w == 2^IntBits
<1>1. m \in Nat /\ m + 1 = IntBits
  BY HistogramAssumption
<1>2. h \in Nat /\ h >= 1 /\ w = 2 * h
  <2> HIDE DEF m
  <2>1. 2^(m + 1) = 2 * 2^m /\ 2^m \in Nat /\ 2^m >= 1
    BY <1>1, TwiceThePower
  <2> QED BY <1>1, <2>1
<1>3. AsInt(x) = (y % w) - h /\ x < h
  BY DEF AsInt
<1> HIDE DEF m, h, y, w
<1>4. y \in Nat /\ w \in Nat \ {0} /\ y < w /\ y = x + h
  BY <1>2, <1>3 DEF y
<1>5. \A a \in Nat, b \in Nat \ {0} : a < b => a % b = a
  <2> SUFFICES ASSUME NEW a \in Nat, NEW b \in Nat \ {0}, a < b PROVE a % b = a
    OBVIOUS
  <2> QED BY SMT
<1>6. y % w = y
  BY <1>4, <1>5
<1> QED BY <1>2, <1>3, <1>4, <1>6

\* A shift that fits is a product.
LEMMA ShiftFits ==
    ASSUME NEW x \in Nat, NEW n \in Nat, n < IntBits, x * 2^n < 2^(IntBits - 1)
    PROVE  ShiftLeft(x, n) = x * 2^n
<1>1. n % IntBits = n
  <2>1. \A b \in Nat \ {0} : n < b => n % b = n
    BY SMT
  <2> QED BY <2>1, HistogramAssumption
<1>2. x * 2^n \in Nat
  <2>1. 2^n \in Nat
    BY TwiceThePower
  <2> QED BY <2>1
<1> QED BY <1>1, <1>2, IntFits DEF ShiftLeft

Ten == 10^SignificantFigures

LEMMA TenIs == Ten \in Nat /\ Ten >= 10 /\ Ten <= 2^17
<1>1. 2^17 = 131072
  BY SMT
<1>2. ASSUME SignificantFigures = 1 PROVE Ten = 10
  <2>1. 10^1 = 10
    BY SMT
  <2> QED BY <1>2, <2>1, SMT DEF Ten
<1>3. ASSUME SignificantFigures = 2 PROVE Ten = 100
  <2>1. 10^2 = 100
    BY SMT
  <2> QED BY <1>3, <2>1, SMT DEF Ten
<1>4. ASSUME SignificantFigures = 3 PROVE Ten = 1000
  <2>1. 10^3 = 1000
    BY SMT
  <2> QED BY <1>4, <2>1, SMT DEF Ten
<1>5. ASSUME SignificantFigures = 4 PROVE Ten = 10000
  <2>1. 10^4 = 10000
    BY SMT
  <2> QED BY <1>5, <2>1, SMT DEF Ten
<1>6. ASSUME SignificantFigures = 5 PROVE Ten = 100000
  <2>1. 10^5 = 100000
    BY SMT
  <2> QED BY <1>6, <2>1, SMT DEF Ten
<1>7. \/ SignificantFigures = 1 \/ SignificantFigures = 2 \/ SignificantFigures = 3
      \/ SignificantFigures = 4 \/ SignificantFigures = 5
  BY HistogramAssumption, SMT
<1>8. Ten \in Nat /\ Ten >= 10 /\ Ten <= 131072
  BY <1>2, <1>3, <1>4, <1>5, <1>6, <1>7, SMT
<1> QED BY <1>1, <1>8, SMT

LEMMA MagnitudeOfSubBuckets ==
    /\ Magnitude \in Nat /\ Magnitude >= 1
    /\ SubBucketCount = 2 * SubBucketHalfCount /\ SubBucketHalfCount = 2^Magnitude
    /\ SubBucketHalfCount \in Nat /\ Ten <= SubBucketHalfCount
<1> DEFINE v == 2 * Ten - 1
           b == BitLength(v)
<1>1. Ten \in Nat /\ Ten >= 10 /\ Ten <= 2^17
  BY TenIs
<1>2. v \in Nat /\ v >= 19 /\ v = 2 * Ten - 1
  BY <1>1
<1> HIDE DEF v
<1>3. v < 2^18
  <2> DEFINE x == 2^17
  <2>1. x \in Nat /\ 2^18 = 2 * x
    <3>1. 17 \in Nat /\ 17 + 1 = 18
      OBVIOUS
    <3> QED BY <3>1, TwiceThePower
  <2>2. Ten <= x
    BY <1>1
  <2> HIDE DEF x
  <2>3. v < 2 * x
    BY <1>1, <1>2, <2>1, <2>2
  <2> QED BY <2>1, <2>3
<1>4. b \in 0 .. 18 /\ v < 2^b
  <2>1. 18 \in 0 .. 62
    OBVIOUS
  <2> QED BY <1>2, <1>3, <2>1, BitLengthBounds
<1>5. SubBucketCountMagnitude = b
  BY DEF SubBucketCountMagnitude, LargestSingleUnit, b, v, Ten
<1> HIDE DEF b
<1>6. b >= 2
  <2> SUFFICES ASSUME ~(b >= 2) PROVE FALSE
    OBVIOUS
  <2>1. 2^0 = 1 /\ 2^1 = 2
    BY SMT
  <2>2. CASE b = 0
    <3>1. v < 1
      BY <1>4, <2>1, <2>2
    <3> QED BY <1>2, <3>1
  <2>3. CASE b = 1
    <3>1. v < 2
      BY <1>4, <2>1, <2>3
    <3> QED BY <1>2, <3>1
  <2> QED BY <1>4, <2>2, <2>3
<1>7. Magnitude = b - 1
  BY <1>4, <1>5, <1>6 DEF Magnitude, SubBucketHalfCountMagnitude
<1>8. Magnitude \in Nat /\ Magnitude >= 1 /\ b = Magnitude + 1
  BY <1>4, <1>6, <1>7
<1> DEFINE x == 2^Magnitude
<1>9. x \in Nat /\ SubBucketCount = 2 * x
  <2>1. 2^(Magnitude + 1) = 2 * 2^Magnitude /\ 2^Magnitude \in Nat
    BY <1>8, TwiceThePower
  <2> QED BY <2>1 DEF SubBucketCount, Magnitude
<1> HIDE DEF x
<1>10. SubBucketHalfCount = x
  BY <1>9 DEF SubBucketHalfCount
<1>11. Ten <= x
  <2>1. v < 2 * x
    <3>1. 2^b = SubBucketCount
      BY <1>8 DEF SubBucketCount, Magnitude
    <3> QED BY <1>4, <1>9, <3>1
  <2>2. 2 * Ten - 1 < 2 * x
    BY <1>2, <2>1
  <2> QED BY <1>1, <1>9, <2>2
<1> QED BY <1>8, <1>9, <1>10, <1>11 DEF x

LEMMA Parameters ==
    ASSUME FitsInts
    PROVE  /\ UnitMagnitude \in Nat /\ BucketCount \in 1 .. 62
           /\ HighestTrackable <= SubBucketMask * 2^(BucketCount - 1)
           /\ SubBucketMask = (SubBucketCount - 1) * 2^UnitMagnitude
           /\ SubBucketMask \in Nat
           /\ CountsLen \in Nat /\ CountsLen = (BucketCount + 1) * SubBucketHalfCount
<1>1. UnitMagnitude \in Nat
  <2>1. LowestTrackable \in Nat /\ LowestTrackable # 0 /\ 62 \in 0 .. 62
    BY HistogramAssumption
  <2> DEFINE b == BitLength(LowestTrackable)
  <2>2. b \in 0 .. 62 /\ LowestTrackable < 2^b
    BY <2>1, BitLengthBounds DEF FitsInts
  <2> HIDE DEF b
  <2>3. b # 0
    <3> SUFFICES ASSUME b = 0 PROVE FALSE
      OBVIOUS
    <3>1. LowestTrackable < 1
      BY <2>2, PowerOfZero
    <3> QED BY <2>1, <3>1
  <2> QED BY <2>2, <2>3 DEF UnitMagnitude, b
<1> DEFINE half == SubBucketHalfCount
           w == 2^UnitMagnitude
<1>2. half \in Nat /\ half >= 2 /\ SubBucketCount = 2 * half
  <2>1. half \in Nat /\ SubBucketCount = 2 * half /\ Ten <= half
    BY MagnitudeOfSubBuckets
  <2> HIDE DEF half
  <2> QED BY <2>1, TenIs
<1>3. w \in Nat /\ w >= 1
  BY <1>1, TwiceThePower
<1>4. SubBucketMask = (2 * half - 1) * w
  <2> DEFINE x == SubBucketCount - 1
             n == UnitMagnitude
  <2>1. x \in Nat /\ x = 2 * half - 1
    <3> HIDE DEF half
    <3> QED BY <1>2
  <2>2. n \in Nat /\ n < IntBits
    BY <1>1, MagnitudeOfSubBuckets, HistogramAssumption DEF FitsInts
  <2>3. x * 2^n < 2^(IntBits - 1)
    <3> DEFINE k == Magnitude + 1 + UnitMagnitude
               p == 2^k
               q == 2^(IntBits - 1)
    <3>1. Magnitude \in Nat /\ half = 2^Magnitude
      BY MagnitudeOfSubBuckets
    <3>2. k \in Nat /\ k <= IntBits - 1 /\ IntBits - 1 \in Nat
      BY <1>1, <3>1, HistogramAssumption DEF FitsInts
    <3>3. p <= q /\ p \in Nat /\ q \in Nat
      <4> DEFINE j == IntBits - 1
      <4> HIDE DEF k, j
      <4>1. 2^k <= 2^j /\ 2^k \in Nat /\ 2^j \in Nat
        BY <3>2, PowersGrow, TwiceThePower DEF j
      <4> QED BY <4>1 DEF j
    <3>4. p = (2 * half) * w
      <4>1. k = (Magnitude + 1) + UnitMagnitude /\ Magnitude + 1 \in Nat
        BY <3>1
      <4>2. 2^k = 2^(Magnitude + 1) * 2^UnitMagnitude
        BY <1>1, <4>1, PowerOfSum
      <4>3. 2^(Magnitude + 1) = 2 * 2^Magnitude
        BY <3>1, TwiceThePower
      <4> QED BY <3>1, <4>2, <4>3
    <3> HIDE DEF p, q, half, w, k
    <3>5. (2 * half - 1) * w < (2 * half) * w
      BY <1>2, <1>3
    <3>6. (2 * half - 1) * w < q
      <4> DEFINE a == (2 * half - 1) * w
      <4>1. a \in Int
        BY <1>2, <1>3
      <4>2. a < p
        BY <3>4, <3>5
      <4> HIDE DEF a
      <4>3. a < q
        BY <3>3, <4>1, <4>2
      <4> QED BY <4>3 DEF a
    <3> QED BY <2>1, <3>6 DEF q, w
  <2> HIDE DEF x, n
  <2>4. ShiftLeft(x, n) = x * 2^n
    BY <2>1, <2>2, <2>3, ShiftFits
  <2> QED BY <2>1, <2>4 DEF SubBucketMask, x, n
<1> HIDE DEF half, w
<1>5. SubBucketMask \in Nat /\ SubBucketMask >= 2
  <2> DEFINE k == 2 * half - 1
  <2>1. k \in Nat /\ k >= 2
    BY <1>2
  <2> HIDE DEF k
  <2>2. k * w \in Nat /\ k * w >= k
    BY <1>3, <2>1
  <2> QED BY <1>4, <2>1, <2>2 DEF k
<1> DEFINE mask == SubBucketMask
           S == {n \in 1 .. 62 : mask * 2^(n - 1) >= HighestTrackable}
<1> HIDE DEF mask
<1>6. 62 \in S
  <2> DEFINE y == 2^61
  <2>1. y \in Nat /\ 2^62 = 2 * y
    <3>1. PICK n : n = 61
      OBVIOUS
    <3>2. n \in Nat /\ n + 1 = 62
      BY <3>1
    <3>3. 2^n \in Nat /\ 2^(n + 1) = 2 * 2^n
      BY <3>2, TwiceThePower
    <3> QED BY <3>1, <3>2, <3>3
  <2>2. HighestTrackable < 2 * y
    BY <2>1 DEF FitsInts
  <2>3. 62 \in 1 .. 62 /\ 2^(62 - 1) = y
    OBVIOUS
  <2> HIDE DEF y
  <2>4. mask * y >= 2 * y /\ mask * y \in Nat
    BY <1>5, <2>1 DEF mask
  <2>5. mask * y >= HighestTrackable
    BY <2>1, <2>2, <2>4, HistogramAssumption
  <2> QED BY <2>3, <2>5
<1>7. S \subseteq Int /\ IsFiniteSet(S)
  <2>1. IsFiniteSet(1 .. 62)
    <3>1. \A a, b \in Int : IsFiniteSet(a .. b)
      BY FS_Interval
    <3>2. 1 \in Int /\ 62 \in Int
      OBVIOUS
    <3> QED BY ONLY <3>1, <3>2, Zenon
  <2>4. S \subseteq 1 .. 62
    BY Zenon
  <2>2. 1 .. 62 \subseteq Int
    OBVIOUS
  <2> HIDE DEF S
  <2>3. IsFiniteSet(S)
    BY <2>1, <2>4, FS_Subset
  <2> QED BY ONLY <2>2, <2>3, <2>4
<1>8. PICK n \in S : \A k \in S : n <= k
  <2> HIDE DEF S
  <2>1. S # {}
    BY <1>6
  <2> QED BY ONLY <1>7, <2>1, MinOfFinite
<1>9. n = 1 \/ mask * 2^(n - 2) < HighestTrackable
  <2> SUFFICES ASSUME n # 1 PROVE mask * 2^(n - 2) < HighestTrackable
    OBVIOUS
  <2> DEFINE k == n - 1
  <2>1. k \in 1 .. 62 /\ k \notin S /\ n - 2 = k - 1
    BY <1>8
  <2>2. k - 1 \in Nat
    BY <2>1
  <2>3. ~(mask * 2^(k - 1) >= HighestTrackable)
    BY <2>1
  <2> HIDE DEF k
  <2> DEFINE y == 2^(k - 1)
  <2>4. y \in Nat
    <3> DEFINE j == k - 1
    <3> HIDE DEF j
    <3> QED BY <2>2, TwiceThePower DEF j
  <2> HIDE DEF y
  <2>5. mask * y < HighestTrackable
    <3>1. mask * y \in Nat
      BY <1>5, <2>4 DEF mask
    <3>2. ~(mask * y >= HighestTrackable)
      BY <2>3 DEF y
    <3> QED BY <3>1, <3>2, HistogramAssumption
  <2> QED BY <2>1, <2>5 DEF y
<1>10. /\ BucketCount \in 1 .. 62
       /\ mask * 2^(BucketCount - 1) >= HighestTrackable
  <2>1. \E c \in 1 .. 62 : /\ mask * 2^(c - 1) >= HighestTrackable
                           /\ c = 1 \/ mask * 2^(c - 2) < HighestTrackable
    BY <1>8, <1>9
  <2> QED BY <2>1 DEF BucketCount, mask
<1>11. HighestTrackable <= SubBucketMask * 2^(BucketCount - 1)
  <2> DEFINE j == BucketCount - 1
  <2>1. j \in Nat
    BY <1>10
  <2> HIDE DEF j
  <2> DEFINE y == 2^j
  <2>2. y \in Nat
    BY <2>1, TwiceThePower
  <2>3. mask * y >= HighestTrackable
    BY <1>10 DEF j
  <2> HIDE DEF y
  <2>4. HighestTrackable <= mask * y
    BY <2>2, <2>3, <1>5, HistogramAssumption DEF mask
  <2> QED BY <2>4 DEF y, j, mask
<1>12. CountsLen = (BucketCount + 1) * half
  BY DEF CountsLen, half
<1>13. CountsLen \in Nat
  <2> DEFINE c == BucketCount + 1
  <2>1. c \in Nat
    BY <1>10
  <2> HIDE DEF c
  <2>2. c * half \in Nat
    BY <1>2, <2>1
  <2> QED BY <1>12, <2>2 DEF c
<1>14. SubBucketMask = (SubBucketCount - 1) * 2^UnitMagnitude
  BY <1>2, <1>4 DEF w
<1> QED BY <1>1, <1>5, <1>10, <1>11, <1>12, <1>13, <1>14 DEF half

-----------------------------------------------------------------------------------
(* Buckets.                                                                          *)

Half     == SubBucketHalfCount
Width(b) == 2^(b + UnitMagnitude)                   \* of a sub-bucket of bucket b
Top(b)   == 2^(Magnitude + 1 + b + UnitMagnitude)   \* the end of bucket b

LEMMA Tops ==
    ASSUME FitsInts, NEW b \in Nat
    PROVE  /\ Width(b) \in Nat /\ Width(b) >= 1
           /\ Top(b) \in Nat /\ Top(b) = (2 * Half) * Width(b)
           /\ b > 0 => Top(b - 1) = Half * Width(b)
<1>1. Magnitude \in Nat /\ UnitMagnitude \in Nat /\ Half = 2^Magnitude
  BY MagnitudeOfSubBuckets, Parameters DEF Half
<1> DEFINE e == b + UnitMagnitude
           x == 2^Magnitude
           y == 2^e
<1>2. e \in Nat
  BY <1>1
<1>3. Width(b) = y
  BY DEF Width
<1> HIDE DEF e
<1>4. x \in Nat /\ y \in Nat /\ y >= 1 /\ 2^(Magnitude + e) = x * y
  BY <1>1, <1>2, TwiceThePower, PowerOfSum
<1>5. 2^((Magnitude + e) + 1) = 2 * 2^(Magnitude + e)
  <2>1. Magnitude + e \in Nat
    BY <1>1, <1>2
  <2> QED BY <2>1, TwiceThePower
<1>6. Top(b) = 2^((Magnitude + e) + 1)
  <2>1. Magnitude + 1 + b + UnitMagnitude = (Magnitude + e) + 1
    BY <1>1 DEF e
  <2> QED BY <2>1 DEF Top
<1>7. b > 0 => Top(b - 1) = 2^(Magnitude + e)
  <2> SUFFICES ASSUME b > 0 PROVE Top(b - 1) = 2^(Magnitude + e)
    OBVIOUS
  <2>1. Magnitude + 1 + (b - 1) + UnitMagnitude = Magnitude + e
    BY <1>1 DEF e
  <2> QED BY <2>1 DEF Top
<1>8. Top(b) = 2 * (x * y)
  BY <1>4, <1>5, <1>6
<1>9. b > 0 => Top(b - 1) = x * y
  BY <1>4, <1>7
<1>10. Half = x
  BY <1>1
<1> HIDE DEF x, y
<1>11. 2 * (x * y) = (2 * x) * y /\ 2 * (x * y) \in Nat
  BY <1>4
<1> QED BY <1>3, <1>4, <1>8, <1>9, <1>10, <1>11

LEMMA ValuesEnd ==
    ASSUME FitsInts PROVE Values = 0 .. (Top(BucketCount - 1) - 1)
<1>1. BucketCount \in 1 .. 62 /\ UnitMagnitude \in Nat
  BY Parameters
<1> DEFINE b == BucketCount - 1
<1>2. b \in Nat
  BY <1>1
<1>3. SubBucketCount = 2 * Half
  BY MagnitudeOfSubBuckets DEF Half
<1> HIDE DEF b
<1>4. Top(b) = SubBucketCount * Width(b)
  BY <1>2, <1>3, Tops
<1> QED BY <1>4 DEF Values, Width, b

LEMMA TopsGrow ==
    ASSUME FitsInts, NEW b \in Nat, NEW c \in Nat, b <= c
    PROVE  Top(b) <= Top(c)
<1>1. Magnitude \in Nat /\ UnitMagnitude \in Nat
  BY MagnitudeOfSubBuckets, Parameters
<1> DEFINE i == Magnitude + 1 + b + UnitMagnitude
           j == Magnitude + 1 + c + UnitMagnitude
<1>2. i \in Nat /\ j \in Nat /\ i <= j
  BY <1>1
<1> HIDE DEF i, j
<1>3. 2^i <= 2^j
  BY <1>2, PowersGrow
<1> QED BY <1>3 DEF Top, i, j

\* The mask ends in the upper half of bucket 0.
LEMMA MaskLength ==
    ASSUME FitsInts
    PROVE  /\ BitLength(SubBucketMask) = Magnitude + 1 + UnitMagnitude
           /\ SubBucketMask < Top(0) /\ SubBucketMask \in Nat
           /\ 2^(Magnitude + UnitMagnitude) <= SubBucketMask
           /\ Magnitude + UnitMagnitude \in Nat
<1>1. /\ Magnitude \in Nat /\ UnitMagnitude \in Nat /\ SubBucketMask \in Nat
      /\ SubBucketMask = (SubBucketCount - 1) * 2^UnitMagnitude
      /\ SubBucketCount = 2 * Half /\ Half = 2^Magnitude /\ Half \in Nat
  BY MagnitudeOfSubBuckets, Parameters DEF Half
<1> DEFINE w == 2^UnitMagnitude
<1>2. w \in Nat /\ w >= 1 /\ Width(0) = w
  <2>1. 0 + UnitMagnitude = UnitMagnitude
    BY <1>1
  <2> QED BY <1>1, <2>1, TwiceThePower DEF Width
<1>3. Half >= 1
  BY <1>1, TwiceThePower
<1>4. Top(0) = (2 * Half) * w
  BY <1>2, Tops
<1>5. 2^(Magnitude + UnitMagnitude) = Half * w
  BY <1>1, PowerOfSum
<1>6. SubBucketMask = (2 * Half - 1) * w
  BY <1>1
<1> HIDE DEF w
<1>7. /\ (2 * Half - 1) * w = (2 * Half) * w - w
      /\ (2 * Half - 1) * w = Half * w + (Half - 1) * w /\ (Half - 1) * w \in Nat
      /\ Half * w \in Nat
  <2> DEFINE k == Half - 1
  <2>1. k \in Nat /\ Half = k + 1
    BY <1>1, <1>3
  <2> HIDE DEF k
  <2>2. k * w \in Nat
    BY <1>2, <2>1
  <2>3. /\ (2 * (k + 1) - 1) * w = (2 * (k + 1)) * w - w
        /\ (2 * (k + 1) - 1) * w = (k + 1) * w + k * w
        /\ (k + 1) * w \in Nat
    BY <1>2, <2>1
  <2> QED BY <2>1, <2>2, <2>3
<1>8. SubBucketMask < Top(0) /\ 2^(Magnitude + UnitMagnitude) <= SubBucketMask
  BY <1>1, <1>2, <1>4, <1>5, <1>6, <1>7
<1> DEFINE n == Magnitude + 1 + UnitMagnitude
<1>9. n \in 1 .. 62 /\ n - 1 = Magnitude + UnitMagnitude
  <2>1. Magnitude + UnitMagnitude + BucketCount <= 62 /\ BucketCount \in 1 .. 62
    BY Parameters DEF FitsInts
  <2> QED BY <1>1, <2>1
<1>10. Top(0) = 2^n
  <2>1. Magnitude + 1 + 0 + UnitMagnitude = n
    BY <1>1
  <2> QED BY <2>1 DEF Top
<1> HIDE DEF n
<1>11. BitLength(SubBucketMask) = n
  BY <1>1, <1>8, <1>9, <1>10, BitLengthIs
<1> QED BY <1>1, <1>8, <1>11 DEF n

\* The bucket of a value, by where the buckets end.
LEMMA BucketByRange ==
    ASSUME FitsInts, NEW v \in Nat, NEW b \in 0 .. (BucketCount - 1), v < Top(b),
           b > 0 => v >= Top(b - 1)
    PROVE  BucketIndex(v) = b
<1>1. /\ Magnitude \in Nat /\ UnitMagnitude \in Nat /\ BucketCount \in 1 .. 62
      /\ Magnitude + UnitMagnitude + BucketCount <= 62
  BY MagnitudeOfSubBuckets, Parameters DEF FitsInts
<1>2. BitLength(SubBucketMask) = Magnitude + 1 + UnitMagnitude /\ SubBucketMask \in Nat
  BY MaskLength
<1> DEFINE n == Magnitude + 1 + b + UnitMagnitude
<1>3. n \in 1 .. 62 /\ v < 2^n
  BY <1>1 DEF Top
<1>4. CASE v <= SubBucketMask
  <2>1. b = 0
    <3> SUFFICES ASSUME b # 0 PROVE FALSE
      OBVIOUS
    <3>1. v >= Top(b - 1) /\ b - 1 \in Nat /\ 0 <= b - 1
      BY <1>1
    <3>2. Top(0) <= Top(b - 1) /\ Top(0) \in Nat /\ Top(b - 1) \in Nat
      <4> DEFINE c == b - 1
      <4> HIDE DEF c
      <4>1. Top(0) <= Top(c) /\ Top(0) \in Nat /\ Top(c) \in Nat
        BY <3>1, TopsGrow, Tops DEF c
      <4> QED BY <4>1 DEF c
    <3>3. SubBucketMask < Top(0)
      BY MaskLength
    <3> QED BY <1>2, <1>4, <3>1, <3>2, <3>3
  <2>2. ~(v > SubBucketMask)
    BY <1>2, <1>4
  <2>3. BucketIndex(v) = (Magnitude + 1 + UnitMagnitude) - UnitMagnitude - (Magnitude + 1)
    BY <1>2, <2>2 DEF BucketIndex, Magnitude
  <2> QED BY <1>1, <2>1, <2>3
<1>5. CASE v > SubBucketMask
  <2>1. 2^(n - 1) <= v
    <3>1. CASE b = 0
      <4>1. n - 1 = Magnitude + UnitMagnitude
        BY <1>1, <3>1
      <4> DEFINE x == 2^(Magnitude + UnitMagnitude)
      <4>2. x <= SubBucketMask /\ x \in Nat
        BY MaskLength, TwiceThePower
      <4> HIDE DEF x
      <4>3. x <= v
        BY <1>2, <1>5, <4>2
      <4> QED BY <4>1, <4>3 DEF x
    <3>2. CASE b # 0
      <4>1. n - 1 = Magnitude + 1 + (b - 1) + UnitMagnitude
        BY <1>1, <3>2
      <4>2. v >= Top(b - 1)
        BY <3>2
      <4>3. Top(b - 1) \in Nat
        <5>1. b - 1 \in Nat
          BY <3>2
        <5> QED BY <5>1, Tops
      <4> DEFINE x == Top(b - 1)
      <4>4. 2^(n - 1) = x
        BY <4>1 DEF Top
      <4> HIDE DEF x
      <4>5. x <= v
        BY <4>2, <4>3 DEF x
      <4> QED BY <4>4, <4>5
    <3> QED BY <3>1, <3>2
  <2> HIDE DEF n
  <2>2. BitLength(v) = n
    BY <1>3, <2>1, BitLengthIs
  <2>3. BucketIndex(v) = n - UnitMagnitude - (Magnitude + 1)
    BY <1>5, <2>2 DEF BucketIndex, Magnitude
  <2> QED BY <1>1, <2>3 DEF n
<1> QED BY <1>2, <1>4, <1>5

\* Sub-bucket s of bucket b is one that values are counted in.
IsPlace(b, s) ==
    /\ b \in 0 .. (BucketCount - 1) /\ s \in 0 .. (2 * Half - 1)
    /\ b > 0 => s >= Half

Sub(v) == SubBucketIndex(v, BucketIndex(v))

LEMMA Parameter ==
    ASSUME FitsInts
    PROVE  /\ BucketCount \in 1 .. 62 /\ UnitMagnitude \in Nat
           /\ Half \in Nat /\ Half >= 1 /\ SubBucketCount = 2 * Half
           /\ Ten \in Nat /\ Ten <= Half
           /\ CountsLen \in Nat /\ CountsLen = (BucketCount + 1) * Half
           /\ Indexes = 0 .. (CountsLen - 1)
<1>1. Half = 2^Magnitude /\ Magnitude \in Nat
  BY MagnitudeOfSubBuckets DEF Half
<1>2. Half >= 1
  BY <1>1, TwiceThePower
<1> QED BY <1>2, MagnitudeOfSubBuckets, Parameters, TenIs DEF Half, Indexes

LEMMA ValuesAreNat == Values \subseteq Nat
BY DEF Values

\* The place of a value.
LEMMA PlaceOfValue ==
    ASSUME FitsInts, NEW v \in Values
    PROVE  /\ IsPlace(BucketIndex(v), Sub(v))
           /\ Sub(v) * Width(BucketIndex(v)) <= v
           /\ v < (Sub(v) + 1) * Width(BucketIndex(v))
           /\ v < Top(BucketIndex(v))
           /\ BucketIndex(v) > 0 => v >= Top(BucketIndex(v) - 1)
<1>1. /\ BucketCount \in 1 .. 62 /\ Half \in Nat /\ Half >= 1
      /\ v \in Nat /\ v \in 0 .. (Top(BucketCount - 1) - 1)
  BY Parameter, ValuesAreNat, ValuesEnd
<1> DEFINE last == BucketCount - 1
           S == {b \in 0 .. last : v < Top(b)}
<1>2. last \in Nat
  BY <1>1
<1>3. last \in S
  <2> HIDE DEF last
  <2>1. Top(last) \in Nat
    BY <1>2, Tops
  <2>2. v < Top(last)
    BY <1>1, <2>1 DEF last
  <2> QED BY <1>2, <2>2
<1>4. S \subseteq Int /\ IsFiniteSet(S) /\ S # {}
  <2> HIDE DEF last
  <2>1. IsFiniteSet(0 .. last) /\ S \subseteq 0 .. last
    BY <1>2, FS_Interval
  <2>2. IsFiniteSet(S)
    BY <2>1, FS_Subset
  <2>3. S \subseteq Int
    BY <2>1
  <2> QED BY <1>3, <2>2, <2>3
<1>5. PICK b \in S : \A c \in S : b <= c
  <2> HIDE DEF S
  <2> QED BY ONLY <1>4, MinOfFinite
<1>6. b \in 0 .. (BucketCount - 1) /\ v < Top(b) /\ b \in Nat
  OBVIOUS
<1>7. b > 0 => v >= Top(b - 1)
  <2> SUFFICES ASSUME b > 0 PROVE v >= Top(b - 1)
    OBVIOUS
  <2> DEFINE c == b - 1
  <2>1. c \in 0 .. last /\ c \notin S /\ c \in Nat
    BY <1>1, <1>5, <1>6
  <2> HIDE DEF c
  <2>2. ~(v < Top(c)) /\ Top(c) \in Nat
    BY <2>1, Tops
  <2>3. v >= Top(c)
    BY <1>1, <2>2
  <2> QED BY <2>3 DEF c
<1> HIDE DEF S, last
<1>8. BucketIndex(v) = b
  BY <1>1, <1>6, <1>7, BucketByRange
<1> DEFINE w == Width(b)
           s == v \div w
<1>9. Sub(v) = s
  BY <1>8 DEF Sub, SubBucketIndex, Width
<1>10. /\ w \in Nat /\ w >= 1 /\ Top(b) = (2 * Half) * w
       /\ b > 0 => Top(b - 1) = Half * w
  BY <1>6, Tops
<1> HIDE DEF w
<1>11. s \in Nat
  BY <1>1, <1>10, Quotient
<1>12. s < 2 * Half
  <2>1. 2 * Half \in Nat /\ v < (2 * Half) * w
    BY <1>1, <1>6, <1>10
  <2> QED BY <1>1, <1>10, <2>1, QuotientBelow
<1>13. b > 0 => s >= Half
  <2> SUFFICES ASSUME b > 0 PROVE s >= Half
    OBVIOUS
  <2>1. v >= Half * w /\ Half * w \in Nat
    <3>1. Half * w \in Nat
      BY <1>1, <1>10
    <3> QED BY <3>1, <1>7, <1>10
  <2>2. ~(v < Half * w)
    BY <1>1, <2>1
  <2>3. ~(s < Half)
    BY <1>1, <1>10, <2>2, QuotientBelow
  <2> HIDE DEF s
  <2> QED BY <1>1, <1>11, <2>3
<1>14. s * w <= v /\ v < (s + 1) * w
  <2>1. ~(s < s) /\ s < s + 1 /\ s + 1 \in Nat
    <3> HIDE DEF s
    <3> QED BY <1>11
  <2>2. (s < s) <=> (v < s * w)
    BY <1>1, <1>10, <1>11, QuotientBelow
  <2>3. (s < s + 1) <=> (v < (s + 1) * w)
    BY <1>1, <1>10, <2>1, QuotientBelow
  <2> HIDE DEF s
  <2>4. s * w \in Nat
    BY <1>10, <1>11
  <2> QED BY <1>1, <2>1, <2>2, <2>3, <2>4
<1> HIDE DEF s
<1>15. IsPlace(b, s)
  BY <1>1, <1>6, <1>11, <1>12, <1>13 DEF IsPlace
<1> QED BY <1>6, <1>7, <1>8, <1>9, <1>14, <1>15 DEF w

\* ... and the other way round.
LEMMA ValueInPlace ==
    ASSUME FitsInts, NEW b, NEW s, IsPlace(b, s),
           NEW v \in Nat, s * Width(b) <= v, v < (s + 1) * Width(b)
    PROVE  BucketIndex(v) = b /\ Sub(v) = s /\ v \in Values
<1>1. /\ BucketCount \in 1 .. 62 /\ Half \in Nat /\ Half >= 1
      /\ b \in 0 .. (BucketCount - 1) /\ b \in Nat /\ s \in Nat /\ s < 2 * Half
      /\ b > 0 => s >= Half
  BY Parameter DEF IsPlace
<1> DEFINE w == Width(b)
<1>2. /\ w \in Nat /\ w >= 1 /\ Top(b) = (2 * Half) * w
      /\ b > 0 => Top(b - 1) = Half * w
  BY <1>1, Tops
<1>3. s * w <= v /\ v < (s + 1) * w
  OBVIOUS
<1> HIDE DEF w
<1>4. v \div w = s
  BY <1>1, <1>2, <1>3, QuotientIs
<1>5. v < Top(b)
  <2>1. 2 * Half \in Nat /\ v \div w < 2 * Half
    BY <1>1, <1>4
  <2> QED BY <1>2, <2>1, QuotientBelow
<1>6. b > 0 => v >= Top(b - 1)
  <2> SUFFICES ASSUME b > 0 PROVE v >= Top(b - 1)
    OBVIOUS
  <2>1. ~(v \div w < Half) 
    BY <1>1, <1>4
  <2>2. ~(v < Half * w)
    BY <1>1, <1>2, <2>1, QuotientBelow
  <2>3. Half * w \in Nat
    BY <1>1, <1>2
  <2> QED BY <1>2, <2>2, <2>3
<1>7. BucketIndex(v) = b
  BY <1>1, <1>5, <1>6, BucketByRange
<1>8. Sub(v) = s
  BY <1>4, <1>7 DEF Sub, SubBucketIndex, Width, w
<1>9. v \in Values
  <2> DEFINE last == BucketCount - 1
  <2>1. last \in Nat /\ b <= last
    BY <1>1
  <2> HIDE DEF last
  <2>2. Top(b) <= Top(last) /\ Top(b) \in Nat /\ Top(last) \in Nat
    BY <1>1, <2>1, TopsGrow, Tops
  <2>3. v \in 0 .. (Top(last) - 1)
    BY <1>5, <2>2
  <2> QED BY <2>3, ValuesEnd DEF last
<1> QED BY <1>7, <1>8, <1>9

-----------------------------------------------------------------------------------
(* Indexes and ranges.                                                               *)

LEMMA IndexOfPlace ==
    ASSUME FitsInts, NEW b, NEW s, IsPlace(b, s)
    PROVE  /\ CountsIndex(b, s) = b * Half + s /\ CountsIndex(b, s) \in Indexes
           /\ b * Half \in Nat /\ s \in Nat /\ b \in Nat
<1>1. /\ BucketCount \in 1 .. 62 /\ Half \in Nat /\ Half >= 1
      /\ b \in Nat /\ s \in Nat /\ s < 2 * Half /\ b <= BucketCount - 1
      /\ CountsLen \in Nat /\ CountsLen = (BucketCount + 1) * Half
      /\ Indexes = 0 .. (CountsLen - 1)
  BY Parameter DEF IsPlace
<1>2. CountsIndex(b, s) = (b + 1) * Half + (s - Half)
  BY DEF CountsIndex, Half
<1>3. (b + 1) * Half = b * Half + Half /\ b * Half \in Nat
  BY <1>1
<1>4. CountsIndex(b, s) = b * Half + s
  BY <1>1, <1>2, <1>3
<1>5. (BucketCount + 1) * Half >= b * Half + 2 * Half
  <2> DEFINE d == BucketCount - 1 - b
  <2>1. d \in Nat /\ BucketCount = b + 1 + d
    BY <1>1
  <2> HIDE DEF d
  <2>2. (BucketCount + 1) * Half = b * Half + 2 * Half + d * Half /\ d * Half \in Nat
    BY <1>1, <2>1
  <2> QED BY <1>1, <1>3, <2>2
<1>6. b * Half + s \in 0 .. (CountsLen - 1)
  BY <1>1, <1>3, <1>5
<1> QED BY <1>1, <1>3, <1>4, <1>6

LEMMA IndexOfValue ==
    ASSUME FitsInts, NEW v \in Values
    PROVE  /\ CountsIndexFor(v) = CountsIndex(BucketIndex(v), Sub(v))
           /\ CountsIndexFor(v) = BucketIndex(v) * Half + Sub(v)
           /\ CountsIndexFor(v) \in Indexes /\ Trackable(v)
<1>1. IsPlace(BucketIndex(v), Sub(v))
  BY PlaceOfValue
<1>2. CountsIndexFor(v) = CountsIndex(BucketIndex(v), Sub(v))
  BY DEF CountsIndexFor, Sub
<1>3. Trackable(v)
  <2> DEFINE b == BucketIndex(v)
  <2>1. b \in 0 .. (BucketCount - 1)
    BY <1>1 DEF IsPlace
  <2>2. v \in Nat /\ BucketCount \in 1 .. 62
    BY Parameter, ValuesAreNat
  <2> HIDE DEF b
  <2>3. v >= 0 /\ b < BucketCount
    BY <2>1, <2>2
  <2> QED BY <2>3 DEF Trackable, b
<1> QED BY <1>1, <1>2, <1>3, IndexOfPlace

\* The first and the last value of the range of v.
LEMMA RangeOfValue ==
    ASSUME FitsInts, NEW v \in Values
    PROVE  /\ LowestEquivalentValue(v) = Sub(v) * Width(BucketIndex(v))
           /\ HighestEquivalentValue(v) = Sub(v) * Width(BucketIndex(v))
                                            + Width(BucketIndex(v)) - 1
<1> DEFINE b == BucketIndex(v)
           s == Sub(v)
           w == Width(b)
<1>1. b \in Nat /\ s \in Nat /\ s < 2 * Half /\ UnitMagnitude \in Nat /\ Half \in Nat
      /\ SubBucketCount = 2 * Half
  BY PlaceOfValue, Parameter DEF IsPlace
<1>2. LowestEquivalentValue(v) = s * w
  BY DEF LowestEquivalentValue, ValueFromIndex, Sub, Width
<1>3. SizeOfEquivalentValueRange(v) = w
  <2>1. ~(SubBucketIndex(v, BucketIndex(v)) >= SubBucketCount)
    <3> HIDE DEF b
    <3>1. s = SubBucketIndex(v, BucketIndex(v))
      BY DEF Sub
    <3> HIDE DEF s
    <3> QED BY <1>1, <3>1
  <2>2. SizeOfEquivalentValueRange(v) = 2^(UnitMagnitude + b)
    <3> DEFINE n == UnitMagnitude + b
    <3>1. SizeOfEquivalentValueRange(v) = ShiftLeft(1, n)
      BY <2>1 DEF SizeOfEquivalentValueRange
    <3>2. b \in 0 .. (BucketCount - 1) /\ BucketCount \in 1 .. 62
      BY PlaceOfValue, Parameter DEF IsPlace
    <3> HIDE DEF b
    <3>3. n \in Nat /\ n + 1 <= IntBits - 1 /\ n < IntBits /\ IntBits - 1 \in Nat
      BY <1>1, <3>2, HistogramAssumption DEF FitsInts
    <3> DEFINE x == 2^n
               y == 2^(IntBits - 1)
    <3>4. x \in Nat /\ x < y
      <4> DEFINE j == IntBits - 1
      <4> HIDE DEF n, j
      <4>1. 2^n \in Nat /\ 2^n >= 1 /\ 2^(n + 1) = 2 * 2^n /\ 2^(n + 1) <= 2^j
        BY <3>3, TwiceThePower, PowersGrow DEF j
      <4>2. 2^j \in Nat
        BY <3>3, TwiceThePower DEF j
      <4> QED BY <4>1, <4>2 DEF j
    <3>5. 1 * x = x
      <4> HIDE DEF x
      <4> QED BY <3>4
    <3> HIDE DEF n
    <3>6. ShiftLeft(1, n) = 1 * 2^n
      BY <3>3, <3>4, <3>5, ShiftFits
    <3> QED BY <3>1, <3>5, <3>6 DEF n
  <2>3. UnitMagnitude + b = b + UnitMagnitude
    <3> HIDE DEF b
    <3> QED BY <1>1
  <2> QED BY <2>2, <2>3 DEF Width
<1>4. w \in Nat
  BY <1>1, Tops
<1> HIDE DEF b, s, w
<1>5. HighestEquivalentValue(v) = s * w + w - 1
  <2> DEFINE low == LowestEquivalentValue(v)
             size == SizeOfEquivalentValueRange(v)
  <2>1. HighestEquivalentValue(v) = (low + size) - 1
    BY DEF HighestEquivalentValue, NextNonEquivalentValue
  <2> HIDE DEF low, size
  <2>2. low = s * w /\ size = w
    BY <1>2, <1>3 DEF low, size
  <2>3. s * w \in Nat /\ w \in Nat
    BY <1>1, <1>4 DEF s
  <2> QED BY <2>1, <2>2, <2>3
<1> QED BY <1>2, <1>5 DEF b, s, w

LEMMA ValuesOfRange ==
    ASSUME FitsInts, NEW v \in Values
    PROVE  /\ LowestEquivalentValue(v) \in Values /\ HighestEquivalentValue(v) \in Values
           /\ LowestEquivalentValue(v) <= v /\ v <= HighestEquivalentValue(v)
           /\ HighestEquivalentValue(v) - LowestEquivalentValue(v) + 1 = Width(BucketIndex(v))
           /\ CountsIndexFor(LowestEquivalentValue(v)) = CountsIndexFor(v)
           /\ CountsIndexFor(HighestEquivalentValue(v)) = CountsIndexFor(v)
<1> DEFINE b == BucketIndex(v)
           s == Sub(v)
           w == Width(b)
           low == LowestEquivalentValue(v)
           high == HighestEquivalentValue(v)
<1>1. v \in Nat /\ IsPlace(b, s) /\ s * w <= v /\ v < (s + 1) * w
  BY PlaceOfValue, ValuesAreNat
<1>2. b \in Nat /\ s \in Nat
  BY <1>1, IndexOfPlace
<1>3. w \in Nat /\ w >= 1
  BY <1>2, Tops
<1>4. low = s * w /\ high = s * w + w - 1
  BY RangeOfValue
<1>5. CountsIndexFor(v) = CountsIndex(b, s)
  BY IndexOfValue
<1> HIDE DEF b, s, w, low, high
<1>6. s * w \in Nat /\ (s + 1) * w = s * w + w
  BY <1>2, <1>3
<1>7. low \in Nat /\ high \in Nat
  BY <1>3, <1>4, <1>6
<1>8. low <= v /\ v <= high /\ high - low + 1 = w
  BY <1>1, <1>3, <1>4, <1>6
<1>9. s * w <= low /\ low < (s + 1) * w /\ s * w <= high /\ high < (s + 1) * w
  BY <1>3, <1>4, <1>6
<1>10. /\ BucketIndex(low) = b /\ Sub(low) = s /\ low \in Values
       /\ BucketIndex(high) = b /\ Sub(high) = s /\ high \in Values
  BY <1>1, <1>7, <1>9, ValueInPlace DEF w
<1>11. CountsIndexFor(low) = CountsIndex(b, s) /\ CountsIndexFor(high) = CountsIndex(b, s)
  BY <1>10, IndexOfValue
<1> QED BY <1>5, <1>8, <1>10, <1>11 DEF b, w, low, high

\* Indexes are in the order of the values.
LEMMA PlacesInOrder ==
    ASSUME FitsInts, NEW b, NEW s, IsPlace(b, s), NEW c, NEW r, IsPlace(c, r), b < c
    PROVE  b * Half + s < c * Half + r
<1>1. /\ Half \in Nat /\ Half >= 1 /\ b \in Nat /\ s \in Nat /\ s < 2 * Half
      /\ c \in Nat /\ r \in Nat /\ r >= Half
  BY Parameter DEF IsPlace
<1> DEFINE d == c - b - 1
<1>2. d \in Nat /\ c = b + 1 + d
  BY <1>1
<1> HIDE DEF d
<1>3. c * Half = b * Half + Half + d * Half /\ d * Half \in Nat /\ b * Half \in Nat
  BY <1>1, <1>2
<1> QED BY <1>1, <1>3

LEMMA IndexesInOrder ==
    ASSUME FitsInts, NEW v \in Values, NEW w \in Values, v <= w
    PROVE  CountsIndexFor(v) <= CountsIndexFor(w)
<1> DEFINE b == BucketIndex(v)
           s == Sub(v)
           c == BucketIndex(w)
           r == Sub(w)
<1>1. /\ v \in Nat /\ w \in Nat
      /\ IsPlace(b, s) /\ v < Top(b) /\ (b > 0 => v >= Top(b - 1)) /\ s * Width(b) <= v
      /\ IsPlace(c, r) /\ w < Top(c) /\ (c > 0 => w >= Top(c - 1))
      /\ w < (r + 1) * Width(c)
  BY PlaceOfValue, ValuesAreNat
<1>2. b \in Nat /\ s \in Nat /\ c \in Nat /\ r \in Nat /\ b * Half \in Nat /\ c * Half \in Nat
  BY <1>1, IndexOfPlace
<1>3. CountsIndexFor(v) = b * Half + s /\ CountsIndexFor(w) = c * Half + r
  BY IndexOfValue
<1> HIDE DEF b, s, c, r
<1>4. b <= c
  <2> SUFFICES ASSUME ~(b <= c) PROVE FALSE
    OBVIOUS
  <2> DEFINE d == b - 1
  <2>1. d \in Nat /\ c <= d /\ v >= Top(d)
    BY <1>1, <1>2
  <2> HIDE DEF d
  <2>2. Top(c) <= Top(d) /\ Top(c) \in Nat /\ Top(d) \in Nat
    BY <1>2, <2>1, TopsGrow, Tops
  <2> QED BY <1>1, <2>1, <2>2
<1>5. CASE b < c
  <2>1. b * Half + s < c * Half + r
    BY <1>1, <1>5, PlacesInOrder
  <2>2. Half \in Nat
    BY Parameter
  <2> QED BY <1>2, <1>3, <2>1, <2>2
<1>6. CASE b = c
  <2> DEFINE x == Width(b)
  <2>1. x \in Nat /\ x >= 1 /\ s * x <= w /\ w < (r + 1) * x
    <3>1. s * x <= v /\ w < (r + 1) * x
      BY <1>1, <1>6
    <3>2. x \in Nat /\ x >= 1
      BY <1>2, Tops
    <3> HIDE DEF x
    <3>3. s * x \in Nat
      BY <1>2, <3>2
    <3> QED BY <1>1, <3>1, <3>2, <3>3
  <2> HIDE DEF x
  <2>2. s <= r
    <3> SUFFICES ASSUME ~(s <= r) PROVE FALSE
      OBVIOUS
    <3> DEFINE d == s - r - 1
    <3>1. d \in Nat /\ s = r + 1 + d
      BY <1>2
    <3> HIDE DEF d
    <3>2. s * x = (r + 1) * x + d * x /\ d * x \in Nat /\ (r + 1) * x \in Nat
      BY <1>2, <2>1, <3>1
    <3> QED BY <1>1, <2>1, <3>2
  <2> QED BY <1>2, <1>3, <1>6, <2>2
<1> QED BY <1>2, <1>4, <1>5, <1>6

\* Equal indexes, equal ranges.
LEMMA SameIndexSameRange ==
    ASSUME FitsInts, NEW v \in Values, NEW w \in Values,
           CountsIndexFor(v) = CountsIndexFor(w)
    PROVE  /\ LowestEquivalentValue(v) = LowestEquivalentValue(w)
           /\ HighestEquivalentValue(v) = HighestEquivalentValue(w)
<1> DEFINE b == BucketIndex(v)
           s == Sub(v)
           c == BucketIndex(w)
           r == Sub(w)
<1>1. IsPlace(b, s) /\ IsPlace(c, r)
  BY PlaceOfValue
<1>2. b \in Nat /\ s \in Nat /\ c \in Nat /\ r \in Nat /\ b * Half \in Nat /\ c * Half \in Nat
  BY <1>1, IndexOfPlace
<1>3. b * Half + s = c * Half + r
  BY IndexOfValue
<1>4. /\ LowestEquivalentValue(v) = s * Width(b) /\ LowestEquivalentValue(w) = r * Width(c)
      /\ HighestEquivalentValue(v) = s * Width(b) + Width(b) - 1
      /\ HighestEquivalentValue(w) = r * Width(c) + Width(c) - 1
  BY RangeOfValue
<1> HIDE DEF b, s, c, r
<1>5. ~(b < c) /\ ~(c < b)
  BY <1>1, <1>2, <1>3, PlacesInOrder
<1>6. b = c
  BY <1>2, <1>5
<1>7. s = r
  BY <1>2, <1>3, <1>6
<1> QED BY <1>4, <1>6, <1>7

-----------------------------------------------------------------------------------
(* The iterator.                                                                     *)

At(k) ==
    IF k < 2 * Half THEN [b |-> 0, s |-> k]
    ELSE [b |-> ((k - 2 * Half) \div Half) + 1, s |-> Half + ((k - 2 * Half) % Half)]

Before == [b |-> 0, s |-> -1]

LEMMA AtPlace ==
    ASSUME FitsInts, NEW k \in Indexes
    PROVE  /\ IsPlace(At(k).b, At(k).s) /\ At(k) = [b |-> At(k).b, s |-> At(k).s]
           /\ At(k).b * Half + At(k).s = k
<1>1. /\ BucketCount \in 1 .. 62 /\ Half \in Nat /\ Half >= 1
      /\ CountsLen \in Nat /\ CountsLen = (BucketCount + 1) * Half
      /\ k \in Nat /\ k < CountsLen
  BY Parameter
<1>2. CASE k < 2 * Half
  <2>1. At(k) = [b |-> 0, s |-> k]
    BY <1>2 DEF At
  <2>2. 0 * Half + k = k
    BY <1>1
  <2> QED BY <1>1, <1>2, <2>1, <2>2 DEF IsPlace
<1>3. CASE ~(k < 2 * Half)
  <2> DEFINE j == k - 2 * Half
             q == j \div Half
             r == j % Half
  <2>1. j \in Nat /\ k = j + 2 * Half
    BY <1>1, <1>3
  <2>2. At(k) = [b |-> q + 1, s |-> Half + r]
    BY <1>3 DEF At
  <2> HIDE DEF j
  <2>3. q \in Nat /\ r \in 0 .. (Half - 1) /\ j = Half * q + r
    BY <1>1, <2>1, Quotient
  <2>4. q < BucketCount - 1
    <3> DEFINE m == BucketCount - 1
    <3>1. m \in Nat /\ BucketCount = m + 1
      BY <1>1
    <3> HIDE DEF m
    <3>2. (BucketCount + 1) * Half = m * Half + 2 * Half /\ m * Half \in Nat
      BY <1>1, <3>1
    <3>3. j < m * Half
      BY <1>1, <2>1, <3>1, <3>2
    <3> QED BY <1>1, <2>1, <3>1, <3>3, QuotientBelow DEF m
  <2> HIDE DEF q, r
  <2>5. (q + 1) * Half + (Half + r) = k
    <3>1. (q + 1) * Half = Half * q + Half /\ Half * q \in Nat
      BY <1>1, <2>3
    <3> QED BY <1>1, <2>1, <2>3, <3>1
  <2>6. IsPlace(q + 1, Half + r)
    BY <1>1, <2>3, <2>4 DEF IsPlace
  <2> QED BY <2>2, <2>5, <2>6
<1> QED BY <1>2, <1>3

LEMMA AtStart == ASSUME FitsInts PROVE IncrementBucket(Before) = At(0)
<1>1. Half \in Nat /\ Half >= 1 /\ SubBucketCount = 2 * Half
  BY Parameter
<1>2. ~(Before.s + 1 >= SubBucketCount) /\ Before.s + 1 = 0
  BY <1>1 DEF Before
<1>3. IncrementBucket(Before) = [Before EXCEPT !.s = 0]
  BY <1>2 DEF IncrementBucket
<1>4. [Before EXCEPT !.s = 0] = [b |-> 0, s |-> 0]
  BY DEF Before
<1>5. 0 < 2 * Half
  BY <1>1
<1>6. At(0) = [b |-> 0, s |-> 0]
  BY <1>5 DEF At
<1> QED BY <1>3, <1>4, <1>6

\* The place after that of index k is that of k + 1.
LEMMA AtNext ==
    ASSUME FitsInts, NEW k \in Indexes, k + 1 \in Indexes
    PROVE  IncrementBucket(At(k)) = At(k + 1)
<1>1. /\ Half \in Nat /\ Half >= 1 /\ SubBucketCount = 2 * Half /\ k \in Nat
  BY Parameter
<1>2. CASE k < 2 * Half
  <2>1. At(k) = [b |-> 0, s |-> k]
    BY <1>2 DEF At
  <2>2. CASE k + 1 < 2 * Half
    <3>1. IncrementBucket(At(k)) = [At(k) EXCEPT !.s = k + 1]
      BY <1>1, <2>1, <2>2 DEF IncrementBucket
    <3>2. [At(k) EXCEPT !.s = k + 1] = [b |-> 0, s |-> k + 1]
      BY <2>1
    <3>3. At(k + 1) = [b |-> 0, s |-> k + 1]
      BY <2>2 DEF At
    <3> QED BY <3>1, <3>2, <3>3
  <2>3. CASE ~(k + 1 < 2 * Half)
    <3>1. k + 1 >= SubBucketCount /\ k + 1 = 2 * Half
      BY <1>1, <1>2, <2>3
    <3>2. IncrementBucket(At(k)) = [b |-> 1, s |-> Half]
      BY <2>1, <3>1 DEF IncrementBucket, Half
    <3>3. At(k + 1) = [b |-> (0 \div Half) + 1, s |-> Half + (0 % Half)]
      <4>1. (k + 1) - 2 * Half = 0
        BY <1>1, <3>1
      <4> QED BY <2>3, <4>1 DEF At
    <3>4. 0 \div Half = 0 /\ 0 % Half = 0
      BY <1>1
    <3>5. (0 \div Half) + 1 = 1 /\ Half + (0 % Half) = Half
      BY <1>1, <3>4
    <3> QED BY <3>2, <3>3, <3>5
  <2> QED BY <2>2, <2>3
<1>3. CASE ~(k < 2 * Half)
  <2> DEFINE j == k - 2 * Half
             q == j \div Half
             r == j % Half
  <2>1. j \in Nat /\ (k + 1) - 2 * Half = j + 1 /\ ~(k + 1 < 2 * Half) /\ j + 1 \in Nat
    BY <1>1, <1>3
  <2>2. At(k) = [b |-> q + 1, s |-> Half + r]
    BY <1>3 DEF At
  <2>3. At(k + 1) = [b |-> ((j + 1) \div Half) + 1, s |-> Half + ((j + 1) % Half)]
    BY <2>1 DEF At
  <2> HIDE DEF j
  <2>4. q \in Nat /\ r \in 0 .. (Half - 1) /\ j = Half * q + r
    BY <1>1, <2>1, Quotient
  <2> DEFINE x == (j + 1) \div Half
             y == (j + 1) % Half
  <2>5. x \in Nat /\ y \in 0 .. (Half - 1) /\ j + 1 = Half * x + y
    BY <1>1, <2>1, Quotient
  <2>6. CASE r + 1 = Half
    <3>1. j + 1 = (q + 1) * Half
      <4> HIDE DEF q, r
      <4> QED BY <1>1, <2>4, <2>6
    <3>2. x = q + 1
      <4> HIDE DEF q, r
      <4>1. q + 1 \in Nat /\ (q + 1) * Half <= j + 1 /\ j + 1 < ((q + 1) + 1) * Half
        <5>1. ((q + 1) + 1) * Half = (q + 1) * Half + Half /\ (q + 1) * Half \in Nat
          BY <1>1, <2>4
        <5> QED BY <1>1, <2>1, <2>4, <3>1, <5>1
      <4> QED BY <1>1, <2>1, <4>1, QuotientIs
    <3> HIDE DEF q, r, x, y
    <3>3. y = 0
      <4>1. Half * (q + 1) = (q + 1) * Half /\ (q + 1) * Half \in Nat
        BY <1>1, <2>4
      <4> QED BY <2>1, <2>5, <3>1, <3>2, <4>1
    <3>4. At(k).s + 1 >= SubBucketCount
      BY <1>1, <2>2, <2>4, <2>6
    <3>5. IncrementBucket(At(k)) = [b |-> At(k).b + 1, s |-> Half]
      BY <3>4 DEF IncrementBucket, Half
    <3>6. At(k).b + 1 = x + 1 /\ Half + y = Half
      BY <1>1, <2>2, <3>2, <3>3
    <3>7. At(k + 1) = [b |-> x + 1, s |-> Half + y]
      BY <2>3 DEF x, y
    <3> QED BY <3>5, <3>6, <3>7
  <2>7. CASE r + 1 # Half
    <3>1. x = q
      <4> HIDE DEF q, r
      <4>1. q * Half <= j + 1 /\ j + 1 < (q + 1) * Half
        <5>1. (q + 1) * Half = Half * q + Half /\ q * Half = Half * q /\ Half * q \in Nat
          BY <1>1, <2>4
        <5> QED BY <1>1, <2>1, <2>4, <2>7, <5>1
      <4> QED BY <1>1, <2>1, <2>4, <4>1, QuotientIs
    <3> HIDE DEF q, r, x, y
    <3>2. y = r + 1
      <4>1. Half * q \in Nat
        BY <1>1, <2>4
      <4> QED BY <1>1, <2>1, <2>4, <2>5, <3>1, <4>1
    <3>3. ~(At(k).s + 1 >= SubBucketCount)
      BY <1>1, <2>2, <2>4, <2>7
    <3>4. IncrementBucket(At(k)) = [At(k) EXCEPT !.s = @ + 1]
      BY <3>3 DEF IncrementBucket
    <3>5. [At(k) EXCEPT !.s = @ + 1] = [b |-> q + 1, s |-> (Half + r) + 1]
      BY <2>2
    <3>6. (Half + r) + 1 = Half + y
      BY <1>1, <2>4, <3>2
    <3>7. At(k + 1) = [b |-> x + 1, s |-> Half + y]
      BY <2>3 DEF x, y
    <3> QED BY <3>1, <3>4, <3>5, <3>6, <3>7
  <2> QED BY <2>6, <2>7
<1> QED BY <1>2, <1>3

\* Visit k is that of the counter with index k.
LEMMA VisitsInOrder ==
    ASSUME FitsInts, NEW k \in Indexes PROVE VisitsFrom[k] = At(k)
<1>1. /\ CountsLen \in Nat /\ Indexes = 0 .. (CountsLen - 1) /\ Indexes \subseteq Nat
  BY Parameter
<1> DEFINE Follows(f) ==
      f = [i \in Indexes |-> IncrementBucket(IF i = 0 THEN [b |-> 0, s |-> -1] ELSE f[i - 1])]
           g == [i \in Indexes |-> At(i)]
<1>2. Follows(g)
  <2>1. ASSUME NEW i \in Indexes
        PROVE  IncrementBucket(IF i = 0 THEN [b |-> 0, s |-> -1] ELSE g[i - 1]) = At(i)
    <3>1. CASE i = 0
      BY <3>1, AtStart DEF Before
    <3>2. CASE i # 0
      <4> DEFINE j == i - 1
      <4>1. j \in Indexes /\ j + 1 = i
        BY <1>1, <3>2
      <4>2. g[i - 1] = At(j)
        BY <4>1
      <4> HIDE DEF j, g
      <4>3. IncrementBucket(At(j)) = At(i)
        BY <4>1, AtNext
      <4> QED BY <3>2, <4>2, <4>3
    <3> QED BY <3>1, <3>2
  <2> QED BY <2>1
<1>3. Follows(VisitsFrom)
  <2> HIDE DEF g
  <2> QED BY <1>2 DEF VisitsFrom
<1> DEFINE bad == {i \in Indexes : VisitsFrom[i] # At(i)}
<1>4. SUFFICES ASSUME bad # {} PROVE FALSE
  OBVIOUS
<1>5. bad \subseteq Int /\ IsFiniteSet(bad)
  <2>1. IsFiniteSet(Indexes)
    BY <1>1, FS_Interval
  <2>2. bad \subseteq Indexes /\ bad \subseteq Int
    BY <1>1
  <2> HIDE DEF bad
  <2> QED BY <2>1, <2>2, FS_Subset
<1>6. PICK n \in bad : \A i \in bad : n <= i
  <2> HIDE DEF bad
  <2> QED BY <1>4, <1>5, MinOfFinite
<1>7. n \in Indexes /\ VisitsFrom[n] # At(n)
  OBVIOUS
<1>8. VisitsFrom[n] = IncrementBucket(IF n = 0 THEN [b |-> 0, s |-> -1] ELSE VisitsFrom[n - 1])
  BY <1>3, <1>7
<1>9. CASE n = 0
  BY <1>7, <1>8, <1>9, AtStart DEF Before
<1>10. CASE n # 0
  <2> DEFINE j == n - 1
  <2>1. j \in Indexes /\ j + 1 = n /\ j \notin bad
    BY <1>1, <1>6, <1>7, <1>10
  <2>2. VisitsFrom[n - 1] = At(j)
    BY <2>1
  <2> HIDE DEF j, bad
  <2>3. IncrementBucket(At(j)) = At(n)
    BY <1>7, <2>1, AtNext
  <2>4. VisitsFrom[n] = IncrementBucket(VisitsFrom[n - 1])
    BY <1>8, <1>10
  <2> QED BY <1>7, <2>2, <2>3, <2>4
<1> QED BY <1>9, <1>10

LEMMA VisitOfIndex ==
    ASSUME FitsInts, NEW k \in Indexes
    PROVE  /\ CountsIndex(Visit[k].b, Visit[k].s) = k
           /\ ValueAt(k) \in Values /\ CountsIndexFor(ValueAt(k)) = k
           /\ LowestEquivalentValue(ValueAt(k)) = ValueAt(k)
<1> DEFINE b == At(k).b
           s == At(k).s
           w == Width(b)
<1>1. Visit[k] = At(k)
  BY VisitsInOrder DEF Visit
<1>2. IsPlace(b, s) /\ b * Half + s = k
  BY AtPlace
<1>3. ValueAt(k) = s * w
  BY <1>1 DEF ValueAt, ValueFromIndex, Width
<1>4. CountsIndex(Visit[k].b, Visit[k].s) = CountsIndex(b, s)
  BY <1>1
<1> HIDE DEF b, s
<1>5. CountsIndex(b, s) = b * Half + s /\ b \in Nat /\ s \in Nat
  BY <1>2, IndexOfPlace
<1>6. w \in Nat /\ w >= 1
  BY <1>5, Tops
<1> DEFINE v == s * w
<1>7. v \in Nat /\ s * w <= v /\ v < (s + 1) * w
  <2> HIDE DEF w
  <2>1. (s + 1) * w = s * w + w /\ s * w \in Nat
    BY <1>5, <1>6
  <2> QED BY <1>6, <2>1
<1> HIDE DEF v
<1>8. BucketIndex(v) = b /\ Sub(v) = s /\ v \in Values
  BY <1>2, <1>7, ValueInPlace
<1>9. CountsIndexFor(v) = CountsIndex(b, s)
  BY <1>8, IndexOfValue
<1>10. LowestEquivalentValue(v) = s * w
  BY <1>8, RangeOfValue
<1> QED BY <1>2, <1>3, <1>4, <1>5, <1>8, <1>9, <1>10 DEF v

\* Two values of a range agree to the precision, if the ranges begin with those of one
\* value.
LEMMA SameRangeAgrees ==
    ASSUME FitsInts, UnitMagnitude = 0, NEW v \in Values, NEW r \in Nat,
           LowestEquivalentValue(v) <= r, r <= HighestEquivalentValue(v)
    PROVE  Agrees(r, v)
<1> DEFINE b == BucketIndex(v)
           s == Sub(v)
           w == Width(b)
           low == LowestEquivalentValue(v)
           high == HighestEquivalentValue(v)
           d == IF r > v THEN r - v ELSE v - r
<1>1. v \in Nat /\ IsPlace(b, s) /\ low \in Nat /\ high \in Nat
      /\ low <= v /\ v <= high /\ (high - low) + 1 = w /\ low = s * w
  BY PlaceOfValue, ValuesOfRange, RangeOfValue, ValuesAreNat
<1>2. /\ b \in Nat /\ s \in Nat /\ w \in Nat /\ w >= 1 /\ Half \in Nat
      /\ Ten \in Nat /\ Ten <= Half /\ (b > 0 => s >= Half)
  <2>1. b \in Nat /\ s \in Nat
    BY <1>1, IndexOfPlace
  <2> QED BY <1>1, <2>1, Tops, Parameter DEF IsPlace
<1>3. b = 0 => w = 1
  <2>1. 0 + 0 = 0
    OBVIOUS
  <2>2. Width(0) = 1
    BY <2>1, PowerOfZero DEF Width
  <2> QED BY <2>2
<1> HIDE DEF b, s, w, low, high
<1>4. d \in Nat /\ d <= w - 1
  BY <1>1, <1>2 DEF low, high
<1> HIDE DEF d
<1>5. Ten * d <= v
  <2>1. CASE b = 0
    <3>1. d = 0
      BY <1>3, <1>4, <2>1
    <3>2. Ten * d = 0
      BY <1>2, <3>1
    <3> QED BY <1>1, <3>2
  <2>2. CASE b # 0
    <3>1. s >= Half
      BY <1>2, <2>2
    <3> DEFINE x == Half - Ten
               y == s - Half
               z == w - d
    <3>2. x \in Nat /\ y \in Nat /\ z \in Nat /\ Half = Ten + x /\ s = Half + y /\ w = d + z
      BY <1>2, <1>4, <3>1
    <3> HIDE DEF x, y, z
    <3>3. s * w = Ten * d + Ten * z + x * w + y * w
      <4>1. s * w = Half * w + y * w
        BY <1>2, <3>2
      <4>2. Half * w = Ten * w + x * w
        BY <1>2, <3>2
      <4>3. Ten * w = Ten * d + Ten * z
        BY <1>2, <1>4, <3>2
      <4>4. x * w \in Nat /\ y * w \in Nat /\ Ten * d \in Nat /\ Ten * z \in Nat
        BY <1>2, <1>4, <3>2
      <4> QED BY <4>1, <4>2, <4>3, <4>4
    <3>4. Ten * z \in Nat /\ x * w \in Nat /\ y * w \in Nat /\ Ten * d \in Nat
      BY <1>2, <1>4, <3>2
    <3> QED BY <1>1, <3>3, <3>4
  <2> QED BY <2>1, <2>2
<1> QED BY <1>5 DEF Agrees, Ten, d

LEMMA HighestTrackableIsValue == FitsInts => HighestTrackable \in Values
<1> SUFFICES ASSUME FitsInts PROVE HighestTrackable \in Values
  OBVIOUS
<1>1. /\ UnitMagnitude \in Nat /\ BucketCount \in 1 .. 62 /\ HighestTrackable \in Nat
      /\ HighestTrackable <= SubBucketMask * 2^(BucketCount - 1)
      /\ SubBucketMask = (SubBucketCount - 1) * 2^UnitMagnitude
      /\ SubBucketCount = 2 * Half /\ Half \in Nat /\ Half >= 1
  BY Parameters, Parameter, HistogramAssumption
<1> DEFINE last == BucketCount - 1
           x == 2^UnitMagnitude
           y == 2^last
           z == Width(last)
<1>2. last \in Nat
  BY <1>1
<1> HIDE DEF last
<1>3. /\ x \in Nat /\ x >= 1 /\ y \in Nat /\ z \in Nat /\ z >= 1
      /\ z = y * x /\ Top(last) = (2 * Half) * z
  BY <1>1, <1>2, TwiceThePower, PowerOfSum, Tops DEF Width
<1>4. HighestTrackable <= ((2 * Half - 1) * x) * y
  BY <1>1 DEF last
<1> HIDE DEF x, y, z
<1>5. ((2 * Half - 1) * x) * y = (2 * Half) * z - z /\ (2 * Half) * z \in Nat
  <2> DEFINE k == 2 * Half - 1
  <2>1. k \in Nat /\ 2 * Half = k + 1
    BY <1>1
  <2> HIDE DEF k
  <2>2. (k * x) * y = k * (y * x)
    BY <1>3, <2>1
  <2>3. (k + 1) * z = k * z + z /\ k * z \in Nat
    BY <1>3, <2>1
  <2> QED BY <1>3, <2>1, <2>2, <2>3 DEF k
<1>6. HighestTrackable \in 0 .. (Top(last) - 1)
  BY <1>1, <1>3, <1>4, <1>5
<1> QED BY <1>6, ValuesEnd DEF last

\* Whatever the range and the precision a histogram is made for: every value is counted by
\* one counter, the counters stand for ranges that follow each other and that the iterator
\* visits in order, and a range is no wider than the precision.
THEOREM CountersPartition == FitsInts => RangesPartition
<1> SUFFICES ASSUME FitsInts PROVE RangesPartition
  OBVIOUS
<1>1. ASSUME NEW v \in Values
      PROVE  /\ Trackable(v) /\ CountsIndexFor(v) \in Indexes
             /\ LowestEquivalentValue(v) <= v /\ v <= HighestEquivalentValue(v)
             /\ CountsIndexFor(LowestEquivalentValue(v)) = CountsIndexFor(v)
             /\ CountsIndexFor(HighestEquivalentValue(v)) = CountsIndexFor(v)
  BY IndexOfValue, ValuesOfRange
<1>2. ASSUME NEW v \in Values, UnitMagnitude = 0
      PROVE  Agrees(HighestEquivalentValue(v), v) /\ Agrees(LowestEquivalentValue(v), v)
  <2> DEFINE low == LowestEquivalentValue(v)
             high == HighestEquivalentValue(v)
  <2>1. /\ low \in Nat /\ high \in Nat /\ low <= high
    <3>1. low \in Values /\ high \in Values /\ low <= v /\ v <= high
      BY ValuesOfRange
    <3> HIDE DEF low, high
    <3> QED BY <3>1, ValuesAreNat
  <2>2. low <= low /\ high <= high
    <3> HIDE DEF low, high
    <3> QED BY <2>1
  <2> QED BY <1>2, <2>1, <2>2, SameRangeAgrees
<1>3. ASSUME NEW v \in Values, v > 0 PROVE CountsIndexFor(v - 1) <= CountsIndexFor(v)
  <2>1. v - 1 \in Values /\ v - 1 <= v
    <3>1. v \in Nat /\ v \in 0 .. (Top(BucketCount - 1) - 1)
      BY ValuesAreNat, ValuesEnd
    <3> DEFINE last == BucketCount - 1
               t == Top(last)
    <3>2. last \in Nat
      <4>1. BucketCount \in 1 .. 62
        BY Parameter
      <4> QED BY <4>1
    <3> HIDE DEF last
    <3>3. t \in Nat
      BY <3>2, Tops
    <3> HIDE DEF t
    <3>4. v \in 0 .. (t - 1)
      BY <3>1 DEF t, last
    <3>5. v - 1 \in 0 .. (t - 1)
      BY <1>3, <3>1, <3>3, <3>4
    <3> QED BY <3>1, <3>5, ValuesEnd DEF t, last
  <2> QED BY <2>1, IndexesInOrder
<1>4. \A k \in Indexes : CountsIndex(Visit[k].b, Visit[k].s) = k
  BY VisitOfIndex
<1> QED BY <1>1, <1>2, <1>3, <1>4, HighestTrackableIsValue DEF RangesPartition

-----------------------------------------------------------------------------------
(* What is read of a histogram.                                                      *)

Histograms == [counts : [Indexes -> Nat], total_count : Nat]

LEMMA EmptyIsHistogram == Empty \in Histograms
BY DEF Empty, Histograms

LEMMA RecordKeepsHistogram ==
    ASSUME NEW h \in Histograms, NEW v PROVE RecordValue(h, v) \in Histograms
<1>1. [h.counts EXCEPT ![CountsIndexFor(v)] = @ + 1] \in [Indexes -> Nat]
  <2> DEFINE k == CountsIndexFor(v)
             f == h.counts
  <2>1. f \in [Indexes -> Nat]
    BY DEF Histograms
  <2> HIDE DEF k, f
  <2>2. CASE k \in Indexes
    <3>1. f[k] + 1 \in Nat
      BY <2>1, <2>2
    <3> QED BY <2>1, <3>1 DEF f, k
  <2>3. CASE k \notin Indexes
    <3>1. [f EXCEPT ![k] = @ + 1] = f
      BY <2>1, <2>3
    <3> QED BY <2>1, <3>1 DEF f, k
  <2> QED BY <2>2, <2>3
<1>2. h.total_count + 1 \in Nat
  BY DEF Histograms
<1> QED BY <1>1, <1>2 DEF RecordValue, RecordValues, Histograms

LEMMA IndexesFinite ==
    ASSUME FitsInts PROVE IsFiniteSet(Indexes) /\ Indexes \subseteq Nat
<1>1. CountsLen \in Nat /\ Indexes = 0 .. (CountsLen - 1)
  BY Parameter
<1> QED BY <1>1, FS_Interval

LEMMA CountAtIs ==
    ASSUME FitsInts, NEW h, NEW k \in Indexes PROVE CountAt(h, k) = h.counts[k]
BY VisitOfIndex DEF CountAt

LEMMA CountsFold ==
    ASSUME FitsInts, NEW h \in Histograms, NEW S \in SUBSET Indexes
    PROVE  MapThenSumSet(LAMBDA k : CountAt(h, k), S) = Sum(h.counts, S)
<1> DEFINE iter == CHOOSE f :
              f = [s \in SUBSET S |->
                      IF s = {} THEN 0 ELSE CountAt(h, Pick(s)) + f[s \ {Pick(s)}]]
           g == h.counts
<1>1. \A f : Folds(g, S, f) <=>
         f = [s \in SUBSET S |->
                 IF s = {} THEN 0 ELSE CountAt(h, Pick(s)) + f[s \ {Pick(s)}]]
  <2> SUFFICES ASSUME NEW f
               PROVE  [s \in SUBSET S |-> IF s = {} THEN 0 ELSE g[Pick(s)] + f[s \ {Pick(s)}]]
                       = [s \in SUBSET S |->
                            IF s = {} THEN 0 ELSE CountAt(h, Pick(s)) + f[s \ {Pick(s)}]]
    BY Zenon DEF Folds
  <2>1. ASSUME NEW s \in SUBSET S, s # {} PROVE g[Pick(s)] = CountAt(h, Pick(s))
    <3>1. Pick(s) \in Indexes
      BY <2>1, PickIsIn
    <3> QED BY <3>1, CountAtIs
  <2> QED BY <2>1
<1>2. IsFiniteSet(S) /\ \A x \in S : g[x] \in Nat
  BY IndexesFinite, FS_Subset DEF Histograms
<1>3. Folds(g, S, [s \in SUBSET S |-> Sum(g, s)])
  BY <1>2, FoldExists
<1>4. Folds(g, S, iter)
  <2> HIDE DEF g
  <2> QED BY <1>1, <1>3
<1>5. iter[S] = Sum(g, S)
  <2> HIDE DEF iter, g
  <2> QED BY <1>2, <1>4, FoldUnique
<1>6. MapThenSumSet(LAMBDA k : CountAt(h, k), S) = iter[S]
  BY DEF MapThenSumSet, MapThenFoldSet, Pick
<1> QED BY <1>5, <1>6

LEMMA NonZeroIs ==
    ASSUME FitsInts, NEW h PROVE NonZero(h) = {k \in Indexes : h.counts[k] # 0}
BY CountAtIs DEF NonZero

LEMMA CountToIs ==
    ASSUME FitsInts, NEW h \in Histograms, NEW k
    PROVE  CountTo(h, k) = Sum(h.counts, {i \in Indexes : i <= k})
<1> DEFINE S == {i \in Indexes : i <= k}
           T == {i \in S : h.counts[i] # 0}
<1>1. {i \in NonZero(h) : i <= k} = T
  BY NonZeroIs
<1>2. CountTo(h, k) = MapThenSumSet(LAMBDA i : CountAt(h, i), T)
  BY <1>1 DEF CountTo
<1>3. T \in SUBSET Indexes /\ S \in SUBSET Indexes
  OBVIOUS
<1>4. IsFiniteSet(S) /\ \A i \in S : h.counts[i] \in Nat
  BY <1>3, IndexesFinite, FS_Subset DEF Histograms
<1> DEFINE g == h.counts
<1>5. CountTo(h, k) = Sum(g, T)
  BY <1>2, <1>3, CountsFold
<1>6. Sum(g, {i \in S : g[i] # 0}) = Sum(g, S)
  <2> HIDE DEF S
  <2> QED BY <1>4, SumOfNonZeros
<1> QED BY <1>5, <1>6

\* If the counts add up, the iterator does not stop before it has passed them all.
LEMMA CountedAll ==
    ASSUME FitsInts, NEW h \in Histograms, Sum(h.counts, Indexes) = h.total_count
    PROVE  Counted(h) = {k \in Indexes : h.counts[k] # 0}
<1> DEFINE g == h.counts
<1>1. g \in [Indexes -> Nat] /\ IsFiniteSet(Indexes) /\ h.total_count = Sum(g, Indexes)
  BY IndexesFinite DEF Histograms
<1>2. ASSUME NEW k \in Indexes, g[k] # 0 PROVE CountTo(h, k) - CountAt(h, k) < h.total_count
  <2> DEFINE S == {i \in Indexes : i <= k}
  <2>1. CountTo(h, k) = Sum(g, S) /\ CountAt(h, k) = g[k]
    BY CountToIs, CountAtIs
  <2>2. S \in SUBSET Indexes
    OBVIOUS
  <2> HIDE DEF g, S
  <2>3. Sum(g, S) \in Nat /\ Sum(g, Indexes) \in Nat /\ Sum(g, S) <= Sum(g, Indexes)
    BY <1>1, <2>2, SumOfPart
  <2>4. g[k] \in Nat /\ g[k] # 0
    BY <1>1, <1>2
  <2> QED BY <1>1, <2>1, <2>3, <2>4
<1> QED BY <1>2, NonZeroIs DEF Counted

LEMMA AddIs ==
    ASSUME FitsInts, NEW h \in Histograms, NEW from \in Histograms,
           Sum(from.counts, Indexes) = from.total_count
    PROVE  /\ Add(h, from) =
                [counts      |-> [i \in Indexes |-> h.counts[i] + from.counts[i]],
                 total_count |-> h.total_count + from.total_count]
           /\ Add(h, from) \in Histograms
<1> DEFINE g == from.counts
           C == {k \in Indexes : g[k] # 0}
<1>1. g \in [Indexes -> Nat] /\ IsFiniteSet(Indexes) /\ C \in SUBSET Indexes
  BY IndexesFinite DEF Histograms
<1>2. Counted(from) = C
  BY CountedAll
<1>3. MapThenSumSet(LAMBDA k : CountAt(from, k), C) = from.total_count
  <2>1. MapThenSumSet(LAMBDA k : CountAt(from, k), C) = Sum(g, C)
    BY <1>1, CountsFold
  <2>2. Sum(g, C) = Sum(g, Indexes)
    BY <1>1, SumOfNonZeros
  <2> QED BY <2>1, <2>2
<1>4. ASSUME NEW i \in Indexes
      PROVE  MapThenSumSet(LAMBDA k : CountAt(from, k),
                           {k \in C : CountsIndexFor(ValueAt(k)) = i}) = g[i]
  <2> DEFINE D == {k \in C : CountsIndexFor(ValueAt(k)) = i}
  <2>1. D = {k \in C : k = i}
    BY VisitOfIndex
  <2>2. D \in SUBSET Indexes
    BY <1>1
  <2> HIDE DEF D
  <2>3. MapThenSumSet(LAMBDA k : CountAt(from, k), D) = Sum(g, D)
    BY <2>2, CountsFold
  <2>4. CASE g[i] = 0
    <3>1. D = {}
      BY <2>1, <2>4
    <3> QED BY <2>3, <2>4, <3>1, SumOfNone DEF D
  <2>5. CASE g[i] # 0
    <3>1. D = {i}
      BY <2>1, <2>5
    <3>2. IsFiniteSet({i}) /\ i \in {i} /\ \A y \in {i} : g[y] \in Nat /\ {i} \ {i} = {}
      BY <1>1, FS_Singleton
    <3> HIDE DEF g
    <3>3. Sum(g, {i}) = g[i] + Sum(g, {i} \ {i})
      BY <3>2, SumWithout
    <3>4. Sum(g, {i} \ {i}) = 0
      BY <3>2, SumOfNone
    <3>5. g[i] \in Nat
      BY <3>2
    <3>6. Sum(g, {i}) = g[i]
      BY <3>3, <3>4, <3>5
    <3> QED BY <2>3, <3>1, <3>6 DEF D
  <2> QED BY <2>4, <2>5
<1>5. Add(h, from) =
         [counts |-> [i \in Indexes |-> h.counts[i] +
                        MapThenSumSet(LAMBDA k : CountAt(from, k),
                                      {k \in C : CountsIndexFor(ValueAt(k)) = i})],
          total_count |-> h.total_count + MapThenSumSet(LAMBDA k : CountAt(from, k), C)]
  BY <1>2 DEF Add
<1> HIDE DEF C
<1>6. Add(h, from) = [counts      |-> [i \in Indexes |-> h.counts[i] + from.counts[i]],
                      total_count |-> h.total_count + from.total_count]
  BY <1>3, <1>4, <1>5
<1>7. h.counts \in [Indexes -> Nat] /\ h.total_count \in Nat /\ from.total_count \in Nat
  BY DEF Histograms
<1> QED BY <1>1, <1>6, <1>7 DEF Histograms

-----------------------------------------------------------------------------------
(* The threads and main.                                                            *)

Samplers == [step : {"idle", "waiting", "locked"}, rate : Rates \cup {0}, seen : Nat]

\* The types, who holds the mutex, and what the count of samples has to do with it.
Ind ==
    /\ phase \in [Threads -> {"calibrating", "sampling", "ended"}]
    /\ complete \in [Threads -> Nat] /\ requests \in [Threads -> Nat]
    /\ \A t \in Threads : requests[t] <= complete[t]
    /\ Sum(complete, Threads) <= MaxResponses
    /\ latency \in [Threads -> Histograms]
    /\ kept \in [Threads -> [Latencies -> Nat]]
    /\ sampling \in [Threads -> Samplers]
    /\ mutex \in Threads \cup {None}
    /\ rates \in [min : Int, max : Int, hist : Histograms]
    /\ samples \in [Rates -> Nat]
    /\ \A t \in Threads :
          /\ sampling[t].step # "idle" => sampling[t].rate \in Rates /\ phase[t] # "ended"
          /\ sampling[t].step = "locked" <=> mutex = t
          /\ sampling[t].step = "locked" => sampling[t].seen = rates.hist.total_count
    /\ rates.hist.total_count = Sum(samples, Rates)

LEMMA ThreadsFinite == IsFiniteSet(Threads) /\ None \notin Threads
BY FS_Interval, MeasurementAssumption DEF Threads, None

LEMMA RatesFinite == IsFiniteSet(Rates) /\ Rates \subseteq Nat
<1> DEFINE f == [n \in 0 .. MaxResponses |-> RateOf(n)]
<1>1. IsFiniteSet(0 .. MaxResponses)
  BY FS_Interval, MeasurementAssumption
<1>2. f \in Surjection(0 .. MaxResponses, Rates)
  BY DEF Surjection, Rates
<1>3. IsFiniteSet(Rates)
  BY <1>1, <1>2, FS_Surjection
<1> QED BY <1>3, MeasurementAssumption DEF Rates, Values

LEMMA SizeIsSum ==
    ASSUME NEW S, IsFiniteSet(S), NEW bag \in [S -> Nat]
    PROVE  Size(bag) = Sum(bag, S)
<1>1. FoldOf(bag, S) = Sum(bag, S)
  BY SumIsFold
<1>2. Size(bag) = FoldOf(bag, S)
  BY DEF Size, FoldOf
<1> QED BY <1>1, <1>2

LEMMA InitInd == Init => Ind
<1> SUFFICES ASSUME Init PROVE Ind
  OBVIOUS
<1>1. Sum(complete, Threads) = 0 /\ Sum(samples, Rates) = 0
  BY SumOfZeros DEF Init, BagOf
<1>2. Max(Rates) \in Int
  <2>1. Rates # {}
    BY MeasurementAssumption DEF Rates
  <2>2. Rates \subseteq Int
    BY RatesFinite
  <2> QED BY RatesFinite, <2>1, <2>2, MaxOfFinite
<1>3. Empty.total_count = 0
  BY DEF Empty
<1> QED BY <1>1, <1>2, <1>3, EmptyIsHistogram, MeasurementAssumption, ThreadsFinite
        DEF Init, Ind, Samplers, Idle, BagOf

-----------------------------------------------------------------------------------
(* The steps.                                                                        *)

\* The number of responses in all, as ResponseComplete's guard has it.
LEMMA CompleteIsSum ==
    ASSUME complete \in [Threads -> Nat]
    PROVE  MapThenSumSet(LAMBDA u : complete[u], Threads) = Sum(complete, Threads)
<1>1. FoldOf(complete, Threads) = Sum(complete, Threads)
  BY SumIsFold, ThreadsFinite
<1> QED BY <1>1 DEF FoldOf

LEMMA ResponseCompleteInd ==
    ASSUME Ind, NEW t \in Threads, ResponseComplete(t) PROVE Ind'
<1>1. PICK v \in Latencies :
        /\ MapThenSumSet(LAMBDA u : complete[u], Threads) < MaxResponses
        /\ complete' = [complete EXCEPT ![t] = @ + 1]
        /\ requests' = [requests EXCEPT ![t] = @ + 1]
        /\ latency' = [latency EXCEPT ![t] = RecordValue(@, v)]
        /\ kept' = [kept EXCEPT ![t][v] = @ + 1]
        /\ UNCHANGED <<phase, sampling, mutex, rates, samples>>
  BY DEF ResponseComplete
<1>2. complete' \in [Threads -> Nat] /\ requests' \in [Threads -> Nat]
  BY <1>1 DEF Ind
<1>3. \A u \in Threads : requests'[u] <= complete'[u]
  BY <1>1 DEF Ind
<1>4. Sum(complete', Threads) <= MaxResponses
  <2>1. /\ Sum(complete, Threads) \in Nat /\ Sum(complete', Threads) \in Nat
        /\ Sum(complete', Threads) + complete[t] = Sum(complete, Threads) + complete'[t]
    <3>1. \A u \in Threads : complete[u] \in Nat /\ complete'[u] \in Nat
      BY <1>2 DEF Ind
    <3>2. \A u \in Threads \ {t} : complete[u] = complete'[u]
      BY <1>1 DEF Ind
    <3> QED BY <3>1, <3>2, SumChanges, ThreadsFinite
  <2>2. complete'[t] = complete[t] + 1 /\ complete[t] \in Nat
    BY <1>1 DEF Ind
  <2>3. Sum(complete, Threads) < MaxResponses
    BY <1>1, CompleteIsSum DEF Ind
  <2> QED BY <2>1, <2>2, <2>3, MeasurementAssumption
<1>5. latency' \in [Threads -> Histograms]
  BY <1>1, RecordKeepsHistogram DEF Ind
<1>6. kept' \in [Threads -> [Latencies -> Nat]]
  <2>1. kept[t] \in [Latencies -> Nat]
    BY DEF Ind
  <2>2. [kept[t] EXCEPT ![v] = @ + 1] \in [Latencies -> Nat]
    BY <2>1
  <2> QED BY <1>1, <2>2 DEF Ind
<1> QED BY <1>1, <1>2, <1>3, <1>4, <1>5, <1>6 DEF Ind

LEMMA CalibrateInd ==
    ASSUME Ind, NEW t \in Threads, Calibrate(t) PROVE Ind'
<1>1. /\ phase' = [phase EXCEPT ![t] = "sampling"]
      /\ latency' = [latency EXCEPT ![t] = Empty]
      /\ kept' = [kept EXCEPT ![t] = BagOf(Latencies)]
      /\ requests' = [requests EXCEPT ![t] = 0]
      /\ UNCHANGED <<complete, sampling, mutex, rates, samples>>
  BY DEF Calibrate, Reset
<1>2. latency' \in [Threads -> Histograms] /\ kept' \in [Threads -> [Latencies -> Nat]]
  BY <1>1, EmptyIsHistogram DEF Ind, BagOf
<1>3. \A u \in Threads : requests'[u] <= complete'[u]
  BY <1>1 DEF Ind
<1> QED BY <1>1, <1>2, <1>3 DEF Ind

LEMMA SampleRateInd ==
    ASSUME Ind, NEW t \in Threads, SampleRate(t) PROVE Ind'
<1>1. /\ phase[t] = "sampling" /\ sampling[t].step = "idle"
      /\ sampling' = [sampling EXCEPT ![t].step = "waiting", ![t].rate = RateOf(requests[t])]
      /\ UNCHANGED <<phase, complete, requests, latency, kept, mutex, rates, samples>>
  BY DEF SampleRate, Active
<1>2. RateOf(requests[t]) \in Rates
  <2>1. complete[t] <= Sum(complete, Threads) /\ Sum(complete, Threads) \in Nat
    <3>1. \A u \in Threads : complete[u] \in Nat
      BY DEF Ind
    <3>2. Sum(complete, Threads) = complete[t] + Sum(complete, Threads \ {t})
      BY <3>1, SumWithout, ThreadsFinite
    <3>3. IsFiniteSet(Threads \ {t})
      BY FS_RemoveElement, ThreadsFinite
    <3>4. Sum(complete, Threads \ {t}) \in Nat
      BY <3>1, <3>3, ColumnsFinite
    <3> QED BY <3>1, <3>2, <3>4
  <2>2. requests[t] \in 0 .. MaxResponses
    BY <2>1, MeasurementAssumption DEF Ind
  <2> QED BY <2>2 DEF Rates
<1>3. sampling'[t] = [step |-> "waiting", rate |-> RateOf(requests[t]),
                      seen |-> sampling[t].seen]
      /\ sampling'[t] \in Samplers /\ \A u \in Threads \ {t} : sampling'[u] = sampling[u]
  <2>1. PICK s, q : s = sampling[t] /\ q = RateOf(requests[t])
    OBVIOUS
  <2>2. s \in Samplers /\ sampling \in [Threads -> Samplers] /\ q \in Rates
    BY <1>2, <2>1 DEF Ind
  <2>3. sampling'[t] = [[s EXCEPT !.step = "waiting"] EXCEPT !.rate = q]
        /\ \A u \in Threads \ {t} : sampling'[u] = sampling[u]
    <3>1. PICK g : g = [sampling EXCEPT ![t].step = "waiting"]
      OBVIOUS
    <3>2. DOMAIN sampling = Threads
      BY <2>2
    <3>3. /\ DOMAIN g = Threads /\ g[t] = [s EXCEPT !.step = "waiting"]
          /\ \A u \in Threads \ {t} : g[u] = sampling[u]
      BY <2>1, <3>1, <3>2
    <3>4. sampling' = [g EXCEPT ![t].rate = q]
      BY <1>1, <2>1, <3>1
    <3>5. sampling'[t] = [g[t] EXCEPT !.rate = q] /\ \A u \in Threads \ {t} : sampling'[u] = g[u]
      BY <3>3, <3>4
    <3> QED BY <3>3, <3>5
  <2>4. [[s EXCEPT !.step = "waiting"] EXCEPT !.rate = q]
           = [step |-> "waiting", rate |-> q, seen |-> s.seen]
    <3>1. PICK a, b, e : s = [step |-> a, rate |-> b, seen |-> e]
      BY <2>2 DEF Samplers
    <3>2. s.rate = b /\ s.seen = e
      BY <3>1
    <3>3. PICK one : one = [s EXCEPT !.step = "waiting"]
      OBVIOUS
    <3>4. one = [step |-> "waiting", rate |-> b, seen |-> e]
      BY <3>1, <3>3
    <3>5. [one EXCEPT !.rate = q] = [step |-> "waiting", rate |-> q, seen |-> e]
      BY <3>4
    <3> QED BY <3>2, <3>3, <3>5
  <2>5. [step |-> "waiting", rate |-> q, seen |-> s.seen] \in Samplers
    BY <2>2 DEF Samplers
  <2> QED BY <2>1, <2>3, <2>4, <2>5
<1>4. sampling' \in [Threads -> Samplers]
  BY <1>1, <1>3 DEF Ind
<1>5. \A u \in Threads :
         /\ sampling'[u].step # "idle" => sampling'[u].rate \in Rates /\ phase'[u] # "ended"
         /\ sampling'[u].step = "locked" <=> mutex' = u
         /\ sampling'[u].step = "locked" => sampling'[u].seen = rates'.hist.total_count
  BY <1>1, <1>2, <1>3 DEF Ind
<1> QED BY <1>1, <1>4, <1>5 DEF Ind

LEMMA RecordInd ==
    ASSUME Ind, NEW t \in Threads, Record(t) PROVE Ind'
<1> DEFINE rate == sampling[t].rate
           k == CountsIndexFor(rate)
<1>1. /\ sampling[t].step = "waiting" /\ mutex = None /\ mutex' = t
      /\ rates' = [rates EXCEPT !.min = IF rate < @ THEN rate ELSE @,
                                !.max = IF rate > @ THEN rate ELSE @,
                                !.hist.counts[k] = @ + 1]
      /\ sampling' = [sampling EXCEPT ![t].step = "locked",
                                      ![t].seen = rates.hist.total_count]
      /\ UNCHANGED <<phase, complete, requests, latency, kept, samples>>
  BY DEF Record, LockFree
<1>2. rate \in Rates /\ rate \in Int
  BY <1>1, RatesFinite DEF Ind
<1> HIDE DEF k, rate
<1> DEFINE h == [rates.hist EXCEPT !.counts[k] = @ + 1]
<1>3. h.total_count = rates.hist.total_count /\ h \in Histograms
      /\ h.counts = [rates.hist.counts EXCEPT ![k] = @ + 1]
  <2>1. rates.hist \in Histograms
    BY DEF Ind
  <2>2. RecordValue(rates.hist, rate) \in Histograms
    BY <2>1, RecordKeepsHistogram
  <2>3. [rates.hist.counts EXCEPT ![k] = @ + 1] \in [Indexes -> Nat]
    BY <2>2 DEF RecordValue, RecordValues, Histograms, k
  <2> DEFINE c == [rates.hist.counts EXCEPT ![k] = @ + 1]
  <2>4. h = [rates.hist EXCEPT !.counts = c]
    OBVIOUS
  <2> HIDE DEF c, h
  <2>5. h = [counts |-> c, total_count |-> rates.hist.total_count]
    BY <2>1, <2>4 DEF Histograms
  <2>6. c \in [Indexes -> Nat]
    BY <2>3 DEF c
  <2> QED BY <2>1, <2>5, <2>6 DEF Histograms, c
<1>4. rates' \in [min : Int, max : Int, hist : Histograms] /\ rates'.hist = h
  <2>1. rates' = [[[rates EXCEPT !.min = IF rate < @ THEN rate ELSE @]
                     EXCEPT !.max = IF rate > @ THEN rate ELSE @]
                     EXCEPT !.hist = h]
    BY <1>1
  <2> HIDE DEF h
  <2> QED BY <1>2, <1>3, <2>1 DEF Ind
<1> HIDE DEF h
<1>5. sampling'[t] = [step |-> "locked", rate |-> rate, seen |-> rates.hist.total_count]
      /\ \A u \in Threads \ {t} : sampling'[u] = sampling[u]
  <2>1. PICK s, q : s = sampling[t] /\ q = rates.hist.total_count
    OBVIOUS
  <2>2. s \in Samplers /\ sampling \in [Threads -> Samplers]
    BY <2>1 DEF Ind
  <2>3. sampling'[t] = [[s EXCEPT !.step = "locked"] EXCEPT !.seen = q]
        /\ \A u \in Threads \ {t} : sampling'[u] = sampling[u]
    <3>1. PICK g : g = [sampling EXCEPT ![t].step = "locked"]
      OBVIOUS
    <3>2. DOMAIN sampling = Threads
      BY <2>2
    <3>3. /\ DOMAIN g = Threads /\ g[t] = [s EXCEPT !.step = "locked"]
          /\ \A u \in Threads \ {t} : g[u] = sampling[u]
      BY <2>1, <3>1, <3>2
    <3>4. sampling' = [g EXCEPT ![t].seen = q]
      BY <1>1, <2>1, <3>1
    <3>5. sampling'[t] = [g[t] EXCEPT !.seen = q] /\ \A u \in Threads \ {t} : sampling'[u] = g[u]
      BY <3>3, <3>4
    <3> QED BY <3>3, <3>5
  <2>4. [[s EXCEPT !.step = "locked"] EXCEPT !.seen = q]
           = [step |-> "locked", rate |-> s.rate, seen |-> q]
    <3>1. PICK a, b, e : s = [step |-> a, rate |-> b, seen |-> e]
      BY <2>2 DEF Samplers
    <3>2. s.rate = b /\ s.seen = e
      BY <3>1
    <3>3. PICK one : one = [s EXCEPT !.step = "locked"]
      OBVIOUS
    <3>4. one = [step |-> "locked", rate |-> b, seen |-> e]
      BY <3>1, <3>3
    <3>5. [one EXCEPT !.seen = q] = [step |-> "locked", rate |-> b, seen |-> q]
      BY <3>4
    <3> QED BY <3>2, <3>3, <3>5
  <2> QED BY <2>1, <2>3, <2>4 DEF rate
<1>6. rates.hist.total_count \in Nat
  BY DEF Ind, Histograms
<1>7. sampling' \in [Threads -> Samplers]
  <2>1. sampling'[t] \in Samplers
    BY <1>2, <1>5, <1>6 DEF Samplers
  <2> QED BY <1>1, <1>5, <2>1 DEF Ind
<1>8. \A u \in Threads :
         /\ sampling'[u].step # "idle" => sampling'[u].rate \in Rates /\ phase'[u] # "ended"
         /\ sampling'[u].step = "locked" <=> mutex' = u
         /\ sampling'[u].step = "locked" => sampling'[u].seen = rates'.hist.total_count
  <2> SUFFICES ASSUME NEW u \in Threads
               PROVE
         /\ sampling'[u].step # "idle" => sampling'[u].rate \in Rates /\ phase'[u] # "ended"
         /\ sampling'[u].step = "locked" <=> mutex' = u
         /\ sampling'[u].step = "locked" => sampling'[u].seen = rates'.hist.total_count
    OBVIOUS
  <2>1. CASE u = t
    <3>1. sampling'[t].step = "locked" /\ sampling'[t].rate = rate
          /\ sampling'[t].seen = rates.hist.total_count
      BY <1>5
    <3>2. phase'[t] # "ended"
      BY <1>1 DEF Ind
    <3>3. rates'.hist.total_count = rates.hist.total_count
      BY <1>3, <1>4
    <3> QED BY <1>1, <1>2, <2>1, <3>1, <3>2, <3>3
  <2>2. CASE u # t
    <3>1. sampling'[u] = sampling[u] /\ mutex' # u
      BY <1>1, <1>5, <2>2
    <3>2. sampling[u].step # "locked"
      BY <1>1, ThreadsFinite DEF Ind
    <3> QED BY <1>1, <3>1, <3>2 DEF Ind
  <2> QED BY <2>1, <2>2
<1>9. rates'.hist.total_count = Sum(samples, Rates)
  BY <1>3, <1>4 DEF Ind
<1> QED BY <1>1, <1>4, <1>7, <1>8, <1>9 DEF Ind

LEMMA EndSampleInd ==
    ASSUME Ind, NEW t \in Threads, EndSample(t) PROVE Ind'
<1> DEFINE rate == sampling[t].rate
<1>1. /\ sampling[t].step = "locked" /\ mutex' = None
      /\ rates' = [rates EXCEPT !.hist.total_count = sampling[t].seen + 1]
      /\ samples' = [samples EXCEPT ![rate] = @ + 1]
      /\ sampling' = [sampling EXCEPT ![t] = Idle]
      /\ requests' = [requests EXCEPT ![t] = 0]
      /\ UNCHANGED <<phase, complete, latency, kept>>
  BY DEF EndSample, Unlock
<1>2. rate \in Rates /\ sampling[t].seen = rates.hist.total_count /\ mutex = t
  BY <1>1 DEF Ind
<1>3. /\ rates'.hist = [counts |-> rates.hist.counts,
                        total_count |-> rates.hist.total_count + 1]
      /\ rates' \in [min : Int, max : Int, hist : Histograms]
  <2> DEFINE n == rates.hist.total_count + 1
             h == [rates.hist EXCEPT !.total_count = n]
  <2>1. rates' = [rates EXCEPT !.hist = h]
    <3>1. sampling[t].seen + 1 = n
      BY <1>2
    <3> QED BY <1>1, <3>1
  <2>3. h = [counts |-> rates.hist.counts, total_count |-> n]
    <3> HIDE DEF n
    <3> QED BY DEF Ind, Histograms
  <2>2. [counts |-> rates.hist.counts, total_count |-> rates.hist.total_count + 1]
           \in Histograms
    BY DEF Ind, Histograms
  <2> HIDE DEF h
  <2> QED BY <2>1, <2>2, <2>3 DEF Ind
<1>4. samples' \in [Rates -> Nat]
  BY <1>1, <1>2 DEF Ind
<1> HIDE DEF rate
<1>5. rates'.hist.total_count = Sum(samples', Rates)
  <2>1. \A y \in Rates : samples[y] \in Nat /\ samples'[y] \in Nat
    BY <1>4 DEF Ind
  <2>2. \A y \in Rates \ {rate} : samples[y] = samples'[y]
    BY <1>1 DEF Ind
  <2>3. /\ Sum(samples, Rates) \in Nat /\ Sum(samples', Rates) \in Nat
        /\ Sum(samples', Rates) + samples[rate] = Sum(samples, Rates) + samples'[rate]
    <3>1. rate \in Rates /\ IsFiniteSet(Rates)
      BY <1>2, RatesFinite
    <3> QED BY ONLY <2>1, <2>2, <3>1, SumChanges
  <2>4. samples'[rate] = samples[rate] + 1 /\ samples[rate] \in Nat
    BY <1>1, <1>2 DEF Ind
  <2>5. rates'.hist.total_count = Sum(samples, Rates) + 1
    BY <1>3 DEF Ind
  <2> QED BY <2>3, <2>4, <2>5
<1>6. sampling' \in [Threads -> Samplers] /\ sampling'[t].step = "idle"
      /\ \A u \in Threads \ {t} : sampling'[u] = sampling[u]
  BY <1>1 DEF Ind, Samplers, Idle
<1>7. \A u \in Threads :
         /\ sampling'[u].step # "idle" => sampling'[u].rate \in Rates /\ phase'[u] # "ended"
         /\ sampling'[u].step = "locked" <=> mutex' = u
         /\ sampling'[u].step = "locked" => sampling'[u].seen = rates'.hist.total_count
  BY <1>1, <1>2, <1>6, ThreadsFinite DEF Ind
<1>8. \A u \in Threads : requests'[u] <= complete'[u]
  BY <1>1 DEF Ind
<1>9. requests' \in [Threads -> Nat]
  BY <1>1 DEF Ind
<1> QED BY <1>1, <1>3, <1>4, <1>5, <1>6, <1>7, <1>8, <1>9 DEF Ind

LEMMA NextInd == Ind /\ [Next]_vars => Ind'
<1> SUFFICES ASSUME Ind, [Next]_vars PROVE Ind'
  OBVIOUS
<1>1. ASSUME NEW t \in Threads, EndThread(t) PROVE Ind'
  <2>1. /\ sampling[t].step = "idle" /\ phase' = [phase EXCEPT ![t] = "ended"]
        /\ UNCHANGED <<complete, requests, latency, kept, sampling, mutex, rates, samples>>
    BY <1>1 DEF EndThread, Active
  <2> QED BY <2>1 DEF Ind
<1>2. CASE Join \/ Merge \/ UNCHANGED vars
  BY <1>2 DEF Join, Merge, vars, Ind
<1> QED BY <1>1, <1>2, ResponseCompleteInd, CalibrateInd, SampleRateInd, RecordInd,
           EndSampleInd DEF Next

LEMMA Inductive == Spec => []Ind
BY InitInd, NextInd, PTL DEF Spec

\* Whatever the order in which the threads take the mutex and write total_count, no sample
\* of a rate is lost and none is counted twice.
THEOREM NoSampleLost == Spec => []SamplesAddUp
<1>1. Ind => SamplesAddUp
  BY SizeIsSum, RatesFinite DEF Ind, SamplesAddUp
<1> QED BY Inductive, <1>1, PTL

LEMMA LatenciesFinite ==
    ASSUME FitsInts
    PROVE  IsFiniteSet(Latencies) /\ Latencies \subseteq Nat /\ Latencies \subseteq Values
<1> DEFINE last == BucketCount - 1
           t == Top(last)
<1>1. last \in Nat
  <2>1. BucketCount \in 1 .. 62
    BY Parameter
  <2> QED BY <2>1
<1>2. Values = 0 .. (t - 1)
  BY ValuesEnd
<1> HIDE DEF last
<1>3. t \in Nat
  BY <1>1, Tops
<1> HIDE DEF t
<1>4. IsFiniteSet(0 .. (t - 1))
  BY <1>3, FS_Interval
<1>5. Latencies \subseteq Values /\ Values \subseteq Nat
  BY MeasurementAssumption, ValuesAreNat
<1>6. IsFiniteSet(Latencies)
  BY <1>2, <1>4, <1>5, FS_Subset
<1> QED BY <1>5, <1>6

LEMMA AddsUpIs ==
    ASSUME FitsInts, NEW h \in Histograms
    PROVE  AddsUp(h) <=> Sum(h.counts, Indexes) = h.total_count
<1>1. {i \in Indexes : i <= CountsLen - 1} = Indexes
  BY Parameter
<1> QED BY <1>1, CountToIs DEF AddsUp

-----------------------------------------------------------------------------------
(* What the counters count.                                                          *)

\* The latencies that counter i counts, and how often the first m threads kept each.
Kind(i)   == {v \in Latencies : CountsIndexFor(v) = i}
KeptTo(m) == [v \in Latencies |-> Sum([t \in Threads |-> kept[t][v]], 1 .. m)]

\* A histogram is that of the latencies in a bag.
Counts(h, bag) ==
    /\ Sum(h.counts, Indexes) = h.total_count
    /\ \A i \in Indexes : h.counts[i] = Sum(bag, Kind(i))

\* The histograms of the threads count what they kept, the shared one what was recorded,
\* with one more in its counters while a thread is about to write total_count; and main's
\* is that of the threads it has come to, which have all ended.
CountInd ==
    /\ Ind
    /\ \A t \in Threads : Counts(latency[t], kept[t])
    /\ Sum(rates.hist.counts, Indexes)
          = rates.hist.total_count + (IF mutex = None THEN 0 ELSE 1)
    /\ merged \in {NotJoined} \cup 0 .. NThreads
    /\ merged = NotJoined => total = [complete |-> 0, latency |-> Empty]
    /\ merged # NotJoined =>
          /\ \A t \in Threads : phase[t] = "ended"
          /\ total \in [complete : Nat, latency : Histograms]
          /\ total.complete = Sum(complete, 1 .. merged)
          /\ Counts(total.latency, KeptTo(merged))

LEMMA KindFinite ==
    ASSUME FitsInts, NEW i
    PROVE  IsFiniteSet(Kind(i)) /\ Kind(i) \subseteq Latencies
<1>1. Kind(i) \subseteq Latencies
  BY DEF Kind
<1> QED BY <1>1, LatenciesFinite, FS_Subset

LEMMA EmptyCounts ==
    ASSUME FitsInts, NEW bag, \A v \in Latencies : bag[v] = 0
    PROVE  Counts(Empty, bag)
<1> DEFINE g == Empty.counts
<1>1. \A i \in Indexes : g[i] = 0
  BY DEF Empty
<1>2. Empty.total_count = 0
  BY DEF Empty
<1>3. Sum(g, Indexes) = 0
  <2> HIDE DEF g
  <2> QED BY <1>1, SumOfZeros
<1>4. \A i \in Indexes : Sum(bag, Kind(i)) = 0
  BY KindFinite, SumOfZeros
<1> QED BY <1>1, <1>2, <1>3, <1>4 DEF Counts

LEMMA OneMore ==
    ASSUME FitsInts, NEW f \in [Indexes -> Nat], NEW k \in Indexes
    PROVE  Sum([f EXCEPT ![k] = @ + 1], Indexes) = Sum(f, Indexes) + 1
           /\ Sum(f, Indexes) \in Nat
<1> DEFINE g == [f EXCEPT ![k] = @ + 1]
<1>1. g \in [Indexes -> Nat] /\ g[k] = f[k] + 1 /\ f[k] \in Nat
      /\ \A i \in Indexes \ {k} : f[i] = g[i]
  OBVIOUS
<1> HIDE DEF g
<1>2. IsFiniteSet(Indexes)
  BY IndexesFinite
<1>3. /\ Sum(f, Indexes) \in Nat /\ Sum(g, Indexes) \in Nat
      /\ Sum(g, Indexes) + f[k] = Sum(f, Indexes) + g[k]
  BY <1>1, <1>2, SumChanges
<1> QED BY <1>1, <1>3 DEF g

\* A latency is recorded and kept.
LEMMA RecordCounts ==
    ASSUME FitsInts, NEW h \in Histograms, NEW bag \in [Latencies -> Nat], NEW v \in Latencies,
           Counts(h, bag)
    PROVE  Counts(RecordValue(h, v), [bag EXCEPT ![v] = @ + 1])
<1> DEFINE k == CountsIndexFor(v)
           g == [h.counts EXCEPT ![k] = @ + 1]
           new == [bag EXCEPT ![v] = @ + 1]
<1>1. k \in Indexes /\ h.counts \in [Indexes -> Nat] /\ h.total_count \in Nat
  BY LatenciesFinite, IndexOfValue DEF Histograms
<1>2. RecordValue(h, v).counts = g /\ RecordValue(h, v).total_count = h.total_count + 1
  BY DEF RecordValue, RecordValues
<1>3. Sum(g, Indexes) = h.total_count + 1
  <2> HIDE DEF k
  <2>1. Sum(g, Indexes) = Sum(h.counts, Indexes) + 1
    BY <1>1, OneMore
  <2> QED BY <2>1 DEF Counts
<1>4. new \in [Latencies -> Nat] /\ new[v] = bag[v] + 1 /\ bag[v] \in Nat
      /\ \A w \in Latencies \ {v} : bag[w] = new[w]
  OBVIOUS
<1>5. ASSUME NEW i \in Indexes PROVE g[i] = Sum(new, Kind(i))
  <2>1. /\ IsFiniteSet(Kind(i)) /\ Kind(i) \subseteq Latencies
        /\ h.counts[i] = Sum(bag, Kind(i))
    BY KindFinite DEF Counts
  <2>2. CASE i = k
    <3>1. v \in Kind(i)
      BY <2>2 DEF Kind
    <3> HIDE DEF new
    <3>2. /\ Sum(bag, Kind(i)) \in Nat /\ Sum(new, Kind(i)) \in Nat
          /\ Sum(new, Kind(i)) + bag[v] = Sum(bag, Kind(i)) + new[v]
      <4>1. \A w \in Kind(i) : bag[w] \in Nat /\ new[w] \in Nat
        BY <1>4, <2>1
      <4>2. \A w \in Kind(i) \ {v} : bag[w] = new[w]
        BY <1>4, <2>1
      <4> QED BY <2>1, <3>1, <4>1, <4>2, SumChanges
    <3>3. g[i] = h.counts[i] + 1
      <4> HIDE DEF k
      <4> QED BY <1>1, <2>2
    <3> QED BY <1>4, <2>1, <3>2, <3>3
  <2>3. CASE i # k
    <3>1. v \notin Kind(i)
      BY <2>3 DEF Kind
    <3> HIDE DEF new
    <3>2. \A w \in Kind(i) : bag[w] = new[w]
      BY <1>4, <2>1, <3>1
    <3>3. Sum(bag, Kind(i)) = Sum(new, Kind(i))
      BY <3>2, SumSame
    <3>4. g[i] = h.counts[i]
      <4> HIDE DEF k
      <4> QED BY <1>1, <2>3
    <3> QED BY <2>1, <3>3, <3>4
  <2> QED BY <2>2, <2>3
<1> QED BY <1>2, <1>3, <1>5 DEF Counts

\* What main comes to next.
LEMMA KeptToNext ==
    ASSUME Ind, NEW m \in 0 .. (NThreads - 1), NEW v \in Latencies
    PROVE  /\ KeptTo(m)[v] \in Nat /\ kept[m + 1][v] \in Nat
           /\ KeptTo(m + 1)[v] = KeptTo(m)[v] + kept[m + 1][v]
<1> DEFINE g == [t \in Threads |-> kept[t][v]]
<1>1. NThreads \in Nat /\ m \in Nat /\ m + 1 \in Threads /\ 1 .. m \subseteq Threads
      /\ 1 .. (m + 1) \subseteq Threads
  BY MeasurementAssumption DEF Threads
<1>2. \A t \in Threads : g[t] \in Nat /\ g[t] = kept[t][v]
  BY DEF Ind
<1>3. m + 1 \in 1 .. (m + 1) /\ (1 .. (m + 1)) \ {m + 1} = 1 .. m
      /\ IsFiniteSet(1 .. (m + 1)) /\ IsFiniteSet(1 .. m)
  <2>1. m + 1 \in 1 .. (m + 1) /\ (1 .. (m + 1)) \ {m + 1} = 1 .. m
    BY <1>1
  <2>2. \A n \in Int : IsFiniteSet(1 .. n)
    BY FS_Interval
  <2>3. m \in Int /\ m + 1 \in Int
    BY <1>1
  <2> QED BY <2>1, <2>2, <2>3
<1>4. KeptTo(m)[v] = Sum(g, 1 .. m) /\ KeptTo(m + 1)[v] = Sum(g, 1 .. (m + 1))
  BY DEF KeptTo
<1> HIDE DEF g
<1>5. Sum(g, 1 .. (m + 1)) = g[m + 1] + Sum(g, (1 .. (m + 1)) \ {m + 1})
  <2>1. \A t \in 1 .. (m + 1) : g[t] \in Nat
    BY <1>1, <1>2
  <2> QED BY <1>3, <2>1, SumWithout
<1>6. Sum(g, 1 .. m) \in Nat
  BY <1>1, <1>2, <1>3, ColumnsFinite
<1>7. g[m + 1] \in Nat /\ g[m + 1] = kept[m + 1][v]
  BY <1>1, <1>2
<1>8. Sum(g, 1 .. (m + 1)) = g[m + 1] + Sum(g, 1 .. m)
  BY <1>3, <1>5
<1> QED BY <1>4, <1>6, <1>7, <1>8

\* Two histograms are added.
LEMMA AddCounts ==
    ASSUME FitsInts, NEW h \in Histograms, NEW from \in Histograms,
           NEW a, NEW b, NEW c, Counts(h, a), Counts(from, b),
           \A v \in Latencies : a[v] \in Nat /\ b[v] \in Nat /\ c[v] = a[v] + b[v]
    PROVE  Add(h, from) \in Histograms /\ Counts(Add(h, from), c)
<1>1. Sum(from.counts, Indexes) = from.total_count
  BY DEF Counts
<1> DEFINE f == h.counts
           g == from.counts
           e == [i \in Indexes |-> f[i] + g[i]]
<1>2. /\ Add(h, from) \in Histograms /\ Add(h, from).counts = e
      /\ Add(h, from).total_count = h.total_count + from.total_count
  BY <1>1, AddIs
<1>3. f \in [Indexes -> Nat] /\ g \in [Indexes -> Nat] /\ IsFiniteSet(Indexes)
  BY IndexesFinite DEF Histograms
<1>4. Sum(e, Indexes) = h.total_count + from.total_count
  <2>1. \A i \in Indexes : e[i] = f[i] + g[i] /\ f[i] \in Nat /\ g[i] \in Nat /\ e[i] \in Nat
    BY <1>3
  <2>2. Sum(f, Indexes) = h.total_count /\ Sum(g, Indexes) = from.total_count
    BY DEF Counts
  <2> HIDE DEF e, f, g
  <2>3. Sum(e, Indexes) = Sum(f, Indexes) + Sum(g, Indexes)
    BY <1>3, <2>1, SumOfPairs
  <2> QED BY <2>2, <2>3
<1>5. ASSUME NEW i \in Indexes PROVE e[i] = Sum(c, Kind(i))
  <2>1. f[i] = Sum(a, Kind(i)) /\ g[i] = Sum(b, Kind(i))
    BY DEF Counts
  <2>2. IsFiniteSet(Kind(i)) /\ Kind(i) \subseteq Latencies
    BY KindFinite
  <2>3. \A v \in Kind(i) : a[v] \in Nat /\ b[v] \in Nat /\ c[v] = a[v] + b[v]
    BY <2>2
  <2>4. Sum(c, Kind(i)) = Sum(a, Kind(i)) + Sum(b, Kind(i))
    <3>1. \A v \in Kind(i) : c[v] \in Nat
      BY <2>3
    <3> QED BY <2>2, <2>3, SumOfPairs
  <2> QED BY <2>1, <2>4
<1> QED BY <1>2, <1>4, <1>5 DEF Counts

\* What the shared histogram's counters add up to, and main's side of CountInd.
RatesCount ==
    Sum(rates.hist.counts, Indexes) = rates.hist.total_count + (IF mutex = None THEN 0 ELSE 1)

TotalCounts ==
    /\ merged \in {NotJoined} \cup 0 .. NThreads
    /\ merged = NotJoined => total = [complete |-> 0, latency |-> Empty]
    /\ merged # NotJoined =>
          /\ \A t \in Threads : phase[t] = "ended"
          /\ total \in [complete : Nat, latency : Histograms]
          /\ total.complete = Sum(complete, 1 .. merged)
          /\ Counts(total.latency, KeptTo(merged))

LEMMA CountIndIs ==
    CountInd <=> /\ Ind /\ (\A t \in Threads : Counts(latency[t], kept[t]))
                 /\ RatesCount /\ TotalCounts
BY DEF CountInd, RatesCount, TotalCounts

LEMMA InitCountInd == FitsInts /\ Init => CountInd
<1> SUFFICES ASSUME FitsInts, Init PROVE CountInd
  OBVIOUS
<1>1. Ind
  BY InitInd
<1>2. ASSUME NEW t \in Threads PROVE Counts(latency[t], kept[t])
  <2>1. latency[t] = Empty /\ kept[t] = BagOf(Latencies)
    BY DEF Init
  <2>2. \A v \in Latencies : BagOf(Latencies)[v] = 0
    BY DEF BagOf
  <2> QED BY <2>1, <2>2, EmptyCounts
<1>3. RatesCount
  <2> DEFINE g == Empty.counts
  <2>1. \A i \in Indexes : g[i] = 0
    BY DEF Empty
  <2>2. Empty.total_count = 0 /\ rates.hist = Empty /\ mutex = None
    BY DEF Empty, Init
  <2>3. Sum(g, Indexes) = 0
    <3> HIDE DEF g
    <3> QED BY <2>1, SumOfZeros
  <2> QED BY <2>2, <2>3 DEF RatesCount
<1>4. TotalCounts
  BY DEF Init, TotalCounts
<1> QED BY <1>1, <1>2, <1>3, <1>4, CountIndIs

\* A thread that is running has not been joined.
LEMMA NotJoinedYet ==
    ASSUME CountInd, NEW t \in Threads, phase[t] # "ended", UNCHANGED <<merged, total>>
    PROVE  TotalCounts'
BY DEF CountInd, TotalCounts

LEMMA ResponseCompleteCounts ==
    ASSUME FitsInts, CountInd, NEW t \in Threads, ResponseComplete(t) PROVE CountInd'
<1>1. PICK v \in Latencies :
        /\ phase[t] # "ended"
        /\ latency' = [latency EXCEPT ![t] = RecordValue(@, v)]
        /\ kept' = [kept EXCEPT ![t][v] = @ + 1]
        /\ UNCHANGED <<mutex, rates, merged, total>>
  BY DEF ResponseComplete, Active
<1>2. Ind /\ Ind'
  BY ResponseCompleteInd DEF CountInd
<1>3. ASSUME NEW u \in Threads PROVE Counts(latency'[u], kept'[u])
  <2>1. Counts(latency[u], kept[u])
    BY DEF CountInd
  <2>2. CASE u = t
    <3>1. latency[t] \in Histograms /\ kept[t] \in [Latencies -> Nat]
      BY <1>2 DEF Ind
    <3>2. latency'[t] = RecordValue(latency[t], v)
          /\ kept'[t] = [kept[t] EXCEPT ![v] = @ + 1]
      BY <1>1, <1>2 DEF Ind
    <3> QED BY <2>1, <2>2, <3>1, <3>2, RecordCounts
  <2>3. CASE u # t
    <3>1. latency'[u] = latency[u] /\ kept'[u] = kept[u]
      BY <1>1, <1>2, <2>3 DEF Ind
    <3> QED BY <2>1, <3>1
  <2> QED BY <2>2, <2>3
<1>4. RatesCount'
  BY <1>1 DEF CountInd, RatesCount
<1>5. TotalCounts'
  BY <1>1, NotJoinedYet
<1> QED BY <1>2, <1>3, <1>4, <1>5 DEF CountInd, RatesCount, TotalCounts

LEMMA CalibrateCounts ==
    ASSUME FitsInts, CountInd, NEW t \in Threads, Calibrate(t) PROVE CountInd'
<1>1. /\ phase[t] # "ended"
      /\ latency' = [latency EXCEPT ![t] = Empty]
      /\ kept' = [kept EXCEPT ![t] = BagOf(Latencies)]
      /\ UNCHANGED <<mutex, rates, merged, total>>
  BY DEF Calibrate, Reset
<1>2. Ind /\ Ind'
  BY CalibrateInd DEF CountInd
<1>3. ASSUME NEW u \in Threads PROVE Counts(latency'[u], kept'[u])
  <2>1. CASE u = t
    <3>1. latency'[t] = Empty /\ kept'[t] = BagOf(Latencies)
      BY <1>1, <1>2 DEF Ind
    <3>2. \A v \in Latencies : BagOf(Latencies)[v] = 0
      BY DEF BagOf
    <3> QED BY <2>1, <3>1, <3>2, EmptyCounts
  <2>2. CASE u # t
    <3>1. latency'[u] = latency[u] /\ kept'[u] = kept[u]
      BY <1>1, <1>2, <2>2 DEF Ind
    <3> QED BY <3>1 DEF CountInd
  <2> QED BY <2>1, <2>2
<1>4. RatesCount'
  BY <1>1 DEF CountInd, RatesCount
<1>5. TotalCounts'
  BY <1>1, NotJoinedYet
<1> QED BY <1>2, <1>3, <1>4, <1>5 DEF CountInd, RatesCount, TotalCounts

LEMMA RecordCountsRate ==
    ASSUME FitsInts, CountInd, NEW t \in Threads, Record(t) PROVE CountInd'
<1> DEFINE rate == sampling[t].rate
           k == CountsIndexFor(rate)
<1>1. /\ sampling[t].step = "waiting" /\ mutex = None /\ mutex' = t
      /\ rates' = [rates EXCEPT !.min = IF rate < @ THEN rate ELSE @,
                                !.max = IF rate > @ THEN rate ELSE @,
                                !.hist.counts[k] = @ + 1]
      /\ UNCHANGED <<latency, kept, merged, total>>
  BY DEF Record, LockFree
<1>2. Ind /\ Ind'
  BY RecordInd DEF CountInd
<1>3. phase[t] # "ended" /\ rate \in Rates
  BY <1>1, <1>2 DEF Ind
<1>4. k \in Indexes
  <2>1. rate \in Values
    BY <1>3, MeasurementAssumption DEF Rates
  <2> QED BY <2>1, IndexOfValue
<1> HIDE DEF k, rate
<1>5. RatesCount'
  <2> DEFINE f == rates.hist.counts
  <2>1. rates.hist \in Histograms /\ f \in [Indexes -> Nat] /\ rates.hist.total_count \in Nat
    BY <1>2 DEF Ind, Histograms
  <2>2. /\ rates'.hist.counts = [f EXCEPT ![k] = @ + 1]
        /\ rates'.hist.total_count = rates.hist.total_count
    BY <1>1, <1>2 DEF Ind, Histograms
  <2>3. Sum(f, Indexes) = rates.hist.total_count
    <3>1. Sum(f, Indexes) = rates.hist.total_count + 0
      BY <1>1 DEF CountInd
    <3> QED BY <2>1, <3>1
  <2> HIDE DEF f
  <2>4. Sum([f EXCEPT ![k] = @ + 1], Indexes) = Sum(f, Indexes) + 1
    BY <1>4, <2>1, OneMore
  <2>5. mutex' # None
    BY <1>1, ThreadsFinite
  <2> QED BY <2>2, <2>3, <2>4, <2>5 DEF RatesCount
<1>6. TotalCounts'
  BY <1>1, <1>3, NotJoinedYet
<1> QED BY <1>1, <1>2, <1>5, <1>6 DEF CountInd, RatesCount, TotalCounts

LEMMA EndSampleCounts ==
    ASSUME FitsInts, CountInd, NEW t \in Threads, EndSample(t) PROVE CountInd'
<1>1. /\ sampling[t].step = "locked" /\ mutex' = None
      /\ rates' = [rates EXCEPT !.hist.total_count = sampling[t].seen + 1]
      /\ UNCHANGED <<latency, kept, merged, total>>
  BY DEF EndSample, Unlock
<1>2. Ind /\ Ind'
  BY EndSampleInd DEF CountInd
<1>3. /\ phase[t] # "ended" /\ mutex = t /\ mutex # None
      /\ sampling[t].seen = rates.hist.total_count
  BY <1>1, <1>2, ThreadsFinite DEF Ind
<1>4. RatesCount'
  <2>1. /\ rates'.hist.counts = rates.hist.counts
        /\ rates'.hist.total_count = rates.hist.total_count + 1
        /\ rates.hist.total_count \in Nat
    BY <1>1, <1>2, <1>3 DEF Ind, Histograms
  <2>2. Sum(rates.hist.counts, Indexes) = rates.hist.total_count + 1
    BY <1>3 DEF CountInd
  <2>3. Sum(rates'.hist.counts, Indexes) = rates'.hist.total_count + 0
    BY <2>1, <2>2
  <2> QED BY <1>1, <2>3 DEF RatesCount
<1>5. TotalCounts'
  BY <1>1, <1>3, NotJoinedYet
<1> QED BY <1>1, <1>2, <1>4, <1>5 DEF CountInd, RatesCount, TotalCounts

LEMMA JoinCounts ==
    ASSUME FitsInts, CountInd, Join PROVE CountInd'
<1>1. /\ merged = NotJoined /\ (\A t \in Threads : phase[t] = "ended") /\ merged' = 0
      /\ UNCHANGED <<phase, complete, requests, latency, kept, sampling, mutex, rates, samples,
                     total>>
  BY DEF Join, JoinAll
<1>2. Ind /\ Ind'
  BY <1>1 DEF CountInd, Ind
<1>3. total' = [complete |-> 0, latency |-> Empty] /\ 0 # NotJoined
  BY <1>1 DEF CountInd, NotJoined
<1>4. 1 .. 0 = {}
  OBVIOUS
<1>5. Sum(complete', 1 .. 0) = 0
  BY <1>4, SumOfNone
<1>6. Counts(Empty, KeptTo(0)')
  <2> DEFINE bag == KeptTo(0)'
  <2>1. \A v \in Latencies : bag[v] = 0
    BY <1>4, SumOfNone DEF KeptTo
  <2> HIDE DEF bag
  <2>2. Counts(Empty, bag)
    BY <2>1, EmptyCounts
  <2> QED BY <2>2 DEF bag
<1>7. TotalCounts'
  <2>1. total' \in [complete : Nat, latency : Histograms] /\ total'.complete = 0
        /\ total'.latency = Empty
    BY <1>3, EmptyIsHistogram
  <2>2. merged' \in {NotJoined} \cup 0 .. NThreads
    BY <1>1, MeasurementAssumption
  <2> QED BY <1>1, <1>3, <1>5, <1>6, <2>1, <2>2 DEF TotalCounts
<1>8. RatesCount'
  BY <1>1 DEF CountInd, RatesCount
<1> QED BY <1>1, <1>2, <1>7, <1>8 DEF CountInd, RatesCount, TotalCounts

LEMMA MergeCounts ==
    ASSUME FitsInts, CountInd, Merge PROVE CountInd'
<1> DEFINE m == merged
<1>1. /\ merged \in 0 .. (NThreads - 1) /\ merged' = merged + 1
      /\ total' = [complete |-> total.complete + complete[merged + 1],
                   latency  |-> Add(total.latency, latency[merged + 1])]
      /\ UNCHANGED <<phase, complete, requests, latency, kept, sampling, mutex, rates, samples>>
  BY DEF Merge
<1>2. Ind /\ Ind'
  BY <1>1 DEF CountInd, Ind
<1>3. merged # NotJoined /\ NThreads \in Nat /\ merged + 1 \in Threads
      /\ merged' # NotJoined /\ merged' \in {NotJoined} \cup 0 .. NThreads
  BY <1>1, MeasurementAssumption DEF NotJoined, Threads
<1>4. /\ \A t \in Threads : phase[t] = "ended"
      /\ total.complete \in Nat /\ total.latency \in Histograms
      /\ total.complete = Sum(complete, 1 .. merged)
      /\ Counts(total.latency, KeptTo(merged))
      /\ Counts(latency[merged + 1], kept[merged + 1])
      /\ latency[merged + 1] \in Histograms /\ complete[merged + 1] \in Nat
  BY <1>2, <1>3 DEF CountInd, Ind
<1>5. Add(total.latency, latency[merged + 1]) \in Histograms
      /\ Counts(Add(total.latency, latency[merged + 1]), KeptTo(merged + 1))
  <2> DEFINE h == total.latency
             from == latency[merged + 1]
             a == KeptTo(merged)
             b == kept[merged + 1]
             c == KeptTo(merged + 1)
  <2>1. \A v \in Latencies : a[v] \in Nat /\ b[v] \in Nat /\ c[v] = a[v] + b[v]
    BY <1>1, <1>2, KeptToNext
  <2>2. h \in Histograms /\ from \in Histograms /\ Counts(h, a) /\ Counts(from, b)
    BY <1>4
  <2> HIDE DEF h, from, a, b, c
  <2>3. Add(h, from) \in Histograms /\ Counts(Add(h, from), c)
    BY <2>1, <2>2, AddCounts
  <2> QED BY <2>3 DEF h, from, c
<1>7. Counts(total.latency, KeptTo(merged))'
  <2>1. KeptTo(merged)' = KeptTo(merged + 1)
    BY <1>1 DEF KeptTo
  <2>2. total'.latency = Add(total.latency, latency[merged + 1])
    BY <1>1
  <2>3. Counts(total'.latency, KeptTo(merged)')
    BY <1>5, <2>1, <2>2
  <2> QED BY <2>3
<1>8. total'.complete = Sum(complete', 1 .. merged')
  <2> DEFINE S == 1 .. (merged + 1)
             x == merged + 1
             R == 1 .. merged
  <2>1. x \in S /\ S \ {x} = R /\ S \subseteq Threads
    BY <1>1, <1>3 DEF Threads
  <2>2. IsFiniteSet(S)
    <3>1. \A n \in Int : IsFiniteSet(1 .. n)
      BY FS_Interval
    <3>2. merged + 1 \in Int
      BY <1>1
    <3> QED BY <3>1, <3>2
  <2> HIDE DEF S, x, R
  <2>3. \A t \in S : complete[t] \in Nat
    BY <1>2, <2>1 DEF Ind
  <2>4. Sum(complete, S) = complete[x] + Sum(complete, S \ {x})
    BY ONLY <2>1, <2>2, <2>3, SumWithout
  <2>5. Sum(complete, S) = complete[x] + Sum(complete, R)
    BY <2>1, <2>4
  <2>6. total'.complete = total.complete + complete[x] /\ complete' = complete
        /\ 1 .. merged' = S
    BY <1>1 DEF S, x
  <2>7. total.complete = Sum(complete, R) /\ total.complete \in Nat /\ complete[x] \in Nat
    BY <1>4 DEF R, x
  <2> QED BY <2>5, <2>6, <2>7
<1>9. total' \in [complete : Nat, latency : Histograms]
  BY <1>1, <1>4, <1>5
<1>10. TotalCounts'
  BY <1>1, <1>3, <1>4, <1>7, <1>8, <1>9 DEF TotalCounts
<1>11. RatesCount'
  BY <1>1 DEF CountInd, RatesCount
<1>12. \A t \in Threads : Counts(latency'[t], kept'[t])
  BY <1>1 DEF CountInd
<1> QED BY <1>2, <1>10, <1>11, <1>12 DEF CountInd, RatesCount, TotalCounts

LEMMA NextCountInd == FitsInts /\ CountInd /\ [Next]_vars => CountInd'
<1> SUFFICES ASSUME FitsInts, CountInd, [Next]_vars PROVE CountInd'
  OBVIOUS
<1>1. ASSUME NEW t \in Threads, SampleRate(t) PROVE CountInd'
  <2>1. /\ phase[t] # "ended" /\ UNCHANGED <<latency, kept, mutex, rates, merged, total>>
    BY <1>1 DEF SampleRate, Active
  <2>2. Ind'
    BY <1>1, SampleRateInd DEF CountInd
  <2>3. TotalCounts'
    BY <2>1, NotJoinedYet
  <2> QED BY <2>1, <2>2, <2>3 DEF CountInd, TotalCounts
<1>2. ASSUME NEW t \in Threads, EndThread(t) PROVE CountInd'
  <2>1. /\ phase[t] # "ended" /\ UNCHANGED <<latency, kept, mutex, rates, merged, total>>
    BY <1>2 DEF EndThread, Active
  <2>2. Ind'
    BY NextInd DEF CountInd
  <2>3. TotalCounts'
    BY <2>1, NotJoinedYet
  <2> QED BY <2>1, <2>2, <2>3 DEF CountInd, TotalCounts
<1>3. CASE UNCHANGED vars
  <2>1. KeptTo(merged)' = KeptTo(merged)
    BY <1>3 DEF vars, KeptTo
  <2>2. Ind'
    BY NextInd DEF CountInd
  <2> QED BY <1>3, <2>1, <2>2 DEF vars, CountInd
<1> QED BY <1>1, <1>2, <1>3, ResponseCompleteCounts, CalibrateCounts, RecordCountsRate,
           EndSampleCounts, JoinCounts, MergeCounts DEF Next

LEMMA CountInvariance == ASSUME FitsInts PROVE Spec => []CountInd
<1>1. Init => CountInd
  BY InitCountInd
<1>2. CountInd /\ [Next]_vars => CountInd'
  BY NextCountInd
<1> QED BY <1>1, <1>2, PTL DEF Spec

-----------------------------------------------------------------------------------
(* The theorems.                                                                     *)

\* What all threads kept.
AllKept == KeptTo(NThreads)

LEMMA KeptFold ==
    ASSUME Ind, NEW v \in Latencies PROVE KeptOf(v) = AllKept[v] /\ AllKept[v] \in Nat
<1> DEFINE g == [t \in Threads |-> kept[t][v]]
           iter == CHOOSE f :
              f = [s \in SUBSET Threads |->
                      IF s = {} THEN 0 ELSE kept[Pick(s)][v] + f[s \ {Pick(s)}]]
<1>1. \A f : Folds(g, Threads, f) <=>
         f = [s \in SUBSET Threads |->
                 IF s = {} THEN 0 ELSE kept[Pick(s)][v] + f[s \ {Pick(s)}]]
  <2> SUFFICES ASSUME NEW f
               PROVE  [s \in SUBSET Threads |->
                          IF s = {} THEN 0 ELSE g[Pick(s)] + f[s \ {Pick(s)}]]
                       = [s \in SUBSET Threads |->
                            IF s = {} THEN 0 ELSE kept[Pick(s)][v] + f[s \ {Pick(s)}]]
    BY Zenon DEF Folds
  <2>1. ASSUME NEW s \in SUBSET Threads, s # {} PROVE g[Pick(s)] = kept[Pick(s)][v]
    <3>1. Pick(s) \in Threads
      BY <2>1, PickIsIn
    <3> QED BY <3>1
  <2> HIDE DEF g
  <2> QED BY <2>1
<1>2. IsFiniteSet(Threads) /\ \A t \in Threads : g[t] \in Nat
  BY ThreadsFinite DEF Ind
<1>3. Folds(g, Threads, [s \in SUBSET Threads |-> Sum(g, s)])
  <2> HIDE DEF g
  <2> QED BY <1>2, FoldExists
<1>4. Folds(g, Threads, iter)
  <2> HIDE DEF g
  <2> QED BY <1>1, <1>3
<1>5. iter[Threads] = Sum(g, Threads) /\ Sum(g, Threads) \in Nat
  <2> HIDE DEF iter, g
  <2> QED BY <1>2, <1>4, FoldUnique, ColumnsFinite
<1>6. KeptOf(v) = iter[Threads]
  BY DEF KeptOf, MapThenSumSet, MapThenFoldSet, Pick
<1>7. AllKept[v] = Sum(g, Threads)
  BY DEF AllKept, KeptTo, Threads
<1> QED BY <1>5, <1>6, <1>7

LEMMA AllKeptFold ==
    ASSUME FitsInts, Ind, NEW S \in SUBSET Latencies
    PROVE  MapThenSumSet(LAMBDA v : KeptOf(v), S) = Sum(AllKept, S)
<1> DEFINE iter == CHOOSE f :
              f = [s \in SUBSET S |->
                      IF s = {} THEN 0 ELSE KeptOf(Pick(s)) + f[s \ {Pick(s)}]]
<1>1. \A f : Folds(AllKept, S, f) <=>
         f = [s \in SUBSET S |->
                 IF s = {} THEN 0 ELSE KeptOf(Pick(s)) + f[s \ {Pick(s)}]]
  <2> SUFFICES ASSUME NEW f
               PROVE  [s \in SUBSET S |->
                          IF s = {} THEN 0 ELSE AllKept[Pick(s)] + f[s \ {Pick(s)}]]
                       = [s \in SUBSET S |->
                            IF s = {} THEN 0 ELSE KeptOf(Pick(s)) + f[s \ {Pick(s)}]]
    BY Zenon DEF Folds
  <2>1. ASSUME NEW s \in SUBSET S, s # {} PROVE AllKept[Pick(s)] = KeptOf(Pick(s))
    <3>1. Pick(s) \in Latencies
      BY <2>1, PickIsIn
    <3> QED BY <3>1, KeptFold
  <2> QED BY <2>1
<1>2. IsFiniteSet(S) /\ \A v \in S : AllKept[v] \in Nat
  BY LatenciesFinite, FS_Subset, KeptFold
<1>3. Folds(AllKept, S, [s \in SUBSET S |-> Sum(AllKept, s)])
  BY <1>2, FoldExists
<1>4. Folds(AllKept, S, iter)
  BY <1>1, <1>3
<1>5. iter[S] = Sum(AllKept, S)
  <2> HIDE DEF iter
  <2> QED BY <1>2, <1>4, FoldUnique
<1>6. MapThenSumSet(LAMBDA v : KeptOf(v), S) = iter[S]
  BY DEF MapThenSumSet, MapThenFoldSet, Pick
<1> QED BY <1>5, <1>6

\* When main reports, its histogram counts what the threads kept.
LEMMA ReportedCounts ==
    ASSUME FitsInts, CountInd, Reported
    PROVE  /\ total \in [complete : Nat, latency : Histograms]
           /\ total.complete = Sum(complete, Threads)
           /\ Counts(total.latency, AllKept) /\ mutex = None
<1>1. merged = NThreads /\ merged # NotJoined
  BY MeasurementAssumption DEF Reported, NotJoined
<1>2. /\ \A t \in Threads : phase[t] = "ended"
      /\ total \in [complete : Nat, latency : Histograms]
      /\ total.complete = Sum(complete, 1 .. merged)
      /\ Counts(total.latency, KeptTo(merged))
  BY <1>1 DEF CountInd
<1>3. mutex = None
  BY <1>2 DEF CountInd, Ind
<1> QED BY <1>1, <1>2, <1>3 DEF AllKept, Threads

LEMMA EmptyAddsUp == ASSUME FitsInts PROVE Sum(Empty.counts, Indexes) = Empty.total_count
<1>1. \A i \in Indexes : Empty.counts[i] = 0
  BY DEF Empty
<1>2. Sum(Empty.counts, Indexes) = 0
  BY <1>1, SumOfZeros
<1> QED BY <1>2 DEF Empty

LEMMA CountIndIterationsEnd == ASSUME FitsInts, CountInd PROVE IterationsEnd
<1>1. ASSUME NEW t \in Threads PROVE AddsUp(latency[t])
  <2>1. latency[t] \in Histograms
    BY DEF CountInd, Ind
  <2>2. Sum(latency[t].counts, Indexes) = latency[t].total_count
    BY DEF CountInd, Counts
  <2> QED BY <2>1, <2>2, AddsUpIs
<1>2. AddsUp(total.latency)
  <2>1. CASE merged = NotJoined
    <3>1. total.latency = Empty
      BY <2>1 DEF CountInd
    <3> QED BY <3>1, EmptyIsHistogram, EmptyAddsUp, AddsUpIs
  <2>2. CASE merged # NotJoined
    <3>1. total.latency \in Histograms
          /\ Sum(total.latency.counts, Indexes) = total.latency.total_count
      BY <2>2 DEF CountInd, Counts
    <3> QED BY <3>1, AddsUpIs
  <2> QED BY <2>1, <2>2
<1>3. ASSUME Reported PROVE AddsUp(rates.hist)
  <2>1. mutex = None
    BY <1>3, ReportedCounts
  <2>2. rates.hist \in Histograms /\ rates.hist.total_count \in Nat
    BY DEF CountInd, Ind, Histograms
  <2>3. Sum(rates.hist.counts, Indexes) = rates.hist.total_count + 0
    BY <2>1 DEF CountInd
  <2>4. Sum(rates.hist.counts, Indexes) = rates.hist.total_count
    BY <2>2, <2>3
  <2> QED BY <2>2, <2>4, AddsUpIs
<1> QED BY <1>1, <1>2, <1>3 DEF IterationsEnd

\* No iteration over a histogram runs past its counters: those of every histogram that is
\* read add up to its total_count (hdr_iter_next, hdr_add, hdr_mean, print_stats_latency).
THEOREM IterationsAlwaysEnd == ASSUME FitsInts PROVE Spec => []IterationsEnd
<1>1. CountInd => IterationsEnd
  BY CountIndIterationsEnd
<1> QED BY <1>1, CountInvariance, PTL

LEMMA CountIndMerge == ASSUME FitsInts, CountInd PROVE MergeLosesNothing
<1> SUFFICES ASSUME Reported
             PROVE  /\ total.complete = MapThenSumSet(LAMBDA t : complete[t], Threads)
                    /\ \A i \in Indexes : total.latency.counts[i] =
                          MapThenSumSet(LAMBDA v : KeptOf(v),
                                        {v \in Latencies : CountsIndexFor(v) = i})
  BY DEF MergeLosesNothing
<1>1. total.complete = MapThenSumSet(LAMBDA t : complete[t], Threads)
  <2>1. complete \in [Threads -> Nat]
    BY DEF CountInd, Ind
  <2> QED BY <2>1, ReportedCounts, CompleteIsSum
<1>2. ASSUME NEW i \in Indexes
      PROVE  total.latency.counts[i] =
                 MapThenSumSet(LAMBDA v : KeptOf(v), {v \in Latencies : CountsIndexFor(v) = i})
  <2>1. Ind /\ Kind(i) \in SUBSET Latencies
    BY DEF CountInd, Kind
  <2>2. MapThenSumSet(LAMBDA v : KeptOf(v), Kind(i)) = Sum(AllKept, Kind(i))
    BY <2>1, AllKeptFold
  <2>3. total.latency.counts[i] = Sum(AllKept, Kind(i))
    BY ReportedCounts DEF Counts
  <2> QED BY <2>2, <2>3 DEF Kind
<1> QED BY <1>1, <1>2

\* What main reports is what the threads recorded: no latency and no response is lost or
\* counted twice on the way through hdr_add (main, after pthread_join).
THEOREM NothingLostInTheTotal == ASSUME FitsInts PROVE Spec => []MergeLosesNothing
<1>1. CountInd => MergeLosesNothing
  BY CountIndMerge
<1> QED BY <1>1, CountInvariance, PTL

-----------------------------------------------------------------------------------
(* The percentiles.                                                                  *)

\* The latency of rank n of those in a bag, and how many are not above v.
UpTo(bag, v) == Sum(bag, {w \in Latencies : w <= v})
RankIn(bag, n) == Min({v \in Latencies : n <= UpTo(bag, v)})

LEMMA CountToCounts ==
    ASSUME FitsInts, NEW h \in Histograms, NEW bag, \A v \in Latencies : bag[v] \in Nat,
           Counts(h, bag), NEW k
    PROVE  CountTo(h, k) = Sum(bag, {v \in Latencies : CountsIndexFor(v) <= k})
<1> DEFINE S == {i \in Indexes : i <= k}
           kind == [v \in Latencies |-> CountsIndexFor(v)]
           c == h.counts
<1>1. IsFiniteSet(S) /\ IsFiniteSet(Latencies)
  BY IndexesFinite, LatenciesFinite, FS_Subset
<1>2. \A i \in S : c[i] = Sum(bag, OfKind(Latencies, kind, i))
  <2> SUFFICES ASSUME NEW i \in S PROVE c[i] = Sum(bag, OfKind(Latencies, kind, i))
    OBVIOUS
  <2>1. Kind(i) = OfKind(Latencies, kind, i)
    BY DEF Kind, OfKind
  <2> QED BY <2>1 DEF Counts
<1>3. OfKinds(Latencies, kind, S) = {v \in Latencies : CountsIndexFor(v) <= k}
  <2>1. \A v \in Latencies : CountsIndexFor(v) \in Indexes
    BY LatenciesFinite, IndexOfValue
  <2> QED BY <2>1 DEF OfKinds
<1>4. CountTo(h, k) = Sum(c, S)
  BY CountToIs
<1> HIDE DEF S, kind, c
<1>5. Sum(c, S) = Sum(bag, OfKinds(Latencies, kind, S))
  <2>1. \A v \in Latencies : bag[v] \in Nat
    OBVIOUS
  <2> QED BY ONLY <1>1, <1>2, <2>1, SumByKind
<1>6. Sum(c, S) = Sum(bag, {v \in Latencies : CountsIndexFor(v) <= k})
  BY <1>3, <1>5
<1> QED BY <1>4, <1>6

\* The latency of a rank is one of those in the bag, and fewer are below it.
LEMMA RankIsIn ==
    ASSUME FitsInts, NEW bag, \A v \in Latencies : bag[v] \in Nat,
           NEW n \in Nat, n >= 1, n <= Sum(bag, Latencies)
    PROVE  LET v == RankIn(bag, n) IN
           /\ v \in Latencies /\ n <= UpTo(bag, v) /\ bag[v] >= 1
           /\ Sum(bag, {w \in Latencies : w < v}) < n
<1> DEFINE S == {v \in Latencies : n <= UpTo(bag, v)}
           v == RankIn(bag, n)
           T == {w \in Latencies : w < v}
<1>1. IsFiniteSet(Latencies) /\ Latencies \subseteq Int
  BY LatenciesFinite
<1>2. Latencies # {}
  <2>1. Sum(bag, {}) = 0
    BY SumOfNone
  <2> QED BY <2>1
<1>3. S # {}
  <2> DEFINE m == Max(Latencies)
  <2>1. m \in Latencies /\ \A w \in Latencies : w <= m
    BY <1>1, <1>2, MaxOfFinite
  <2> HIDE DEF m
  <2>2. {w \in Latencies : w <= m} = Latencies
    BY <2>1
  <2> QED BY <2>1, <2>2 DEF UpTo
<1>4. v \in S /\ \A w \in S : v <= w
  <2>1. S \subseteq Int /\ IsFiniteSet(S)
    BY <1>1, FS_Subset
  <2>2. v = Min(S)
    BY DEF RankIn
  <2> HIDE DEF S, v
  <2> QED BY <1>3, <2>1, <2>2, MinOfFinite
<1>5. v \in Latencies /\ n <= UpTo(bag, v)
  BY <1>4
<1> HIDE DEF v
<1>6. IsFiniteSet(T) /\ \A w \in T : bag[w] \in Nat
  BY <1>1, FS_Subset
<1>7. Sum(bag, T) \in Nat
  <2> HIDE DEF T
  <2> QED BY <1>6, ColumnsFinite
<1>8. Sum(bag, T) < n
  <2> SUFFICES ASSUME n <= Sum(bag, T) PROVE FALSE
    BY <1>7
  <2>1. T # {}
    <3>1. Sum(bag, {}) = 0
      BY SumOfNone
    <3> QED BY <3>1
  <2> DEFINE m == Max(T)
  <2>2. m \in T /\ \A w \in T : w <= m
    <3>1. T \subseteq Int
      BY <1>1
    <3> HIDE DEF T
    <3> QED BY <1>6, <2>1, <3>1, MaxOfFinite
  <2> HIDE DEF m
  <2>3. m \in Latencies /\ m < v /\ m \in Int /\ v \in Int
    BY <1>1, <1>5, <2>2
  <2>4. {w \in Latencies : w <= m} = T
    <3> SUFFICES ASSUME NEW w \in Latencies PROVE w <= m <=> w < v
      OBVIOUS
    <3>1. w \in Int
      BY <1>1
    <3>2. w < v => w <= m
      BY <2>2
    <3> QED BY <2>3, <3>1, <3>2
  <2>5. m \in S
    BY <2>3, <2>4 DEF UpTo
  <2>6. v <= m
    BY <1>4, <2>5
  <2> QED BY <2>3, <2>6
<1>9. bag[v] >= 1
  <2> DEFINE U == {w \in Latencies : w <= v}
  <2>1. v \in U /\ U \ {v} = T /\ IsFiniteSet(U) /\ \A w \in U : bag[w] \in Nat
    <3>1. v \in Int /\ \A w \in Latencies : w \in Int
      BY <1>1, <1>5
    <3>2. \A w \in Latencies : w < v <=> (w <= v /\ w # v)
      BY <3>1
    <3>3. v \in U /\ U \ {v} = T
      <4>1. v \in U
        BY <1>5, <3>1
      <4>2. \A w : w \in U \ {v} <=> w \in T
        BY <3>2
      <4> QED BY <4>1, <4>2
    <3>4. IsFiniteSet(U)
      BY <1>1, FS_Subset
    <3> QED BY <3>3, <3>4
  <2>2. n <= Sum(bag, U)
    BY <1>5 DEF UpTo
  <2> HIDE DEF U, T
  <2>3. Sum(bag, U) = bag[v] + Sum(bag, U \ {v})
    BY <2>1, SumWithout
  <2>4. bag[v] \in Nat
    BY <1>5
  <2> QED BY <1>7, <1>8, <2>1, <2>2, <2>3, <2>4
<1> QED BY <1>5, <1>8, <1>9 DEF v

\* The first counter at which the counts reach a rank is that of the latency of the rank.
LEMMA RankIsCounted ==
    ASSUME FitsInts, NEW h \in Histograms, NEW bag, \A v \in Latencies : bag[v] \in Nat,
           Counts(h, bag), NEW n \in Nat, n >= 1, n <= h.total_count
    PROVE  LET v == RankIn(bag, n)
               reached == {k \in Counted(h) : CountTo(h, k) >= n} IN
           /\ v \in Latencies /\ reached # {} /\ Min(reached) = CountsIndexFor(v)
           /\ Min(reached) \in reached
<1> DEFINE v == RankIn(bag, n)
           j == CountsIndexFor(v)
           reached == {k \in Counted(h) : CountTo(h, k) >= n}
           Upper(k) == {w \in Latencies : CountsIndexFor(w) <= k}
<1>1. h.total_count = Sum(bag, Latencies)
  <2>1. \A w \in Latencies : CountsIndexFor(w) \in Indexes
    BY LatenciesFinite, IndexOfValue
  <2>2. \A w \in Latencies : CountsIndexFor(w) <= CountsLen - 1
    BY <2>1, Parameter
  <2>3. {w \in Latencies : CountsIndexFor(w) <= CountsLen - 1} = Latencies
    BY <2>2
  <2>4. AddsUp(h)
    BY AddsUpIs DEF Counts
  <2>5. CountTo(h, CountsLen - 1) = Sum(bag, Latencies)
    BY <2>3, CountToCounts
  <2> QED BY <2>4, <2>5 DEF AddsUp
<1>2. /\ v \in Latencies /\ n <= UpTo(bag, v) /\ bag[v] >= 1
      /\ Sum(bag, {w \in Latencies : w < v}) < n
  BY <1>1, RankIsIn
<1> HIDE DEF v
<1>3. /\ IsFiniteSet(Latencies) /\ Latencies \subseteq Values /\ Latencies \subseteq Nat
      /\ j \in Indexes
  BY <1>2, LatenciesFinite, IndexOfValue
<1>4. Indexes \subseteq Int /\ IsFiniteSet(Indexes)
  BY IndexesFinite
<1>5. j \in Counted(h)
  <2>1. Kind(j) \subseteq Latencies /\ IsFiniteSet(Kind(j)) /\ v \in Kind(j)
        /\ \A w \in Kind(j) : bag[w] \in Nat
    BY <1>2, KindFinite DEF Kind
  <2>2. h.counts[j] = Sum(bag, Kind(j))
    BY <1>3 DEF Counts
  <2>3. Sum(bag, Kind(j)) = bag[v] + Sum(bag, Kind(j) \ {v})
    BY <2>1, SumWithout
  <2>4. Sum(bag, Kind(j) \ {v}) \in Nat
    BY <2>1, FS_RemoveElement, ColumnsFinite
  <2>5. bag[v] \in Nat
    BY <1>2
  <2>6. h.counts[j] # 0
    BY <1>2, <2>2, <2>3, <2>4, <2>5
  <2>7. Counted(h) = {k \in Indexes : h.counts[k] # 0}
    BY CountedAll DEF Counts
  <2> QED BY <1>3, <2>6, <2>7
<1>6. CountTo(h, j) >= n
  <2> DEFINE U == {w \in Latencies : w <= v}
  <2>1. U \subseteq Upper(j)
    <3> SUFFICES ASSUME NEW w \in U PROVE CountsIndexFor(w) <= j
      OBVIOUS
    <3> QED BY <1>2, <1>3, IndexesInOrder
  <2>2. CountTo(h, j) = Sum(bag, Upper(j))
    BY CountToCounts
  <2>3. IsFiniteSet(Upper(j)) /\ \A w \in Upper(j) : bag[w] \in Nat
    BY <1>3, FS_Subset
  <2>4. n <= Sum(bag, U)
    BY <1>2 DEF UpTo
  <2> HIDE DEF U, Upper
  <2>5. Sum(bag, U) <= Sum(bag, Upper(j)) /\ Sum(bag, U) \in Nat /\ Sum(bag, Upper(j)) \in Nat
    BY <2>1, <2>3, SumOfPart
  <2> QED BY <2>2, <2>4, <2>5
<1>7. ASSUME NEW k \in reached PROVE j <= k
  <2>1. k \in Int /\ j \in Int
    <3>1. Counted(h) \subseteq Indexes
      BY CountedAll DEF Counts
    <3> QED BY <1>3, <1>4, <3>1
  <2> SUFFICES ASSUME k < j PROVE FALSE
    BY <2>1
  <2> DEFINE T == {w \in Latencies : w < v}
  <2>2. Upper(k) \subseteq T
    <3> SUFFICES ASSUME NEW w \in Upper(k), ~(w < v) PROVE FALSE
      OBVIOUS
    <3>1. w \in Latencies /\ v <= w
      BY <1>2, <1>3
    <3>2. j <= CountsIndexFor(w)
      BY <1>2, <1>3, <3>1, IndexesInOrder
    <3>3. CountsIndexFor(w) <= k /\ CountsIndexFor(w) \in Int
      BY <1>3, <1>4, <3>1, IndexOfValue
    <3> QED BY <2>1, <3>2, <3>3
  <2>3. CountTo(h, k) = Sum(bag, Upper(k)) /\ CountTo(h, k) >= n
    BY CountToCounts
  <2>4. IsFiniteSet(T) /\ \A w \in T : bag[w] \in Nat
    BY <1>3, FS_Subset
  <2>5. Sum(bag, T) < n
    BY <1>2
  <2> HIDE DEF T, Upper
  <2>6. Sum(bag, Upper(k)) <= Sum(bag, T) /\ Sum(bag, Upper(k)) \in Nat /\ Sum(bag, T) \in Nat
    BY <2>2, <2>4, SumOfPart
  <2> QED BY <2>3, <2>5, <2>6
<1>8. reached # {} /\ reached \subseteq Int /\ IsFiniteSet(reached) /\ j \in reached
  <2>1. Counted(h) \subseteq Indexes
    BY CountedAll DEF Counts
  <2> QED BY <1>4, <1>5, <1>6, <2>1, FS_Subset
<1>9. Min(reached) = j /\ Min(reached) \in reached
  <2> HIDE DEF j
  <2>1. \A k \in reached : j <= k
    BY <1>7
  <2> HIDE DEF reached
  <2>2. Min(reached) \in reached /\ Min(reached) <= j
    BY <1>8, MinOfFinite
  <2>3. Min(reached) \in Int /\ j \in Int /\ j <= Min(reached)
    BY <1>8, <2>1, <2>2
  <2> QED BY <2>2, <2>3
<1> QED BY <1>2, <1>8, <1>9 DEF v

\* The rank of a percentile, rounded as the report's reader would, is the count that
\* hdr_value_at_percentile looks for.
Ranks(n, p) == {1} \cup {k \in 1 .. n : 100 * (2 * k - 1) <= 2 * p * n}

LEMMA RankOfPercentile ==
    ASSUME NEW h, NEW n \in Nat, n >= 1, h.total_count = n, NEW p \in Nat, p <= 100
    PROVE  /\ Max(Ranks(n, p)) = CountAtPercentile(h, p)
           /\ CountAtPercentile(h, p) \in 1 .. n
<1> DEFINE q == p * n
           rounded == (2 * q + 100) \div 200
           c == IF rounded > 1 THEN rounded ELSE 1
           S == Ranks(n, p)
<1>1. q \in Nat /\ q <= 100 * n /\ 2 * p * n = 2 * q
  OBVIOUS
<1>2. CountAtPercentile(h, p) = c
  BY <1>1 DEF CountAtPercentile
<1>3. S = {1} \cup {k \in 1 .. n : 100 * (2 * k - 1) <= 2 * q}
  BY <1>1 DEF Ranks
<1> HIDE DEF S, q
<1>4. rounded \in Nat /\ 200 * rounded <= 2 * q + 100 /\ 2 * q + 100 < 200 * rounded + 200
  BY <1>1
<1> HIDE DEF rounded
<1>5. c \in 1 .. n /\ c \in Int
  BY <1>1, <1>4
<1>6. c \in S
  BY <1>1, <1>3, <1>4, <1>5
<1>7. \A k \in S : k <= c
  <2> SUFFICES ASSUME NEW k \in S PROVE k <= c
    OBVIOUS
  <2>1. CASE k = 1
    BY <1>5, <2>1
  <2>2. CASE k \in 1 .. n /\ 100 * (2 * k - 1) <= 2 * q
    BY <1>1, <1>4, <2>2
  <2> QED BY <1>3, <2>1, <2>2
<1>8. S \subseteq Int /\ IsFiniteSet(S) /\ S # {}
  <2>1. IsFiniteSet(1 .. n)
    BY FS_Interval
  <2>2. S \subseteq 1 .. n /\ 1 .. n \subseteq Int
    BY <1>3
  <2> QED BY <1>6, <2>1, <2>2, FS_Subset
<1>9. Max(S) = c
  <2> HIDE DEF c
  <2>1. Max(S) \in S /\ c <= Max(S)
    BY <1>6, <1>8, MaxOfFinite
  <2>2. Max(S) <= c /\ Max(S) \in Int
    BY <1>7, <1>8, <2>1
  <2> QED BY <1>5, <2>1, <2>2
<1> QED BY <1>2, <1>5, <1>9 DEF S

\* What is read at the counter of a latency.
LEMMA ValueAtCounter ==
    ASSUME FitsInts, NEW v \in Latencies
    PROVE  LET x == ValueAt(CountsIndexFor(v)) IN
           /\ x = LowestEquivalentValue(v)
           /\ HighestEquivalentValue(x) = HighestEquivalentValue(v)
           /\ LowestEquivalentValue(HighestEquivalentValue(x)) = LowestEquivalentValue(v)
           /\ LowestEquivalentValue(v) \in Nat /\ HighestEquivalentValue(v) \in Nat
           /\ v \in Values /\ LowestEquivalentValue(v) <= v /\ v <= HighestEquivalentValue(v)
<1> DEFINE j == CountsIndexFor(v)
           x == ValueAt(j)
           y == HighestEquivalentValue(v)
<1>1. v \in Values /\ j \in Indexes
  BY LatenciesFinite, IndexOfValue
<1>2. x \in Values /\ CountsIndexFor(x) = j /\ LowestEquivalentValue(x) = x
  BY <1>1, VisitOfIndex
<1> HIDE DEF x
<1>3. LowestEquivalentValue(x) = LowestEquivalentValue(v) /\ HighestEquivalentValue(x) = y
  BY <1>1, <1>2, SameIndexSameRange
<1>4. /\ LowestEquivalentValue(v) \in Values /\ y \in Values
      /\ LowestEquivalentValue(v) <= v /\ v <= y /\ CountsIndexFor(y) = j
  BY <1>1, ValuesOfRange
<1> HIDE DEF y
<1>5. LowestEquivalentValue(y) = LowestEquivalentValue(v)
  BY <1>1, <1>4, SameIndexSameRange
<1> QED BY <1>1, <1>2, <1>3, <1>4, <1>5, ValuesAreNat DEF x, y

LEMMA Percentiles ==
    ASSUME FitsInts, UnitMagnitude = 0, NEW h \in Histograms,
           NEW bag, \A v \in Latencies : bag[v] \in Nat, Counts(h, bag),
           NEW p, CountAtPercentile(h, p) \in 1 .. h.total_count
    PROVE  LET v == RankIn(bag, CountAtPercentile(h, p))
               r == ValueAtPercentile(h, p) IN
           r >= v /\ Agrees(r, v)
<1> DEFINE n == CountAtPercentile(h, p)
           v == RankIn(bag, n)
           r == ValueAtPercentile(h, p)
           reached == {k \in Counted(h) : CountTo(h, k) >= n}
<1>1. h.total_count \in Nat
  BY DEF Histograms
<1>2. n \in Nat /\ n >= 1 /\ n <= h.total_count
  BY <1>1
<1>3. r = IF reached = {} THEN 0 ELSE HighestEquivalentValue(ValueAt(Min(reached)))
  BY DEF ValueAtPercentile
<1> HIDE DEF n
<1>4. v \in Latencies /\ reached # {} /\ Min(reached) = CountsIndexFor(v)
  BY <1>2, RankIsCounted
<1> HIDE DEF r, v, reached
<1>5. r = HighestEquivalentValue(v)
  BY <1>3, <1>4, ValueAtCounter
<1>6. /\ r \in Nat /\ v \in Values /\ v <= r /\ LowestEquivalentValue(v) <= v
      /\ LowestEquivalentValue(v) \in Nat
  BY <1>4, <1>5, ValueAtCounter
<1>7. v \in Nat
  BY <1>6, ValuesAreNat
<1>8. Agrees(r, v)
  <2>1. LowestEquivalentValue(v) <= r /\ r <= HighestEquivalentValue(v)
    BY <1>5, <1>6, <1>7
  <2> QED BY <1>6, <2>1, SameRangeAgrees
<1> QED BY <1>6, <1>7, <1>8 DEF r, v, n

LEMMA LeastAndGreatest ==
    ASSUME FitsInts, UnitMagnitude = 0, NEW h \in Histograms,
           NEW bag, \A v \in Latencies : bag[v] \in Nat, Counts(h, bag), h.total_count > 0
    PROVE  /\ Agrees(HdrMin(h), RankIn(bag, 1))
           /\ Agrees(HdrMax(h), RankIn(bag, h.total_count))
<1> DEFINE n == h.total_count
           C == Counted(h)
           c == h.counts
           First == {k \in C : CountTo(h, k) >= 1}
           Last  == {k \in C : CountTo(h, k) >= n}
           v == RankIn(bag, 1)
           w == RankIn(bag, n)
<1>1. n \in Nat /\ n >= 1 /\ n = Sum(c, Indexes) /\ c \in [Indexes -> Nat]
      /\ IsFiniteSet(Indexes) /\ Indexes \subseteq Nat
  BY IndexesFinite DEF Histograms, Counts
<1>2. C = {k \in Indexes : c[k] # 0}
  BY <1>1, CountedAll
<1>3. ASSUME NEW k \in C, NEW j \in Indexes, j < k
      PROVE  /\ CountTo(h, j) \in Nat /\ CountTo(h, j) + 1 <= CountTo(h, k)
             /\ CountTo(h, k) \in Nat /\ CountTo(h, k) <= n
  <2> DEFINE J == {i \in Indexes : i <= j}
             K == {i \in Indexes : i <= k}
  <2>1. CountTo(h, j) = Sum(c, J) /\ CountTo(h, k) = Sum(c, K)
    BY CountToIs
  <2>2. k \in Indexes /\ k \in Nat /\ j \in Nat /\ c[k] \in Nat /\ c[k] # 0
    BY <1>1, <1>2, <1>3
  <2>3. k \in K /\ k \notin J
    BY <1>3, <2>2
  <2>4. \A i \in Indexes : i <= j => i <= k
    BY <1>1, <1>3, <2>2
  <2>5. J \in SUBSET (K \ {k})
    BY <2>3, <2>4
  <2>6. /\ K \in SUBSET Indexes /\ IsFiniteSet(K) /\ IsFiniteSet(K \ {k})
        /\ \A i \in K : c[i] \in Nat
    BY <1>1, FS_Subset, FS_RemoveElement
  <2> HIDE DEF J, K, c, n
  <2>7. Sum(c, K) = c[k] + Sum(c, K \ {k})
    BY <2>3, <2>6, SumWithout
  <2>8. /\ Sum(c, J) <= Sum(c, K \ {k}) /\ Sum(c, J) \in Nat /\ Sum(c, K \ {k}) \in Nat
    BY <2>5, <2>6, SumOfPart
  <2>9. Sum(c, K) <= n /\ Sum(c, K) \in Nat
    BY <1>1, <2>6, SumOfPart
  <2> QED BY <1>1, <2>1, <2>2, <2>7, <2>8, <2>9
<1>4. First = C
  <2> SUFFICES ASSUME NEW k \in C PROVE CountTo(h, k) >= 1
    OBVIOUS
  <2> DEFINE K == {i \in Indexes : i <= k}
  <2>1. CountTo(h, k) = Sum(c, K)
    BY CountToIs
  <2>2. k \in Indexes /\ k \in Nat /\ c[k] \in Nat /\ c[k] # 0 /\ k \in K
    <3> HIDE DEF c
    <3>1. k \in Indexes /\ c[k] # 0
      BY <1>2
    <3> QED BY <1>1, <3>1
  <2>3. IsFiniteSet(K) /\ IsFiniteSet(K \ {k}) /\ \A i \in K : c[i] \in Nat
    BY <1>1, FS_Subset, FS_RemoveElement
  <2> HIDE DEF K, c
  <2>4. Sum(c, K) = c[k] + Sum(c, K \ {k}) /\ Sum(c, K \ {k}) \in Nat
    BY <2>2, <2>3, SumWithout, ColumnsFinite
  <2> QED BY <2>1, <2>2, <2>4
<1>5. v \in Latencies /\ First # {} /\ Min(First) = CountsIndexFor(v)
  BY <1>1, RankIsCounted
<1>6. /\ w \in Latencies /\ Last # {} /\ Min(Last) = CountsIndexFor(w) /\ Min(Last) \in Last
  BY <1>1, RankIsCounted
<1>7. Agrees(HdrMin(h), v)
  <2> HIDE DEF First, v, C
  <2>1. HdrMin(h) = ValueAt(CountsIndexFor(v))
    BY <1>4, <1>5 DEF HdrMin, C
  <2>2. HdrMin(h) = LowestEquivalentValue(v) /\ HdrMin(h) \in Nat
        /\ v \in Values /\ v \in Nat
        /\ LowestEquivalentValue(v) <= v /\ v <= HighestEquivalentValue(v)
        /\ HighestEquivalentValue(v) \in Nat
    <3>1. PICK u : u = v
      OBVIOUS
    <3>2. u \in Latencies
      BY <1>5, <3>1
    <3>3. /\ ValueAt(CountsIndexFor(u)) = LowestEquivalentValue(u)
          /\ LowestEquivalentValue(u) \in Nat /\ HighestEquivalentValue(u) \in Nat
          /\ u \in Values /\ LowestEquivalentValue(u) <= u /\ u <= HighestEquivalentValue(u)
      BY <3>2, ValueAtCounter
    <3>4. u \in Nat
      BY <3>3, ValuesAreNat
    <3> QED BY <2>1, <3>1, <3>3, <3>4
  <2>3. LowestEquivalentValue(v) <= HdrMin(h) /\ HdrMin(h) <= HighestEquivalentValue(v)
    BY <2>2
  <2> QED BY <2>2, <2>3, SameRangeAgrees
<1>8. Max(C) = CountsIndexFor(w)
  <2> DEFINE j == Min(Last)
  <2>1. j \in C /\ j \in Indexes /\ CountTo(h, j) >= n
    BY <1>2, <1>6
  <2> HIDE DEF Last, j
  <2>2. \A k \in C : k <= j
    <3> SUFFICES ASSUME NEW k \in C, ~(k <= j) PROVE FALSE
      OBVIOUS
    <3>1. k \in Nat /\ j \in Nat
      BY <1>1, <1>2, <2>1
    <3>2. j < k
      BY <3>1
    <3>3. /\ CountTo(h, j) \in Nat /\ CountTo(h, j) + 1 <= CountTo(h, k)
          /\ CountTo(h, k) \in Nat /\ CountTo(h, k) <= n
      BY <1>3, <2>1, <3>2
    <3> HIDE DEF n
    <3> QED BY <1>1, <2>1, <3>3
  <2>3. C \subseteq Int /\ IsFiniteSet(C) /\ C # {}
    <3>1. C \subseteq Indexes
      BY <1>2
    <3> HIDE DEF C
    <3>2. Indexes \subseteq Nat /\ IsFiniteSet(Indexes)
      BY <1>1
    <3>3. IsFiniteSet(C)
      BY <3>1, <3>2, FS_Subset
    <3> QED BY <2>1, <3>1, <3>2, <3>3
  <2> HIDE DEF C
  <2>4. Max(C) \in C /\ j <= Max(C)
    BY <2>1, <2>3, MaxOfFinite
  <2>5. Max(C) <= j /\ Max(C) \in Int /\ j \in Int
    BY <2>1, <2>2, <2>3, <2>4
  <2> QED BY <1>6, <2>4, <2>5 DEF j
<1>9. C # {}
  BY <1>6
<1>10. Agrees(HdrMax(h), w)
  <2> HIDE DEF w, Last
  <2>1. HdrMax(h) = LowestEquivalentValue(HighestEquivalentValue(ValueAt(CountsIndexFor(w))))
    BY <1>8, <1>9 DEF HdrMax
  <2>2. HdrMax(h) = LowestEquivalentValue(w) /\ HdrMax(h) \in Nat
        /\ w \in Values /\ w \in Nat
        /\ LowestEquivalentValue(w) <= w /\ w <= HighestEquivalentValue(w)
        /\ HighestEquivalentValue(w) \in Nat
    BY <1>6, <2>1, ValueAtCounter, ValuesAreNat
  <2>3. LowestEquivalentValue(w) <= HdrMax(h) /\ HdrMax(h) <= HighestEquivalentValue(w)
    BY <2>2
  <2> QED BY <2>2, <2>3, SameRangeAgrees
<1> QED BY <1>7, <1>10 DEF v, w, n

LEMMA NthIs ==
    ASSUME FitsInts, Ind, NEW n PROVE NthLatency(n) = RankIn(AllKept, n)
<1>1. ASSUME NEW v \in Latencies
      PROVE  MapThenSumSet(LAMBDA w : KeptOf(w), {w \in Latencies : w <= v}) = UpTo(AllKept, v)
  <2> DEFINE S == {w \in Latencies : w <= v}
  <2>1. S \in SUBSET Latencies
    OBVIOUS
  <2> HIDE DEF S
  <2>2. MapThenSumSet(LAMBDA w : KeptOf(w), S) = Sum(AllKept, S)
    BY <2>1, AllKeptFold
  <2> QED BY <2>2 DEF S, UpTo
<1>2. {v \in Latencies :
          n <= MapThenSumSet(LAMBDA w : KeptOf(w), {w \in Latencies : w <= v})}
      = {v \in Latencies : n <= UpTo(AllKept, v)}
  BY <1>1
<1> QED BY <1>2 DEF NthLatency, RankIn

LEMMA UnitIsOne == LowestTrackable = 1 => UnitMagnitude = 0
<1> SUFFICES ASSUME LowestTrackable = 1 PROVE UnitMagnitude = 0
  OBVIOUS
<1>1. BitLength(1) = 1
  <2>1. 2^1 = 2 * 2^0 /\ 2^0 = 1
    BY PowerOfZero, TwiceThePower
  <2>2. 2^(1 - 1) <= 1 /\ 1 < 2^1 /\ 1 \in 1 .. 62
    BY <2>1, SMT
  <2> QED BY <2>2, BitLengthIs
<1> QED BY <1>1 DEF UnitMagnitude

LEMMA CountIndPrecise ==
    ASSUME FitsInts, LowestTrackable = 1, CountInd PROVE ReportIsPrecise
<1> DEFINE h == total.latency
           n == h.total_count
           RankOf(p) == Max(Ranks(n, p))
<1> SUFFICES ASSUME Reported, n > 0
             PROVE  /\ \A p \in {0, 25, 50, 75, 90, 100} :
                          LET r == ValueAtPercentile(h, p) IN
                          r >= NthLatency(RankOf(p)) /\ Agrees(r, NthLatency(RankOf(p)))
                    /\ Agrees(HdrMin(h), NthLatency(1)) /\ Agrees(HdrMax(h), NthLatency(n))
  BY DEF ReportIsPrecise, Ranks
<1>1. h \in Histograms /\ Counts(h, AllKept) /\ UnitMagnitude = 0 /\ Ind
  BY ReportedCounts, UnitIsOne DEF CountInd
<1>2. n \in Nat /\ n >= 1
  BY <1>1 DEF Histograms
<1>3. \A v \in Latencies : AllKept[v] \in Nat
  BY <1>1, KeptFold
<1> HIDE DEF h
<1>4. ASSUME NEW p \in {0, 25, 50, 75, 90, 100}
      PROVE  LET r == ValueAtPercentile(h, p) IN
             r >= NthLatency(RankOf(p)) /\ Agrees(r, NthLatency(RankOf(p)))
  <2>1. p \in Nat /\ p <= 100
    OBVIOUS
  <2>2. RankOf(p) = CountAtPercentile(h, p) /\ CountAtPercentile(h, p) \in 1 .. n
    BY <1>2, <2>1, RankOfPercentile
  <2>3. NthLatency(RankOf(p)) = RankIn(AllKept, CountAtPercentile(h, p))
    BY <1>1, <2>2, NthIs
  <2> HIDE DEF RankOf
  <2> QED BY <1>1, <1>3, <2>2, <2>3, Percentiles
<1>5. Agrees(HdrMin(h), NthLatency(1)) /\ Agrees(HdrMax(h), NthLatency(n))
  BY <1>1, <1>2, <1>3, LeastAndGreatest, NthIs
<1> QED BY <1>4, <1>5

\* Every percentile that main prints is, to the significant figures asked for, the latency
\* of that rank among all that were recorded, and not below it; so are the least and the
\* greatest (hdr_value_at_percentile, hdr_min, hdr_max after hdr_add).
THEOREM ReportAlwaysPrecise ==
    ASSUME FitsInts, LowestTrackable = 1 PROVE Spec => []ReportIsPrecise
<1>1. CountInd => ReportIsPrecise
  BY CountIndPrecise
<1> QED BY <1>1, CountInvariance, PTL
===================================================================================
