------------------------------ MODULE MCMeasurement ------------------------------
(***********************************************************************************)
(* The instance of Measurement that TLC checks: a histogram of one significant     *)
(* figure for values up to 120, which has three buckets of 32 sub-buckets, and     *)
(* latencies at the ends of the buckets.                                           *)
(***********************************************************************************)
EXTENDS Measurement

MCRateOf(n) == 30 * n

ASSUME IndexesSound == RangesPartition
===================================================================================
