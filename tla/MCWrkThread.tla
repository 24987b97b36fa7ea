------------------------------- MODULE MCWrkThread -------------------------------
(***********************************************************************************)
(* The instances of WrkThread that TLC checks: each .cfg of this module gives the  *)
(* constants their values, and says what the instance is for.  A tick is half a    *)
(* millisecond (UsPerMs = 2) and a connection's throughput is RateNum / RateDen    *)
(* requests per tick, so that waits are no multiples of the timers' resolution.    *)
(***********************************************************************************)
EXTENDS WrkThread
===================================================================================
