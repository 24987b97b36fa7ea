---------------------------------- MODULE Pacing ----------------------------------
(***********************************************************************************)
(* The constant-throughput plan of one connection and usec_to_next_send, the       *)
(* function that decides when the connection may send (src/wrk.c).                 *)
(*                                                                                 *)
(* Time is counted in ticks of time_us().  A connection's throughput is the        *)
(* rational RateNum / RateDen requests per tick (thread_main derives it as         *)
(* thread->throughput / 1000000 / connections); the double-precision quotients of  *)
(* the code, truncated when they are stored in a uint64_t, are integer divisions.  *)
(* The pacing fields of a connection are fields of the record c, under their names *)
(* in struct connection (src/wrk.h).                                               *)
(***********************************************************************************)
EXTENDS Integers

CONSTANTS
    RateNum,    \* requests ...
    RateDen,    \* ... per this many ticks, on one connection
    UsPerMs     \* ticks per millisecond: 1000 in the code

ASSUME PacingAssumption ==
    /\ RateNum \in Nat \ {0}
    /\ RateDen \in Nat \ {0}
    /\ UsPerMs \in Nat \ {0}

\* c->complete / c->throughput: how long after thread_start request number n
\* (counted from 0) is due.
PlannedOffset(n) == (n * RateDen) \div RateNum

\* n / c->catch_up_throughput, and catch_up_throughput = throughput * 2.
CatchUpOffset(n) == (n * RateDen) \div (2 * RateNum)

MsNow(t) == t \div UsPerMs      \* aeGetTime truncates to whole milliseconds

-----------------------------------------------------------------------------------
(* usec_to_next_send(c) at time t: the connection after the call, and the time it   *)
(* returns (0 is "send now").                                                       *)

PlannedStart(c) == c.thread_start + PlannedOffset(c.complete)

OnPaceInMs(c, t) == MsNow(PlannedStart(c)) > MsNow(t)   \* mutant
OnPace(c, t) == PlannedStart(c) > t

\* The bookkeeping of a call: being on pace is remembered, and the first call
\* that finds the connection behind opens a catch-up period.
Paced(c, t) ==
    IF OnPace(c, t) THEN [c EXCEPT !.caught_up = TRUE]
    ELSE IF c.caught_up
         THEN [c EXCEPT !.caught_up = FALSE,
                        !.catch_up_start_time = t,
                        !.complete_at_catch_up_start = c.complete]
         ELSE c

\* Mutant: the catch-up rate is counted from the start of the plan.
CatchUpStartOfPlan(c) == c.thread_start + CatchUpOffset(c.complete)

CatchUpStart(c) ==
    c.catch_up_start_time + CatchUpOffset(c.complete - c.complete_at_catch_up_start)

NextStart(c, t) ==
    IF OnPace(c, t) THEN PlannedStart(c) ELSE CatchUpStart(Paced(c, t))

UsecToNextSend(c, t) ==
    IF NextStart(c, t) > t THEN NextStart(c, t) - t ELSE 0

\* round(usec / 1000.0 + 0.5), the delay of delay_request's timer in milliseconds:
\* a half is added and the sum is rounded half up, which is the integer part plus 1.
DelayMs(usec) == (usec \div UsPerMs) + 1
===================================================================================
