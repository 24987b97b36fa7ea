------------------------------- MODULE Measurement -------------------------------
(***********************************************************************************)
(* What becomes of the latencies and request rates (src/wrk.c): worker threads     *)
(* record latencies in a histogram of their own, which calibrate empties once;     *)
(* sample_rate records the rate of a thread in a histogram that all threads share  *)
(* under statistics.mutex; main waits for the threads and adds their histograms.   *)
(*                                                                                 *)
(* The uncorrected latencies take the same way as the corrected ones, in           *)
(* histograms that are emptied and added beside them; they are left out.           *)
(***********************************************************************************)
EXTENDS HdrHistogram, FiniteSets

CONSTANTS
    NThreads,       \* cfg.threads
    Latencies,      \* latencies of responses
    RateOf(_),      \* the rate of so many requests in a sampling interval
    MaxResponses,   \* bound: responses in all
    MaxSamples      \* bound: samples in all

Threads == 1 .. NThreads

ASSUME MeasurementAssumption ==
    /\ NThreads \in Nat \ {0} /\ MaxResponses \in Nat /\ MaxSamples \in Nat
    /\ Latencies \subseteq Values
    /\ \A n \in 0 .. MaxResponses : RateOf(n) \in Values

VARIABLES
    phase,      \* per thread: "calibrating", "sampling" or "ended"
    complete,   \* per thread: thread->complete
    requests,   \* per thread: thread->requests, since the last sample
    latency,    \* per thread: thread->latency_histogram
    kept,       \* per thread: the latencies since calibration, as a bag
    sampling,   \* per thread: where sample_rate is
    mutex,      \* the thread that holds statistics.mutex, or None
    rates,      \* statistics.requests: min, max and the histogram
    samples,    \* the rates recorded so far, as a bag
    merged,     \* main: threads added to the total; None before they have ended
    total       \* main: complete and latency_histogram

vars == <<phase, complete, requests, latency, kept, sampling, mutex, rates, samples,
          merged, total>>

None == 0
NotJoined == -1

Idle == [step |-> "idle", rate |-> 0, seen |-> 0]

BagOf(S)  == [v \in S |-> 0]
Size(bag) == MapThenSumSet(LAMBDA v : bag[v], DOMAIN bag)
Rates     == {RateOf(n) : n \in 0 .. MaxResponses}

Active(t) == phase[t] # "ended" /\ sampling[t].step = "idle"

-----------------------------------------------------------------------------------
\* response_complete, as far as it counts and records.
ResponseComplete(t) == \E v \in Latencies :
    /\ Active(t)
    /\ MapThenSumSet(LAMBDA u : complete[u], Threads) < MaxResponses
    /\ complete' = [complete EXCEPT ![t] = @ + 1]
    /\ requests' = [requests EXCEPT ![t] = @ + 1]
    /\ latency' = [latency EXCEPT ![t] = RecordValue(@, v)]
    /\ kept' = [kept EXCEPT ![t][v] = @ + 1]
    /\ UNCHANGED <<phase, sampling, mutex, rates, samples, merged, total>>

\* hdr_reset.  Mutant: the counters are emptied, total_count is not.
ResetCountsOnly(h) == [h EXCEPT !.counts = Empty.counts]
Reset(h) == Empty

\* if (mean == 0) in calibrate.  The mean of nothing is not a number, and not 0.
MeanIsZero(h) == h.total_count # 0 /\ MeanTotal(h) = 0

\* calibrate; its timer comes back as long as the mean is 0, with nothing changed.
Calibrate(t) ==
    /\ phase[t] = "calibrating" /\ ~MeanIsZero(latency[t])
    /\ phase' = [phase EXCEPT ![t] = "sampling"]
    /\ latency' = [latency EXCEPT ![t] = Reset(@)]
    /\ kept' = [kept EXCEPT ![t] = BagOf(Latencies)]
    /\ requests' = [requests EXCEPT ![t] = 0]
    /\ UNCHANGED <<complete, sampling, mutex, rates, samples, merged, total>>

\* pthread_mutex_lock.  Mutant: nobody waits.
LockHeld == TRUE
LockFree == mutex = None

\* sample_rate up to the lock.
SampleRate(t) ==
    /\ Active(t) /\ phase[t] = "sampling" /\ Size(samples) < MaxSamples
    /\ sampling' = [sampling EXCEPT ![t].step = "waiting", ![t].rate = RateOf(requests[t])]
    /\ UNCHANGED <<phase, complete, requests, latency, kept, mutex, rates, samples, merged,
                   total>>

\* The lock is taken, and the first of the updates that make up stats_record made: min,
\* max and the counter; total_count is read to be increased.
Record(t) ==
    LET rate == sampling[t].rate IN
    /\ sampling[t].step = "waiting" /\ LockFree
    /\ mutex' = t
    /\ rates' = [rates EXCEPT !.min = IF rate < @ THEN rate ELSE @,
                              !.max = IF rate > @ THEN rate ELSE @,
                              !.hist.counts[CountsIndexFor(rate)] = @ + 1]
    /\ sampling' = [sampling EXCEPT ![t].step = "locked",
                                    ![t].seen = rates.hist.total_count]
    /\ UNCHANGED <<phase, complete, requests, latency, kept, samples, merged, total>>

\* pthread_mutex_unlock.  Mutant: it is forgotten.
KeepLock == mutex
Unlock   == None

\* total_count is written, the lock given back, and the thread counts anew.
EndSample(t) ==
    /\ sampling[t].step = "locked"
    /\ rates' = [rates EXCEPT !.hist.total_count = sampling[t].seen + 1]
    /\ samples' = [samples EXCEPT ![sampling[t].rate] = @ + 1]
    /\ mutex' = Unlock
    /\ sampling' = [sampling EXCEPT ![t] = Idle]
    /\ requests' = [requests EXCEPT ![t] = 0]
    /\ UNCHANGED <<phase, complete, latency, kept, merged, total>>

\* thread_main returns once aeMain does.
EndThread(t) ==
    /\ Active(t)
    /\ phase' = [phase EXCEPT ![t] = "ended"]
    /\ UNCHANGED <<complete, requests, latency, kept, sampling, mutex, rates, samples,
                   merged, total>>

-----------------------------------------------------------------------------------
\* main: pthread_join for every thread.  Mutant: one of them is enough.
JoinOne == \E t \in Threads : phase[t] = "ended"
JoinAll == \A t \in Threads : phase[t] = "ended"

Join ==
    /\ merged = NotJoined /\ JoinAll
    /\ merged' = 0
    /\ UNCHANGED <<phase, complete, requests, latency, kept, sampling, mutex, rates, samples,
                   total>>

\* ... and the loop that sums the threads up.
Merge ==
    /\ merged \in 0 .. (NThreads - 1)
    /\ merged' = merged + 1
    /\ total' = [complete |-> total.complete + complete[merged + 1],
                 latency  |-> Add(total.latency, latency[merged + 1])]
    /\ UNCHANGED <<phase, complete, requests, latency, kept, sampling, mutex, rates, samples>>

\* The program ends with its report.
Reported == merged = NThreads

Init ==
    /\ phase = [t \in Threads |-> "calibrating"]
    /\ complete = [t \in Threads |-> 0] /\ requests = [t \in Threads |-> 0]
    /\ latency = [t \in Threads |-> Empty]
    /\ kept = [t \in Threads |-> BagOf(Latencies)]
    /\ sampling = [t \in Threads |-> Idle] /\ mutex = None
    /\ rates = [min |-> Max(Rates) + 1, max |-> 0, hist |-> Empty]   \* UINT64_MAX
    /\ samples = BagOf(Rates)
    /\ merged = NotJoined
    /\ total = [complete |-> 0, latency |-> Empty]

Next ==
    \/ \E t \in Threads : \/ ResponseComplete(t) \/ Calibrate(t) \/ SampleRate(t)
                          \/ Record(t) \/ EndSample(t) \/ EndThread(t)
    \/ Join \/ Merge

Spec == Init /\ [][Next]_vars

\* The system schedules every thread, main included; a thread leaves its loop once its
\* clock has come to stop_at (Stops in WrkThread).
Fairness ==
    /\ \A t \in Threads : WF_vars(Record(t) \/ EndSample(t) \/ EndThread(t))
    /\ WF_vars(Join)

FairSpec == Spec /\ Fairness

-----------------------------------------------------------------------------------
\* hdr_iter_next goes on until the counts it passed add up to total_count, and does not
\* notice the end of the counters: every histogram that is read has to add up.
AddsUp(h) == CountTo(h, CountsLen - 1) = h.total_count

IterationsEnd ==
    /\ \A t \in Threads : AddsUp(latency[t])
    /\ AddsUp(total.latency)
    /\ Reported => AddsUp(rates.hist)

\* No sample of a rate is lost or counted twice, whatever the threads' order.
SamplesAddUp == mutex = None => rates.hist.total_count = Size(samples)

\* How often the threads kept latency v.
KeptOf(v) == MapThenSumSet(LAMBDA t : kept[t][v], Threads)

\* The total main reports is the histogram of the latencies all threads recorded after
\* their calibration, and counts all responses.
MergeLosesNothing ==
    Reported =>
        /\ total.complete = MapThenSumSet(LAMBDA t : complete[t], Threads)
        /\ \A i \in Indexes : total.latency.counts[i] =
               MapThenSumSet(LAMBDA v : KeptOf(v), {v \in Latencies : CountsIndexFor(v) = i})

\* The n-th smallest of the latencies all threads kept.
NthLatency(n) ==
    Min({v \in Latencies :
            n <= MapThenSumSet(LAMBDA w : KeptOf(w), {w \in Latencies : w <= v})})

\* Every percentile main reports agrees, to the significant figures asked for, with the
\* latency of that rank, and is not below it; so do the least and the greatest latency.
\* The rank is the percentile of the number of latencies, rounded, and at least 1.
ReportIsPrecise ==
    (Reported /\ total.latency.total_count > 0) =>
        LET n == total.latency.total_count IN
        /\ \A p \in {0, 25, 50, 75, 90, 100} :
              LET rank == Max({1} \cup {k \in 1 .. n : 100 * (2 * k - 1) <= 2 * p * n})
                  r    == ValueAtPercentile(total.latency, p) IN
              r >= NthLatency(rank) /\ Agrees(r, NthLatency(rank))
        /\ Agrees(HdrMin(total.latency), NthLatency(1))
        /\ Agrees(HdrMax(total.latency), NthLatency(n))

\* main always comes to add up what the threads have recorded: no thread waits for the
\* mutex for ever, and so every thread is joined.
AllJoined == <>(merged # NotJoined)
===================================================================================
