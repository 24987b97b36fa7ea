\* Two requests in a string that is written in pieces, latencies recorded per batch
\* (-B), a fair server and a fair loop.  The clock stops at MaxNow, before StopAt: the
\* thread does not end, and nothing can happen any more when all is quiet.
SPECIFICATION FairSpec
CONSTANTS
    RateNum = 1
    RateDen = 3
    UsPerMs = 2
    NConns = 1
    Fds = {3}
    Pipeline = 2
    ReqLen = 2
    RecordAll = FALSE
    Dynamic = TRUE
    Epoch = 1
    Stagger = 1
    Timeout = 4
    TimeoutCheckMs = 50
    StopAt = 90
    MaxNow = 9
    CounterMod = 8
    Answers = {"ok", "fail"}
    FaultKinds = {}
    MaxFaults = 0
CHECK_DEADLOCK FALSE
INVARIANTS
    PendingIsOutstanding
    RecordedSound
PROPERTIES
    Answered
    KeepsSending
