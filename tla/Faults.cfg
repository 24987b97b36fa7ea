\* Everything the server, the network and the kernel may do wrong, twice, and the end
\* of the run by the clock or by SIGINT.
SPECIFICATION FairSpec
CONSTANTS
    RateNum = 1
    RateDen = 3
    UsPerMs = 2
    NConns = 1
    Fds = {3}
    Pipeline = 1
    ReqLen = 2
    RecordAll = TRUE
    Dynamic = TRUE
    Epoch = 1
    Stagger = 0
    Timeout = 2
    TimeoutCheckMs = 1
    StopAt = 4
    MaxNow = 5
    CounterMod = 8
    Answers = {"ok", "close"}
    FaultKinds = {"refuse", "unreachable", "handshake", "fin", "rst", "junk", "unsolicited",
                  "early", "again", "sigint"}
    MaxFaults = 2
INVARIANTS
    TypeOK
    RecordedNonNegative
    PlannedBeforeActual
    DialledFirst
    StopsForAReason
PROPERTIES
    Stops
