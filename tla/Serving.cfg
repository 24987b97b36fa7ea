\* One connection and a server of any slowness, which answers in parts and closes
\* the connection after some answers: waiting, falling behind, catching up.
SPECIFICATION Spec
CONSTANTS
    RateNum = 1
    RateDen = 3
    UsPerMs = 2
    NConns = 1
    Fds = {3}
    Pipeline = 1
    ReqLen = 1
    RecordAll = TRUE
    Dynamic = TRUE
    Epoch = 1
    Stagger = 1
    Timeout = 20
    TimeoutCheckMs = 2
    StopAt = 9
    MaxNow = 12
    CounterMod = 8
    Answers = {"ok", "close", "until_eof", "part"}
    FaultKinds = {}
    MaxFaults = 0
INVARIANTS
    CatchUpRate
    OneWakeup
    RequestThenResponse
PROPERTIES
    FollowsPlan
