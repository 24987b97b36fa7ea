\* The server resets an idle connection: the timer of the old socket survives it.
SPECIFICATION Spec
CONSTANTS
    RateNum = 1
    RateDen = 3
    UsPerMs = 2
    NConns = 1
    Fds = {3}
    Pipeline = 1
    ReqLen = 1
    RecordAll = TRUE
    Dynamic = TRUE
    Epoch = 1
    Stagger = 1
    Timeout = 20
    TimeoutCheckMs = 2
    StopAt = 9
    MaxNow = 12
    CounterMod = 8
    Answers = {"ok"}
    FaultKinds = {"rst"}
    MaxFaults = 1
INVARIANTS
    SerialCycle
