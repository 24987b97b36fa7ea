\* Two connections whose sockets are reset by the server and reopened.
SPECIFICATION Spec
CONSTANTS
    RateNum = 1
    RateDen = 2
    UsPerMs = 2
    NConns = 2
    Fds = {3, 4}
    Pipeline = 1
    ReqLen = 1
    RecordAll = TRUE
    Dynamic = FALSE
    Epoch = 1
    Stagger = 0
    Timeout = 20
    TimeoutCheckMs = 1
    StopAt = 3
    MaxNow = 4
    CounterMod = 8
    Answers = {"ok"}
    FaultKinds = {"rst"}
    MaxFaults = 1
INVARIANTS
    NoEventOnClosedSocket
    HandlerOwnsSocket
    IdleHasWakeup
