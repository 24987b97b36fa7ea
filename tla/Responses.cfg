\* Two responses of nine kinds, whose bytes the reads cut in every way, followed by garbage,
\* cut off by the server, or followed by the end of the connection.
SPECIFICATION Spec
CONSTANTS
    Replies <- MCReplies
    Torn <- MCTorn
    Spoilt <- MCSpoilt
    Garbage <- MCGarbage
    Digits <- MCDigits
    Dec = 2
    Hex = 2
    UMax = 7
    RecvBuf = 32
    FaultKinds = {"cut", "rst", "junk"}
    MaxReplies = 2
    MaxFaults = 1
INVARIANTS
    TypeOK
    AssertsHold
    LengthIsDeclared
    ResponsesAsSent
    NoResponseAwaited
    RedialsAsAnnounced
PROPERTIES
    RefinesPhases
