\* A response with a body is cut off, a response without one comes on the next socket.
SPECIFICATION Spec
CONSTANTS
    Replies <- FewReplies
    Torn <- FewTorn
    Spoilt <- FewSpoilt
    Garbage <- MCGarbage
    Digits <- MCDigits
    Dec = 2
    Hex = 2
    UMax = 7
    RecvBuf = 40
    FaultKinds = {"cut"}
    MaxReplies = 2
    MaxFaults = 1
INVARIANTS
    ResponsesWhole
