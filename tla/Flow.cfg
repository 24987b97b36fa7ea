\* Two threads of one connection each, or one thread of two, over three iterations, in each
\* mode.
SPECIFICATION FairSpec
CONSTANTS
    MaxThreads = 2
    MaxConns = 2
    Iterations <- MCIterations
    Modes <- MCModes
    MaxStarted = 4
    MaxLost = 1
INVARIANTS
    AnswerIsRecordedForItsRequest
    UsesItsOwnRun
    StepsInOrder
    CountsAddUp
PROPERTIES
    Exhausts
