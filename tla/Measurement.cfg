\* Two threads, three responses with latencies at the ends of buckets, two samples.
\* The program ends when it has reported.
SPECIFICATION FairSpec
CONSTANTS
    LowestTrackable = 1
    HighestTrackable = 120
    SignificantFigures = 1
    IntBits = 8
    NThreads = 2
    Latencies = {0, 31, 33, 127}
    RateOf <- MCRateOf
    MaxResponses = 3
    MaxSamples = 2
CHECK_DEADLOCK FALSE
INVARIANTS
    IterationsEnd
    SamplesAddUp
    MergeLosesNothing
    ReportIsPrecise
PROPERTIES
    AllJoined
