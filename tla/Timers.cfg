\* Three events whose procedures create and re-arm events, a second of two
\* milliseconds, and a clock that is set once.
SPECIFICATION FairSpec
CONSTANTS
    MsPerSec = 2
    Waits = {0, 1, 3}
    FirstClock = 2
    MaxClock = 6
    MaxIds = 3
    MaxSkews = 1
INVARIANTS
    TypeOK
    NewWaitsForNextPass
    DueIsCalled
    OversleepsUnderASecond
PROPERTIES
    NeverEarly
    DueGetsCalled
