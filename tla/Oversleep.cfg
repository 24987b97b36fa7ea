\* An event that becomes due after the walk has passed it, at the end of a second.
SPECIFICATION Spec
CONSTANTS
    MsPerSec = 2
    Waits = {0, 1, 3}
    FirstClock = 2
    MaxClock = 6
    MaxIds = 3
    MaxSkews = 0
INVARIANTS
    SleepsUntilNextEvent
