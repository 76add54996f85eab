\* A timer that is armed again stays cached as the nearest one.
SPECIFICATION Spec
CONSTANTS
    MsPerSec = 3
    MaxTime = 8
    MaxTimers = 2
    Delay = {1, 2}
    Period = {4}
    MaxSkews = 0
    NoTimer = NoTimer
    Forever = Forever
INVARIANTS
    CacheIsNearest
