\* Timers that fire once or are armed again, at once or later, a clock that is
\* set once, fair callbacks and time; a second of 3 milliseconds.
SPECIFICATION FairSpec
CONSTANTS
    MsPerSec = 3
    MaxTime = 6
    MaxTimers = 3
    Delay = {0, 3}
    Period = {0, 3}
    MaxSkews = 1
    NoTimer = NoTimer
    Forever = Forever
INVARIANTS
    TypeOK
    NoDanglingTimer
    NearestCached
    OversleepBounded
    PassFiresAllDue
PROPERTIES
    TimerEnds
