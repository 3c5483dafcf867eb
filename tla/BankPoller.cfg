SPECIFICATION Spec
\* Minutes: the code's own constants, and waits below the gap, below the interval, of an
\* interval (what the connector asks) and above it.
CONSTANTS
    Interval = 360
    MinGap = 5
    StartDelay = 1
    Waits = {2, 90, 360, 400}

INVARIANT OneReadAtATime
INVARIANT NextReadInSight
PROPERTY NeverAsksTooSoon
PROPERTY KeepsTheInterval
PROPERTY ReadAgainAndAgain
