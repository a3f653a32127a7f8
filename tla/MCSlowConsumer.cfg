CONSTANTS
    MaxQueue = 2
    Interval = 3
    MaxTime = 8
    MaxRefused = 5
SPECIFICATION Spec
INVARIANTS
    WarningsAreApart
    EveryRefusalIsCounted
    SilenceIsShort
CHECK_DEADLOCK FALSE
