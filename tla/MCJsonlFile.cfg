CONSTANTS
    Entries = {e1, e2, e3}
    NoEntry = NoEntry
    MaxCrashes = 2
SPECIFICATION FairSpec
INVARIANTS
    LinesAreNotMixed
    DamageIsOneLine
PROPERTIES
    HistoryIsKept
    EveryCallEnds
CHECK_DEADLOCK FALSE
