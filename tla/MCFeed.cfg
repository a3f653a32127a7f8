CONSTANTS
    Entries = {e1, e2}
    Streams = {c1, c2}
    MaxBuffered = 1
    MaxQueue = 1
    WireRoom = 1
    Readers = {c1}
SPECIFICATION FairSpec
INVARIANTS
    NoSilentGap
    LiveOnce
    LiveOrder
    SubscribersAreOpen
PROPERTIES
    ReaderIsServed
    RecordReturns
    GoneClientIsReleased
CHECK_DEADLOCK FALSE
