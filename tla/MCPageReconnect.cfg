CONSTANTS
    Entries = {e1, e2}
    Streams = {c1, c2}
    MaxBuffered = 1
    MaxQueue = 1
    WireRoom = 1
    Readers = {}
    NoStream = NoStream
    MaxCards = 1
    Clicked = {}
    MaxReceived = 0
    Outcomes <- AllowedOnly
    Memories = {{}}
    Decision <- AllAllowed
SPECIFICATION PageSpec
SYMMETRY Symmetry
INVARIANTS
    CaughtUpPageIsComplete
CHECK_DEADLOCK FALSE
