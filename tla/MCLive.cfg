CONSTANTS
    Requests = {r1, r2}
    Probes = {}
    Queries <- RejectedOrUpdate
    Workers = 2
    MaxResults = 1
    MaxSample = 0
    JsonlPathSet = FALSE
    MaxCrashes = 0
    Streams = {c1}
    MaxBuffered = 1
    MaxQueue = 1
    WireRoom = 1
    Readers = {}
SPECIFICATION LiveSpec
SYMMETRY Symmetry
INVARIANTS
    AnsweredIsOnItsWay
    AnswerOrderIsLiveOrder
CHECK_DEADLOCK FALSE
