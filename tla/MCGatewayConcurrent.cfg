CONSTANTS
    Requests = {r1, r2}
    Probes = {}
    Queries <- KeyBodies
    Workers = 1
    MaxResults = 1
    MaxSample = 1
    JsonlPathSet = TRUE
    MaxCrashes = 1
SPECIFICATION Spec
INVARIANTS
    TruncationIsTold
    EntriesAreTrue
    OneEntryPerSink
    SessionsAreBounded
PROPERTIES
    ImplementsQueryService
CHECK_DEADLOCK FALSE
