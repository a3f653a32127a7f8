CONSTANTS
    Requests = {r1, r2}
    Probes = {p1}
    Queries <- WorkerBodies
    Workers = 1
    MaxResults = 1
    MaxSample = 1
    JsonlPathSet = FALSE
    MaxCrashes = 0
SPECIFICATION FairSpec
PROPERTIES
    EveryRequestIsAnswered
    EveryProbeIsAnswered
CHECK_DEADLOCK FALSE
