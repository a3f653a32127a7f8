CONSTANTS
    Listings <- TwoListings
    MaxEdits = 1
SPECIFICATION FairSpec
INVARIANTS
    ServesWhole
    ServesValidSettings
    NoFailureRecurs
PROPERTIES
    GatewayStarts
    LoadsTheRegistry
CHECK_DEADLOCK FALSE
