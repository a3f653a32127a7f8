CONSTANTS
    e1 = e1
    e2 = e2
    e3 = e3
    Entries = {e1, e2, e3}
    MaxCards = 2
    Outcomes <- TwoChips
    Clicked <- TwoChips
    Memories <- AnyMemory
    Decision <- Mixed
    MaxReceived = 4
SPECIFICATION FairSpec
INVARIANTS
    TypeOK
    FilterMatchesCards
    HiddenMatchesFilters
PROPERTIES
    RowsAreAligned
