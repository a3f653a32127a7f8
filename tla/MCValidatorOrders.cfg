CONSTANTS
    Texts <- KeyTexts
    MaxCalls = 2
SPECIFICATION Spec
INVARIANTS
    VerdictIgnoresOrder
    ReasonIsStable
CHECK_DEADLOCK FALSE
