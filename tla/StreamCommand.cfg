SPECIFICATION FairSpec
CONSTANTS
    PipeCap = 1
    MaxLines = 4
INVARIANTS
    TypeOK
    CapturedAll
    Confined
PROPERTY Returns
CHECK_DEADLOCK FALSE
