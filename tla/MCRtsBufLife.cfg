CONSTANTS
    IntMax = 31
    InitCap = 3
    MaxLen = 31
SPECIFICATION Spec
INVARIANTS
    TypeOK
    InBounds
    NoHole
PROPERTIES
    FailureKeepsBuffer
CHECK_DEADLOCK FALSE
