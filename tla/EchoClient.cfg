CONSTANTS
    None = None
    Junk = Junk
    Handle = {c1}
    InitCap = 2
    HelloLen = 2
    Text = {0, 1, 2}
    MaxBytes = 5
    ReadMax = 3
    IntMax = 7
    MayOom = TRUE
SPECIFICATION Spec
INVARIANTS
    TypeOK
    TerminatorInBounds
    PrintedAsReceived
CHECK_DEADLOCK FALSE
