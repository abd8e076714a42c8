CONSTANTS
    None = None
    Handle = {c1, c2}
    ReadMax = 2
    MaxBytes = 2
SPECIFICATION FairSpec
INVARIANTS
    EchoInPlace
PROPERTIES
    LostOnlyWhenQueued
    EveryByteAnswered
CHECK_DEADLOCK FALSE
