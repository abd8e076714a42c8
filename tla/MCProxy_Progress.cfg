CONSTANTS
    None = None
    Down = {d1}
    Up = {u1}
    Handle = {d1, u1}
    IntMax = 1000
    BufCap = 4
    ReadMax = 2
    MaxBytes <- MCMaxBytes
    DownBytes = 2
    UpBytes = 2
    MayOom = FALSE
SPECIFICATION FairSpec
PROPERTIES EveryByteRelayed
CHECK_DEADLOCK FALSE
