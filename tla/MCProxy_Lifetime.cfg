CONSTANTS
    None = None
    Down = {d1}
    Up = {u1, u2}
    Handle = {d1, u1, u2}
    BufCap = 3
    ReadMax = 2
    MaxBytes <- MCMaxBytes
    DownBytes = 2
    UpBytes = 2
    IntMax = 1000
    MayOom = FALSE
SPECIFICATION Spec
INVARIANTS
    BuffersRemainValid
CHECK_DEADLOCK FALSE
