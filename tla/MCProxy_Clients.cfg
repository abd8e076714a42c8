CONSTANTS
    None = None
    Down = {d1, d2}
    Up = {u1, u2}
    Handle = {d1, d2, u1, u2}
    BufCap = 3
    ReadMax = 2
    MaxBytes <- MCMaxBytes
    DownBytes = 1
    UpBytes = 1
    IntMax = 1000
    MayOom = FALSE
SPECIFICATION Spec
SYMMETRY MCSymmetry
INVARIANTS
    ClientsKeptApart
CHECK_DEADLOCK FALSE
