CONSTANTS
    None = None
    Down = {d1}
    Up = {u1, u2}
    Handle = {d1, u1, u2}
    BufCap = 3
    ReadMax = 3
    MaxBytes <- MCMaxBytes
    DownBytes = 4
    UpBytes = 1
    IntMax = 1000
    MayOom = TRUE
SPECIFICATION Spec
SYMMETRY MCSymmetry
INVARIANTS
    TypeOK
    LinksConsistent
    PeerDataPresent
    CrashNeedsDisconnect
    MiscreditExplained
    OneWriteAtATime
    BytesAccounted
    OrderKept
    QueuedInBounds
    MovedOnlyWhenFull
PROPERTIES
    QueuedBytesStable
    ImplementsFifo
CHECK_DEADLOCK FALSE
