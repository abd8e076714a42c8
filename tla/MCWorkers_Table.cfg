CONSTANTS
    None = None
    Listener = Listener
    ListenerFd = 4
    TableSize = 6
    NWorkers = 2
    Client = {c1, c2}
SPECIFICATION Spec
SYMMETRY MCSymmetry
INVARIANTS
    EventsInTable
CHECK_DEADLOCK FALSE
