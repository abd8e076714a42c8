CONSTANTS
    None = None
    Listener = Listener
    ListenerFd = 4
    TableSize = 6
    NWorkers = 2
    Client = {c1, c2}
SPECIFICATION FairSpec
INVARIANTS
    TypeOK
    WaitsForEveryChild
    OwnEventsInTable
PROPERTIES
    EndedOnlyByTwin
    AcceptedUnlessParentLast
    EndIsSeen
CHECK_DEADLOCK FALSE
