CONSTANTS
    None = None
    Listener = Listener
    ListenerFd = 4
    TableSize = 6
    NWorkers = 2
    Client = {c1}
SPECIFICATION FairSpec
PROPERTIES
    ConnectionCallbackCalled
CHECK_DEADLOCK FALSE
