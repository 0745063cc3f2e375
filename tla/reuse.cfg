SPECIFICATION Spec
CONSTANTS
    LoopCount = 1
    Worker = {k1}
    Conn = {c1, c2}
    MaxFd = 1
    MaxRequests = 1
PROPERTIES EventsReachTheirConnection AcceptedIsEstablished ShutdownEnds
CHECK_DEADLOCK FALSE
