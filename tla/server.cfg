SPECIFICATION Spec
CONSTANTS
    LoopCount = 2
    Worker = {k1}
    Conn = {c1, c2}
    MaxFd = 2
    MaxRequests = 1
SYMMETRY Symmetry
INVARIANTS PublishedIsAlive ResultsReachLiveLoops
CHECK_DEADLOCK FALSE
