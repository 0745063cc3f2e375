SPECIFICATION Spec
CONSTANTS
    ReqLen = 2
    RespLen = 1
    IdleTimeout = 2
    MaxInput = 2
    MaxTime = 6
INVARIANTS OneIdleCheck
PROPERTIES IdleCloseIsDue IdleCloseMissesNothing IdleCloses
CHECK_DEADLOCK FALSE
