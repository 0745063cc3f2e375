SPECIFICATION Spec
CONSTANTS
    ReqLen = 2
    RespLen = 2
    IdleTimeout = 1
    MaxInput = 5
    MaxTime = 0
INVARIANTS ResponsesInOrder WriteInterest NeverTerminated HalfCloseAnswered
PROPERTIES OneRequestAtATime RequestsAnswered
CHECK_DEADLOCK FALSE
