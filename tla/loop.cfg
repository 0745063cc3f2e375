SPECIFICATION Spec
CONSTANTS
    Thread = {loop, w1}
    LoopThread = loop
    Task = {t1, t2}
    Fd = {f1}
    WakeupFd = wakeupFd
    Timer = {tm1}
    MaxCounter = 1
    MaxEvents = 2
    TicksPerMs = 2
    MaxTimeout = 1
    MaxTimer = 3
    MaxDelay = 1
    MaxTime = 5
    PastTimers = FALSE
INVARIANTS NoLostWakeup QuitInterruptsWait TimeoutServesTimers
PROPERTIES TaskQueueSpec QuitEnds TimersRun
CHECK_DEADLOCK FALSE
