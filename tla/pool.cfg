SPECIFICATION Spec
CONSTANTS
    Worker = {k1, k2}
    Submitter = {s1, s2}
    Task = {t1, t2, t3}
INVARIANTS EnoughAwake TakenInOrder DrainedAtDestruction
PROPERTIES TasksRun DestructionEnds
CHECK_DEADLOCK FALSE
