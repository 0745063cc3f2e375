SPECIFICATION Spec
CONSTANTS
    Request = {r1, r2}
    MaxTime = 2
INVARIANTS SpansArePositive TotalsAtRest
CHECK_DEADLOCK FALSE
