SPECIFICATION Spec
CONSTANTS
    Instance = {a}
    Worker = {k1}
    Query = {q1, q2, q3}
    Mode = {"Disabled", "LocalOnly", "LocalAndRedis"}
    LocalCapacity = 2
    LocalTtl = 2
    RedisTtl = 2
    RoundTrip = 1
    MaxTime = 5
    MaxDocs = 1
    MaxLate = 1
SYMMETRY Symmetry
INVARIANTS ListMatchesMap StaleBound
PROPERTIES EvictsLeastRecent
CHECK_DEADLOCK FALSE
