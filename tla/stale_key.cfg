SPECIFICATION Spec
CONSTANTS
    Instance = {a}
    Worker = {k1}
    Query = {q1}
    Mode = {"Disabled", "LocalOnly", "LocalAndRedis"}
    LocalCapacity = 1
    LocalTtl = 1
    RedisTtl = 1
    RoundTrip = 1
    MaxTime = 3
    MaxDocs = 2
    MaxLate = 1
INVARIANTS AnswersAreCurrent
CHECK_DEADLOCK FALSE
