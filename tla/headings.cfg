SPECIFICATION Spec
CONSTANTS
    MaxLevel = 3
    MaxLines = 3
    MaxDocuments = 1
    MaxTotal = 3
    MaxTopK = 0
    Unit = 1000
    LnTable <- MCLnTable
    Text <- MCText
    Query <- MCQuery
INVARIANTS NewHeadingDiscardsOld
CHECK_DEADLOCK FALSE
