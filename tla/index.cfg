SPECIFICATION Spec
CONSTANTS
    MaxLevel = 3
    MaxLines = 6
    MaxDocuments = 2
    MaxTotal = 5
    MaxTopK = 2
    Unit = 1000
    LnTable <- MCLnTable
    Text <- MCText
    Query <- MCQuery
INVARIANTS NothingLost PathsAreAncestors IdsArePlaces PostingsAreExact SearchMatchesScan RankIsMonotone
CHECK_DEADLOCK FALSE
