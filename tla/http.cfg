SPECIFICATION Spec
CONSTANT Stream <- MCStream
INVARIANTS RequestsAreFramed CloseIsAnnounced AnswersNameTheQuery
CHECK_DEADLOCK FALSE
