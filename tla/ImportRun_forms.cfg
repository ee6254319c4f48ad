CONSTANTS
  NumRecords = 2
  RetryRuns = 0
  MaxAuthAttempts = 3
  AnswerForms <- AllAnswerForms
  EmptyAccepted = TRUE
  Texts <- CleanTexts
SPECIFICATION FairSpec
INVARIANTS
  NoDuplicateJob
  RefusedOnlyWhenSettled
PROPERTIES
  RunEnds
CHECK_DEADLOCK FALSE
