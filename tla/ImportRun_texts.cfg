CONSTANTS
  NumRecords = 2
  RetryRuns = 0
  MaxAuthAttempts = 3
  AnswerForms <- Readable
  EmptyAccepted = FALSE
  Texts <- ErrorMessage
SPECIFICATION Spec
INVARIANTS
  IncompleteRunResumes
CHECK_DEADLOCK FALSE
