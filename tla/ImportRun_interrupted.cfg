CONSTANTS
  NumRecords = 2
  RetryRuns = 1
  MaxAuthAttempts = 3
  AnswerForms <- Readable
  EmptyAccepted = FALSE
  Texts <- CleanTexts
SPECIFICATION Spec
INVARIANTS
  IncompleteRunResumes
CHECK_DEADLOCK FALSE
