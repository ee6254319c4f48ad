CONSTANTS
  NumRecords = 2
  RetryRuns = 0
  MaxAuthAttempts = 3
  AnswerForms <- Readable
  EmptyAccepted = TRUE
  Texts <- CleanTexts
SPECIFICATION Spec
INVARIANTS
  SuccessIsConfirmed
CHECK_DEADLOCK FALSE
