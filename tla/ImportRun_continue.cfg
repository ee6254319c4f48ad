CONSTANTS
  NumRecords = 2
  RetryRuns = 0
  MaxAuthAttempts = 3
  AnswerForms <- WithBareSuccess
  EmptyAccepted = FALSE
  Texts <- CleanTexts
SPECIFICATION Spec
INVARIANTS
  ContinueKeepsSubmitting
