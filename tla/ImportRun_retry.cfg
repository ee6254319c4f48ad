CONSTANTS
  NumRecords = 2
  RetryRuns = 1
  MaxAuthAttempts = 3
  AnswerForms <- Readable
  EmptyAccepted = FALSE
  Texts <- CleanTexts
SPECIFICATION Spec
INVARIANTS
  TypeOK
  NothingUnsavedAtAwait
  NotAttemptedIsSafe
  EveryJobHasAnAttempt
  FailedIsConfirmed
  SuccessIsConfirmed
  RequestIdNamesNewestJob
  NoInternalError
  ExitZeroMeansAllDone
  PlanStaysValid
  PollsBeforeSubmits
  StopsAtFirstUnresolved
  ContinueAttemptsAll
  RefusedOnlyWhenSettled
PROPERTIES
  ResentOnlyIfSafe
  WrittenStepsAreLegal
  KeepsLedger
CHECK_DEADLOCK FALSE
