SPECIFICATION FairSpec
CONSTANTS
  Never = Never
  MaxAuthAttempts = 3
  Skew = 1
  Lifetimes <- MCLifetimes
  Latencies <- MCLatencies
  PollInterval = 1
  PollTimeout = 2
INVARIANTS
  TypeOK
  ResultIsTrue
  RequestIdIsKept
  RefreshesAreBounded
PROPERTIES
  TokenOutlivesItsRequest
  OperationEnds
CHECK_DEADLOCK FALSE
