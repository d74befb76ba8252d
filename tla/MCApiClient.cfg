SPECIFICATION Spec
CONSTANTS
  ApiError <- MCApiError
  MaxAttempts = 2
  Concurrency = 2
  MaxPages = 2
  PageSize = 3
  NoError = NoError
  AttemptTimeout = AttemptTimeout
INVARIANTS
  InFlightBound
  PageBarrier
  WarnOnce
  NoSilentLoss
  GivesUpLate
PROPERTIES
  Settles
