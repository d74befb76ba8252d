SPECIFICATION Spec
CONSTANTS
  None = None
  ApiError <- errors
  Message <- message
  Buckets <- buckets
  Pages <- pages
  IamConfiguration <- iamConfiguration
  Open <- open
  Concurrency = 2
INVARIANT RequesterPaysNonFatal
CHECK_DEADLOCK FALSE
