SPECIFICATION Spec
CONSTANTS
  None = None
  ApiError <- errors
  Message <- message
  Buckets <- buckets
  Pages <- pages
  IamConfiguration <- iamConfiguration
  Open <- open
  Concurrency = 2
INVARIANTS ClaimsSound NoBucketDropped
\* The step ends.
CHECK_DEADLOCK FALSE
