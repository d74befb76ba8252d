SPECIFICATION Spec
CONSTANTS
  CloudBuildLocations <- buildLocations
  KMS_SERVICE_LOCATIONS <- kmsLocations
  Regions <- regions
  Clouds <- clouds
  Own = "own"
  MaxFaults = 2
INVARIANTS RelationshipsTrue LossExplained
\* The run ends.
CHECK_DEADLOCK FALSE
