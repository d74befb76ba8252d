SPECIFICATION Spec
CONSTANTS
  Zones <- zones
  Regions <- regions
  Clouds <- clouds
  Own = "own"
  None = None
  MaxFaults = 2
INVARIANTS RelationshipsTrue LossExplained LossBounded
\* The run ends.
CHECK_DEADLOCK FALSE
