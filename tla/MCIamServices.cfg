SPECIFICATION Spec
CONSTANTS
  Clouds <- clouds
  Own = "own"
  Permissions <- permissions
  MaxFaults = 2
  None = None
INVARIANTS CustomRolesRelated AuditConfigsRelated LossExplained
\* The run ends.
CHECK_DEADLOCK FALSE
