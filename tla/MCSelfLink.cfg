SPECIFICATION Spec
CONSTANTS
  Resources <- MCResources
  ProjectId <- MCProjectId
  NumberOf <- MCNumberOf
  None = None
INVARIANT SelfLinkFound
CHECK_DEADLOCK FALSE
