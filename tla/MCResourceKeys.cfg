SPECIFICATION Spec
CONSTANTS
  Resources <- MCResources
  ProjectId <- MCProjectId
  NumberOf <- MCNumberOf
  None = None
INVARIANT KindUnambiguous
INVARIANT EntityFound
INVARIANT NoOtherEntity
INVARIANT TypeOfTheEntity
CHECK_DEADLOCK FALSE
