SPECIFICATION Spec
CONSTANTS
  None = None
  Bindings <- bindingIds
  KeyOf <- keyOf
  Role <- role
  ResourceOf <- resourceOf
  Members <- members
  ProjectName <- projectName
  Hierarchy <- hierarchy
  Scopes <- scopes
  Listed <- listed
  JobStates <- jobStates
INVARIANTS BindingsComplete RolesAgree PrincipalsComplete DuplicatesExplained
PROPERTY ImplementsExecutor
\* The steps end.
CHECK_DEADLOCK FALSE
