SPECIFICATION Spec
CONSTANTS
  f1 = f1
  f2 = f2
  f3 = f3
  p1 = p1
  p2 = p2
  p3 = p3
  Folders = {f1, f2, f3}
  Projects = {p1, p2, p3}
  Organization = Organization
  Own = p1
  Clouds <- trees
  StartStates <- startStates
INVARIANTS FoldersComplete ProjectsLinked DuplicatesExplained
PROPERTIES ImplementsExecutor StepsEnd
CHECK_DEADLOCK FALSE
