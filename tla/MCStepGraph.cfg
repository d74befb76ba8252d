CONSTANTS
  Steps <- stepIds
  Last <- lastSteps
  DependsOn <- dependsOn
  Ancestors <- ancestorsOf
  Kinds <- kinds
  Reads <- reads
  Writes <- writes
  AddsConcurrently <- addsConcurrently
  Needs <- needs
  StartStates <- startStates
  MaxCone = 7
SPECIFICATION Spec
INVARIANTS ReadsSettled NothingSkipped AbortHasCause OnlyKnownRaces
PROPERTIES StableInputs RunEnds
\* The run of the integration ends.
CHECK_DEADLOCK FALSE
