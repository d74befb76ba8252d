CONSTANTS
  Configs <- AllConfigs
  ServiceLists <- ListsMissingOne
  ServicePages <- TwoPages
  NumPages = 2
SPECIFICATION Spec
INVARIANTS OnlyUsableServices DegradesSafely OnlyKnownStranded SkippedExplained
\* getStepStartStates returns.
CHECK_DEADLOCK FALSE
