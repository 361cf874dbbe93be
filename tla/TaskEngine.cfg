CONSTANTS
  NPlans = 2
  NSteps = 2
  NEngines = 2
  Linked = {1}
  MaxAttempts = 2
  MaxTime = 1
  MaxPauses = 1
  MaxFaults = 1
CHECK_DEADLOCK FALSE
SPECIFICATION FairSpec
INVARIANTS
  StepsInOrder
  PlanMirrorsSteps
  CompletedByOwnAttempt
  NoLostWork
PROPERTIES
  KeepsLifecycle
  RetriesHappen
