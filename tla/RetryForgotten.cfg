CONSTANTS
  NPlans = 2
  NSteps = 2
  NEngines = 2
  Linked = {1}
  MaxAttempts = 2
  MaxTime = 1
  MaxPauses = 0
  MaxFaults = 0
CHECK_DEADLOCK FALSE
SPECIFICATION Spec
INVARIANTS
  NoRetryForgotten
