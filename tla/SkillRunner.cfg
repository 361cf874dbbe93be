CONSTANTS
  r1 = r1
  r2 = r2
  r3 = r3
  w1 = w1
  w2 = w2
  NoRun = NoRun
  Runs <- MCRuns
  Work <- MCWork
  MaxTime = 2
  MaxTimer = 1
  ReflexLimit = 1
  Cooldown = 1
CHECK_DEADLOCK FALSE
SYMMETRY Symmetry
SPECIFICATION Spec
INVARIANTS
  OnlyActiveMayAct
  NoLateSuccess
  RowTellsTheTruth
