CONSTANTS
  r1 = r1
  r2 = r2
  r3 = r3
  w1 = w1
  w2 = w2
  NoRun = NoRun
  Runs = {r1, r2}
  Work = {w1}
  MaxTime = 3
  MaxTimer = 1
  ReflexLimit = 1
  Cooldown = 1
CHECK_DEADLOCK FALSE
SPECIFICATION FairSpec
PROPERTIES
  TimersEnforced
