CONSTANTS
  NMission = 2
  NJobs = 3
  NPlans = 2
  NEngines = 2
  MaxAttempts = 2
CHECK_DEADLOCK FALSE
SPECIFICATION Spec
INVARIANTS
  CompletedMissionIsBuilt
  HoldsStopClicks
  StoriesAgree
