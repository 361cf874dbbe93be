SPECIFICATION Spec
CONSTANTS
  Goals = {farm, goal1, goal2}
  Farms = {farm}
  Twins = {goal1, goal2}
  Plans = {p1, p2}
  NoPlan = NoPlan
  Interval = 2
  RetryAfter = 1
INVARIANTS
  PlansAreWanted
PROPERTY GoalsAreServed
CHECK_DEADLOCK FALSE
