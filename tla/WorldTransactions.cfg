CONSTANTS
  Cells = {c1}
  Solids = {stone, dirt}
  Air = air
  NoBlock = noblock
  NTx = 2
  NOrds = 2
  Ops = {o1, o2}
  BuildPlans = {p1, p2}
  InMission = {p1}
  MaxChanges = 1
  MaxRows = 2
  MaxEdits = 1
  MaxFaults = 1
SYMMETRY Symmetry
CHECK_DEADLOCK FALSE
SPECIFICATION Spec
INVARIANTS
  EveryChangeRecorded
  BudgetKept
  JournalIsTrue
PROPERTY RevertedStands
