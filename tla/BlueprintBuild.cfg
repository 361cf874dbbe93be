CONSTANTS
  Units <- TwoUnits
  Supports <- TwoProps
  Column <- Columns
  Neighbours <- Beside
  Grounded = {}
  Batch = 1
  Runs <- Handlers
  Plans <- TwoPlans
  MaxEdits = 1
  MaxFaults = 1
SPECIFICATION Spec
CHECK_DEADLOCK FALSE
INVARIANTS
  NoSupportLeftBehind
  NoSecondClick
PROPERTY CompletedIsBuilt
