SPECIFICATION SkillsSpec
CONSTANTS
  store = store
  shed = shed
  Chests = {store, shed}
  Items <- MCItems
  Blocks = {"stone", "dirt", "sand", "coal_ore", "iron_ore"}
  Scenarios <- MCScenarios
  MaxTries = 2
  Invocations = {r1, r2}
  Entities = {e1, e2}
  Kinds = {bed, rubble}
  Bed = bed
  Gone = gone
  Profiles = 3
  MaxDrops = 2
INVARIANTS
  PlanSuffices
  StopIsPrompt
  NoBareSoil
PROPERTIES
  WorksOnlyWithLeave
  StoppedStaysStopped
SYMMETRY Alike
CHECK_DEADLOCK FALSE
