SPECIFICATION PlansSpec
CONSTANTS
  Registry <- MCRegistry
  Definitions <- MCDefinitions
  Missions <- MCMissions
  Contents <- MCContents
  hut = hut
  Names = {hut}
  Versions = {"v1", "v2"}
  Configured = "v1"
  MaxExpanded = 5
  MaxChanges = 6
  MaxRuns = 1
  MaxJobs = 2
  Ops <- MCOps
  Layers <- MCLayers
  Normalize <- MCNormalize
  Looks <- MCLooks
  Stairs = {"oak_stairs"}
  Hazardous = {"tnt"}
  Replaceable = {"air", "fern"}
  MaxOperations = 3
  MaxCellsPerOperation = 10
  MaxWorldCells = 13
  MaxRadius = 12
  MinCoordinate <- MCMinCoordinate
  MaxCoordinate = 2
  MaxSurveyed = 2
INVARIANTS
  ScriptsAreJudgedOnce
  BuildsWhatWasCompiled
  ShapesAreTrue
  SameJudgement
PROPERTY
  NothingBeyondTheRole
CHECK_DEADLOCK FALSE
