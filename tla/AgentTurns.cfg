CONSTANTS
  MaxDepth = 2
  MaxCalls = 2
  MaxTurns = 3
  MaxStops = 1
SPECIFICATION FairSpec
INVARIANT RightActor
PROPERTIES TurnsEnd
CHECK_DEADLOCK FALSE
