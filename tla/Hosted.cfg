SPECIFICATION HostedSpec
CONSTANTS
  MaxStarts = 2
  MaxConns = 3
  MaxLines = 1
INVARIANTS
  RestLeavesNothing
  OneConnection
  RunsWhenWanted
  OneRuntimeServes
PROPERTY StopComesToRest
CHECK_DEADLOCK FALSE
