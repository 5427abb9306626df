SPECIFICATION CFairSpec
CONSTANTS
  MaxWorkers = 1
  StartingRPS = 2
  MaxRPS = 2
  Growth = 2
  Intervals = {1}
  TicksPerSecond = 1
  numSavedExecutions = 1
  maxRetries = 0
  MaxPoints = 1
  MaxSenders = 1
  MaxTotal = 4
  MaxCommands = 3
INVARIANTS
  CTypeOK
  StatusTellsWhy
  OneVerdict
PROPERTIES
  RunStops
CHECK_DEADLOCK FALSE
