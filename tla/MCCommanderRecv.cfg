SPECIFICATION CSpec
CONSTANTS
  MaxWorkers = 1
  StartingRPS = 2
  MaxRPS = 2
  Growth = 2
  Intervals = {1}
  TicksPerSecond = 1
  numSavedExecutions = 1
  maxRetries = 0
  MaxPoints = 1
  MaxSenders = 1
  MaxTotal = 4
  MaxCommands = 3
INVARIANTS
  RecvErrorIsReturned
CHECK_DEADLOCK FALSE
