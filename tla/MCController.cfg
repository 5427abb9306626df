SPECIFICATION Spec
CONSTANTS
  MaxWorkers = 2
  StartingRPS = 2
  MaxRPS = 3
  Growth = 4
  Intervals = {0, 1}
  TicksPerSecond = 1
  numSavedExecutions = 1
  maxRetries = 0
  MaxPoints = 1
  MaxSenders = 1
  MaxTotal = 4
INVARIANTS
  TypeOK
  PointsAccounted
  QuietAfterStop
  LastBatchComplete
PROPERTIES
  KeepsDelivery
CHECK_DEADLOCK FALSE
