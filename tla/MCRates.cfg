SPECIFICATION Spec
CONSTANTS
  NotGiven = NotGiven
  LimitFlag = NotGiven
  LimitEnv = 40
  WorkersFlag = NotGiven
  WorkersEnv = 1
  MaxInt = 999
  Rates <- SomeRates
  Growths = {0, 8, 16, 17, 24, 800}
  Gaps = {0, 5, 10}
  RunTimes = {1, 2}
  MaxGrowths = 30
INVARIANTS
  TypeOK
  AdmittedIsAccepted
  WithinLimit
  RateInBounds
  GrowsEachTime
  
CHECK_DEADLOCK FALSE
