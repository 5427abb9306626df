SPECIFICATION Spec
CONSTANTS
  Names = {"a", "b"}
  MaxOps = 4
INVARIANTS
  TypeOK
  ReportMatchesJob
  FailedRequestEndsJob
  DefinedStepsRun
  AcceptedConfigIsAdded
CHECK_DEADLOCK FALSE
