SPECIFICATION LTSpec
CONSTANTS
  t1 = t1
  g1 = g1
  g2 = g2
  Tests = {t1}
  Launchers = {g1, g2}
  TestOf <- OneTest
  PageSize = 2
  Faults = {"create", "address", "get", "delete", "cleanup", "crash", "command"}
  MaxBoots = 2
  MaxCrashes = 1
SYMMETRY Symmetry
INVARIANTS
  LTTypeOK
  AnswersAreEarned
  AllKilled
PROPERTIES
  KeepsSession
  KillsRunningOnlyOnError
  NobodyElseDestroys
CHECK_DEADLOCK FALSE
