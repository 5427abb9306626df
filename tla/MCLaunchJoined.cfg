SPECIFICATION Spec
CONSTANTS
  t1 = t1
  g1 = g1
  g2 = g2
  Tests = {t1}
  Launchers = {g1, g2}
  TestOf <- OneTest
  PageSize = 2
  Faults = {"create"}
  MaxBoots = 1
  MaxCrashes = 0
INVARIANTS
  AllExecutorsJoined
CHECK_DEADLOCK FALSE
