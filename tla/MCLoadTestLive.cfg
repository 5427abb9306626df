SPECIFICATION LTFairSpec
CONSTANTS
  t1 = t1
  g1 = g1
  g2 = g2
  Tests = {t1}
  Launchers = {g1, g2}
  TestOf <- OneTest
  PageSize = 2
  Faults = {"create", "address", "command"}
  MaxBoots = 2
  MaxCrashes = 0
PROPERTIES
  HangsOnlyForExecutord
  RegistrationAnswered
  LaunchersFinish
  LateExecutorDestroyed
CHECK_DEADLOCK FALSE
