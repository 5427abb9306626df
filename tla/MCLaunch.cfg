SPECIFICATION Spec
CONSTANTS
  t1 = t1
  g1 = g1
  g2 = g2
  Tests = {t1}
  Launchers = {g1, g2}
  TestOf <- OneTest
  PageSize = 2
  Faults = {"create", "address", "get", "cleanup", "crash"}
  MaxBoots = 3
  MaxCrashes = 1
SYMMETRY Symmetry
INVARIANTS
  TypeOK
  RegistryConsistent
  NoSilentShortfall
  BlocksOnlyOnReboots
  NothingSurvivesRestart
PROPERTIES
  AwaitedNotDestroyed
CHECK_DEADLOCK FALSE
