SPECIFICATION Spec
CONSTANTS
  Tiers <- MCTiers
  TextBudget = 2
  SnapshotBudget = 4
  CompactEvery = 3
  MaintenanceInterval = 1
  InputChars = 1
  OutputChars = 2
  ScreenLines = 1
  ChangesLimit = 2
  Sizes <- MCSizes
  Screens <- MCScreens
  Callers <- AllCallers
  NoSnapshot = NoSnapshot
  MaxRecords = 4
  MaxTime = 3
  MaxSetBack = 1
INVARIANTS
  ContextIsHonest
  ChangesAreTrue
  StoreSound
CHECK_DEADLOCK FALSE
