SPECIFICATION Spec
CONSTANTS
  Tiers <- LongTiers
  TextBudget = 3
  SnapshotBudget = 100
  CompactEvery = 3
  MaintenanceInterval = 2
  InputChars = 1
  OutputChars = 3
  ScreenLines = 1
  ChangesLimit = 2
  Sizes <- MCSizes
  Screens <- OneScreen
  Callers <- OnlyPresentation
  NoSnapshot = NoSnapshot
  MaxRecords = 24
  MaxTime = 24
  MaxSetBack = 0
INVARIANT CoarseHistoryRemains
CHECK_DEADLOCK FALSE
