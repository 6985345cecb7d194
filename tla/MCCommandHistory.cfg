SPECIFICATION Spec
CONSTANTS
  MaxCompletedCommands = 2
  MaxCommandOutputBytes = 4
  MaxTotalOutputBytes = 6
  MaxReadLimit = 2
  Limits <- MCLimits
  Chunks <- MCChunks
  ReplacementBytes = 3
  NoCommand = NoCommand
  NoOffset = NoOffset
  MaxCommands = 3
  MaxBytes = 5
INVARIANTS
  StoreSound
  Accounted
  PagesAreTrue
PROPERTIES
  OldestFirst
CHECK_DEADLOCK FALSE
