SPECIFICATION Spec
CONSTANTS
  r1 = r1
  r2 = r2
  r3 = r3
  NoResponse = NoResponse
  Requests <- MCRequests
  Effects <- MCEffects
  Fuse = 2
  MaxOutput = 2
  MaxDeltas = 2
  MaxNotices = 1
  MaxInterrupts = 1
INVARIANT ProgramKeepsInterrupt
CHECK_DEADLOCK FALSE
