SPECIFICATION Spec
CONSTANTS
  r1 = r1
  r2 = r2
  r3 = r3
  NoResponse = NoResponse
  Requests <- MCThree
  Effects <- MCEffects
  Fuse = 2
  MaxOutput = 1
  MaxDeltas = 1
  MaxNotices = 0
  MaxInterrupts = 0
INVARIANT HeldOutputKept
CHECK_DEADLOCK FALSE
