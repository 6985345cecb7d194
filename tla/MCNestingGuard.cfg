\* A brand is inherited, a pts and a process id recycled, a marker leaked and a
\* start that fails.
SPECIFICATION Spec
CONSTANTS
    Ttys = {t1, t2}
    MaxPids = 3
    Bounds <- OneOf
    NoBrand = noBrand
    Base = base
    OldBuild = oldBuild
    NoOne = noOne
INVARIANTS
  WrappedOnce
  CommandsKnowTheirKoshell
  TerminalKept
PROPERTIES
  NoExecLoop
SYMMETRY Symmetry
CHECK_DEADLOCK FALSE
