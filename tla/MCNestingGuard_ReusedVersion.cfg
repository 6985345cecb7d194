\* The id of a killed koshell is given out again, and `koshell version` or
\* `koshell new` take the process that has it for a koshell: violated.
SPECIFICATION Spec
CONSTANTS
    Ttys = {t1, t2}
    MaxPids = 3
    Bounds <- Both
    NoBrand = noBrand
    Base = base
    OldBuild = oldBuild
    NoOne = noOne
INVARIANTS
  CommandsAlwaysKnow
SYMMETRY Symmetry
CHECK_DEADLOCK FALSE
