\* The id of a killed koshell is given out again, and its recycled pts stays
\* unwrapped: violated.
SPECIFICATION Spec
CONSTANTS
    Ttys = {t1, t2}
    MaxPids = 3
    Bounds <- Both
    NoBrand = noBrand
    Base = base
    OldBuild = oldBuild
    NoOne = noOne
INVARIANTS
  RecycledPtsWraps
SYMMETRY Symmetry
CHECK_DEADLOCK FALSE
