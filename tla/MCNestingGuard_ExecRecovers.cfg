\* `exec koshell` in a pane that was wrongly left unwrapped is refused, and the
\* pane closes: violated.
SPECIFICATION Spec
CONSTANTS
    Ttys = {t1, t2}
    MaxPids = 3
    Bounds <- Both
    NoBrand = noBrand
    Base = base
    OldBuild = oldBuild
    NoOne = noOne
INVARIANTS
  ExecRecovers
SYMMETRY Symmetry
CHECK_DEADLOCK FALSE
