\* What a daemon that dies in the middle of a set leaves in koshell.toml.
SPECIFICATION Spec
CONSTANTS
    Commands = {c1, c2}
    s1 = s1
    Sessions = {s1, s2}
    Conns = {1, 2}
    Catalog <- MCCatalog
    NoOne = noOne
    Rows = 1
    MaxPrompts = 2
    Bounds <- MCBounds
INVARIANT FailedSetLeavesNothing
SYMMETRY Symmetry
CHECK_DEADLOCK FALSE
