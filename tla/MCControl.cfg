\* Two commands of every kind, a terminal that reconnects, a question, an edit.
SPECIFICATION Spec
CONSTANTS
    Commands = {c1, c2}
    s1 = s1
    Sessions = {s1, s2}
    Conns = {1, 2}
    Catalog <- MCCatalog
    NoOne = noOne
    Rows = 1
    MaxPrompts = 2
    Bounds <- MCBounds
INVARIANTS
  RoutingSound
  FileIsLastSet
  ToldTruth
  NobodyWaitsForNothing
PROPERTIES
  AnswerKeepsModel
SYMMETRY Symmetry
CHECK_DEADLOCK FALSE
