SPECIFICATION Spec
CONSTANTS
  Questions = {q1, q2}
  NoQuestion = NoQuestion
  Tier <- MCTier
  MaxWait <- MCMaxWait
  ReceiptDelay = 1
  MaxPty = 1
  IgnoresRepeats = TRUE
  TypeAhead = FALSE
  MidLine = FALSE
INVARIANT
  EndNeverRefires
