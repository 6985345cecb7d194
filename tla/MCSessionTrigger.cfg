SPECIFICATION Spec
CONSTANTS
  Questions = {q1, q2}
  NoQuestion = NoQuestion
  Tier <- MCTier
  MaxWait <- MCMaxWait
  ReceiptDelay = 1
  MaxPty = 1
  IgnoresRepeats = FALSE
  TypeAhead = FALSE
  MidLine = FALSE
INVARIANTS
  QuestionsSound
  SpanOwnsPending
PROPERTIES
  FiringSound
  PendingSettles
