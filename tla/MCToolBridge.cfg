SPECIFICATION Spec
CONSTANTS
  r1 = r1
  r2 = r2
  old = old
  NoRequest = NoRequest
  Requests <- MCRequests
  EarlierRequests <- MCEarlierRequests
  ResultSizes <- MCResultSizes
  MaxCallsPerRequest = 2
  MaxResultCharacters = 4
  MaxCallId = 3
INVARIANTS
  BridgeSound
  AnswersAreGenuine
  BudgetsExact
PROPERTIES
  CallsSettle
CHECK_DEADLOCK FALSE
