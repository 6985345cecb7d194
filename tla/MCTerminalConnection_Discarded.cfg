SPECIFICATION Spec
CONSTANTS
  r1 = r1
  r2 = r2
  old = old
  a1 = a1
  a2 = a2
  NoRequest = NoRequest
  NoAgent = NoAgent
  Requests <- MCRequests
  EarlierRequests <- MCEarlierRequests
  Agents <- MCAgents
  ResultSizes <- MCResultSizes
  MaxCallsPerRequest = 1
  MaxResultCharacters = 4
  MaxCallId = 2
  MaxControls = 1
INVARIANT DiscardedOnDisconnect
CHECK_DEADLOCK FALSE
