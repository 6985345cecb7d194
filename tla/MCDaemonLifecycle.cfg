SPECIFICATION Spec
CONSTANTS
  t1 = t1
  Terminals = {t1}
  Absent = Absent
  Junk = Junk
  Nobody = Nobody
  MaxDaemons = 2
  MaxRequests = 2
  MaxConns = 3
  MaxCrashes = 1
  MaxCli = 1
INVARIANTS
  InstanceSound
  IdleTimerExact
PROPERTIES
  TerminalsToldTruth
  DaemonsDrain
CHECK_DEADLOCK FALSE
