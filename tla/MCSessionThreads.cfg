\* Every cut of the stream, every order of the threads.  The deadlock check is
\* on: with no program left the session always ends.
SPECIFICATION Spec
CONSTANTS
    Scenarios <- MCScenarios
    MaxPending = 5
    MaxQueue = 2
INVARIANTS
  StreamFaithful
  KeysFaithful
  SizesSound
  EndIsComplete
