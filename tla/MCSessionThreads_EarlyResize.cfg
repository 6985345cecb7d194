\* A resize while the session is starting.
SPECIFICATION Spec
CONSTANTS
    Scenarios <- MCScenarios
    MaxPending = 5
    MaxQueue = 2
INVARIANT SizesAlwaysAgree
