CONSTANTS
    e1 = e1
    Endpoints <- MCEndpoints
    MaxRows = 2
    MaxAttempts = 2
    StopAfter = 2
    Limit = 2
    MaxPasses = 2
    LastRow = 3
    Disturbances = 2
    None = None
SPECIFICATION Spec
CHECK_DEADLOCK FALSE
INVARIANTS
    TwiceOnlyInDoubt
    StopIsEarned
PROPERTIES
    NothingForgotten
    EveryEventEnds
