CONSTANTS
    Requests = {r1, r2, r3}
    Old = old
    None = None
    Asks <- MCAsks
    MaxFaults = 1
    MaxStops = 1
SPECIFICATION Spec
SYMMETRY Symmetry
CHECK_DEADLOCK FALSE
INVARIANTS
    SavedIsStored
    
    FileIsThere
PROPERTIES
    OneAfterTheOther
