CONSTANTS
    MaxTombstones = 2
    MaxRevisions = 3
    SnapshotEvery = 2
    MaxLost = 1
    Retries = 1
    MaxEdits = 2
    MaxOthers = 1
    MaxFaults = 1
    None = None
    Me = Me
    Other = Other
SPECIFICATION Spec
CHECK_DEADLOCK FALSE
INVARIANT TypedIsKept
