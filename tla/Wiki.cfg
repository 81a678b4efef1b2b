CONSTANTS
    MaxTombstones = 2
    MaxRevisions = 3
    SnapshotEvery = 2
    MaxLost = 1
    Retries = 1
    MaxEdits = 2
    MaxOthers = 2
    MaxFaults = 1
    None = None
    Me = Me
    Other = Other
SPECIFICATION Spec
CONSTRAINT MCBounds
CHECK_DEADLOCK FALSE
INVARIANTS
    HistoryIsTrue
    AppliedOnce
    AnsweredIsKept
    NoFalseNotice
    NothingStrands
PROPERTIES
    RestoreIsExact
