SPECIFICATION FairSpec
CONSTANTS
    LastTable = 2
    LastKey = 3
    BatchRows = 2
    MaxCommits = 2
INVARIANTS
    BoundaryIsView
    ColumnsMatchView
    ScanComplete
PROPERTY LockReleased
CHECK_DEADLOCK FALSE
