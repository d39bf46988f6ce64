SPECIFICATION Spec
CONSTANTS
    LastTx = 4
    Scope = {1, 3, 4}
    GtidMode = TRUE
    Workers = {w1, w2}
    Sessions = {s1, s2, s3}
    NoSession = NoSession
    MaxRetries = 1
    MaxFaults = 3
SYMMETRY Symmetry
INVARIANTS
    TypeOK
    ExactlyOnce
    ResumeSafe
    OwnerKnowsRow
    MirrorBehindSink
    NoSpuriousBlock
PROPERTIES
    CursorOnlyAdvances
    KeepsPromise
CHECK_DEADLOCK FALSE
