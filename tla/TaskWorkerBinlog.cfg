SPECIFICATION FairSpec
CONSTANTS
    LastTx = 4
    Scope = {2, 3}
    GtidMode = FALSE
    Workers = {w1}
    Sessions = {s1, s2, s3}
    NoSession = NoSession
    MaxRetries = 1
    MaxFaults = 4
INVARIANT ExactlyOnce
PROPERTIES
    EventuallyApplied
CHECK_DEADLOCK FALSE
