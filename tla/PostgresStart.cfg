SPECIFICATION StartSpec
CONSTANTS
    LastTx = 4
    Scope = {1, 3, 4}
    MaxFaults = 3
INVARIANTS
    NoGapSinceSlot
    RefusalIsTransient
CHECK_DEADLOCK FALSE
