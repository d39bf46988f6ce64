SPECIFICATION Spec
CONSTANTS
    Columns <- MCColumns
    Pairs <- Moments
    Redefinitions <- MCRedefinitions
    OptionsFor <- MCOptionsFor
    Samples <- MCSamples
    MaxAlters = 0
    MaxRevision = 1
INVARIANT PlanUsedForEveryRow
CHECK_DEADLOCK FALSE
