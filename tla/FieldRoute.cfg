SPECIFICATION Spec
CONSTANTS
    Columns <- MCColumns
    Pairs <- MCPairs
    Redefinitions <- MCRedefinitions
    OptionsFor <- MCOptionsFor
    Samples <- MCSamples
    MaxAlters = 1
    MaxRevision = 2
INVARIANTS
    StoredFits
    MeaningKept
    RunsWhatWasConfirmed
    KeysStayDistinct
CHECK_DEADLOCK FALSE
