SPECIFICATION Spec
CONSTANTS
    Relations = {"r", "q"}
    MaxTx = 2
    MaxVersion = 2
    MaxOpens = 3
    MaxBytes = 5
    MaxRows = 2
    Gaps = {0, 1}
INVARIANTS
    WholeTransactions
    RowsMatchDefinition
    SlotKeepsUnkept
CHECK_DEADLOCK FALSE
