CONSTANTS
    BaseTypes <- MCBaseTypes
    NewOids = {11, 12}
    Labels = {"a", "b"}
    SharedNames = {4}
    MaxDdl = 3
SPECIFICATION Spec
INVARIANTS
    DeliveredAsMapped
    EvidenceExplains
    UnchangedIsDelivered
    NothingLost
CONSTRAINT NeededTypes
CHECK_DEADLOCK FALSE
