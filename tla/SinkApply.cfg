SPECIFICATION Spec
CONSTANTS
    Keys = {1, 2}
    Values = {1, 2}
    Starts <- MCStarts
    MaxChanges = 2
    MaxOthers = 1
INVARIANTS
    Mirrored
    CommitsWhatWasVerified
    RefusedWithCause
PROPERTY KeepsMirror
CHECK_DEADLOCK FALSE
