SPECIFICATION Spec
CONSTANTS
    Tables = {"a", "b"}
    Captures = {{}, {"a"}}
    MaxChanges = 1
    MaxGroups = 2
    MaxFiles = 2
INVARIANTS
    WholeTransactions
    NeverOutOfPlace
