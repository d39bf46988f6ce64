SPECIFICATION AccountsSpec
CONSTANTS
    a = a
    b = b
    c1 = c1
    c2 = c2
    Names = {a, b}
    NoName = NoName
    Global = Global
    Clients = {c1, c2}
    MaxId = 2
    MaxHash = 4
    MaxToken = 3
    MaxTime = 2
    SessionSeconds = 2
    Window = 0
    SessionLimit = 1
    GlobalLimit = 3
    UserLimit = 2
INVARIANTS
    AccountsTypeOK
    SessionsCurrent
    AdminRemains
CHECK_DEADLOCK FALSE
SYMMETRY Symmetry
