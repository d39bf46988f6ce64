SPECIFICATION Spec
CONSTANTS
    t1 = t1
    t2 = t2
    i1 = i1
    i2 = i2
    s1 = s1
    tab = tab
    Tasks = {t1, t2}
    SinkOf <- MCSinkOf
    ServerOf <- MCServerOf
    TableOf <- MCTableOf
    NoServer = NoServer
    AutoStart = {t1, t2}
    MaxWorkers = 2
    MaxRevision = 2
    MaxChanges = 2
    MaxFaults = 1
INVARIANTS
    SingleWriter
    StopIsKept
    ActiveHasThread
    DeletedIsQuiet
CHECK_DEADLOCK FALSE
SYMMETRY Symmetry
