\* One request at a time: does a snapshot keep to the ranges of the mappings?
CONSTANTS
    t1 = t1
    t2 = t2
    i1 = i1
    i2 = i2
    s = s
    x = x
    y = y
    Instruments = {i1, i2}
    Threads = {t1}
    Symbols = {}
    Identifiers = {x, y}
    LastDay = 2
    MaxRows = 2
SPECIFICATION Spec
INVARIANTS
    SnapshotsRespectMappings
CHECK_DEADLOCK FALSE
