\* Two requests at once for two scopes, two days and an open end, two rows.  It
\* stops when the bound on the rows is reached.
CONSTANTS
    t1 = t1
    t2 = t2
    i1 = i1
    i2 = i2
    s = s
    x = x
    y = y
    Instruments = {i1, i2}
    Threads = {t1, t2}
    Symbols = {s}
    Identifiers = {x}
    LastDay = 2
    MaxRows = 2
SPECIFICATION Spec
SYMMETRY RegistrySymmetry
INVARIANTS
    OneMeaningPerDay
PROPERTIES
    RefusalsAreJustified
CHECK_DEADLOCK FALSE
