\* Is a database of a newer release served?
CONSTANTS
    a = a
    b = b
    broken = broken
    Contents = {a, b, broken}
    Broken = {broken}
    MaxVersion = 2
    MaxStops = 1
SPECIFICATION Spec
INVARIANTS
    NewerIsNotServed
CHECK_DEADLOCK FALSE
