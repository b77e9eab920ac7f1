\* Releases of up to three migrations, installed in any order, with gaps, edits and
\* failing statements; up to two stops at any step.
CONSTANTS
    a = a
    b = b
    broken = broken
    Contents = {a, b, broken}
    Broken = {broken}
    MaxVersion = 3
    MaxStops = 2
SPECIFICATION FairSpec
INVARIANTS
    LedgerIsTheSchema
    ServedAsWritten
PROPERTIES
    LedgerOnlyGrows
    ApplicableIsApplied
CHECK_DEADLOCK FALSE
