\* Two requests for the same optimization of four candidates; the
\* process may end and the database may fail at any step.  All objectives are equal.
CONSTANTS
    o1 = o1
    o2 = o2
    t1 = t1
    r1 = r1
    r2 = r2
    r3 = r3
    r4 = r4
    r5 = r5
    r6 = r6
    r7 = r7
    r8 = r8
    r9 = r9
    NoRun = NoRun
    Threads = {o1, o2}
    Optimizers = {o1, o2}
    Runs = {r1, r2, r3, r4, r5, r6, r7, r8, r9}
    FastWindows = {1, 2}
    SlowWindows = {3, 4}
    Objectives = {1}
    Runnable = {{"train", "validation"}, {"train", "validation", "holdout"}}
    Faults = {"crash", "database"}
SPECIFICATION OptSpec
SYMMETRY OptimizerSymmetry
INVARIANTS
    OneDriver
PROPERTIES
    ImplementsSealedHoldout
