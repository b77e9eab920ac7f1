\* No faults: an optimizer of two valid and one rejected candidate, and a client
\* that executes the optimizer's runs.
CONSTANTS
    o1 = o1
    o2 = o2
    t1 = t1
    r1 = r1
    r2 = r2
    r3 = r3
    r4 = r4
    r5 = r5
    r6 = r6
    r7 = r7
    r8 = r8
    r9 = r9
    NoRun = NoRun
    Threads = {o1, t1}
    Optimizers = {o1}
    Runs = {r1, r2, r3, r4, r5}
    FastWindows = {1}
    SlowWindows = {1, 2, 3}
    Objectives = {1, 2}
    Runnable = {{}, {"validation"}, {"train", "validation"},
                {"validation", "holdout"}, {"train", "validation", "holdout"}}
    Faults = {}
SPECIFICATION OptFairSpec
INVARIANTS
    HoldoutIsSealed
    SelectionIsBest
    CompletedIsEvidenced
PROPERTIES
    OptimizationSettles
