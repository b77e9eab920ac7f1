\* Three threads execute two runs; the process may end and the database may fail
\* at any step.
CONSTANTS
    t1 = t1
    t2 = t2
    t3 = t3
    r1 = r1
    r2 = r2
    NoRun = NoRun
    Threads = {t1, t2, t3}
    Runs = {r1, r2}
    Faults = {"crash", "database"}
SPECIFICATION Spec
SYMMETRY ThreadRunSymmetry
INVARIANTS
    TypeOK
    EngineRunsOnce
    VerdictIsTheEngines
    AnswersAreDurable
PROPERTIES
    ImplementsLifecycle
