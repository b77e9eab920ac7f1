\* Two requests at once or one after the other; the database or the process may fail.
CONSTANTS
    t1 = t1
    t2 = t2
    Threads = {t1, t2}
    Payloads <- MCPayloads
    Kinds = {"null", "bar", "zero_volume", "bad_prices", "unstorable"}
    Identifiers = {"plain", "comma"}
    Names = {"plain", "blank"}
    MaxRows = 2
    MaxPosts = 2
    Faults = {"crash", "database"}
SPECIFICATION Spec
SYMMETRY ThreadSymmetry
INVARIANTS
    ImportsAreWhole
    AnswersAreTrue
    ReimportsAreDeclared
CHECK_DEADLOCK FALSE
