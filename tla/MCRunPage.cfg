\* No faults but those of the network: the page of a run and another client.
CONSTANTS
    t1 = t1
    t2 = t2
    r1 = r1
    NoRun = NoRun
    Threads = {t1, t2}
    Runs = {r1}
    Faults = {}
    Page = r1
    Sections = {"run", "artifacts"}
    Breaking = {"run"}
SPECIFICATION FairPageSpec
INVARIANTS
    ShownIsCurrent
    AnswersAreWhole
    ExecutedIsShown
PROPERTIES
    ImplementsFairLifecycle
    ExecuteSettles
    ExecutionIsShown
