\* Up to five bars: two round trips, one and an order without a next bar, or a
\* position held to the end.  The prices are apart enough for a refusal at the
\* open, and a capital of 6 is spent to the last unit at either price, so that
\* the roundings decide.  All roundings of five bars stay below one unit.
CONSTANTS
    Prices = {2, 3}
    Volumes = {0}
    MaxBars = 5
    Unit = 8
    Drift = 1
    Bars <- MCBars
    Manifests <- MCManifests
SPECIFICATION ArtifactSpec
INVARIANTS
    BooksAgree
    FillsAtNextOpen
    RoundTripsOnly
    IntentsAreSettled
    EntriesAreWithinBudget
    SnapshotsReplayTheRun
    ProfitIsExplained
    DrawdownIsTheWorstLoss
CHECK_DEADLOCK FALSE
