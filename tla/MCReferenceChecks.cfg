\* Files of up to four rows: the rows of two instruments alternate, repeat and go
\* back.  Up to six fills: a sale can close two lots and part of a third.  Every
\* strategy and optimization of MCReferenceChecks.  Walks of up to four pages (of one or
\* two rows) through a collection that grows to four.
CONSTANTS
    Instruments = {"BBCA", "TLKM"}
    Times = {1, 2, 3}
    Defects = {"invalid_decimal", "invalid_ohlc_relationship"}
    MaxRows = 4
    Prices = {1, 3}
    Quantities = {1, 2}
    MaxFills = 6
    Strategies <- MCStrategies
    Optimizations <- MCOptimizations
    Places = {1, 2, 3, 4}
    PageSizes = {1, 2}
    MaxReads = 8
SPECIFICATION Spec
INVARIANTS
    FirstOffenceIsReported
    MatchesShareByShare
    StrategiesAreWarm
    CandidatesHaveRoom
    FormsAgreeWithTheServer
    WalksAreComplete
CHECK_DEADLOCK FALSE
