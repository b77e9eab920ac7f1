\* Strategies only: is what the form sends of an acceptable strategy accepted?
CONSTANTS
    Instruments = {"BBCA", "TLKM"}
    Times = {1, 2, 3}
    Defects = {"invalid_decimal", "invalid_ohlc_relationship"}
    MaxRows = 0
    Prices = {1, 3}
    Quantities = {1, 2}
    MaxFills = 0
    Strategies <- MCStrategies
    Optimizations = {}
    Places = {1, 2, 3, 4}
    PageSizes = {1, 2}
    MaxReads = 0
SPECIFICATION Spec
INVARIANTS
    FormsAreAccepted
CHECK_DEADLOCK FALSE
