SPECIFICATION Spec
CONSTANTS
    Types <- MCTypes
    Desc <- MCDesc
    Depth = 7
    Anything <- MCAnything
    Versions <- MCVersions
    Values <- MCValues
    Fragile = {"unsafe"}
    Max16 = 2
    Huge = 40
    Batch = 2
    Damages = {0, 1, 3}
    MaxRounds = 2
INVARIANTS
    TypeOK
    RoundTrip
    Evolution
    CutRefused
    SameOutcome
    PartialRefused
PROPERTIES
    NeverMixed
CHECK_DEADLOCK FALSE
