CONSTANTS
    Base = 4
    MaxLen = 2
    Half = 4
    HalfElem = 2
    FloatBits = 2
    MaxSize = 3
    Values <- TheValues
    Appended <- TheAppended
    Dests <- TheDests
    Junk <- TheJunk
SPECIFICATION Spec
INVARIANTS
    TypeOK
    RoundTrip
    NoPanic
    PairsMatch
PROPERTIES
    Reencodes
