CONSTANTS
    Procs = {p1, p2}
    Coders = {c1, c2}
    Types = {"uint8", "string", "chan", "Octet", "Level", "*Level", "[]uint8", "[]string", "[]Octet",
             "[]*Level", "map[string][]uint8", "NilCodec", "[]NilCodec", "Plain", "Mixed", "Broken", "Duplicate"}
    Roots = {"Plain", "Mixed", "Broken", "Duplicate", "[]NilCodec"}
    Desc <- MCDesc
    NoCodec = NoCodec
    NoType = NoType
    NoCoder = NoCoder
    MaxStack = 5
SPECIFICATION FairSpec
INVARIANTS
    TypeOK
    OneCodec
    CodecHonoursMethods
    OnlyScannable
PROPERTY ScanReturns
