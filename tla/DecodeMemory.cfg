SPECIFICATION Spec
CONSTANTS
    a1 = a1
    a2 = a2
    a3 = a3
    a4 = a4
    a5 = a5
    a6 = a6
    Input = Input
    None = None
    Arrays <- MCArrays
    InputLen = 2
    MaxArena = 1
    MaxLen = 2
    MaxLeaves = 2
    MaxDepth = 2
    MaxFills = 1
VIEW View
INVARIANTS
    TypeOK
    Standing
    Separate
PROPERTIES
    InputIntact
