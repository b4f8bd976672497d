CONSTANTS
    Base = 4
    MaxLen = 3
    Half = 16
    HalfElem = 4
    MaxInput = 5
    Inputs <- TheInputs
    Scripts <- TheScripts
SPECIFICATION Spec
INVARIANTS
    TypeOK
    ReadsVarints
    SameReading
    WrittenIsRead
