CONSTANTS
    Procs = {p1}
    Coders = {c1}
    Types = {"uint8", "*Node", "Node"}
    Roots = {"Node"}
    Desc <- MCDesc
    NoCodec = NoCodec
    NoType = NoType
    NoCoder = NoCoder
    MaxStack = 50
SPECIFICATION Spec
INVARIANT ScanFits
