CONSTANTS
    Procs = {p1, p2}
    Objects = {1, 2, 3, 4, 5, 6}
    Arrays = {1, 2, 3, 4, 5, 6, 7, 8, 9}
    MaxIdle = 2
    Self = Self
    NoArray = NoArray
    Calls = {"marshal"}
    Values = {"nested", "fails", "panics"}
    Script <- MCScript
    Trace <- MCTrace
SPECIFICATION Spec
VIEW View
SYMMETRY Symmetry
INVARIANTS
    TypeOK
    Exclusive
    Unshared
    HeldBytes
    OutputStable
