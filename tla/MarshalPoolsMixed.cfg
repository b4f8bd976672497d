CONSTANTS
    Procs = {p1, p2}
    Objects = {1, 2, 3, 4}
    Arrays = {1, 2, 3, 4, 5, 6}
    MaxIdle = 2
    Self = Self
    NoArray = NoArray
    Calls = {"marshal", "encoder"}
    Values = {"union", "broken"}
    Script <- MCScript
    Trace <- MCTrace
SPECIFICATION Spec
VIEW View
SYMMETRY Symmetry
INVARIANT SinkFaithful
PROPERTY Implements
