CONSTANTS
    Procs = {p1, p2}
    Objects = {1, 2, 3, 4}
    Arrays = {1, 2, 3}
    MaxIdle = 1
    Self = Self
    NoArray = NoArray
    Calls = {"encoder"}
    Values = {"wrapper"}
    Script <- MCScript
    Trace <- MCTrace
SPECIFICATION FairSpec
PROPERTY CallsReturn
