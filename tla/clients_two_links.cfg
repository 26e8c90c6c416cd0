SPECIFICATION Spec
CONSTANTS
    Ids = {i1, i2}
    NoId = NoId
    Clients = {c1, c2}
    Paths = {p1}
    NoPath = NoPath
    Lifetimes = {2}
    DefaultLife = 3
    MaxClock = 0
    MaxFaults = 0
    MaxCommands = 2
SYMMETRY Symmetric
INVARIANTS
    OneLiveShare
CHECK_DEADLOCK FALSE
