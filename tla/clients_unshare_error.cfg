SPECIFICATION Spec
CONSTANTS
    Ids = {i1}
    NoId = NoId
    Clients = {c1}
    Paths = {p1}
    NoPath = NoPath
    Lifetimes = {2}
    DefaultLife = 3
    MaxClock = 0
    MaxFaults = 1
    MaxCommands = 2
SYMMETRY Symmetric
INVARIANTS
    FailureIsNotNotFound
CHECK_DEADLOCK FALSE
