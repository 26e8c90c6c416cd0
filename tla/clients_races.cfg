SPECIFICATION Spec
CONSTANTS
    Ids = {i1, i2, i3}
    NoId = NoId
    Clients = {c1, c2}
    Paths = {p1}
    NoPath = NoPath
    Lifetimes = {1, 3}
    DefaultLife = 3
    MaxClock = 1
    MaxFaults = 1
    MaxCommands = 4
SYMMETRY Symmetric
INVARIANTS
    TypeOK
    OneLiveShareUnlessRaced
    UnshareCloses
    PrintsWhatWasAsked
    LivesAsAskedUnlessTooShort
CHECK_DEADLOCK FALSE
