SPECIFICATION Spec
CONSTANTS
    Ids = {i1, i2}
    NoId = NoId
    f1 = f1
    f2 = f2
    Parts = {f1}
    Requests = {r1}
    Loop = loop
    Boots = {b1}
    Seconds <- MCSeconds
    DefaultTTL = 1
    Faults = {}
    Overlaps = {"stop"}
    MaxClock = 0
    MaxCrashes = 1
SYMMETRY Symmetric
INVARIANT
    IntactUnlessExposed
PROPERTY
    BootLeavesNoOrphan
