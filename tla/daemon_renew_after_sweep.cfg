SPECIFICATION Spec
CONSTANTS
    Ids = {i1}
    NoId = NoId
    f1 = f1
    f2 = f2
    Parts <- Files
    Requests = {r1, r2}
    Loop = loop
    Boots = {b1}
    Seconds <- MCSeconds
    DefaultTTL = 1
    Faults = {}
    Overlaps = {}
    MaxClock = 2
    MaxCrashes = 0
INVARIANT
    ActiveSnapshotIntact
