SPECIFICATION FairSpec
CONSTANTS
    Ids = {i1}
    NoId = NoId
    f1 = f1
    f2 = f2
    Parts = {f1}
    Requests = {r1}
    Loop = loop
    Boots = {b1}
    Seconds <- MCSeconds
    DefaultTTL = 1
    Faults <- RowFaults
    Overlaps = {"rival", "stop"}
    MaxClock = 1
    MaxCrashes = 1
INVARIANT
    IntactUnlessExposed
PROPERTIES
    DeadSnapshotSwept
    BootLeavesNoOrphan
