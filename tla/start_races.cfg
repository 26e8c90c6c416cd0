SPECIFICATION FairSpec
CONSTANTS
    Daemons = {d1, d2, d3}
    Jobs = {d3}
    Labels = {TRUE, FALSE}
    Clients = {c1}
    Secrets = {s1, s2, s3}
    Free = Free
    NoFile = NoFile
    Stale = Stale
    Empty = Empty
    Checks = 1
    Waits = 1
    MaxFaults = 1
    MaxStops = 1
INVARIANTS
    TypeOK
    ReachableUnlessOverlap
    SecretUnlessClash
PROPERTY
    RecoversUnlessOverlap
