SPECIFICATION FairSpec
CONSTANTS
    Daemons = {d1, d2}
    Jobs = {}
    Labels = {FALSE}
    Clients = {c1}
    Secrets = {s1, s2, s3}
    Free = Free
    NoFile = NoFile
    Stale = Stale
    Empty = Empty
    Checks = 1
    Waits = 1
    MaxFaults = 0
    MaxStops = 1
PROPERTY
    EnsureWorks
