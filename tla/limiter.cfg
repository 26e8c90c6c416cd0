SPECIFICATION Spec
CONSTANTS
    IPs = {a1}
    NoIP = NoIP
    Requests = {r1, r2, r3}
    Limit = 2
    Window = 2
    MaxClock = 4
SYMMETRY Symmetric
INVARIANTS
    TypeOK
    FailuresBounded
    BlockedOnlyForRecentFailures
PROPERTY
    BlockHolds
