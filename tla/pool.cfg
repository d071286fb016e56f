\* Three callers of two backends with two warm connections each, if they connect.
CONSTANTS
    NBackends = 2
    MinPool = 2
    Callers = {c1, c2, c3}
    MaxSockets = 4
SPECIFICATION FairSpec
INVARIANTS
    TypeOK
    OnePlace
    ActiveExact
    PoolBounded
PROPERTIES
    AcquireReturns
    WarmUpEnds
