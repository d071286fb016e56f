\* Two clients share two backends, their breakers, pools and gauges.
CONSTANTS
    s1 = s1  s2 = s2  b1 = b1  b2 = b2  b3 = b3
    NoBackend = NoBackend
    Sessions = {s1, s2}
    Backends = {b1, b2}
    Ring <- Ring2
    KeyHash <- Keys2
    MaxAttempts = 3
    MinPool = 1
    ReqLen = 1
    MaxRead = 1
    KCap = 1
    FailureThreshold = 1
    SuccessThreshold = 1
    Cooldown = 2
SPECIFICATION Spec
INVARIANTS
    PoolAccounting
    TrialSlotHeld
    BreakerGaugeLag
    ActiveGaugeCovers
    RequestsAccounted
PROPERTIES
    ImplementsQuietPeriod
    ImplementsClientService
