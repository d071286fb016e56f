CONSTANTS
    s1 = s1  s2 = s2  b1 = b1  b2 = b2  b3 = b3
    NoBackend = NoBackend
    Sessions = {s1}
    Backends = {b1}
    Ring <- Ring1
    KeyHash <- Keys1
    MaxAttempts = 1
    MinPool = 1
    ReqLen = 1
    MaxRead = 1
    KCap = 1
    FailureThreshold = 1
    SuccessThreshold = 1
    Cooldown = 1
SPECIFICATION Spec
PROPERTY SuccessMeansDelivered
