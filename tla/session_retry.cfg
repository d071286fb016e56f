\* One client, three backends, a request that overflows the replay buffer.
CONSTANTS
    s1 = s1  s2 = s2  b1 = b1  b2 = b2  b3 = b3
    NoBackend = NoBackend
    Sessions = {s1}
    Backends = {b1, b2, b3}
    Ring <- Ring3
    KeyHash <- Keys1
    MaxAttempts = 2
    MinPool = 1
    ReqLen = 4
    MaxRead = 2
    KCap = 3
    FailureThreshold = 1
    SuccessThreshold = 1
    Cooldown = 1
SPECIFICATION FairSpec
INVARIANTS
    TypeOK
    SingleSource
    FaithfulForward
    AttemptBudget
PROPERTY
    SessionEnds
