CONSTANTS
    Requests = {r1, r2, r3}
    FailureThreshold = 1
    SuccessThreshold = 2
    Cooldown = 1
SPECIFICATION Spec
INVARIANT SingleTrial
