\* Four concurrent requests, so that two old ones can meet two trials.
CONSTANTS
    Requests = {r1, r2, r3, r4}
    FailureThreshold = 2
    SuccessThreshold = 2
    Cooldown = 2
SPECIFICATION FairSpec
INVARIANTS
    TypeOK
    ClosedBelowThreshold
    SlotHasOwner
    SingleTrialUnlessStale
PROPERTIES
    ImplementsQuietPeriod
    KeepsAdmitting
