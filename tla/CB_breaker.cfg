SPECIFICATION FairSpec
CONSTANTS
    a = a
    b = b
    r1 = r1
    r2 = r2
    None = None
    Upstream <- OneUpstream
    Registered <- OneUpstream
    Request <- TwoRequests
    FailureThreshold = 2
    RecoveryTimeout = 1
    HealthInterval = 1
    MaxCount = 3
INVARIANTS
    ClosedBelowThreshold
    OpenAdmitsNothing
    FailuresAccountedFor
PROPERTIES
    ImplementsContract
    EventuallyServedAgain
    TimedRecovery
