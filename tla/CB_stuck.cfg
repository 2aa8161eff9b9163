SPECIFICATION FairSpec
CONSTANTS
    a = a
    b = b
    r1 = r1
    r2 = r2
    None = None
    Upstream <- OneUpstream
    Registered <- OneUpstream
    Request <- OneRequest
    FailureThreshold = 1
    RecoveryTimeout = 1
    HealthInterval = 1
    MaxCount = 0
PROPERTY OpenIsTriedAgain
