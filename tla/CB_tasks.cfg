SPECIFICATION TaskSpec
CONSTANTS
    a = a
    b = b
    r1 = r1
    r2 = r2
    None = None
    Upstream <- TwoUpstreams
    Registered <- OneUpstream
    Request <- OneRequest
    FailureThreshold = 2
    RecoveryTimeout = 1
    HealthInterval = 2
    MaxCount = 0
INVARIANT NoUpstreamSkipsARound
PROPERTY EventuallyDistrusted
