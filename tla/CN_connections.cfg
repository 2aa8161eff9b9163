SPECIFICATION ConnectionsSpec
CONSTANTS
    c1 = c1
    c2 = c2
    c3 = c3
    Connection <- ThreeConnections
    DrainTimeout = 3
    MaxHandshake = 1
    MaxRequest = 2
    MaxFrames = 2
    r1 = r1
    p1 = p1
    p2 = p2
    None = None
    Route <- OneRoute
    Client <- TwoClients
    Limits <- ManyLimits
    MaxAge = 3
    CleanupPeriod = 2
    AgeBound = 4
    Watched <- FirstClient
    MaxSpan = 4
INVARIANTS
    CountIsLive
    CleanDrain
    InOrder
    CloserIsHeard
    RetryAfterIsHonest
    WithinTheLimit
PROPERTIES
    DrainEnds
    EndsWithEitherSide
    ImplementsTokenBucket
    IdleBucketsAreEvicted
CHECK_DEADLOCK FALSE
