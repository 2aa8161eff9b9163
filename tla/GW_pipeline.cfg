SPECIFICATION FairSpec
CONSTANTS
    h1 = h1
    h2 = h2
    u1 = u1
    None = None
    Handler <- TwoHandlers
    Upstream <- OneUpstream
    MaxCalls = 2
INVARIANTS
    MetricsMatchAnswers
PROPERTIES
    KeepsBreakerContract
    OnlyBodiesKeepWaiting
