SPECIFICATION EdgeSpec
CONSTANTS
    t1 = t1
    t2 = t2
    None = None
    Token <- TwoTokens
    MaxRetained = 1
    WithThreshold = TRUE
    Ttl = 1
    MaxVersion = 4
    Call = {c1}
    IntegrityLayer = TRUE
    EnvModes <- EnvChoices
    RouteModes <- RouteChoices
    DefaultMode = "mldsa-only"
    Theirs = Theirs
SYMMETRY TokenSymmetry
INVARIANTS
    KeyWindow
    OneSigningKey
    RefusalsExplained
    CallRefusalsExplained
    AnswerVerifies
PROPERTY RefusalIsFinal
