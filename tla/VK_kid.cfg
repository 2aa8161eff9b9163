SPECIFICATION Spec
CONSTANTS
    t1 = t1
    t2 = t2
    None = None
    Token <- OneToken
    MaxRetained = 1
    WithThreshold = TRUE
    Ttl = 1
    MaxVersion = 4
INVARIANT KidIsSigningKey
