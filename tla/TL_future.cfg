SPECIFICATION Spec
CONSTANTS
    MaxEntries = 4
    MaxThreads = 3
    SignerKeys = {k1, k2}
    Documents = {m1, m2}
    MaxSigners = 2
    SignKeys = {k1, k2}
    SignMessages = {m1, m2}
    MaxAggregate = 3
    StampMessages = {m1, m2}
    Authorities = {a1, a2}
    MaxAges = {0, 1, 15}
    Tolerance = 1
    WordSize = 16
    MaxTime = 2
    MaxProofs = 2
    Seeds <- SeedBytes
    Coefficients <- RandomBytes
    SharingConfigs <- Schemes
    MaxGenerations = 2
    ShareIds = {1, 2, 3, 9}
    MaxQuorum = 3
    Subjects = {s1, s2}
    Algorithm <- HybridChain
    Validities = {3}
    Day = 2
    WarningDays = 1
    Copied = {1}
    MaxCerts = 3
    MaxIssue = 0
    MaxStored = 2
    MaxNow = 4
SYMMETRY Names
INVARIANT ToleranceIsGranted
CHECK_DEADLOCK FALSE
