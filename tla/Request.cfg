SPECIFICATION FairSpec
CONSTANTS
    MaxInt = 20
    INT_MAX = 20
    RefreshSlack = 1
    Threads = {t1, t2}
    Nobody = Nobody
    MaxAttempts = 2
    MintBackoff = 1
    MaxAges = {1}
    Providers = {"unrefreshable", "seeded", "federated"}
    Methods = {"POST"}
    Lifetimes = {2}
    DefaultLifetime = 2
    MaxTime = 2
    MaxTokens = 3
    MaxCalls = 2
INVARIANTS
    TypeOK
    AppliedAsReported
    UnauthenticatedMeansIt
PROPERTIES
    MintsJustified
    CacheHonest
    CallsReturn
CHECK_DEADLOCK FALSE
