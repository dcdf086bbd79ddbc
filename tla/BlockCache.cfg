SPECIFICATION FairSpec
CONSTANTS
    Threads = {t1, t2}
    Keys = {a, b, c}
    NoKey = NoKey
    Sizes = {0, 2}
    Capacities = {0, 2}
    MaxFetches = 4
    MaxClock = 5
INVARIANTS
    TypeOK
    AccountingExact
    SingleFlight
    OverCapacityBounded
PROPERTIES
    GetBlockReturns
CHECK_DEADLOCK FALSE
