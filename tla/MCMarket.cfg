CONSTANTS
    None = None
    Prices = {10, 16}
    MaxBar = 3
    Starts = {1, 3}
    Threads = {a, b}
    Ttl = 1
    NoVerdict = NoVerdict
    Registered <- MCRegistered
    Rows <- MCRows
    Failures <- MCFailures
    Contexts <- MCContexts
    MinQualified = 75
SPECIFICATION MCSpec
INVARIANTS
    FinalBehindNewest
    NoJumpStored
    PageIsFresh
    OnlyDegenerateDiscarded
    TrendAgreesWithRegime
    Monotone
    BlackoutOnlyMasked
    NothingTradesInARange
