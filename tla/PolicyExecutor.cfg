SPECIFICATION FairSpec
CONSTANTS
    Callers = {p1, p2}
    Requests = 1
    Per = 1
    Burst = 2
    Failures = 2
    OpenFor = 2
    ConcurrencyLimit = 1
    Attempts = 2
    HasBackoff = TRUE
    MaxClock = 2
    NoTime = NoTime
INVARIANT TypeOK
INVARIANT PermitsMatchCalls
INVARIANT OneVerdictPerCall
PROPERTY ImplementsLimiter
PROPERTY EveryDoReturns
