SPECIFICATION FairSpec
CONSTANTS
    Callers = {p1, p2}
    Requests = 0
    Per = 0
    Burst = 0
    Failures = 1
    OpenFor = 2
    ConcurrencyLimit = 2
    Attempts = 2
    HasBackoff = TRUE
    MaxClock = 2
    NoTime = NoTime
PROPERTY CircuitStaysOpen
