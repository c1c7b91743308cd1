SPECIFICATION FairSpec
CONSTANTS
    Members = {m1, m2}
    Partitions = {p1}
    p1 = p1
    Length = 2
    Bad <- SecondBad
    Established = TRUE
    MaxFaults = 2
INVARIANT TypeOK
INVARIANT NothingLost
INVARIANT RedeliveryNeedsLoss
INVARIANT ClosedIsQuiet
PROPERTY ImplementsDelivery
PROPERTY EverythingCommitted
PROPERTY CloseTerminates
CHECK_DEADLOCK FALSE
