SPECIFICATION FairSpec
CONSTANTS
    Members = {m1}
    Partitions = {p1}
    p1 = p1
    Length = 2
    Bad <- NoneBad
    Established = FALSE
    MaxFaults = 1
INVARIANT FailedIsRedelivered
CHECK_DEADLOCK FALSE
