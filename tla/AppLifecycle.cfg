SPECIFICATION FairSpec
CONSTANTS
    NBefore = 1
    NComponents = 2
    NCleanups = 2
    Kind <- MCKind
    MaxInflight = 1
INVARIANT TypeOK
INVARIANT NoSendOnClosedChannel
INVARIANT OrphansReported
INVARIANT NilMeansStopped
INVARIANT NoFailureLostSilently
PROPERTY RunReturns
PROPERTY EveryServeReturns
CHECK_DEADLOCK FALSE
