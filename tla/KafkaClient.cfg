SPECIFICATION Spec
CONSTANTS
    Nil = Nil
    Failed = Failed
    Topics = {"users", "orders"}
    Late = {"audit"}
    Rpcs = {"rpc"}
    MaxHandles = 2
    MaxErrors = 1
    Trim <- MCTrim
    Settings <- MCSettings
INVARIANTS
    TypeOK
    ClientsReleased
    OnlyOrphansPanic
    OneCluster
PROPERTIES
    CloseReturnsOrRaces
CHECK_DEADLOCK FALSE
