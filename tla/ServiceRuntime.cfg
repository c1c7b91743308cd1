SPECIFICATION Spec
SYMMETRY Symmetry
CONSTANTS
    Nil = Nil
    Failed = Failed
    r1 = r1
    r2 = r2
    Req <- MCReq
    MaxPort = 65535
    MaxInt = 100
    Specs <- MCSpecs
    UserHooks = 1
    UserCleanups = 1
    Telemetry = {"metrics", "tracer"}
    RestOptions <- MCRestOptions
    Checks <- AllChecks
    HandlerErrors <- MCErrors
    Failures = 1
    ConcurrencyLimit = 0
    GrpcPolicy = TRUE
    AuthEnabled = TRUE
INVARIANTS
    TypeOK
    ProbesKnow
    ShutdownOrder
    ConstructionSound
    WireErrors
CHECK_DEADLOCK FALSE
