SPECIFICATION Spec
SYMMETRY Symmetry
CONSTANTS
    Nil = Nil
    Failed = Failed
    r1 = r1
    r2 = r2
    Req <- MCReq
    MaxPort = 65535
    MaxInt = 100
    Specs <- MCSpecs
    UserHooks = 1
    UserCleanups = 1
    Telemetry = {"metrics", "tracer"}
    RestOptions <- PlainRest
    Checks <- GoodChecks
    HandlerErrors <- NoErrors
    Failures = 2
    ConcurrencyLimit = 0
    GrpcPolicy = TRUE
    AuthEnabled = FALSE
INVARIANT
    LivenessIntact
CHECK_DEADLOCK FALSE
