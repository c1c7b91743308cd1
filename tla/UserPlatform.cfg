SPECIFICATION Spec
CONSTANTS
    c1 = c1
    c2 = c2
    Callers <- MCCallers
    Emails <- MCEmails
    Old = {"ann"}
    Requests <- MCRequests
    RequireDisplayName = FALSE
    DisplayNamePrefix <- MCPrefix
    CacheTtl = 0
    DefaultCacheTtl = 2
    Retries = 1
    MaxCalls = 3
    MaxLag = 1
INVARIANTS
    AnnouncedOrReported
    DueIsHandledOrAhead
    AnswersAreFresh
SYMMETRY Symmetry
CHECK_DEADLOCK FALSE
