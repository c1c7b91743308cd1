SPECIFICATION Spec
CONSTANTS
    Callers = {p1, p2, p3}
    Requests = 2
    Per = 3
    Burst = 2
    MaxClock = 5
    NoTime = NoTime
SYMMETRY CallerSymmetry
INVARIANT TypeOK
INVARIANT WindowBound
PROPERTY SpacedCallsAdmitted
