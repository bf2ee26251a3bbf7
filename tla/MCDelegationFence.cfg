CONSTANTS
    NoResult = NoResult
    Procs = {p1, p2}
    Results = {r1, r2}
    AllowResume = TRUE
    CancelTwice = FALSE
    MaxAttempts = 3
    MaxCalls = 4
SPECIFICATION Spec
INVARIANTS
    OneChildExecutes
CHECK_DEADLOCK FALSE
