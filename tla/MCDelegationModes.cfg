CONSTANTS
    p1 = p1
    p2 = p2
    r1 = r1
    r2 = r2
    NoResult = NoResult
    Procs <- MCTwoProcs
    Results <- MCResults
    AllowResume = FALSE
    CancelTwice = FALSE
    MaxAttempts = 3
    MaxCalls = 3
SPECIFICATION MCSpec
INVARIANTS
    OneChildExecutes
    AnswersAreTheReceipt
    LedgerFollows
PROPERTIES
    ReceiptFinal
    LateCallsFailClosed
    CallsEnd
CHECK_DEADLOCK FALSE
