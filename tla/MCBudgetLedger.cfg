CONSTANTS
    a1 = a1
    a2 = a2
    l1 = l1
    l2 = l2
    c1 = c1
    c2 = c2
    NoAgent = NoAgent
    NoDeadline = NoDeadline
    NoGroup = NoGroup
    Agents <- MCAgents
    Leases <- MCLeases
    Clients <- MCClients
    Limits <- MCLimits
    Requests <- MCRequests
    ContentionAttempts = 2
    MaxTime = 1
    MaxOps = 4
SPECIFICATION FairSpec
INVARIANTS
    LedgerConsistent
    AnswersAreRecorded
    OneContract
PROPERTIES
    LeasesSettleOnce
    AtomicSpec
    EveryCallIsAnswered
CHECK_DEADLOCK FALSE
