CONSTANTS
    i1 = i1
    i2 = i2
    i3 = i3
    w1 = w1
    w2 = w2
    NoItem = NoItem
    r1 = r1
    r2 = r2
    r3 = r3
    r4 = r4
    s1 = s1
    s2 = s2
    l1 = l1
    l2 = l2
    l3 = l3
    NoLock = NoLock
    q1 = q1
    q2 = q2
    bad = bad
    Items <- MCItems
    Workers <- MCWorkers
    MaxQueue = 0
    Calls <- MCItems
    Threads <- MCThreads
    QueuedCalls = 1
    Outcomes = {"value", "error"}
    Idle = NoItem
    Runs <- MCRuns
    Sessions <- MCSessions
    Locks <- MCLocks
    SessionOf <- MCSessionOf
    BatchCalls <- MCCalls
    Altered <- MCAltered
    Arguments = {"a", "d"}
    Invalid = bad
    Effective <- MCEffective
    Profiles <- MCProfiles
    MaxAttempts = 2
    MaxParallel = 2
    Agents <- MCAgents
    Edges <- MCEdges
    CallableBy <- MCCallableBy
    Tools <- MCTools
    Tenants = {"t1"}
    Admitted = {"t1"}
    SessionIds = {"s1"}
    MaxDepth = 2
    MaxRuns = 4
    MaxRoots = 2
    MaxCalls = 1
    MaxChanges = 1
SPECIFICATION MCSpec
INVARIANTS
    SchedulerSound
    PoolSound
    SessionsSerialized
    BatchSound
    AccessSound
PROPERTIES
    EveryoneIsAnswered
CHECK_DEADLOCK FALSE
