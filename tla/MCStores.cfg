CONSTANTS
    Nothing = Nothing
    NoRows = NoRows
    Nobody = Nobody
    w1 = w1
    w2 = w2
    call1 = call1
    d1 = d1
    d2 = d2
    k1 = k1
    k2 = k2
    k3 = k3
    v1 = v1
    v2 = v2
    onPlan = onPlan
    onStandard = onStandard
    s1 = s1
    s2 = s2
    t1 = t1
    l1 = l1
    l2 = l2
    Home = s1
    Sessions <- MCSessions
    Tenants <- MCTenants
    Configs <- MCConfigs
    Leases <- MCLeases
    MaxRequests = 2
    MaxSpent = 1
    Workers <- MCWorkers
    Ttl = 2
    MaxSaves = 3
    MaxTime = 3
    Documents <- MCFiles
    Contents <- MCContents
    MaxGenerations = 3
    MaxChanges = 1
    MaxFaults = 2
    MaxDeaths = 1
SPECIFICATION MCSpec
INVARIANTS
    BindingSound
    StoresSound
    PublicationSound
    KeptSound
CHECK_DEADLOCK FALSE
