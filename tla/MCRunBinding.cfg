SPECIFICATION Spec
CONSTANTS
  Nothing = Nothing
  v1 = v1
  v2 = v2
  onPlan = onPlan
  onStandard = onStandard
  s1 = s1
  s2 = s2
  t1 = t1
  t2 = t2
  l1 = l1
  l2 = l2
  Home = s1
  Sessions = {s1, s2}
  Tenants = {t1}
  Configs <- MCConfigs
  Leases = {l1, l2}
  MaxRequests = 2
  MaxSpent = 1
INVARIANTS ResumableIsSaved
CHECK_DEADLOCK FALSE
