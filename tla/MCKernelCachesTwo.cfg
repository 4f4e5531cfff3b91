CONSTANTS
  v1 = v1
  v2 = v2
  plan = plan
  k1 = k1
  t1 = t1
  t2 = t2
  t3 = t3
  p1 = p1
  p2 = p2
  p3 = p3
  Nobody = Nobody
  Variants = {v1, v2}
  Modules = {plan}
  Threads = {t1, t2, t3}
  Processes = {p1, p2}
  Deployments <- Racing
  Keys = {k1}
  Workers = {t1, t2, t3}
  ProcOf <- Alone
  MaxFails = 1
  MaxCrashes = 2
SPECIFICATION CachesSpec
INVARIANT BuiltWhenReturned
CHECK_DEADLOCK FALSE
