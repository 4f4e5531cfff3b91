CONSTANTS
  v1 = v1
  v2 = v2
  plan = plan
  k1 = k1
  t1 = t1
  t2 = t2
  t3 = t3
  p1 = p1
  p2 = p2
  p3 = p3
  Nobody = Nobody
  Variants = {v1, v2}
  Modules = {plan}
  Threads = {t1, t2, t3}
  Processes = {p1, p2}
  Deployments <- Safe
  Keys = {k1}
  Workers = {t1, t2, t3}
  ProcOf <- Alone
  MaxFails = 1
  MaxCrashes = 2
  BlkKv = 2
  TopK = 2
  Target = 2
  Warps = 2
  QPerIter = 2
  MinQPerCta = 3
  RowsPerBlock = 4
  ScanThreads = 3
  CursorBits = 2
  Lanes = 2
  CtaThreads = 1
  PageSize = 2
  QTokens = 2
  WarpSize = 2
  MinWarps = 2
  MinChunkPages = 2
  TinyPages = 2
  CombineMaxSplits = 16
  Sms = 2
  Problems <- Inputs
  Requests <- Exact
SPECIFICATION HostSpec
INVARIANTS
  IInv JitIInv LoadsWhole
  CsrRight ScheduleRight SamePlan WorkListRight ChunkRight OutputsWhole
PROPERTIES ImplementsStore JitImplementsStore NoBuildOfWarmed CallsEnd
