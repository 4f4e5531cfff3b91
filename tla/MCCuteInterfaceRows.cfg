\* Two sequences of three tokens and one: the host derives two rows for three.
SPECIFICATION CallSpec
CONSTANTS
  BlkKv = 2
  TopK = 2
  Target = 2
  Warps = 2
  QPerIter = 2
  MinQPerCta = 3
  RowsPerBlock = 4
  ScanThreads = 3
  CursorBits = 2
  Lanes = 2
  CtaThreads = 1
  PageSize = 2
  QTokens = 2
  WarpSize = 2
  MinWarps = 2
  MinChunkPages = 2
  TinyPages = 2
  CombineMaxSplits = 16
  Sms = 2
  Problems <- Derived
  Requests <- Exact
INVARIANT EveryChoiceKept
