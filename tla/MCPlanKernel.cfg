\* Adaptive launches on six SMs; and three rows of four heads, cut in two, on three
\* SMs: every choice of lengths, from one iteration to enough for many splits.
CONSTANTS
    NumBuckets = 6
    Shapes <- FillAndRounds
    MaxSplits = 3
    MaxTasks = 3
    MaxRounds = 8
    KvIters = {1, 9, 40, 70, 200}
    GivenSms = 3
    GivenRows = 3
    GivenHeads = 4
    GivenSplits = 2
    GivenIters = {1, 4, 9}
SPECIFICATION KernelSpec
INVARIANTS
    PlanIInv
    EachIterationOnce SubIds CostExact PlanRunnable
    GivenRunnable
PROPERTIES
    NeverWorse KernelEnds
