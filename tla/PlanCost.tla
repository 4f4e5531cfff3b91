------------------------------ MODULE PlanCost ------------------------------
(***************************************************************************)
(* What the two planning algorithms of csrc/include/plan.cuh share: the    *)
(* cost model.  Costs are integers: every float constant of it is one.     *)
(***************************************************************************)
EXTENDS Reductions

PerIterOverhead    == 43      \* kPerIterOverhead
TileGlobalOverhead == 110     \* kTileGlobalOverhead
SMGlobalOverhead   == 165     \* kSMGlobalOverhead
SplitExtraOverhead == 150     \* kSplitExtraOverhead
MinItersPerSplit   == 4       \* MIN_ITERS_PER_SPLIT

PieceCost(iters) == PerIterOverhead * iters + TileGlobalOverhead

=============================================================================
