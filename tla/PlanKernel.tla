----------------------------- MODULE PlanKernel -----------------------------
(***************************************************************************)
(* plan_kernel of csrc/include/plan.cuh: a launch with num_kv_splits >= 1  *)
(* plans with direct_greedy, one with a negative number in adaptive mode.  *)
(* The two share the output arrays; only the one chosen runs.              *)
(***************************************************************************)
EXTENDS PlanRebalance, PlanGreedy

VARIABLE adaptive_mode

allVars == <<adaptive_mode, vars, gvars>>

\* The path that is not taken has no tiles and takes no step.
AdaptiveOff ==
    /\ heads = 1 /\ iters = <<>> /\ phase = "greedy" /\ tasks = NoTasks /\ cost = FreshCost
    /\ subs = <<>> /\ next = Start /\ round = 0 /\ thr = [sm \in Sm |-> Idle] /\ nosplit = 0
    /\ plan = [split |-> FALSE, work |-> NoTasks, rows |-> <<>>]

GivenOff ==
    /\ gphase = "off" /\ giters = <<>> /\ at = 0 /\ th = 0 /\ gcost = 0 /\ count = 0
    /\ offset = 0 /\ gwork = <<>> /\ range = 0 /\ rows = <<>>

KernelInit ==
    \/ adaptive_mode = TRUE  /\ Init /\ GivenOff
    \/ adaptive_mode = FALSE /\ AdaptiveOff /\ DirectInit

KernelNext ==
    /\ UNCHANGED adaptive_mode
    /\ \/ adaptive_mode /\ Next /\ UNCHANGED gvars
       \/ ~adaptive_mode /\ DirectNext /\ UNCHANGED vars

\* A thread of a running block is never denied its turn.
KernelSpec ==
    /\ KernelInit /\ [][KernelNext]_allVars
    /\ WF_allVars(adaptive_mode /\ Block /\ UNCHANGED <<heads, adaptive_mode, gvars>>)
    /\ \A sm \in Sm :
          WF_allVars(adaptive_mode /\ Thread(sm) /\ UNCHANGED <<heads, adaptive_mode, gvars>>)
    /\ WF_allVars(~adaptive_mode /\ DirectBlock /\ UNCHANGED <<adaptive_mode, vars>>)
    /\ \A sm \in Bucket :
          WF_allVars(~adaptive_mode /\ DirectThread(sm) /\ UNCHANGED <<adaptive_mode, vars>>)

-----------------------------------------------------------------------------
\* Whichever path is taken, the block reaches the end of the kernel: a fill
\* always takes a piece, the rounds stop though nothing more can be split or
\* moved, and no thread waits at a barrier another does not reach.
KernelEnds == <>(phase = "done" \/ gphase = "done")
=============================================================================
