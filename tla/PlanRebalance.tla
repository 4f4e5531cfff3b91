--------------------------- MODULE PlanRebalance ---------------------------
(***************************************************************************)
(* plan_kernel in adaptive mode (num_kv_splits < 0): which SM computes     *)
(* which range of which tile's KV iterations.                              *)
(*                                                                         *)
(*   greedy   phase0_nosplit_greedy: whole tiles to the least loaded SMs;  *)
(*            the result is also written out, as the plan without splits   *)
(*   fill     phase1_linear_fill: when tiles are few, thread 0 starts      *)
(*            again and cuts them along the SMs                            *)
(*   round,   phase2_rebalance_parallel: the threads of SMs above the      *)
(*   pair     average each move a task to, or split one with, an SM below  *)
(*            it, all at the same time                                     *)
(*   write    phase3_write_output, if the split plan is cheaper            *)
(*                                                                         *)
(* The task array of an SM is modelled as a set.  Where the code takes the *)
(* first of equally good tasks, the model takes any.                       *)
(***************************************************************************)
EXTENDS PlanCost

CONSTANTS
    NumBuckets,   \* num_buckets: SMs
    Shapes,       \* <<rows of query tiles, num_heads>>: a tile is one head of a row
    MaxSplits,    \* -num_kv_splits
    MaxTasks,     \* MAX_TASKS_PER_SM
    MaxRounds,    \* MAX_PARALLEL_ITERS
    KvIters       \* the numbers of KV iterations a tile may have

ASSUME PlanAssumption ==
    /\ NumBuckets \in Nat \ {0} /\ Shapes \subseteq Nat \X (Nat \ {0})
    /\ MaxSplits \in Nat \ {0} /\ MaxTasks \in Nat \ {0} /\ MaxRounds \in Nat
    /\ KvIters \subseteq Nat \ {0}

\* fill runs for fewer than 0.8 tiles an SM, cut in at most 64 pieces, and 51.2
\* is below the 96 tasks of an SM: it always finds room (FillWithin), so
\* its break from the tile when there is none is not modelled.
ASSUME FillAssumption == 8 * MaxSplits < 10 * MaxTasks

Sm == 0 .. (NumBuckets - 1)

VARIABLES
    phase,     \* where the thread block is
    heads,     \* num_heads
    iters,     \* unsplit_kv_iters, of num_unsplit tiles
    tasks,     \* per SM: task_kv_begin, task_kv_end, task_unsplit_id, task_sub_id
    cost,      \* sm_cost
    subs,      \* unsplit_sub_counter
    next,      \* the tile to assign next, and for fill where it has got to
    round,     \* rounds of phase 2 done
    thr,       \* per SM: its thread in phase 2
    nosplit,   \* nosplit_cost
    plan       \* the output: split or not, work per SM, num_kv_splits_per_row

vars == <<phase, heads, iters, tasks, cost, subs, next, round, thr, nosplit, plan>>

NumUnsplit == Cardinality(DOMAIN iters)
Tile == 0 .. (NumUnsplit - 1)
Row  == 0 .. (NumUnsplit \div heads - 1)

TaskRecord == [uid : Nat, begin : Nat, end : Nat, sub : Nat]
Task(u, b, e, id) == [uid |-> u, begin |-> b, end |-> e, sub |-> id]
Len(t) == t.end - t.begin

Idle == [pc |-> "idle"]
NoTasks == [sm \in Sm |-> {}]
FreshCost == [sm \in Sm |-> SMGlobalOverhead]

Start == [u |-> 0, pos |-> 0, sub |-> 0, sm |-> 0, budget |-> 0]

\* enumerate_unsplit_tiles: the heads of a row have the same iterations.
Init ==
    /\ \E shape \in Shapes : \E rows \in [0 .. (shape[1] - 1) -> KvIters] :
          /\ heads = shape[2]
          /\ iters = [u \in 0 .. (shape[1] * heads - 1) |-> rows[u \div heads]]
    /\ phase = "greedy"
    /\ tasks = NoTasks /\ cost = FreshCost
    /\ subs = [u \in Tile |-> 0]
    /\ next = Start
    /\ round = 0 /\ thr = [sm \in Sm |-> Idle]
    /\ nosplit = 0
    /\ plan = [split |-> FALSE, work |-> NoTasks, rows |-> [r \in Row |-> 1]]

-----------------------------------------------------------------------------
Costs == {cost[sm] : sm \in Sm}
Gap == Largest(Costs) - Smallest(Costs)

\* The tiles from u on that have as many iterations as u, row by row.
GroupEnd(u) ==
    Smallest({NumUnsplit} \cup
             {v \in Tile : v > u /\ v % heads = 0 /\ iters[v] # iters[u]})

\* What an SM may take before fill goes to the next one: the average and 2 %.
TargetBudget ==
    TileGlobalOverhead + (CeilDiv(Total(iters, Tile), NumBuckets) * PerIterOverhead * 102) \div 100

\* One batch: the SMs of the lowest ranks take one tile each.
GreedyBatch ==
    /\ phase = "greedy" /\ next.u < NumUnsplit
    /\ LET u     == next.u
           n     == Smaller(GroupEnd(u) - u, NumBuckets)
           takes == {sm \in Sm : Rank(cost, sm) < n}
       IN /\ tasks' = [sm \in Sm |-> IF sm \in takes
                         THEN tasks[sm] \cup {Task(u + Rank(cost, sm), 0, iters[u], 0)}
                         ELSE tasks[sm]]
          /\ cost' = [sm \in Sm |-> IF sm \in takes THEN cost[sm] + PieceCost(iters[u])
                                                    ELSE cost[sm]]
          /\ subs' = [v \in Tile |-> IF v \in u .. (u + n - 1) THEN 1 ELSE subs[v]]
          /\ next' = [next EXCEPT !.u = u + n]
    /\ UNCHANGED <<phase, iters, round, thr, nosplit, plan>>

\* fill starts from empty SMs, at the first tile on the first SM.
FillResetCostOnly ==    \* mutant: the task counts are left as greedy had them
    /\ cost' = FreshCost /\ next' = [Start EXCEPT !.budget = TargetBudget]
    /\ UNCHANGED tasks

FillReset ==
    /\ tasks' = NoTasks /\ cost' = FreshCost
    /\ next' = [Start EXCEPT !.budget = TargetBudget]

\* The plan without splits is written; then rebalance, or start again, or not.
GreedyEnd ==
    /\ phase = "greedy" /\ next.u = NumUnsplit
    /\ nosplit' = Largest(Costs)
    /\ plan' = [plan EXCEPT !.work = tasks]
    /\ IF Gap <= SplitExtraOverhead
       THEN phase' = "write" /\ UNCHANGED <<tasks, cost, next>>
       ELSE IF 10 * NumUnsplit < 8 * NumBuckets
       THEN phase' = "fill" /\ FillReset
       ELSE phase' = "round" /\ UNCHANGED <<tasks, cost, next>>
    /\ UNCHANGED <<iters, subs, round, thr>>

-----------------------------------------------------------------------------
(* phase1_linear_fill, run by thread 0 alone: one action per piece.        *)

Unlimited == 2147483647    \* 0x7fffffff

Full(sm) == Cardinality(tasks[sm]) >= MaxTasks

PlaceByBudget ==    \* mutant: a full SM is not skipped
    IF next.sm < NumBuckets THEN [sm |-> next.sm, budget |-> next.budget]
    ELSE [sm |-> 0, budget |-> Unlimited]

\* Where the next piece goes, and with what budget: on the current SM, on the
\* next one with room, or past the last on the first of those with the fewest
\* tasks, which then takes all it is given.
Place ==
    LET open   == {sm \in Sm : sm >= next.sm /\ ~Full(sm)}
        fewest == {sm \in Sm : \A o \in Sm : Cardinality(tasks[sm]) <= Cardinality(tasks[o])}
    IN IF open = {} THEN [sm |-> Smallest(fewest), budget |-> Unlimited]
       ELSE [sm |-> Smallest(open),
             budget |-> IF Smallest(open) = next.sm THEN next.budget ELSE TargetBudget]

\* How many of the tile's remaining iterations the piece takes.
Take(budget) ==
    LET avail == iters[next.u] - next.pos
        most  == Larger((budget - TileGlobalOverhead) \div PerIterOverhead, MinItersPerSplit)
    IN IF next.sub + 1 >= MaxSplits THEN avail ELSE Smaller(avail, most)

\* Where the next piece is tried, after one that leaves an SM so much budget.
Onward(sm, left) ==
    IF left < PieceCost(MinItersPerSplit) THEN [sm |-> sm + 1, budget |-> TargetBudget]
                                          ELSE [sm |-> sm, budget |-> left]

FillPiece ==
    /\ phase = "fill" /\ next.u < NumUnsplit
    /\ LET sm   == Place.sm
           take == Take(Place.budget)
           on   == Onward(sm, Place.budget - PieceCost(take))
       IN /\ tasks' = [tasks EXCEPT ![sm] =
                         @ \cup {Task(next.u, next.pos, next.pos + take, next.sub)}]
          /\ cost' = [cost EXCEPT ![sm] = @ + PieceCost(take)]
          /\ IF next.pos + take = iters[next.u]
             THEN /\ next' = [u |-> next.u + 1, pos |-> 0, sub |-> 0,
                              sm |-> on.sm, budget |-> on.budget]
                  /\ subs' = [subs EXCEPT ![next.u] = next.sub + 1]
             ELSE /\ next' = [u |-> next.u, pos |-> next.pos + take, sub |-> next.sub + 1,
                              sm |-> on.sm, budget |-> on.budget]
                  /\ UNCHANGED subs
    /\ UNCHANGED <<phase, iters, round, thr, nosplit, plan>>

FillEnd ==
    /\ phase = "fill" /\ next.u = NumUnsplit
    /\ phase' = "round"
    /\ UNCHANGED <<iters, tasks, cost, subs, next, round, thr, nosplit, plan>>

-----------------------------------------------------------------------------
(* phase2_rebalance_parallel.                                              *)

AvgCost == Total(cost, Sm) \div NumBuckets
Deficit == {sm \in Sm : cost[sm] < AvgCost}
Excess  == {sm \in Sm : cost[sm] > AvgCost}

\* The exclusive prefix sum of a flag: an SM's place in the set of its kind.
IndexIn(sm, S) == Cardinality({o \in S : o < sm})

Splittable(t) == subs[t.uid] < MaxSplits /\ Len(t) >= 2 * MinItersPerSplit

\* A thread of an SM above average is given the SM below it of the same place,
\* if there is one; open is what it can find splittable as it starts to look.
Pairing ==
    [sm \in Sm |->
        IF sm \in Excess /\ IndexIn(sm, Excess) < Cardinality(Deficit)
        THEN [pc   |-> "decide",
              to   |-> CHOOSE d \in Deficit : IndexIn(d, Deficit) = IndexIn(sm, Excess),
              open |-> {t \in tasks[sm] : Splittable(t)}]
        ELSE Idle]

RoundStart ==
    /\ phase = "round" /\ round < MaxRounds
    /\ Gap > TileGlobalOverhead /\ Deficit # {}
    /\ thr' = Pairing
    /\ phase' = "pair"
    /\ UNCHANGED <<iters, tasks, cost, subs, next, round, nosplit, plan>>

RoundsEnd ==
    /\ phase = "round"
    /\ round = MaxRounds \/ Gap <= TileGlobalOverhead \/ Deficit = {}
    /\ phase' = "write"
    /\ UNCHANGED <<iters, tasks, cost, subs, next, round, thr, nosplit, plan>>

PairGap(sm) == cost[sm] - cost[thr[sm].to]

\* Moving t whole leaves its new SM no dearer than its old one.
Movable(sm) == {t \in tasks[sm] : 2 * PieceCost(Len(t)) <= PairGap(sm)}

\* Strategy 1: the task whose move leaves the smallest gap.
MoveTask(sm) ==
    /\ phase = "pair" /\ thr[sm].pc = "decide"
    /\ \E t \in Movable(sm) :
          /\ \A o \in Movable(sm) : Len(t) >= Len(o)
          /\ tasks' = [tasks EXCEPT ![sm] = @ \ {t}, ![thr[sm].to] = @ \cup {t}]
          /\ cost' = [cost EXCEPT ![sm] = @ - PieceCost(Len(t)),
                                  ![thr[sm].to] = @ + PieceCost(Len(t))]
    /\ thr' = [thr EXCEPT ![sm] = Idle]
    /\ UNCHANGED <<phase, iters, subs, next, round, nosplit, plan>>

MoveItersWholeGap(sm) ==    \* mutant: what one gains the other loses, forgotten
    (PairGap(sm) - TileGlobalOverhead) \div PerIterOverhead

\* Half the gap, after paying for one more piece, in iterations.
MoveIters(sm) ==
    LET spare == PairGap(sm) - TileGlobalOverhead
    IN IF spare < 0 THEN 0 ELSE spare \div (2 * PerIterOverhead)

\* find_best_fit_task among the candidates C: the shortest that can spare so
\* many iterations, or else a longest.
BestFit(C, target) ==
    LET fits == {t \in C : Len(t) >= target + MinItersPerSplit}
    IN IF fits # {} THEN {t \in fits : \A o \in fits : Len(t) <= Len(o)}
                    ELSE {t \in C : \A o \in C : Len(t) >= Len(o)}

\* Strategy 2 looks for a task to split.  Each counter is read at its own
\* moment, and one that reaches MaxSplits stays there: the candidates are all
\* that are open now and any that were when the thread began.
Candidates(sm) ==
    {C \in SUBSET thr[sm].open : {t \in tasks[sm] : Splittable(t)} \subseteq C}

Keep(t, sm) == Larger(Len(t) - MoveIters(sm), MinItersPerSplit)

ClaimSplitUnchecked(sm) ==    \* mutant: the counter's old value is not tested
    /\ phase = "pair" /\ thr[sm].pc = "decide" /\ Movable(sm) = {}
    /\ MoveIters(sm) >= MinItersPerSplit
    /\ \E C \in Candidates(sm) : \E t \in BestFit(C, MoveIters(sm)) :
          /\ Len(t) - Keep(t, sm) >= MinItersPerSplit
          /\ thr' = [thr EXCEPT ![sm] =
                       [pc |-> "split", to |-> thr[sm].to, task |-> t, id |-> subs[t.uid],
                        keep |-> Keep(t, sm)]]
          /\ subs' = [subs EXCEPT ![t.uid] = @ + 1]
    /\ UNCHANGED <<phase, iters, tasks, cost, next, round, nosplit, plan>>

\* The thread takes the next sub id with an atomicAdd, or finds none left.
ClaimSplit(sm) ==
    /\ phase = "pair" /\ thr[sm].pc = "decide" /\ Movable(sm) = {}
    /\ MoveIters(sm) >= MinItersPerSplit
    /\ \E C \in Candidates(sm) : \E t \in BestFit(C, MoveIters(sm)) :
          /\ Len(t) - Keep(t, sm) >= MinItersPerSplit
          /\ thr' = [thr EXCEPT ![sm] =
                       [pc |-> IF subs[t.uid] < MaxSplits THEN "split" ELSE "undo",
                        to |-> thr[sm].to, task |-> t, id |-> subs[t.uid],
                        keep |-> Keep(t, sm)]]
          /\ subs' = [subs EXCEPT ![t.uid] = @ + 1]
    /\ UNCHANGED <<phase, iters, tasks, cost, next, round, nosplit, plan>>

\* Nothing to move and nothing worth splitting.
LeaveAlone(sm) ==
    /\ phase = "pair" /\ thr[sm].pc = "decide" /\ Movable(sm) = {}
    /\ \/ MoveIters(sm) < MinItersPerSplit
       \/ {} \in Candidates(sm)
       \/ \E C \in Candidates(sm) : \E t \in BestFit(C, MoveIters(sm)) :
             Len(t) - Keep(t, sm) < MinItersPerSplit
    /\ thr' = [thr EXCEPT ![sm] = Idle]
    /\ UNCHANGED <<phase, iters, tasks, cost, subs, next, round, nosplit, plan>>

SplitTaskWhole(sm) ==    \* mutant: the task keeps the end it gives away
    /\ phase = "pair" /\ thr[sm].pc = "split"
    /\ LET t     == thr[sm].task
           cut   == t.begin + thr[sm].keep
           moved == PerIterOverhead * (t.end - cut)
       IN /\ tasks' = [tasks EXCEPT
                         ![thr[sm].to] = @ \cup {Task(t.uid, cut, t.end, thr[sm].id)}]
          /\ cost' = [cost EXCEPT ![sm] = @ - moved,
                                  ![thr[sm].to] = @ + moved + TileGlobalOverhead]
    /\ thr' = [thr EXCEPT ![sm] = Idle]
    /\ UNCHANGED <<phase, iters, subs, next, round, nosplit, plan>>

\* The end of the task goes to the other SM under the claimed sub id.
SplitTask(sm) ==
    /\ phase = "pair" /\ thr[sm].pc = "split"
    /\ LET t     == thr[sm].task
           cut   == t.begin + thr[sm].keep
           moved == PerIterOverhead * (t.end - cut)
       IN /\ tasks' = [tasks EXCEPT
                         ![sm] = (@ \ {t}) \cup {[t EXCEPT !.end = cut]},
                         ![thr[sm].to] = @ \cup {Task(t.uid, cut, t.end, thr[sm].id)}]
          /\ cost' = [cost EXCEPT ![sm] = @ - moved,
                                  ![thr[sm].to] = @ + moved + TileGlobalOverhead]
    /\ thr' = [thr EXCEPT ![sm] = Idle]
    /\ UNCHANGED <<phase, iters, subs, next, round, nosplit, plan>>

\* The claim came too late and is taken back.
UndoClaim(sm) ==
    /\ phase = "pair" /\ thr[sm].pc = "undo"
    /\ subs' = [subs EXCEPT ![thr[sm].task.uid] = @ - 1]
    /\ thr' = [thr EXCEPT ![sm] = Idle]
    /\ UNCHANGED <<phase, iters, tasks, cost, next, round, nosplit, plan>>

RoundEndUncounted ==    \* mutant: no limit on the rounds
    /\ phase = "pair" /\ \A sm \in Sm : thr[sm] = Idle
    /\ phase' = "round"
    /\ UNCHANGED <<iters, tasks, cost, subs, next, round, thr, nosplit, plan>>

RoundEnd ==
    /\ phase = "pair" /\ \A sm \in Sm : thr[sm] = Idle
    /\ phase' = "round" /\ round' = round + 1
    /\ UNCHANGED <<iters, tasks, cost, subs, next, thr, nosplit, plan>>

-----------------------------------------------------------------------------
\* The splits pay if they save 1 % after the cost of combining them.
SplitPays == 100 * (Largest(Costs) + SplitExtraOverhead) < 99 * nosplit

SplitsOfFirstHead(r) == Larger(1, subs[r * heads])    \* mutant: not the maximum

SplitsOfRow(r) == Largest({1} \cup {subs[u] : u \in {v \in Tile : v \div heads = r}})

Write ==
    /\ phase = "write"
    /\ plan' = IF SplitPays
               THEN [split |-> TRUE, work |-> tasks, rows |-> [r \in Row |-> SplitsOfRow(r)]]
               ELSE plan
    /\ phase' = "done"
    /\ UNCHANGED <<iters, tasks, cost, subs, next, round, thr, nosplit>>

Thread(sm) ==
    MoveTask(sm) \/ ClaimSplit(sm) \/ LeaveAlone(sm) \/ SplitTask(sm) \/ UndoClaim(sm)

Block ==
    GreedyBatch \/ GreedyEnd \/ FillPiece \/ FillEnd
        \/ RoundStart \/ RoundsEnd \/ RoundEnd \/ Write

Stop == phase = "done" /\ UNCHANGED vars

Next == (Block \/ (\E sm \in Sm : Thread(sm)) \/ Stop) /\ UNCHANGED heads

Spec == Init /\ [][Next]_vars

-----------------------------------------------------------------------------
TasksOf(work, u) == {t \in UNION {work[sm] : sm \in Sm} : t.uid = u}

\* The tasks that hold iteration i of tile u, each with its SM.
Holders(work, u, i) ==
    {p \in Sm \X TasksOf(work, u) : p[2] \in work[p[1]] /\ p[2].begin <= i /\ i < p[2].end}

\* The pieces of tile u tile its KV iterations: none is missed, none is done twice.
CoversTile(work, u) == \A i \in 0 .. (iters[u] - 1) : Cardinality(Holders(work, u, i)) = 1

\* While the threads move and cut tasks in parallel, every KV iteration of
\* every tile is in exactly one task of one SM: the attention of a row sums
\* every key block once.
EachIterationOnce ==
    phase \in {"round", "pair", "write", "done"} => \A u \in Tile : CoversTile(tasks, u)

Claims(u, pc) == {sm \in Sm : thr[sm].pc = pc /\ thr[sm].task.uid = u}

\* The counter of a tile, between the atomicAdd of one thread and the undo of
\* another: the sub ids in use, with those claimed, are 0 .. n-1, each once; the
\* counter is ahead of n only by claims that came too late, which happen only
\* when all MaxSplits ids are gone, so taking them back frees no id twice.
SubIds ==
    phase \in {"round", "pair", "write", "done"} =>
        \A u \in Tile :
            LET won  == Claims(u, "split")
                used == {t.sub : t \in TasksOf(tasks, u)}
                ids  == used \cup {thr[sm].id : sm \in won}
                n    == Cardinality(TasksOf(tasks, u)) + Cardinality(won)
            IN /\ ids = 0 .. (n - 1)
               /\ n <= MaxSplits
               /\ subs[u] = n + Cardinality(Claims(u, "undo"))
               /\ Claims(u, "undo") # {} => n = MaxSplits

CostOf == [t \in TaskRecord |-> PieceCost(Len(t))]

\* What the planner believes an SM will cost is the cost of its tasks, through
\* every move and split: the choice of the split plan compares these.
CostExact ==
    \A sm \in Sm : cost[sm] = SMGlobalOverhead + Total(CostOf, tasks[sm])

\* The plan that is written is one the attention and combine kernels can run:
\* without splits, every tile is one task over all its iterations; with them,
\* the pieces of a tile cover it, have sub ids 0 .. n-1, and every sub id is below
\* the row's num_kv_splits, which combine reads for all the heads of the row.
PlanRunnable ==
    phase = "done" =>
        \A u \in Tile :
            LET T == TasksOf(plan.work, u)
                r == u \div heads
            IN /\ CoversTile(plan.work, u)
               /\ {t.sub : t \in T} = 0 .. (Cardinality(T) - 1)
               /\ ~plan.split => Cardinality(T) = 1
               /\ Cardinality(T) <= plan.rows[r]
               /\ plan.split => \E v \in Tile : /\ v \div heads = r
                                                /\ Cardinality(TasksOf(plan.work, v)) = plan.rows[r]

\* add_task never indexes past MAX_TASKS_PER_SM, the length of the task arrays.
TasksFit == \A sm \in Sm : Cardinality(tasks[sm]) <= MaxTasks

\* The fill respects that length, though its budgets alone would not: it runs
\* only when tiles are few.
FillFits == phase = "fill" => 10 * NumUnsplit < 8 * NumBuckets /\ TasksFit

\* Work only goes downhill: an SM above average gives some away but stays at
\* least as loaded as the one it gives to, so no step makes the dearest SM,
\* which is what a plan is judged by, dearer, and no pair swaps roles for ever.
NeverWorse ==
    [][\A sm \in Sm : thr[sm] # Idle =>
            cost'[thr[sm].to] <= cost'[sm] /\ cost'[sm] <= cost[sm]]_vars
-----------------------------------------------------------------------------
(***************************************************************************)
(* The inductive invariant: what has been handed out of every tile, in     *)
(* every phase, and what a thread of phase 2 knows of its pair of SMs.     *)
(***************************************************************************)
TypeOK ==
    /\ phase \in {"greedy", "fill", "round", "pair", "write", "done"}
    /\ heads \in Nat \ {0} /\ NumUnsplit \in Nat /\ NumUnsplit % heads = 0
    /\ iters \in [Tile -> KvIters]
    /\ \A v, w \in Tile : v \div heads = w \div heads => iters[v] = iters[w]
    /\ tasks \in [Sm -> SUBSET TaskRecord] /\ \A sm \in Sm : IsFiniteSet(tasks[sm])
    /\ cost \in [Sm -> Int]
    /\ subs \in [Tile -> Nat]
    /\ next \in [u : 0 .. NumUnsplit, pos : Nat, sub : Nat, sm : Nat, budget : Int]
    /\ round \in Nat
    /\ DOMAIN thr = Sm
    /\ \A sm \in Sm : thr[sm] = Idle \/ thr[sm].pc \in {"decide", "split", "undo"}
    /\ DOMAIN plan = {"split", "work", "rows"}

\* How many iterations of a tile have been handed out, and how many sub ids.
Handed(u) ==
    IF phase \notin {"greedy", "fill"} \/ u < next.u THEN iters[u]
    ELSE IF u = next.u THEN next.pos ELSE 0

Numbers(u) ==
    IF phase \notin {"greedy", "fill"} THEN Smaller(subs[u], MaxSplits)
    ELSE IF u < next.u THEN subs[u] ELSE IF u = next.u THEN next.sub ELSE 0

\* Every task is a range of what was handed out of its tile, under a sub id.
InTile ==
    \A sm \in Sm : \A t \in tasks[sm] :
        t.uid \in Tile /\ t.begin < t.end /\ t.end <= Handed(t.uid) /\ t.sub < Numbers(t.uid)

\* No two of a tile share an iteration or a sub id.
Apart ==
    \A a, b \in Sm : \A s \in tasks[a], t \in tasks[b] :
        s.uid = t.uid => \/ a = b /\ s = t
                         \/ s.sub # t.sub /\ (s.end <= t.begin \/ t.end <= s.begin)

\* Nothing that was handed out is missing.
AllThere ==
    \A u \in Tile :
        /\ \A i \in 0 .. (Handed(u) - 1) :
              \E sm \in Sm : \E t \in tasks[sm] : t.uid = u /\ t.begin <= i /\ i < t.end
        /\ \A k \in 0 .. (Numbers(u) - 1) :
              \/ \E sm \in Sm : \E t \in tasks[sm] : t.uid = u /\ t.sub = k
              \/ \E sm \in Claims(u, "split") : thr[sm].id = k

\* A claimed sub id is its claimer's alone, and the counter is ahead of the
\* sub ids by the claims that came too late.
Claimed ==
    \A u \in Tile :
        /\ \A sm \in Claims(u, "split") :
              /\ thr[sm].id \in 0 .. (Numbers(u) - 1)
              /\ \A a \in Sm : \A t \in tasks[a] : t.uid = u => t.sub # thr[sm].id
              /\ \A o \in Claims(u, "split") : thr[o].id = thr[sm].id => o = sm
        /\ subs[u] = Smaller(subs[u], MaxSplits) + Cardinality(Claims(u, "undo"))

\* A thread of phase 2 has two SMs to itself, and what it has planned for them
\* leaves its own no cheaper than the other.
Paired ==
    \A sm \in Sm : thr[sm].pc # "idle" =>
        /\ phase = "pair" /\ thr[sm].to \in Sm /\ thr[thr[sm].to].pc = "idle"
        /\ cost[thr[sm].to] <= cost[sm]
        /\ \A o \in Sm : thr[o].pc # "idle" /\ thr[o].to = thr[sm].to => o = sm
        /\ thr[sm].pc = "decide" => thr[sm].open \subseteq tasks[sm]
        /\ thr[sm].pc \in {"split", "undo"} =>
              /\ thr[sm].task \in tasks[sm] /\ thr[sm].keep \in Nat \ {0}
              /\ thr[sm].keep < Len(thr[sm].task)
              /\ 2 * PerIterOverhead * (Len(thr[sm].task) - thr[sm].keep) + TileGlobalOverhead
                    <= PairGap(sm)

\* Where greedy and fill have got to.
Progress ==
    /\ phase \in {"greedy", "fill"} =>
          /\ \A u \in Tile : u < next.u => subs[u] \in 1 .. MaxSplits
          /\ next.u \in Tile => next.pos < iters[next.u] /\ next.sub < MaxSplits
          /\ next.u = NumUnsplit => next.pos = 0 /\ next.sub = 0
    /\ phase = "greedy" => next.pos = 0 /\ next.sub = 0
    /\ phase \notin {"greedy", "fill"} => \A u \in Tile : subs[u] >= 1

\* The first n tiles are each one task, all of it, on one SM.
WholeTiles(work, n) ==
    \A u \in Tile : u < n =>
        \E sm \in Sm : \A o \in Sm :
            {t \in work[o] : t.uid = u} = IF o = sm THEN {Task(u, 0, iters[u], 0)} ELSE {}

\* What is written is greedy's plan, or the one with splits.
Written ==
    /\ phase = "greedy" => WholeTiles(tasks, next.u) /\ \A u \in Tile : subs[u] <= 1
    /\ phase # "greedy" /\ ~plan.split => WholeTiles(plan.work, NumUnsplit)
    /\ ~plan.split => plan.rows = [r \in Row |-> 1]
    /\ plan.split => /\ phase = "done" /\ plan.work = tasks
                     /\ plan.rows = [r \in Row |-> SplitsOfRow(r)]

Consistent ==
    /\ TypeOK /\ Progress
    /\ InTile /\ Apart /\ AllThere /\ Claimed /\ Paired /\ CostExact
    /\ Written

PlanIInv == Consistent /\ FillFits

=============================================================================
