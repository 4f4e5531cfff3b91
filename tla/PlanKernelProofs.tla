-------------------------- MODULE PlanKernelProofs --------------------------
(***************************************************************************)
(* plan_kernel, for any number of SMs, tiles, rows, heads, splits, rounds  *)
(* and iterations: the adaptive planner, PlanRebalance, then the planner   *)
(* of a given number of splits, PlanGreedy, then a launch, which is one or *)
(* the other: what is proved of each holds of the plans of every launch.   *)
(***************************************************************************)
EXTENDS PlanKernel, ReductionLemmas

-----------------------------------------------------------------------------
(***************************************************************************)
(* The adaptive planner: every KV iteration is in one task of one SM       *)
(* through all moves and splits, sub ids are dense, the costs that are     *)
(* compared are those of the tasks, and what is written can be run.        *)
(***************************************************************************)
(* There are NumBuckets SMs.                                               *)
LEMMA SmCount ==
    /\ IsFiniteSet(Sm) /\ Cardinality(Sm) = NumBuckets
    /\ NumBuckets \in Nat \ {0} /\ Sm \subseteq Nat
<1>1. NumBuckets \in Nat \ {0}
  BY PlanAssumption
<1>. QED
  BY <1>1, FS_Interval DEF Sm

(* The tiles are the rows of the heads they have.                          *)
LEMMA TileRows ==
    ASSUME TypeOK
    PROVE  \A u \in Tile : u \div heads \in Row
<1>1. /\ NumUnsplit = (NumUnsplit \div heads) * heads + (NumUnsplit % heads)
      /\ NumUnsplit \div heads \in Nat
  BY Euclid DEF TypeOK
<1>2. NumUnsplit = (NumUnsplit \div heads) * heads
  BY <1>1 DEF TypeOK
<1>3. ASSUME NEW u \in Tile PROVE u \in Nat /\ u < (NumUnsplit \div heads) * heads
  BY <1>2 DEF Tile, TypeOK
<1>. QED
  BY <1>1, <1>3, RowsOf DEF Row, TypeOK

(* The costs of no tasks.                                                  *)
LEMMA NoCost == Total(CostOf, {}) = 0
<1>1. IsFiniteSet({}) /\ \A x \in {} : CostOf[x] \in Int
  BY FS_EmptySet
<1>. QED
  BY <1>1, TotalFirst

(* The initial state satisfies the invariant.                              *)
LEMMA Initially == ASSUME Init PROVE Consistent
<1>0. PICK shape \in Shapes : \E r \in [0 .. (shape[1] - 1) -> KvIters] :
          /\ heads = shape[2]
          /\ iters = [u \in 0 .. (shape[1] * heads - 1) |-> r[u \div heads]]
  BY DEF Init
<1>1. PICK rows0 \in [0 .. (shape[1] - 1) -> KvIters] :
          /\ heads = shape[2]
          /\ iters = [u \in 0 .. (shape[1] * heads - 1) |-> rows0[u \div heads]]
  BY <1>0
<1>2. shape[1] \in Nat /\ heads \in Nat \ {0}
  BY <1>1, PlanAssumption
<1>. DEFINE n == shape[1] * heads
<1>3. /\ n \in Nat /\ n % heads = 0 /\ n \div heads = shape[1]
      /\ \A u \in Nat : u < n => u \div heads \in 0 .. (shape[1] - 1)
  BY <1>2, RowsOf
<1>4. NumUnsplit = n
  <2>1. DOMAIN iters = 0 .. (n - 1)
    BY <1>1
  <2>. HIDE DEF n
  <2>. QED
    BY <1>3, <2>1, FS_Interval DEF NumUnsplit
<1>. HIDE DEF n
<1>5. Tile = 0 .. (n - 1)
  BY <1>4 DEF Tile
<1>6. \A u \in Tile : u \div heads \in 0 .. (shape[1] - 1) /\ iters[u] = rows0[u \div heads]
  BY <1>1, <1>3, <1>5 DEF n
<1>7. iters \in [Tile -> KvIters]
  BY <1>1, <1>5, <1>6 DEF n
<1>8. KvIters \subseteq Nat \ {0} /\ MaxSplits \in Nat \ {0}
  BY PlanAssumption
<1>9. \A sm \in Sm : tasks[sm] = {} /\ thr[sm] = Idle /\ cost[sm] = SMGlobalOverhead
  BY DEF Init, NoTasks, FreshCost
<1>10. phase = "greedy" /\ next = Start /\ ~plan.split /\ \A u \in Tile : subs[u] = 0
  BY DEF Init
<1>11. TypeOK
  <2>1. \A v, w \in Tile : v \div heads = w \div heads => iters[v] = iters[w]
    BY <1>6
  <2>2. tasks \in [Sm -> SUBSET TaskRecord] /\ \A sm \in Sm : IsFiniteSet(tasks[sm])
    BY <1>9, FS_EmptySet DEF Init, NoTasks
  <2>3. cost \in [Sm -> Int] /\ subs \in [Tile -> Nat]
    BY DEF Init, FreshCost, SMGlobalOverhead
  <2>4. next \in [u : 0 .. NumUnsplit, pos : Nat, sub : Nat, sm : Nat, budget : Int]
    BY <1>3, <1>4, <1>10 DEF Start
  <2>5. DOMAIN thr = Sm /\ \A sm \in Sm : thr[sm] = Idle
    BY <1>9 DEF Init
  <2>. QED
    BY <1>2, <1>3, <1>4, <1>7, <2>1, <2>2, <2>3, <2>4, <2>5, <1>10 DEF TypeOK, Init
<1>12. \A u \in Tile : Handed(u) = 0 /\ Numbers(u) = 0 /\ u \in Nat
  BY <1>3, <1>5, <1>10 DEF Handed, Numbers, Start
<1>13. Progress
  <2>1. next.u = 0 /\ next.pos = 0 /\ next.sub = 0
    BY <1>10 DEF Start
  <2>2. ASSUME NEW u \in Tile PROVE ~ (u < next.u) /\ iters[u] > 0
    <3>1. u \in Nat /\ iters[u] \in KvIters
      BY <1>7, <1>12
    <3>2. iters[u] \in Nat \ {0}
      BY <1>8, <3>1
    <3>. QED
      BY <2>1, <3>1, <3>2
  <2>. QED
    BY <1>8, <1>10, <2>1, <2>2 DEF Progress
<1>14. InTile /\ Apart /\ AllThere
  BY <1>9, <1>12 DEF InTile, Apart, AllThere
<1>15. Claimed
  <2>1. \A u \in Tile : Claims(u, "undo") = {} /\ Claims(u, "split") = {}
    BY <1>9 DEF Claims, Idle
  <2>2. ASSUME NEW u \in Tile
        PROVE  subs[u] = Smaller(subs[u], MaxSplits) + Cardinality(Claims(u, "undo"))
    <3>1. subs[u] = 0 /\ Cardinality(Claims(u, "undo")) = 0
      BY <1>10, <2>1, FS_EmptySet
    <3>. QED
      BY <1>8, <3>1 DEF Smaller
  <2>. QED
    BY <2>1, <2>2 DEF Claimed
<1>16. Paired
  BY <1>9 DEF Paired, Idle
<1>17. CostExact
  <2>1. ASSUME NEW sm \in Sm PROVE cost[sm] = SMGlobalOverhead + Total(CostOf, tasks[sm])
    <3>1. cost[sm] = SMGlobalOverhead /\ Total(CostOf, tasks[sm]) = 0
      BY <1>9, NoCost
    <3>. QED
      BY <3>1 DEF SMGlobalOverhead
  <2>. QED
    BY <2>1 DEF CostExact
<1>18. Written
  <2>1. WholeTiles(tasks, next.u)
    BY <1>3, <1>5, <1>10 DEF WholeTiles, Start
  <2>. QED
    BY <1>10, <2>1 DEF Written, Init
<1>. QED
  BY <1>11, <1>13, <1>14, <1>15, <1>16, <1>17, <1>18 DEF Consistent

-----------------------------------------------------------------------------
(* The tiles never change.                                                 *)
LEMMA Fixed ==
    ASSUME UNCHANGED <<iters, heads>>
    PROVE  NumUnsplit' = NumUnsplit /\ Tile' = Tile /\ Row' = Row
BY DEF NumUnsplit, Tile, Row

(* Types that every proof needs.                                           *)
LEMMA Types ==
    ASSUME TypeOK
    PROVE  /\ heads \in Nat \ {0} /\ NumUnsplit \in Nat /\ MaxSplits \in Nat \ {0}
           /\ Tile \subseteq Nat /\ \A u \in Nat : u \in Tile <=> u < NumUnsplit
           /\ \A u \in Tile : iters[u] \in Nat \ {0} /\ subs[u] \in Nat
           /\ \A sm \in Sm : /\ cost[sm] \in Int /\ IsFiniteSet(tasks[sm])
                             /\ \A t \in tasks[sm] : t \in TaskRecord
           /\ next.u \in 0 .. NumUnsplit /\ next.pos \in Nat /\ next.sub \in Nat
           /\ next.sm \in Nat /\ next.budget \in Int
<1>1. heads \in Nat \ {0} /\ NumUnsplit \in Nat
  BY DEF TypeOK
<1>2. MaxSplits \in Nat \ {0} /\ KvIters \subseteq Nat \ {0}
  BY PlanAssumption
<1>3. Tile \subseteq Nat /\ \A u \in Nat : u \in Tile <=> u < NumUnsplit
  BY <1>1 DEF Tile
<1>4. \A u \in Tile : iters[u] \in Nat \ {0} /\ subs[u] \in Nat
  BY <1>2 DEF TypeOK
<1>5. \A sm \in Sm : cost[sm] \in Int /\ IsFiniteSet(tasks[sm]) /\ tasks[sm] \in SUBSET TaskRecord
  BY DEF TypeOK
<1>6. next \in [u : 0 .. NumUnsplit, pos : Nat, sub : Nat, sm : Nat, budget : Int]
  BY DEF TypeOK
<1>. QED
  BY <1>1, <1>2, <1>3, <1>4, <1>5, <1>6

(* After the fill, and after greedy when there is none, all of every tile  *)
(* is handed out.                                                          *)
LEMMA AllHanded ==
    ASSUME TypeOK, phase \notin {"greedy", "fill"}
    PROVE  \A u \in Tile : /\ Handed(u) = iters[u] /\ Numbers(u) = Smaller(subs[u], MaxSplits)
BY DEF Handed, Numbers

(* A step that touches no task, of threads that keep their claims.         *)
LEMMA ContentsKept ==
    ASSUME InTile, Apart, AllThere, CostExact,
           UNCHANGED <<iters, heads, tasks, cost>>,
           \A u \in Tile : Handed(u)' = Handed(u) /\ Numbers(u)' = Numbers(u),
           \A sm \in Sm : thr[sm].pc = "split" => thr'[sm] = thr[sm]
    PROVE  (InTile /\ Apart /\ AllThere /\ CostExact)'
<1>1. Tile' = Tile
  BY Fixed
<1>2. InTile'
  BY <1>1 DEF InTile
<1>3. Apart'
  BY DEF Apart
<1>4. AllThere'
  BY <1>1 DEF AllThere, Claims
<1>5. CostExact'
  BY DEF CostExact
<1>. QED
  BY <1>2, <1>3, <1>4, <1>5

(* What is written stays so until the end.                                 *)
LEMMA WrittenKept ==
    ASSUME Written, phase # "greedy", phase # "done", phase' # "greedy",
           UNCHANGED <<iters, heads, plan>>
    PROVE  Written'
<1>1. ~ plan.split /\ WholeTiles(plan.work, NumUnsplit) /\ plan.rows = [r \in Row |-> 1]
  BY DEF Written
<1>2. NumUnsplit' = NumUnsplit /\ Tile' = Tile /\ Row' = Row
  BY Fixed
<1>3. ~ plan'.split /\ plan'.rows = [r \in Row' |-> 1]
  BY <1>1, <1>2
<1>4. WholeTiles(plan.work, NumUnsplit)'
  BY <1>1, <1>2 DEF WholeTiles
<1>. QED
  BY <1>3, <1>4 DEF Written

(* So do the claims of threads that keep them.                             *)
LEMMA ClaimsKept ==
    ASSUME Claimed, UNCHANGED <<iters, heads, tasks, subs>>,
           \A u \in Tile : Numbers(u)' = Numbers(u),
           \A sm \in Sm : \/ thr'[sm] = thr[sm]
                          \/ thr[sm].pc \in {"idle", "decide"} /\ thr'[sm].pc \in {"idle", "decide"}
    PROVE  Claimed'
<1>1. Tile' = Tile
  BY Fixed
<1>2. \A u : Claims(u, "split")' = Claims(u, "split") /\ Claims(u, "undo")' = Claims(u, "undo")
  BY DEF Claims
<1>3. \A u : \A sm \in Claims(u, "split") : thr'[sm] = thr[sm]
  BY DEF Claims
<1>. QED
  BY <1>1, <1>2, <1>3 DEF Claimed

(* No step is a step.                                                      *)
LEMMA StaysSo == ASSUME Consistent, UNCHANGED vars PROVE Consistent'
<1>. USE DEF vars
<1>1. TypeOK' /\ Progress' /\ InTile'
  BY DEF Consistent, TypeOK, Progress, InTile, Handed, Numbers, NumUnsplit, Tile
<1>2. Apart' /\ CostExact' /\ Paired' /\ AllThere'
  BY DEF Consistent, Apart, CostExact, Paired, PairGap, AllThere, Claims, Handed, Numbers,
     NumUnsplit, Tile
<1>3. Claimed'
  BY DEF Consistent, Claimed, Claims, Numbers, NumUnsplit, Tile
<1>4. Written'
  BY DEF Consistent, Written, WholeTiles, SplitsOfRow, NumUnsplit, Tile, Row
<1>. QED
  BY <1>1, <1>2, <1>3, <1>4 DEF Consistent

(* The fill ends when all tiles are handed out.                            *)
LEMMA StepFillEnd == ASSUME Consistent, FillEnd, UNCHANGED heads PROVE Consistent'
<1>1. /\ phase = "fill" /\ next.u = NumUnsplit /\ phase' = "round"
      /\ UNCHANGED <<iters, heads, tasks, cost, subs, next, round, thr, nosplit, plan>>
  BY DEF FillEnd
<1>2. TypeOK' /\ NumUnsplit' = NumUnsplit /\ Tile' = Tile
  BY <1>1, Fixed DEF Consistent, TypeOK, Tile, Row, NumUnsplit
<1>3. \A u \in Tile : u < next.u /\ subs[u] \in 1 .. MaxSplits /\ subs[u] >= 1
  BY <1>1, Types DEF Consistent, Progress
<1>4. \A u \in Tile : Handed(u)' = Handed(u) /\ Numbers(u)' = Numbers(u)
  BY <1>1, <1>3, Types DEF Consistent, Handed, Numbers, Smaller
<1>5. Progress'
  BY <1>1, <1>2, <1>3 DEF Progress
<1>6. (InTile /\ Apart /\ AllThere /\ CostExact)' /\ Claimed' /\ Written'
  BY <1>1, <1>4, ContentsKept, ClaimsKept, WrittenKept DEF Consistent
<1>7. Paired'
  BY <1>1 DEF Consistent, Paired
<1>. QED
  BY <1>2, <1>5, <1>6, <1>7 DEF Consistent

(* A thread that finds nothing worth while.                                *)
LEMMA StepLeaveAlone ==
    ASSUME Consistent, NEW sm \in Sm, LeaveAlone(sm), UNCHANGED heads PROVE Consistent'
<1>1. /\ phase = "pair" /\ thr[sm].pc = "decide" /\ thr' = [thr EXCEPT ![sm] = Idle]
      /\ UNCHANGED <<phase, iters, heads, tasks, cost, subs, next, round, nosplit, plan>>
  BY DEF LeaveAlone
<1>2. NumUnsplit' = NumUnsplit /\ Tile' = Tile /\ DOMAIN thr = Sm
  BY <1>1, Fixed DEF Consistent, TypeOK
<1>3. \A a \in Sm : \/ a # sm /\ thr'[a] = thr[a]
                    \/ a = sm /\ thr'[a] = Idle /\ thr'[a].pc = "idle"
  BY <1>1, <1>2 DEF Idle
<1>4. TypeOK' /\ Progress'
  BY <1>1, <1>2, <1>3 DEF Consistent, TypeOK, Progress, Tile, NumUnsplit
<1>5. \A u \in Tile : Handed(u)' = Handed(u) /\ Numbers(u)' = Numbers(u)
  BY <1>1 DEF Handed, Numbers
<1>6. (InTile /\ Apart /\ AllThere /\ CostExact)' /\ Claimed' /\ Written'
  BY <1>1, <1>3, <1>5, ContentsKept, ClaimsKept, WrittenKept DEF Consistent
<1>7. Paired'
  BY <1>1, <1>3 DEF Consistent, Paired, PairGap
<1>. QED
  BY <1>4, <1>6, <1>7 DEF Consistent

(* The end of a round, and of all.                                         *)
LEMMA StepEnds == ASSUME Consistent, RoundEnd \/ RoundsEnd, UNCHANGED heads PROVE Consistent'
<1>1. /\ phase \in {"pair", "round"} /\ phase' \in {"round", "write"} /\ round' \in {round, round + 1}
      /\ \A sm \in Sm : thr[sm].pc = "idle"
      /\ UNCHANGED <<iters, heads, tasks, cost, subs, next, thr, nosplit, plan>>
  BY DEF Consistent, RoundEnd, RoundsEnd, Paired, Idle
<1>2. NumUnsplit' = NumUnsplit /\ Tile' = Tile
  BY <1>1, Fixed
<1>3. round \in Nat /\ round' \in Nat
  BY <1>1 DEF Consistent, TypeOK
<1>4. TypeOK'
  <2>1. phase' \in {"greedy", "fill", "round", "pair", "write", "done"}
    BY <1>1
  <2>. QED
    BY <1>1, <1>2, <1>3, <2>1 DEF Consistent, TypeOK
<1>5. Progress'
  BY <1>1, <1>2 DEF Consistent, Progress
<1>6. \A u \in Tile : Handed(u)' = Handed(u) /\ Numbers(u)' = Numbers(u)
  BY <1>1 DEF Handed, Numbers
<1>7. (InTile /\ Apart /\ AllThere /\ CostExact)' /\ Claimed' /\ Written'
  BY <1>1, <1>6, ContentsKept, ClaimsKept, WrittenKept DEF Consistent
<1>8. Paired'
  BY <1>1 DEF Paired
<1>. QED
  BY <1>4, <1>5, <1>7, <1>8 DEF Consistent

(* The exclusive prefix sum numbers the members of a set of SMs from 0 on. *)
LEMMA IndexRight ==
    ASSUME NEW S \in SUBSET Sm
    PROVE  /\ IsFiniteSet(S) /\ Cardinality(S) \in Nat
           /\ \A x \in S : IndexIn(x, S) \in 0 .. (Cardinality(S) - 1)
           /\ \A x, y \in S : IndexIn(x, S) = IndexIn(y, S) => x = y
           /\ \A k \in 0 .. (Cardinality(S) - 1) : \E x \in S : IndexIn(x, S) = k
<1>. DEFINE below == [x \in S |-> {o \in S : o < x}]
<1>1. IsFiniteSet(S) /\ Cardinality(S) \in Nat /\ S \subseteq Nat
  BY SmCount, FS_Subset, FS_CardinalityType
<1>2. \A x \in S : IndexIn(x, S) = Cardinality(below[x])
  BY DEF IndexIn
<1>3. below \in [S -> SUBSET S] /\ \A x \in S : x \notin below[x]
  BY <1>1
<1>4. \A x, y \in S : \/ x = y
                      \/ x \in below[y] /\ below[x] \subseteq below[y]
                      \/ y \in below[x] /\ below[y] \subseteq below[x]
  <2>1. ASSUME NEW x \in S, NEW y \in S, x < y
        PROVE  x \in below[y] /\ below[x] \subseteq below[y]
    <3>1. x \in below[y]
      BY <2>1
    <3>2. ASSUME NEW o \in below[x] PROVE o \in below[y]
      <4>1. o \in S /\ o < x /\ o \in Nat /\ x \in Nat /\ y \in Nat
        BY <1>1
      <4>. QED
        BY <2>1, <4>1
    <3>. QED
      BY <3>1, <3>2
  <2>2. \A x, y \in S : x = y \/ x < y \/ y < x
    BY <1>1
  <2>. HIDE DEF below
  <2>. QED
    BY <2>1, <2>2
<1>. HIDE DEF below
<1>5. IsFiniteSet(S)
  BY <1>1
<1>6. /\ \A x \in S : Cardinality(below[x]) \in 0 .. (Cardinality(S) - 1)
      /\ \A x, y \in S : Cardinality(below[x]) = Cardinality(below[y]) => x = y
      /\ \A k \in 0 .. (Cardinality(S) - 1) : \E x \in S : Cardinality(below[x]) = k
  BY <1>3, <1>4, <1>5, Places
<1>. QED
  BY <1>1, <1>2, <1>6

(* Every SM's average is an integer, so no SM is above and below it.       *)
LEMMA OneSide ==
    ASSUME TypeOK
    PROVE  /\ AvgCost \in Int /\ Deficit \subseteq Sm /\ Excess \subseteq Sm
           /\ \A d \in Deficit : d \notin Excess
           /\ \A d \in Deficit, e \in Excess : cost[d] <= cost[e]
<1>1. \A sm \in Sm : cost[sm] \in Int
  BY Types
<1>2. Total(cost, Sm) \in Int /\ NumBuckets \in Nat \ {0}
  BY <1>1, SmCount, TotalFirst
<1>3. AvgCost \in Int
  BY <1>2 DEF AvgCost
<1>. QED
  BY <1>1, <1>3 DEF Deficit, Excess

(* The pairing gives every SM above average an SM below it of its own.     *)
LEMMA StepRoundStart == ASSUME Consistent, RoundStart, UNCHANGED heads PROVE Consistent'
<1>1. /\ phase = "round" /\ thr' = Pairing /\ phase' = "pair"
      /\ UNCHANGED <<iters, heads, tasks, cost, subs, next, round, nosplit, plan>>
  BY DEF RoundStart
<1>2. NumUnsplit' = NumUnsplit /\ Tile' = Tile
  BY <1>1, Fixed
<1>3. TypeOK
  BY DEF Consistent
<1>4. \A sm \in Sm : thr[sm].pc = "idle"
  BY <1>1 DEF Consistent, Paired
<1>5. /\ DOMAIN thr' = Sm /\ \A sm \in Sm : thr'[sm] = Idle \/ thr'[sm].pc = "decide"
      /\ \A sm \in Sm : thr'[sm].pc \in {"idle", "decide"}
  BY <1>1 DEF Pairing, Idle
<1>6. TypeOK'
  <2>1. \A sm \in Sm : thr'[sm] = Idle \/ thr'[sm].pc \in {"decide", "split", "undo"}
    BY <1>5
  <2>. QED
    BY <1>1, <1>2, <1>3, <1>5, <2>1 DEF TypeOK
<1>7. Progress'
  BY <1>1, <1>2 DEF Consistent, Progress
<1>8. \A u \in Tile : Handed(u)' = Handed(u) /\ Numbers(u)' = Numbers(u)
  BY <1>1 DEF Handed, Numbers
<1>9. (InTile /\ Apart /\ AllThere /\ CostExact)' /\ Claimed' /\ Written'
  BY <1>1, <1>4, <1>5, <1>8, ContentsKept, ClaimsKept, WrittenKept DEF Consistent
<1>10. Paired'
  <2>1. ASSUME NEW sm \in Sm, thr'[sm].pc # "idle"
        PROVE  /\ sm \in Excess /\ thr'[sm].to \in Deficit
               /\ IndexIn(thr'[sm].to, Deficit) = IndexIn(sm, Excess)
               /\ thr'[sm].open \subseteq tasks[sm] /\ thr'[sm].pc = "decide"
    <3>1. sm \in Excess /\ IndexIn(sm, Excess) < Cardinality(Deficit)
      BY <1>1, <2>1 DEF Pairing, Idle
    <3>2. /\ thr'[sm].pc = "decide" /\ thr'[sm].open = {t \in tasks[sm] : Splittable(t)}
          /\ thr'[sm].to = CHOOSE d \in Deficit : IndexIn(d, Deficit) = IndexIn(sm, Excess)
      BY <1>1, <3>1 DEF Pairing
    <3>3. IndexIn(sm, Excess) \in 0 .. (Cardinality(Deficit) - 1)
      BY <1>3, <3>1, OneSide, IndexRight
    <3>4. \E d \in Deficit : IndexIn(d, Deficit) = IndexIn(sm, Excess)
      BY <1>3, <3>3, OneSide, IndexRight
    <3>. QED
      BY <3>1, <3>2, <3>4
  <2>2. ASSUME NEW d \in Deficit PROVE thr'[d].pc = "idle"
    BY <1>3, <2>1, OneSide
  <2>3. ASSUME NEW sm \in Sm, thr'[sm].pc # "idle",
               NEW o \in Sm, thr'[o].pc # "idle", thr'[o].to = thr'[sm].to
        PROVE  o = sm
    <3>1. IndexIn(o, Excess) = IndexIn(sm, Excess) /\ o \in Excess /\ sm \in Excess
      BY <2>1, <2>3
    <3>. QED
      BY <1>3, <3>1, OneSide, IndexRight
  <2>. QED
    BY <1>1, <1>3, <2>1, <2>2, <2>3, OneSide DEF Paired
<1>. QED
  BY <1>6, <1>7, <1>9, <1>10 DEF Consistent

-----------------------------------------------------------------------------
(* What a thread that has not finished knows.                              *)
LEMMA OfAPair ==
    ASSUME Consistent, NEW sm \in Sm, thr[sm].pc # "idle"
    PROVE  /\ phase = "pair" /\ thr[sm].to \in Sm /\ thr[sm].to # sm /\ thr[thr[sm].to].pc = "idle"
           /\ cost[sm] \in Int /\ cost[thr[sm].to] \in Int /\ PairGap(sm) \in Int
           /\ cost[thr[sm].to] <= cost[sm]
           /\ \A u \in Tile : Handed(u) = iters[u] /\ Numbers(u) = Smaller(subs[u], MaxSplits)
<1>1. /\ phase = "pair" /\ thr[sm].to \in Sm /\ thr[thr[sm].to].pc = "idle"
      /\ cost[thr[sm].to] <= cost[sm]
  BY DEF Consistent, Paired
<1>2. cost[sm] \in Int /\ cost[thr[sm].to] \in Int
  BY <1>1, Types DEF Consistent
<1>3. PairGap(sm) \in Int
  BY <1>2 DEF PairGap
<1>. QED
  BY <1>1, <1>2, <1>3, AllHanded DEF Consistent

(* What a task is.                                                         *)
LEMMA OfATask ==
    ASSUME Consistent, NEW sm \in Sm, NEW t \in tasks[sm]
    PROVE  /\ t \in TaskRecord /\ t.uid \in Tile /\ t.begin \in Nat /\ t.end \in Nat /\ t.sub \in Nat
           /\ t.begin < t.end /\ Len(t) \in Nat \ {0}
           /\ CostOf[t] = PieceCost(Len(t)) /\ PieceCost(Len(t)) \in Nat
           /\ \A a \in Sm : t \in tasks[a] => a = sm
<1>1. t \in TaskRecord
  BY Types DEF Consistent
<1>2. t.begin \in Nat /\ t.end \in Nat /\ t.sub \in Nat
  BY <1>1 DEF TaskRecord
<1>3. t.uid \in Tile /\ t.begin < t.end
  BY DEF Consistent, InTile
<1>4. Len(t) \in Nat \ {0}
  BY <1>2, <1>3 DEF Len
<1>5. CostOf[t] = PieceCost(Len(t)) /\ PieceCost(Len(t)) \in Nat
  BY <1>1, <1>4 DEF CostOf, PieceCost, PerIterOverhead, TileGlobalOverhead
<1>6. \A a \in Sm : t \in tasks[a] => a = sm
  BY DEF Consistent, Apart
<1>. QED
  BY <1>1, <1>2, <1>3, <1>4, <1>5, <1>6

(* A thread that finishes leaves the other pairs alone.                    *)
LEMMA PairedKept ==
    ASSUME Paired, UNCHANGED phase, NEW sm \in Sm, thr[sm].pc # "idle",
           DOMAIN thr = Sm, thr' = [thr EXCEPT ![sm] = Idle],
           \A a \in Sm : a # sm /\ a # thr[sm].to => tasks'[a] = tasks[a] /\ cost'[a] = cost[a]
    PROVE  Paired'
<1>1. \A a \in Sm : a # sm => thr'[a] = thr[a]
  OBVIOUS
<1>2. thr'[sm].pc = "idle"
  BY DEF Idle
<1>3. ASSUME NEW o \in Sm, thr'[o].pc # "idle"
      PROVE  /\ thr[o].pc # "idle" /\ thr'[o] = thr[o] /\ thr[o].to \in Sm
             /\ tasks'[o] = tasks[o] /\ cost'[o] = cost[o] /\ cost'[thr[o].to] = cost[thr[o].to]
             /\ thr'[thr[o].to].pc = "idle"
  <2>1. o # sm /\ thr'[o] = thr[o] /\ thr[o].pc # "idle"
    BY <1>1, <1>2, <1>3
  <2>2. thr[o].to \in Sm /\ thr[o].to # thr[sm].to /\ thr[o].to # sm /\ o # thr[sm].to
    BY <2>1 DEF Paired
  <2>. QED
    BY <1>1, <2>1, <2>2 DEF Paired
<1>4. \A o \in Sm : thr'[o].pc # "idle" => PairGap(o)' = PairGap(o)
  BY <1>3 DEF PairGap
<1>. QED
  BY <1>3, <1>4 DEF Paired

(* A claim that came too late is taken back: no id is freed.               *)
LEMMA StepUndoClaim ==
    ASSUME Consistent, NEW sm \in Sm, UndoClaim(sm), UNCHANGED heads PROVE Consistent'
<1>1. /\ phase = "pair" /\ thr[sm].pc = "undo" /\ thr' = [thr EXCEPT ![sm] = Idle]
      /\ subs' = [subs EXCEPT ![thr[sm].task.uid] = @ - 1]
      /\ UNCHANGED <<phase, iters, heads, tasks, cost, next, round, nosplit, plan>>
  BY DEF UndoClaim
<1>2. /\ NumUnsplit' = NumUnsplit /\ Tile' = Tile /\ DOMAIN thr = Sm /\ subs \in [Tile -> Nat]
      /\ MaxSplits \in Nat \ {0}
  BY <1>1, Fixed, Types DEF Consistent, TypeOK
<1>3. PICK u \in Tile : u = thr[sm].task.uid
  BY <1>1, OfATask DEF Consistent, Paired
<1>4. \A a \in Sm : \/ a # sm /\ thr'[a] = thr[a]
                    \/ a = sm /\ thr'[a] = Idle /\ thr'[a].pc = "idle"
  BY <1>1, <1>2 DEF Idle
<1>5. sm \in Claims(u, "undo") /\ Claims(u, "undo")' = Claims(u, "undo") \ {sm}
  BY <1>1, <1>3, <1>4 DEF Claims
<1>6. \A v \in Tile : /\ Claims(v, "split")' = Claims(v, "split")
                      /\ v # u => Claims(v, "undo")' = Claims(v, "undo")
  BY <1>1, <1>3, <1>4 DEF Claims
<1>7. /\ Cardinality(Claims(u, "undo")) \in Nat \ {0}
      /\ Cardinality(Claims(u, "undo")') = Cardinality(Claims(u, "undo")) - 1
  <2>1. IsFiniteSet(Claims(u, "undo"))
    BY SmCount, FS_Subset DEF Claims
  <2>. QED
    BY <1>5, <2>1, FS_CardinalityType, FS_RemoveElement, FS_EmptySet
<1>8. /\ subs[u] \in Nat /\ subs[u] > MaxSplits /\ subs'[u] = subs[u] - 1
      /\ subs[u] = MaxSplits + Cardinality(Claims(u, "undo"))
      /\ \A v \in Tile : v # u => subs'[v] = subs[v]
  <2>1. subs[u] \in Nat /\ subs[u] = Smaller(subs[u], MaxSplits) + Cardinality(Claims(u, "undo"))
    BY <1>2, <1>3 DEF Consistent, Claimed
  <2>. QED
    BY <1>1, <1>2, <1>3, <1>7, <2>1 DEF Smaller
<1>9. subs' \in [Tile -> Nat]
  BY <1>1, <1>2, <1>3, <1>8
<1>10. \A v \in Tile : Handed(v)' = Handed(v) /\ Numbers(v)' = Numbers(v)
  BY <1>1, <1>2, <1>8 DEF Handed, Numbers, Smaller
<1>11. TypeOK'
  BY <1>1, <1>2, <1>4, <1>9 DEF Consistent, TypeOK
<1>12. Progress'
  BY <1>1, <1>2, <1>8 DEF Consistent, Progress
<1>13. (InTile /\ Apart /\ AllThere /\ CostExact)' /\ Written'
  BY <1>1, <1>4, <1>10, ContentsKept, WrittenKept DEF Consistent
<1>14. Claimed'
  <2>1. ASSUME NEW v \in Tile
        PROVE  subs'[v] = Smaller(subs'[v], MaxSplits) + Cardinality(Claims(v, "undo")')
    <3>1. subs[v] \in Nat /\ subs[v] = Smaller(subs[v], MaxSplits) + Cardinality(Claims(v, "undo"))
      BY <1>2 DEF Consistent, Claimed
    <3>2. CASE v # u
      BY <1>6, <1>8, <3>1, <3>2
    <3>3. CASE v = u
      BY <1>2, <1>7, <1>8, <3>3 DEF Smaller
    <3>. QED
      BY <3>2, <3>3
  <2>2. \A v \in Tile : \A a \in Claims(v, "split") : thr'[a] = thr[a]
    BY <1>1, <1>4 DEF Claims
  <2>. QED
    BY <1>1, <1>2, <1>6, <1>10, <2>1, <2>2 DEF Consistent, Claimed
<1>15. Paired'
  BY <1>1, <1>2, PairedKept DEF Consistent
<1>. QED
  BY <1>11, <1>12, <1>13, <1>14, <1>15 DEF Consistent

(* A task that moves is on the other SM then, and nowhere else.            *)
LEMMA StepMoveTask ==
    ASSUME Consistent, NEW sm \in Sm, MoveTask(sm), UNCHANGED heads PROVE Consistent'
<1>1. /\ phase = "pair" /\ thr[sm].pc = "decide" /\ thr' = [thr EXCEPT ![sm] = Idle]
      /\ UNCHANGED <<phase, iters, heads, subs, next, round, nosplit, plan>>
  BY DEF MoveTask
<1>2. PICK d \in Sm : d = thr[sm].to /\ d # sm
  BY <1>1, OfAPair
<1>3. PICK t \in tasks[sm] :
         /\ 2 * PieceCost(Len(t)) <= PairGap(sm)
         /\ tasks' = [tasks EXCEPT ![sm] = @ \ {t}, ![thr[sm].to] = @ \cup {t}]
         /\ cost' = [cost EXCEPT ![sm] = @ - PieceCost(Len(t)),
                                 ![thr[sm].to] = @ + PieceCost(Len(t))]
  BY DEF MoveTask, Movable
<1>4. /\ NumUnsplit' = NumUnsplit /\ Tile' = Tile /\ DOMAIN thr = Sm
      /\ tasks \in [Sm -> SUBSET TaskRecord] /\ cost \in [Sm -> Int]
      /\ \A a \in Sm : IsFiniteSet(tasks[a])
  BY <1>1, Fixed DEF Consistent, TypeOK
<1>5. t \in TaskRecord /\ t \notin tasks[d] /\ CostOf[t] \in Int /\ CostOf[t] = PieceCost(Len(t))
  BY <1>2, OfATask
<1>6. /\ tasks'[sm] = tasks[sm] \ {t} /\ tasks'[d] = tasks[d] \cup {t}
      /\ \A a \in Sm : a # sm /\ a # d => tasks'[a] = tasks[a] /\ cost'[a] = cost[a]
      /\ DOMAIN tasks' = Sm
  BY <1>2, <1>3, <1>4
<1>7. cost'[sm] = cost[sm] - CostOf[t] /\ cost'[d] = cost[d] + CostOf[t] /\ cost' \in [Sm -> Int]
  BY <1>2, <1>3, <1>4, <1>5
<1>8. \A a \in Sm : \A s \in tasks'[a] : (s = t /\ a = d) \/ (s # t /\ s \in tasks[a])
  BY <1>5, <1>6, OfATask
<1>9. \A a \in Sm : \A s \in tasks[a] : \E b \in Sm : s \in tasks'[b]
  BY <1>2, <1>6
<1>10. \A a \in Sm : \/ a # sm /\ thr'[a] = thr[a]
                     \/ a = sm /\ thr'[a] = Idle /\ thr'[a].pc = "idle"
  BY <1>1, <1>4 DEF Idle
<1>11. \A u \in Tile : Handed(u)' = Handed(u) /\ Numbers(u)' = Numbers(u)
  BY <1>1 DEF Handed, Numbers
<1>12. \A u \in Tile : /\ Claims(u, "split")' = Claims(u, "split")
                       /\ Claims(u, "undo")' = Claims(u, "undo")
  BY <1>1, <1>10 DEF Claims, Idle
<1>13. TypeOK'
  <2>1. \A a \in Sm : IsFiniteSet(tasks'[a])
    <3>1. IsFiniteSet(tasks[sm]) /\ IsFiniteSet(tasks[d])
      BY <1>2, <1>4
    <3>2. IsFiniteSet(tasks'[sm])
      BY <1>6, <3>1, FS_RemoveElement
    <3>3. IsFiniteSet(tasks'[d])
      <4>1. IsFiniteSet(tasks[d] \cup {t})
        BY <3>1, FS_AddElement
      <4>. QED
        BY <1>6, <4>1
    <3>. QED
      BY <1>4, <1>6, <3>2, <3>3
  <2>2. tasks' \in [Sm -> SUBSET TaskRecord]
    <3>1. \A a \in Sm : tasks'[a] \in SUBSET TaskRecord
      BY <1>4, <1>5, <1>6
    <3>. QED
      BY <1>3, <1>4, <3>1
  <2>. QED
    BY <1>1, <1>4, <1>7, <1>10, <2>1, <2>2 DEF Consistent, TypeOK
<1>14. Progress'
  BY <1>1, <1>4 DEF Consistent, Progress
<1>15. InTile'
  BY <1>3, <1>4, <1>8, <1>11, OfATask DEF Consistent, InTile
<1>16. Apart'
  BY <1>3, <1>8 DEF Consistent, Apart
<1>17. AllThere'
  BY <1>4, <1>9, <1>10, <1>11, <1>12 DEF Consistent, AllThere, Claims, Idle
<1>18. Claimed'
  <2>1. \A u \in Tile : \A a \in Claims(u, "split") : thr'[a] = thr[a]
    BY <1>1, <1>10 DEF Claims
  <2>2. \A a \in Sm : \A s \in tasks'[a] : \E b \in Sm : s \in tasks[b]
    BY <1>3, <1>8
  <2>. QED
    BY <1>1, <1>4, <1>11, <1>12, <2>1, <2>2 DEF Consistent, Claimed
<1>19. Paired'
  BY <1>1, <1>2, <1>4, <1>6, PairedKept DEF Consistent
<1>20. CostExact'
  <2>1. \A a \in Sm : \A s \in tasks[a] : CostOf[s] \in Int
    BY OfATask
  <2>2. Total(CostOf, tasks[sm]) = CostOf[t] + Total(CostOf, tasks'[sm])
    BY <1>4, <1>6, <2>1, TotalRemove
  <2>3. Total(CostOf, tasks'[d]) = Total(CostOf, tasks[d]) + CostOf[t]
    BY <1>4, <1>5, <1>6, <2>1, TotalAdd
  <2>4. /\ Total(CostOf, tasks[sm]) \in Int /\ Total(CostOf, tasks'[sm]) \in Int
        /\ Total(CostOf, tasks[d]) \in Int
    <3>1. IsFiniteSet(tasks'[sm]) /\ \A s \in tasks'[sm] : CostOf[s] \in Int
      BY <1>4, <1>6, <2>1, FS_RemoveElement
    <3>. QED
      BY <1>4, <2>1, <3>1, TotalFirst
  <2>5. \A a \in Sm : cost[a] = SMGlobalOverhead + Total(CostOf, tasks[a])
    BY DEF Consistent, CostExact
  <2>6. cost'[sm] = SMGlobalOverhead + Total(CostOf, tasks'[sm])
    BY <1>5, <1>7, <2>2, <2>4, <2>5 DEF SMGlobalOverhead
  <2>7. cost'[d] = SMGlobalOverhead + Total(CostOf, tasks'[d])
    BY <1>5, <1>7, <2>3, <2>4, <2>5 DEF SMGlobalOverhead
  <2>8. \A a \in Sm : cost'[a] = SMGlobalOverhead + Total(CostOf, tasks'[a])
    BY <1>6, <2>5, <2>6, <2>7
  <2>. QED
    BY <2>8 DEF CostExact
<1>21. Written'
  BY <1>1, WrittenKept DEF Consistent
<1>. QED
  BY <1>13, <1>14, <1>15, <1>16, <1>17, <1>18, <1>19, <1>20, <1>21 DEF Consistent

(* What a thread that splits gives away costs at most half the gap of its  *)
(* pair, after paying for one more piece (find_best_fit_task's target).    *)
LEMMA HalfTheGap ==
    ASSUME NEW gap \in Int, NEW n \in Int, n >= MinItersPerSplit,
           n = IF gap - TileGlobalOverhead < 0 THEN 0
               ELSE (gap - TileGlobalOverhead) \div (2 * PerIterOverhead)
    PROVE  2 * PerIterOverhead * n + TileGlobalOverhead <= gap
<1>. DEFINE spare == gap - TileGlobalOverhead
<1>1. spare \in Nat /\ n = spare \div 86
  BY DEF TileGlobalOverhead, PerIterOverhead, MinItersPerSplit
<1>2. spare = (spare \div 86) * 86 + (spare % 86) /\ spare % 86 \in 0 .. 85
  <2>. HIDE DEF spare
  <2>1. spare \in Nat /\ 86 \in Nat \ {0} /\ 86 - 1 = 85
    BY <1>1
  <2>. QED
    BY <2>1, Euclid
<1>. QED
  BY <1>1, <1>2 DEF TileGlobalOverhead, PerIterOverhead

(* A claim takes a sub id that no task and no other claim has, or none.    *)
LEMMA StepClaimSplit ==
    ASSUME Consistent, NEW sm \in Sm, ClaimSplit(sm), UNCHANGED heads PROVE Consistent'
<1>1. /\ phase = "pair" /\ thr[sm].pc = "decide" /\ MoveIters(sm) >= MinItersPerSplit
      /\ UNCHANGED <<phase, iters, heads, tasks, cost, next, round, nosplit, plan>>
  BY DEF ClaimSplit
<1>2. PICK C \in Candidates(sm) : \E t \in BestFit(C, MoveIters(sm)) :
         /\ Len(t) - Keep(t, sm) >= MinItersPerSplit
         /\ thr' = [thr EXCEPT ![sm] =
                      [pc |-> IF subs[t.uid] < MaxSplits THEN "split" ELSE "undo",
                       to |-> thr[sm].to, task |-> t, id |-> subs[t.uid],
                       keep |-> Keep(t, sm)]]
         /\ subs' = [subs EXCEPT ![t.uid] = @ + 1]
  BY DEF ClaimSplit
<1>3. PICK t \in BestFit(C, MoveIters(sm)) :
         /\ Len(t) - Keep(t, sm) >= MinItersPerSplit
         /\ thr' = [thr EXCEPT ![sm] =
                      [pc |-> IF subs[t.uid] < MaxSplits THEN "split" ELSE "undo",
                       to |-> thr[sm].to, task |-> t, id |-> subs[t.uid],
                       keep |-> Keep(t, sm)]]
         /\ subs' = [subs EXCEPT ![t.uid] = @ + 1]
  BY <1>2
<1>4. t \in tasks[sm]
  <2>1. C \subseteq tasks[sm]
    BY <1>1, <1>2 DEF Candidates, Consistent, Paired
  <2>. QED
    BY <1>3, <2>1 DEF BestFit
<1>5. /\ NumUnsplit' = NumUnsplit /\ Tile' = Tile /\ DOMAIN thr = Sm /\ subs \in [Tile -> Nat]
      /\ MaxSplits \in Nat \ {0}
  BY <1>1, Fixed, Types DEF Consistent, TypeOK
<1>6. PICK u \in Tile : u = t.uid
  BY <1>4, OfATask
<1>7. /\ thr'[sm].task = t /\ thr'[sm].id = subs[u] /\ thr'[sm].to = thr[sm].to
      /\ thr'[sm].pc = (IF subs[u] < MaxSplits THEN "split" ELSE "undo") /\ thr'[sm].keep = Keep(t, sm)
      /\ \A a \in Sm : a # sm => thr'[a] = thr[a]
      /\ DOMAIN thr' = Sm
  BY <1>3, <1>5, <1>6
<1>8. /\ subs'[u] = subs[u] + 1 /\ subs[u] \in Nat /\ \A v \in Tile : v # u => subs'[v] = subs[v]
      /\ subs' \in [Tile -> Nat]
  BY <1>3, <1>5, <1>6
<1>9. \A v \in Tile : /\ Handed(v)' = Handed(v) /\ Numbers(v) = Smaller(subs[v], MaxSplits)
                      /\ Numbers(v)' = Smaller(subs'[v], MaxSplits)
  <2>1. \A v \in Tile : Numbers(v) = Smaller(subs[v], MaxSplits)
    BY <1>1, OfAPair
  <2>. QED
    BY <1>1, <2>1 DEF Handed, Numbers
<1>10. \A v \in Tile : v # u => /\ Claims(v, "split")' = Claims(v, "split")
                                /\ Claims(v, "undo")' = Claims(v, "undo")
                                /\ Numbers(v)' = Numbers(v)
  BY <1>1, <1>6, <1>7, <1>8, <1>9 DEF Claims
<1>11. TypeOK'
  <2>1. \A a \in Sm : thr'[a] = Idle \/ thr'[a].pc \in {"decide", "split", "undo"}
    BY <1>7 DEF Consistent, TypeOK
  <2>. QED
    BY <1>1, <1>5, <1>7, <1>8, <2>1 DEF Consistent, TypeOK
<1>12. Progress'
  BY <1>1, <1>5, <1>8 DEF Consistent, Progress
<1>13. Written'
  BY <1>1, WrittenKept DEF Consistent
<1>14. Apart' /\ CostExact'
  BY <1>1 DEF Consistent, Apart, CostExact
<1>15. Paired'
  <2>1. /\ thr[sm].to \in Sm /\ thr[thr[sm].to].pc = "idle" /\ thr[sm].to # sm
        /\ cost[thr[sm].to] <= cost[sm] /\ PairGap(sm) \in Int
    BY <1>1, OfAPair
  <2>2. PairGap(sm)' = PairGap(sm)
    BY <1>1, <1>7 DEF PairGap
  <2>3. Len(t) \in Nat \ {0}
    BY <1>4, OfATask
  <2>4. MoveIters(sm) \in Int
    <3>. DEFINE spare == PairGap(sm) - TileGlobalOverhead
    <3>1. spare \in Int
      BY <2>1 DEF TileGlobalOverhead
    <3>2. spare >= 0 => spare \div 86 \in Int
      BY <3>1, Euclid
    <3>3. MoveIters(sm) = IF spare < 0 THEN 0 ELSE spare \div 86
      BY DEF MoveIters, PerIterOverhead
    <3>. HIDE DEF spare
    <3>. QED
      BY <3>1, <3>2, <3>3
  <2>5. 2 * PerIterOverhead * MoveIters(sm) + TileGlobalOverhead <= PairGap(sm)
    BY <1>1, <2>1, <2>4, HalfTheGap DEF MoveIters
  <2>6. /\ Keep(t, sm) \in Nat \ {0} /\ Keep(t, sm) < Len(t)
        /\ Len(t) - Keep(t, sm) <= MoveIters(sm)
    BY <1>1, <1>3, <2>3, <2>4 DEF Keep, Larger, MinItersPerSplit
  <2>7. 2 * PerIterOverhead * (Len(t) - Keep(t, sm)) + TileGlobalOverhead <= PairGap(sm)
    BY <2>1, <2>3, <2>4, <2>5, <2>6 DEF PerIterOverhead, TileGlobalOverhead
  <2>8. ASSUME NEW o \in Sm, thr'[o].pc # "idle"
        PROVE  /\ thr[o].pc # "idle" /\ thr'[o].to = thr[o].to /\ thr[o].to \in Sm
               /\ thr[o].to # sm /\ thr'[thr[o].to].pc = "idle" /\ PairGap(o)' = PairGap(o)
    <3>1. thr[o].pc # "idle" /\ thr'[o].to = thr[o].to
      BY <1>1, <1>7, <2>8
    <3>2. thr[o].to \in Sm /\ thr[thr[o].to].pc = "idle"
      BY <3>1 DEF Consistent, Paired
    <3>. QED
      BY <1>1, <1>7, <3>1, <3>2 DEF PairGap
  <2>9. ASSUME NEW o \in Sm, thr'[o].pc # "idle"
        PROVE  /\ cost'[thr'[o].to] <= cost'[o]
               /\ \A a \in Sm : thr'[a].pc # "idle" /\ thr'[a].to = thr'[o].to => a = o
               /\ thr'[o].pc = "decide" => thr'[o].open \subseteq tasks'[o]
    <3>1. thr'[o].pc = "decide" => o # sm
      BY <1>7
    <3>. QED
      BY <1>1, <1>7, <2>8, <2>9, <3>1 DEF Consistent, Paired
  <2>10. ASSUME NEW o \in Sm, thr'[o].pc \in {"split", "undo"}
         PROVE  /\ thr'[o].task \in tasks'[o] /\ thr'[o].keep \in Nat \ {0}
                /\ thr'[o].keep < Len(thr'[o].task)
                /\ 2 * PerIterOverhead * (Len(thr'[o].task) - thr'[o].keep) + TileGlobalOverhead
                      <= PairGap(o)'
    <3>1. CASE o = sm
      BY <1>1, <1>4, <1>7, <2>2, <2>6, <2>7, <3>1
    <3>2. CASE o # sm
      BY <1>1, <1>7, <2>8, <2>10, <3>2 DEF Consistent, Paired
    <3>. QED
      BY <3>1, <3>2
  <2>. QED
    BY <1>1, <2>8, <2>9, <2>10 DEF Paired
<1>16. ASSUME subs[u] < MaxSplits PROVE InTile' /\ AllThere' /\ Claimed'
  <2>1. Numbers(u) = subs[u] /\ Numbers(u)' = subs[u] + 1
    BY <1>5, <1>8, <1>9, <1>16 DEF Smaller
  <2>2. /\ Claims(u, "split")' = Claims(u, "split") \cup {sm}
        /\ Claims(u, "undo")' = Claims(u, "undo") /\ sm \notin Claims(u, "split")
    BY <1>1, <1>6, <1>7, <1>16 DEF Claims
  <2>3. InTile'
    BY <1>1, <1>5, <1>8, <1>9, <1>10, <2>1, OfATask DEF Consistent, InTile
  <2>4. \A v \in Tile : \A a \in Claims(v, "split") : a # sm /\ thr'[a] = thr[a]
    BY <1>1, <1>7 DEF Claims
  <2>5. \A v \in Tile : Claims(v, "split") \subseteq Claims(v, "split")'
    BY <1>10, <2>2
  <2>6. \A v \in Tile : \A k \in 0 .. (Numbers(v)' - 1) :
           \/ k \in 0 .. (Numbers(v) - 1)
           \/ v = u /\ k = subs[u]
    BY <1>8, <1>10, <2>1
  <2>7. AllThere'
    BY <1>1, <1>5, <1>7, <1>9, <2>2, <2>4, <2>5, <2>6 DEF Consistent, AllThere
  <2>8. \A v \in Tile : subs'[v] = Smaller(subs'[v], MaxSplits) + Cardinality(Claims(v, "undo")')
    <3>1. \A v \in Tile : subs[v] = Smaller(subs[v], MaxSplits) + Cardinality(Claims(v, "undo"))
      BY DEF Consistent, Claimed
    <3>2. Cardinality(Claims(u, "undo")) \in Nat
      BY SmCount, FS_Subset, FS_CardinalityType DEF Claims
    <3>3. subs'[u] = Smaller(subs'[u], MaxSplits) + Cardinality(Claims(u, "undo")')
      BY <1>5, <1>8, <1>16, <2>2, <3>1, <3>2 DEF Smaller
    <3>. QED
      BY <1>8, <1>10, <3>1, <3>3
  <2>9. ASSUME NEW v \in Tile, NEW a \in Claims(v, "split")'
        PROVE  /\ thr'[a].id \in 0 .. (Numbers(v)' - 1)
               /\ \A b \in Sm : \A s \in tasks'[b] : s.uid = v => s.sub # thr'[a].id
               /\ \A o \in Claims(v, "split")' : thr'[o].id = thr'[a].id => o = a
    <3>1. ASSUME NEW b \in Claims(v, "split")
          PROVE  /\ thr'[b] = thr[b] /\ thr[b].id \in 0 .. (Numbers(v) - 1) /\ b # sm
                 /\ \A c \in Sm : \A s \in tasks[c] : s.uid = v => s.sub # thr[b].id
                 /\ \A o \in Claims(v, "split") : thr[o].id = thr[b].id => o = b
      BY <2>4 DEF Consistent, Claimed
    <3>2. CASE v # u
      BY <1>1, <1>10, <3>1, <3>2
    <3>3. CASE v = u
      <4>1. \A b \in Claims(u, "split") : thr[b].id \in 0 .. (subs[u] - 1) /\ thr'[b].id = thr[b].id
        BY <2>1, <3>1, <3>3
      <4>2. \A c \in Sm : \A s \in tasks[c] : s.uid = u => s.sub < subs[u] /\ s.sub \in Nat
        BY <2>1, OfATask DEF Consistent, InTile
      <4>3. CASE a = sm
        BY <1>1, <1>7, <1>8, <2>1, <2>2, <3>3, <4>1, <4>2, <4>3
      <4>4. CASE a # sm
        <5>1. a \in Claims(u, "split")
          BY <2>2, <3>3, <4>4
        <5>2. \A o \in Claims(u, "split")' : thr'[o].id = thr'[a].id => o = a
          BY <1>7, <1>8, <2>2, <3>1, <3>3, <4>1, <5>1
        <5>. QED
          BY <1>1, <1>8, <2>1, <3>1, <3>3, <4>1, <5>1, <5>2
      <4>. QED
        BY <4>3, <4>4
    <3>. QED
      BY <3>2, <3>3
  <2>10. Claimed'
    BY <1>5, <2>8, <2>9 DEF Claimed
  <2>. QED
    BY <2>3, <2>7, <2>10
<1>17. ASSUME ~ (subs[u] < MaxSplits) PROVE InTile' /\ AllThere' /\ Claimed'
  <2>1. Numbers(u) = MaxSplits /\ Numbers(u)' = MaxSplits
    BY <1>5, <1>8, <1>9, <1>17 DEF Smaller
  <2>2. /\ Claims(u, "split")' = Claims(u, "split")
        /\ Claims(u, "undo")' = Claims(u, "undo") \cup {sm} /\ sm \notin Claims(u, "undo")
    BY <1>1, <1>6, <1>7, <1>17 DEF Claims
  <2>3. \A v \in Tile : Numbers(v)' = Numbers(v) /\ Claims(v, "split")' = Claims(v, "split")
    BY <1>10, <2>1, <2>2
  <2>4. InTile'
    BY <1>1, <1>5, <1>9, <2>3, OfATask DEF Consistent, InTile
  <2>5. \A v \in Tile : \A a \in Claims(v, "split") : a # sm /\ thr'[a] = thr[a]
    BY <1>1, <1>7 DEF Claims
  <2>6. AllThere'
    BY <1>1, <1>5, <1>9, <2>3, <2>5 DEF Consistent, AllThere
  <2>7. \A v \in Tile : subs'[v] = Smaller(subs'[v], MaxSplits) + Cardinality(Claims(v, "undo")')
    <3>1. \A v \in Tile : subs[v] = Smaller(subs[v], MaxSplits) + Cardinality(Claims(v, "undo"))
      BY DEF Consistent, Claimed
    <3>2. /\ Cardinality(Claims(u, "undo")) \in Nat
          /\ Cardinality(Claims(u, "undo")') = Cardinality(Claims(u, "undo")) + 1
      <4>1. IsFiniteSet(Claims(u, "undo"))
        BY SmCount, FS_Subset DEF Claims
      <4>. QED
        BY <2>2, <4>1, FS_CardinalityType, FS_AddElement
    <3>3. subs'[u] = Smaller(subs'[u], MaxSplits) + Cardinality(Claims(u, "undo")')
      BY <1>5, <1>8, <1>17, <3>1, <3>2 DEF Smaller
    <3>. QED
      BY <1>8, <1>10, <3>1, <3>3
  <2>8. Claimed'
    BY <1>1, <1>5, <2>3, <2>5, <2>7 DEF Consistent, Claimed
  <2>. QED
    BY <2>4, <2>6, <2>8
<1>. QED
  BY <1>11, <1>12, <1>13, <1>14, <1>15, <1>16, <1>17 DEF Consistent

(* The cost of a task.                                                     *)
LEMMA TaskCost ==
    ASSUME NEW t \in TaskRecord
    PROVE  /\ t.uid \in Nat /\ t.begin \in Nat /\ t.end \in Nat /\ t.sub \in Nat
           /\ CostOf[t] = PerIterOverhead * (t.end - t.begin) + TileGlobalOverhead
           /\ CostOf[t] \in Int
<1>1. t.uid \in Nat /\ t.begin \in Nat /\ t.end \in Nat /\ t.sub \in Nat
  BY DEF TaskRecord
<1>. QED
  BY <1>1 DEF CostOf, PieceCost, Len, PerIterOverhead, TileGlobalOverhead

(* The two parts of a task that is split are what the task was.            *)
LEMMA StepSplitTask ==
    ASSUME Consistent, NEW sm \in Sm, SplitTask(sm), UNCHANGED heads PROVE Consistent'
<1>1. /\ phase = "pair" /\ thr[sm].pc = "split" /\ thr' = [thr EXCEPT ![sm] = Idle]
      /\ UNCHANGED <<phase, iters, heads, subs, next, round, nosplit, plan>>
  BY DEF SplitTask
<1>2. PICK d \in Sm : d = thr[sm].to /\ d # sm
  BY <1>1, OfAPair
<1>3. PICK t \in tasks[sm] : t = thr[sm].task
  BY <1>1 DEF Consistent, Paired
<1>4. PICK keep \in Nat \ {0} : keep = thr[sm].keep /\ keep < Len(t)
  BY <1>1, <1>3 DEF Consistent, Paired
<1>5. /\ t \in TaskRecord /\ t.uid \in Tile /\ t.begin \in Nat /\ t.end \in Nat /\ t.sub \in Nat
      /\ CostOf[t] = PieceCost(Len(t)) /\ CostOf[t] \in Int /\ \A a \in Sm : t \in tasks[a] => a = sm
  BY OfATask
<1>6. PICK u \in Tile : u = t.uid
  BY <1>5
<1>7. /\ sm \in Claims(u, "split") /\ thr[sm].id \in 0 .. (Numbers(u) - 1)
      /\ \A a \in Sm : \A s \in tasks[a] : s.uid = u => s.sub # thr[sm].id
      /\ \A o \in Claims(u, "split") : thr[o].id = thr[sm].id => o = sm
  <2>1. sm \in Claims(u, "split")
    BY <1>1, <1>3, <1>6 DEF Claims
  <2>. QED
    BY <2>1 DEF Consistent, Claimed
<1>8. PICK id \in Nat : id = thr[sm].id /\ id \in 0 .. (Numbers(u) - 1)
  BY <1>7
<1>9. PICK cut \in Nat : cut = t.begin + keep /\ t.begin < cut /\ cut < t.end
  BY <1>4, <1>5 DEF Len
<1>10. PICK t1 \in TaskRecord : /\ t1 = [t EXCEPT !.end = cut]
                               /\ t1.uid = u /\ t1.begin = t.begin /\ t1.end = cut /\ t1.sub = t.sub
  <2>1. t.uid \in Nat /\ [t EXCEPT !.end = cut] = Task(t.uid, t.begin, cut, t.sub)
    BY <1>5, TaskCost DEF TaskRecord, Task
  <2>2. /\ Task(t.uid, t.begin, cut, t.sub) \in TaskRecord
        /\ Task(t.uid, t.begin, cut, t.sub).uid = t.uid
        /\ Task(t.uid, t.begin, cut, t.sub).begin = t.begin
        /\ Task(t.uid, t.begin, cut, t.sub).end = cut /\ Task(t.uid, t.begin, cut, t.sub).sub = t.sub
    BY <1>5, <2>1 DEF Task, TaskRecord
  <2>. QED
    BY <1>6, <2>1, <2>2
<1>11. PICK t2 \in TaskRecord : /\ t2 = Task(t.uid, cut, t.end, id)
                               /\ t2.uid = u /\ t2.begin = cut /\ t2.end = t.end /\ t2.sub = id
  <2>1. t.uid \in Nat
    BY <1>5, TaskCost
  <2>2. /\ Task(t.uid, cut, t.end, id) \in TaskRecord
        /\ Task(t.uid, cut, t.end, id).uid = t.uid
        /\ Task(t.uid, cut, t.end, id).begin = cut
        /\ Task(t.uid, cut, t.end, id).end = t.end /\ Task(t.uid, cut, t.end, id).sub = id
    BY <1>5, <2>1 DEF Task, TaskRecord
  <2>. QED
    BY <1>6, <2>2
<1>12. PICK moved \in Nat : moved = PerIterOverhead * (t.end - cut)
  BY <1>5, <1>9 DEF PerIterOverhead
<1>13. /\ tasks' = [tasks EXCEPT ![sm] = (@ \ {t}) \cup {t1}, ![thr[sm].to] = @ \cup {t2}]
       /\ cost' = [cost EXCEPT ![sm] = @ - moved, ![thr[sm].to] = @ + moved + TileGlobalOverhead]
  BY <1>3, <1>4, <1>8, <1>9, <1>10, <1>11, <1>12 DEF SplitTask
<1>14. /\ NumUnsplit' = NumUnsplit /\ Tile' = Tile /\ DOMAIN thr = Sm
       /\ tasks \in [Sm -> SUBSET TaskRecord] /\ cost \in [Sm -> Int]
       /\ \A a \in Sm : IsFiniteSet(tasks[a])
  BY <1>1, Fixed DEF Consistent, TypeOK
<1>15. /\ tasks'[sm] = (tasks[sm] \ {t}) \cup {t1} /\ tasks'[d] = tasks[d] \cup {t2}
       /\ \A a \in Sm : a # sm /\ a # d => tasks'[a] = tasks[a] /\ cost'[a] = cost[a]
       /\ cost'[sm] = cost[sm] - moved /\ cost'[d] = cost[d] + moved + TileGlobalOverhead
       /\ cost' \in [Sm -> Int] /\ DOMAIN tasks' = Sm
  BY <1>2, <1>13, <1>14 DEF TileGlobalOverhead
<1>16. t1 \notin tasks[sm] \ {t} /\ t2 \notin tasks[d]
  <2>1. \A s \in tasks[sm] : s.uid = t.uid => s = t \/ s.sub # t.sub
    BY DEF Consistent, Apart
  <2>. QED
    BY <1>2, <1>6, <1>7, <1>8, <1>10, <1>11, <2>1
<1>17. \A a \in Sm : \A s \in tasks'[a] :
          \/ s = t1 /\ a = sm
          \/ s = t2 /\ a = d
          \/ s # t /\ s \in tasks[a]
  <2>1. t \notin tasks[d]
    BY <1>2, <1>5
  <2>. QED
    BY <1>2, <1>5, <1>15, <2>1
<1>18. /\ \A a \in Sm : \A s \in tasks[a] : s = t \/ (\E b \in Sm : s \in tasks'[b])
       /\ t1 \in tasks'[sm] /\ t2 \in tasks'[d]
  BY <1>2, <1>15
<1>19. \A a \in Sm : \/ a # sm /\ thr'[a] = thr[a]
                     \/ a = sm /\ thr'[a] = Idle /\ thr'[a].pc = "idle"
  BY <1>1, <1>14 DEF Idle
<1>20. \A v \in Tile : /\ Handed(v)' = Handed(v) /\ Numbers(v)' = Numbers(v)
                       /\ Claims(v, "undo")' = Claims(v, "undo")
                       /\ Claims(v, "split")' = Claims(v, "split") \ {sm}
                       /\ v # u => Claims(v, "split")' = Claims(v, "split")
  BY <1>1, <1>3, <1>6, <1>19 DEF Handed, Numbers, Claims
<1>21. TypeOK'
  <2>1. \A a \in Sm : IsFiniteSet(tasks'[a])
    <3>1. IsFiniteSet(tasks[sm] \ {t})
      BY <1>14, FS_RemoveElement
    <3>2. IsFiniteSet((tasks[sm] \ {t}) \cup {t1}) /\ IsFiniteSet(tasks[d] \cup {t2})
      <4>1. IsFiniteSet(tasks[d])
        BY <1>14
      <4>. QED
        BY <3>1, <4>1, FS_AddElement
    <3>. QED
      BY <1>14, <1>15, <3>2
  <2>2. tasks' \in [Sm -> SUBSET TaskRecord]
    <3>1. \A a \in Sm : tasks'[a] \in SUBSET TaskRecord
      BY <1>14, <1>15
    <3>. QED
      BY <1>13, <1>14, <3>1
  <2>. QED
    BY <1>1, <1>14, <1>15, <1>19, <2>1, <2>2 DEF Consistent, TypeOK
<1>22. Progress'
  BY <1>1, <1>14 DEF Consistent, Progress
<1>23. InTile'
  <2>1. t.end <= Handed(u) /\ t.sub < Numbers(u) /\ Handed(u) \in Nat /\ Numbers(u) \in Nat
    <3>1. Handed(u) \in Nat /\ Numbers(u) \in Nat
      <4>1. /\ Handed(u) = iters[u] /\ Numbers(u) = Smaller(subs[u], MaxSplits)
            /\ iters[u] \in Nat /\ subs[u] \in Nat /\ MaxSplits \in Nat
        BY <1>1, OfAPair, Types DEF Consistent
      <4>. QED
        BY <4>1 DEF Smaller
    <3>. QED
      BY <1>6, <3>1 DEF Consistent, InTile
  <2>2. /\ t1.uid \in Tile /\ t1.begin < t1.end /\ t1.end <= Handed(u) /\ t1.sub < Numbers(u)
        /\ t2.uid \in Tile /\ t2.begin < t2.end /\ t2.end <= Handed(u) /\ t2.sub < Numbers(u)
    BY <1>5, <1>8, <1>9, <1>10, <1>11, <2>1
  <2>3. ASSUME NEW a \in Sm, NEW s \in tasks'[a]
        PROVE s.uid \in Tile /\ s.begin < s.end /\ s.end <= Handed(s.uid) /\ s.sub < Numbers(s.uid)
    BY <1>10, <1>11, <1>17, <2>2 DEF Consistent, InTile
  <2>. QED
    BY <1>14, <1>20, <2>3 DEF InTile
<1>24. Apart'
  <2>1. ASSUME NEW a \in Sm, NEW s \in tasks[a], s.uid = u, s # t
        PROVE  /\ s.sub # t.sub /\ s.sub # id
               /\ s.end <= t.begin \/ t.end <= s.begin
    BY <1>3, <1>5, <1>6, <1>7, <1>8, <2>1 DEF Consistent, Apart
  <2>2. id # t.sub
    BY <1>3, <1>6, <1>7, <1>8
  <2>3. ASSUME NEW a \in Sm, NEW s \in tasks[a], s.uid = u, s # t
        PROVE  /\ s.sub # t1.sub /\ (s.end <= t1.begin \/ t1.end <= s.begin)
               /\ s.sub # t2.sub /\ (s.end <= t2.begin \/ t2.end <= s.begin)
    <3>1. s.begin \in Nat /\ s.end \in Nat
      BY OfATask
    <3>. QED
      BY <1>5, <1>9, <1>10, <1>11, <2>1, <2>3, <3>1
  <2>4. t1.sub # t2.sub /\ t1.end <= t2.begin
    BY <1>9, <1>10, <1>11, <2>2
  <2>5. ASSUME NEW a \in Sm, NEW b \in Sm, NEW r \in tasks'[a], NEW s \in tasks'[b], r.uid = s.uid
        PROVE  \/ a = b /\ r = s
               \/ r.sub # s.sub /\ (r.end <= s.begin \/ s.end <= r.begin)
    <3>1. CASE r \in tasks[a] /\ r # t /\ s \in tasks[b] /\ s # t
      BY <2>5, <3>1 DEF Consistent, Apart
    <3>2. CASE r \in tasks[a] /\ r # t /\ s \in {t1, t2}
      BY <1>10, <1>11, <2>3, <2>5, <3>2, ZenonT(30)
    <3>3. CASE s \in tasks[b] /\ s # t /\ r \in {t1, t2}
      <4>1. s.uid = u
        BY <1>10, <1>11, <2>5, <3>3
      <4>2. /\ s.sub # t1.sub /\ (s.end <= t1.begin \/ t1.end <= s.begin)
            /\ s.sub # t2.sub /\ (s.end <= t2.begin \/ t2.end <= s.begin)
        BY <2>3, <3>3, <4>1
      <4>. QED
        BY <3>3, <4>2
    <3>4. CASE ((r = t1 /\ a = sm) \/ (r = t2 /\ a = d)) /\ ((s = t1 /\ b = sm) \/ (s = t2 /\ b = d))
      BY <2>4, <3>4
    <3>. QED
      BY <1>17, <3>1, <3>2, <3>3, <3>4
  <2>. QED
    BY <2>5 DEF Apart
<1>25. AllThere'
  <2>1. ASSUME NEW v \in Tile, NEW i \in 0 .. (Handed(v) - 1)
        PROVE  \E a \in Sm : \E s \in tasks'[a] : s.uid = v /\ s.begin <= i /\ i < s.end
    <3>1. PICK a \in Sm : \E s \in tasks[a] : s.uid = v /\ s.begin <= i /\ i < s.end
      BY DEF Consistent, AllThere
    <3>2. PICK s \in tasks[a] : s.uid = v /\ s.begin <= i /\ i < s.end
      BY <3>1
    <3>3. CASE s # t
      BY <1>18, <3>2, <3>3
    <3>4. CASE s = t
      <4>1. i \in Int /\ v = u
        BY <1>6, <3>2, <3>4
      <4>2. (t1.begin <= i /\ i < t1.end) \/ (t2.begin <= i /\ i < t2.end)
        BY <1>5, <1>10, <1>11, <3>2, <3>4, <4>1
      <4>. QED
        BY <1>2, <1>10, <1>11, <1>18, <4>1, <4>2
    <3>. QED
      BY <3>3, <3>4
  <2>2. ASSUME NEW v \in Tile, NEW k \in 0 .. (Numbers(v) - 1)
        PROVE  \/ \E a \in Sm : \E s \in tasks'[a] : s.uid = v /\ s.sub = k
               \/ \E a \in Claims(v, "split")' : thr'[a].id = k
    <3>1. CASE \E a \in Sm : \E s \in tasks[a] : s.uid = v /\ s.sub = k
      <4>1. PICK a \in Sm : \E s \in tasks[a] : s.uid = v /\ s.sub = k
        BY <3>1
      <4>2. PICK s \in tasks[a] : s.uid = v /\ s.sub = k
        BY <4>1
      <4>. QED
        BY <1>6, <1>10, <1>18, <4>2
    <3>2. CASE \E a \in Claims(v, "split") : thr[a].id = k
      <4>1. PICK a \in Claims(v, "split") : thr[a].id = k
        BY <3>2
      <4>2. CASE a = sm
        BY <1>2, <1>3, <1>6, <1>8, <1>11, <1>18, <4>1, <4>2 DEF Claims
      <4>3. CASE a # sm
        <5>1. a \in Claims(v, "split")' /\ thr'[a] = thr[a]
          BY <1>19, <1>20, <4>1, <4>3 DEF Claims
        <5>. QED
          BY <4>1, <5>1
      <4>. QED
        BY <4>2, <4>3
    <3>. QED
      BY <3>1, <3>2 DEF Consistent, AllThere
  <2>. QED
    BY <1>14, <1>20, <2>1, <2>2 DEF AllThere
<1>26. Claimed'
  <2>1. ASSUME NEW v \in Tile, NEW a \in Claims(v, "split")'
        PROVE  /\ thr'[a].id \in 0 .. (Numbers(v)' - 1)
               /\ \A b \in Sm : \A s \in tasks'[b] : s.uid = v => s.sub # thr'[a].id
               /\ \A o \in Claims(v, "split")' : thr'[o].id = thr'[a].id => o = a
    <3>1. a \in Claims(v, "split") /\ a # sm /\ thr'[a] = thr[a]
      BY <1>19, <1>20 DEF Claims
    <3>2. \A o \in Claims(v, "split")' : o \in Claims(v, "split") /\ thr'[o] = thr[o]
      BY <1>19, <1>20 DEF Claims
    <3>3. /\ thr[a].id \in 0 .. (Numbers(v) - 1)
          /\ \A b \in Sm : \A s \in tasks[b] : s.uid = v => s.sub # thr[a].id
          /\ \A o \in Claims(v, "split") : thr[o].id = thr[a].id => o = a
      BY <3>1 DEF Consistent, Claimed
    <3>4. v = u => thr[a].id # id
      BY <1>7, <1>8, <3>1
    <3>5. ASSUME NEW b \in Sm, NEW s \in tasks'[b], s.uid = v PROVE s.sub # thr[a].id
      <4>1. CASE s = t1
        BY <1>3, <1>6, <1>10, <3>3, <3>5, <4>1
      <4>2. CASE s = t2
        BY <1>11, <3>4, <3>5, <4>2
      <4>3. CASE s \in tasks[b]
        BY <3>3, <3>5, <4>3
      <4>. QED
        BY <1>17, <4>1, <4>2, <4>3
    <3>. QED
      BY <1>20, <3>1, <3>2, <3>3, <3>5
  <2>2. \A v \in Tile : subs'[v] = Smaller(subs'[v], MaxSplits) + Cardinality(Claims(v, "undo")')
    BY <1>1, <1>20 DEF Consistent, Claimed
  <2>. QED
    BY <1>14, <2>1, <2>2 DEF Claimed
<1>27. Paired'
  BY <1>1, <1>2, <1>14, <1>15, PairedKept DEF Consistent
<1>28. CostExact'
  <2>1. \A a \in Sm : \A s \in tasks[a] : CostOf[s] \in Int
    BY OfATask
  <2>2. CostOf[t1] = PerIterOverhead * (cut - t.begin) + TileGlobalOverhead /\ CostOf[t1] \in Int
    BY <1>10, TaskCost
  <2>3. CostOf[t2] = moved + TileGlobalOverhead /\ CostOf[t2] \in Int
    BY <1>11, <1>12, TaskCost
  <2>4. CostOf[t] = CostOf[t1] + moved
    <3>1. CostOf[t] = PerIterOverhead * (t.end - t.begin) + TileGlobalOverhead
      BY <1>5, TaskCost
    <3>. QED
      BY <1>5, <1>9, <1>12, <2>2, <3>1 DEF PerIterOverhead, TileGlobalOverhead
  <2>5. IsFiniteSet(tasks[sm] \ {t}) /\ \A s \in tasks[sm] \ {t} : CostOf[s] \in Int
    BY <1>14, <2>1, FS_RemoveElement
  <2>6. Total(CostOf, tasks[sm]) = CostOf[t] + Total(CostOf, tasks[sm] \ {t})
    BY <1>14, <2>1, TotalRemove
  <2>7. Total(CostOf, tasks'[sm]) = Total(CostOf, tasks[sm] \ {t}) + CostOf[t1]
    BY <1>15, <1>16, <2>2, <2>5, TotalAdd
  <2>8. Total(CostOf, tasks'[d]) = Total(CostOf, tasks[d]) + CostOf[t2]
    BY <1>14, <1>15, <1>16, <2>1, <2>3, TotalAdd
  <2>9. /\ Total(CostOf, tasks[sm]) \in Int /\ Total(CostOf, tasks[sm] \ {t}) \in Int
        /\ Total(CostOf, tasks[d]) \in Int
    BY <1>14, <2>1, <2>5, TotalFirst
  <2>10. \A a \in Sm : cost[a] = SMGlobalOverhead + Total(CostOf, tasks[a])
    BY DEF Consistent, CostExact
  <2>11. cost'[sm] = SMGlobalOverhead + Total(CostOf, tasks'[sm])
    BY <1>15, <2>2, <2>4, <2>6, <2>7, <2>9, <2>10 DEF SMGlobalOverhead
  <2>12. cost'[d] = SMGlobalOverhead + Total(CostOf, tasks'[d])
    BY <1>15, <2>3, <2>8, <2>9, <2>10 DEF SMGlobalOverhead, TileGlobalOverhead
  <2>13. \A a \in Sm : cost'[a] = SMGlobalOverhead + Total(CostOf, tasks'[a])
    BY <1>15, <2>10, <2>11, <2>12
  <2>. QED
    BY <2>13 DEF CostExact
<1>29. Written'
  BY <1>1, WrittenKept DEF Consistent
<1>. QED
  BY <1>21, <1>22, <1>23, <1>24, <1>25, <1>26, <1>27, <1>28, <1>29 DEF Consistent

-----------------------------------------------------------------------------
(* No thread claims anything outside the rounds, and no counter is beyond  *)
(* the splits a tile may have.                                             *)
LEMMA NoClaims ==
    ASSUME Consistent, phase # "pair"
    PROVE  /\ \A sm \in Sm : thr[sm].pc = "idle"
           /\ \A u \in Tile : /\ Claims(u, "split") = {} /\ Claims(u, "undo") = {}
                              /\ subs[u] \in Nat /\ subs[u] <= MaxSplits
           /\ Cardinality({}) = 0
<1>1. \A sm \in Sm : thr[sm].pc = "idle"
  BY DEF Consistent, Paired
<1>2. \A u : Claims(u, "split") = {} /\ Claims(u, "undo") = {}
  BY <1>1 DEF Claims
<1>3. Cardinality({}) = 0
  BY FS_EmptySet
<1>4. ASSUME NEW u \in Tile PROVE subs[u] \in Nat /\ subs[u] <= MaxSplits
  <2>1. subs[u] \in Nat /\ MaxSplits \in Nat \ {0} /\ subs[u] = Smaller(subs[u], MaxSplits) + 0
    BY <1>2, <1>3, Types DEF Consistent, Claimed
  <2>. QED
    BY <2>1 DEF Smaller
<1>. QED
  BY <1>1, <1>2, <1>3, <1>4

(* What is written is greedy's plan, or that of the tasks.                 *)
LEMMA StepWrite == ASSUME Consistent, Write, UNCHANGED heads PROVE Consistent'
<1>1. /\ phase = "write" /\ phase' = "done"
      /\ UNCHANGED <<iters, heads, tasks, cost, subs, next, round, thr, nosplit>>
  BY DEF Write
<1>2. NumUnsplit' = NumUnsplit /\ Tile' = Tile /\ Row' = Row
  BY <1>1, Fixed
<1>3. TypeOK' /\ Progress'
  <2>1. DOMAIN plan' = {"split", "work", "rows"}
    BY DEF Write, Consistent, TypeOK
  <2>. QED
    BY <1>1, <1>2, <2>1 DEF Consistent, TypeOK, Progress
<1>4. \A u \in Tile : Handed(u)' = Handed(u) /\ Numbers(u)' = Numbers(u)
  BY <1>1 DEF Handed, Numbers
<1>5. (InTile /\ Apart /\ AllThere /\ CostExact)' /\ Claimed'
  BY <1>1, <1>4, ContentsKept, ClaimsKept DEF Consistent
<1>6. Paired'
  BY <1>1 DEF Consistent, Paired
<1>7. Written'
  <2>1. CASE SplitPays
    <3>1. plan' = [split |-> TRUE, work |-> tasks, rows |-> [r \in Row |-> SplitsOfRow(r)]]
      BY <2>1 DEF Write
    <3>2. \A r \in Row : SplitsOfRow(r)' = SplitsOfRow(r)
      BY <1>1, <1>2 DEF SplitsOfRow
    <3>. QED
      BY <1>1, <1>2, <3>1, <3>2 DEF Written
  <2>2. CASE ~ SplitPays
    <3>1. UNCHANGED plan
      BY <2>2 DEF Write
    <3>. QED
      BY <1>1, <3>1, WrittenKept DEF Consistent
  <2>. QED
    BY <2>1, <2>2
<1>. QED
  BY <1>3, <1>5, <1>6, <1>7 DEF Consistent

(* The budget of an SM is an integer.                                      *)
LEMMA BudgetType == ASSUME TypeOK PROVE TargetBudget \in Int
<1>1. IsFiniteSet(Tile) /\ \A u \in Tile : iters[u] \in Int
  <2>1. NumUnsplit \in Nat /\ \A u \in Tile : iters[u] \in Int
    BY Types
  <2>. QED
    BY <2>1, FS_Interval DEF Tile
<1>2. Total(iters, Tile) \in Int
  BY <1>1, TotalFirst
<1>3. PICK b \in Nat \ {0} : b = NumBuckets
  BY SmCount
<1>4. PICK c \in Int : c = CeilDiv(Total(iters, Tile), NumBuckets)
  BY <1>2, <1>3 DEF CeilDiv
<1>. QED
  BY <1>4 DEF TargetBudget, TileGlobalOverhead, PerIterOverhead

(* Greedy has placed every tile: its plan is written out, and the fill     *)
(* starts again from nothing.                                              *)
LEMMA StepGreedyEnd == ASSUME Consistent, GreedyEnd, UNCHANGED heads PROVE Consistent'
<1>1. /\ phase = "greedy" /\ next.u = NumUnsplit /\ plan' = [plan EXCEPT !.work = tasks]
      /\ UNCHANGED <<iters, heads, subs, round, thr>>
      /\ \/ /\ phase' \in {"write", "round"} /\ UNCHANGED <<tasks, cost, next>>
         \/ /\ phase' = "fill" /\ tasks' = NoTasks /\ cost' = FreshCost
            /\ next' = [Start EXCEPT !.budget = TargetBudget]
  BY DEF GreedyEnd, FillReset
<1>2. NumUnsplit' = NumUnsplit /\ Tile' = Tile /\ Row' = Row
  BY <1>1, Fixed
<1>3. \A sm \in Sm : thr[sm].pc = "idle"
  BY <1>1, NoClaims
<1>4. \A u \in Tile : /\ u < next.u /\ subs[u] \in 1 .. MaxSplits
                      /\ Claims(u, "split") = {} /\ Claims(u, "undo") = {}
                      /\ Claims(u, "split")' = {} /\ Claims(u, "undo")' = {}
  <2>1. \A u : Claims(u, "split")' = Claims(u, "split") /\ Claims(u, "undo")' = Claims(u, "undo")
    BY <1>1 DEF Claims
  <2>. QED
    BY <1>1, <2>1, NoClaims, Types DEF Consistent, Progress
<1>5. Paired'
  BY <1>1, <1>3 DEF Paired
<1>6. Written'
  <2>1. ~ plan.split /\ plan.rows = [r \in Row |-> 1] /\ WholeTiles(tasks, NumUnsplit)
    BY <1>1 DEF Consistent, Written
  <2>2. DOMAIN plan = {"split", "work", "rows"}
    BY DEF Consistent, TypeOK
  <2>3. plan'.work = tasks /\ ~ plan'.split /\ plan'.rows = [r \in Row |-> 1]
    BY <1>1, <2>1, <2>2
  <2>4. WholeTiles(plan.work, NumUnsplit)'
    BY <1>1, <1>2, <2>1, <2>3 DEF WholeTiles
  <2>. QED
    BY <1>1, <1>2, <2>3, <2>4 DEF Written
<1>7. CASE phase' \in {"write", "round"} /\ UNCHANGED <<tasks, cost, next>>
  <2>1. phase' \in {"greedy", "fill", "round", "pair", "write", "done"}
    BY <1>7
  <2>2. TypeOK'
    BY <1>1, <1>2, <1>7, <2>1 DEF Consistent, TypeOK
  <2>3. Progress'
    BY <1>1, <1>2, <1>4, <1>7 DEF Progress
  <2>4. \A u \in Tile : Handed(u)' = Handed(u) /\ Numbers(u)' = Numbers(u)
    BY <1>1, <1>4, <1>7, Types DEF Consistent, Handed, Numbers, Smaller
  <2>5. (InTile /\ Apart /\ AllThere /\ CostExact)' /\ Claimed'
    BY <1>1, <1>7, <2>4, ContentsKept, ClaimsKept DEF Consistent
  <2>. QED
    BY <1>5, <1>6, <2>2, <2>3, <2>5 DEF Consistent
<1>8. CASE /\ phase' = "fill" /\ tasks' = NoTasks /\ cost' = FreshCost
           /\ next' = [Start EXCEPT !.budget = TargetBudget]
  <2>1. /\ next' = [u |-> 0, pos |-> 0, sub |-> 0, sm |-> 0, budget |-> TargetBudget]
        /\ next'.u = 0 /\ next'.pos = 0 /\ next'.sub = 0
    BY <1>8 DEF Start
  <2>2. TypeOK'
    <3>1. next' \in [u : 0 .. NumUnsplit, pos : Nat, sub : Nat, sm : Nat, budget : Int]
      BY <2>1, BudgetType, Types DEF Consistent
    <3>2. tasks' \in [Sm -> SUBSET TaskRecord] /\ \A sm \in Sm : IsFiniteSet(tasks'[sm])
      BY <1>8, FS_EmptySet DEF NoTasks
    <3>3. cost' \in [Sm -> Int]
      BY <1>8 DEF FreshCost, SMGlobalOverhead
    <3>4. DOMAIN plan' = {"split", "work", "rows"}
      BY <1>1 DEF Consistent, TypeOK
    <3>. QED
      BY <1>1, <1>2, <1>8, <3>1, <3>2, <3>3, <3>4 DEF Consistent, TypeOK
  <2>3. Progress'
    BY <1>1, <1>2, <1>8, <2>1, Types DEF Consistent, Progress
  <2>4. \A u \in Tile : Handed(u)' = 0 /\ Numbers(u)' = 0
    BY <1>8, <2>1, Types DEF Consistent, Handed, Numbers
  <2>5. \A sm \in Sm : tasks'[sm] = {} /\ cost'[sm] = SMGlobalOverhead
    BY <1>8 DEF NoTasks, FreshCost
  <2>6. InTile' /\ Apart' /\ AllThere'
    BY <1>2, <2>4, <2>5 DEF InTile, Apart, AllThere
  <2>7. Claimed'
    BY <1>1, <1>2, <1>4 DEF Consistent, Claimed
  <2>8. CostExact'
    BY <2>5, NoCost DEF CostExact, SMGlobalOverhead
  <2>. QED
    BY <1>5, <1>6, <2>2, <2>3, <2>6, <2>7, <2>8 DEF Consistent
<1>. QED
  BY <1>1, <1>7, <1>8

(* Some SM has the fewest tasks.                                           *)
LEMMA SomeFewest ==
    ASSUME Consistent
    PROVE  {sm \in Sm : \A o \in Sm : Cardinality(tasks[sm]) <= Cardinality(tasks[o])} # {}
<1>. DEFINE T == {Cardinality(tasks[sm]) : sm \in Sm}
<1>1. \A sm \in Sm : Cardinality(tasks[sm]) \in Nat
  BY FS_CardinalityType, Types DEF Consistent
<1>2. T \in SUBSET Nat /\ T # {}
  BY <1>1, SmCount DEF Sm
<1>3. \E m \in T : \A y \in T : m <= y
  <2>. HIDE DEF T
  <2>. QED
    BY <1>2, LeastNat
<1>4. PICK sm \in Sm : \A y \in T : Cardinality(tasks[sm]) <= y
  BY <1>3
<1>5. sm \in {a \in Sm : \A o \in Sm : Cardinality(tasks[a]) <= Cardinality(tasks[o])}
  BY <1>4
<1>. QED
  BY <1>5

(* The SM and the budget of the fill's next piece.                         *)
LEMMA PlaceRight == ASSUME Consistent PROVE Place.sm \in Sm /\ Place.budget \in Int
<1>. DEFINE open   == {sm \in Sm : sm >= next.sm /\ ~Full(sm)}
            fewest == {sm \in Sm : \A o \in Sm : Cardinality(tasks[sm]) <= Cardinality(tasks[o])}
<1>1. /\ Place.sm = (IF open = {} THEN Smallest(fewest) ELSE Smallest(open))
      /\ Place.budget \in {Unlimited, next.budget, TargetBudget}
  BY DEF Place
<1>2. Place.budget \in Int
  BY <1>1, BudgetType, Types DEF Consistent, Unlimited
<1>3. fewest # {}
  BY SomeFewest
<1>4. open \in SUBSET Sm /\ fewest \in SUBSET Sm /\ Sm \subseteq Nat
  BY SmCount
<1>. HIDE DEF open, fewest
<1>5. open # {} => Smallest(open) \in open
  BY <1>4, SmallestRight
<1>6. Smallest(fewest) \in fewest
  BY <1>3, <1>4, SmallestRight
<1>. QED
  BY <1>1, <1>2, <1>4, <1>5, <1>6

(* A piece takes at least one iteration, the last piece a tile may have    *)
(* takes all that is left.                                                 *)
LEMMA TakeRight ==
    ASSUME Consistent, phase = "fill", next.u \in Tile, NEW budget \in Int
    PROVE  /\ Take(budget) \in Nat \ {0} /\ next.pos + Take(budget) <= iters[next.u]
           /\ next.sub + 1 >= MaxSplits => next.pos + Take(budget) = iters[next.u]
<1>1. /\ iters[next.u] \in Nat /\ next.pos \in Nat /\ next.pos < iters[next.u]
      /\ next.sub \in Nat /\ MaxSplits \in Nat
  BY Types DEF Consistent, Progress
<1>2. PICK avail \in Nat \ {0} : avail = iters[next.u] - next.pos
  BY <1>1
<1>3. PICK most \in Int :
         /\ most = Larger((budget - TileGlobalOverhead) \div PerIterOverhead, MinItersPerSplit)
         /\ most >= 4
  <2>1. PICK q \in Int : q = (budget - TileGlobalOverhead) \div PerIterOverhead
    BY DEF TileGlobalOverhead, PerIterOverhead
  <2>. QED
    BY <2>1 DEF Larger, MinItersPerSplit
<1>4. Take(budget) = IF next.sub + 1 >= MaxSplits THEN avail ELSE Smaller(avail, most)
  BY <1>2, <1>3 DEF Take
<1>. QED
  BY <1>1, <1>2, <1>3, <1>4 DEF Smaller

(* The fill hands out the iterations of a tile, and its sub ids, one after *)
(* the other.                                                              *)
LEMMA StepFillPiece == ASSUME Consistent, FillPiece, UNCHANGED heads PROVE Consistent'
<1>1. /\ phase = "fill" /\ next.u < NumUnsplit
      /\ UNCHANGED <<phase, iters, heads, round, thr, nosplit, plan>>
  BY DEF FillPiece
<1>2. PICK sm \in Sm : sm = Place.sm
  BY PlaceRight
<1>3. PICK u \in Tile : u = next.u
  BY <1>1, Types DEF Consistent
<1>4. PICK take \in Nat \ {0} :
         /\ take = Take(Place.budget) /\ next.pos + take <= iters[u]
         /\ next.sub + 1 >= MaxSplits => next.pos + take = iters[u]
  BY <1>1, <1>3, PlaceRight, TakeRight
<1>5. PICK pos \in Nat : pos = next.pos
  BY Types DEF Consistent
<1>6. PICK sub \in Nat : sub = next.sub /\ sub < MaxSplits
  BY <1>1, <1>3, Types DEF Consistent, Progress
<1>7. /\ tasks' = [tasks EXCEPT ![sm] = @ \cup {Task(u, pos, pos + take, sub)}]
      /\ cost' = [cost EXCEPT ![sm] = @ + PieceCost(take)]
      /\ pos + take = iters[u] => subs' = [subs EXCEPT ![u] = sub + 1]
      /\ pos + take # iters[u] => subs' = subs
      /\ pos + take = iters[u] =>
              next' = [u |-> u + 1, pos |-> 0, sub |-> 0,
                       sm |-> Onward(sm, Place.budget - PieceCost(take)).sm,
                       budget |-> Onward(sm, Place.budget - PieceCost(take)).budget]
      /\ pos + take # iters[u] =>
              next' = [u |-> u, pos |-> pos + take, sub |-> sub + 1,
                       sm |-> Onward(sm, Place.budget - PieceCost(take)).sm,
                       budget |-> Onward(sm, Place.budget - PieceCost(take)).budget]
  <2>1. sm = Place.sm /\ u = next.u /\ take = Take(Place.budget) /\ pos = next.pos /\ sub = next.sub
    BY <1>2, <1>3, <1>4, <1>5, <1>6
  <2>2. /\ tasks' = [tasks EXCEPT ![Place.sm] =
                       @ \cup {Task(next.u, next.pos, next.pos + Take(Place.budget), next.sub)}]
        /\ cost' = [cost EXCEPT ![Place.sm] = @ + PieceCost(Take(Place.budget))]
        /\ next.pos + Take(Place.budget) = iters[next.u] =>
              /\ next' = [u |-> next.u + 1, pos |-> 0, sub |-> 0,
                          sm |-> Onward(Place.sm, Place.budget - PieceCost(Take(Place.budget))).sm,
                          budget |-> Onward(Place.sm,
                                            Place.budget - PieceCost(Take(Place.budget))).budget]
              /\ subs' = [subs EXCEPT ![next.u] = next.sub + 1]
        /\ next.pos + Take(Place.budget) # iters[next.u] =>
              /\ next' = [u |-> next.u, pos |-> next.pos + Take(Place.budget), sub |-> next.sub + 1,
                          sm |-> Onward(Place.sm, Place.budget - PieceCost(Take(Place.budget))).sm,
                          budget |-> Onward(Place.sm,
                                            Place.budget - PieceCost(Take(Place.budget))).budget]
              /\ subs' = subs
    BY DEF FillPiece
  <2>3. tasks' = [tasks EXCEPT ![sm] = @ \cup {Task(u, pos, pos + take, sub)}]
    BY <2>1, <2>2
  <2>4. cost' = [cost EXCEPT ![sm] = @ + PieceCost(take)]
    BY <2>1, <2>2
  <2>5. CASE pos + take = iters[u]
    BY <2>1, <2>2, <2>3, <2>4, <2>5, Zenon
  <2>6. CASE pos + take # iters[u]
    BY <2>1, <2>2, <2>3, <2>4, <2>6, Zenon
  <2>. QED
    BY <2>5, <2>6
<1>8. /\ pos + take = iters[u] => subs' = [subs EXCEPT ![u] = sub + 1]
      /\ pos + take # iters[u] => subs' = subs
  BY <1>7
<1>9. /\ next' \in [u : 0 .. NumUnsplit, pos : Nat, sub : Nat, sm : Nat, budget : Int]
      /\ pos + take = iters[u] => next'.u = u + 1 /\ next'.pos = 0 /\ next'.sub = 0
      /\ pos + take # iters[u] => next'.u = u /\ next'.pos = pos + take /\ next'.sub = sub + 1
  <2>1. PICK on : on = Onward(sm, Place.budget - PieceCost(take))
    OBVIOUS
  <2>2. on.sm \in Nat /\ on.budget \in Int
    <3>1. Place.budget - PieceCost(take) \in Int /\ TargetBudget \in Int /\ sm \in Nat
      BY PlaceRight, BudgetType, SmCount DEF Consistent, PieceCost, PerIterOverhead, TileGlobalOverhead
    <3>. QED
      BY <2>1, <3>1 DEF Onward
  <2>3. /\ pos + take = iters[u] =>
              next' = [u |-> u + 1, pos |-> 0, sub |-> 0, sm |-> on.sm, budget |-> on.budget]
        /\ pos + take # iters[u] =>
              next' = [u |-> u, pos |-> pos + take, sub |-> sub + 1,
                       sm |-> on.sm, budget |-> on.budget]
    BY <1>7, <2>1
  <2>4. u \in 0 .. NumUnsplit /\ u + 1 \in 0 .. NumUnsplit
    BY <1>1, <1>3, Types DEF Consistent
  <2>5. CASE pos + take = iters[u]
    BY <2>2, <2>3, <2>4, <2>5
  <2>6. CASE pos + take # iters[u]
    BY <2>2, <2>3, <2>4, <2>6
  <2>. QED
    BY <2>5, <2>6
<1>10. /\ NumUnsplit' = NumUnsplit /\ Tile' = Tile
       /\ tasks \in [Sm -> SUBSET TaskRecord] /\ cost \in [Sm -> Int] /\ subs \in [Tile -> Nat]
       /\ \A a \in Sm : IsFiniteSet(tasks[a])
       /\ MaxSplits \in Nat \ {0} /\ iters[u] \in Nat /\ u \in Nat /\ Tile \subseteq Nat
  BY <1>1, Fixed, Types DEF Consistent, TypeOK
<1>11. PICK t \in TaskRecord :
          /\ t = Task(u, pos, pos + take, sub) /\ t.uid = u /\ t.begin = pos
          /\ t.end = pos + take /\ t.sub = sub
  <2>1. u \in Nat /\ pos + take \in Nat
    BY <1>10
  <2>2. /\ Task(u, pos, pos + take, sub) \in TaskRecord
        /\ Task(u, pos, pos + take, sub).uid = u /\ Task(u, pos, pos + take, sub).begin = pos
        /\ Task(u, pos, pos + take, sub).end = pos + take /\ Task(u, pos, pos + take, sub).sub = sub
    BY <2>1 DEF Task, TaskRecord
  <2>. QED
    BY <2>2
<1>12. /\ tasks'[sm] = tasks[sm] \cup {t} /\ cost'[sm] = cost[sm] + PieceCost(take)
       /\ \A a \in Sm : a # sm => tasks'[a] = tasks[a] /\ cost'[a] = cost[a]
       /\ DOMAIN tasks' = Sm /\ DOMAIN cost' = Sm
  BY <1>7, <1>10, <1>11
<1>13. \A v \in Tile : /\ v \in Nat /\ (v # u => subs'[v] = subs[v])
                       /\ v = u /\ pos + take = iters[u] => subs'[v] = sub + 1
  BY <1>8, <1>10
<1>14. /\ Handed(u) = pos /\ Handed(u)' = pos + take /\ Numbers(u) = sub /\ Numbers(u)' = sub + 1
       /\ \A v \in Tile : v # u => Handed(v)' = Handed(v) /\ Numbers(v)' = Numbers(v)
  <2>1. Handed(u) = pos /\ Numbers(u) = sub
    BY <1>1, <1>3, <1>5, <1>6, <1>10 DEF Handed, Numbers
  <2>2. CASE pos + take = iters[u]
    <3>1. Handed(u)' = pos + take /\ Numbers(u)' = sub + 1
      BY <1>1, <1>9, <1>10, <1>13, <2>2 DEF Handed, Numbers
    <3>2. ASSUME NEW v \in Tile, v # u PROVE Handed(v)' = Handed(v) /\ Numbers(v)' = Numbers(v)
      BY <1>1, <1>3, <1>9, <1>10, <1>13, <2>2, <3>2 DEF Handed, Numbers
    <3>. QED
      BY <2>1, <3>1, <3>2
  <2>3. CASE pos + take # iters[u]
    <3>1. Handed(u)' = pos + take /\ Numbers(u)' = sub + 1
      BY <1>1, <1>9, <1>10, <2>3 DEF Handed, Numbers
    <3>2. ASSUME NEW v \in Tile, v # u PROVE Handed(v)' = Handed(v) /\ Numbers(v)' = Numbers(v)
      BY <1>1, <1>3, <1>9, <1>10, <1>13, <2>3, <3>2 DEF Handed, Numbers
    <3>. QED
      BY <2>1, <3>1, <3>2
  <2>. QED
    BY <2>2, <2>3
<1>15. \A a \in Sm : \A s \in tasks'[a] : (s = t /\ a = sm) \/ s \in tasks[a]
  BY <1>12
<1>16. \A a \in Sm : \A s \in tasks[a] :
          /\ s \in tasks'[a] /\ s # t
          /\ s.uid = u => s.end <= pos /\ s.sub < sub
          /\ s.begin \in Nat /\ s.end \in Nat /\ s.sub \in Nat
  <2>1. ASSUME NEW a \in Sm, NEW s \in tasks[a]
        PROVE  /\ s \in tasks'[a] /\ s.begin \in Nat /\ s.end \in Nat /\ s.sub \in Nat
               /\ s.uid = u => s.end <= pos /\ s.sub < sub
    BY <1>12, <1>14, OfATask DEF Consistent, InTile
  <2>. QED
    BY <1>11, <2>1
<1>17. TypeOK'
  <2>1. \A a \in Sm : IsFiniteSet(tasks'[a]) /\ tasks'[a] \in SUBSET TaskRecord
    <3>1. IsFiniteSet(tasks[sm] \cup {t})
      BY <1>10, FS_AddElement
    <3>2. ASSUME NEW a \in Sm PROVE IsFiniteSet(tasks'[a]) /\ tasks'[a] \in SUBSET TaskRecord
      <4>1. CASE a = sm
        BY <1>10, <1>12, <3>1, <4>1
      <4>2. CASE a # sm
        BY <1>10, <1>12, <4>2
      <4>. QED
        BY <4>1, <4>2
    <3>. QED
      BY <3>2
  <2>2. tasks' \in [Sm -> SUBSET TaskRecord]
    BY <1>7, <1>10, <2>1
  <2>3. cost' \in [Sm -> Int]
    <3>1. PieceCost(take) \in Int
      BY DEF PieceCost, PerIterOverhead, TileGlobalOverhead
    <3>. QED
      BY <1>7, <1>10, <3>1
  <2>4. subs' \in [Tile -> Nat]
    BY <1>8, <1>10
  <2>. QED
    BY <1>1, <1>9, <1>10, <2>1, <2>2, <2>3, <2>4 DEF Consistent, TypeOK
<1>18. Progress'
  <2>1. ASSUME NEW v \in Tile, v < next'.u PROVE subs'[v] \in 1 .. MaxSplits
    <3>1. CASE v = u
      BY <1>6, <1>9, <1>10, <1>13, <2>1, <3>1
    <3>2. CASE v # u
      <4>1. v < next.u
        BY <1>3, <1>9, <1>10, <1>13, <2>1, <3>2
      <4>. QED
        BY <1>1, <1>13, <3>2, <4>1 DEF Consistent, Progress
    <3>. QED
      BY <3>1, <3>2
  <2>2. ASSUME next'.u \in Tile PROVE next'.pos < iters[next'.u] /\ next'.sub < MaxSplits
    <3>1. \A v \in Tile : iters[v] > 0
      BY Types DEF Consistent
    <3>. QED
      BY <1>4, <1>5, <1>6, <1>9, <1>10, <2>2, <3>1
  <2>3. next'.u = NumUnsplit => next'.pos = 0 /\ next'.sub = 0
    BY <1>1, <1>3, <1>9
  <2>. QED
    BY <1>1, <1>10, <2>1, <2>2, <2>3 DEF Progress
<1>19. InTile'
  <2>1. t.uid \in Tile /\ t.begin < t.end /\ t.end <= Handed(u)' /\ t.sub < Numbers(u)'
    BY <1>11, <1>14
  <2>2. ASSUME NEW a \in Sm, NEW s \in tasks'[a]
        PROVE  s.uid \in Tile /\ s.begin < s.end /\ s.end <= Handed(s.uid)' /\ s.sub < Numbers(s.uid)'
    <3>1. CASE s = t
      BY <1>11, <2>1, <3>1
    <3>2. CASE s \in tasks[a] /\ s.uid = u
      BY <1>14, <1>16, <3>2 DEF Consistent, InTile
    <3>3. CASE s \in tasks[a] /\ s.uid # u
      BY <1>14, <3>3 DEF Consistent, InTile
    <3>. QED
      BY <1>15, <3>1, <3>2, <3>3
  <2>. QED
    BY <1>10, <2>2 DEF InTile
<1>20. Apart'
  <2>1. ASSUME NEW a \in Sm, NEW b \in Sm, NEW r \in tasks'[a], NEW s \in tasks'[b], r.uid = s.uid
        PROVE  \/ a = b /\ r = s
               \/ r.sub # s.sub /\ (r.end <= s.begin \/ s.end <= r.begin)
    <3>1. CASE r \in tasks[a] /\ s \in tasks[b]
      BY <2>1, <3>1 DEF Consistent, Apart
    <3>2. CASE r \in tasks[a] /\ s = t
      BY <1>11, <1>16, <2>1, <3>2
    <3>3. CASE r = t /\ s \in tasks[b]
      BY <1>11, <1>16, <2>1, <3>3
    <3>4. CASE r = t /\ a = sm /\ s = t /\ b = sm
      BY <3>4
    <3>. QED
      BY <1>15, <3>1, <3>2, <3>3, <3>4
  <2>. QED
    BY <2>1 DEF Apart
<1>21. AllThere'
  <2>1. t \in tasks'[sm]
    BY <1>12
  <2>2. ASSUME NEW v \in Tile, NEW i \in 0 .. (Handed(v)' - 1)
        PROVE  \E a \in Sm : \E s \in tasks'[a] : s.uid = v /\ s.begin <= i /\ i < s.end
    <3>1. CASE v = u /\ pos <= i
      BY <1>11, <1>14, <2>1, <3>1
    <3>2. CASE v # u \/ i < pos
      <4>1. i \in 0 .. (Handed(v) - 1)
        BY <1>14, <3>2
      <4>2. \E a \in Sm : \E s \in tasks[a] : s.uid = v /\ s.begin <= i /\ i < s.end
        BY <4>1 DEF Consistent, AllThere
      <4>. QED
        BY <1>16, <4>2
    <3>. QED
      BY <1>14, <3>1, <3>2
  <2>3. ASSUME NEW v \in Tile, NEW k \in 0 .. (Numbers(v)' - 1)
        PROVE  \E a \in Sm : \E s \in tasks'[a] : s.uid = v /\ s.sub = k
    <3>1. CASE v = u /\ k = sub
      BY <1>11, <2>1, <3>1
    <3>2. CASE v # u \/ k # sub
      <4>1. k \in 0 .. (Numbers(v) - 1)
        BY <1>14, <3>2
      <4>2. \E a \in Sm : \E s \in tasks[a] : s.uid = v /\ s.sub = k
        BY <1>1, <4>1, NoClaims DEF Consistent, AllThere
      <4>. QED
        BY <1>16, <4>2
    <3>. QED
      BY <3>1, <3>2
  <2>. QED
    BY <1>10, <2>2, <2>3 DEF AllThere
<1>22. Claimed'
  <2>1. \A v \in Tile : Claims(v, "split")' = {} /\ Claims(v, "undo")' = {}
    <3>1. \A v : Claims(v, "split")' = Claims(v, "split") /\ Claims(v, "undo")' = Claims(v, "undo")
      BY <1>1 DEF Claims
    <3>. QED
      BY <1>1, <3>1, NoClaims
  <2>2. \A v \in Tile : subs'[v] \in Nat /\ subs'[v] <= MaxSplits
    <3>1. \A v \in Tile : subs[v] \in Nat /\ subs[v] <= MaxSplits
      BY <1>1, NoClaims
    <3>. QED
      BY <1>6, <1>8, <1>10, <3>1
  <2>3. \A v \in Tile : subs'[v] = Smaller(subs'[v], MaxSplits) + Cardinality(Claims(v, "undo")')
    <3>1. \A v \in Tile : Cardinality(Claims(v, "undo")') = 0
      BY <2>1, FS_EmptySet
    <3>. QED
      BY <1>10, <2>2, <3>1 DEF Smaller
  <2>. QED
    BY <1>10, <2>1, <2>3 DEF Claimed
<1>23. Paired'
  BY <1>1 DEF Consistent, Paired
<1>24. CostExact'
  <2>1. \A a \in Sm : \A s \in tasks[a] : CostOf[s] \in Int
    BY OfATask
  <2>2. CostOf[t] = PieceCost(take) /\ CostOf[t] \in Int /\ t \notin tasks[sm]
    BY <1>11, <1>16, TaskCost DEF PieceCost
  <2>3. /\ Total(CostOf, tasks'[sm]) = Total(CostOf, tasks[sm]) + CostOf[t]
        /\ Total(CostOf, tasks[sm]) \in Int
    <3>1. IsFiniteSet(tasks[sm]) /\ \A s \in tasks[sm] : CostOf[s] \in Int
      BY <1>10, <2>1
    <3>2. Total(CostOf, tasks[sm] \cup {t}) = Total(CostOf, tasks[sm]) + CostOf[t]
      BY <2>2, <3>1, TotalAdd
    <3>. QED
      BY <1>12, <3>1, <3>2, TotalFirst
  <2>4. \A a \in Sm : cost[a] = SMGlobalOverhead + Total(CostOf, tasks[a])
    BY DEF Consistent, CostExact
  <2>5. cost'[sm] = SMGlobalOverhead + Total(CostOf, tasks'[sm])
    BY <1>12, <2>2, <2>3, <2>4 DEF SMGlobalOverhead
  <2>6. \A a \in Sm : cost'[a] = SMGlobalOverhead + Total(CostOf, tasks'[a])
    BY <1>12, <2>4, <2>5
  <2>. QED
    BY <2>6 DEF CostExact
<1>25. Written'
  BY <1>1, WrittenKept DEF Consistent
<1>. QED
  BY <1>17, <1>18, <1>19, <1>20, <1>21, <1>22, <1>23, <1>24, <1>25 DEF Consistent

(* A group of greedy has tiles of the same iterations only: it ends before *)
(* the first row of others, and the heads of a row are alike.              *)
LEMMA GroupRight ==
    ASSUME TypeOK, NEW u \in Tile
    PROVE  /\ GroupEnd(u) \in Nat /\ u < GroupEnd(u) /\ GroupEnd(u) <= NumUnsplit
           /\ \A v \in Tile : u <= v /\ v < GroupEnd(u) => iters[v] = iters[u]
<1>. DEFINE S == {NumUnsplit} \cup {v \in Tile : v > u /\ v % heads = 0 /\ iters[v] # iters[u]}
<1>1. /\ heads \in Nat \ {0} /\ NumUnsplit \in Nat /\ Tile \subseteq Nat
      /\ \A v \in Nat : v \in Tile <=> v < NumUnsplit
  BY Types
<1>2. S \in SUBSET Nat /\ S # {} /\ NumUnsplit \in S
  BY <1>1
<1>3. GroupEnd(u) = Smallest(S)
  BY DEF GroupEnd
<1>4. /\ \A v \in S : v = NumUnsplit \/ v > u
      /\ \A v \in Tile : v > u /\ v % heads = 0 /\ iters[v] # iters[u] => v \in S
  OBVIOUS
<1>. HIDE DEF S
<1>5. Smallest(S) \in S /\ \A y \in S : Smallest(S) <= y
  BY <1>2, SmallestRight
<1>6. GroupEnd(u) \in Nat /\ u < GroupEnd(u) /\ GroupEnd(u) <= NumUnsplit
  BY <1>1, <1>2, <1>3, <1>4, <1>5
<1>7. ASSUME NEW v \in Tile, u <= v, v < GroupEnd(u)
      PROVE  iters[v] = iters[u]
  <2>1. PICK q \in Nat : q = v \div heads /\ q * heads <= v /\ v < q * heads + heads
    <3>1. /\ v \in Nat /\ v = (v \div heads) * heads + (v % heads) /\ v % heads \in 0 .. (heads - 1)
          /\ v \div heads \in Nat
      BY <1>1, Euclid
    <3>. QED
      BY <1>1, <3>1
  <2>2. u \in Nat /\ v \in Nat /\ q * heads \in Nat
    BY <1>1, <2>1
  <2>3. CASE q * heads <= u
    <3>1. u < q * heads + heads
      <4>1. PICK p \in Nat : p = q * heads
        BY <2>2
      <4>. QED
        BY <1>1, <1>7, <2>1, <2>2, <4>1
    <3>2. u \div heads = q
      BY <1>1, <2>2, <2>3, <3>1, QuotientOf
    <3>. QED
      BY <2>1, <3>2 DEF TypeOK
  <2>4. CASE u < q * heads
    <3>1. (q * heads) \div heads = q /\ (q * heads) % heads = 0
      BY <1>1, RowsOf
    <3>2. PICK r \in Tile : r = q * heads
      BY <1>1, <2>1, <2>2
    <3>3. r \notin S
      BY <1>1, <1>3, <1>5, <1>6, <1>7, <2>1, <2>2, <3>2
    <3>4. iters[r] = iters[u]
      BY <1>4, <2>4, <3>1, <3>2, <3>3
    <3>5. iters[r] = iters[v]
      BY <2>1, <3>1, <3>2 DEF TypeOK
    <3>. QED
      BY <3>4, <3>5
  <2>. QED
    BY <2>2, <2>3, <2>4
<1>. QED
  BY <1>6, <1>7

(* A batch of greedy hands out whole tiles, each to one SM.                *)
LEMMA StepGreedyBatch == ASSUME Consistent, GreedyBatch, UNCHANGED heads PROVE Consistent'
<1>1. /\ phase = "greedy" /\ next.u < NumUnsplit
      /\ UNCHANGED <<phase, iters, heads, round, thr, nosplit, plan>>
  BY DEF GreedyBatch
<1>2. PICK u \in Tile : u = next.u
  BY <1>1, Types DEF Consistent
<1>3. PICK n \in Nat \ {0} :
         /\ n = Smaller(GroupEnd(u) - u, NumBuckets)
         /\ u + n <= NumUnsplit /\ n <= NumBuckets
         /\ \A v \in Tile : u <= v /\ v < u + n => iters[v] = iters[u]
  <2>1. /\ GroupEnd(u) \in Nat /\ u < GroupEnd(u) /\ GroupEnd(u) <= NumUnsplit
        /\ \A v \in Tile : u <= v /\ v < GroupEnd(u) => iters[v] = iters[u]
    BY GroupRight DEF Consistent
  <2>2. u \in Nat /\ NumBuckets \in Nat \ {0} /\ NumUnsplit \in Nat /\ Tile \subseteq Nat
    BY SmCount, Types DEF Consistent
  <2>3. PICK n \in Nat \ {0} :
           /\ n = Smaller(GroupEnd(u) - u, NumBuckets)
           /\ u + n <= GroupEnd(u) /\ n <= NumBuckets
    BY <2>1, <2>2 DEF Smaller
  <2>. QED
    BY <2>1, <2>2, <2>3
<1>4. /\ NumUnsplit' = NumUnsplit /\ Tile' = Tile /\ u \in Nat /\ NumUnsplit \in Nat
      /\ tasks \in [Sm -> SUBSET TaskRecord] /\ cost \in [Sm -> Int] /\ subs \in [Tile -> Nat]
      /\ \A a \in Sm : IsFiniteSet(tasks[a])
      /\ MaxSplits \in Nat \ {0} /\ \A v \in Tile : iters[v] \in Nat \ {0}
      /\ Tile \subseteq Nat /\ \A v \in Nat : v \in Tile <=> v < NumUnsplit
  BY <1>1, Fixed, Types DEF Consistent, TypeOK
<1>5. PICK rank \in [Sm -> Nat] :
         /\ \A a \in Sm : rank[a] = Rank(cost, a)
         /\ \A a, b \in Sm : rank[a] = rank[b] => a = b
         /\ \A k \in 0 .. (n - 1) : \E a \in Sm : rank[a] = k
  <2>1. /\ \A a \in Sm : Rank(cost, a) \in Nat
        /\ \A a, b \in Sm : Rank(cost, a) = Rank(cost, b) => a = b
        /\ \A k \in 0 .. (NumBuckets - 1) : \E a \in Sm : Rank(cost, a) = k
    <3>1. NumBuckets \in Nat \ {0} /\ cost \in [0 .. (NumBuckets - 1) -> Int]
      BY <1>4, SmCount DEF Sm
    <3>2. /\ \A a \in Sm : Rank(cost, a) \in 0 .. (NumBuckets - 1)
          /\ \A a, b \in Sm : Rank(cost, a) = Rank(cost, b) => a = b
          /\ \A k \in 0 .. (NumBuckets - 1) : \E a \in Sm : Rank(cost, a) = k
      BY <3>1, RankRight DEF Sm
    <3>. QED
      BY <3>2
  <2>2. [a \in Sm |-> Rank(cost, a)] \in [Sm -> Nat]
    BY <2>1
  <2>3. 0 .. (n - 1) \subseteq 0 .. (NumBuckets - 1)
    BY <1>3, SmCount
  <2>. QED
    BY <2>1, <2>2, <2>3
<1>6. PICK len \in Nat \ {0} : len = iters[u]
  BY <1>4
<1>7. PICK w \in [Sm -> TaskRecord] :
         \A a \in Sm : /\ w[a] = Task(u + rank[a], 0, len, 0) /\ w[a].uid = u + rank[a]
                       /\ w[a].begin = 0 /\ w[a].end = len /\ w[a].sub = 0
  <2>1. \A a \in Sm : u + rank[a] \in Nat
    BY <1>4
  <2>2. \A a \in Sm : /\ Task(u + rank[a], 0, len, 0) \in TaskRecord
                      /\ Task(u + rank[a], 0, len, 0).uid = u + rank[a]
                      /\ Task(u + rank[a], 0, len, 0).begin = 0
                      /\ Task(u + rank[a], 0, len, 0).end = len
                      /\ Task(u + rank[a], 0, len, 0).sub = 0
    BY <2>1 DEF Task, TaskRecord
  <2>3. [a \in Sm |-> Task(u + rank[a], 0, len, 0)] \in [Sm -> TaskRecord]
    BY <2>2
  <2>. QED
    BY <2>2, <2>3
<1>8. /\ DOMAIN tasks' = Sm /\ DOMAIN cost' = Sm /\ DOMAIN subs' = Tile
      /\ tasks' = [a \in Sm |-> tasks'[a]] /\ cost' = [a \in Sm |-> cost'[a]]
      /\ \A a \in Sm : rank[a] < n => /\ tasks'[a] = tasks[a] \cup {w[a]}
                                      /\ cost'[a] = cost[a] + PieceCost(len)
      /\ \A a \in Sm : ~ (rank[a] < n) => tasks'[a] = tasks[a] /\ cost'[a] = cost[a]
      /\ \A v \in Tile : subs'[v] = IF v \in u .. (u + n - 1) THEN 1 ELSE subs[v]
      /\ next' = [next EXCEPT !.u = u + n]
  BY <1>2, <1>3, <1>5, <1>6, <1>7 DEF GreedyBatch
<1>9. /\ next' \in [u : 0 .. NumUnsplit, pos : Nat, sub : Nat, sm : Nat, budget : Int]
      /\ next'.u = u + n /\ next'.pos = 0 /\ next'.sub = 0
  <2>1. next \in [u : 0 .. NumUnsplit, pos : Nat, sub : Nat, sm : Nat, budget : Int]
    BY DEF Consistent, TypeOK
  <2>2. next.pos = 0 /\ next.sub = 0
    BY <1>1 DEF Consistent, Progress
  <2>3. u + n \in 0 .. NumUnsplit
    BY <1>3, <1>4
  <2>. QED
    BY <1>8, <2>1, <2>2, <2>3
<1>10. \A v \in Tile :
          /\ v < u => /\ Handed(v)' = Handed(v) /\ Handed(v) = iters[v]
                      /\ Numbers(v)' = Numbers(v) /\ subs'[v] = subs[v]
          /\ ~ (v < u) => Handed(v) = 0 /\ Numbers(v) = 0
          /\ v \in u .. (u + n - 1) => /\ Handed(v)' = len /\ Numbers(v)' = 1 /\ subs'[v] = 1
                                       /\ iters[v] = len
          /\ ~ (v < u + n) => Handed(v)' = 0 /\ Numbers(v)' = 0
  <2>1. next.u = u /\ next.pos = 0 /\ next.sub = 0 /\ phase' = "greedy" /\ iters' = iters
    BY <1>1, <1>2 DEF Consistent, Progress
  <2>2. ASSUME NEW v \in Tile
        PROVE  /\ Handed(v) = (IF v < u THEN iters[v] ELSE 0)
               /\ Numbers(v) = (IF v < u THEN subs[v] ELSE 0)
               /\ Handed(v)' = (IF v < u + n THEN iters[v] ELSE 0)
               /\ Numbers(v)' = (IF v < u + n THEN subs'[v] ELSE 0)
    BY <1>1, <1>9, <2>1 DEF Handed, Numbers
  <2>3. \A v \in Tile : v \in Nat /\ (v \in u .. (u + n - 1) <=> u <= v /\ v < u + n)
    BY <1>4
  <2>4. \A v \in Tile : v \in u .. (u + n - 1) => iters[v] = len
    BY <1>3, <1>6, <2>3
  <2>. QED
    BY <1>4, <1>8, <2>2, <2>3, <2>4
<1>11. \A a \in Sm : \A s \in tasks[a] : /\ s.uid \in Tile /\ s.uid < u
                                         /\ \A b \in Sm : s # w[b]
  <2>1. ASSUME NEW a \in Sm, NEW s \in tasks[a] PROVE s.uid \in Tile /\ s.uid < u
    <3>1. s.uid \in Tile /\ s.begin \in Nat /\ s.end \in Nat /\ s.begin < s.end /\ s.end <= Handed(s.uid)
      BY OfATask DEF Consistent, InTile
    <3>. QED
      BY <1>10, <3>1
  <2>2. \A b \in Sm : w[b].uid \in Nat /\ ~ (w[b].uid < u)
    BY <1>4, <1>7
  <2>. QED
    BY <2>1, <2>2
<1>12. \A a \in Sm : rank[a] < n => w[a].uid \in Tile /\ w[a].uid \in u .. (u + n - 1)
  BY <1>3, <1>4, <1>7
<1>13. \A a \in Sm : \A s \in tasks'[a] : (rank[a] < n /\ s = w[a]) \/ s \in tasks[a]
  BY <1>8
<1>14. \A a \in Sm : /\ tasks[a] \subseteq tasks'[a]
                     /\ rank[a] < n => w[a] \in tasks'[a]
  BY <1>8
<1>15. \A v \in Tile : v \in u .. (u + n - 1) => \E a \in Sm : rank[a] < n /\ w[a].uid = v
  <2>1. ASSUME NEW v \in Tile, v \in u .. (u + n - 1) PROVE \E a \in Sm : rank[a] < n /\ w[a].uid = v
    <3>1. v - u \in 0 .. (n - 1)
      BY <1>4, <2>1
    <3>2. PICK a \in Sm : rank[a] = v - u
      BY <1>5, <3>1
    <3>. QED
      BY <1>4, <1>7, <3>1, <3>2
  <2>. QED
    BY <2>1
<1>16. TypeOK'
  <2>1. ASSUME NEW a \in Sm
        PROVE  IsFiniteSet(tasks'[a]) /\ tasks'[a] \in SUBSET TaskRecord /\ cost'[a] \in Int
    <3>1. IsFiniteSet(tasks[a]) /\ IsFiniteSet(tasks[a] \cup {w[a]})
      BY <1>4, FS_AddElement
    <3>2. PieceCost(len) \in Int
      BY DEF PieceCost, PerIterOverhead, TileGlobalOverhead
    <3>3. CASE rank[a] < n
      <4>1. tasks'[a] = tasks[a] \cup {w[a]} /\ cost'[a] = cost[a] + PieceCost(len)
        BY <1>8, <3>3
      <4>2. tasks[a] \in SUBSET TaskRecord /\ w[a] \in TaskRecord /\ cost[a] \in Int
        BY <1>4
      <4>. QED
        BY <3>1, <3>2, <4>1, <4>2
    <3>4. CASE ~ (rank[a] < n)
      BY <1>4, <1>8, <3>1, <3>4
    <3>. QED
      BY <3>3, <3>4
  <2>2. tasks' \in [Sm -> SUBSET TaskRecord] /\ cost' \in [Sm -> Int]
    BY <1>8, <2>1
  <2>3. subs' \in [Tile -> Nat]
    <3>1. subs' = [v \in Tile |-> IF v \in u .. (u + n - 1) THEN 1 ELSE subs[v]]
      BY <1>2, <1>3 DEF GreedyBatch
    <3>. QED
      BY <1>4, <3>1
  <2>. QED
    BY <1>1, <1>4, <1>9, <2>1, <2>2, <2>3 DEF Consistent, TypeOK
<1>17. Progress'
  <2>1. ASSUME NEW v \in Tile, v < u + n PROVE subs'[v] \in 1 .. MaxSplits
    <3>1. CASE v < u
      BY <1>1, <1>2, <1>10, <3>1 DEF Consistent, Progress
    <3>2. CASE ~ (v < u)
      BY <1>4, <1>10, <2>1, <3>2
    <3>. QED
      BY <3>1, <3>2
  <2>2. \A v \in Tile : iters[v] > 0
    BY <1>4
  <2>. QED
    BY <1>1, <1>4, <1>9, <2>1, <2>2 DEF Progress
<1>18. InTile'
  <2>1. ASSUME NEW a \in Sm, NEW s \in tasks'[a]
        PROVE  s.uid \in Tile /\ s.begin < s.end /\ s.end <= Handed(s.uid)' /\ s.sub < Numbers(s.uid)'
    <3>1. CASE rank[a] < n /\ s = w[a]
      <4>1. Handed(s.uid)' = len /\ Numbers(s.uid)' = 1 /\ s.uid \in Tile
        BY <1>10, <1>12, <3>1
      <4>. QED
        BY <1>7, <3>1, <4>1
    <3>2. CASE s \in tasks[a]
      BY <1>10, <1>11, <3>2 DEF Consistent, InTile
    <3>. QED
      BY <1>13, <3>1, <3>2
  <2>. QED
    BY <1>4, <2>1 DEF InTile
<1>19. Apart'
  <2>1. ASSUME NEW a \in Sm, NEW b \in Sm, NEW r \in tasks'[a], NEW s \in tasks'[b], r.uid = s.uid
        PROVE  \/ a = b /\ r = s
               \/ r.sub # s.sub /\ (r.end <= s.begin \/ s.end <= r.begin)
    <3>1. CASE r \in tasks[a] /\ s \in tasks[b]
      BY <2>1, <3>1 DEF Consistent, Apart
    <3>2. CASE r \in tasks[a] /\ s = w[b]
      BY <1>4, <1>7, <1>11, <2>1, <3>2
    <3>3. CASE r = w[a] /\ s \in tasks[b]
      BY <1>4, <1>7, <1>11, <2>1, <3>3
    <3>4. CASE r = w[a] /\ s = w[b]
      <4>1. rank[a] = rank[b]
        BY <1>4, <1>7, <2>1, <3>4
      <4>. QED
        BY <1>5, <3>4, <4>1
    <3>. QED
      BY <1>13, <3>1, <3>2, <3>3, <3>4
  <2>. QED
    BY <2>1 DEF Apart
<1>20. AllThere'
  <2>1. ASSUME NEW v \in Tile, NEW i \in 0 .. (Handed(v)' - 1)
        PROVE  \E a \in Sm : \E s \in tasks'[a] : s.uid = v /\ s.begin <= i /\ i < s.end
    <3>1. CASE v < u
      <4>1. \E a \in Sm : \E s \in tasks[a] : s.uid = v /\ s.begin <= i /\ i < s.end
        BY <1>10, <3>1 DEF Consistent, AllThere
      <4>. QED
        BY <1>14, <4>1
    <3>2. CASE ~ (v < u)
      <4>1. v \in u .. (u + n - 1)
        BY <1>4, <1>10, <3>2
      <4>2. PICK a \in Sm : rank[a] < n /\ w[a].uid = v
        BY <1>15, <4>1
      <4>3. w[a].begin <= i /\ i < w[a].end
        BY <1>7, <1>10, <4>1
      <4>. QED
        BY <1>14, <4>2, <4>3
    <3>. QED
      BY <3>1, <3>2
  <2>2. ASSUME NEW v \in Tile, NEW k \in 0 .. (Numbers(v)' - 1)
        PROVE  \E a \in Sm : \E s \in tasks'[a] : s.uid = v /\ s.sub = k
    <3>1. CASE v < u
      <4>1. k \in 0 .. (Numbers(v) - 1)
        BY <1>10, <3>1
      <4>2. \E a \in Sm : \E s \in tasks[a] : s.uid = v /\ s.sub = k
        BY <1>1, <4>1, NoClaims DEF Consistent, AllThere
      <4>. QED
        BY <1>14, <4>2
    <3>2. CASE ~ (v < u)
      <4>1. v \in u .. (u + n - 1)
        BY <1>4, <1>10, <3>2
      <4>2. PICK a \in Sm : rank[a] < n /\ w[a].uid = v
        BY <1>15, <4>1
      <4>3. w[a].sub = k
        BY <1>7, <1>10, <4>1
      <4>. QED
        BY <1>14, <4>2, <4>3
    <3>. QED
      BY <3>1, <3>2
  <2>. QED
    BY <1>4, <2>1, <2>2 DEF AllThere
<1>21. Claimed'
  <2>1. \A v \in Tile : Claims(v, "split")' = {} /\ Claims(v, "undo")' = {}
    <3>1. \A v : Claims(v, "split")' = Claims(v, "split") /\ Claims(v, "undo")' = Claims(v, "undo")
      BY <1>1 DEF Claims
    <3>. QED
      BY <1>1, <3>1, NoClaims
  <2>2. \A v \in Tile : subs'[v] \in Nat /\ subs'[v] <= MaxSplits
    <3>1. \A v \in Tile : subs[v] \in Nat /\ subs[v] <= MaxSplits
      BY <1>1, NoClaims
    <3>. QED
      BY <1>4, <1>8, <3>1
  <2>3. \A v \in Tile : subs'[v] = Smaller(subs'[v], MaxSplits) + Cardinality(Claims(v, "undo")')
    <3>1. \A v \in Tile : Cardinality(Claims(v, "undo")') = 0
      BY <2>1, FS_EmptySet
    <3>. QED
      BY <1>4, <2>2, <3>1 DEF Smaller
  <2>. QED
    BY <1>4, <2>1, <2>3 DEF Claimed
<1>22. Paired'
  BY <1>1 DEF Consistent, Paired
<1>23. CostExact'
  <2>1. ASSUME NEW a \in Sm PROVE cost'[a] = SMGlobalOverhead + Total(CostOf, tasks'[a])
    <3>1. cost[a] = SMGlobalOverhead + Total(CostOf, tasks[a])
      BY DEF Consistent, CostExact
    <3>2. CASE rank[a] < n
      <4>1. CostOf[w[a]] = PieceCost(len) /\ CostOf[w[a]] \in Int /\ w[a] \notin tasks[a]
        BY <1>7, <1>11, TaskCost DEF PieceCost
      <4>2. IsFiniteSet(tasks[a]) /\ \A s \in tasks[a] : CostOf[s] \in Int
        BY <1>4, OfATask
      <4>3. Total(CostOf, tasks[a] \cup {w[a]}) = Total(CostOf, tasks[a]) + CostOf[w[a]]
        BY <4>1, <4>2, TotalAdd
      <4>4. Total(CostOf, tasks[a]) \in Int
        BY <4>2, TotalFirst
      <4>5. tasks'[a] = tasks[a] \cup {w[a]} /\ cost'[a] = cost[a] + PieceCost(len)
        BY <1>8, <3>2
      <4>. QED
        BY <3>1, <4>1, <4>3, <4>4, <4>5 DEF SMGlobalOverhead
    <3>3. CASE ~ (rank[a] < n)
      BY <1>8, <3>1, <3>3
    <3>. QED
      BY <3>2, <3>3
  <2>. QED
    BY <2>1 DEF CostExact
<1>24. Written'
  <2>1. WholeTiles(tasks, u) /\ \A v \in Tile : subs[v] <= 1
    BY <1>1, <1>2 DEF Consistent, Written
  <2>2. \A v \in Tile : subs'[v] <= 1
    BY <1>8, <2>1
  <2>3. ASSUME NEW v \in Tile, v < u + n
        PROVE  \E a \in Sm : \A o \in Sm :
                  {s \in tasks'[o] : s.uid = v} = IF o = a THEN {Task(v, 0, iters[v], 0)} ELSE {}
    <3>1. CASE v < u
      <4>1. PICK a \in Sm : \A o \in Sm :
                  {s \in tasks[o] : s.uid = v} = IF o = a THEN {Task(v, 0, iters[v], 0)} ELSE {}
        BY <2>1, <3>1 DEF WholeTiles
      <4>2. \A o \in Sm : {s \in tasks'[o] : s.uid = v} = {s \in tasks[o] : s.uid = v}
        BY <1>4, <1>7, <1>13, <1>14, <3>1
      <4>. QED
        BY <4>1, <4>2
    <3>2. CASE ~ (v < u)
      <4>1. v \in u .. (u + n - 1) /\ iters[v] = len
        BY <1>4, <1>10, <2>3, <3>2
      <4>2. PICK a \in Sm : rank[a] < n /\ w[a].uid = v
        BY <1>15, <4>1
      <4>3. w[a] = Task(v, 0, iters[v], 0)
        BY <1>7, <4>1, <4>2
      <4>4. ASSUME NEW o \in Sm, NEW s \in tasks'[o], s.uid = v PROVE o = a /\ s = w[a]
        <5>1. s \notin tasks[o]
          BY <1>11, <3>2, <4>4
        <5>2. s = w[o] /\ w[o].uid = w[a].uid
          BY <1>13, <4>2, <4>4, <5>1
        <5>3. rank[o] = rank[a]
          BY <1>4, <1>7, <5>2
        <5>. QED
          BY <1>5, <5>2, <5>3
      <4>5. w[a] \in tasks'[a]
        BY <1>14, <4>2
      <4>6. ASSUME NEW o \in Sm
            PROVE  {s \in tasks'[o] : s.uid = v} = IF o = a THEN {Task(v, 0, iters[v], 0)} ELSE {}
        <5>1. CASE o = a
          BY <4>2, <4>3, <4>4, <4>5, <5>1
        <5>2. CASE o # a
          BY <4>4, <5>2
        <5>. QED
          BY <5>1, <5>2
      <4>. QED
        BY <4>6
    <3>. QED
      BY <3>1, <3>2
  <2>4. WholeTiles(tasks, next.u)'
    BY <1>1, <1>4, <1>9, <2>3 DEF WholeTiles
  <2>5. ~ plan'.split /\ plan'.rows = [r \in Row' |-> 1]
    <3>1. Row' = Row
      BY <1>1, Fixed
    <3>. QED
      BY <1>1, <3>1 DEF Consistent, Written
  <2>. QED
    BY <1>1, <1>4, <2>2, <2>4, <2>5 DEF Written
<1>. QED
  BY <1>16, <1>17, <1>18, <1>19, <1>20, <1>21, <1>22, <1>23, <1>24 DEF Consistent

(* Every step keeps the invariant.                                         *)
LEMMA Step == ASSUME Consistent, [Next]_vars PROVE Consistent'
<1>1. ASSUME Block, UNCHANGED heads PROVE Consistent'
  BY <1>1, StepGreedyBatch, StepGreedyEnd, StepFillPiece, StepFillEnd, StepRoundStart, StepEnds,
     StepWrite DEF Block
<1>2. ASSUME NEW sm \in Sm, Thread(sm), UNCHANGED heads PROVE Consistent'
  BY <1>2, StepMoveTask, StepClaimSplit, StepLeaveAlone, StepSplitTask, StepUndoClaim DEF Thread
<1>3. ASSUME UNCHANGED vars PROVE Consistent'
  BY <1>3, StaysSo
<1>. QED
  BY <1>1, <1>2, <1>3 DEF Next, Stop

(* What is handed out is consistent in every state, for any number of SMs, *)
(* of splits and rounds, and any tiles.                                    *)
LEMMA Consistency == Spec => []Consistent
<1>1. Init => Consistent
  BY Initially
<1>2. Consistent /\ [Next]_vars => Consistent'
  BY Step
<1>. QED
  BY <1>1, <1>2, PTL DEF Spec

-----------------------------------------------------------------------------
(* An iteration that one task of one SM has, and no other.                 *)
LEMMA OneHasIt ==
    ASSUME NEW work, NEW u, NEW i,
           \E sm \in Sm : \E t \in work[sm] :
              /\ t.uid = u /\ t.begin <= i /\ i < t.end
              /\ \A o \in Sm : \A s \in work[o] :
                    s.uid = u /\ s.begin <= i /\ i < s.end => o = sm /\ s = t
    PROVE  Cardinality(Holders(work, u, i)) = 1
<1>0. PICK sm \in Sm : \E t \in work[sm] :
              /\ t.uid = u /\ t.begin <= i /\ i < t.end
              /\ \A o \in Sm : \A s \in work[o] :
                    s.uid = u /\ s.begin <= i /\ i < s.end => o = sm /\ s = t
  OBVIOUS
<1>. PICK t \in work[sm] :
              /\ t.uid = u /\ t.begin <= i /\ i < t.end
              /\ \A o \in Sm : \A s \in work[o] :
                    s.uid = u /\ s.begin <= i /\ i < s.end => o = sm /\ s = t
  BY <1>0
<1>. DEFINE S == Holders(work, u, i)
<1>. USE DEF Holders
<1>1. t \in TasksOf(work, u) /\ \A s \in TasksOf(work, u) : s.uid = u
  BY DEF TasksOf
<1>2. <<sm, t>> \in S
  BY <1>1
<1>3. ASSUME NEW p \in S PROVE p = <<sm, t>>
  <2>1. p[1] \in Sm /\ p[2] \in work[p[1]] /\ p[2].uid = u /\ p[2].begin <= i /\ i < p[2].end
    BY <1>1, <1>3
  <2>2. p[1] = sm /\ p[2] = t /\ p = <<p[1], p[2]>>
    BY <1>3, <2>1
  <2>. QED
    BY <2>2
<1>4. S = {<<sm, t>>}
  BY <1>2, <1>3
<1>. QED
  BY <1>4, FS_Singleton

(* When all is handed out, the pieces of a tile cover it.                  *)
LEMMA Covered ==
    ASSUME Consistent, phase \notin {"greedy", "fill"}
    PROVE  \A u \in Tile : CoversTile(tasks, u)
<1>1. ASSUME NEW u \in Tile, NEW i \in 0 .. (iters[u] - 1)
      PROVE  Cardinality(Holders(tasks, u, i)) = 1
  <2>1. i \in 0 .. (Handed(u) - 1)
    BY AllHanded DEF Consistent
  <2>2. PICK sm \in Sm : \E t \in tasks[sm] : t.uid = u /\ t.begin <= i /\ i < t.end
    BY <2>1 DEF Consistent, AllThere
  <2>3. PICK t \in tasks[sm] : t.uid = u /\ t.begin <= i /\ i < t.end
    BY <2>2
  <2>4. ASSUME NEW o \in Sm, NEW s \in tasks[o], s.uid = u, s.begin <= i /\ i < s.end
        PROVE  o = sm /\ s = t
    <3>1. s.begin \in Nat /\ s.end \in Nat /\ t.begin \in Nat /\ t.end \in Nat /\ i \in Int
      BY OfATask
    <3>2. \/ o = sm /\ s = t
          \/ s.end <= t.begin \/ t.end <= s.begin
      BY <2>3, <2>4 DEF Consistent, Apart
    <3>. QED
      BY <2>3, <2>4, <3>1, <3>2
  <2>5. \A o \in Sm : \A s \in tasks[o] : s.uid = u /\ s.begin <= i /\ i < s.end => o = sm /\ s = t
    BY <2>4
  <2>6. \E o \in Sm : \E r \in tasks[o] :
              /\ r.uid = u /\ r.begin <= i /\ i < r.end
              /\ \A a \in Sm : \A s \in tasks[a] :
                    s.uid = u /\ s.begin <= i /\ i < s.end => a = o /\ s = r
    BY <2>3, <2>5
  <2>. QED
    BY <2>6, OneHasIt
<1>. QED
  BY <1>1 DEF CoversTile

(* From the first round on, every KV iteration of every tile is in exactly *)
(* one task of one SM, in every interleaving of the threads.               *)
THEOREM Coverage == Spec => []EachIterationOnce
<1>1. Consistent => EachIterationOnce
  BY Covered DEF EachIterationOnce
<1>. QED
  BY <1>1, Consistency, PTL

(* The costs the planner compares are those of the tasks it has assigned.  *)
THEOREM Costing == Spec => []CostExact
<1>1. Consistent => CostExact
  BY DEF Consistent
<1>. QED
  BY <1>1, Consistency, PTL

(* A tile has as many tasks and claims as sub ids have been handed out.    *)
LEMMA IdsRight ==
    ASSUME Consistent, phase \notin {"greedy", "fill"}, NEW u \in Tile
    PROVE  /\ {t.sub : t \in TasksOf(tasks, u)} \cup {thr[sm].id : sm \in Claims(u, "split")}
                  = 0 .. (Numbers(u) - 1)
           /\ Cardinality(TasksOf(tasks, u)) + Cardinality(Claims(u, "split")) = Numbers(u)
           /\ Numbers(u) \in Nat /\ Numbers(u) = Smaller(subs[u], MaxSplits)
           /\ IsFiniteSet(TasksOf(tasks, u))
<1>. DEFINE T == TasksOf(tasks, u)
            C == Claims(u, "split")
            U == {t.sub : t \in T}
            G == {thr[sm].id : sm \in C}
<1>1. \A t : t \in T <=> \E sm \in Sm : t \in tasks[sm] /\ t.uid = u
  BY DEF TasksOf
<1>2. Numbers(u) \in Nat /\ Numbers(u) = Smaller(subs[u], MaxSplits)
  <2>1. Numbers(u) = Smaller(subs[u], MaxSplits) /\ subs[u] \in Nat /\ MaxSplits \in Nat
    BY AllHanded, Types DEF Consistent
  <2>. QED
    BY <2>1 DEF Smaller
<1>3. U \subseteq 0 .. (Numbers(u) - 1)
  <2>1. ASSUME NEW t \in T PROVE t.sub \in 0 .. (Numbers(u) - 1)
    <3>1. PICK sm \in Sm : t \in tasks[sm] /\ t.uid = u
      BY <1>1, <2>1
    <3>2. t.sub \in Nat /\ t.sub < Numbers(t.uid)
      BY <3>1, OfATask DEF Consistent, InTile
    <3>. QED
      BY <1>2, <3>1, <3>2
  <2>. QED
    BY <2>1
<1>4. /\ G \subseteq 0 .. (Numbers(u) - 1) /\ U \cap G = {}
      /\ \A a, b \in C : thr[a].id = thr[b].id => a = b
  BY <1>1 DEF Consistent, Claimed
<1>5. U \cup G = 0 .. (Numbers(u) - 1)
  <2>1. ASSUME NEW k \in 0 .. (Numbers(u) - 1) PROVE k \in U \cup G
    <3>1. \/ \E sm \in Sm : \E t \in tasks[sm] : t.uid = u /\ t.sub = k
          \/ \E sm \in C : thr[sm].id = k
      BY DEF Consistent, AllThere
    <3>. QED
      BY <1>1, <3>1
  <2>. QED
    BY <1>3, <1>4, <2>1
<1>6. \A s, t \in T : s.sub = t.sub => s = t
  BY <1>1 DEF Consistent, Apart
<1>. HIDE DEF T, C
<1>7. IsFiniteSet(0 .. (Numbers(u) - 1)) /\ Cardinality(0 .. (Numbers(u) - 1)) = Numbers(u)
  BY <1>2, FS_Interval, SMTT(30)
<1>8. IsFiniteSet(U) /\ IsFiniteSet(G)
  BY <1>3, <1>4, <1>7, FS_Subset
<1>9. Cardinality(T) = Cardinality(U) /\ IsFiniteSet(T)
  <2>. DEFINE f == [t \in T |-> t.sub]
  <2>1. /\ f \in [T -> U]
        /\ \A x, y \in T : f[x] = f[y] => x = y
        /\ \A z \in U : \E x \in T : f[x] = z
    BY <1>6
  <2>. HIDE DEF f, U
  <2>. QED
    BY <1>8, <2>1, SameCount
<1>10. Cardinality(C) = Cardinality(G)
  <2>. DEFINE f == [sm \in C |-> thr[sm].id]
  <2>1. /\ f \in [C -> G]
        /\ \A x, y \in C : f[x] = f[y] => x = y
        /\ \A z \in G : \E x \in C : f[x] = z
    BY <1>4
  <2>. HIDE DEF f, G
  <2>. QED
    BY <1>8, <2>1, SameCount
<1>. HIDE DEF U, G
<1>11. Cardinality(U \cup G) = Cardinality(U) + Cardinality(G) - Cardinality({})
  BY <1>4, <1>8, FS_Union
<1>12. Cardinality(U) \in Nat /\ Cardinality(G) \in Nat /\ Cardinality({}) = 0
  BY <1>8, FS_CardinalityType, FS_EmptySet
<1>13. Cardinality(T) + Cardinality(C) = Numbers(u)
  <2>1. Cardinality(U \cup G) = Numbers(u)
    BY <1>5, <1>7, Zenon
  <2>. QED
    BY <1>2, <1>9, <1>10, <1>11, <1>12, <2>1
<1>. QED
  BY <1>2, <1>5, <1>9, <1>13 DEF T, C, U, G

(* From the first round on, the sub ids of a tile, with those a thread has *)
(* claimed, are 0 .. n-1, each once, and its counter is ahead only by the  *)
(* claims that came too late (plan.cuh's atomicAdd and its undo).          *)
THEOREM SubIdsDense == Spec => []SubIds
<1>1. ASSUME Consistent, phase \notin {"greedy", "fill"}, NEW u \in Tile,
             NEW n, n = Cardinality(TasksOf(tasks, u)) + Cardinality(Claims(u, "split"))
      PROVE  /\ n <= MaxSplits
             /\ subs[u] = n + Cardinality(Claims(u, "undo"))
             /\ Claims(u, "undo") # {} => n = MaxSplits
  <2>1. n \in Nat /\ n = Smaller(subs[u], MaxSplits)
    BY <1>1, IdsRight
  <2>2. subs[u] \in Nat /\ MaxSplits \in Nat /\ subs[u] = n + Cardinality(Claims(u, "undo"))
    BY <1>1, <2>1, Types DEF Consistent, Claimed
  <2>3. IsFiniteSet(Claims(u, "undo"))
    BY SmCount, FS_Subset DEF Claims
  <2>4. Cardinality(Claims(u, "undo")) \in Nat
    BY <2>3, FS_CardinalityType
  <2>5. ASSUME Claims(u, "undo") # {} PROVE Cardinality(Claims(u, "undo")) # 0
    BY <2>3, <2>5, FS_EmptySet
  <2>. QED
    BY <2>1, <2>2, <2>4, <2>5 DEF Smaller
<1>2. ASSUME Consistent, phase \notin {"greedy", "fill"}, NEW u \in Tile
      PROVE  LET won  == Claims(u, "split")
                 used == {t.sub : t \in TasksOf(tasks, u)}
                 ids  == used \cup {thr[sm].id : sm \in won}
                 n    == Cardinality(TasksOf(tasks, u)) + Cardinality(won)
             IN /\ ids = 0 .. (n - 1)
                /\ n <= MaxSplits
                /\ subs[u] = n + Cardinality(Claims(u, "undo"))
                /\ Claims(u, "undo") # {} => n = MaxSplits
  <2>. DEFINE n == Cardinality(TasksOf(tasks, u)) + Cardinality(Claims(u, "split"))
  <2>1. {t.sub : t \in TasksOf(tasks, u)} \cup {thr[sm].id : sm \in Claims(u, "split")} = 0 .. (n - 1)
    BY <1>2, IdsRight
  <2>2. /\ n <= MaxSplits
        /\ subs[u] = n + Cardinality(Claims(u, "undo"))
        /\ Claims(u, "undo") # {} => n = MaxSplits
    BY <1>1, <1>2
  <2>. QED
    BY <2>1, <2>2
<1>3. Consistent => SubIds
  BY <1>2 DEF SubIds
<1>. QED
  BY <1>3, Consistency, PTL

(* A plan without splits: every tile is one task over all its iterations.  *)
LEMMA WholeRuns ==
    ASSUME NEW work, NEW u \in Tile, WholeTiles(work, NumUnsplit), TypeOK
    PROVE  /\ CoversTile(work, u) /\ Cardinality(TasksOf(work, u)) = 1
           /\ {t.sub : t \in TasksOf(work, u)} = 0 .. (Cardinality(TasksOf(work, u)) - 1)
<1>1. u \in Nat /\ u < NumUnsplit
  BY Types
<1>2. PICK sm \in Sm : \A o \in Sm :
            {t \in work[o] : t.uid = u} = IF o = sm THEN {Task(u, 0, iters[u], 0)} ELSE {}
  BY <1>1 DEF WholeTiles
<1>. PICK w : w = Task(u, 0, iters[u], 0)
  OBVIOUS
<1>3. w = Task(u, 0, iters[u], 0) /\ w.uid = u /\ w.begin = 0 /\ w.end = iters[u] /\ w.sub = 0
  BY DEF Task
<1>4. w \in work[sm] /\ \A o \in Sm : \A s \in work[o] : s.uid = u => o = sm /\ s = w
  BY <1>2, <1>3
<1>5. TasksOf(work, u) = {w}
  BY <1>3, <1>4 DEF TasksOf
<1>6. ASSUME NEW i \in 0 .. (iters[u] - 1) PROVE Cardinality(Holders(work, u, i)) = 1
  <2>1. w.begin <= i /\ i < w.end
    BY <1>3, Types
  <2>2. \E o \in Sm : \E r \in work[o] :
              /\ r.uid = u /\ r.begin <= i /\ i < r.end
              /\ \A a \in Sm : \A s \in work[a] :
                    s.uid = u /\ s.begin <= i /\ i < s.end => a = o /\ s = r
    BY <1>3, <1>4, <2>1
  <2>. QED
    BY <2>2, OneHasIt
<1>7. Cardinality(TasksOf(work, u)) = 1
  BY <1>5, FS_Singleton
<1>8. {t.sub : t \in TasksOf(work, u)} = {0}
  BY <1>3, <1>5
<1>. QED
  BY <1>6, <1>7, <1>8 DEF CoversTile

(* num_kv_splits of a row is the most sub ids any of its tiles has.        *)
LEMMA SplitsRight ==
    ASSUME Consistent, phase \notin {"greedy", "fill", "pair"}, NEW u \in Tile
    PROVE  /\ subs[u] <= SplitsOfRow(u \div heads)
           /\ \E v \in Tile : v \div heads = u \div heads /\ subs[v] = SplitsOfRow(u \div heads)
<1>. DEFINE S == {1} \cup {subs[v] : v \in {x \in Tile : x \div heads = u \div heads}}
<1>1. \A v \in Tile : subs[v] \in Nat /\ subs[v] <= MaxSplits /\ subs[v] >= 1
  BY NoClaims DEF Consistent, Progress
<1>2. MaxSplits \in Nat \ {0}
  BY PlanAssumption
<1>3. S \in SUBSET Nat /\ S # {} /\ \A y \in S : y <= MaxSplits
  BY <1>1, <1>2
<1>4. u \in {x \in Tile : x \div heads = u \div heads} /\ subs[u] \in S
  OBVIOUS
<1>5. \A y \in S : y = 1 \/ \E v \in Tile : v \div heads = u \div heads /\ y = subs[v]
  OBVIOUS
<1>6. SplitsOfRow(u \div heads) = Largest(S)
  BY DEF SplitsOfRow
<1>. HIDE DEF S
<1>7. Largest(S) \in S /\ \A y \in S : y <= Largest(S)
  BY <1>2, <1>3, LargestRight
<1>8. CASE Largest(S) = 1
  BY <1>1, <1>4, <1>6, <1>7, <1>8
<1>9. CASE Largest(S) # 1
  BY <1>4, <1>5, <1>6, <1>7, <1>9
<1>. QED
  BY <1>8, <1>9

(* What is written can be run: every tile is covered, its sub ids are      *)
(* dense and below its row's num_kv_splits, which some tile of the row has *)
(* (phase3_write_output, and greedy's own output).                         *)
THEOREM Runnable == Spec => []PlanRunnable
<1>1. ASSUME Consistent, phase = "done", NEW u \in Tile, plan.split
      PROVE  /\ CoversTile(plan.work, u)
             /\ {t.sub : t \in TasksOf(plan.work, u)} = 0 .. (Cardinality(TasksOf(plan.work, u)) - 1)
             /\ Cardinality(TasksOf(plan.work, u)) <= plan.rows[u \div heads]
             /\ \E v \in Tile : /\ v \div heads = u \div heads
                                /\ Cardinality(TasksOf(plan.work, v)) = plan.rows[u \div heads]
  <2>1. plan.work = tasks /\ plan.rows = [r \in Row |-> SplitsOfRow(r)]
    BY <1>1 DEF Consistent, Written
  <2>2. plan.rows[u \div heads] = SplitsOfRow(u \div heads)
    BY <1>1, <2>1, TileRows DEF Consistent
  <2>3. ASSUME NEW v \in Tile
        PROVE  /\ Cardinality(TasksOf(tasks, v)) = subs[v]
               /\ {t.sub : t \in TasksOf(tasks, v)} = 0 .. (Cardinality(TasksOf(tasks, v)) - 1)
    <3>1. Claims(v, "split") = {} /\ Cardinality({}) = 0 /\ subs[v] \in Nat /\ subs[v] <= MaxSplits
      BY <1>1, NoClaims
    <3>2. /\ {t.sub : t \in TasksOf(tasks, v)} \cup {thr[sm].id : sm \in Claims(v, "split")}
                  = 0 .. (Numbers(v) - 1)
          /\ Cardinality(TasksOf(tasks, v)) + Cardinality(Claims(v, "split")) = Numbers(v)
          /\ Numbers(v) \in Nat /\ Numbers(v) = Smaller(subs[v], MaxSplits)
          /\ IsFiniteSet(TasksOf(tasks, v))
      BY <1>1, IdsRight
    <3>3. Numbers(v) = subs[v] /\ MaxSplits \in Nat
      BY <3>1, <3>2, PlanAssumption DEF Smaller
    <3>4. {thr[sm].id : sm \in Claims(v, "split")} = {} /\ Cardinality(Claims(v, "split")) = 0
      BY <3>1
    <3>5. Cardinality(TasksOf(tasks, v)) \in Nat
      BY <3>2, FS_CardinalityType
    <3>6. Cardinality(TasksOf(tasks, v)) = subs[v]
      BY <3>2, <3>3, <3>4, <3>5
    <3>7. {t.sub : t \in TasksOf(tasks, v)} = 0 .. (Numbers(v) - 1)
      BY <3>2, <3>4
    <3>. QED
      BY <3>3, <3>6, <3>7
  <2>4. CoversTile(tasks, u)
    BY <1>1, Covered
  <2>. QED
    BY <1>1, <2>1, <2>2, <2>3, <2>4, SplitsRight
<1>2. ASSUME Consistent, phase = "done", NEW u \in Tile, ~ plan.split
      PROVE  /\ CoversTile(plan.work, u)
             /\ {t.sub : t \in TasksOf(plan.work, u)} = 0 .. (Cardinality(TasksOf(plan.work, u)) - 1)
             /\ Cardinality(TasksOf(plan.work, u)) = 1
             /\ Cardinality(TasksOf(plan.work, u)) <= plan.rows[u \div heads]
  <2>1. WholeTiles(plan.work, NumUnsplit) /\ plan.rows = [r \in Row |-> 1]
    BY <1>2 DEF Consistent, Written
  <2>2. plan.rows[u \div heads] = 1
    BY <1>2, <2>1, TileRows DEF Consistent
  <2>. QED
    BY <1>2, <2>1, <2>2, WholeRuns DEF Consistent
<1>3. Consistent => PlanRunnable
  BY <1>1, <1>2 DEF PlanRunnable
<1>. QED
  BY <1>3, Consistency, PTL

(* No step makes the dearest SM dearer, and no pair swaps roles.           *)
THEOREM Downhill == Spec => NeverWorse
<1>. DEFINE Down == \A sm \in Sm : thr[sm] # Idle =>
                       cost'[thr[sm].to] <= cost'[sm] /\ cost'[sm] <= cost[sm]
<1>1. ASSUME Consistent, [Next]_vars, NEW sm \in Sm, thr[sm] # Idle
      PROVE  cost'[thr[sm].to] <= cost'[sm] /\ cost'[sm] <= cost[sm]
  <2>1. thr[sm].pc # "idle"
    BY <1>1 DEF Consistent, TypeOK
  <2>2. /\ phase = "pair" /\ thr[sm].to \in Sm /\ thr[sm].to # sm /\ thr[thr[sm].to].pc = "idle"
        /\ cost[sm] \in Int /\ cost[thr[sm].to] \in Int /\ cost[thr[sm].to] <= cost[sm]
    BY <1>1, <2>1, OfAPair
  <2>3. CASE UNCHANGED cost
    BY <2>2, <2>3
  <2>4. ASSUME NEW o \in Sm, MoveTask(o) \/ SplitTask(o)
        PROVE  cost'[thr[sm].to] <= cost'[sm] /\ cost'[sm] <= cost[sm]
    <3>1. thr[o].pc \in {"decide", "split"}
      BY <2>4 DEF MoveTask, SplitTask
    <3>2. thr[o].to \in Sm /\ thr[o].to # o /\ thr[thr[o].to].pc = "idle" /\ cost \in [Sm -> Int]
      BY <1>1, <3>1, OfAPair DEF Consistent, TypeOK
    <3>3. CASE o # sm
      <4>1. thr[o].to # sm /\ thr[o].to # thr[sm].to /\ thr[sm].to # o
        BY <1>1, <2>1, <2>2, <3>1, <3>2, <3>3 DEF Consistent, Paired
      <4>2. cost'[sm] = cost[sm] /\ cost'[thr[sm].to] = cost[thr[sm].to]
        BY <2>2, <2>4, <3>2, <3>3, <4>1 DEF MoveTask, SplitTask
      <4>. QED
        BY <2>2, <4>2
    <3>4. CASE o = sm /\ MoveTask(sm)
      <4>1. PICK t \in tasks[sm] :
               /\ 2 * PieceCost(Len(t)) <= PairGap(sm)
               /\ cost' = [cost EXCEPT ![sm] = @ - PieceCost(Len(t)),
                                       ![thr[sm].to] = @ + PieceCost(Len(t))]
        BY <3>4 DEF MoveTask, Movable
      <4>2. PICK c \in Nat : c = PieceCost(Len(t))
        BY <1>1, OfATask
      <4>3. 2 * c <= cost[sm] - cost[thr[sm].to]
        BY <4>1, <4>2 DEF PairGap
      <4>4. cost'[sm] = cost[sm] - c /\ cost'[thr[sm].to] = cost[thr[sm].to] + c
        BY <2>2, <3>2, <4>1, <4>2
      <4>. QED
        BY <2>2, <4>2, <4>3, <4>4
    <3>5. CASE o = sm /\ SplitTask(sm)
      <4>1. thr[sm].pc = "split"
        BY <3>5 DEF SplitTask
      <4>2. PICK t \in tasks[sm] : t = thr[sm].task
        BY <1>1, <4>1 DEF Consistent, Paired
      <4>3. PICK k \in Nat : k = thr[sm].keep /\ k < Len(t)
        BY <1>1, <4>1, <4>2 DEF Consistent, Paired
      <4>4. t.begin \in Nat /\ t.end \in Nat
        BY <1>1, OfATask
      <4>5. PICK moved \in Nat : moved = PerIterOverhead * (t.end - (t.begin + k))
        BY <4>3, <4>4 DEF Len, PerIterOverhead
      <4>6. 2 * PerIterOverhead * (Len(t) - k) + TileGlobalOverhead <= cost[sm] - cost[thr[sm].to]
        BY <1>1, <4>1, <4>2, <4>3 DEF Consistent, Paired, PairGap
      <4>7. 2 * moved + TileGlobalOverhead <= cost[sm] - cost[thr[sm].to]
        BY <4>3, <4>4, <4>5, <4>6 DEF Len, PerIterOverhead, TileGlobalOverhead
      <4>8. cost' = [cost EXCEPT ![sm] = @ - moved, ![thr[sm].to] = @ + moved + TileGlobalOverhead]
        BY <3>5, <4>2, <4>3, <4>5 DEF SplitTask
      <4>9. /\ cost'[sm] = cost[sm] - moved
            /\ cost'[thr[sm].to] = cost[thr[sm].to] + moved + TileGlobalOverhead
        BY <2>2, <3>2, <4>8
      <4>. QED
        BY <2>2, <4>5, <4>7, <4>9 DEF TileGlobalOverhead
    <3>. QED
      BY <2>4, <3>3, <3>4, <3>5
  <2>5. \/ UNCHANGED cost
        \/ \E o \in Sm : MoveTask(o) \/ SplitTask(o)
    BY <1>1, <2>2 DEF Next, Block, Thread, Stop, vars, GreedyBatch, GreedyEnd, FillPiece, FillEnd,
       RoundStart, RoundsEnd, RoundEnd, Write, ClaimSplit, LeaveAlone, UndoClaim
  <2>. QED
    BY <2>3, <2>4, <2>5
<1>2. Consistent /\ [Next]_vars => [Down]_vars
  BY <1>1
<1>. HIDE DEF Down
<1>3. Spec => [][Down]_vars
  BY <1>2, Consistency, PTL DEF Spec
<1>. QED
  BY <1>3 DEF NeverWorse, Down

(* Fewer tiles than eight for ten SMs, in MaxSplits pieces each, cannot    *)
(* fill every SM: one with room is left.                                   *)
LEMMA TooFewToFill ==
    ASSUME NEW n \in Nat, NEW b \in Nat, NEW m \in Nat, NEW k \in Nat, 10 * n < 8 * b, 8 * m < 10 * k
    PROVE  n * m < b * k
<1>1. (10 * n) * (8 * m) <= (8 * b) * (8 * m)
  <2>0. 8 * b - 10 * n \in Nat
    OBVIOUS
  <2>1. PICK d \in Nat : d = 8 * b - 10 * n
    BY <2>0
  <2>2. (8 * b) * (8 * m) = (10 * n) * (8 * m) + d * (8 * m) /\ d * (8 * m) >= 0
    BY <2>1
  <2>. QED
    BY <2>2
<1>2. (8 * b) * (8 * m) < (8 * b) * (10 * k)
  <2>0. 10 * k - 8 * m \in Nat \ {0}
    OBVIOUS
  <2>1. PICK d \in Nat \ {0} : d = 10 * k - 8 * m
    BY <2>0
  <2>2. (8 * b) * (10 * k) = (8 * b) * (8 * m) + (8 * b) * d /\ (8 * b) * d > 0
    BY <2>1
  <2>. QED
    BY <2>2
<1>3. (10 * n) * (8 * m) = 80 * (n * m) /\ (8 * b) * (10 * k) = 80 * (b * k)
  OBVIOUS
<1>. QED
  BY <1>1, <1>2, <1>3

(* Where the fill puts its next piece there is room for it.                *)
LEMMA RoomLeft ==
    ASSUME Consistent, FillFits, phase = "fill"
    PROVE  Cardinality(tasks[Place.sm]) \in Nat /\ Cardinality(tasks[Place.sm]) < MaxTasks
<1>. DEFINE open   == {sm \in Sm : sm >= next.sm /\ ~Full(sm)}
            fewest == {sm \in Sm : \A o \in Sm : Cardinality(tasks[sm]) <= Cardinality(tasks[o])}
<1>1. /\ Place.sm = (IF open = {} THEN Smallest(fewest) ELSE Smallest(open))
      /\ Place.sm \in Sm
  BY PlaceRight DEF Place
<1>2. \A sm \in Sm : Cardinality(tasks[sm]) \in Nat /\ IsFiniteSet(tasks[sm])
  BY FS_CardinalityType, Types DEF Consistent
<1>3. CASE open # {}
  <2>1. open \in SUBSET Nat
    BY SmCount
  <2>2. Smallest(open) \in open
    <3>. HIDE DEF open
    <3>. QED
      BY <1>3, <2>1, SmallestRight
  <2>. QED
    BY <1>1, <1>2, <1>3, <2>2, PlanAssumption DEF Full
<1>4. CASE open = {}
  <2>1. Place.sm \in fewest
    <3>1. fewest \in SUBSET Nat /\ fewest # {}
      BY SmCount, SomeFewest
    <3>2. Smallest(fewest) \in fewest
      <4>. HIDE DEF fewest
      <4>. QED
        BY <3>1, SmallestRight
    <3>. QED
      BY <1>1, <1>4, <3>2
  <2>2. SUFFICES ASSUME \A sm \in Sm : Cardinality(tasks[sm]) >= MaxTasks PROVE FALSE
    <3>1. \A sm \in Sm : Cardinality(tasks[Place.sm]) <= Cardinality(tasks[sm])
      BY <2>1
    <3>2. MaxTasks \in Nat
      BY PlanAssumption
    <3>. QED
      BY <1>1, <1>2, <3>1, <3>2
  <2>. DEFINE Q == Tile \X (0 .. (MaxSplits - 1))
              key == [t \in TaskRecord |-> <<t.uid, t.sub>>]
  <2>3. MaxSplits \in Nat /\ MaxTasks \in Nat /\ NumBuckets \in Nat /\ NumUnsplit \in Nat
    BY PlanAssumption, Types DEF Consistent
  <2>4. IsFiniteSet(Q) /\ Cardinality(Q) = NumUnsplit * MaxSplits
    <3>1. IsFiniteSet(Tile) /\ Cardinality(Tile) = NumUnsplit
      BY <2>3, FS_Interval DEF Tile
    <3>2. IsFiniteSet(0 .. (MaxSplits - 1)) /\ Cardinality(0 .. (MaxSplits - 1)) = MaxSplits
      BY <2>3, FS_Interval
    <3>. QED
      BY <3>1, <3>2, FS_Product
  <2>5. ASSUME NEW sm \in Sm, NEW t \in tasks[sm] PROVE key[t] = <<t.uid, t.sub>> /\ key[t] \in Q
    <3>1. t \in TaskRecord /\ t.uid \in Tile /\ t.sub \in Nat /\ t.sub < Numbers(t.uid)
      BY OfATask DEF Consistent, InTile
    <3>2. Numbers(t.uid) <= MaxSplits
      <4>1. t.uid \in Nat /\ next.u \in Nat /\ next.sub \in Nat
        BY <3>1, Types DEF Consistent
      <4>2. CASE t.uid < next.u
        BY <2>3, <3>1, <4>2 DEF Consistent, Progress, Numbers
      <4>3. CASE t.uid = next.u
        BY <2>3, <3>1, <4>1, <4>3 DEF Consistent, Progress, Numbers
      <4>4. CASE next.u < t.uid
        BY <2>3, <4>1, <4>4 DEF Numbers
      <4>. QED
        BY <4>1, <4>2, <4>3, <4>4
    <3>3. Numbers(t.uid) \in Int
      BY <3>1, Types DEF Consistent, Numbers
    <3>. QED
      BY <2>3, <3>1, <3>2, <3>3
  <2>6. \A a, b \in Sm : \A s \in tasks[a], t \in tasks[b] : key[s] = key[t] => a = b /\ s = t
    BY <2>5 DEF Consistent, Apart
  <2>7. \A a \in Sm : \A t \in tasks[a] : key[t] \in Q
    BY <2>5
  <2>8. \A a \in Sm : IsFiniteSet(tasks[a]) /\ Cardinality(tasks[a]) >= MaxTasks
    BY <1>2, <2>2
  <2>9. Cardinality(Sm) * MaxTasks <= Cardinality(Q)
    <3>. HIDE DEF Q, key
    <3>. QED
      BY <2>3, <2>4, <2>6, <2>7, <2>8, SmCount, Spread
  <2>10. NumUnsplit * MaxSplits < NumBuckets * MaxTasks
    BY <2>3, TooFewToFill, FillAssumption DEF FillFits
  <2>11. NumUnsplit * MaxSplits \in Int /\ NumBuckets * MaxTasks \in Int
    BY <2>3
  <2>. QED
    BY <2>4, <2>9, <2>10, <2>11, SmCount
<1>. QED
  BY <1>3, <1>4

(* The fill never puts more tasks on an SM than its arrays hold, so its    *)
(* way out for a tile that finds no room is never taken (plan.cuh:563).    *)
THEOREM FillWithin == Spec => []FillFits
<1>1. Init => FillFits
  BY DEF Init, FillFits
<1>2. ASSUME Consistent, FillFits, [Next]_vars PROVE FillFits'
  <2>1. CASE FillPiece /\ UNCHANGED heads
    <3>1. PICK w : tasks' = [tasks EXCEPT ![Place.sm] = @ \cup {w}]
      BY <2>1 DEF FillPiece
    <3>2. phase = "fill" /\ UNCHANGED <<iters, phase>> /\ NumUnsplit' = NumUnsplit
      BY <2>1, Fixed DEF FillPiece
    <3>3. ASSUME NEW sm \in Sm PROVE Cardinality(tasks'[sm]) <= MaxTasks
      <4>1. CASE sm # Place.sm
        BY <1>2, <3>1, <3>2, <4>1 DEF FillFits, TasksFit, Consistent, TypeOK
      <4>2. CASE sm = Place.sm
        <5>1. IsFiniteSet(tasks[sm]) /\ tasks'[sm] = tasks[sm] \cup {w}
          BY <1>2, <3>1, <4>2 DEF Consistent, TypeOK
        <5>2. Cardinality(tasks[sm]) \in Nat /\ Cardinality(tasks[sm]) < MaxTasks /\ MaxTasks \in Nat
          BY <1>2, <3>2, <4>2, RoomLeft, PlanAssumption
        <5>3. Cardinality(tasks'[sm]) = IF w \in tasks[sm] THEN Cardinality(tasks[sm])
                                                           ELSE Cardinality(tasks[sm]) + 1
          BY <5>1, FS_AddElement
        <5>. QED
          BY <5>2, <5>3
      <4>. QED
        BY <4>1, <4>2
    <3>. QED
      BY <1>2, <3>2, <3>3 DEF FillFits, TasksFit
  <2>2. CASE GreedyEnd /\ UNCHANGED heads
    <3>1. SUFFICES ASSUME phase' = "fill" PROVE FillFits'
      BY DEF FillFits
    <3>2. 10 * NumUnsplit < 8 * NumBuckets /\ tasks' = NoTasks /\ NumUnsplit' = NumUnsplit
      BY <2>2, <3>1, Fixed DEF GreedyEnd, FillReset
    <3>3. \A sm \in Sm : Cardinality(tasks'[sm]) <= MaxTasks
      <4>1. \A sm \in Sm : tasks'[sm] = {}
        BY <3>2 DEF NoTasks
      <4>2. Cardinality({}) = 0 /\ MaxTasks \in Nat
        BY FS_EmptySet, PlanAssumption
      <4>. QED
        BY <4>1, <4>2
    <3>. QED
      BY <3>2, <3>3 DEF FillFits, TasksFit
  <2>3. CASE UNCHANGED vars
    BY <1>2, <2>3 DEF vars, FillFits, TasksFit, NumUnsplit
  <2>4. CASE GreedyBatch
    BY <2>4 DEF GreedyBatch, FillFits
  <2>5. CASE FillEnd \/ RoundStart \/ RoundsEnd \/ RoundEnd \/ Write
    BY <2>5 DEF FillEnd, RoundStart, RoundsEnd, RoundEnd, Write, FillFits
  <2>6. CASE \E sm \in Sm : Thread(sm)
    BY <2>6 DEF Thread, MoveTask, ClaimSplit, LeaveAlone, SplitTask, UndoClaim, FillFits
  <2>. QED
    BY <1>2, <2>1, <2>2, <2>3, <2>4, <2>5, <2>6 DEF Next, Block, Stop
<1>. QED
  BY <1>1, <1>2, Consistency, PTL DEF Spec

(* The inductive invariant holds in every state.                           *)
THEOREM Invariance == Spec => []PlanIInv
BY Consistency, FillWithin, PTL DEF PlanIInv

-----------------------------------------------------------------------------
(***************************************************************************)
(* The planner of a given number of splits: DirectSpec => []GivenRunnable. *)
(* That the second pass stays within what the first one counted is no      *)
(* matter of a single state: it repeats the first.  A trace t remembers    *)
(* the SMs' costs and counts at the start of each batch; what the first    *)
(* pass does extends it, and what the second does is found in it.  The     *)
(* invariant says that there is such a trace.                              *)
(***************************************************************************)
\* Where the loops end, and the pieces: a batch is named by its first one.
Past == [row |-> GivenRows, sp |-> 0, head |-> 0]

Pieces ==
    {b \in [row : GivenRow, sp : Nat, head : Nat] : b.sp < Splits(b.row) /\ b.head < GivenHeads}

Before(a, b) ==
    \/ a.row < b.row
    \/ a.row = b.row /\ a.sp < b.sp
    \/ a.row = b.row /\ a.sp = b.sp /\ a.head < b.head

PiecesBefore(b) == Total(PiecesOf, 0 .. (b.row - 1)) + b.sp * GivenHeads + b.head

\* The batch the costs and counts belong to, and the last one of the trace.
Here  == IF InPass THEN at ELSE Past
Front == IF gphase = "pass1" THEN at ELSE Past

Ledger == [cost : [Bucket -> Int], count : [Bucket -> Nat]]

\* What the batch b makes of the ledger s.
After(s, b) ==
    [cost  |-> [sm \in Bucket |-> s.cost[sm] + (IF Rank(s.cost, sm) < CountAt(b)
                                                THEN PieceCost(End(b.row, b.sp) - Begin(b.row, b.sp))
                                                ELSE 0)],
     count |-> [sm \in Bucket |-> s.count[sm] + (IF Rank(s.cost, sm) < CountAt(b) THEN 1 ELSE 0)]]

Now(t, sm) == IF th[sm].pc = "gave" THEN After(t[Here], Here) ELSE t[Here]

-----------------------------------------------------------------------------
Type ==
    /\ giters \in [GivenRow -> Nat \ {0}]
    /\ gphase \in {"pass1", "offsets", "pass2", "ranges", "done"}
    /\ at \in Pieces
    /\ th \in [Bucket -> [pc : {"look", "ranked", "gave"}, rank : Nat]]
    /\ gcost \in [Bucket -> Int] /\ count \in [Bucket -> Nat] /\ offset \in [Bucket -> Int]
    /\ rows \in [GivenRow -> Nat]

\* The barriers: no thread looks once one has taken its piece.
Gate ==
    /\ ~ InPass => at = First /\ th = Looking
    /\ \A sm, o \in Bucket : th[sm].pc = "gave" => th[o].pc # "look"

\* Thread 0 has written the number of splits of the rows before.
RowsTold ==
    \A r \in GivenRow :
        \/ gphase \in {"ranges", "done"}
        \/ gphase = "pass2" /\ (r < at.row \/ (r = at.row /\ th[0].pc = "gave"))
        => rows[r] = Splits(r)

\* The pieces the SMs have taken in this pass.
HandedOut(p) ==
    \/ Before(p, Here)
    \/ \E sm \in Bucket : /\ th[sm].pc = "gave" /\ th[sm].rank < CountAt(at)
                          /\ p.row = at.row /\ p.sp = at.sp /\ p.head = at.head + th[sm].rank

\* The positions of the work list written so far.
Filled == UNION {offset[sm] .. (offset[sm] + count[sm] - 1) : sm \in Bucket}

\* They hold the pieces handed out, each once.
WorkList ==
    gphase \in {"pass2", "ranges", "done"} =>
        /\ \A pos \in Filled :
              /\ pos \in DOMAIN gwork
              /\ \E p \in Pieces : HandedOut(p) /\ gwork[pos] = Item(p.row, p.sp, p.head)
        /\ \A p \in Pieces :
              HandedOut(p) => \E pos \in Filled : gwork[pos] = Item(p.row, p.sp, p.head)
        /\ \A pos, q \in Filled : gwork[pos] = gwork[q] => pos = q

Ranged == gphase = "done" => \A sm \in Bucket : range[sm] = <<offset[sm], offset[sm] + count[sm]>>

\* The trace: the ledgers at the start of each batch.
Entries(t) ==
    /\ First \in DOMAIN t /\ Here \in DOMAIN t /\ Front \in DOMAIN t
    /\ t[First] = [cost |-> Overhead, count |-> Zeros]
    /\ \A b \in DOMAIN t : t[b] \in Ledger /\ Total(t[b].count, Bucket) = PiecesBefore(b)

Turns(t) ==
    \A b \in DOMAIN t : b # Front =>
        /\ b \in Pieces /\ Before(b, Front)
        /\ Following(b) \in DOMAIN t /\ t[Following(b)] = After(t[b], b)
        /\ \A sm \in Bucket : t[Following(b)].count[sm] <= t[Front].count[sm]

Accounts(t) ==
    \A sm \in Bucket :
        /\ gcost[sm] = Now(t, sm).cost[sm] /\ count[sm] = Now(t, sm).count[sm]
        /\ th[sm].pc # "look" => th[sm].rank = Rank(t[Here].cost, sm)

Apportioned(t) ==
    gphase \in {"pass2", "ranges", "done"} =>
        \A sm \in Bucket : offset[sm] = Total(t[Past].count, 0 .. (sm - 1))

Told(t) == Entries(t) /\ Turns(t) /\ Accounts(t) /\ Apportioned(t)

GivenIInv == Type /\ Gate /\ RowsTold /\ WorkList /\ Ranged /\ \E t : Told(t)

-----------------------------------------------------------------------------
(***************************************************************************)
(* What the operators of the loops compute.                                *)
(***************************************************************************)
RowsType == giters \in [GivenRow -> Nat \ {0}]

(* A row's splits, and the iterations of each: together they cover all of  *)
(* its iterations.                                                         *)
LEMMA RowSplits ==
    ASSUME RowsType, NEW r \in GivenRow
    PROVE  Splits(r) \in Nat \ {0} /\ Chunk(r) \in Nat \ {0} /\ giters[r] <= Chunk(r) * Splits(r)
<1>. DEFINE g == giters[r]  s == Splits(r)
<1>1. g \in Nat \ {0} /\ g \div MinItersPerSplit \in Nat
  BY DEF RowsType, MinItersPerSplit
<1>2. s \in Nat \ {0}
  BY <1>1, GivenAssumption DEF Splits, Smaller, Larger
<1>3. Chunk(r) = (g + s - 1) \div s
  BY DEF Chunk, CeilDiv
<1>. HIDE DEF g, s
<1>. DEFINE a == g + s - 1  q == (g + s - 1) \div s
<1>4. a \in Nat
  BY <1>1, <1>2
<1>5. a = q * s + (a % s) /\ a % s \in 0 .. (s - 1) /\ q \in Nat
  BY <1>2, <1>4, Euclid
<1>. DEFINE m == a % s
<1>6. a = q * s + m /\ m \in 0 .. (s - 1) /\ q * s \in Int
  BY <1>2, <1>5
<1>7. a = g + s - 1
  OBVIOUS
<1>. HIDE DEF a, m, q
<1>8. g <= q * s
  BY <1>1, <1>2, <1>6, <1>7
<1>9. q # 0
  BY <1>1, <1>2, <1>8
<1>. QED
  BY <1>2, <1>3, <1>5, <1>8, <1>9 DEF g, s, q

(* The pieces of the rows before a row.                                     *)
LEMMA PiecesRight ==
    ASSUME RowsType
    PROVE  \A r \in 0 .. GivenRows :
              /\ Total(PiecesOf, 0 .. (r - 1)) \in Int
              /\ r < GivenRows => Total(PiecesOf, 0 .. ((r + 1) - 1))
                                   = Total(PiecesOf, 0 .. (r - 1)) + Splits(r) * GivenHeads
<1>1. GivenRows \in Nat /\ GivenHeads \in Nat
  BY GivenAssumption
<1>2. \A r \in 0 .. (GivenRows - 1) : PiecesOf[r] = Splits(r) * GivenHeads /\ PiecesOf[r] \in Nat
  <2>1. ASSUME NEW r \in GivenRow PROVE PiecesOf[r] = Splits(r) * GivenHeads /\ PiecesOf[r] \in Nat
    <3>1. Splits(r) \in Nat
      BY RowSplits
    <3>2. PiecesOf[r] = Splits(r) * GivenHeads
      BY DEF PiecesOf
    <3>. QED
      BY <1>1, <3>1, <3>2
  <2>. QED
    BY <2>1 DEF GivenRow
<1>3. \A r \in 0 .. GivenRows :
        /\ Total(PiecesOf, 0 .. (r - 1)) \in Int
        /\ r < GivenRows => Total(PiecesOf, 0 .. ((r + 1) - 1))
                             = Total(PiecesOf, 0 .. (r - 1)) + PiecesOf[r]
  BY <1>1, <1>2, Running
<1>. QED
  BY <1>1, <1>2, <1>3

(* The batches: the next one begins where this one ends, and the last one  *)
(* ends where the loops do.                                                *)
LEMMA FollowingRight ==
    ASSUME RowsType, NEW b \in Pieces
    PROVE  /\ CountAt(b) \in 1 .. GivenSms /\ b.head + CountAt(b) <= GivenHeads
           /\ Following(b) \in Pieces \/ Following(b) = Past
           /\ Following(b).row < GivenRows <=> Following(b) \in Pieces
           /\ Before(b, Following(b))
           /\ \A p \in Pieces :
                 Before(p, Following(b)) <=>
                    \/ Before(p, b)
                    \/ /\ p.row = b.row /\ p.sp = b.sp
                       /\ p.head \in b.head .. (b.head + CountAt(b) - 1)
           /\ PiecesBefore(Following(b)) = PiecesBefore(b) + CountAt(b)
<1>. DEFINE c == CountAt(b)  n == Following(b)  s == Splits(b.row)
<1>1. /\ GivenSms \in Nat \ {0} /\ GivenRows \in Nat \ {0} /\ GivenHeads \in Nat \ {0}
      /\ b \in [row : GivenRow, sp : Nat, head : Nat] /\ b.sp < s /\ b.head < GivenHeads
  BY GivenAssumption DEF Pieces
<1>2. b.row \in Nat /\ b.row < GivenRows /\ b.sp \in Nat /\ b.head \in Nat /\ s \in Nat \ {0}
  BY <1>1, RowSplits DEF GivenRow
<1>3. c \in 1 .. GivenSms /\ b.head + c <= GivenHeads /\ (c = GivenSms \/ b.head + c = GivenHeads)
  BY <1>1, <1>2 DEF CountAt, Smaller
<1>4. ASSUME NEW p \in Pieces
      PROVE  p.row \in Nat /\ p.row < GivenRows /\ p.sp \in Nat /\ p.head \in Nat /\ p.head < GivenHeads
             /\ (p.row = b.row => p.sp < s)
  BY <1>1 DEF Pieces, GivenRow
<1>5. CASE b.head + c < GivenHeads
  <2>1. n = [row |-> b.row, sp |-> b.sp, head |-> b.head + c]
    BY <1>5 DEF Following
  <2>2. n \in Pieces
    BY <1>1, <1>2, <1>3, <1>5, <2>1 DEF Pieces
  <2>. HIDE DEF n, c, s
  <2>3. Before(b, n)
    BY <1>2, <1>3, <2>1 DEF Before
  <2>4. ASSUME NEW p \in Pieces
        PROVE  Before(p, n) <=> \/ Before(p, b)
                                \/ p.row = b.row /\ p.sp = b.sp /\ p.head \in b.head .. (b.head + c - 1)
    BY <1>2, <1>3, <1>4, <2>1 DEF Before
  <2>5. PiecesBefore(n) = PiecesBefore(b) + c
    <3>. DEFINE P == Total(PiecesOf, 0 .. (b.row - 1))
    <3>1. PiecesBefore(n) = P + b.sp * GivenHeads + (b.head + c)
      BY <2>1 DEF PiecesBefore
    <3>2. PiecesBefore(b) = P + b.sp * GivenHeads + b.head
      BY DEF PiecesBefore
    <3>3. P \in Int
      BY <1>1, <1>2, PiecesRight
    <3>. HIDE DEF P
    <3>. QED
      BY <1>1, <1>2, <1>3, <3>1, <3>2, <3>3
  <2>6. n.row < GivenRows
    BY <1>2, <2>1
  <2>. QED
    BY <1>3, <2>2, <2>3, <2>4, <2>5, <2>6 DEF n, c
<1>6. CASE b.head + c = GivenHeads /\ b.sp + 1 < s
  <2>1. n = [row |-> b.row, sp |-> b.sp + 1, head |-> 0]
    BY <1>1, <1>6 DEF Following
  <2>2. n \in Pieces
    BY <1>1, <1>2, <1>6, <2>1 DEF Pieces
  <2>. HIDE DEF n, c, s
  <2>3. Before(b, n)
    BY <1>2, <1>3, <2>1 DEF Before
  <2>4. ASSUME NEW p \in Pieces
        PROVE  Before(p, n) <=> \/ Before(p, b)
                                \/ p.row = b.row /\ p.sp = b.sp /\ p.head \in b.head .. (b.head + c - 1)
    BY <1>2, <1>3, <1>4, <1>6, <2>1 DEF Before
  <2>5. PiecesBefore(n) = PiecesBefore(b) + c
    <3>. DEFINE P == Total(PiecesOf, 0 .. (b.row - 1))
    <3>1. PiecesBefore(n) = P + (b.sp + 1) * GivenHeads + 0
      BY <2>1 DEF PiecesBefore
    <3>2. PiecesBefore(b) = P + b.sp * GivenHeads + b.head
      BY DEF PiecesBefore
    <3>3. P \in Int
      BY <1>1, <1>2, PiecesRight
    <3>4. (b.sp + 1) * GivenHeads = b.sp * GivenHeads + GivenHeads
      BY <1>1, <1>2
    <3>. HIDE DEF P
    <3>. QED
      BY <1>1, <1>2, <1>3, <1>6, <3>1, <3>2, <3>3, <3>4
  <2>6. n.row < GivenRows
    BY <1>2, <2>1
  <2>. QED
    BY <1>3, <2>2, <2>3, <2>4, <2>5, <2>6 DEF n, c
<1>7. CASE b.head + c = GivenHeads /\ b.sp + 1 = s
  <2>1. n = [row |-> b.row + 1, sp |-> 0, head |-> 0]
    BY <1>1, <1>2, <1>7 DEF Following
  <2>2. (n \in Pieces \/ n = Past) /\ (n.row < GivenRows <=> n \in Pieces)
    <3>1. CASE b.row + 1 < GivenRows
      <4>1. b.row + 1 \in GivenRow
        BY <1>1, <1>2, <3>1 DEF GivenRow
      <4>2. Splits(b.row + 1) \in Nat \ {0}
        BY <4>1, RowSplits
      <4>3. n \in [row : GivenRow, sp : Nat, head : Nat]
        BY <2>1, <4>1
      <4>4. n.row = b.row + 1 /\ n.sp = 0 /\ n.head = 0
        BY <2>1
      <4>. HIDE DEF n
      <4>5. n.sp < Splits(n.row) /\ n.head < GivenHeads
        BY <1>1, <4>2, <4>4
      <4>. QED
        BY <3>1, <4>3, <4>4, <4>5 DEF Pieces
    <3>2. CASE b.row + 1 = GivenRows
      <4>1. n = Past
        BY <2>1, <3>2 DEF Past
      <4>2. n \notin Pieces
        BY <1>1, <2>1, <3>2 DEF Pieces, GivenRow
      <4>. QED
        BY <1>1, <2>1, <3>2, <4>1, <4>2
    <3>. QED
      BY <1>1, <1>2, <3>1, <3>2
  <2>. HIDE DEF n, c, s
  <2>3. Before(b, n)
    BY <1>2, <1>3, <2>1 DEF Before
  <2>4. ASSUME NEW p \in Pieces
        PROVE  Before(p, n) <=> \/ Before(p, b)
                                \/ p.row = b.row /\ p.sp = b.sp /\ p.head \in b.head .. (b.head + c - 1)
    BY <1>2, <1>3, <1>4, <1>7, <2>1 DEF Before
  <2>5. PiecesBefore(n) = PiecesBefore(b) + c
    <3>. DEFINE P == Total(PiecesOf, 0 .. (b.row - 1))  Q == Total(PiecesOf, 0 .. ((b.row + 1) - 1))
    <3>1. PiecesBefore(n) = Q + 0 * GivenHeads + 0
      BY <2>1 DEF PiecesBefore
    <3>2. PiecesBefore(b) = P + b.sp * GivenHeads + b.head
      BY DEF PiecesBefore
    <3>3. P \in Int /\ Q = P + s * GivenHeads
      <4>1. b.row \in 0 .. GivenRows /\ b.row < GivenRows
        BY <1>1, <1>2
      <4>. QED
        BY <4>1, PiecesRight DEF s
    <3>. DEFINE m == b.sp * GivenHeads
    <3>4. s * GivenHeads = m + GivenHeads /\ m \in Nat
      BY <1>1, <1>2, <1>7
    <3>5. PiecesBefore(n) = Q /\ PiecesBefore(b) = P + m + b.head
      BY <1>1, <3>1, <3>2, <3>3, <3>4
    <3>. HIDE DEF P, Q, m
    <3>. QED
      BY <1>1, <1>2, <1>3, <1>7, <3>3, <3>4, <3>5
  <2>. QED
    BY <1>3, <2>2, <2>3, <2>4, <2>5 DEF n, c
<1>8. b.head + c < GivenHeads \/ (b.head + c = GivenHeads /\ (b.sp + 1 < s \/ b.sp + 1 = s))
  <2>. HIDE DEF c, s
  <2>. QED
    BY <1>1, <1>2, <1>3
<1>. QED
  BY <1>5, <1>6, <1>7, <1>8

(* A split's iterations: those whose quotient by the chunk is its number.   *)
LEMMA IterationsRight ==
    ASSUME RowsType, NEW r \in GivenRow
    PROVE  /\ \A sp \in Nat : Begin(r, sp) \in Nat /\ End(r, sp) \in Nat
           /\ \A i \in 0 .. (giters[r] - 1) :
                 \E q \in 0 .. (Splits(r) - 1) :
                    \A sp \in Nat : (Begin(r, sp) <= i /\ i < End(r, sp)) <=> sp = q
<1>. DEFINE c == Chunk(r)  g == giters[r]  s == Splits(r)
<1>1. c \in Nat \ {0} /\ s \in Nat \ {0} /\ g \in Nat \ {0} /\ g <= c * s
  BY RowSplits DEF RowsType
<1>2. ASSUME NEW sp \in Nat
      PROVE  /\ sp * c \in Nat /\ Begin(r, sp) = sp * c
             /\ End(r, sp) = IF sp * c + c < g THEN sp * c + c ELSE g
  BY <1>1 DEF Begin, End, Smaller
<1>. HIDE DEF c, g, s
<1>3. ASSUME NEW i \in 0 .. (g - 1)
      PROVE  \E q \in 0 .. (s - 1) : \A sp \in Nat : (Begin(r, sp) <= i /\ i < End(r, sp)) <=> sp = q
  <2>. DEFINE q == i \div c
  <2>1. i \in Nat /\ i < g
    BY <1>1, <1>3
  <2>2. i = q * c + (i % c) /\ i % c \in 0 .. (c - 1) /\ q \in Nat
    BY <1>1, <2>1, Euclid
  <2>. DEFINE m == i % c
  <2>3. i = q * c + m /\ m \in 0 .. (c - 1) /\ q * c \in Nat
    BY <1>1, <2>2
  <2>. HIDE DEF q, m
  <2>4. q < s
    <3>1. ASSUME s <= q PROVE FALSE
      <4>1. s * c <= q * c
        BY <1>1, <2>2, <3>1, Groups
      <4>2. c * s = s * c /\ s * c \in Nat
        BY <1>1
      <4>. QED
        BY <1>1, <2>1, <2>3, <4>1, <4>2
    <3>. QED
      BY <1>1, <2>2, <3>1
  <2>5. ASSUME NEW sp \in Nat PROVE (Begin(r, sp) <= i /\ i < End(r, sp)) <=> sp = q
    <3>1. /\ sp * c \in Nat /\ Begin(r, sp) = sp * c
          /\ End(r, sp) = IF sp * c + c < g THEN sp * c + c ELSE g
      BY <1>2
    <3>2. (Begin(r, sp) <= i /\ i < End(r, sp)) <=> (sp * c <= i /\ i < sp * c + c)
      BY <1>1, <2>1, <3>1
    <3>3. sp < q => sp * c + c <= q * c
      BY <1>1, <2>2, Groups
    <3>4. q < sp => q * c + c <= sp * c
      BY <1>1, <2>2, Groups
    <3>. QED
      BY <1>1, <2>2, <2>3, <3>1, <3>2, <3>3, <3>4
  <2>6. q \in 0 .. (s - 1)
    BY <1>1, <2>2, <2>4
  <2>. QED
    BY <2>5, <2>6
<1>4. ASSUME NEW sp \in Nat PROVE Begin(r, sp) \in Nat /\ End(r, sp) \in Nat
  BY <1>1, <1>2
<1>. QED
  BY <1>3, <1>4 DEF g, s

(* Each piece of a batch has one SM that takes it.                         *)
LEMMA Ranks ==
    ASSUME NEW costs \in [Bucket -> Int]
    PROVE  /\ \A sm \in Bucket : Rank(costs, sm) \in Nat
           /\ \A a, b \in Bucket : Rank(costs, a) = Rank(costs, b) => a = b
           /\ \A k \in 0 .. (GivenSms - 1) : \E sm \in Bucket : Rank(costs, sm) = k
BY GivenAssumption, RankRight DEF Bucket

(* A batch adds as many pieces as it has, and takes none away.             *)
LEMMA AfterRight ==
    ASSUME RowsType, NEW s \in Ledger, NEW b \in Pieces
    PROVE  /\ After(s, b) \in Ledger
           /\ \A sm \in Bucket : s.count[sm] <= After(s, b).count[sm]
           /\ Total(After(s, b).count, Bucket) = Total(s.count, Bucket) + CountAt(b)
<1>. DEFINE c == CountAt(b)  rk == [sm \in Bucket |-> Rank(s.cost, sm)]
            T == {sm \in Bucket : rk[sm] < c}
<1>1. s.cost \in [Bucket -> Int] /\ s.count \in [Bucket -> Nat]
  BY DEF Ledger
<1>2. GivenSms \in Nat \ {0} /\ c \in 1 .. GivenSms
  BY GivenAssumption, FollowingRight
<1>3. /\ \A sm \in Bucket : rk[sm] \in Nat
      /\ \A x, y \in Bucket : rk[x] = rk[y] => x = y
      /\ \A k \in 0 .. (GivenSms - 1) : \E sm \in Bucket : rk[sm] = k
  BY <1>1, Ranks
<1>4. PieceCost(End(b.row, b.sp) - Begin(b.row, b.sp)) \in Int
  <2>1. b.row \in GivenRow /\ b.sp \in Nat
    BY DEF Pieces
  <2>2. End(b.row, b.sp) \in Nat /\ Begin(b.row, b.sp) \in Nat
    BY <2>1, IterationsRight
  <2>. QED
    BY <2>2 DEF PieceCost, PerIterOverhead, TileGlobalOverhead
<1>. DEFINE g == After(s, b).count
<1>5. \A sm \in Bucket : g[sm] = s.count[sm] + (IF sm \in T THEN 1 ELSE 0)
  BY DEF After
<1>6. After(s, b) \in Ledger
  <2>1. After(s, b).cost \in [Bucket -> Int]
    BY <1>1, <1>4 DEF After
  <2>2. After(s, b).count \in [Bucket -> Nat]
    BY <1>1 DEF After
  <2>3. After(s, b) = [cost |-> After(s, b).cost, count |-> After(s, b).count]
    BY DEF After
  <2>. QED
    BY <2>1, <2>2, <2>3 DEF Ledger
<1>. HIDE DEF g, rk
<1>7. \A sm \in Bucket : s.count[sm] <= g[sm]
  BY <1>1, <1>5
<1>8. IsFiniteSet(Bucket) /\ T \in SUBSET Bucket
  BY <1>2, FS_Interval DEF Bucket
<1>9. Cardinality(T) = c
  <2>. DEFINE f == [sm \in T |-> rk[sm]]  K == 0 .. (c - 1)
  <2>1. f \in [T -> K]
    BY <1>2, <1>3
  <2>2. \A x, y \in T : f[x] = f[y] => x = y
    BY <1>3
  <2>3. \A k \in K : \E sm \in T : f[sm] = k
    <3>1. ASSUME NEW k \in K PROVE \E sm \in T : f[sm] = k
      <4>1. k \in 0 .. (GivenSms - 1) /\ k < c
        BY <1>2
      <4>2. PICK sm \in Bucket : rk[sm] = k
        BY <1>3, <4>1
      <4>. QED
        BY <4>1, <4>2
    <3>. QED
      BY <3>1
  <2>4. IsFiniteSet(K) /\ Cardinality(K) = c
    BY <1>2, FS_Interval
  <2>. HIDE DEF f, K, T
  <2>. QED
    BY <2>1, <2>2, <2>3, <2>4, SameCount
<1>10. Total(g, Bucket) = Total(s.count, Bucket) + Cardinality(T)
  <2>1. \A sm \in Bucket : s.count[sm] \in Int
    BY <1>1
  <2>. HIDE DEF T
  <2>. QED
    BY <1>5, <1>8, <2>1, TotalMarked
<1>. QED
  BY <1>6, <1>7, <1>9, <1>10 DEF g

-----------------------------------------------------------------------------
(***************************************************************************)
(* What the trace says of a state.                                         *)
(***************************************************************************)

(* The numbers of iterations never change, and what is computed of them    *)
(* does not either.                                                        *)
LEMMA SameRows ==
    ASSUME giters' = giters
    PROVE  /\ \A r : Splits(r)' = Splits(r) /\ Chunk(r)' = Chunk(r)
           /\ \A r, sp, h : Item(r, sp, h)' = Item(r, sp, h)
           /\ \A b : Following(b)' = Following(b) /\ PiecesBefore(b)' = PiecesBefore(b)
           /\ \A s, b : After(s, b)' = After(s, b)
           /\ Pieces' = Pieces
<1>1. \A r : Splits(r)' = Splits(r)
  BY DEF Splits
<1>2. \A r : Chunk(r)' = Chunk(r)
  BY <1>1 DEF Chunk
<1>3. \A r, sp : Begin(r, sp)' = Begin(r, sp) /\ End(r, sp)' = End(r, sp)
  BY <1>2 DEF Begin, End
<1>4. \A r, sp, h : Item(r, sp, h)' = Item(r, sp, h)
  BY <1>3 DEF Item
<1>5. \A b : Following(b)' = Following(b)
  BY <1>1 DEF Following
<1>6. PiecesOf' = PiecesOf
  BY <1>1 DEF PiecesOf
<1>7. \A b : PiecesBefore(b)' = PiecesBefore(b)
  BY <1>6 DEF PiecesBefore
<1>8. \A s, b : After(s, b)' = After(s, b)
  BY <1>3 DEF After
<1>9. Pieces' = Pieces
  BY <1>1 DEF Pieces
<1>. QED
  BY <1>1, <1>2, <1>4, <1>5, <1>7, <1>8, <1>9

(* What an SM has so far is at most what it has in the end.                *)
LEMMA WithinTrace ==
    ASSUME Type, Gate, NEW t, Told(t), gphase \in {"pass2", "ranges", "done"}
    PROVE  /\ t[Past] \in Ledger
           /\ \A sm \in Bucket :
                 /\ count[sm] <= t[Past].count[sm]
                 /\ /\ gphase = "pass2" /\ th[sm].pc = "ranked" /\ th[sm].rank < CountAt(at)
                    => count[sm] + 1 <= t[Past].count[sm]
<1>1. Front = Past /\ t[Past] \in Ledger /\ t[Here] \in Ledger
  BY DEF Told, Entries, Front
<1>2. \A sm \in Bucket : t[Past].count[sm] \in Nat /\ t[Here].count[sm] \in Nat
  BY <1>1 DEF Ledger
<1>3. ASSUME NEW sm \in Bucket
      PROVE  /\ count[sm] <= t[Past].count[sm]
             /\ /\ gphase = "pass2" /\ th[sm].pc = "ranked" /\ th[sm].rank < CountAt(at)
                => count[sm] + 1 <= t[Past].count[sm]
  <2>1. CASE gphase = "pass2"
    <3>1. Here = at /\ at \in Pieces /\ at # Past
      BY <2>1, GivenAssumption DEF Here, InPass, Type, Pieces, Past, GivenRow
    <3>2. After(t[at], at) = t[Following(at)] /\ t[Following(at)].count[sm] <= t[Past].count[sm]
      BY <1>1, <3>1 DEF Told, Turns, Entries
    <3>3. /\ t[at].count[sm] <= After(t[at], at).count[sm] /\ After(t[at], at) \in Ledger
      BY <1>1, <3>1, AfterRight DEF Type, RowsType
    <3>4. After(t[at], at).count[sm]
            = t[at].count[sm] + (IF Rank(t[at].cost, sm) < CountAt(at) THEN 1 ELSE 0)
      BY DEF After
    <3>5. /\ count[sm] = IF th[sm].pc = "gave" THEN After(t[at], at).count[sm] ELSE t[at].count[sm]
          /\ th[sm].pc # "look" => th[sm].rank = Rank(t[at].cost, sm)
      BY <3>1 DEF Told, Accounts, Now
    <3>6. t[at].count[sm] \in Nat /\ After(t[at], at).count[sm] \in Nat
      BY <1>2, <3>1, <3>3 DEF Ledger
    <3>. QED
      BY <1>2, <3>2, <3>3, <3>4, <3>5, <3>6
  <2>2. CASE gphase # "pass2"
    <3>1. Here = Past /\ count[sm] = Now(t, sm).count[sm] /\ th[sm].pc # "gave"
      BY <2>2 DEF Here, InPass, Told, Accounts, Gate, Looking
    <3>. QED
      BY <1>2, <2>2, <3>1 DEF Now
  <2>. QED
    BY <2>1, <2>2
<1>. QED
  BY <1>1, <1>3

(* The SMs' parts of the work list lie one behind the other.               *)
LEMMA Parts ==
    ASSUME Type, NEW t, Told(t), gphase \in {"pass2", "ranges", "done"}
    PROVE  /\ \A a, b \in Bucket : a < b => offset[a] + t[Past].count[a] <= offset[b]
           /\ \A sm \in Bucket : offset[sm] + t[Past].count[sm] = PosEnd(sm)
<1>. DEFINE n == GivenSms  f == t[Past].count
<1>1. n \in Nat \ {0} /\ Bucket = 0 .. (n - 1) /\ GivenRows \in Nat /\ GivenHeads \in Nat
  BY GivenAssumption DEF Bucket
<1>2. Past \in DOMAIN t /\ t[Past] \in Ledger /\ Total(f, Bucket) = PiecesBefore(Past)
  BY DEF Told, Entries, Front
<1>3. \A sm \in Bucket : f[sm] \in Nat
  BY <1>2 DEF Ledger
<1>4. \A sm \in Bucket : offset[sm] = Total(f, 0 .. (sm - 1))
  BY DEF Told, Apportioned
<1>5. \A sm \in Bucket : offset[sm] \in Int
  BY DEF Type
<1>6. PiecesBefore(Past) = TotalPieces
  <2>1. Past.row = GivenRows /\ Past.sp = 0 /\ Past.head = 0
    BY DEF Past
  <2>2. Total(PiecesOf, 0 .. (GivenRows - 1)) \in Int
    <3>1. RowsType /\ GivenRows \in 0 .. GivenRows
      BY <1>1 DEF Type, RowsType
    <3>. QED
      BY <3>1, PiecesRight
  <2>3. PiecesBefore(Past) = Total(PiecesOf, 0 .. (GivenRows - 1)) + 0 * GivenHeads + 0
    BY <2>1 DEF PiecesBefore
  <2>4. TotalPieces = Total(PiecesOf, 0 .. (GivenRows - 1))
    BY DEF TotalPieces, GivenRow
  <2>. QED
    BY <1>1, <2>2, <2>3, <2>4
<1>. HIDE DEF f, n
<1>7. \A b \in 0 .. n :
        /\ Total(f, 0 .. (b - 1)) \in Int
        /\ b < n => Total(f, 0 .. ((b + 1) - 1)) = Total(f, 0 .. (b - 1)) + f[b]
        /\ \A a \in 0 .. (b - 1) : Total(f, 0 .. (a - 1)) + f[a] <= Total(f, 0 .. (b - 1))
  BY <1>1, <1>3, Running
<1>8. ASSUME NEW a \in Bucket, NEW b \in Bucket, a < b PROVE offset[a] + f[a] <= offset[b]
  <2>1. b \in 0 .. n /\ a \in 0 .. (b - 1)
    BY <1>1, <1>8
  <2>2. Total(f, 0 .. (a - 1)) + f[a] <= Total(f, 0 .. (b - 1))
    BY <1>7, <2>1
  <2>. QED
    BY <1>4, <2>2
<1>9. ASSUME NEW sm \in Bucket PROVE offset[sm] + f[sm] = PosEnd(sm)
  <2>1. sm \in 0 .. n /\ sm < n /\ sm \in Int
    BY <1>1
  <2>2. Total(f, 0 .. ((sm + 1) - 1)) = offset[sm] + f[sm]
    BY <1>4, <1>7, <2>1
  <2>3. CASE sm = GivenSms - 1
    <3>1. 0 .. ((sm + 1) - 1) = Bucket
      BY <2>3, <1>1 DEF Bucket
    <3>. QED
      BY <1>2, <1>6, <2>2, <2>3, <3>1 DEF PosEnd
  <2>4. CASE sm # GivenSms - 1
    <3>1. sm + 1 \in Bucket
      BY <1>1, <2>1, <2>4 DEF n
    <3>2. offset[sm + 1] = Total(f, 0 .. ((sm + 1) - 1))
      BY <1>4, <3>1
    <3>. QED
      BY <2>2, <2>4, <3>2 DEF PosEnd
  <2>. QED
    BY <2>3, <2>4
<1>. QED
  BY <1>8, <1>9 DEF f

(* A thread reads the costs of all SMs: no cost has changed since the      *)
(* batch began, so it finds the rank the trace gives it.                   *)
LEMMA LookKeeps ==
    ASSUME GivenIInv, NEW sm \in Bucket, LookAt(sm)
    PROVE  GivenIInv'
<1>1. /\ InPass /\ th[sm].pc = "look"
      /\ th' = [th EXCEPT ![sm] = [pc |-> "ranked", rank |-> Rank(gcost, sm)]]
      /\ UNCHANGED <<gphase, giters, at, gcost, count, offset, gwork, range, rows>>
  BY DEF LookAt
<1>2. PICK t : Told(t)
  BY DEF GivenIInv
<1>3. Type /\ Gate
  BY DEF GivenIInv
<1>4. \A o \in Bucket : th[o].pc # "gave"
  BY <1>1, <1>3 DEF Gate
<1>5. /\ \A o \in Bucket : o # sm => th'[o] = th[o]
      /\ th'[sm].pc = "ranked" /\ th'[sm].rank = Rank(gcost, sm)
      /\ \A o \in Bucket : th'[o].pc # "gave"
  BY <1>1, <1>3, <1>4 DEF Type
<1>6. Here' = Here /\ Front' = Front /\ InPass' = InPass
  BY <1>1 DEF Here, Front, InPass
<1>7. gcost = t[Here].cost
  <2>1. t[Here].cost \in [Bucket -> Int] /\ gcost \in [Bucket -> Int]
    BY <1>2, <1>3 DEF Told, Entries, Ledger, Type
  <2>2. \A o \in Bucket : gcost[o] = t[Here].cost[o]
    BY <1>2, <1>4 DEF Told, Accounts, Now
  <2>. QED
    BY <2>1, <2>2
<1>8. Rank(gcost, sm) \in Nat
  BY <1>3, Ranks DEF Type
<1>9. Type'
  <2>1. th' \in [Bucket -> [pc : {"look", "ranked", "gave"}, rank : Nat]]
    BY <1>1, <1>3, <1>8 DEF Type
  <2>. QED
    BY <1>1, <1>3, <2>1, SameRows DEF Type
<1>10. Gate'
  BY <1>1, <1>3, <1>5, <1>6 DEF Gate
<1>11. Told(t)'
  <2>1. Entries(t)' /\ Turns(t)' /\ Apportioned(t)'
    BY <1>1, <1>2, <1>6, SameRows DEF Told, Entries, Turns, Apportioned
  <2>2. Accounts(t)'
    BY <1>1, <1>2, <1>4, <1>5, <1>6, <1>7 DEF Told, Accounts, Now
  <2>. QED
    BY <2>1, <2>2 DEF Told
<1>12. RowsTold'
  <2>1. th'[0].pc = "gave" <=> th[0].pc = "gave"
    BY <1>4, <1>5, GivenAssumption DEF Bucket
  <2>. QED
    BY <1>1, <2>1, SameRows DEF GivenIInv, RowsTold
<1>13. WorkList'
  <2>1. Filled' = Filled
    BY <1>1 DEF Filled
  <2>2. \A p : HandedOut(p)' <=> HandedOut(p)
    BY <1>4, <1>5, <1>6 DEF HandedOut
  <2>. QED
    BY <1>1, <2>1, <2>2, SameRows DEF GivenIInv, WorkList
<1>14. Ranged'
  BY <1>1 DEF GivenIInv, Ranged
<1>. QED
  BY <1>9, <1>10, <1>11, <1>12, <1>13, <1>14 DEF GivenIInv

(* A thread takes the piece of its rank: the counts and costs go on as in  *)
(* the trace, and in pass 2 the piece is written where nothing is yet.     *)
LEMMA GiveKeeps ==
    ASSUME GivenIInv, NEW sm \in Bucket, Give(sm)
    PROVE  GivenIInv'
<1>1. /\ InPass /\ th[sm].pc = "ranked" /\ \A o \in Bucket : th[o].pc # "look"
      /\ TakePiece(sm)
      /\ rows' = IF sm = 0 /\ gphase = "pass2" THEN [rows EXCEPT ![at.row] = Splits(at.row)] ELSE rows
      /\ th' = [th EXCEPT ![sm].pc = "gave"]
      /\ UNCHANGED <<gphase, giters, at, offset, range>>
  BY DEF Give
<1>2. PICK t : Told(t)
  BY DEF GivenIInv
<1>3. Type /\ Gate
  BY DEF GivenIInv
<1>4. /\ \A o \in Bucket : o # sm => th'[o] = th[o]
      /\ th'[sm].pc = "gave" /\ th'[sm].rank = th[sm].rank
  BY <1>1, <1>3 DEF Type
<1>5. Here = at /\ Here' = Here /\ Front' = Front /\ InPass' = InPass
  BY <1>1 DEF Here, Front, InPass
<1>6. th[sm].rank = Rank(t[at].cost, sm) /\ th[sm].rank \in Nat
  BY <1>1, <1>2, <1>3, <1>5 DEF Told, Accounts, Type
<1>. DEFINE k == th[sm].rank  c == CountAt(at)  pos == offset[sm] + count[sm]
            item == Item(at.row, at.sp, at.head + k)
<1>7. /\ at.row \in GivenRow /\ at.sp \in Nat /\ at.head \in Nat /\ at.sp < Splits(at.row)
      /\ item.end = End(at.row, at.sp) /\ item.begin = Begin(at.row, at.sp)
      /\ End(at.row, at.sp) \in Nat /\ Begin(at.row, at.sp) \in Nat
  BY <1>3, IterationsRight DEF Type, RowsType, Pieces, Item
<1>8. PieceCost(item.end - item.begin) \in Int
  BY <1>7 DEF PieceCost, PerIterOverhead, TileGlobalOverhead
<1>9. k < c => /\ gcost' = [gcost EXCEPT ![sm] = @ + PieceCost(item.end - item.begin)]
               /\ count' = [count EXCEPT ![sm] = @ + 1]
               /\ gphase = "pass2" =>
                     gwork' = [p \in DOMAIN gwork \cup {pos} |-> IF p = pos THEN item ELSE gwork[p]]
               /\ gphase # "pass2" => gwork' = gwork
  BY <1>1 DEF TakePiece
<1>10. ~ (k < c) => UNCHANGED <<gcost, count, gwork>>
  BY <1>1 DEF TakePiece
<1>11. Type'
  <2>1. th' \in [Bucket -> [pc : {"look", "ranked", "gave"}, rank : Nat]]
    BY <1>1, <1>3 DEF Type
  <2>2. gcost' \in [Bucket -> Int] /\ count' \in [Bucket -> Nat]
    BY <1>3, <1>8, <1>9, <1>10 DEF Type
  <2>3. rows' \in [GivenRow -> Nat]
    BY <1>1, <1>3, <1>7, RowSplits DEF Type, RowsType
  <2>. QED
    BY <1>1, <1>3, <2>1, <2>2, <2>3, SameRows DEF Type
<1>12. Gate'
  BY <1>1, <1>3, <1>4, <1>5 DEF Gate
<1>13. Told(t)'
  <2>1. Entries(t)' /\ Turns(t)' /\ Apportioned(t)'
    BY <1>1, <1>2, <1>5, SameRows DEF Told, Entries, Turns, Apportioned
  <2>2. Accounts(t)'
    <3>1. \A o \in Bucket : o # sm => gcost'[o] = gcost[o] /\ count'[o] = count[o]
      BY <1>3, <1>9, <1>10 DEF Type
    <3>2. gcost[sm] = t[at].cost[sm] /\ count[sm] = t[at].count[sm]
      BY <1>1, <1>2, <1>5 DEF Told, Accounts, Now
    <3>3. gcost'[sm] = After(t[at], at).cost[sm] /\ count'[sm] = After(t[at], at).count[sm]
      <4>1. gcost[sm] \in Int /\ count[sm] \in Nat
        BY <1>3 DEF Type
      <4>2. k < c => /\ gcost'[sm] = gcost[sm] + PieceCost(item.end - item.begin)
                     /\ count'[sm] = count[sm] + 1
        BY <1>3, <1>9 DEF Type
      <4>3. /\ After(t[at], at).cost[sm]
                 = t[at].cost[sm] + (IF k < c THEN PieceCost(item.end - item.begin) ELSE 0)
            /\ After(t[at], at).count[sm] = t[at].count[sm] + (IF k < c THEN 1 ELSE 0)
        BY <1>6, <1>7 DEF After
      <4>. QED
        BY <1>8, <1>10, <3>2, <4>1, <4>2, <4>3
    <3>4. \A o \in Bucket : o # sm =>
             /\ gcost[o] = Now(t, o).cost[o] /\ count[o] = Now(t, o).count[o]
             /\ th[o].pc # "look" => th[o].rank = Rank(t[at].cost, o)
      BY <1>2, <1>5 DEF Told, Accounts
    <3>. QED
      BY <1>1, <1>4, <1>5, <1>6, <3>1, <3>3, <3>4, SameRows DEF Accounts, Now
  <2>. QED
    BY <2>1, <2>2 DEF Told
<1>14. RowsTold'
  <2>1. ASSUME NEW r \in GivenRow,
               \/ gphase' \in {"ranges", "done"}
               \/ gphase' = "pass2" /\ (r < at'.row \/ (r = at'.row /\ th'[0].pc = "gave"))
        PROVE  rows'[r] = Splits(r)'
    <3>1. gphase = "pass2" /\ (r < at.row \/ (r = at.row /\ th'[0].pc = "gave"))
      BY <1>1, <2>1 DEF InPass
    <3>2. CASE r = at.row /\ sm = 0
      BY <1>1, <1>3, <3>1, <3>2, SameRows DEF Type
    <3>3. CASE r # at.row \/ sm # 0
      <4>1. r < at.row \/ (r = at.row /\ th[0].pc = "gave")
        BY <1>4, <3>1, <3>3, GivenAssumption DEF Bucket
      <4>2. rows[r] = Splits(r)
        BY <3>1, <4>1 DEF GivenIInv, RowsTold
      <4>3. rows'[r] = rows[r]
        BY <1>1, <1>3, <3>3 DEF Type
      <4>. QED
        BY <1>1, <4>2, <4>3, SameRows
    <3>. QED
      BY <3>2, <3>3
  <2>. QED
    BY <2>1 DEF RowsTold
<1>15. WorkList'
  <2>1. CASE gphase # "pass2"
    BY <1>1, <2>1 DEF InPass, WorkList
  <2>2. CASE gphase = "pass2" /\ ~ (k < c)
    <3>1. Filled' = Filled /\ gwork' = gwork
      BY <1>1, <1>10, <2>2 DEF Filled
    <3>2. \A p : HandedOut(p)' <=> HandedOut(p)
      BY <1>1, <1>4, <1>5, <2>2 DEF HandedOut
    <3>. QED
      BY <1>1, <3>1, <3>2, SameRows DEF GivenIInv, WorkList
  <2>3. CASE gphase = "pass2" /\ k < c
    <3>. DEFINE np == [row |-> at.row, sp |-> at.sp, head |-> at.head + k]
    <3>1. pos \notin Filled
      <4>. DEFINE f == t[Past].count
      <4>1. /\ \A o \in Bucket :
                  f[o] \in Nat /\ count[o] \in Nat /\ offset[o] \in Int /\ count[o] <= f[o]
            /\ count[sm] + 1 <= f[sm]
            /\ \A a, b \in Bucket : a < b => offset[a] + f[a] <= offset[b]
        <5>1. t[Past] \in Ledger /\ (\A o \in Bucket : count[o] <= f[o]) /\ count[sm] + 1 <= f[sm]
          BY <1>1, <1>2, <1>3, <2>3, WithinTrace
        <5>2. \A a, b \in Bucket : a < b => offset[a] + f[a] <= offset[b]
          BY <1>2, <1>3, <2>3, Parts
        <5>3. \A o \in Bucket : f[o] \in Nat /\ count[o] \in Nat /\ offset[o] \in Int
          BY <1>3, <5>1 DEF Ledger, Type
        <5>. QED
          BY <5>1, <5>2, <5>3
      <4>. HIDE DEF f
      <4>2. ASSUME NEW o \in Bucket, pos \in offset[o] .. (offset[o] + count[o] - 1) PROVE FALSE
        <5>1. o \in Int /\ sm \in Int
          BY DEF Bucket
        <5>2. o < sm => offset[o] + f[o] <= offset[sm]
          BY <4>1
        <5>3. sm < o => offset[sm] + f[sm] <= offset[o]
          BY <4>1
        <5>4. /\ f[o] \in Nat /\ count[o] \in Nat /\ offset[o] \in Int /\ count[o] <= f[o]
              /\ f[sm] \in Nat /\ count[sm] \in Nat /\ offset[sm] \in Int
          BY <4>1
        <5>. QED
          BY <4>1, <4>2, <5>1, <5>2, <5>3, <5>4
      <4>. QED
        BY <4>2 DEF Filled
    <3>2. Filled' = Filled \cup {pos}
      <4>1. /\ \A o \in Bucket : o # sm => count'[o] = count[o]
            /\ count'[sm] = count[sm] + 1 /\ count[sm] \in Nat /\ offset[sm] \in Int
        BY <1>3, <1>9, <2>3 DEF Type
      <4>2. offset[sm] .. (offset[sm] + count'[sm] - 1)
              = (offset[sm] .. (offset[sm] + count[sm] - 1)) \cup {pos}
        BY <4>1
      <4>3. Filled' = UNION {offset[o] .. (offset[o] + count'[o] - 1) : o \in Bucket}
        BY <1>1 DEF Filled
      <4>4. \A o \in Bucket : o # sm =>
               offset[o] .. (offset[o] + count'[o] - 1) = offset[o] .. (offset[o] + count[o] - 1)
        BY <4>1
      <4>. HIDE DEF pos
      <4>. QED
        BY <4>2, <4>3, <4>4, ZenonT(30) DEF Filled
    <3>3. /\ pos \in DOMAIN gwork' /\ gwork'[pos] = item
          /\ \A p \in Filled : p \in DOMAIN gwork' /\ gwork'[p] = gwork[p]
      BY <1>9, <2>3, <3>1 DEF GivenIInv, WorkList
    <3>4. np \in Pieces /\ item = Item(np.row, np.sp, np.head)
      <4>1. GivenHeads \in Nat /\ GivenSms \in Nat /\ at.head < GivenHeads
        BY <1>3, GivenAssumption DEF Type, Pieces
      <4>2. at.head + k < GivenHeads
        BY <1>6, <1>7, <2>3, <4>1 DEF CountAt, Smaller
      <4>. QED
        BY <1>6, <1>7, <4>2 DEF Pieces
    <3>5. ~ HandedOut(np)
      <4>1. ~ Before(np, at)
        BY <1>6, <1>7 DEF Before, GivenRow
      <4>2. ASSUME NEW o \in Bucket, th[o].pc = "gave", np.head = at.head + th[o].rank PROVE FALSE
        <5>1. th[o].rank = Rank(t[at].cost, o) /\ th[o].rank \in Nat
          BY <1>2, <1>3, <1>5, <4>2 DEF Told, Accounts, Type
        <5>2. th[o].rank = k
          BY <1>6, <1>7, <4>2, <5>1
        <5>3. t[at].cost \in [Bucket -> Int]
          BY <1>2, <1>5 DEF Told, Entries, Ledger
        <5>4. \A a, b \in Bucket : Rank(t[at].cost, a) = Rank(t[at].cost, b) => a = b
          BY <5>3, Ranks
        <5>5. o = sm
          BY <1>6, <5>1, <5>2, <5>4
        <5>. QED
          BY <1>1, <4>2, <5>5
      <4>. QED
        BY <1>5, <4>1, <4>2 DEF HandedOut
    <3>6. \A p \in Pieces : HandedOut(p)' <=> HandedOut(p) \/ p = np
      <4>1. ASSUME NEW p \in Pieces
            PROVE  p = np <=> p.row = at.row /\ p.sp = at.sp /\ p.head = at.head + k
        BY DEF Pieces
      <4>. QED
        BY <1>1, <1>4, <1>5, <2>3, <4>1 DEF HandedOut
    <3>7. \A p \in Pieces : HandedOut(p) => Item(p.row, p.sp, p.head) # item
      <4>1. \A p \in Pieces : Item(p.row, p.sp, p.head) = item => p = np
        BY <3>4 DEF Item, Pieces
      <4>. QED
        BY <3>5, <4>1
    <3>. HIDE DEF np, item, pos
    <3>8. /\ \A q \in Filled :
                /\ q \in DOMAIN gwork
                /\ \E p \in Pieces : HandedOut(p) /\ gwork[q] = Item(p.row, p.sp, p.head)
          /\ \A p \in Pieces : HandedOut(p) => \E q \in Filled : gwork[q] = Item(p.row, p.sp, p.head)
          /\ \A q, q2 \in Filled : gwork[q] = gwork[q2] => q = q2
      BY <2>3 DEF GivenIInv, WorkList
    <3>9. \A q \in Filled :
             /\ q \in DOMAIN gwork' /\ gwork'[q] # item
             /\ \E p \in Pieces : HandedOut(p)' /\ gwork'[q] = Item(p.row, p.sp, p.head)'
      BY <1>1, <3>3, <3>6, <3>7, <3>8, SameRows
    <3>10. \A p \in Pieces : HandedOut(p)' => \E q \in Filled' : gwork'[q] = Item(p.row, p.sp, p.head)'
      BY <1>1, <3>2, <3>3, <3>4, <3>6, <3>8, SameRows
    <3>11. \E p \in Pieces : HandedOut(p)' /\ gwork'[pos] = Item(p.row, p.sp, p.head)'
      BY <1>1, <3>3, <3>4, <3>6, SameRows
    <3>12. \A q, q2 \in Filled' : gwork'[q] = gwork'[q2] => q = q2
      BY <3>2, <3>3, <3>8, <3>9
    <3>13. Pieces' = Pieces
      BY <1>1, SameRows
    <3>. QED
      BY <3>2, <3>3, <3>9, <3>10, <3>11, <3>12, <3>13 DEF WorkList
  <2>. QED
    BY <2>1, <2>2, <2>3
<1>16. Ranged'
  BY <1>1 DEF InPass, GivenIInv, Ranged
<1>. QED
  BY <1>11, <1>12, <1>13, <1>14, <1>15, <1>16 DEF GivenIInv

Point == [row : Nat, sp : Nat, head : Nat]

(* Before is an order.                                                     *)
LEMMA BeforeRight ==
    ASSUME NEW a \in Point, NEW b \in Point, Before(a, b)
    PROVE  /\ a # b /\ ~ Before(b, a)
           /\ \A c \in Point : Before(b, c) => Before(a, c)
BY DEF Before, Point

(* The first piece, and where the batches and pieces are.                  *)
LEMMA FirstRight ==
    ASSUME RowsType
    PROVE  /\ First \in Pieces /\ Past \in Point /\ Pieces \subseteq Point
           /\ \A p \in Pieces : ~ Before(p, First) /\ Before(p, Past)
<1>1. GivenRows \in Nat \ {0} /\ GivenHeads \in Nat \ {0} /\ 0 \in GivenRow
  BY GivenAssumption DEF GivenRow
<1>2. Splits(0) \in Nat \ {0}
  BY <1>1, RowSplits
<1>3. First \in Pieces
  BY <1>1, <1>2 DEF First, Pieces
<1>4. Past \in Point /\ Pieces \subseteq Point
  BY <1>1 DEF Past, Point, Pieces, GivenRow
<1>5. ASSUME NEW p \in Pieces PROVE ~ Before(p, First) /\ Before(p, Past)
  BY <1>1 DEF Pieces, Before, First, Past, GivenRow
<1>. QED
  BY <1>3, <1>4, <1>5

(* The next batch.  Costs and counts are what the batch has made of them:  *)
(* in pass 1 they are the next entry of the trace, in pass 2 it has it.    *)
LEMMA BatchTold ==
    ASSUME GivenIInv, NextBatch
    PROVE  (\E t : Told(t))'
<1>1. /\ InPass /\ \A sm \in Bucket : th[sm].pc = "gave"
      /\ th' = Looking
      /\ IF Following(at).row < GivenRows
         THEN at' = Following(at) /\ UNCHANGED gphase
         ELSE at' = First /\ gphase' = IF gphase = "pass1" THEN "offsets" ELSE "ranges"
      /\ UNCHANGED <<giters, gcost, count, offset, gwork, range, rows>>
  BY DEF NextBatch
<1>2. PICK t : Told(t)
  BY DEF GivenIInv
<1>3. Type /\ RowsType /\ at \in Pieces
  BY DEF GivenIInv, Type, RowsType
<1>4. Here = at
  BY <1>1 DEF Here
<1>5. PICK g : g = Following(at)
  OBVIOUS
<1>6. PICK b : b = at
  OBVIOUS
<1>7. PICK a : a = After(t[at], at)
  OBVIOUS
<1>8. /\ g = Following(b) /\ a = After(t[b], b) /\ b \in Pieces /\ b \in DOMAIN t /\ t[b] \in Ledger
      /\ Total(t[b].count, Bucket) = PiecesBefore(b)
  BY <1>2, <1>3, <1>4, <1>5, <1>6, <1>7 DEF Told, Entries
<1>9. /\ g \in Pieces \/ g = Past
      /\ g.row < GivenRows <=> g \in Pieces
      /\ Before(b, g) /\ PiecesBefore(g) = PiecesBefore(b) + CountAt(b)
  BY <1>3, <1>8, FollowingRight
<1>10. /\ a \in Ledger /\ \A sm \in Bucket : t[b].count[sm] <= a.count[sm]
       /\ Total(a.count, Bucket) = PiecesBefore(g)
  BY <1>3, <1>8, <1>9, AfterRight
<1>11. Here' = g
  BY <1>1, <1>5, <1>9 DEF Here, InPass
<1>12. \A sm \in Bucket : gcost[sm] = a.cost[sm] /\ count[sm] = a.count[sm]
  BY <1>1, <1>2, <1>4, <1>6, <1>8 DEF Told, Accounts, Now
<1>13. ASSUME NEW u, g \in DOMAIN u, u[g] = a PROVE Accounts(u)'
  BY <1>1, <1>11, <1>12, <1>13 DEF Accounts, Now, Looking
<1>14. CASE gphase = "pass2"
  <2>1. Front' = Past /\ Front = Past /\ b # Past
    BY <1>1, <1>6, <1>8, <1>14, GivenAssumption DEF Front, Pieces, Past, GivenRow
  <2>2. g \in DOMAIN t /\ t[g] = a
    BY <1>2, <1>8, <2>1 DEF Told, Turns
  <2>3. Entries(t)' /\ Turns(t)' /\ Apportioned(t)'
    BY <1>1, <1>2, <1>11, <1>14, <2>1, <2>2, SameRows DEF Told, Entries, Turns, Apportioned
  <2>. QED
    BY <1>13, <2>2, <2>3 DEF Told
<1>15. CASE gphase = "pass1"
  <2>1. Front = b /\ Front' = g
    BY <1>1, <1>5, <1>6, <1>9, <1>15 DEF Front
  <2>. DEFINE u == [x \in DOMAIN t \cup {g} |-> IF x = g THEN a ELSE t[x]]
  <2>0. b \in Point /\ g \in Point
    BY <1>3, <1>8, <1>9, FirstRight
  <2>2. \A x \in DOMAIN t : x # g
    <3>1. ASSUME NEW x \in DOMAIN t, x # b PROVE Before(x, b) /\ x \in Point
      <4>1. x \in Pieces /\ Before(x, b)
        BY <1>2, <2>1, <3>1 DEF Told, Turns
      <4>. QED
        BY <1>3, <4>1, FirstRight
    <3>2. b # g /\ ~ Before(g, b)
      BY <1>9, <2>0, BeforeRight
    <3>. QED
      BY <3>1, <3>2
  <2>3. /\ DOMAIN u = DOMAIN t \cup {g} /\ u[g] = a
        /\ \A x \in DOMAIN t : u[x] = t[x]
    BY <2>2
  <2>. HIDE DEF u
  <2>4. Entries(u)'
    BY <1>1, <1>2, <1>10, <1>11, <2>1, <2>3, SameRows DEF Told, Entries
  <2>5. Turns(u)'
    <3>1. ASSUME NEW x \in DOMAIN t
          PROVE  /\ x \in Pieces /\ Before(x, g)
                 /\ Following(x) \in DOMAIN u /\ u[Following(x)] = After(u[x], x)
                 /\ \A sm \in Bucket : u[Following(x)].count[sm] <= u[g].count[sm]
      <4>1. CASE x = b
        BY <1>8, <1>9, <1>10, <2>3, <4>1 DEF Ledger
      <4>2. CASE x # b
        <5>1. /\ x \in Pieces /\ Before(x, b) /\ Following(x) \in DOMAIN t
              /\ t[Following(x)] = After(t[x], x) /\ t[Following(x)] \in Ledger
              /\ \A sm \in Bucket : t[Following(x)].count[sm] <= t[b].count[sm]
          BY <1>2, <2>1, <4>2 DEF Told, Turns, Entries
        <5>2. Before(x, g)
          <6>1. x \in Point
            BY <1>3, <5>1, FirstRight
          <6>. QED
            BY <1>9, <2>0, <5>1, <6>1, BeforeRight
        <5>3. ASSUME NEW sm \in Bucket PROVE t[Following(x)].count[sm] <= a.count[sm]
          <6>1. /\ t[Following(x)].count[sm] \in Nat /\ t[b].count[sm] \in Nat /\ a.count[sm] \in Nat
                /\ t[Following(x)].count[sm] <= t[b].count[sm] /\ t[b].count[sm] <= a.count[sm]
            BY <1>8, <1>10, <5>1 DEF Ledger
          <6>. QED
            BY <6>1
        <5>. QED
          BY <2>3, <5>1, <5>2, <5>3
      <4>. QED
        BY <4>1, <4>2
    <3>. QED
      BY <1>1, <2>1, <2>3, <3>1, SameRows DEF Turns
  <2>6. Apportioned(u)'
    BY <1>1, <1>15 DEF Apportioned
  <2>. QED
    BY <1>13, <2>3, <2>4, <2>5, <2>6 DEF Told
<1>. QED
  BY <1>1, <1>14, <1>15 DEF InPass

(* The next batch, the rest of the invariant: the pieces handed out until  *)
(* now are those before the batch that begins.                             *)
LEMMA BatchKeeps ==
    ASSUME GivenIInv, NextBatch
    PROVE  GivenIInv'
<1>1. /\ InPass /\ \A sm \in Bucket : th[sm].pc = "gave"
      /\ th' = Looking
      /\ IF Following(at).row < GivenRows
         THEN at' = Following(at) /\ UNCHANGED gphase
         ELSE at' = First /\ gphase' = IF gphase = "pass1" THEN "offsets" ELSE "ranges"
      /\ UNCHANGED <<giters, gcost, count, offset, gwork, range, rows>>
  BY DEF NextBatch
<1>2. PICK t : Told(t)
  BY DEF GivenIInv
<1>3. Type /\ RowsType /\ at \in Pieces
  BY DEF GivenIInv, Type, RowsType
<1>4. /\ Following(at) \in Pieces \/ Following(at) = Past
      /\ Following(at).row < GivenRows <=> Following(at) \in Pieces
      /\ \A p \in Pieces :
            Before(p, Following(at)) <=>
               \/ Before(p, at)
               \/ p.row = at.row /\ p.sp = at.sp /\ p.head \in at.head .. (at.head + CountAt(at) - 1)
      /\ CountAt(at) \in 1 .. GivenSms
  BY <1>3, FollowingRight
<1>5. Here = at /\ Here' = Following(at)
  BY <1>1, <1>4 DEF Here, InPass
<1>6. Type'
  <2>1. Looking \in [Bucket -> [pc : {"look", "ranked", "gave"}, rank : Nat]]
    BY DEF Looking
  <2>2. at' \in Pieces
    BY <1>1, <1>3, <1>4, FirstRight
  <2>3. gphase' \in {"pass1", "offsets", "pass2", "ranges", "done"}
    BY <1>1, <1>3 DEF Type
  <2>. QED
    BY <1>1, <1>3, <2>1, <2>2, <2>3, SameRows DEF Type
<1>7. Gate'
  BY <1>1 DEF Gate, InPass, Looking
<1>8. RowsTold'
  <2>1. ASSUME NEW r \in GivenRow,
               \/ gphase' \in {"ranges", "done"}
               \/ gphase' = "pass2" /\ (r < at'.row \/ (r = at'.row /\ th'[0].pc = "gave"))
        PROVE  rows'[r] = Splits(r)'
    <3>1. 0 \in Bucket
      BY GivenAssumption DEF Bucket
    <3>2. th[0].pc = "gave" /\ th'[0].pc # "gave" /\ gphase = "pass2"
      BY <1>1, <2>1, <3>1 DEF InPass, Looking
    <3>3. /\ r \in Nat /\ r < GivenRows /\ at.row \in Nat /\ Past.row = GivenRows
          /\ GivenRows \in Nat
      BY <1>3, GivenAssumption DEF GivenRow, Pieces, Past
    <3>4. Following(at).row = at.row \/ Following(at).row = at.row + 1
      BY DEF Following
    <3>5. r < Following(at).row
      BY <1>1, <1>4, <2>1, <3>2, <3>3
    <3>6. r < at.row \/ r = at.row
      BY <3>3, <3>4, <3>5
    <3>7. rows[r] = Splits(r)
      BY <3>2, <3>6 DEF GivenIInv, RowsTold
    <3>. QED
      BY <1>1, <3>7, SameRows
  <2>. QED
    BY <2>1 DEF RowsTold
<1>9. WorkList'
  <2>1. Filled' = Filled
    BY <1>1 DEF Filled
  <2>2. ASSUME NEW p \in Pieces PROVE HandedOut(p)' <=> HandedOut(p)
    <3>1. /\ p.row = at.row /\ p.sp = at.sp
          => (p.head \in at.head .. (at.head + CountAt(at) - 1)
              <=> \E sm \in Bucket : th[sm].rank < CountAt(at) /\ p.head = at.head + th[sm].rank)
      <4>1. t[at].cost \in [Bucket -> Int]
        BY <1>2, <1>5 DEF Told, Entries, Ledger
      <4>2. \A sm \in Bucket : th[sm].rank = Rank(t[at].cost, sm) /\ th[sm].rank \in Nat
        BY <1>1, <1>2, <1>3, <1>5 DEF Told, Accounts, Type
      <4>3. \A k \in 0 .. (GivenSms - 1) : \E sm \in Bucket : Rank(t[at].cost, sm) = k
        BY <4>1, Ranks
      <4>4. \A k \in 0 .. (GivenSms - 1) : \E sm \in Bucket : th[sm].rank = k
        BY <4>2, <4>3
      <4>5. GivenSms \in Nat /\ at.head \in Nat /\ p.head \in Nat
        BY <1>3, GivenAssumption DEF Pieces
      <4>6. ASSUME p.head \in at.head .. (at.head + CountAt(at) - 1)
            PROVE  \E sm \in Bucket : th[sm].rank < CountAt(at) /\ p.head = at.head + th[sm].rank
        <5>1. p.head - at.head \in 0 .. (GivenSms - 1) /\ p.head - at.head < CountAt(at)
          BY <1>4, <4>5, <4>6
        <5>2. PICK sm \in Bucket : th[sm].rank = p.head - at.head
          BY <4>4, <5>1
        <5>. QED
          BY <4>5, <5>1, <5>2
      <4>7. ASSUME NEW sm \in Bucket, th[sm].rank < CountAt(at), p.head = at.head + th[sm].rank
            PROVE  p.head \in at.head .. (at.head + CountAt(at) - 1)
        BY <1>4, <4>2, <4>5, <4>7
      <4>. QED
        BY <4>6, <4>7
    <3>2. HandedOut(p)' <=> Before(p, Following(at))
      BY <1>1, <1>5 DEF HandedOut, Looking
    <3>3. HandedOut(p) <=> \/ Before(p, at)
                           \/ /\ p.row = at.row /\ p.sp = at.sp
                              /\ \E sm \in Bucket : /\ th[sm].rank < CountAt(at)
                                                    /\ p.head = at.head + th[sm].rank
      BY <1>1, <1>5 DEF HandedOut
    <3>. QED
      BY <1>4, <3>1, <3>2, <3>3
  <2>3. gphase' \in {"pass2", "ranges", "done"} => gphase = "pass2"
    BY <1>1 DEF InPass
  <2>. QED
    BY <1>1, <2>1, <2>2, <2>3, SameRows DEF GivenIInv, WorkList
<1>10. Ranged'
  BY <1>1 DEF Ranged, InPass
<1>. QED
  BY <1>6, <1>7, <1>8, <1>9, <1>10, BatchTold DEF GivenIInv

(* Thread 0 adds up the counts of pass 1, which the trace ends with, and   *)
(* pass 2 begins where the trace does.                                     *)
LEMMA OffsetsKeep ==
    ASSUME GivenIInv, Offsets
    PROVE  GivenIInv'
<1>1. /\ gphase = "offsets"
      /\ offset' = [sm \in Bucket |-> Total(count, 0 .. (sm - 1))]
      /\ count' = Zeros /\ gcost' = Overhead /\ gphase' = "pass2"
      /\ UNCHANGED <<giters, at, th, gwork, range, rows>>
  BY DEF Offsets
<1>2. PICK t : Told(t)
  BY DEF GivenIInv
<1>3. Type /\ RowsType /\ at = First /\ th = Looking
  BY <1>1 DEF GivenIInv, Type, RowsType, Gate, InPass
<1>4. Here = Past /\ Front = Past /\ Here' = First /\ Front' = Past
  BY <1>1, <1>3 DEF Here, Front, InPass
<1>5. count = t[Past].count
  <2>1. count \in [Bucket -> Nat] /\ t[Past].count \in [Bucket -> Nat]
    BY <1>2, <1>3, <1>4 DEF Told, Entries, Ledger, Type
  <2>2. \A sm \in Bucket : count[sm] = t[Past].count[sm]
    BY <1>2, <1>3, <1>4 DEF Told, Accounts, Now, Looking
  <2>. QED
    BY <2>1, <2>2
<1>6. Type'
  <2>1. \A sm \in Bucket : Total(count, 0 .. (sm - 1)) \in Int
    <3>1. ASSUME NEW sm \in Bucket PROVE Total(count, 0 .. (sm - 1)) \in Int
      <4>1. /\ GivenSms \in Nat /\ sm \in 0 .. GivenSms
            /\ \A k \in 0 .. (GivenSms - 1) : count[k] \in Nat
        BY <1>3, GivenAssumption DEF Bucket, Type
      <4>. QED
        BY <4>1, Running
    <3>. QED
      BY <3>1
  <2>2. offset' \in [Bucket -> Int]
    BY <1>1, <2>1
  <2>3. gcost' \in [Bucket -> Int] /\ count' \in [Bucket -> Nat]
    BY <1>1 DEF Zeros, Overhead, SMGlobalOverhead
  <2>. QED
    BY <1>1, <1>3, <2>2, <2>3, SameRows DEF Type
<1>7. Gate'
  BY <1>1, <1>3 DEF Gate, InPass, Looking
<1>8. Told(t)'
  <2>1. Entries(t)' /\ Turns(t)'
    BY <1>1, <1>2, <1>4, SameRows DEF Told, Entries, Turns
  <2>2. Accounts(t)'
    BY <1>1, <1>2, <1>3, <1>4 DEF Told, Entries, Accounts, Now, Looking
  <2>3. Apportioned(t)'
    BY <1>1, <1>5 DEF Apportioned
  <2>. QED
    BY <2>1, <2>2, <2>3 DEF Told
<1>9. RowsTold'
  <2>1. \A r \in GivenRow : ~ (r < First.row) /\ th'[0].pc # "gave"
    BY <1>1, <1>3, GivenAssumption DEF GivenRow, First, Looking, Bucket
  <2>. QED
    BY <1>1, <1>3, <2>1 DEF RowsTold
<1>10. WorkList'
  <2>1. Filled' = {}
    <3>1. \A sm \in Bucket : offset'[sm] \in Int /\ count'[sm] = 0
      BY <1>1, <1>6 DEF Type, Zeros
    <3>2. \A sm \in Bucket : offset'[sm] .. (offset'[sm] + count'[sm] - 1) = {}
      BY <3>1
    <3>. QED
      BY <3>2 DEF Filled
  <2>2. \A p \in Pieces : ~ HandedOut(p)'
    BY <1>1, <1>3, <1>4, FirstRight DEF HandedOut, Looking
  <2>. QED
    BY <1>1, <2>1, <2>2, SameRows DEF WorkList
<1>11. Ranged'
  BY <1>1 DEF Ranged
<1>. QED
  BY <1>6, <1>7, <1>8, <1>9, <1>10, <1>11 DEF GivenIInv

(* The ranges are the parts as they were counted twice.  No other step     *)
(* changes anything.                                                       *)
LEMMA RangesKeep ==
    ASSUME GivenIInv, WriteRanges \/ UNCHANGED gvars
    PROVE  GivenIInv'
<1>1. /\ UNCHANGED <<giters, at, th, gcost, count, offset, gwork, rows>>
      /\ \/ UNCHANGED <<gphase, range>>
         \/ /\ gphase = "ranges" /\ gphase' = "done"
            /\ range' = [sm \in Bucket |-> <<offset[sm], offset[sm] + count[sm]>>]
  BY DEF WriteRanges, gvars
<1>2. PICK t : Told(t)
  BY DEF GivenIInv
<1>3. Here' = Here /\ Front' = Front /\ InPass' = InPass
  BY <1>1 DEF Here, Front, InPass
<1>4. Type' /\ Gate' /\ RowsTold' /\ Ranged'
  BY <1>1, <1>3, SameRows DEF GivenIInv, Type, Gate, RowsTold, Ranged
<1>5. Told(t)'
  BY <1>1, <1>2, <1>3, SameRows DEF Told, Entries, Turns, Accounts, Now, Apportioned
<1>6. WorkList'
  <2>1. Filled' = Filled /\ \A p : HandedOut(p)' <=> HandedOut(p)
    BY <1>1, <1>3 DEF Filled, HandedOut
  <2>. QED
    BY <1>1, <2>1, SameRows DEF GivenIInv, WorkList
<1>. QED
  BY <1>4, <1>5, <1>6 DEF GivenIInv

(* The trace of a launch begins with its first batch, before which no SM   *)
(* has anything.                                                           *)
LEMMA DirectInitRight == ASSUME DirectInit PROVE GivenIInv
<1>1. /\ giters \in [GivenRow -> GivenIters]
      /\ gphase = "pass1" /\ at = First /\ th = Looking
      /\ gcost = Overhead /\ count = Zeros /\ offset = Zeros
      /\ rows = [r \in GivenRow |-> 1]
  BY DEF DirectInit
<1>2. RowsType
  BY <1>1, GivenAssumption DEF RowsType
<1>3. Overhead \in [Bucket -> Int] /\ Zeros \in [Bucket -> Nat]
  BY DEF Overhead, Zeros, SMGlobalOverhead
<1>4. Type
  <2>1. th \in [Bucket -> [pc : {"look", "ranked", "gave"}, rank : Nat]]
    BY <1>1 DEF Looking
  <2>2. offset \in [Bucket -> Int] /\ rows \in [GivenRow -> Nat]
    BY <1>1 DEF Zeros
  <2>. QED
    BY <1>1, <1>2, <1>3, <2>1, <2>2, FirstRight DEF Type, RowsType
<1>5. Gate
  BY <1>1 DEF Gate, InPass, Looking
<1>6. RowsTold /\ WorkList /\ Ranged
  BY <1>1 DEF RowsTold, WorkList, Ranged
<1>7. Here = First /\ Front = First
  BY <1>1 DEF Here, Front, InPass
<1>. DEFINE s == [cost |-> Overhead, count |-> Zeros]  t == [b \in {First} |-> s]
<1>8. s \in Ledger /\ Total(s.count, Bucket) = PiecesBefore(First)
  <2>1. Total(Zeros, Bucket) = 0
    <3>1. IsFiniteSet(Bucket) /\ \A sm \in Bucket : Zeros[sm] = 0
      BY GivenAssumption, FS_Interval DEF Bucket, Zeros
    <3>. QED
      BY <3>1, TotalZero
  <2>2. PiecesBefore(First) = 0
    <3>1. PiecesBefore(First) = Total(PiecesOf, 0 .. (0 - 1)) + 0 * GivenHeads + 0
      BY DEF PiecesBefore, First
    <3>2. 0 .. (0 - 1) = {}
      OBVIOUS
    <3>3. Total(PiecesOf, {}) = 0
      BY FS_EmptySet, TotalFirst
    <3>. QED
      BY <3>1, <3>2, <3>3, GivenAssumption
  <2>. QED
    BY <1>3, <2>1, <2>2 DEF Ledger
<1>9. DOMAIN t = {First} /\ t[First] = s
  OBVIOUS
<1>. HIDE DEF t
<1>10. Entries(t) /\ Turns(t)
  BY <1>7, <1>8, <1>9 DEF Entries, Turns
<1>11. Accounts(t) /\ Apportioned(t)
  BY <1>1, <1>7, <1>9 DEF Accounts, Now, Looking, Apportioned
<1>. QED
  BY <1>4, <1>5, <1>6, <1>10, <1>11 DEF GivenIInv, Told

(* GivenIInv is an invariant.                                              *)
THEOREM GivenInvariance == DirectSpec => []GivenIInv
<1>1. DirectInit => GivenIInv
  BY DirectInitRight
<1>2. GivenIInv /\ [DirectNext]_gvars => GivenIInv'
  <2>1. ASSUME GivenIInv, NEW sm \in Bucket, DirectThread(sm) PROVE GivenIInv'
    BY <2>1, LookKeeps, GiveKeeps DEF DirectThread
  <2>2. ASSUME GivenIInv, DirectBlock PROVE GivenIInv'
    BY <2>2, BatchKeeps, OffsetsKeep, RangesKeep DEF DirectBlock
  <2>3. ASSUME GivenIInv, DirectStop \/ UNCHANGED gvars PROVE GivenIInv'
    BY <2>3, RangesKeep DEF DirectStop
  <2>. QED
    BY <2>1, <2>2, <2>3 DEF DirectNext
<1>. QED
  BY <1>1, <1>2, PTL DEF DirectSpec

-----------------------------------------------------------------------------
(***************************************************************************)
(* What the kernels run.                                                   *)
(***************************************************************************)

(* No SM writes past its part of the work list: its count is at most the   *)
(* one pass 1 ended with.                                                  *)
LEMMA Within == ASSUME GivenIInv PROVE WithinRange
<1>1. SUFFICES ASSUME gphase \in {"pass2", "ranges", "done"}, NEW sm \in Bucket
               PROVE  offset[sm] + count[sm] <= PosEnd(sm)
  BY DEF WithinRange
<1>2. PICK t : Told(t)
  BY DEF GivenIInv
<1>3. Type /\ Gate
  BY DEF GivenIInv
<1>4. count[sm] <= t[Past].count[sm] /\ t[Past] \in Ledger
  BY <1>1, <1>2, <1>3, WithinTrace
<1>5. offset[sm] + t[Past].count[sm] = PosEnd(sm)
  BY <1>1, <1>2, <1>3, Parts
<1>6. count[sm] \in Nat /\ offset[sm] \in Int /\ t[Past].count[sm] \in Nat
  BY <1>3, <1>4 DEF Type, Ledger
<1>. QED
  BY <1>4, <1>5, <1>6

(* When the ranges are written all pieces have been handed out, so the     *)
(* list holds each once, and a head's pieces divide its row's iterations.  *)
LEMMA Right == ASSUME GivenIInv PROVE ListRight
<1>1. SUFFICES ASSUME gphase = "done"
               PROVE  /\ \A sm \in Bucket : range[sm] = <<offset[sm], PosEnd(sm)>>
                      /\ \A r \in GivenRow, h \in 0 .. (GivenHeads - 1) :
                            LET items == ItemsOf(r, h)
                            IN /\ {gwork[pos].sp : pos \in items} = 0 .. (rows[r] - 1)
                               /\ Cardinality(items) = rows[r]
                               /\ \A i \in 0 .. (giters[r] - 1) :
                                     Cardinality({pos \in items :
                                        gwork[pos].begin <= i /\ i < gwork[pos].end}) = 1
  BY DEF ListRight
<1>2. PICK t : Told(t)
  BY DEF GivenIInv
<1>3. Type /\ RowsType /\ at = First /\ th = Looking
  BY <1>1 DEF GivenIInv, Type, RowsType, Gate, InPass
<1>4. \A sm \in Bucket : range[sm] = <<offset[sm], offset[sm] + count[sm]>>
  BY <1>1 DEF GivenIInv, Ranged
<1>5. \A sm \in Bucket : offset[sm] + count[sm] = PosEnd(sm)
  <2>1. Here = Past
    BY <1>1 DEF Here, InPass
  <2>2. \A sm \in Bucket : count[sm] = t[Past].count[sm]
    BY <1>2, <1>3, <2>1 DEF Told, Accounts, Now, Looking
  <2>3. \A sm \in Bucket : offset[sm] + t[Past].count[sm] = PosEnd(sm)
    BY <1>1, <1>2, <1>3, Parts
  <2>. QED
    BY <2>2, <2>3
<1>6. UNION {range[sm][1] .. (range[sm][2] - 1) : sm \in Bucket} = Filled
  <2>1. ASSUME NEW sm \in Bucket
        PROVE  range[sm][1] .. (range[sm][2] - 1) = offset[sm] .. (offset[sm] + count[sm] - 1)
    <3>1. range[sm] = <<offset[sm], offset[sm] + count[sm]>>
      BY <1>4
    <3>2. range[sm][1] = offset[sm] /\ range[sm][2] = offset[sm] + count[sm]
      BY <3>1
    <3>3. offset[sm] \in Int /\ count[sm] \in Int
      BY <1>3 DEF Type
    <3>. QED
      BY <3>2, <3>3
  <2>. QED
    BY <2>1 DEF Filled
<1>7. \A p \in Pieces : HandedOut(p)
  BY <1>1, <1>3, FirstRight DEF HandedOut, Here, InPass
<1>8. /\ \A pos \in Filled : \E p \in Pieces : gwork[pos] = Item(p.row, p.sp, p.head)
      /\ \A p \in Pieces : \E pos \in Filled : gwork[pos] = Item(p.row, p.sp, p.head)
      /\ \A pos, q \in Filled : gwork[pos] = gwork[q] => pos = q
  BY <1>1, <1>7 DEF GivenIInv, WorkList
<1>9. ASSUME NEW r \in GivenRow, NEW h \in 0 .. (GivenHeads - 1)
      PROVE  LET items == ItemsOf(r, h)
             IN /\ {gwork[pos].sp : pos \in items} = 0 .. (rows[r] - 1)
                /\ Cardinality(items) = rows[r]
                /\ \A i \in 0 .. (giters[r] - 1) :
                      Cardinality({pos \in items : gwork[pos].begin <= i /\ i < gwork[pos].end}) = 1
  <2>. DEFINE items == ItemsOf(r, h)  n == Splits(r)  S == 0 .. (n - 1)
  <2>1. rows[r] = n /\ n \in Nat \ {0}
    BY <1>1, <1>3, RowSplits DEF GivenIInv, RowsTold
  <2>2. ASSUME NEW pos \in items
        PROVE  gwork[pos].sp \in S /\ gwork[pos] = Item(r, gwork[pos].sp, h) /\ pos \in Filled
    <3>1. pos \in Filled /\ gwork[pos].row = r /\ gwork[pos].head = h
      BY <1>6 DEF ItemsOf
    <3>2. PICK p \in Pieces : gwork[pos] = Item(p.row, p.sp, p.head)
      BY <1>8, <3>1
    <3>3. p.row = r /\ p.head = h /\ p.sp = gwork[pos].sp
      BY <3>1, <3>2 DEF Item
    <3>4. p.sp \in Nat /\ p.sp < Splits(p.row)
      BY DEF Pieces
    <3>. QED
      BY <2>1, <3>1, <3>2, <3>3, <3>4
  <2>3. ASSUME NEW sp \in S PROVE \E pos \in items : gwork[pos] = Item(r, sp, h)
    <3>. DEFINE p == [row |-> r, sp |-> sp, head |-> h]
    <3>1. p \in Pieces
      BY <2>1, GivenAssumption DEF Pieces
    <3>2. PICK pos \in Filled : gwork[pos] = Item(r, sp, h)
      BY <1>8, <3>1
    <3>3. pos \in items
      BY <1>6, <3>2 DEF ItemsOf, Item
    <3>. QED
      BY <3>2, <3>3
  <2>4. \A sp : /\ Item(r, sp, h).sp = sp
                /\ Item(r, sp, h).begin = Begin(r, sp) /\ Item(r, sp, h).end = End(r, sp)
    BY DEF Item
  <2>. HIDE DEF items
  <2>5. {gwork[pos].sp : pos \in items} = S
    BY <2>2, <2>3, <2>4
  <2>6. \A pos, q \in items : gwork[pos].sp = gwork[q].sp => pos = q
    BY <1>8, <2>2
  <2>7. Cardinality(items) = n
    <3>. DEFINE f == [pos \in items |-> gwork[pos].sp]
    <3>1. f \in [items -> S]
      BY <2>2
    <3>2. (\A x, y \in items : f[x] = f[y] => x = y) /\ \A sp \in S : \E x \in items : f[x] = sp
      BY <2>3, <2>4, <2>6
    <3>3. IsFiniteSet(S) /\ Cardinality(S) = n
      <4>. HIDE DEF n
      <4>. QED
        BY <2>1, FS_Interval
    <3>. HIDE DEF f, S
    <3>. QED
      BY <3>1, <3>2, <3>3, SameCount
  <2>8. ASSUME NEW i \in 0 .. (giters[r] - 1)
        PROVE  Cardinality({pos \in items : gwork[pos].begin <= i /\ i < gwork[pos].end}) = 1
    <3>1. PICK q \in S : \A sp \in Nat : (Begin(r, sp) <= i /\ i < End(r, sp)) <=> sp = q
      BY <1>3, IterationsRight
    <3>2. PICK pos \in items : gwork[pos] = Item(r, q, h)
      BY <2>3
    <3>3. ASSUME NEW x \in items PROVE (gwork[x].begin <= i /\ i < gwork[x].end) <=> x = pos
      <4>1. gwork[x].sp \in S /\ gwork[x] = Item(r, gwork[x].sp, h)
        BY <2>2
      <4>2. gwork[x].begin = Begin(r, gwork[x].sp) /\ gwork[x].end = End(r, gwork[x].sp)
        BY <2>4, <4>1
      <4>3. gwork[x].sp \in Nat
        BY <2>1, <4>1
      <4>4. (gwork[x].begin <= i /\ i < gwork[x].end) <=> gwork[x].sp = q
        BY <3>1, <4>2, <4>3
      <4>5. gwork[pos].sp = q
        BY <2>4, <3>2
      <4>. QED
        BY <2>6, <4>4, <4>5
    <3>4. {x \in items : gwork[x].begin <= i /\ i < gwork[x].end} = {pos}
      BY <3>3
    <3>. QED
      BY <3>4, FS_Singleton
  <2>. QED
    BY <2>1, <2>5, <2>7, <2>8 DEF items
<1>. QED
  BY <1>4, <1>5, <1>9

(* A launch with a given number of splits gets a plan the kernels can run. *)
THEOREM GivenRuns == DirectSpec => []GivenRunnable
<1>1. GivenIInv => GivenRunnable
  BY Within, Right DEF GivenRunnable
<1>. QED
  BY <1>1, GivenInvariance, PTL

-----------------------------------------------------------------------------
(* The path a launch does not take stays as it was.                        *)
LEMMA OnePath ==
    ASSUME [KernelNext]_allVars
    PROVE  /\ adaptive_mode => adaptive_mode' /\ [Next]_vars /\ UNCHANGED gvars
           /\ ~adaptive_mode => ~adaptive_mode' /\ [DirectNext]_gvars /\ UNCHANGED vars
BY DEF KernelNext, allVars

(* A launch in adaptive mode is a behaviour of PlanRebalance, and one with *)
(* a given number of splits a behaviour of PlanGreedy.                     *)
THEOREM Launches ==
    KernelSpec => \/ Spec /\ []GivenOff
                  \/ DirectSpec /\ []AdaptiveOff
<1>1. KernelInit => \/ adaptive_mode /\ Init /\ GivenOff
                    \/ ~adaptive_mode /\ AdaptiveOff /\ DirectInit
  BY DEF KernelInit
<1>2. adaptive_mode /\ GivenOff /\ [KernelNext]_allVars => adaptive_mode' /\ [Next]_vars /\ GivenOff'
  <2>1. ASSUME GivenOff, UNCHANGED gvars PROVE GivenOff'
    BY <2>1 DEF GivenOff, gvars
  <2>. QED
    BY <2>1, OnePath
<1>3. ~adaptive_mode /\ AdaptiveOff /\ [KernelNext]_allVars
      => ~adaptive_mode' /\ [DirectNext]_gvars /\ AdaptiveOff'
  <2>1. ASSUME AdaptiveOff, UNCHANGED vars PROVE AdaptiveOff'
    BY <2>1 DEF AdaptiveOff, vars
  <2>. QED
    BY <2>1, OnePath
<1>. QED
  BY <1>1, <1>2, <1>3, PTL DEF KernelSpec, Spec, DirectSpec

(* Every plan that a launch writes is one the kernels can run.             *)
THEOREM EveryPlanRuns == KernelSpec => [](PlanRunnable /\ GivenRunnable)
<1>1. AdaptiveOff => PlanRunnable
  BY DEF AdaptiveOff, PlanRunnable
<1>2. GivenOff => GivenRunnable
  BY DEF GivenOff, GivenRunnable, WithinRange, ListRight
<1>. QED
  BY <1>1, <1>2, Launches, Runnable, GivenRuns, PTL

(* While it plans, in whichever mode: what it has assigned is whole, its   *)
(* sub ids and costs are right, and no pair of SMs gets dearer.            *)
THEOREM PlanningRight ==
    KernelSpec => [](EachIterationOnce /\ SubIds /\ CostExact) /\ NeverWorse
<1>1. AdaptiveOff => EachIterationOnce /\ SubIds
  BY DEF AdaptiveOff, EachIterationOnce, SubIds
<1>2. AdaptiveOff => CostExact
  <2>1. SUFFICES ASSUME AdaptiveOff, NEW sm \in Sm
                 PROVE  cost[sm] = SMGlobalOverhead + Total(CostOf, tasks[sm])
    BY DEF CostExact
  <2>2. cost[sm] = SMGlobalOverhead /\ tasks[sm] = {}
    BY <2>1 DEF AdaptiveOff, NoTasks, FreshCost
  <2>. QED
    BY <2>2, NoCost DEF SMGlobalOverhead
<1>. DEFINE Down == \A sm \in Sm : thr[sm] # Idle =>
                       cost'[thr[sm].to] <= cost'[sm] /\ cost'[sm] <= cost[sm]
<1>3. AdaptiveOff => [Down]_vars
  BY DEF AdaptiveOff
<1>4. NeverWorse <=> [][Down]_vars
  BY PTL DEF NeverWorse
<1>. HIDE DEF Down
<1>. QED
  BY <1>1, <1>2, <1>3, <1>4, Launches, Coverage, SubIdsDense, Costing, Downhill, PTL

=============================================================================
