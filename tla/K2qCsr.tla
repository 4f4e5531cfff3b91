------------------------------- MODULE K2qCsr -------------------------------
(***************************************************************************)
(* build_k2q_csr.cu and its host side: from the KV blocks every query has   *)
(* chosen to the queries of every KV block, in ascending order, without a   *)
(* sort.  Five kernels run one after the other in a stream:                 *)
(*   M   the row of every block          PR  row_counts to row_ptr, items   *)
(*   H   histograms of the units         PT  exclusive scan over the units  *)
(*   S   scatter into q_idx                                                 *)
(* A unit is a warp w of a CTA c; it owns a range of queries and, after PT, *)
(* a range of places in every row.  CTAs, warps between two barriers and    *)
(* the threads of PR run in any order; the lanes of a warp run together.    *)
(***************************************************************************)
EXTENDS KvRows

CONSTANTS
    Problems,        \* the inputs: see prob
    TopK,
    Target,          \* target_q_per_cta of the work list
    Warps,           \* kWarps of a CTA
    QPerIter,        \* queries a warp scatters in one instruction
    MinQPerCta,
    RowsPerBlock,    \* rows of a block of PT
    ScanThreads,     \* threads of a block of PR
    CursorBits       \* width of a packed counter: two of them in a word

ASSUME CsrAssumption ==
    /\ {TopK, Target, Warps, QPerIter, MinQPerCta} \subseteq Nat \ {0}
    /\ {RowsPerBlock, ScanThreads, CursorBits} \subseteq Nat \ {0}

VARIABLES
    prob,          \* cu_seqlens, max_seqlen_k, total_rows or -1, q2k, and the
                   \* CTAs that the device has room for
    host,          \* the sizes the host computes and passes to the kernels
    stage,         \* the kernel that runs
    at,            \* per agent of the kernel: the steps it has made
    rowMap, rowCoords,
    smem,          \* H and S, per unit: packed counters in shared memory
    rowCounts, tileCounts, rowPtr,
    scan, addend,  \* PR, per thread: scan_buf and the value read from it
    items, workCount,
    edges,         \* q_idx and qsplit_idx
    splitCounts,
    wanted         \* the index by its definition, to compare with

csrVars == <<prob, host, stage, at, rowMap, rowCoords, smem, rowCounts, tileCounts, rowPtr,
          scan, addend, items, workCount, edges, splitCounts, wanted>>
-----------------------------------------------------------------------------
(* Sizes and the split of the queries over CTAs and warps. *)
HostSizes(p) ==
    LET numQ == Tokens(p.cuQ)
        rows == IF p.rows >= 0 THEN p.rows ELSE DerivedRows(p.cuK)
        ctas == Larger(1, Smaller(Smaller(p.maxCtas, CeilDiv(numQ, MinQPerCta)), numQ))
        perCta == Larger(1, CeilDiv(numQ, ctas)) IN
    [numQ |-> numQ, rows |-> rows, heads |-> Len(p.q2k),
     maxBlocks |-> CeilDiv(Larger(p.maxK, BlkKv), BlkKv),
     capacity |-> Capacity(rows, numQ, TopK, Len(p.q2k), Target),
     ctas |-> CeilDiv(numQ, perCta), perCta |-> perCta, perWarp |-> CeilDiv(perCta, Warps)]

Heads == 0..(host.heads - 1)
Rows == 0..(host.rows - 1)
Queries == 0..(host.numQ - 1)
Levels0 == 0..(host.maxBlocks - 1)
Picks(h, q) == prob.q2k[h + 1][q + 1]      \* a sequence of TopK blocks or -1

Units == (0..(host.ctas - 1)) \X (0..(Warps - 1))
CtaEnd(c) == Smaller((c + 1) * host.perCta, host.numQ)
First(u) == Smaller(u[1] * host.perCta + u[2] * host.perWarp, CtaEnd(u[1]))
End(u) == Smaller(First(u) + host.perWarp, CtaEnd(u[1]))
UnitIndex(u) == u[1] * Warps + u[2]

(* Two counters in a word: an increment beyond one of them carries. *)
HalfRange == Doubled[CursorBits]
Words == 0..(CeilDiv(host.rows, 2) - 1)
Zeroed == [i \in Words |-> 0]
Delta(row) == IF row % 2 = 0 THEN 1 ELSE HalfRange
Bump(words, entries) ==
    [i \in Words |->
        LET into(row) == Delta(row) * Cardinality({e \in entries : e.row = row})
        IN (words[i] + into(2 * i) + into(2 * i + 1)) % (HalfRange * HalfRange)]
Half(words, row) == (words[row \div 2] \div Delta(row)) % HalfRange

(* The row an entry of q2k leads to; -1 when there is none. *)
RowAt(h, q, slot) ==
    LET kvb == Picks(h, q)[slot]
        row == IF kvb \in Levels0 THEN rowMap[BatchOf(prob.cuQ, q)][kvb] ELSE -1
    IN IF row \in Rows THEN row ELSE -1

(* The valid entries of queries first to last - 1; a warp takes them in     *)
(* lane order: by query and slot.                                           *)
Entries(h, first, last) ==
    {e \in {[q |-> x[1], slot |-> x[2], row |-> RowAt(h, x[1], x[2])] :
             x \in (first..(last - 1)) \X (1..TopK)} : e.row # -1}
LaneBefore(e, f) == e.q < f.q \/ (e.q = f.q /\ e.slot < f.slot)

(* The blocks of PT: RowsPerBlock rows of a head each.                      *)
NumBlocksPT == CeilDiv(host.rows, RowsPerBlock)
RowsOfBlock(a) ==
    LET first == a[2] * RowsPerBlock IN first..(Smaller(first + RowsPerBlock, host.rows) - 1)

(* The rows of a thread of PR, and the rounds of its scan: one for every    *)
(* doubling of the distance it adds over, while that is within the block.   *)
FirstRow(t) == t * CeilDiv(host.rows, ScanThreads)
RowsOfThread(t) == FirstRow(t)..(Smaller(FirstRow(t + 1), host.rows) - 1)
ScanRounds == Smallest({k \in 0..ScanThreads : Doubled[k] >= ScanThreads})
CountOf(h, rows) == Total(rowCounts[h], rows)

(* The threads, warps or blocks of a kernel that are told apart. *)
Agents(k) ==
    CASE k = "M" -> Levels0 \X {0}
      [] k \in {"H", "S"} -> Units
      [] k = "PR" -> Heads \X (0..(ScanThreads - 1))
      [] k = "PT" -> Heads \X (0..(NumBlocksPT - 1))
      [] OTHER -> {}

NoEdge == [q |-> -1, split |-> 0]
NoItem == [head |-> 0, row |-> 0, begin |-> 0, count |-> 0, batch |-> 0, block |-> 0]

(* The definition: the queries of sequence b that chose its block level, in *)
(* ascending order (build_k2q_csr_torch_reference sorts for it).            *)
Chosen(p, h, b, level) ==
    {i \in 0..(LenOf(p.cuQ, b) - 1) :
        \E slot \in 1..TopK : p.q2k[h + 1][p.cuQ[b] + i + 1][slot] = level}
Ascending(S) ==
    [i \in 1..Cardinality(S) |-> CHOOSE x \in S : Cardinality({y \in S : y < x}) = i - 1]

Definition(p) ==
    [row |-> [bl \in Blocks(p.cuK) |-> RowRank(p.cuK, bl[1], bl[2])],
     slice |-> [h \in Heads |-> [bl \in Blocks(p.cuK) |-> Ascending(Chosen(p, h, bl[1], bl[2]))]]]

(* What a call keeps to: prefix sums of the same sequences, which            *)
(* max_seqlen_k bounds; a query chooses a block once; a row for every       *)
(* block; and no warp has so many queries that a counter overflows.         *)
PrefixSums(cu) == cu \in Seq(Nat) /\ Len(cu) > 1 /\ cu[1] = 0 /\ \A b \in SeqsOf(cu) : cu[b] <= cu[b + 1]
SafeProblem(p) ==
    /\ PrefixSums(p.cuQ) /\ PrefixSums(p.cuK) /\ Len(p.cuQ) = Len(p.cuK)
    /\ {p.maxK, p.maxCtas} \subseteq Nat /\ \A b \in SeqsOf(p.cuK) : LenOf(p.cuK, b) <= p.maxK
    /\ p.rows \in Int /\ p.q2k \in Seq(Seq(Seq(Int)))
    /\ \A h \in DOMAIN p.q2k :
        /\ Len(p.q2k[h]) = Tokens(p.cuQ)
        /\ \A q \in DOMAIN p.q2k[h] :
            /\ Len(p.q2k[h][q]) = TopK
            /\ \A s, t \in 1..TopK : p.q2k[h][q][s] = p.q2k[h][q][t] => s = t \/ p.q2k[h][q][s] = -1
    /\ HostSizes(p).rows >= Cardinality(Blocks(p.cuK))
    /\ HostSizes(p).perWarp < HalfRange

(* What launch_pipeline allocates and clears; without rows or queries the   *)
(* host only clears.                                                        *)
CsrInit ==
    /\ prob \in Problems
    /\ host = HostSizes(prob)
    /\ wanted = Definition(prob)
    /\ stage = IF host.numQ = 0 \/ host.rows = 0 THEN "done" ELSE "M"
    /\ at = [a \in Agents(stage) |-> 0]
    /\ rowMap = [b \in SeqsOf(prob.cuK) |-> [l \in Levels0 |-> -1]]
    /\ rowCoords = [r \in Rows |-> <<>>]
    /\ smem = <<>>
    /\ rowCounts = [h \in Heads |-> [r \in Rows |-> 0]]
    /\ tileCounts = <<>>
    /\ rowPtr = [h \in Heads |-> [i \in 0..host.rows |-> 0]]
    /\ scan = <<>> /\ addend = <<>>
    /\ items = [k \in 0..(host.capacity - 1) |-> NoItem]
    /\ workCount = 0
    /\ edges = [h \in Heads |-> [i \in 0..(host.numQ * TopK - 1) |-> NoEdge]]
    /\ splitCounts = [q \in Queries |-> [h \in Heads |-> IF stage = "done" THEN 0 ELSE -1]]
-----------------------------------------------------------------------------
Did(a) == at' = [at EXCEPT ![a] = @ + 1]

(* __syncthreads: the peers of a have made all the steps a has made. *)
Sync(a) == \A b \in DOMAIN at : b[1] = a[1] => at[b] >= at[a]

UnchangedM == UNCHANGED <<rowMap, rowCoords>>
UnchangedPR == UNCHANGED <<rowPtr, scan, addend, items, workCount>>
UnchangedS == UNCHANGED <<edges, splitCounts>>

(* M: thread 0 of the block of a level. *)
MapLevel(a) ==
    LET level == a[1]
        at_level == {b \in SeqsOf(prob.cuK) : HasLevel(prob.cuK, b, level)} IN
    /\ stage = "M" /\ at[a] = 0
    /\ rowMap' = [b \in SeqsOf(prob.cuK) |-> [rowMap[b] EXCEPT ![level] =
                    IF b \in at_level THEN RowOf(prob.cuK, b, level) ELSE -1]]
    /\ rowCoords' = [r \in Rows |->
                    IF \E b \in at_level : RowOf(prob.cuK, b, level) = r
                    THEN <<CHOOSE b \in at_level : RowOf(prob.cuK, b, level) = r, level>>
                    ELSE rowCoords[r]]
    /\ Did(a)
    /\ UNCHANGED <<prob, host, wanted, stage, smem, rowCounts, tileCounts>>
    /\ UnchangedPR /\ UnchangedS

(* H, four steps a head: clear, count, write the tile, add to row_counts.   *)
HeadOf(a) == at[a] \div 4
HistStep(a, n) ==
    /\ stage = "H"
    /\ at[a] < 4 * host.heads /\ at[a] % 4 = n
    /\ Sync(a)
    /\ Did(a)
    /\ UNCHANGED <<prob, host, wanted, stage>>
    /\ UnchangedM /\ UnchangedPR /\ UnchangedS

HistZero(a) ==
    /\ HistStep(a, 0)
    /\ smem' = [smem EXCEPT ![a] = Zeroed]
    /\ UNCHANGED <<rowCounts, tileCounts>>

HistCount(a) ==
    LET counted == Entries(HeadOf(a), First(a), End(a)) IN
    /\ HistStep(a, 1)
    /\ smem' = [smem EXCEPT ![a] = Bump(@, counted)]
    /\ UNCHANGED <<rowCounts, tileCounts>>

HistTile(a) ==
    /\ HistStep(a, 2)
    /\ tileCounts' = [tileCounts EXCEPT ![UnitIndex(a)][HeadOf(a)] =
                        [r \in Rows |-> Half(smem[a], r)]]
    /\ UNCHANGED <<smem, rowCounts>>

(* A warp adds up the counters of all warps of the CTA for its rows. *)
HistSum(a) ==
    LET mine == {r \in Rows : r % Warps = a[2]}
        sum(r) == Total([w \in 0..(Warps - 1) |-> Half(smem[<<a[1], w>>], r)], 0..(Warps - 1)) IN
    /\ HistStep(a, 3)
    /\ rowCounts' = [rowCounts EXCEPT ![HeadOf(a)] =
                        [r \in Rows |-> IF r \in mine THEN @[r] + sum(r) ELSE @[r]]]
    /\ UNCHANGED <<smem, tileCounts>>

(* PR: a thread adds up its rows, takes part in the scan of the block (read *)
(* and add have a barrier between them), and emits its rows in order.       *)
Emitting == 2 * ScanRounds + 1

ScanLocal(a) ==
    /\ stage = "PR" /\ at[a] = 0
    /\ scan' = [scan EXCEPT ![a] = CountOf(a[1], RowsOfThread(a[2]))]
    /\ Did(a)
    /\ UNCHANGED <<prob, host, wanted, stage, smem, rowCounts, tileCounts, rowPtr, addend, items, workCount>>
    /\ UnchangedM /\ UnchangedS

ScanRead(a) ==
    LET off == Doubled[(at[a] - 1) \div 2] IN
    /\ stage = "PR" /\ at[a] \in 1..(Emitting - 1) /\ at[a] % 2 = 1
    /\ Sync(a)
    /\ addend' = [addend EXCEPT ![a] = IF a[2] >= off THEN scan[<<a[1], a[2] - off>>] ELSE 0]
    /\ Did(a)
    /\ UNCHANGED <<prob, host, wanted, stage, smem, rowCounts, tileCounts, rowPtr, scan, items, workCount>>
    /\ UnchangedM /\ UnchangedS

ScanAdd(a) ==
    /\ stage = "PR" /\ at[a] \in 1..(Emitting - 1) /\ at[a] % 2 = 0
    /\ Sync(a)
    /\ scan' = [scan EXCEPT ![a] = @ + addend[a]]
    /\ Did(a)
    /\ UNCHANGED <<prob, host, wanted, stage, smem, rowCounts, tileCounts, rowPtr, addend, items, workCount>>
    /\ UnchangedM /\ UnchangedS

\* Mutant: the last chunk of a row is a full one.
ChunkItemFull(h, row, c) ==
    [Item(h, row, c, rowCounts[h][row], Target, rowCoords[row][1], rowCoords[row][2])
        EXCEPT !.count = Target]
ChunkItem(h, row, c) ==
    Item(h, row, c, rowCounts[h][row], Target, rowCoords[row][1], rowCoords[row][2])

EmitRow(a) ==
    LET h == a[1]
        mine == RowsOfThread(a[2])
        row == FirstRow(a[2]) + (at[a] - Emitting)
        before == scan[a] - CountOf(h, mine)
        num == Chunks(rowCounts[h][row], Target) IN
    /\ stage = "PR" /\ at[a] >= Emitting
    /\ at[a] - Emitting < Cardinality(mine)
    /\ Sync(a) \/ at[a] > Emitting
    /\ rowPtr' = [rowPtr EXCEPT ![h][row + 1] =
                    before + CountOf(h, {r \in mine : r <= row})]
    /\ workCount' = workCount + num
    /\ items' = [k \in DOMAIN items |->
                    IF k \in workCount..(workCount + num - 1)
                    THEN ChunkItem(h, row, k - workCount) ELSE items[k]]
    /\ Did(a)
    /\ UNCHANGED <<prob, host, wanted, stage, smem, rowCounts, tileCounts, scan, addend>>
    /\ UnchangedM /\ UnchangedS

(* PT: a block turns the counts of its rows into the first place of every   *)
(* unit: the row's start and what the units before it put there.            *)
PrefixBlock(a) ==
    LET h == a[1]
        start(u, r) == rowPtr[h][r] +
            Total([v \in 0..(u - 1) |-> tileCounts[v][h][r]], 0..(u - 1)) IN
    /\ stage = "PT" /\ at[a] = 0
    /\ tileCounts' = [u \in DOMAIN tileCounts |-> [tileCounts[u] EXCEPT ![h] =
                        [r \in Rows |-> IF r \in RowsOfBlock(a) THEN start(u, r) ELSE @[r]]]]
    /\ Did(a)
    /\ UNCHANGED <<prob, host, wanted, stage, smem, rowCounts>>
    /\ UnchangedM /\ UnchangedPR /\ UnchangedS

(* S: an instruction of a unit scatters the entries of QPerIter queries.    *)
(* The cursors are cleared before the first one of a head; the CTA meets    *)
(* before the next head.                                                    *)
Steps(u) == Larger(1, CeilDiv(End(u) - First(u), QPerIter))
AtHead(u) == at[u] \div Steps(u)

\* Mutant: the atomics of an instruction return in any order of the lanes.
LaneOrderAny(entries) ==
    {[e \in entries |-> {f \in entries : rank[f] < rank[e]}] :
        rank \in Bijection(entries, 1..Cardinality(entries))}
(* An order of the increments: what comes before each.  It is lane order,   *)
(* within an instruction as well (which the code verified on the hardware,  *)
(* and relies on).                                                          *)
LaneOrder(entries) == {[e \in entries |-> {f \in entries : LaneBefore(f, e)}]}

(* The ballot: valid entries of the same query in lower lanes. *)
SplitOf(e, entries) ==
    Cardinality({f \in entries : f.q = e.q /\ f.slot < e.slot})

Scatter(u) ==
    LET h == AtHead(u)
        i == at[u] % Steps(u)
        first == First(u) + i * QPerIter
        last == Larger(first, Smaller(first + QPerIter, End(u)))
        entries == Entries(h, first, last)
        cleared == IF i = 0 THEN Zeroed ELSE smem[u]
        base(row) == tileCounts[UnitIndex(u)][h][row] IN
    /\ stage = "S" /\ h < host.heads
    /\ i = 0 => \A w \in DOMAIN at : w[1] = u[1] => at[w] >= h * Steps(w)
    /\ \E earlier \in LaneOrder(entries) :
        LET place(e) == base(e.row) + Half(Bump(cleared, earlier[e]), e.row)
            at_place(pos) == {e \in entries : place(e) = pos}
            last_at(pos) == CHOOSE e \in at_place(pos) : at_place(pos) \subseteq earlier[e] \cup {e}
            edge(e) == [q |-> e.q - prob.cuQ[BatchOf(prob.cuQ, e.q)], split |-> SplitOf(e, entries)] IN
        edges' = [edges EXCEPT ![h] = [pos \in DOMAIN @ |->
                    IF at_place(pos) # {} THEN edge(last_at(pos)) ELSE @[pos]]]
    /\ smem' = [smem EXCEPT ![u] = Bump(cleared, entries)]
    /\ splitCounts' = [q \in DOMAIN splitCounts |->
            IF q \in first..(last - 1)
            THEN [splitCounts[q] EXCEPT ![h] = Cardinality({e \in entries : e.q = q})]
            ELSE splitCounts[q]]
    /\ Did(u)
    /\ UNCHANGED <<prob, host, wanted, stage, rowCounts, tileCounts>>
    /\ UnchangedM /\ UnchangedPR
-----------------------------------------------------------------------------
StepsOf(k, a) ==
    CASE k \in {"M", "PT"} -> 1
      [] k = "H" -> 4 * host.heads
      [] k = "PR" -> Emitting + Cardinality(RowsOfThread(a[2]))
      [] k = "S" -> host.heads * Steps(a)

NextKernel == [M |-> "H", H |-> "PR", PR |-> "PT", PT |-> "S", S |-> "done"]

(* The next kernel of the stream starts when the one before has ended. *)
LaunchNext ==
    LET k == NextKernel[stage] IN
    /\ stage # "done"
    /\ \A a \in DOMAIN at : at[a] = StepsOf(stage, a)
    /\ stage' = k
    /\ at' = [a \in Agents(k) |-> 0]
    /\ smem' = IF k \in {"H", "S"} THEN [u \in Units |-> Zeroed] ELSE <<>>
    /\ tileCounts' = IF k = "H" THEN [u \in 0..(host.ctas * Warps - 1) |->
                                       [h \in Heads |-> [r \in Rows |-> 0]]]
                     ELSE tileCounts
    /\ scan' = IF k = "PR" THEN [a \in Agents(k) |-> 0] ELSE <<>>
    /\ addend' = scan'
    /\ UNCHANGED <<prob, host, wanted, rowCounts, rowPtr, items, workCount>>
    /\ UnchangedM /\ UnchangedS

KernelStep(a) ==
    \/ MapLevel(a) \/ HistZero(a) \/ HistCount(a) \/ HistTile(a) \/ HistSum(a)
    \/ ScanLocal(a) \/ ScanRead(a) \/ ScanAdd(a) \/ EmitRow(a)
    \/ PrefixBlock(a) \/ Scatter(a)

Builder == (\E a \in DOMAIN at : KernelStep(a)) \/ LaunchNext

CsrSpec == CsrInit /\ [][Builder]_csrVars

-----------------------------------------------------------------------------
QIdxSize == host.numQ * TopK

Slice(h, row) == [i \in 1..(rowPtr[h][row + 1] - rowPtr[h][row]) |-> edges[h][rowPtr[h][row] + i - 1].q]

(* The index is the definition, for every schedule of CTAs, warps and       *)
(* threads: no query is lost, repeated or out of order, rows follow one     *)
(* another and the rest is -1 (build_k2q_csr.cu:6-9).                       *)
CsrRight ==
    stage = "done" =>
        \A h \in Heads :
            /\ rowPtr[h][0] = 0
            /\ \A bl \in DOMAIN wanted.row :
                wanted.row[bl] \in Rows /\ Slice(h, wanted.row[bl]) = wanted.slice[h][bl]
            /\ \A row \in Rows : row >= Cardinality(DOMAIN wanted.row) => Slice(h, row) = <<>>
            /\ \A i \in rowPtr[h][host.rows]..(QIdxSize - 1) : edges[h][i] = NoEdge

(* The partial outputs of a query: its edges, over all rows, are numbered   *)
(* 0 to n - 1 and split_counts is n, so K1 writes each slot once and the    *)
(* combine kernel reads what was written (build_k2q_csr.cu:458, 462).       *)
SplitsDense ==
    stage = "done" => \A h \in Heads, q \in Queries :
        LET b == BatchOf(prob.cuQ, q)
            i == q - prob.cuQ[b]
            rows == {wanted.row[bl] : bl \in {x \in DOMAIN wanted.row : x[1] = b}}
            mine == {pos \in 0..(QIdxSize - 1) : edges[h][pos].q = i /\
                       \E r \in rows : pos \in rowPtr[h][r]..(rowPtr[h][r + 1] - 1)}
            n == splitCounts[q][h] IN
        /\ {edges[h][pos].split : pos \in mine} = 0..(n - 1)
        /\ Cardinality(mine) = n

(* The work list: every query of every row in one item, and all items       *)
(* within the capacity the host allotted, in whatever order threads emit.   *)
ScheduleRight ==
    stage = "done" =>
        /\ workCount <= host.capacity
        /\ Covers([k \in 0..(workCount - 1) |-> items[k]],
                  [h \in Heads |-> [r \in Rows |-> rowPtr[h][r + 1] - rowPtr[h][r]]],
                  Target, wanted.row)

(* What a query chose is in the index, at the row of its block. *)
EveryChoiceKept ==
    stage = "done" => \A h \in Heads : \A bl \in DOMAIN wanted.row :
        \A i \in DOMAIN wanted.slice[h][bl] :
            /\ wanted.row[bl] \in Rows
            /\ \E k \in DOMAIN Slice(h, wanted.row[bl]) :
                Slice(h, wanted.row[bl])[k] = wanted.slice[h][bl][i]
=============================================================================
