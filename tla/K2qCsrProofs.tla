---------------------------- MODULE K2qCsrProofs ----------------------------
(***************************************************************************)
(* What the builder of the reverse index makes for every batch, selection, *)
(* shape of a launch and interleaving of its threads:                      *)
(* CsrSpec => [](CsrRight /\ ScheduleRight /\ SplitsDense).                *)
(*                                                                         *)
(* Each kernel counts again what the one before it counted, over other     *)
(* ranges of queries.  The invariant measures all of it by one function of *)
(* the input: Ahead(h, r, q), the queries before q that chose row r.       *)
(***************************************************************************)
EXTENDS K2qCsr, ReductionLemmas

Busy == host.numQ > 0 /\ host.rows > 0
Ctas == 0..(host.ctas - 1)

\* The queries that chose a row, how many of them come before q, and in a range.
Chose(h, r) == {q \in Queries : \E s \in 1..TopK : RowAt(h, q, s) = r}
Ahead(h, r, q) == Under(Chose(h, r), q)
CountIn(h, r, first, end) == Ahead(h, r, end) - Ahead(h, r, first)

\* Where the rows of a head begin, and the counters of two rows in a word.
CountOfRow(h) == [r \in Rows |-> Ahead(h, r, host.numQ)]
Start(h, r) == Total(CountOfRow(h), 0..(r - 1))
Packed(h, first, end) ==
    [i \in Words |-> CountIn(h, 2 * i, first, end) + HalfRange * CountIn(h, 2 * i + 1, first, end)]

\* The problem, and where each thread is in its kernel.
Fixed == SafeProblem(prob) /\ host = HostSizes(prob) /\ wanted = Definition(prob)
Progress ==
    /\ stage \in {"M", "H", "PR", "PT", "S", "done"}
    /\ (stage # "done") => Busy
    /\ at = [a \in Agents(stage) |-> at[a]]
    /\ \A a \in Agents(stage) : at[a] \in 0..StepsOf(stage, a)

\* Kernel M: the levels that are mapped have the rows of their blocks.
Mapped(l) == Busy /\ (stage = "M" => at[<<l, 0>>] = 1)
MapRight ==
    /\ rowMap = [b \in SeqsOf(prob.cuK) |-> [l \in Levels0 |-> rowMap[b][l]]]
    /\ rowCoords = [r \in Rows |-> rowCoords[r]]
    /\ \A l \in Levels0 : Mapped(l) =>
        \A b \in SeqsOf(prob.cuK) :
          IF HasLevel(prob.cuK, b, l)
          THEN rowMap[b][l] = RowOf(prob.cuK, b, l) /\ rowCoords[RowOf(prob.cuK, b, l)] = <<b, l>>
          ELSE rowMap[b][l] = -1

\* Kernel H: warps of a CTA are a step apart at most; a warp's counters, the
\* tile it stores and the sums over the CTAs that have come so far.
Grid(f) == f = [h \in Heads |-> [r \in Rows |-> f[h][r]]]
Abreast == \A a, b \in Units : a[1] = b[1] => at[a] <= at[b] + 1
Counted(u) == [h \in Heads |-> Packed(h, First(u), End(u))]
Counters(u) ==
    IF at[u] % 4 \in {2, 3} THEN Counted(u)[HeadOf(u)]
    ELSE IF at[u] % 4 = 0 /\ at[u] > 0 THEN Counted(u)[HeadOf(u) - 1]
    ELSE Zeroed
CtaFirst(c) == Smaller(c * host.perCta, host.numQ)
WarpEdge(c, w) == Smaller(c * host.perCta + w * host.perWarp, CtaEnd(c))
UnitOf(k) == <<k \div Warps, k % Warps>>
UnitEdge(k) == IF k = host.ctas * Warps THEN host.numQ ELSE First(UnitOf(k))
CtaCounts(h, r) == [c \in Ctas |-> CountIn(h, r, CtaFirst(c), CtaEnd(c))]
Summed(h, r) == {c \in Ctas : at[<<c, r % Warps>>] >= 4 * h + 4}
TileRight(u, h, r) == tileCounts[UnitIndex(u)][h][r] = CountIn(h, r, First(u), End(u))
TileGrid ==
    /\ tileCounts = [k \in 0..(host.ctas * Warps - 1) |-> tileCounts[k]]
    /\ \A k \in 0..(host.ctas * Warps - 1) : Grid(tileCounts[k])
TilesCounted == \A u \in Units, h \in Heads : at[u] >= 4 * h + 3 => \A r \in Rows : TileRight(u, h, r)
HeadsSummed == \A h \in Heads, r \in Rows : rowCounts[h][r] = Total(CtaCounts(h, r), Summed(h, r))
HistRight ==
    /\ Grid(rowCounts)
    /\ stage = "M" => \A h \in Heads, r \in Rows : rowCounts[h][r] = 0
    /\ stage = "H" =>
        /\ Abreast
        /\ smem = [u \in Units |-> Counters(u)]
        /\ TilesCounted
        /\ HeadsSummed
    /\ stage \notin {"M", "H"} => rowCounts = [h \in Heads |-> CountOfRow(h)]
    /\ stage \in {"H", "PR", "PT", "S"} => TileGrid
    /\ stage = "PR" => \A u \in Units, h \in Heads, r \in Rows : TileRight(u, h, r)

\* Kernel PR: after a round at an offset, a thread has the entries of as many
\* threads up to its own, and between the barriers it holds those before.
Bound(t) == Smaller(FirstRow(t), host.rows)
Reach(h, t, off) == Start(h, Bound(t + 1)) - Start(h, Bound(Larger(0, t + 1 - off)))
InStep == \A a, b \in Agents("PR") : a[1] = b[1] => at[a] <= at[b] + 1 \/ at[b] >= Emitting
OffsetAt(n) == Doubled[(n - 1) \div 2]
ScanRight ==
    stage = "PR" =>
        /\ InStep
        /\ scan = [a \in Agents("PR") |-> IF at[a] = 0 THEN 0 ELSE
                     Reach(a[1], a[2], OffsetAt(Smaller(at[a], Emitting)))]
        /\ addend = [a \in Agents("PR") |-> addend[a]]
        /\ \A a \in Agents("PR") : at[a] \in 2..(Emitting - 1) /\ at[a] % 2 = 0 =>
              addend[a] = IF a[2] >= OffsetAt(at[a])
                          THEN Reach(a[1], a[2] - OffsetAt(at[a]), OffsetAt(at[a])) ELSE 0

\* Kernel PR: a row emitted has its pointer, and each of its chunks in the list.
ThreadOf(r) == r \div CeilDiv(host.rows, ScanThreads)
Emitted(h, r) ==
    CASE stage \in {"M", "H"} -> FALSE
      [] stage = "PR" -> at[<<h, ThreadOf(r)>>] > Emitting + (r - FirstRow(ThreadOf(r)))
      [] OTHER -> TRUE
PtrRight ==
    /\ rowPtr = [h \in Heads |-> [i \in 0..host.rows |-> rowPtr[h][i]]]
    /\ \A h \in Heads : rowPtr[h][0] = 0
       /\ \A r \in Rows : Emitted(h, r) => rowPtr[h][r + 1] = Start(h, r + 1)

RowsEmitted == {x \in Heads \X Rows : Emitted(x[1], x[2])}
ChunksOf == [x \in Heads \X Rows |-> Chunks(Ahead(x[1], x[2], host.numQ), Target)]
ItemsRight ==
    /\ items = [k \in 0..(host.capacity - 1) |-> items[k]]
    /\ workCount = Total(ChunksOf, RowsEmitted)
    /\ \A k \in 0..(workCount - 1) : \E x \in RowsEmitted : \E c \in 0..(ChunksOf[x] - 1) :
          items[k] = ChunkItem(x[1], x[2], c)
    /\ \A x \in RowsEmitted : \A c \in 0..(ChunksOf[x] - 1) : \E k \in 0..(workCount - 1) :
          items[k] = ChunkItem(x[1], x[2], c)
    /\ \A k, l \in 0..(workCount - 1) : items[k] = items[l] => k = l

\* Kernel PT: a tile's count becomes the place of its first entry.
BlockOf(h, r) == <<h, r \div RowsPerBlock>>
Placed(h, r) == stage = "S" \/ (stage = "PT" /\ at[BlockOf(h, r)] = 1)
PlacesRight ==
    stage \in {"PT", "S"} => \A u \in Units, h \in Heads, r \in Rows :
        IF Placed(h, r) THEN tileCounts[UnitIndex(u)][h][r] = Start(h, r) + Ahead(h, r, First(u))
        ELSE TileRight(u, h, r)

\* Kernel S: the edges of the queries a warp has passed are at their places,
\* and there is no edge elsewhere; the cursors say how far it is.
Reached(u, h) ==
    IF AtHead(u) > h THEN End(u)
    ELSE IF AtHead(u) = h THEN Smaller(First(u) + (at[u] % Steps(u)) * QPerIter, End(u))
    ELSE First(u)
Scattered(h, q) ==
    \/ stage = "done"
    \/ stage = "S" /\ \E u \in Units : First(u) <= q /\ q < Reached(u, h)
Valid(h, q) == {s \in 1..TopK : RowAt(h, q, s) # -1}
EdgeOf(h, q, s) ==
    [q |-> q - prob.cuQ[BatchOf(prob.cuQ, q)], split |-> Cardinality({t \in Valid(h, q) : t < s})]
PlaceOf(h, q, s) == Start(h, RowAt(h, q, s)) + Ahead(h, RowAt(h, q, s), q)
EdgesRight ==
    /\ edges = [h \in Heads |-> [i \in 0..(QIdxSize - 1) |-> edges[h][i]]]
    /\ \A h \in Heads, q \in Queries : Scattered(h, q) =>
          \A s \in Valid(h, q) : edges[h][PlaceOf(h, q, s)] = EdgeOf(h, q, s)
    /\ \A h \in Heads, i \in 0..(QIdxSize - 1) :
          \/ edges[h][i] = NoEdge
          \/ \E q \in Queries : Scattered(h, q) /\ \E s \in Valid(h, q) : i = PlaceOf(h, q, s)
SplitsRight ==
    /\ splitCounts = [q \in Queries |-> [h \in Heads |-> splitCounts[q][h]]]
    /\ \A q \in Queries, h \in Heads : Scattered(h, q) => splitCounts[q][h] = Cardinality(Valid(h, q))
ScatteredTo(u) == [h \in Heads |-> Packed(h, First(u), Reached(u, h))]
CursorsRight ==
    stage = "S" =>
        /\ smem = [u \in Units |-> smem[u]]
        /\ \A u \in Units : at[u] % Steps(u) > 0 => smem[u] = ScatteredTo(u)[AtHead(u)]

CsrIInv ==
    /\ Fixed /\ Progress
    /\ MapRight /\ HistRight /\ ScanRight /\ PtrRight
    /\ ItemsRight /\ PlacesRight /\ EdgesRight /\ SplitsRight /\ CursorsRight

-----------------------------------------------------------------------------
(***************************************************************************)
(* Sizes, and the ranges of the units.                                     *)
(***************************************************************************)
(* The constants are positive numbers.                                     *)
LEMMA Positive ==
    /\ TopK \in Nat \ {0} /\ Target \in Nat \ {0} /\ Warps \in Nat \ {0} /\ QPerIter \in Nat \ {0}
    /\ MinQPerCta \in Nat \ {0} /\ RowsPerBlock \in Nat \ {0} /\ ScanThreads \in Nat \ {0}
    /\ CursorBits \in Nat \ {0} /\ BlkKv \in Nat \ {0}
BY CsrAssumption, BlkKvAssumption

(* Powers of two and what a word of two counters holds.                    *)
LEMMA HalfRangeRight == HalfRange \in Nat \ {0}
BY CsrAssumption, DoubledRight DEF HalfRange

(* What HostSizes computes (launch_pipeline).                              *)
LEMMA Sizes ==
    ASSUME Fixed
    PROVE  /\ {host.numQ, host.rows, host.heads, host.maxBlocks, host.capacity} \subseteq Nat
           /\ {host.ctas, host.perCta, host.perWarp} \subseteq Nat
           /\ host.perCta > 0 /\ host.perWarp > 0 /\ host.perWarp < HalfRange
           /\ host.numQ <= host.ctas * host.perCta
           /\ host.ctas * host.perCta < host.numQ + host.perCta
           /\ host.perCta <= host.perWarp * Warps
           /\ host.numQ = Tokens(prob.cuQ) /\ host.heads = Len(prob.q2k)
           /\ host.rows >= Cardinality(Blocks(prob.cuK))
           /\ host.capacity = Capacity(host.rows, host.numQ, TopK, host.heads, Target)
           /\ host.maxBlocks = CeilDiv(Larger(prob.maxK, BlkKv), BlkKv)
<1>. DEFINE p == prob
            numQ == Tokens(p.cuQ)
            rows == IF p.rows >= 0 THEN p.rows ELSE DerivedRows(p.cuK)
            ctas == Larger(1, Smaller(Smaller(p.maxCtas, CeilDiv(numQ, MinQPerCta)), numQ))
            perCta == Larger(1, CeilDiv(numQ, ctas))
<1>1. /\ host.numQ = numQ /\ host.rows = rows /\ host.heads = Len(p.q2k)
      /\ host.maxBlocks = CeilDiv(Larger(p.maxK, BlkKv), BlkKv)
      /\ host.capacity = Capacity(rows, numQ, TopK, Len(p.q2k), Target)
      /\ host.ctas = CeilDiv(numQ, perCta) /\ host.perCta = perCta
      /\ host.perWarp = CeilDiv(perCta, Warps)
  BY DEF Fixed, HostSizes
<1>2. numQ \in Nat /\ Tokens(p.cuK) \in Nat /\ Len(p.cuK) \in Nat
  BY DEF Fixed, SafeProblem, PrefixSums, Tokens
<1>3. rows \in Nat
  <2>1. DerivedRows(p.cuK) \in Nat
    <3>1. Tokens(p.cuK) \div BlkKv \in Nat
      BY <1>2, BlkKvAssumption, Euclid
    <3>2. Tokens(p.cuK) + (Len(p.cuK) - 1) * (BlkKv - 1) \in Nat
      <4>1. BlkKv - 1 \in Nat /\ Len(p.cuK) - 1 \in Nat
        BY <1>2, BlkKvAssumption DEF Fixed, SafeProblem, PrefixSums
      <4>. QED
        BY <1>2, <4>1, Product
    <3>3. CeilDiv(Tokens(p.cuK) + (Len(p.cuK) - 1) * (BlkKv - 1), BlkKv) \in Nat
      BY <3>2, BlkKvAssumption, CeilDivRight
    <3>. QED
      BY <3>1, <3>3 DEF DerivedRows
  <2>. QED
    BY <2>1 DEF Fixed, SafeProblem
<1>4. ctas \in Nat \ {0}
  <2>1. CeilDiv(numQ, MinQPerCta) \in Nat /\ p.maxCtas \in Nat
    BY <1>2, CsrAssumption, CeilDivRight DEF Fixed, SafeProblem
  <2>. HIDE DEF numQ, p
  <2>. QED
    BY <1>2, <2>1 DEF Larger, Smaller
<1>5. perCta \in Nat \ {0}
  <2>1. CeilDiv(numQ, ctas) \in Nat
    BY <1>2, <1>4, CeilDivRight
  <2>. QED
    BY <2>1 DEF Larger
<1>6. /\ CeilDiv(numQ, perCta) \in Nat
      /\ numQ <= CeilDiv(numQ, perCta) * perCta
      /\ CeilDiv(numQ, perCta) * perCta < numQ + perCta
  <2>. HIDE DEF perCta, numQ
  <2>. QED
    BY <1>2, <1>5, CeilDivRight
<1>7. /\ CeilDiv(perCta, Warps) \in Nat /\ CeilDiv(perCta, Warps) > 0
      /\ perCta <= CeilDiv(perCta, Warps) * Warps
  <2>. HIDE DEF perCta
  <2>1. Warps \in Nat \ {0} /\ perCta \in Nat /\ perCta > 0
    BY <1>5, Positive
  <2>. QED
    BY <2>1, CeilDivRight
<1>8. CeilDiv(Larger(p.maxK, BlkKv), BlkKv) \in Nat /\ Len(p.q2k) \in Nat
  <2>1. Larger(p.maxK, BlkKv) \in Nat
    BY BlkKvAssumption DEF Larger, Fixed, SafeProblem
  <2>2. Len(p.q2k) \in Nat
    BY DEF Fixed, SafeProblem
  <2>. QED
    BY <2>1, <2>2, BlkKvAssumption, CeilDivRight
<1>9. Capacity(rows, numQ, TopK, Len(p.q2k), Target) \in Nat
  <2>1. Larger(rows, 0) \in Nat /\ Larger(Len(p.q2k), 1) \in Nat /\ Larger(numQ, 0) \in Nat
        /\ Larger(TopK, 1) \in Nat
        /\ Larger(Target, 1) \in Nat \ {0}
    <3>. HIDE DEF rows, numQ, p
    <3>. QED
      BY <1>2, <1>3, <1>8, CsrAssumption DEF Larger
  <2>2. Larger(rows, 0) * Larger(Len(p.q2k), 1) \in Nat /\ Larger(numQ, 0) * Larger(TopK, 1) \in Nat
    BY <2>1, Product
  <2>3. Larger(numQ, 0) * Larger(TopK, 1) * Larger(Len(p.q2k), 1) \in Nat
    BY <2>1, <2>2, Product
  <2>4. Larger(Larger(numQ, 0) * Larger(TopK, 1) * Larger(Len(p.q2k), 1), 1) \in Nat
    BY <2>3 DEF Larger
  <2>5. CeilDiv(Larger(Larger(numQ, 0) * Larger(TopK, 1) * Larger(Len(p.q2k), 1), 1), Larger(Target, 1)) \in Nat
    BY <2>1, <2>4, CeilDivRight
  <2>. QED
    BY <2>2, <2>5 DEF Capacity, Larger
<1>10. host.rows >= Cardinality(Blocks(p.cuK)) /\ host.perWarp < HalfRange
  BY DEF Fixed, SafeProblem
<1>. HIDE DEF numQ, rows, ctas, perCta
<1>11. host.perCta > 0 /\ host.perWarp > 0 /\ host.perCta <= host.perWarp * Warps
  BY <1>1, <1>5, <1>7
<1>12. /\ {host.numQ, host.rows, host.heads, host.maxBlocks, host.capacity} \subseteq Nat
       /\ {host.ctas, host.perCta, host.perWarp} \subseteq Nat
  BY <1>1, <1>2, <1>3, <1>5, <1>6, <1>7, <1>8, <1>9
<1>13. host.numQ <= host.ctas * host.perCta /\ host.ctas * host.perCta < host.numQ + host.perCta
  BY <1>1, <1>6
<1>14. host.numQ = Tokens(p.cuQ)
  BY <1>1 DEF numQ
<1>. QED
  BY <1>1, <1>10, <1>11, <1>12, <1>13, <1>14

(* The ranges of CTAs follow one another.                                  *)
LEMMA CtasRight ==
    ASSUME Fixed
    PROVE  /\ CtaFirst(0) = 0 /\ CtaFirst(host.ctas) = host.numQ
           /\ \A c \in Nat : CtaFirst(c) \in 0..host.numQ /\ c * host.perCta \in Nat
           /\ \A c \in Ctas : /\ CtaEnd(c) = CtaFirst(c + 1) /\ CtaFirst(c) = c * host.perCta
                              /\ CtaFirst(c) <= CtaEnd(c)
                              /\ CtaEnd(c) <= c * host.perCta + host.perCta
<1>. DEFINE n == host.numQ  per == host.perCta
<1>1. n \in Nat /\ per \in Nat /\ per > 0 /\ host.ctas \in Nat
      /\ n <= host.ctas * per /\ host.ctas * per < n + per
  BY Sizes
<1>2. ASSUME NEW c \in Nat PROVE c * per \in Nat /\ (c + 1) * per = c * per + per
  BY <1>1
<1>3. 0 * per = 0 /\ host.ctas * per \in Nat
  BY <1>1, <1>2
<1>4. ASSUME NEW c \in Ctas PROVE c \in Nat /\ c * per + per <= host.ctas * per
  <2>1. c \in Nat /\ c < host.ctas
    BY <1>1, <1>4 DEF Ctas
  <2>. HIDE DEF per
  <2>. QED
    BY <1>1, <2>1, Groups
<1>. HIDE DEF n, per
<1>5. CtaFirst(0) = 0 /\ CtaFirst(host.ctas) = n
  BY <1>1, <1>3 DEF CtaFirst, Smaller, n, per
<1>6. ASSUME NEW c \in Nat PROVE CtaFirst(c) \in 0..n
  <2>1. c * per \in Nat
    BY <1>2
  <2>2. CtaFirst(c) = Smaller(c * per, n)
    BY DEF CtaFirst, n, per
  <2>. QED
    BY <1>1, <2>1, <2>2 DEF Smaller
<1>7. ASSUME NEW c \in Ctas
      PROVE  CtaEnd(c) = CtaFirst(c + 1) /\ CtaFirst(c) = c * per /\ CtaFirst(c) <= CtaEnd(c)
             /\ CtaEnd(c) <= c * per + per
  <2>1. c \in Nat /\ c * per \in Nat /\ c * per + per <= host.ctas * per /\ (c + 1) * per = c * per + per
    BY <1>2, <1>4
  <2>2. c * per < n
    BY <1>1, <1>3, <2>1
  <2>. QED
    BY <1>1, <2>1, <2>2 DEF CtaFirst, CtaEnd, Smaller, n, per
<1>. QED
  BY <1>2, <1>5, <1>6, <1>7 DEF n, per

(* The ranges of the warps of a CTA follow one another and are the CTA's.  *)
LEMMA UnitsRight ==
    ASSUME Fixed
    PROVE  /\ \A c \in Ctas, w \in 0..Warps : WarpEdge(c, w) \in CtaFirst(c)..CtaEnd(c)
           /\ \A c \in Ctas : WarpEdge(c, 0) = CtaFirst(c) /\ WarpEdge(c, Warps) = CtaEnd(c)
           /\ \A u \in Units : /\ u[1] \in Ctas /\ u[2] \in 0..(Warps - 1) /\ u = <<u[1], u[2]>>
                               /\ First(u) = WarpEdge(u[1], u[2]) /\ End(u) = WarpEdge(u[1], u[2] + 1)
                               /\ First(u) \in 0..host.numQ /\ End(u) \in First(u)..host.numQ
                               /\ End(u) <= First(u) + host.perWarp
<1>. DEFINE n == host.numQ  per == host.perCta  pw == host.perWarp
<1>1. n \in Nat /\ per \in Nat /\ pw \in Nat /\ pw > 0 /\ per <= pw * Warps /\ Warps \in Nat \ {0}
  BY Sizes, Positive
<1>2. ASSUME NEW c \in Ctas
      PROVE  /\ c \in Nat /\ c * per \in Nat /\ CtaFirst(c) = c * per /\ CtaFirst(c) \in 0..n
             /\ CtaEnd(c) \in CtaFirst(c)..n /\ CtaEnd(c) <= c * per + per
  <2>1. c \in Nat /\ c + 1 \in Nat
    BY DEF Ctas
  <2>. QED
    BY <2>1, CtasRight
<1>3. ASSUME NEW w \in 0..Warps PROVE w * pw \in Nat /\ (w + 1) * pw = w * pw + pw
  BY <1>1
<1>4. 0 * pw = 0 /\ Warps * pw = pw * Warps /\ pw * Warps \in Nat
  BY <1>1
<1>5. ASSUME NEW c \in Ctas, NEW w \in 0..Warps PROVE WarpEdge(c, w) \in CtaFirst(c)..CtaEnd(c)
  <2>1. c * per + w * pw \in Nat
    BY <1>2, <1>3
  <2>2. WarpEdge(c, w) = Smaller(c * per + w * pw, CtaEnd(c))
    BY DEF WarpEdge
  <2>. HIDE DEF per, pw
  <2>3. w * pw \in Nat
    BY <1>3
  <2>. QED
    BY <1>1, <1>2, <2>2, <2>3 DEF Smaller
<1>6. ASSUME NEW c \in Ctas PROVE WarpEdge(c, 0) = CtaFirst(c) /\ WarpEdge(c, Warps) = CtaEnd(c)
  <2>1. WarpEdge(c, 0) = Smaller(c * per + 0 * pw, CtaEnd(c))
        /\ WarpEdge(c, Warps) = Smaller(c * per + Warps * pw, CtaEnd(c))
    BY DEF WarpEdge
  <2>. HIDE DEF per, pw
  <2>. QED
    BY <1>1, <1>2, <1>4, <2>1 DEF Smaller
<1>7. ASSUME NEW u \in Units
      PROVE  /\ u[1] \in Ctas /\ u[2] \in 0..(Warps - 1) /\ u = <<u[1], u[2]>>
             /\ First(u) = WarpEdge(u[1], u[2]) /\ End(u) = WarpEdge(u[1], u[2] + 1)
             /\ First(u) \in 0..n /\ End(u) \in First(u)..n /\ End(u) <= First(u) + pw
  <2>1. u[1] \in Ctas /\ u[2] \in 0..(Warps - 1) /\ u = <<u[1], u[2]>>
    BY DEF Units, Ctas
  <2>2. First(u) = WarpEdge(u[1], u[2])
    BY DEF First, WarpEdge
  <2>3. u[2] \in 0..Warps /\ u[2] + 1 \in 0..Warps
    BY <1>1, <2>1
  <2>4. /\ WarpEdge(u[1], u[2]) = Smaller(u[1] * per + u[2] * pw, CtaEnd(u[1]))
        /\ WarpEdge(u[1], u[2] + 1) = Smaller(u[1] * per + (u[2] + 1) * pw, CtaEnd(u[1]))
        /\ End(u) = Smaller(First(u) + pw, CtaEnd(u[1]))
    BY DEF WarpEdge, End
  <2>5. u[2] * pw \in Nat /\ (u[2] + 1) * pw = u[2] * pw + pw /\ u[1] * per \in Nat /\ CtaEnd(u[1]) \in 0..n
    <3>1. u[2] * pw \in Nat /\ (u[2] + 1) * pw = u[2] * pw + pw
      BY <1>3, <2>3
    <3>2. u[1] * per \in Nat /\ CtaFirst(u[1]) \in 0..n /\ CtaEnd(u[1]) \in CtaFirst(u[1])..n
      BY <1>2, <2>1
    <3>3. CtaEnd(u[1]) \in 0..n
      <4>. HIDE DEF per, n
      <4>. QED
        BY <1>1, <3>2
    <3>. QED
      BY <3>1, <3>2, <3>3
  <2>. HIDE DEF per, pw, n
  <2>6. End(u) = WarpEdge(u[1], u[2] + 1)
    BY <1>1, <2>2, <2>4, <2>5 DEF Smaller
  <2>7. First(u) \in 0..n /\ End(u) \in First(u)..n /\ End(u) <= First(u) + pw
    BY <1>1, <2>2, <2>4, <2>5 DEF Smaller
  <2>. QED
    BY <2>1, <2>2, <2>6, <2>7
<1>. QED
  BY <1>5, <1>6, <1>7

(* The units in the order of the tiles: where one ends, the next begins.   *)
LEMMA TilesRight ==
    ASSUME Fixed
    PROVE  /\ host.ctas * Warps \in Nat
           /\ \A k \in 0..(host.ctas * Warps - 1) :
                 /\ UnitOf(k) \in Units /\ UnitIndex(UnitOf(k)) = k
                 /\ First(UnitOf(k)) = UnitEdge(k) /\ End(UnitOf(k)) = UnitEdge(k + 1)
           /\ \A u \in Units : UnitIndex(u) \in 0..(host.ctas * Warps - 1) /\ UnitOf(UnitIndex(u)) = u
           /\ UnitEdge(0) = 0 /\ UnitEdge(host.ctas * Warps) = host.numQ
           /\ \A k \in 0..(host.ctas * Warps) : UnitEdge(k) \in 0..host.numQ
<1>. DEFINE W == Warps  C == host.ctas
<1>1. W \in Nat \ {0} /\ C \in Nat /\ host.numQ \in Nat
  BY Sizes, Positive
<1>. HIDE DEF W, C
<1>2. C * W \in Nat
  BY <1>1
<1>3. ASSUME NEW k \in Nat PROVE k = (k \div W) * W + (k % W) /\ k % W \in 0..(W - 1) /\ k \div W \in Nat
  BY <1>1, Euclid
<1>4. ASSUME NEW k \in 0..(C * W - 1)
      PROVE  UnitOf(k) \in Units /\ UnitIndex(UnitOf(k)) = k /\ k \div W \in 0..(C - 1)
  <2>1. k \in Nat /\ k < C * W
    BY <1>2
  <2>2. k \div W \in 0..(C - 1)
    <3>1. k \div W \in Nat /\ k % W \in 0..(W - 1) /\ k = (k \div W) * W + (k % W)
      BY <1>3, <2>1
    <3>2. ASSUME C <= k \div W PROVE FALSE
      <4>1. C * W <= (k \div W) * W /\ (k \div W) * W \in Nat
        BY <1>1, <3>1, <3>2
      <4>. QED
        BY <1>2, <2>1, <3>1, <4>1
    <3>. QED
      BY <1>1, <3>1, <3>2
  <2>3. UnitOf(k) = <<k \div W, k % W>> /\ UnitIndex(UnitOf(k)) = (k \div W) * W + (k % W)
    BY DEF UnitOf, UnitIndex, W
  <2>. QED
    BY <1>3, <2>1, <2>2, <2>3 DEF Units, W, C
<1>5. ASSUME NEW u \in Units PROVE UnitIndex(u) \in 0..(C * W - 1) /\ UnitOf(UnitIndex(u)) = u
  <2>1. u[1] \in 0..(C - 1) /\ u[2] \in 0..(W - 1) /\ u = <<u[1], u[2]>>
    BY DEF Units, W, C
  <2>. DEFINE c == u[1]  w == u[2]
  <2>2. c \in Nat /\ w \in Nat /\ c < C /\ w < W
    BY <1>1, <2>1
  <2>3. UnitIndex(u) = c * W + w
    BY DEF UnitIndex, W
  <2>. HIDE DEF c, w
  <2>4. c * W + W <= C * W /\ c * W \in Nat
    BY <1>1, <2>2, Groups
  <2>5. c * W + w \in Nat /\ c * W <= c * W + w /\ c * W + w < c * W + W
    BY <1>1, <2>2, <2>4
  <2>6. (c * W + w) \div W = c /\ (c * W + w) % W = (c * W + w) - c * W
    BY <1>1, <2>2, <2>5, QuotientOf
  <2>7. (c * W + w) % W = w
    BY <2>2, <2>4, <2>6
  <2>8. c * W + w \in 0..(C * W - 1)
    BY <1>1, <1>2, <2>4, <2>5
  <2>. QED
    BY <2>1, <2>3, <2>6, <2>7, <2>8 DEF UnitOf, W, c, w
<1>6. ASSUME NEW k \in 0..(C * W - 1) PROVE First(UnitOf(k)) = UnitEdge(k)
  <2>1. k # C * W
    BY <1>2
  <2>. QED
    BY <2>1 DEF UnitEdge, W, C
<1>7. UnitEdge(C * W) = host.numQ
  BY DEF UnitEdge, W, C
<1>8. ASSUME NEW k \in 0..(C * W - 1) PROVE End(UnitOf(k)) = UnitEdge(k + 1)
  <2>. DEFINE c == k \div W  w == k % W
  <2>1. UnitOf(k) = <<c, w>> /\ UnitOf(k) \in Units /\ c \in 0..(C - 1) /\ w \in 0..(W - 1)
        /\ k = c * W + w /\ k \in Nat
    <3>1. k \in Nat
      BY <1>2
    <3>. QED
      BY <1>3, <1>4, <3>1 DEF UnitOf, W
  <2>. HIDE DEF c, w
  <2>2. End(UnitOf(k)) = WarpEdge(c, w + 1) /\ c \in Ctas
    <3>1. UnitOf(k)[1] = c /\ UnitOf(k)[2] = w
      BY <2>1
    <3>. QED
      BY <2>1, <3>1, UnitsRight DEF Ctas, C
  <2>3. c * W \in Nat /\ c \in Nat /\ w \in Nat /\ (c + 1) * W = c * W + W
    BY <1>1, <2>1
  <2>4. CASE w + 1 < W
    <3>1. c * W <= k + 1 /\ k + 1 < c * W + W /\ (k + 1) - c * W = w + 1
      BY <1>1, <2>1, <2>3, <2>4
    <3>2. (k + 1) \div W = c /\ (k + 1) % W = w + 1
      <4>1. k + 1 \in Nat
        BY <2>1
      <4>2. (k + 1) \div W = c /\ (k + 1) % W = (k + 1) - c * W
        BY <1>1, <2>3, <3>1, <4>1, QuotientOf
      <4>. QED
        BY <3>1, <4>2
    <3>3. c * W + W <= C * W
      BY <1>1, <2>1, <2>3, Groups
    <3>4. k + 1 # C * W
      BY <1>1, <1>2, <2>1, <2>3, <3>1, <3>3
    <3>5. UnitEdge(k + 1) = First(<<c, w + 1>>)
      BY <3>2, <3>4 DEF UnitEdge, UnitOf, W, C
    <3>6. <<c, w + 1>> \in Units
      BY <1>1, <2>1, <2>3, <2>4 DEF Units, W, C
    <3>7. First(<<c, w + 1>>) = WarpEdge(c, w + 1)
      BY <3>6, UnitsRight
    <3>. QED
      BY <2>2, <3>5, <3>7
  <2>5. CASE w + 1 = W
    <3>1. k + 1 = (c + 1) * W
      BY <1>1, <2>1, <2>3, <2>5
    <3>2. End(UnitOf(k)) = CtaEnd(c) /\ CtaEnd(c) = CtaFirst(c + 1)
      BY <2>2, <2>5, UnitsRight, CtasRight DEF W
    <3>3. CASE c + 1 = C
      BY <1>7, <3>1, <3>2, <3>3, CtasRight DEF C
    <3>4. CASE c + 1 < C
      <4>1. (c + 1) * W + W <= C * W /\ (c + 1) * W \in Nat
        BY <1>1, <2>3, <3>4, Groups
      <4>2. k + 1 # C * W
        BY <1>1, <1>2, <3>1, <4>1
      <4>3. (k + 1) \div W = c + 1 /\ (k + 1) % W = 0
        <5>1. c + 1 \in Nat /\ (c + 1) * W <= (c + 1) * W /\ (c + 1) * W < (c + 1) * W + W
          BY <1>1, <2>3, <4>1
        <5>2. ((c + 1) * W) \div W = c + 1 /\ ((c + 1) * W) % W = (c + 1) * W - (c + 1) * W
          BY <1>1, <4>1, <5>1, QuotientOf
        <5>. QED
          BY <3>1, <4>1, <5>2
      <4>4. UnitEdge(k + 1) = First(<<c + 1, 0>>)
        BY <4>2, <4>3 DEF UnitEdge, UnitOf, W, C
      <4>5. <<c + 1, 0>> \in Units /\ c + 1 \in Ctas
        BY <1>1, <2>3, <3>4 DEF Units, W, C, Ctas
      <4>6. First(<<c + 1, 0>>) = WarpEdge(c + 1, 0)
        BY <4>5, UnitsRight
      <4>. QED
        BY <3>2, <4>4, <4>5, <4>6, UnitsRight
    <3>. QED
      BY <1>1, <2>1, <2>3, <3>3, <3>4
  <2>. QED
    BY <1>1, <2>1, <2>3, <2>4, <2>5
<1>9. UnitEdge(0) = 0
  <2>1. CASE C = 0
    <3>1. host.numQ = 0 /\ C * W = 0
      BY <1>1, <2>1, CtasRight DEF C
    <3>. QED
      BY <1>7, <3>1
  <2>2. CASE C # 0
    <3>1. 0 \in 0..(C * W - 1)
      <4>1. 0 * W + W <= C * W
        BY <1>1, <2>2, Groups
      <4>. QED
        BY <1>1, <1>2, <4>1
    <3>2. 0 \div W = 0 /\ 0 % W = 0
      <4>1. 0 * W = 0
        BY <1>1
      <4>. QED
        BY <1>1, <4>1, QuotientOf
    <3>3. UnitEdge(0) = First(<<0, 0>>)
      BY <1>6, <3>1, <3>2 DEF UnitOf, W
    <3>4. <<0, 0>> \in Units /\ 0 \in Ctas
      BY <1>1, <2>2 DEF Units, Ctas, W, C
    <3>. QED
      BY <3>3, <3>4, UnitsRight, CtasRight
  <2>. QED
    BY <2>1, <2>2
<1>10. ASSUME NEW k \in 0..(C * W) PROVE UnitEdge(k) \in 0..host.numQ
  <2>1. CASE k = C * W
    BY <1>1, <1>7, <2>1
  <2>2. CASE k # C * W
    <3>1. k \in 0..(C * W - 1)
      BY <1>2, <2>2
    <3>. QED
      BY <1>4, <1>6, <3>1, UnitsRight
  <2>. QED
    BY <2>1, <2>2
<1>. QED
  BY <1>2, <1>4, <1>5, <1>6, <1>7, <1>8, <1>9, <1>10 DEF W, C

-----------------------------------------------------------------------------
(***************************************************************************)
(* Sequences, blocks and rows.                                             *)
(***************************************************************************)
(* Prefix sums never fall.                                                 *)
LEMMA SumsRight ==
    ASSUME NEW cu, PrefixSums(cu)
    PROVE  /\ Len(cu) \in Nat /\ Len(cu) > 1 /\ cu[1] = 0 /\ Tokens(cu) = cu[Len(cu)]
           /\ \A b \in 1..Len(cu) : cu[b] \in Nat
           /\ \A a, b \in 1..Len(cu) : a <= b => cu[a] <= cu[b]
           /\ \A b \in SeqsOf(cu) : b \in 1..Len(cu) /\ b + 1 \in 1..Len(cu) /\ LenOf(cu, b) \in Nat
              /\ RowsIn(cu, b) \in Nat
           /\ IsFiniteSet(SeqsOf(cu)) /\ SeqsOf(cu) \in SUBSET Nat
<1>1. Len(cu) \in Nat /\ Len(cu) > 1 /\ cu[1] = 0 /\ Tokens(cu) = cu[Len(cu)]
      /\ \A b \in 1..Len(cu) : cu[b] \in Nat
  BY DEF PrefixSums, Tokens
<1>. DEFINE n == Len(cu)
<1>. HIDE DEF n
<1>2. n \in Nat /\ n > 1 /\ SeqsOf(cu) = 1..(n - 1) /\ (\A b \in 1..n : cu[b] \in Nat)
      /\ \A b \in 1..(n - 1) : cu[b] <= cu[b + 1]
  BY <1>1 DEF n, SeqsOf, PrefixSums
<1>3. \A a, b \in 1..n : a <= b => cu[a] <= cu[b]
  <2>. DEFINE T == {b \in Nat : b \in 1..n /\ \E a \in 1..b : ~ (cu[a] <= cu[b])}
  <2>1. ASSUME T # {} PROVE FALSE
    <3>1. PICK b \in T : \A c \in T : b <= c
      BY <2>1, LeastNat
    <3>2. PICK a \in 1..b : ~ (cu[a] <= cu[b])
      BY <3>1
    <3>3. b \in 1..n /\ a \in Nat /\ 1 <= a /\ a <= b /\ cu[a] \in Nat /\ cu[b] \in Nat
      BY <1>2, <3>1, <3>2
    <3>4. a # b
      BY <3>2, <3>3
    <3>5. b - 1 \in 1..(n - 1) /\ b - 1 \in 1..n /\ a \in 1..(b - 1) /\ (b - 1) + 1 = b
      BY <1>2, <3>3, <3>4
    <3>6. b - 1 \notin T
      <4>1. b - 1 \in T => b <= b - 1
        BY <3>1
      <4>. QED
        BY <3>3, <4>1
    <3>7. cu[a] <= cu[b - 1]
      BY <1>2, <3>5, <3>6
    <3>8. cu[b - 1] <= cu[b] /\ cu[b - 1] \in Nat
      BY <1>2, <3>5
    <3>. QED
      BY <3>2, <3>3, <3>7, <3>8
  <2>2. SUFFICES ASSUME NEW a \in 1..n, NEW b \in 1..n, a <= b PROVE cu[a] <= cu[b]
    OBVIOUS
  <2>3. a \in 1..b /\ b \in Nat
    BY <1>2, <2>2
  <2>. QED
    BY <2>1, <2>2, <2>3
<1>4. ASSUME NEW b \in SeqsOf(cu)
      PROVE  b \in 1..n /\ b + 1 \in 1..n /\ LenOf(cu, b) \in Nat /\ RowsIn(cu, b) \in Nat
  <2>1. b \in 1..n /\ b + 1 \in 1..n /\ cu[b] <= cu[b + 1] /\ cu[b] \in Nat /\ cu[b + 1] \in Nat
    BY <1>2
  <2>2. LenOf(cu, b) \in Nat
    BY <2>1 DEF LenOf
  <2>. QED
    BY <2>1, <2>2, BlkKvAssumption, CeilDivRight DEF RowsIn
<1>5. IsFiniteSet(SeqsOf(cu)) /\ SeqsOf(cu) \in SUBSET Nat
  BY <1>2, FS_Interval
<1>. QED
  BY <1>1, <1>3, <1>4, <1>5 DEF n

(* advance_batch_only finds the sequence of a token, and there is one.     *)
LEMMA BatchRight ==
    ASSUME NEW cu, PrefixSums(cu), NEW q \in 0..(Tokens(cu) - 1)
    PROVE  /\ BatchOf(cu, q) \in SeqsOf(cu)
           /\ cu[BatchOf(cu, q)] <= q /\ q < cu[BatchOf(cu, q) + 1]
           /\ \A c \in SeqsOf(cu) : cu[c] <= q /\ q < cu[c + 1] => c = BatchOf(cu, q)
<1>. DEFINE n == Len(cu)  T == {b \in Nat : b \in 1..(n - 1) /\ q < cu[b + 1]}
<1>1. n \in Nat /\ n > 1 /\ cu[1] = 0 /\ Tokens(cu) = cu[n] /\ (\A b \in 1..n : cu[b] \in Nat)
      /\ (\A a, b \in 1..n : a <= b => cu[a] <= cu[b]) /\ SeqsOf(cu) = 1..(n - 1)
  BY SumsRight DEF SeqsOf
<1>. HIDE DEF n
<1>2. q \in Nat /\ q < cu[n] /\ n \in 1..n
  BY <1>1
<1>3. n - 1 \in T
  <2>1. (n - 1) + 1 = n /\ n - 1 \in 1..(n - 1)
    BY <1>1
  <2>. QED
    BY <1>2, <2>1
<1>4. PICK b \in T : \A c \in T : b <= c
  BY <1>3, LeastNat
<1>5. b \in SeqsOf(cu) /\ b \in 1..n /\ q < cu[b + 1] /\ b \in Nat
  BY <1>1, <1>4
<1>6. cu[b] <= q
  <2>1. CASE b = 1
    BY <1>1, <1>2, <2>1
  <2>2. CASE b # 1
    <3>1. b - 1 \in 1..(n - 1) /\ b - 1 \in Nat /\ (b - 1) + 1 = b
      BY <1>1, <1>5, <2>2
    <3>2. ~ (b <= b - 1)
      BY <1>5
    <3>3. b - 1 \notin T
      BY <1>4, <3>2
    <3>4. ~ (q < cu[b]) /\ cu[b] \in Nat
      BY <1>1, <1>5, <3>1, <3>3
    <3>. QED
      BY <1>2, <3>4
  <2>. QED
    BY <2>1, <2>2
<1>7. BatchOf(cu, q) \in SeqsOf(cu) /\ cu[BatchOf(cu, q)] <= q /\ q < cu[BatchOf(cu, q) + 1]
  BY <1>5, <1>6 DEF BatchOf
<1>8. ASSUME NEW c \in SeqsOf(cu), NEW d \in SeqsOf(cu), cu[c] <= q, q < cu[c + 1], cu[d] <= q, q < cu[d + 1]
      PROVE  c >= d
  <2>1. c \in 1..(n - 1) /\ d \in 1..(n - 1)
    BY <1>1
  <2>2. c \in Nat /\ d \in Nat /\ d \in 1..n /\ c + 1 \in 1..n /\ cu[d] \in Nat /\ cu[c + 1] \in Nat
    BY <1>1, <2>1
  <2>3. c + 1 <= d => cu[c + 1] <= cu[d]
    BY <1>1, <2>2
  <2>4. ~ (c + 1 <= d)
    BY <1>2, <1>8, <2>2, <2>3
  <2>. QED
    BY <2>2, <2>4
<1>9. ASSUME NEW c \in SeqsOf(cu), cu[c] <= q, q < cu[c + 1] PROVE c = BatchOf(cu, q)
  <2>1. c >= BatchOf(cu, q) /\ BatchOf(cu, q) >= c
    BY <1>7, <1>8, <1>9
  <2>2. c \in Nat /\ BatchOf(cu, q) \in Nat
    BY <1>1, <1>7
  <2>. QED
    BY <2>1, <2>2
<1>. QED
  BY <1>7, <1>9

(* The blocks before one of level level of sequence b.                     *)
BlocksBefore(cu, b, level) == {bl \in Blocks(cu) : bl[2] < level \/ (bl[2] = level /\ bl[1] < b)}

(* What the blocks of a batch are.                                         *)
LEMMA BlocksRight ==
    ASSUME NEW cu, PrefixSums(cu)
    PROVE  /\ \A b, l : <<b, l>> \in Blocks(cu) <=> b \in SeqsOf(cu) /\ l \in Nat /\ HasLevel(cu, b, l)
           /\ \A bl \in Blocks(cu) : bl = <<bl[1], bl[2]>> /\ bl[1] \in SeqsOf(cu) /\ bl[1] \in Nat
                                     /\ bl[2] \in Nat /\ HasLevel(cu, bl[1], bl[2])
           /\ IsFiniteSet(Blocks(cu)) /\ MostRows(cu) \in Nat
<1>. DEFINE R == {RowsIn(cu, b) : b \in SeqsOf(cu)}
<1>1. R \in SUBSET Nat /\ 1 \in SeqsOf(cu) /\ IsFiniteSet(SeqsOf(cu))
  <2>1. Len(cu) \in Nat /\ Len(cu) > 1
    BY SumsRight
  <2>2. 1 \in SeqsOf(cu)
    BY <2>1 DEF SeqsOf
  <2>. QED
    BY <2>2, SumsRight
<1>4. PICK m \in Nat : \A y \in R : y <= m
  <2>1. ASSUME NEW b \in SeqsOf(cu) PROVE RowsIn(cu, b) <= Tokens(cu)
    <3>1. b \in 1..Len(cu) /\ b + 1 \in 1..Len(cu) /\ LenOf(cu, b) \in Nat /\ Len(cu) \in 1..Len(cu)
          /\ b + 1 <= Len(cu)
      BY SumsRight
    <3>2. cu[b + 1] <= Tokens(cu) /\ cu[b + 1] \in Nat /\ cu[b] \in Nat /\ Tokens(cu) \in Nat
      BY <3>1, SumsRight
    <3>3. LenOf(cu, b) <= Tokens(cu)
      BY <3>2 DEF LenOf
    <3>4. RowsIn(cu, b) <= LenOf(cu, b) /\ RowsIn(cu, b) \in Nat
      BY <3>1, BlkKvAssumption, CeilDivRight DEF RowsIn
    <3>. QED
      BY <3>1, <3>2, <3>3, <3>4
  <2>2. Tokens(cu) \in Nat
    BY SumsRight
  <2>. QED
    BY <2>1, <2>2
<1>5. R # {}
  BY <1>1
<1>6. Largest(R) \in R /\ \A y \in R : y <= Largest(R)
  <2>. HIDE DEF R
  <2>. QED
    BY <1>1, <1>4, <1>5, LargestRight
<1>7. MostRows(cu) \in Nat /\ \A b \in SeqsOf(cu) : RowsIn(cu, b) \in Nat /\ RowsIn(cu, b) <= MostRows(cu)
  <2>1. MostRows(cu) = Largest(R)
    BY DEF MostRows
  <2>2. \A b \in SeqsOf(cu) : RowsIn(cu, b) \in R
    OBVIOUS
  <2>3. \A y \in R : y \in Nat
    BY <1>1
  <2>. HIDE DEF R
  <2>. QED
    BY <1>6, <2>1, <2>2, <2>3
<1>8. ASSUME NEW b, NEW l PROVE <<b, l>> \in Blocks(cu) <=> b \in SeqsOf(cu) /\ l \in Nat
             /\ HasLevel(cu, b, l)
  <2>1. <<b, l>> \in Blocks(cu) <=> b \in SeqsOf(cu) /\ l \in Levels(cu) /\ HasLevel(cu, b, l)
    BY DEF Blocks
  <2>2. b \in SeqsOf(cu) /\ l \in Nat /\ HasLevel(cu, b, l) => l \in Levels(cu)
    BY <1>7 DEF HasLevel, Levels
  <2>3. l \in Levels(cu) => l \in Nat
    BY <1>7 DEF Levels
  <2>. QED
    BY <2>1, <2>2, <2>3
<1>9. ASSUME NEW bl \in Blocks(cu)
      PROVE  bl = <<bl[1], bl[2]>> /\ bl[1] \in SeqsOf(cu) /\ bl[1] \in Nat /\ bl[2] \in Nat
             /\ HasLevel(cu, bl[1], bl[2])
  <2>1. bl = <<bl[1], bl[2]>> /\ bl[1] \in SeqsOf(cu)
    BY DEF Blocks
  <2>. QED
    BY <1>8, <2>1, SumsRight
<1>10. IsFiniteSet(Blocks(cu))
  <2>1. IsFiniteSet(Levels(cu))
    BY <1>7, FS_Interval DEF Levels
  <2>2. IsFiniteSet(SeqsOf(cu) \X Levels(cu))
    BY <1>1, <2>1, FS_Product
  <2>3. Blocks(cu) \in SUBSET (SeqsOf(cu) \X Levels(cu))
    BY DEF Blocks
  <2>. QED
    BY <2>2, <2>3, FS_Subset
<1>. QED
  BY <1>7, <1>8, <1>9, <1>10

(* The blocks of the levels before one: as many as the sum of what each    *)
(* sequence has of them (k2q_build_row_map_kernel).                        *)
LEMMA BeforeLevelRight ==
    ASSUME NEW cu, PrefixSums(cu), NEW level \in Nat
    PROVE  LET low == {bl \in Blocks(cu) : bl[2] < level} IN
           IsFiniteSet(low) /\ Cardinality(low) = RowsBeforeLevel(cu, level)
<1>. DEFINE low == {bl \in Blocks(cu) : bl[2] < level}
            S == SeqsOf(cu)
            f == [b \in S |-> Smaller(RowsIn(cu, b), level)]
            F == [b \in S |-> 0..(f[b] - 1)]
<1>1. IsFiniteSet(S) /\ \A b \in S : f[b] \in Nat
  <2>1. ASSUME NEW b \in S PROVE f[b] \in Nat
    <3>1. RowsIn(cu, b) \in Nat
      BY SumsRight
    <3>. QED
      BY <3>1 DEF Smaller
  <2>. QED
    BY <2>1, SumsRight
<1>2. ASSUME NEW b \in S PROVE IsFiniteSet(F[b]) /\ f[b] = Cardinality(F[b])
  <2>1. f[b] \in Nat /\ F[b] = 0..(f[b] - 1)
    BY <1>1
  <2>. DEFINE k == f[b]
  <2>. HIDE DEF k
  <2>2. k \in Nat => IsFiniteSet(0..(k - 1)) /\ Cardinality(0..(k - 1)) = k
    BY FS_Interval
  <2>. QED
    BY <2>1, <2>2 DEF k
<1>3. low = Pairs(F, S)
  <2>1. ASSUME NEW x PROVE x \in Pairs(F, S) <=> \E b \in S : x \in {b} \X F[b]
    BY DEF Pairs
  <2>2. ASSUME NEW x \in low PROVE x \in Pairs(F, S)
    <3>1. x = <<x[1], x[2]>> /\ x[1] \in S /\ x[2] \in Nat /\ HasLevel(cu, x[1], x[2]) /\ x[2] < level
      BY BlocksRight
    <3>2. RowsIn(cu, x[1]) \in Nat /\ RowsIn(cu, x[1]) > x[2]
      BY <3>1, SumsRight DEF HasLevel
    <3>3. f[x[1]] = Smaller(RowsIn(cu, x[1]), level)
      BY <3>1
    <3>4. x[2] < f[x[1]] /\ f[x[1]] \in Nat
      BY <1>1, <3>1, <3>2, <3>3 DEF Smaller
    <3>5. x[2] \in F[x[1]]
      <4>1. F[x[1]] = 0..(f[x[1]] - 1)
        BY <3>1
      <4>. HIDE DEF f, F
      <4>. QED
        BY <3>1, <3>4, <4>1
    <3>6. x \in {x[1]} \X F[x[1]]
      <4>. HIDE DEF F
      <4>. QED
        BY <3>1, <3>5
    <3>. QED
      BY <2>1, <3>1, <3>6
  <2>3. ASSUME NEW x, x \in Pairs(F, S) PROVE x \in low
    <3>1. PICK b \in S : x \in {b} \X F[b]
      BY <2>1, <2>3
    <3>2. x = <<x[1], x[2]>> /\ x[1] = b /\ x[2] \in 0..(f[b] - 1)
      BY <3>1
    <3>3. f[b] = Smaller(RowsIn(cu, b), level) /\ f[b] \in Nat /\ RowsIn(cu, b) \in Nat
      BY <1>1, SumsRight
    <3>4. x[2] \in Nat /\ x[2] < level /\ RowsIn(cu, b) > x[2]
      <4>. HIDE DEF f
      <4>. QED
        BY <3>2, <3>3 DEF Smaller
    <3>5. <<b, x[2]>> \in Blocks(cu)
      BY <3>4, BlocksRight DEF HasLevel
    <3>. QED
      BY <3>2, <3>4, <3>5
  <2>. QED
    BY <2>2, <2>3
<1>4. IsFiniteSet(Pairs(F, S)) /\ Cardinality(Pairs(F, S)) = Total(f, S)
  <2>1. (\A b \in S : IsFiniteSet(F[b])) /\ \A b \in S : f[b] = Cardinality(F[b])
    BY <1>2
  <2>. HIDE DEF f, F, S
  <2>. QED
    BY <1>1, <2>1, Fibres
<1>5. RowsBeforeLevel(cu, level) = Total(f, S)
  BY DEF RowsBeforeLevel
<1>. QED
  BY <1>3, <1>4, <1>5

(* When the total length is no multiple of a block, the rows the host       *)
(* derives from it are enough for the blocks of any batch with that total  *)
(* (total_rows in SparseK2qCsrBuilderSm100.__call__).                      *)
THEOREM DerivedRowsEnough ==
    ASSUME NEW cu, PrefixSums(cu), Tokens(cu) % BlkKv # 0
    PROVE  Cardinality(Blocks(cu)) <= DerivedRows(cu)
<1>. DEFINE n == Len(cu) - 1  k == BlkKv  m == MostRows(cu)
            f == [b \in SeqsOf(cu) |-> Smaller(RowsIn(cu, b), m)]
            sum(b) == Total(f, 1..b)
<1>1. n \in Nat /\ SeqsOf(cu) = 1..n /\ k \in Nat \ {0} /\ m \in Nat /\ Tokens(cu) = cu[n + 1]
      /\ cu[1] = 0 /\ \A b \in 1..(n + 1) : cu[b] \in Nat
  <2>1. Len(cu) \in Nat /\ Len(cu) > 1 /\ n + 1 = Len(cu)
    BY SumsRight
  <2>. QED
    BY <2>1, SumsRight, BlocksRight, BlkKvAssumption DEF SeqsOf
<1>2. Cardinality(Blocks(cu)) = sum(n)
  <2>1. {bl \in Blocks(cu) : bl[2] < m} = Blocks(cu)
    <3>1. \A bl \in Blocks(cu) : bl[2] \in 0..(m - 1)
      BY DEF Blocks, Levels
    <3>. QED
      BY <1>1, <3>1
  <2>2. RowsBeforeLevel(cu, m) = sum(n)
    BY <1>1 DEF RowsBeforeLevel
  <2>. QED
    BY <1>1, <2>1, <2>2, BeforeLevelRight
<1>3. ASSUME NEW b \in 1..n
      PROVE  f[b] \in Nat /\ f[b] * k <= (cu[b + 1] - cu[b]) + (k - 1)
  <2>. DEFINE l == LenOf(cu, b)  r == RowsIn(cu, b)
  <2>1. l \in Nat /\ l = cu[b + 1] - cu[b]
    BY <1>1, SumsRight DEF LenOf
  <2>2. r = CeilDiv(l, k)
    BY DEF RowsIn
  <2>. HIDE DEF l, r
  <2>3. r \in Nat /\ r * k < l + k
    BY <1>1, <2>1, <2>2, CeilDivRight
  <2>4. f[b] = Smaller(r, m)
    BY <1>1 DEF r
  <2>. DEFINE z == f[b]
  <2>. HIDE DEF z, f
  <2>5. z \in Nat /\ z <= r
    BY <1>1, <2>3, <2>4 DEF Smaller, z
  <2>6. k * z <= k * r /\ k * z = z * k /\ k * r = r * k /\ k * z \in Nat /\ k * r \in Nat
    BY <1>1, <2>3, <2>5, Product
  <2>7. z * k <= l + (k - 1)
    <3>. DEFINE u == z * k  v == r * k
    <3>1. u \in Nat /\ v \in Nat /\ u <= v /\ v < l + k
      BY <2>3, <2>6
    <3>. HIDE DEF u, v
    <3>. QED
      BY <1>1, <2>1, <3>1 DEF u
  <2>. QED
    BY <2>1, <2>5, <2>7 DEF z
<1>. DEFINE T == {b \in Nat : b <= n => sum(b) \in Nat /\ sum(b) * k <= cu[b + 1] + b * (k - 1)}
<1>. HIDE DEF n, k, m, f
<1>4. 0 \in T
  <2>1. 1..0 = {} /\ sum(0) = 0
    BY FS_EmptySet, TotalFirst
  <2>2. 0 * k = 0 /\ 0 * (k - 1) = 0
    BY <1>1
  <2>. QED
    BY <1>1, <2>1, <2>2
<1>5. ASSUME NEW b \in Nat, b \in T PROVE b + 1 \in T
  <2>. SUFFICES ASSUME b + 1 <= n
                PROVE  sum(b + 1) \in Nat /\ sum(b + 1) * k <= cu[(b + 1) + 1] + (b + 1) * (k - 1)
    OBVIOUS
  <2>1. sum(b) \in Nat /\ sum(b) * k <= cu[b + 1] + b * (k - 1)
    BY <1>1, <1>5
  <2>2. b + 1 \in 1..n /\ b + 1 \in 1..(n + 1) /\ (b + 1) + 1 \in 1..(n + 1)
    BY <1>1
  <2>3. /\ 1..(b + 1) = (1..b) \cup {b + 1} /\ b + 1 \notin 1..b
        /\ \A x \in 1..b : x \in 1..n
    BY <1>1
  <2>4. sum(b + 1) = sum(b) + f[b + 1]
    <3>1. IsFiniteSet(1..b)
      BY FS_Interval
    <3>2. f[b + 1] \in Int /\ \A x \in 1..b : f[x] \in Int
      BY <1>3, <2>2, <2>3
    <3>. DEFINE S == 1..b  x == b + 1
    <3>3. 1..x = S \cup {x} /\ x \notin S /\ IsFiniteSet(S) /\ f[x] \in Int /\ \A y \in S : f[y] \in Int
      BY <2>3, <3>1, <3>2
    <3>4. Total(f, S \cup {x}) = Total(f, S) + f[x]
      <4>. HIDE DEF S, x
      <4>. QED
        BY <3>3, TotalAdd
    <3>. QED
      BY <3>3, <3>4
  <2>5. f[b + 1] \in Nat /\ f[b + 1] * k <= (cu[(b + 1) + 1] - cu[b + 1]) + (k - 1)
    BY <1>3, <2>2
  <2>. DEFINE s == sum(b)  g == f[b + 1]
  <2>. HIDE DEF s, g, sum
  <2>6. (s + g) * k = s * k + g * k /\ s * k \in Nat /\ g * k \in Nat
    <3>1. s \in Nat /\ g \in Nat
      BY <2>1, <2>5 DEF s, g
    <3>. QED
      BY <1>1, <3>1
  <2>7. (b + 1) * (k - 1) = b * (k - 1) + (k - 1) /\ b * (k - 1) \in Nat
    BY <1>1
  <2>. DEFINE sk == s * k  gk == g * k  bk == b * (k - 1)
  <2>8. sk + gk <= cu[(b + 1) + 1] + (bk + (k - 1))
    <3>1. sk \in Nat /\ gk \in Nat /\ bk \in Nat /\ sk <= cu[b + 1] + bk
          /\ gk <= (cu[(b + 1) + 1] - cu[b + 1]) + (k - 1)
      BY <2>1, <2>5, <2>6, <2>7 DEF s, g
    <3>. HIDE DEF sk, gk, bk
    <3>. QED
      BY <1>1, <2>2, <3>1
  <2>9. sum(b + 1) = s + g /\ s + g \in Nat
    BY <2>1, <2>4, <2>5 DEF s, g
  <2>. QED
    BY <2>6, <2>7, <2>8, <2>9
<1>6. n \in T
  <2>1. T \in SUBSET Nat /\ \A b \in T : b + 1 \in T
    BY <1>5
  <2>2. T = Nat
    <3>. HIDE DEF T
    <3>. QED
      BY <1>4, <2>1, NatSet
  <2>. HIDE DEF T
  <2>. QED
    BY <1>1, <2>2
<1>. DEFINE total == Tokens(cu) + n * (k - 1)
<1>7. total \in Nat /\ sum(n) \in Nat /\ sum(n) * k <= total
  <2>1. n * (k - 1) \in Nat
    BY <1>1
  <2>. QED
    BY <1>1, <1>6, <2>1
<1>8. DerivedRows(cu) = CeilDiv(total, k)
  BY DEF DerivedRows, n, k
<1>. HIDE DEF total, sum
<1>9. CeilDiv(total, k) \in Nat /\ total <= CeilDiv(total, k) * k
  BY <1>1, <1>7, CeilDivRight
<1>10. ASSUME CeilDiv(total, k) < sum(n) PROVE FALSE
  <2>. DEFINE c == CeilDiv(total, k)  s == sum(n)
  <2>1. c \in Nat /\ s \in Nat /\ c < s /\ total <= c * k /\ s * k <= total
    BY <1>7, <1>9, <1>10
  <2>. HIDE DEF c, s
  <2>2. c * k + k <= s * k /\ c * k \in Nat /\ s * k \in Nat
    BY <1>1, <2>1, Groups
  <2>. DEFINE ck == c * k  sk == s * k
  <2>. HIDE DEF ck, sk
  <2>3. ck + k <= sk /\ ck \in Nat /\ sk \in Nat /\ total <= ck /\ sk <= total
    BY <2>1, <2>2 DEF ck, sk
  <2>. QED
    BY <1>1, <1>7, <2>3
<1>. QED
  BY <1>2, <1>7, <1>8, <1>9, <1>10

(* The formula of the row map is the place of a block in the order of the  *)
(* levels and, in a level, of the sequences: a row of its own for each     *)
(* block, and a block for each of the first rows.                          *)
LEMMA RowsNumbered ==
    ASSUME NEW cu, PrefixSums(cu)
    PROVE  /\ \A bl \in Blocks(cu) : /\ RowOf(cu, bl[1], bl[2]) = RowRank(cu, bl[1], bl[2])
                                     /\ RowOf(cu, bl[1], bl[2]) \in 0..(Cardinality(Blocks(cu)) - 1)
           /\ \A x, y \in Blocks(cu) : RowOf(cu, x[1], x[2]) = RowOf(cu, y[1], y[2]) => x = y
           /\ \A k \in 0..(Cardinality(Blocks(cu)) - 1) : \E x \in Blocks(cu) : RowOf(cu, x[1], x[2]) = k
<1>. DEFINE B == Blocks(cu)  below == [x \in B |-> BlocksBefore(cu, x[1], x[2])]
<1>1. IsFiniteSet(B) /\ \A x \in B : x = <<x[1], x[2]>> /\ x[1] \in SeqsOf(cu) /\ x[1] \in Nat
      /\ x[2] \in Nat
                                     /\ HasLevel(cu, x[1], x[2])
  BY BlocksRight
<1>2. ASSUME NEW x \in B PROVE RowOf(cu, x[1], x[2]) = Cardinality(BlocksBefore(cu, x[1], x[2]))
  <2>. DEFINE b == x[1]  level == x[2]
              low == {bl \in Blocks(cu) : bl[2] < level}
              same == {bl \in Blocks(cu) : bl[2] = level /\ bl[1] < b}
              active == {i \in 1..(b - 1) : HasLevel(cu, i, level)}
  <2>1. b \in Nat /\ level \in Nat /\ b \in SeqsOf(cu)
    BY <1>1
  <2>2. IsFiniteSet(low) /\ Cardinality(low) = RowsBeforeLevel(cu, level)
    BY <2>1, BeforeLevelRight
  <2>3. IsFiniteSet(active) /\ IsFiniteSet(same)
    <3>1. IsFiniteSet(1..(b - 1))
      BY <2>1, FS_Interval
    <3>2. active \in SUBSET (1..(b - 1)) /\ same \in SUBSET B
      OBVIOUS
    <3>. QED
      BY <1>1, <3>1, <3>2, FS_Subset
  <2>4. Cardinality(same) = Cardinality(active)
    <3>. DEFINE g == [y \in same |-> y[1]]
    <3>1. ASSUME NEW y \in same PROVE y[1] \in active /\ y = <<y[1], level>>
      <4>1. y \in B /\ y[2] = level /\ y[1] < b
        OBVIOUS
      <4>2. y = <<y[1], y[2]>> /\ y[1] \in SeqsOf(cu) /\ y[1] \in Nat /\ HasLevel(cu, y[1], y[2])
        BY <1>1, <4>1
      <4>3. y[1] >= 1
        BY <4>2 DEF SeqsOf
      <4>. QED
        BY <2>1, <4>1, <4>2, <4>3
    <3>2. g \in [same -> active]
      BY <3>1
    <3>3. \A y, z \in same : g[y] = g[z] => y = z
      BY <3>1
    <3>4. ASSUME NEW i \in active PROVE \E y \in same : g[y] = i
      <4>1. i \in 1..(b - 1) /\ HasLevel(cu, i, level)
        OBVIOUS
      <4>2. i \in SeqsOf(cu) /\ i < b
        BY <2>1, <4>1 DEF SeqsOf
      <4>3. <<i, level>> \in Blocks(cu)
        BY <2>1, <4>1, <4>2, BlocksRight
      <4>4. <<i, level>> \in same /\ g[<<i, level>>] = i
        BY <4>2, <4>3
      <4>. QED
        BY <4>4
    <3>. HIDE DEF g, same, active
    <3>. QED
      BY <2>3, <3>2, <3>3, <3>4, SameCount
  <2>5. BlocksBefore(cu, b, level) = low \cup same /\ low \cap same = {}
    <3>1. \A y \in B : ~ (y[2] < level /\ y[2] = level)
      BY <1>1, <2>1
    <3>. QED
      BY <3>1 DEF BlocksBefore
  <2>6. Cardinality(low \cup same) = Cardinality(low) + Cardinality(same)
    <3>1. Cardinality(low \cap same) = 0 /\ Cardinality(low) \in Nat /\ Cardinality(same) \in Nat
      BY <2>2, <2>3, <2>5, FS_EmptySet, FS_CardinalityType
    <3>2. Cardinality(low \cup same) = Cardinality(low) + Cardinality(same) - Cardinality(low \cap same)
      <4>. HIDE DEF low, same
      <4>. QED
        BY <2>2, <2>3, FS_Union
    <3>. QED
      BY <3>1, <3>2
  <2>. HIDE DEF low, same
  <2>. QED
    BY <2>2, <2>4, <2>5, <2>6 DEF RowOf
<1>3. below \in [B -> SUBSET B]
  BY DEF BlocksBefore
<1>4. \A x \in B : x \notin below[x]
  <2>1. ASSUME NEW x \in B PROVE x \notin below[x]
    <3>1. x[1] \in Nat /\ x[2] \in Nat
      BY <1>1
    <3>. QED
      BY <3>1 DEF BlocksBefore
  <2>. QED
    BY <2>1
<1>5. ASSUME NEW x \in B, NEW y \in B
      PROVE  \/ x = y
             \/ x \in below[y] /\ below[x] \subseteq below[y]
             \/ y \in below[x] /\ below[y] \subseteq below[x]
  <2>. DEFINE Less(v, w) == v[2] < w[2] \/ (v[2] = w[2] /\ v[1] < w[1])
  <2>1. x[1] \in Nat /\ x[2] \in Nat /\ y[1] \in Nat /\ y[2] \in Nat /\ x = <<x[1], x[2]>>
        /\ y = <<y[1], y[2]>>
    BY <1>1
  <2>2. x = y \/ Less(x, y) \/ Less(y, x)
    BY <2>1
  <2>3. ASSUME NEW v \in B, NEW w \in B, Less(v, w) PROVE v \in below[w] /\ below[v] \subseteq below[w]
    <3>1. v \in below[w]
      BY <2>3 DEF BlocksBefore
    <3>2. ASSUME NEW z \in below[v] PROVE z \in below[w]
      <4>1. z \in B /\ Less(z, v)
        BY DEF BlocksBefore
      <4>2. z[1] \in Nat /\ z[2] \in Nat /\ v[1] \in Nat /\ v[2] \in Nat /\ w[1] \in Nat /\ w[2] \in Nat
        BY <1>1, <4>1
      <4>3. Less(z, w)
        BY <2>3, <4>1, <4>2
      <4>. QED
        BY <4>1, <4>3 DEF BlocksBefore
    <3>. QED
      BY <3>1, <3>2
  <2>. HIDE DEF Less, below
  <2>. QED
    BY <2>2, <2>3
<1>6. /\ \A x \in B : Cardinality(below[x]) \in 0..(Cardinality(B) - 1)
      /\ \A x, y \in B : Cardinality(below[x]) = Cardinality(below[y]) => x = y
      /\ \A k \in 0..(Cardinality(B) - 1) : \E x \in B : Cardinality(below[x]) = k
  <2>. HIDE DEF B, below
  <2>. QED
    BY <1>1, <1>3, <1>4, <1>5, Places
<1>7. \A x \in B : RowOf(cu, x[1], x[2]) = Cardinality(below[x])
      /\ RowRank(cu, x[1], x[2]) = Cardinality(below[x])
  BY <1>2 DEF BlocksBefore, RowRank
<1>. HIDE DEF below
<1>. QED
  BY <1>6, <1>7

-----------------------------------------------------------------------------
(***************************************************************************)
(* What the queries chose.                                                 *)
(***************************************************************************)
(* The picks of a query are numbers, and none but -1 is repeated.          *)
LEMMA PicksRight ==
    ASSUME Fixed, NEW h \in Heads, NEW q \in Queries
    PROVE  /\ q \in Nat /\ q \in 0..(Tokens(prob.cuQ) - 1) /\ h \in Nat
           /\ \A s \in 1..TopK : Picks(h, q)[s] \in Int
           /\ \A s, t \in 1..TopK : Picks(h, q)[s] = Picks(h, q)[t] => s = t \/ Picks(h, q)[s] = -1
<1>1. host.numQ = Tokens(prob.cuQ) /\ host.heads = Len(prob.q2k) /\ host.numQ \in Nat /\ host.heads \in Nat
  BY Sizes
<1>2. q \in Nat /\ q \in 0..(Tokens(prob.cuQ) - 1) /\ h \in Nat /\ h + 1 \in 1..Len(prob.q2k)
  BY <1>1 DEF Heads, Queries
<1>3. prob.q2k \in Seq(Seq(Seq(Int))) /\ h + 1 \in DOMAIN prob.q2k
  BY <1>2 DEF Fixed, SafeProblem
<1>4. prob.q2k[h + 1] \in Seq(Seq(Int)) /\ Len(prob.q2k[h + 1]) = Tokens(prob.cuQ)
  BY <1>3 DEF Fixed, SafeProblem
<1>5. q + 1 \in DOMAIN prob.q2k[h + 1]
  BY <1>1, <1>2, <1>4
<1>6. Picks(h, q) \in Seq(Int) /\ Len(Picks(h, q)) = TopK
  BY <1>3, <1>4, <1>5 DEF Fixed, SafeProblem, Picks
<1>7. \A s, t \in 1..TopK : Picks(h, q)[s] = Picks(h, q)[t] => s = t \/ Picks(h, q)[s] = -1
  BY <1>3, <1>5 DEF Fixed, SafeProblem, Picks
<1>. QED
  BY <1>2, <1>6, <1>7

(* The levels that the row map has room for hold those of every sequence.  *)
LEMMA LevelsFit ==
    ASSUME Fixed, NEW b \in SeqsOf(prob.cuK), NEW l \in Nat, HasLevel(prob.cuK, b, l)
    PROVE  /\ l \in Levels0 /\ RowOf(prob.cuK, b, l) \in Rows /\ <<b, l>> \in Blocks(prob.cuK)
<1>. DEFINE cu == prob.cuK
<1>1. PrefixSums(cu) /\ LenOf(cu, b) <= prob.maxK /\ prob.maxK \in Nat
  BY DEF Fixed, SafeProblem
<1>2. LenOf(cu, b) \in Nat /\ RowsIn(cu, b) \in Nat /\ RowsIn(cu, b) > l
  BY <1>1, SumsRight DEF HasLevel
<1>3. Larger(prob.maxK, BlkKv) \in Nat /\ LenOf(cu, b) <= Larger(prob.maxK, BlkKv)
  BY <1>1, <1>2, Positive DEF Larger
<1>4. host.maxBlocks = CeilDiv(Larger(prob.maxK, BlkKv), BlkKv) /\ host.maxBlocks \in Nat
      /\ host.rows >= Cardinality(Blocks(cu)) /\ host.rows \in Nat
  BY Sizes
<1>. DEFINE m == Larger(prob.maxK, BlkKv)
<1>. HIDE DEF m
<1>5. m \in Nat /\ m <= CeilDiv(m, BlkKv) * BlkKv /\ CeilDiv(m, BlkKv) \in Nat
      /\ CeilDiv(m, BlkKv) * BlkKv \in Nat
  <2>1. m \in Nat
    BY <1>3 DEF m
  <2>2. m <= CeilDiv(m, BlkKv) * BlkKv /\ CeilDiv(m, BlkKv) \in Nat
    BY <2>1, Positive, CeilDivRight
  <2>. QED
    BY <2>1, <2>2, Positive
<1>6. LenOf(cu, b) <= CeilDiv(m, BlkKv) * BlkKv
  <2>1. LenOf(cu, b) <= m
    BY <1>3 DEF m
  <2>. HIDE DEF cu
  <2>. QED
    BY <1>2, <1>5, <2>1
<1>7. RowsIn(cu, b) <= CeilDiv(m, BlkKv)
  BY <1>2, <1>5, <1>6, Positive, CeilDivRight DEF RowsIn
<1>8. l \in Levels0
  BY <1>2, <1>4, <1>5, <1>7 DEF Levels0, m
<1>9. <<b, l>> \in Blocks(cu)
  BY <1>1, BlocksRight
<1>10. RowOf(cu, <<b, l>>[1], <<b, l>>[2]) \in 0..(Cardinality(Blocks(cu)) - 1)
  BY <1>1, <1>9, RowsNumbered
<1>11. Cardinality(Blocks(cu)) \in Nat
  BY <1>1, BlocksRight, FS_CardinalityType
<1>12. RowOf(cu, b, l) \in Rows
  BY <1>4, <1>10, <1>11 DEF Rows
<1>. QED
  BY <1>8, <1>9, <1>12

(* The row a pick leads to, once the row map is made.                      *)
LEMMA RowAtRight ==
    ASSUME Fixed, MapRight, stage # "M", NEW h \in Heads, NEW q \in Queries, NEW s \in 1..TopK
    PROVE  LET b == BatchOf(prob.cuQ, q)
               kvb == Picks(h, q)[s] IN
           /\ RowAt(h, q, s) \in Rows \cup {-1}
           /\ b \in SeqsOf(prob.cuK) /\ b \in SeqsOf(prob.cuQ)
           /\ RowAt(h, q, s) # -1 =>
                 /\ kvb \in Nat /\ HasLevel(prob.cuK, b, kvb) /\ RowAt(h, q, s) = RowOf(prob.cuK, b, kvb)
                 /\ rowCoords[RowAt(h, q, s)] = <<b, kvb>>
           /\ Busy /\ kvb \in Nat /\ HasLevel(prob.cuK, b, kvb) => RowAt(h, q, s) # -1
<1>. DEFINE b == BatchOf(prob.cuQ, q)
            kvb == Picks(h, q)[s]
            cu == prob.cuK
<1>1. RowAt(h, q, s) \in Rows \cup {-1}
  BY DEF RowAt
<1>2. b \in SeqsOf(prob.cuQ) /\ b \in SeqsOf(cu)
  <2>1. PrefixSums(prob.cuQ) /\ Len(prob.cuQ) = Len(prob.cuK)
    BY DEF Fixed, SafeProblem
  <2>2. b \in SeqsOf(prob.cuQ)
    BY <2>1, PicksRight, BatchRight
  <2>. QED
    BY <2>1, <2>2 DEF SeqsOf
<1>3. kvb \in Int /\ host.numQ \in Nat /\ host.rows \in Nat /\ q \in Nat /\ q < host.numQ
      /\ host.maxBlocks \in Nat
  BY PicksRight, Sizes DEF Queries
<1>4. ASSUME RowAt(h, q, s) # -1
      PROVE  Busy /\ kvb \in Levels0 /\ RowAt(h, q, s) = rowMap[b][kvb] /\ rowMap[b][kvb] \in Rows
  <2>1. RowAt(h, q, s) \in Rows
    BY <1>1, <1>4
  <2>2. Busy
    BY <1>3, <2>1 DEF Busy, Rows
  <2>. QED
    BY <1>4, <2>1, <2>2 DEF RowAt
<1>5. ASSUME RowAt(h, q, s) # -1
      PROVE  /\ kvb \in Nat /\ HasLevel(cu, b, kvb) /\ RowAt(h, q, s) = RowOf(cu, b, kvb)
             /\ rowCoords[RowAt(h, q, s)] = <<b, kvb>>
  <2>1. Mapped(kvb)
    BY <1>4, <1>5 DEF Mapped
  <2>2. kvb \in Levels0 /\ kvb \in Nat
    BY <1>3, <1>4, <1>5 DEF Levels0
  <2>3. IF HasLevel(cu, b, kvb)
        THEN rowMap[b][kvb] = RowOf(cu, b, kvb) /\ rowCoords[RowOf(cu, b, kvb)] = <<b, kvb>>
        ELSE rowMap[b][kvb] = -1
    BY <1>2, <2>1, <2>2 DEF MapRight
  <2>4. HasLevel(cu, b, kvb)
    BY <1>4, <1>5, <2>3
  <2>. QED
    BY <1>4, <1>5, <2>2, <2>3, <2>4
<1>6. ASSUME Busy, kvb \in Nat, HasLevel(cu, b, kvb) PROVE RowAt(h, q, s) # -1
  <2>1. kvb \in Levels0 /\ RowOf(cu, b, kvb) \in Rows
    BY <1>2, <1>6, LevelsFit
  <2>2. Mapped(kvb)
    BY <1>6 DEF Mapped
  <2>3. rowMap[b][kvb] = RowOf(cu, b, kvb)
    BY <1>2, <1>6, <2>1, <2>2 DEF MapRight
  <2>4. RowAt(h, q, s) = RowOf(cu, b, kvb)
    BY <2>1, <2>3 DEF RowAt
  <2>5. RowOf(cu, b, kvb) \in Nat
    BY <1>3, <2>1 DEF Rows
  <2>. QED
    BY <2>4, <2>5
<1>. HIDE DEF b, kvb, cu
<1>. QED
  BY <1>1, <1>2, <1>5, <1>6 DEF b, kvb, cu

(* A query is in a row once.                                               *)
LEMMA ChosenOnce ==
    ASSUME Fixed, MapRight, stage # "M", NEW h \in Heads, NEW q \in Queries,
           NEW s \in 1..TopK, NEW t \in 1..TopK, RowAt(h, q, s) = RowAt(h, q, t), RowAt(h, q, s) # -1
    PROVE  s = t
<1>. DEFINE b == BatchOf(prob.cuQ, q)  cu == prob.cuK
            k == Picks(h, q)[s]  l == Picks(h, q)[t]
<1>1. /\ b \in SeqsOf(cu) /\ k \in Nat /\ l \in Nat /\ HasLevel(cu, b, k) /\ HasLevel(cu, b, l)
      /\ RowAt(h, q, s) = RowOf(cu, b, k) /\ RowAt(h, q, t) = RowOf(cu, b, l)
  BY RowAtRight
<1>2. PrefixSums(cu)
  BY DEF Fixed, SafeProblem
<1>. HIDE DEF k, l, b
<1>3. <<b, k>> \in Blocks(cu) /\ <<b, l>> \in Blocks(cu)
  BY <1>1, <1>2, BlocksRight
<1>4. RowOf(cu, <<b, k>>[1], <<b, k>>[2]) = RowOf(cu, <<b, l>>[1], <<b, l>>[2])
  BY <1>1
<1>5. <<b, k>> = <<b, l>>
  BY <1>2, <1>3, <1>4, RowsNumbered
<1>6. k = l /\ k # -1
  BY <1>1, <1>5
<1>. QED
  BY <1>6, PicksRight DEF k, l

(* The queries that chose a row, up to one.                                *)
LEMMA AheadRight ==
    ASSUME Fixed, NEW h, NEW r
    PROVE  /\ Chose(h, r) \in SUBSET Nat /\ IsFiniteSet(Chose(h, r))
           /\ \A q \in Nat : Ahead(h, r, q) \in Nat
           /\ Ahead(h, r, 0) = 0
           /\ \A a, b \in Nat : a <= b =>
                /\ CountIn(h, r, a, b) = Cardinality({p \in Chose(h, r) : a <= p /\ p < b})
                /\ CountIn(h, r, a, b) \in 0..(b - a)
           /\ \A q \in Nat : Ahead(h, r, q + 1) = Ahead(h, r, q) + (IF q \in Chose(h, r) THEN 1 ELSE 0)
<1>1. IsFiniteSet(Queries) /\ Queries \in SUBSET Nat
  <2>. DEFINE n == host.numQ - 1
  <2>1. n \in Int /\ 0 \in Int
    BY Sizes
  <2>2. Queries = 0..n
    BY DEF Queries
  <2>. HIDE DEF n
  <2>. QED
    BY <2>1, <2>2, FS_Interval
<1>2. Chose(h, r) \in SUBSET Nat /\ IsFiniteSet(Chose(h, r))
  <2>1. Chose(h, r) \in SUBSET Queries
    BY DEF Chose
  <2>. QED
    BY <1>1, <2>1, FS_Subset
<1>. DEFINE S == Chose(h, r)
<1>. HIDE DEF S
<1>3. /\ \A a \in Nat : Under(S, a) \in Nat
      /\ Under(S, 0) = 0
      /\ \A a, b \in Nat : a <= b =>
           /\ Under(S, b) = Under(S, a) + Cardinality({p \in S : a <= p /\ p < b})
           /\ Cardinality({p \in S : a <= p /\ p < b}) \in 0..(b - a)
      /\ \A a \in Nat : Under(S, a + 1) = Under(S, a) + (IF a \in S THEN 1 ELSE 0)
  BY <1>2, UnderRight DEF S
<1>4. \A q : Ahead(h, r, q) = Under(S, q)
  BY DEF Ahead, S
<1>5. ASSUME NEW a \in Nat, NEW b \in Nat, a <= b
      PROVE  /\ CountIn(h, r, a, b) = Cardinality({p \in S : a <= p /\ p < b})
             /\ CountIn(h, r, a, b) \in 0..(b - a)
  <2>. DEFINE n == Cardinality({p \in S : a <= p /\ p < b})
  <2>. HIDE DEF n
  <2>1. Under(S, a) \in Nat /\ Under(S, b) = Under(S, a) + n /\ n \in 0..(b - a)
    BY <1>3, <1>5 DEF n
  <2>2. CountIn(h, r, a, b) = Under(S, b) - Under(S, a)
    BY <1>4 DEF CountIn
  <2>. QED
    BY <2>1, <2>2 DEF n
<1>. QED
  BY <1>2, <1>3, <1>4, <1>5 DEF S

(* Nobody chose what is no row.                                            *)
LEMMA NobodyElse ==
    ASSUME Fixed, NEW h, NEW r, r \notin Rows, r # -1
    PROVE  Chose(h, r) = {} /\ \A q \in Nat : Ahead(h, r, q) = 0
<1>1. Chose(h, r) = {}
  BY DEF Chose, RowAt
<1>2. ASSUME NEW q \in Nat PROVE Ahead(h, r, q) = 0
  <2>1. {p \in Chose(h, r) : p < q} = {}
    BY <1>1
  <2>. QED
    BY <2>1, FS_EmptySet DEF Ahead, Under
<1>. QED
  BY <1>1, <1>2

-----------------------------------------------------------------------------
(***************************************************************************)
(* Two counters in a word.                                                 *)
(***************************************************************************)
(* The words that hold the counters a, by row.                             *)
Two(a) == [i \in Words |-> a[2 * i] + HalfRange * a[2 * i + 1]]

(* The counters and words of a row.                                        *)
LEMMA WordsRight ==
    ASSUME Fixed
    PROVE  /\ \A i \in Words : i \in Nat
           /\ \A r \in Rows : r \in Nat /\ r \div 2 \in Words
           /\ \A i \in Nat : Delta(2 * i) = 1 /\ Delta(2 * i + 1) = HalfRange
           /\ \A r \in Nat : \/ r = 2 * (r \div 2) /\ Delta(r) = 1
                             \/ r = 2 * (r \div 2) + 1 /\ Delta(r) = HalfRange
<1>1. host.rows \in Nat /\ CeilDiv(host.rows, 2) \in Nat /\ host.rows <= CeilDiv(host.rows, 2) * 2
  <2>1. host.rows \in Nat
    BY Sizes
  <2>. DEFINE n == host.rows
  <2>. HIDE DEF n
  <2>2. n \in Nat /\ 2 \in Nat \ {0}
    BY <2>1 DEF n
  <2>3. CeilDiv(n, 2) \in Nat /\ n <= CeilDiv(n, 2) * 2
    BY <2>2, CeilDivRight
  <2>. QED
    BY <2>1, <2>3 DEF n
<1>2. \A i \in Words : i \in Nat
  BY <1>1 DEF Words
<1>3. ASSUME NEW r \in Nat
      PROVE  r \div 2 \in Nat /\ ((r % 2 = 0 /\ r = 2 * (r \div 2)) \/ (r % 2 = 1 /\ r = 2 * (r \div 2) + 1))
  BY <1>3
<1>4. ASSUME NEW r \in Rows PROVE r \in Nat /\ r \div 2 \in Words
  <2>1. r \in Nat /\ r < host.rows
    BY <1>1 DEF Rows
  <2>. QED
    BY <1>1, <1>3, <2>1 DEF Words
<1>5. ASSUME NEW i \in Nat PROVE Delta(2 * i) = 1 /\ Delta(2 * i + 1) = HalfRange
  BY DEF Delta
<1>6. ASSUME NEW r \in Nat
      PROVE  (r = 2 * (r \div 2) /\ Delta(r) = 1) \/ (r = 2 * (r \div 2) + 1 /\ Delta(r) = HalfRange)
  BY <1>3 DEF Delta
<1>. QED
  BY <1>2, <1>4, <1>5, <1>6

(* A counter is read back from its half of the word.                       *)
LEMMA HalfOf ==
    ASSUME Fixed, NEW a, (\A r \in Nat : a[r] \in 0..(HalfRange - 1)), NEW r \in Rows
    PROVE  Half(Two(a), r) = a[r]
<1>. DEFINE H == HalfRange  i == r \div 2  lo == a[2 * i]  hi == a[2 * i + 1]
<1>1. H \in Nat \ {0} /\ i \in Words /\ i \in Nat /\ r \in Nat
  BY HalfRangeRight, WordsRight
<1>2. lo \in 0..(H - 1) /\ hi \in 0..(H - 1)
  <2>. HIDE DEF i
  <2>1. 2 * i \in Nat /\ 2 * i + 1 \in Nat
    BY <1>1
  <2>. QED
    BY <2>1
<1>3. Half(Two(a), r) = ((lo + H * hi) \div Delta(r)) % H
  BY <1>1 DEF Half, Two
<1>4. (r = 2 * i /\ Delta(r) = 1) \/ (r = 2 * i + 1 /\ Delta(r) = H)
  BY <1>1, WordsRight
<1>. HIDE DEF i, H
<1>5. (a[r] = lo /\ Delta(r) = 1) \/ (a[r] = hi /\ Delta(r) = H)
  BY <1>4
<1>. HIDE DEF lo, hi
<1>6. H * hi \in Nat /\ H * hi = hi * H /\ lo \in Nat /\ hi \in Nat /\ lo < H /\ hi < H
  BY <1>1, <1>2
<1>7. CASE Delta(r) = 1 /\ a[r] = lo
  <2>1. (lo + H * hi) \div 1 = lo + H * hi
    BY <1>6
  <2>2. hi * H <= lo + H * hi /\ lo + H * hi < hi * H + H /\ lo + H * hi \in Nat
    BY <1>1, <1>6
  <2>. DEFINE z == lo + H * hi
  <2>. HIDE DEF z
  <2>3. z \in Nat /\ hi * H <= z /\ z < hi * H + H
    BY <2>2 DEF z
  <2>4. z % H = z - hi * H
    BY <1>1, <1>6, <2>3, QuotientOf
  <2>5. (lo + H * hi) % H = (lo + H * hi) - hi * H
    BY <2>4 DEF z
  <2>. QED
    BY <1>3, <1>6, <1>7, <2>1, <2>5
<1>8. CASE Delta(r) = H /\ a[r] = hi
  <2>1. hi * H <= lo + H * hi /\ lo + H * hi < hi * H + H /\ lo + H * hi \in Nat
    BY <1>1, <1>6
  <2>2. (lo + H * hi) \div H = hi
    BY <1>1, <1>6, <2>1, QuotientOf
  <2>3. hi % H = hi
    BY <1>1, <1>6
  <2>. QED
    BY <1>3, <1>8, <2>2, <2>3
<1>. QED
  BY <1>5, <1>7, <1>8

(* Counters that fit add up without a carry between the halves.            *)
LEMMA BumpOf ==
    ASSUME Fixed, NEW a, NEW b, NEW entries, (\A r \in Nat : a[r] \in Nat /\ b[r] \in 0..(HalfRange - 1)),
           \A r \in Nat : b[r] = a[r] + Cardinality({e \in entries : e.row = r}),
           \A r \in Nat : Cardinality({e \in entries : e.row = r}) \in Nat
    PROVE  Bump(Two(a), entries) = Two(b)
<1>. DEFINE H == HalfRange  n(r) == Cardinality({e \in entries : e.row = r})
<1>1. H \in Nat \ {0}
  BY HalfRangeRight
<1>2. ASSUME NEW i \in Words
      PROVE  (Two(a)[i] + Delta(2 * i) * n(2 * i) + Delta(2 * i + 1) * n(2 * i + 1)) % (H * H) = b[2 * i] + H * b[2 * i + 1]
  <2>1. i \in Nat /\ 2 * i \in Nat /\ 2 * i + 1 \in Nat
    BY WordsRight
  <2>2. Delta(2 * i) = 1 /\ Delta(2 * i + 1) = H /\ Two(a)[i] = a[2 * i] + H * a[2 * i + 1]
    BY <2>1, WordsRight DEF Two
  <2>. DEFINE u == a[2 * i]  v == a[2 * i + 1]  x == n(2 * i)  y == n(2 * i + 1)  lo == b[2 * i]  hi == b[2 * i + 1]
  <2>3. u \in Nat /\ v \in Nat /\ x \in Nat /\ y \in Nat /\ lo = u + x /\ hi = v + y
        /\ lo \in 0..(H - 1) /\ hi \in 0..(H - 1)
    BY <2>1
  <2>. HIDE DEF u, v, x, y, lo, hi, H
  <2>4. (u + H * v) + 1 * x + H * y = lo + H * hi
    <3>1. H * hi = H * v + H * y /\ H * v \in Nat /\ H * y \in Nat
      BY <1>1, <2>3
    <3>. QED
      BY <2>3, <3>1
  <2>5. (lo + H * hi) % (H * H) = lo + H * hi
    <3>1. H * hi \in Nat /\ H * hi + H <= H * H /\ H * H \in Nat
      <4>1. hi \in Nat /\ hi < H /\ H \in Nat
        BY <1>1, <2>3
      <4>2. hi * H + H <= H * H /\ H * hi = hi * H /\ hi * H \in Nat /\ H * H \in Nat
        BY <1>1, <4>1, Groups
      <4>. QED
        BY <4>2
    <3>2. lo + H * hi \in Nat /\ lo + H * hi < H * H
      BY <1>1, <2>3, <3>1
    <3>. HIDE DEF H
    <3>. DEFINE M == H * H  z == lo + H * hi
    <3>3. M \in Nat /\ z \in Nat /\ z < M
      BY <3>1, <3>2
    <3>. HIDE DEF M, z
    <3>4. z % M = z
      BY <3>3
    <3>. QED
      BY <3>4 DEF M, z
  <2>6. Two(a)[i] + Delta(2 * i) * n(2 * i) + Delta(2 * i + 1) * n(2 * i + 1) = (u + H * v) + 1 * x + H * y
    BY <2>2 DEF u, v, x, y, H
  <2>. QED
    BY <2>4, <2>5, <2>6 DEF lo, hi, H
<1>3. Bump(Two(a), entries) = [i \in Words |-> (Two(a)[i] + Delta(2 * i) * n(2 * i) + Delta(2 * i + 1) * n(2 * i + 1)) % (H * H)]
  BY DEF Bump
<1>. HIDE DEF n, H
<1>4. Bump(Two(a), entries) = [i \in Words |-> b[2 * i] + H * b[2 * i + 1]]
  BY <1>2, <1>3
<1>. QED
  BY <1>4 DEF Two, H

-----------------------------------------------------------------------------
(***************************************************************************)
(* What a warp counts and scatters.                                        *)
(***************************************************************************)
(* The valid entries of some queries.                                      *)
LEMMA EntriesRight ==
    ASSUME Fixed, NEW h \in Heads, NEW first \in Nat, NEW last \in 0..host.numQ
    PROVE  /\ IsFiniteSet(Entries(h, first, last))
           /\ \A e \in Entries(h, first, last) :
                /\ e.q \in first..(last - 1) /\ e.q \in Queries /\ e.q \in Nat
                /\ e.slot \in 1..TopK /\ e.slot \in Valid(h, e.q)
                /\ e.row = RowAt(h, e.q, e.slot) /\ e.row \in Rows /\ e.row \in Nat
                /\ e = [q |-> e.q, slot |-> e.slot, row |-> RowAt(h, e.q, e.slot)]
           /\ \A q \in first..(last - 1) : q \in Queries /\ \A s \in Valid(h, q) :
                [q |-> q, slot |-> s, row |-> RowAt(h, q, s)] \in Entries(h, first, last)
<1>. DEFINE D == (first..(last - 1)) \X (1..TopK)
            entry(x) == [q |-> x[1], slot |-> x[2], row |-> RowAt(h, x[1], x[2])]
            E == Entries(h, first, last)
<1>1. host.numQ \in Nat /\ host.rows \in Nat /\ last \in Nat /\ last <= host.numQ /\ last - 1 \in Int
      /\ first \in Int
      /\ TopK \in Nat
  BY Sizes, Positive
<1>2. \A e : e \in E <=> e.row # -1 /\ \E x \in D : e = entry(x)
  BY DEF Entries
<1>3. ASSUME NEW e \in E
      PROVE  /\ e.q \in first..(last - 1) /\ e.q \in Queries /\ e.q \in Nat
             /\ e.slot \in 1..TopK /\ e.slot \in Valid(h, e.q)
             /\ e.row = RowAt(h, e.q, e.slot) /\ e.row \in Rows /\ e.row \in Nat
             /\ e = [q |-> e.q, slot |-> e.slot, row |-> RowAt(h, e.q, e.slot)]
  <2>1. PICK x \in D : e = entry(x)
    BY <1>2
  <2>2. e.q = x[1] /\ e.slot = x[2] /\ e.row = RowAt(h, x[1], x[2]) /\ e.row # -1
    BY <1>2, <2>1
  <2>3. x[1] \in first..(last - 1) /\ x[2] \in 1..TopK
    BY <2>1
  <2>4. e.q \in Queries /\ e.q \in Nat
    BY <1>1, <2>2, <2>3 DEF Queries
  <2>5. e.row \in Rows
    BY <2>2 DEF RowAt
  <2>6. e.row \in Nat
    BY <1>1, <2>5 DEF Rows
  <2>. HIDE DEF entry
  <2>. QED
    BY <2>1, <2>2, <2>3, <2>4, <2>5, <2>6 DEF Valid, entry
<1>4. ASSUME NEW q \in first..(last - 1)
      PROVE  q \in Queries /\ \A s \in Valid(h, q) : [q |-> q, slot |-> s, row |-> RowAt(h, q, s)] \in E
  <2>1. q \in Queries
    BY <1>1 DEF Queries
  <2>2. ASSUME NEW s \in Valid(h, q) PROVE [q |-> q, slot |-> s, row |-> RowAt(h, q, s)] \in E
    <3>1. s \in 1..TopK /\ RowAt(h, q, s) # -1
      BY DEF Valid
    <3>2. <<q, s>> \in D /\ entry(<<q, s>>) = [q |-> q, slot |-> s, row |-> RowAt(h, q, s)]
      BY <3>1
    <3>. QED
      BY <1>2, <3>1, <3>2
  <2>. QED
    BY <2>1, <2>2
<1>5. IsFiniteSet(E)
  <2>. DEFINE end == last - 1
  <2>1. IsFiniteSet(first..end) /\ IsFiniteSet(1..TopK)
    <3>1. first \in Int /\ end \in Int /\ 1 \in Int /\ TopK \in Int
      BY <1>1
    <3>. HIDE DEF end
    <3>. QED
      BY <3>1, FS_Interval
  <2>2. IsFiniteSet(D)
    BY <2>1, FS_Product
  <2>. DEFINE f == [e \in E |-> <<e.q, e.slot>>]
  <2>3. f \in [E -> D]
    <3>1. \A e \in E : <<e.q, e.slot>> \in D
      BY <1>3
    <3>. HIDE DEF E, D
    <3>. QED
      BY <3>1
  <2>4. \A x, y \in E : f[x] = f[y] => x = y
    <3>1. ASSUME NEW x \in E, NEW y \in E, f[x] = f[y] PROVE x = y
      <4>1. x.q = y.q /\ x.slot = y.slot
        BY <3>1
      <4>. QED
        BY <1>3, <4>1
    <3>. QED
      BY <3>1
  <2>. HIDE DEF f, E, D
  <2>. QED
    BY <2>2, <2>3, <2>4, Fewer
<1>. QED
  BY <1>3, <1>4, <1>5

(* The valid entries of a row among those of some queries: one for every   *)
(* query that chose the row.                                               *)
LEMMA RowsCounted ==
    ASSUME Fixed, MapRight, stage # "M", NEW h \in Heads, NEW first \in Nat, NEW last \in first..host.numQ,
           NEW m \in first..last, NEW r \in Nat
    PROVE  LET mine == {e \in Entries(h, first, last) : e.row = r /\ e.q < m} IN
           IsFiniteSet(mine) /\ Cardinality(mine) = CountIn(h, r, first, m)
<1>. DEFINE E == Entries(h, first, last)
            mine == {e \in E : e.row = r /\ e.q < m}
            T == {p \in Chose(h, r) : first <= p /\ p < m}
            f == [e \in mine |-> e.q]
<1>1. host.numQ \in Nat /\ last \in Nat /\ last \in 0..host.numQ /\ m \in Nat /\ first <= m /\ m <= last
      /\ last <= host.numQ
  BY Sizes
<1>2. \A e \in E : /\ e.q \in first..(last - 1) /\ e.q \in Queries /\ e.q \in Nat
                   /\ e.slot \in 1..TopK /\ e.slot \in Valid(h, e.q)
                   /\ e.row = RowAt(h, e.q, e.slot) /\ e.row \in Rows /\ e.row \in Nat
                   /\ e = [q |-> e.q, slot |-> e.slot, row |-> RowAt(h, e.q, e.slot)]
  BY <1>1, EntriesRight
<1>3. IsFiniteSet(T) /\ CountIn(h, r, first, m) = Cardinality(T)
  <2>1. Chose(h, r) \in SUBSET Nat /\ IsFiniteSet(Chose(h, r))
        /\ \A a, b \in Nat : a <= b =>
             /\ CountIn(h, r, a, b) = Cardinality({p \in Chose(h, r) : a <= p /\ p < b})
             /\ CountIn(h, r, a, b) \in 0..(b - a)
    BY AheadRight
  <2>2. T \in SUBSET Chose(h, r)
    OBVIOUS
  <2>3. CountIn(h, r, first, m) = Cardinality({p \in Chose(h, r) : first <= p /\ p < m})
    BY <1>1, <2>1
  <2>. QED
    BY <2>1, <2>2, <2>3, FS_Subset
<1>4. ASSUME NEW e \in mine PROVE e.q \in T
  <2>1. e \in E /\ e.row = r /\ e.q < m
    OBVIOUS
  <2>2. e.q \in Chose(h, r)
    BY <1>2, <2>1 DEF Chose
  <2>3. first <= e.q
    BY <1>1, <1>2, <2>1
  <2>. QED
    BY <2>1, <2>2, <2>3
<1>5. ASSUME NEW x \in mine, NEW y \in mine, f[x] = f[y] PROVE x = y
  <2>1. x \in E /\ y \in E /\ x.q = y.q /\ x.row = y.row
    BY <1>5
  <2>2. RowAt(h, x.q, x.slot) = RowAt(h, x.q, y.slot) /\ RowAt(h, x.q, x.slot) # -1
    BY <1>2, <2>1
  <2>3. x.slot = y.slot
    <3>1. x.q \in Queries /\ x.slot \in 1..TopK /\ y.slot \in 1..TopK
      BY <1>2, <2>1
    <3>. DEFINE q == x.q  s == x.slot  t == y.slot
    <3>. HIDE DEF q, s, t
    <3>2. q \in Queries /\ s \in 1..TopK /\ t \in 1..TopK /\ RowAt(h, q, s) = RowAt(h, q, t)
          /\ RowAt(h, q, s) # -1
      BY <2>2, <3>1 DEF q, s, t
    <3>3. s = t
      BY <3>2, ChosenOnce
    <3>. QED
      BY <3>3 DEF s, t
  <2>. QED
    BY <1>2, <2>1, <2>3
<1>6. ASSUME NEW p \in T PROVE \E e \in mine : f[e] = p
  <2>1. p \in Queries /\ p \in Nat /\ first <= p /\ p < m /\ \E s \in 1..TopK : RowAt(h, p, s) = r
    BY Sizes DEF Chose, Queries
  <2>2. PICK s \in 1..TopK : RowAt(h, p, s) = r
    BY <2>1
  <2>3. s \in Valid(h, p)
    BY <2>2 DEF Valid
  <2>4. p \in first..(last - 1)
    BY <1>1, <2>1
  <2>. DEFINE e == [q |-> p, slot |-> s, row |-> RowAt(h, p, s)]
  <2>5. e \in E
    BY <1>1, <2>3, <2>4, EntriesRight
  <2>6. e \in mine
    BY <2>1, <2>2, <2>5
  <2>7. f[e] = p
    BY <2>6
  <2>. QED
    BY <2>6, <2>7
<1>7. f \in [mine -> T]
  <2>. HIDE DEF mine, T
  <2>. QED
    BY <1>4
<1>8. IsFiniteSet(mine) /\ Cardinality(mine) = Cardinality(T)
  <2>1. (\A x, y \in mine : f[x] = f[y] => x = y) /\ \A p \in T : \E e \in mine : f[e] = p
    BY <1>5, <1>6
  <2>. HIDE DEF f, mine, T
  <2>. QED
    BY <1>3, <1>7, <2>1, SameCount
<1>. QED
  BY <1>3, <1>8

(* The counters of a warp, read as counters by row.                        *)
LEMMA PackedRight ==
    ASSUME Fixed, NEW h, NEW first \in Nat, NEW end \in Nat, first <= end
    PROVE  /\ Packed(h, first, end) = Two([r \in Nat |-> CountIn(h, r, first, end)])
           /\ Zeroed = Packed(h, first, first)
           /\ end - first < HalfRange => \A r \in Rows : Half(Packed(h, first, end), r) = CountIn(h, r, first, end)
<1>1. \A i \in Words : i \in Nat /\ 2 * i \in Nat /\ 2 * i + 1 \in Nat
  BY WordsRight
<1>2. ASSUME NEW m \in Nat PROVE Packed(h, first, m) = Two([r \in Nat |-> CountIn(h, r, first, m)])
  <2>. DEFINE a == [r \in Nat |-> CountIn(h, r, first, m)]
  <2>1. \A i \in Words : a[2 * i] = CountIn(h, 2 * i, first, m)
        /\ a[2 * i + 1] = CountIn(h, 2 * i + 1, first, m)
    BY <1>1
  <2>. HIDE DEF a
  <2>2. Two(a) = [i \in Words |-> CountIn(h, 2 * i, first, m) + HalfRange * CountIn(h, 2 * i + 1, first, m)]
    BY <2>1 DEF Two
  <2>. QED
    BY <2>2 DEF Packed, a
<1>3. Zeroed = Packed(h, first, first)
  <2>1. ASSUME NEW r PROVE CountIn(h, r, first, first) = 0
    <3>1. Ahead(h, r, first) \in Nat
      BY AheadRight
    <3>. QED
      BY <3>1 DEF CountIn
  <2>2. \A i \in Words : CountIn(h, 2 * i, first, first) + HalfRange * CountIn(h, 2 * i + 1, first, first) = 0
    BY <2>1, HalfRangeRight
  <2>. QED
    BY <2>2 DEF Zeroed, Packed
<1>4. ASSUME end - first < HalfRange, NEW r \in Rows
             PROVE Half(Packed(h, first, end), r) = CountIn(h, r, first, end)
  <2>. DEFINE a == [p \in Nat |-> CountIn(h, p, first, end)]
  <2>1. ASSUME NEW p \in Nat PROVE a[p] \in 0..(HalfRange - 1)
    <3>1. CountIn(h, p, first, end) \in 0..(end - first)
      BY AheadRight
    <3>. QED
      BY <1>4, <3>1, HalfRangeRight
  <2>2. r \in Nat
    BY WordsRight
  <2>3. Packed(h, first, end) = Two(a) /\ a[r] = CountIn(h, r, first, end)
    BY <1>2, <2>2
  <2>. HIDE DEF a
  <2>. QED
    BY <2>1, <2>3, HalfOf
<1>. QED
  BY <1>2, <1>3, <1>4

(* Counting the entries of queries first to last - 1 on top of those of    *)
(* the queries before: the counters of all of them; and the increment of   *)
(* an entry, in lane order, finds the queries before its own.              *)
LEMMA CountersRight ==
    ASSUME Fixed, MapRight, stage # "M", NEW h \in Heads,
           NEW base \in Nat, NEW first \in Nat, base <= first,
           NEW last \in first..host.numQ, last - base < HalfRange
    PROVE  /\ Bump(Packed(h, base, first), Entries(h, first, last)) = Packed(h, base, last)
           /\ \A e \in Entries(h, first, last) :
                LET earlier == {f \in Entries(h, first, last) : LaneBefore(f, e)} IN
                Half(Bump(Packed(h, base, first), earlier), e.row) = CountIn(h, e.row, base, e.q)
<1>. DEFINE E == Entries(h, first, last)  H == HalfRange
            a == [r \in Nat |-> CountIn(h, r, base, first)]
            b == [r \in Nat |-> CountIn(h, r, base, last)]
            of(G, r) == {e \in G : e.row = r}
<1>1. last \in Nat /\ last \in 0..host.numQ /\ last <= host.numQ /\ base <= last /\ first <= last
      /\ H \in Nat
  BY Sizes, HalfRangeRight
<1>2. /\ IsFiniteSet(E)
      /\ \A e \in E : /\ e.q \in first..(last - 1) /\ e.q \in Queries /\ e.q \in Nat
                      /\ e.slot \in 1..TopK /\ e.slot \in Valid(h, e.q)
                      /\ e.row = RowAt(h, e.q, e.slot) /\ e.row \in Rows /\ e.row \in Nat
                      /\ e = [q |-> e.q, slot |-> e.slot, row |-> RowAt(h, e.q, e.slot)]
  BY <1>1, EntriesRight
<1>3. ASSUME NEW r \in Nat
      PROVE  /\ a[r] \in Nat /\ b[r] \in 0..(H - 1) /\ a[r] <= b[r]
             /\ b[r] = a[r] + CountIn(h, r, first, last) /\ CountIn(h, r, first, last) \in Nat
  <2>1. CountIn(h, r, base, first) \in 0..(first - base) /\ CountIn(h, r, base, last) \in 0..(last - base)
        /\ CountIn(h, r, first, last) \in 0..(last - first)
    BY <1>1, AheadRight
  <2>2. CountIn(h, r, base, last) = CountIn(h, r, base, first) + CountIn(h, r, first, last)
    <3>1. Ahead(h, r, base) \in Nat /\ Ahead(h, r, first) \in Nat /\ Ahead(h, r, last) \in Nat
      BY <1>1, AheadRight
    <3>. QED
      BY <3>1 DEF CountIn
  <2>. HIDE DEF H
  <2>. QED
    BY <1>1, <2>1, <2>2 DEF H
<1>4. ASSUME NEW r \in Nat
      PROVE  IsFiniteSet(of(E, r)) /\ Cardinality(of(E, r)) = CountIn(h, r, first, last)
  <2>1. of(E, r) = {e \in E : e.row = r /\ e.q < last}
    <3>1. \A e \in E : e.q < last
      BY <1>1, <1>2
    <3>. QED
      BY <3>1
  <2>2. last \in first..last
    BY <1>1
  <2>3. /\ IsFiniteSet({e \in Entries(h, first, last) : e.row = r /\ e.q < last})
        /\ Cardinality({e \in Entries(h, first, last) : e.row = r /\ e.q < last}) = CountIn(h, r, first, last)
    BY <2>2, RowsCounted
  <2>. QED
    BY <2>1, <2>3
<1>5. Packed(h, base, first) = Two(a) /\ Packed(h, base, last) = Two(b)
  BY <1>1, PackedRight
<1>6. Bump(Two(a), E) = Two(b)
  <2>1. (\A r \in Nat : a[r] \in Nat /\ b[r] \in 0..(HalfRange - 1))
        /\ (\A r \in Nat : b[r] = a[r] + Cardinality({e \in E : e.row = r}))
        /\ \A r \in Nat : Cardinality({e \in E : e.row = r}) \in Nat
    BY <1>3, <1>4
  <2>. HIDE DEF a, b, E
  <2>. QED
    BY <2>1, BumpOf
<1>7. ASSUME NEW e \in E
      PROVE  Half(Bump(Two(a), {f \in E : LaneBefore(f, e)}), e.row) = CountIn(h, e.row, base, e.q)
  <2>. DEFINE earlier == {f \in E : LaneBefore(f, e)}
              c == [r \in Nat |-> a[r] + Cardinality(of(earlier, r))]
  <2>1. ASSUME NEW r \in Nat
        PROVE  Cardinality(of(earlier, r)) \in Nat /\ c[r] \in 0..(HalfRange - 1)
    <3>1. of(earlier, r) \in SUBSET of(E, r)
      OBVIOUS
    <3>2. IsFiniteSet(of(earlier, r)) /\ Cardinality(of(earlier, r)) <= Cardinality(of(E, r))
      BY <1>4, <3>1, FS_Subset
    <3>3. Cardinality(of(earlier, r)) \in Nat
      BY <3>2, FS_CardinalityType
    <3>. DEFINE n == Cardinality(of(earlier, r))
    <3>4. c[r] = a[r] + n /\ n <= CountIn(h, r, first, last) /\ n \in Nat
      BY <1>4, <3>2, <3>3
    <3>. HIDE DEF n, c, a, b
    <3>. QED
      BY <1>1, <1>3, <3>3, <3>4 DEF H, n
  <2>2. e.row \in Rows /\ e.row \in Nat /\ e.q \in Nat /\ e.q \in first..last /\ e.q \in first..(last - 1)
    BY <1>1, <1>2
  <2>3. of(earlier, e.row) = {f \in E : f.row = e.row /\ f.q < e.q}
    <3>1. ASSUME NEW f \in E, f.row = e.row PROVE LaneBefore(f, e) <=> f.q < e.q
      <4>1. e.q \in Nat /\ f.q \in Nat
        BY <1>2
      <4>2. ASSUME f.q = e.q PROVE f.slot = e.slot
        <5>. DEFINE q == e.q  s == e.slot  t == f.slot
        <5>. HIDE DEF q, s, t
        <5>1. q \in Queries /\ s \in 1..TopK /\ t \in 1..TopK /\ RowAt(h, q, s) = RowAt(h, q, t)
              /\ RowAt(h, q, s) # -1
          <6>1. e.row = RowAt(h, q, s) /\ f.row = RowAt(h, q, t) /\ e.row \in Nat
            BY <1>2, <4>2 DEF q, s, t
          <6>2. q \in Queries /\ s \in 1..TopK /\ t \in 1..TopK
            BY <1>2 DEF q, s, t
          <6>. QED
            BY <3>1, <6>1, <6>2
        <5>2. s = t
          BY <5>1, ChosenOnce
        <5>. QED
          BY <5>2 DEF s, t
      <4>3. e.slot \in Nat /\ f.slot \in Nat
        BY <1>2, Positive
      <4>. QED
        BY <4>1, <4>2, <4>3 DEF LaneBefore
    <3>. QED
      BY <3>1
  <2>4. c[e.row] = CountIn(h, e.row, base, e.q)
    <3>1. Cardinality(of(earlier, e.row)) = CountIn(h, e.row, first, e.q)
      <4>. DEFINE r == e.row  m == e.q
      <4>1. r \in Nat /\ m \in first..last
        BY <2>2
      <4>. HIDE DEF r, m
      <4>2. Cardinality({f \in Entries(h, first, last) : f.row = r /\ f.q < m}) = CountIn(h, r, first, m)
        BY <4>1, RowsCounted
      <4>. QED
        BY <2>3, <4>2 DEF r, m
    <3>. DEFINE r == e.row  m == e.q
    <3>2. r \in Nat /\ m \in Nat /\ c[r] = CountIn(h, r, base, first) + CountIn(h, r, first, m)
      BY <2>2, <3>1
    <3>. HIDE DEF r, m, c
    <3>3. Ahead(h, r, base) \in Nat /\ Ahead(h, r, first) \in Nat /\ Ahead(h, r, m) \in Nat
      BY <3>2, AheadRight
    <3>. QED
      BY <3>2, <3>3 DEF CountIn, r, m
  <2>5. Bump(Two(a), earlier) = Two(c)
    <3>1. (\A r \in Nat : a[r] \in Nat /\ c[r] \in 0..(HalfRange - 1))
          /\ (\A r \in Nat : c[r] = a[r] + Cardinality({f \in earlier : f.row = r}))
          /\ \A r \in Nat : Cardinality({f \in earlier : f.row = r}) \in Nat
      BY <1>3, <2>1
    <3>. HIDE DEF a, c, earlier
    <3>. QED
      BY <3>1, BumpOf
  <2>6. Half(Two(c), e.row) = c[e.row]
    <3>1. \A r \in Nat : c[r] \in 0..(HalfRange - 1)
      BY <2>1
    <3>. DEFINE row == e.row
    <3>2. row \in Rows
      BY <2>2
    <3>. HIDE DEF c, row
    <3>3. Half(Two(c), row) = c[row]
      BY <3>1, <3>2, HalfOf
    <3>. QED
      BY <3>3 DEF row
  <2>. HIDE DEF c, earlier
  <2>. QED
    BY <2>4, <2>5, <2>6 DEF earlier
<1>. HIDE DEF a, b
<1>. QED
  BY <1>5, <1>6, <1>7

-----------------------------------------------------------------------------
(***************************************************************************)
(* What a step leaves alone.                                               *)
(***************************************************************************)
(* Sizes and ranges depend on the call alone.                              *)
LEMMA SizesKept ==
    ASSUME UNCHANGED <<prob, host>>
    PROVE  /\ Heads' = Heads /\ Rows' = Rows /\ Queries' = Queries /\ Levels0' = Levels0
           /\ Units' = Units /\ Ctas' = Ctas /\ Words' = Words /\ Zeroed' = Zeroed
           /\ NumBlocksPT' = NumBlocksPT /\ QIdxSize' = QIdxSize /\ Busy' = Busy
           /\ \A c : CtaEnd(c)' = CtaEnd(c) /\ CtaFirst(c)' = CtaFirst(c)
           /\ \A u : First(u)' = First(u) /\ End(u)' = End(u) /\ Steps(u)' = Steps(u)
           /\ \A t : FirstRow(t)' = FirstRow(t) /\ RowsOfThread(t)' = RowsOfThread(t)
              /\ Bound(t)' = Bound(t)
           /\ \A r : ThreadOf(r)' = ThreadOf(r)
           /\ \A k : Agents(k)' = Agents(k)
           /\ \A k, a : StepsOf(k, a)' = StepsOf(k, a)
           /\ \A h, q : Picks(h, q)' = Picks(h, q)
<1>1. prob' = prob /\ host' = host
  OBVIOUS
<1>2. /\ Heads' = Heads /\ Rows' = Rows /\ Queries' = Queries /\ Levels0' = Levels0
      /\ Units' = Units /\ Ctas' = Ctas /\ Words' = Words /\ NumBlocksPT' = NumBlocksPT
      /\ QIdxSize' = QIdxSize
      /\ Busy' = Busy
  BY <1>1 DEF Heads, Rows, Queries, Levels0, Units, Ctas, Words, NumBlocksPT, QIdxSize, Busy
<1>3. Zeroed' = Zeroed
  BY <1>2 DEF Zeroed
<1>4. \A c : CtaEnd(c)' = CtaEnd(c) /\ CtaFirst(c)' = CtaFirst(c)
  BY <1>1 DEF CtaEnd, CtaFirst
<1>5. \A u : First(u)' = First(u)
  BY <1>1, <1>4 DEF First
<1>6. \A u : End(u)' = End(u)
  BY <1>1, <1>4, <1>5 DEF End
<1>7. \A u : Steps(u)' = Steps(u)
  BY <1>5, <1>6 DEF Steps
<1>8. \A t : FirstRow(t)' = FirstRow(t)
  BY <1>1 DEF FirstRow
<1>9. \A t : RowsOfThread(t)' = RowsOfThread(t) /\ Bound(t)' = Bound(t)
  BY <1>1, <1>8 DEF RowsOfThread, Bound
<1>10. \A r : ThreadOf(r)' = ThreadOf(r)
  BY <1>1 DEF ThreadOf
<1>11. \A k : Agents(k)' = Agents(k)
  BY <1>2 DEF Agents
<1>12. \A k, a : StepsOf(k, a)' = StepsOf(k, a)
  BY <1>1, <1>7, <1>9 DEF StepsOf
<1>13. \A h, q : Picks(h, q)' = Picks(h, q)
  BY <1>1 DEF Picks
<1>. QED
  BY <1>2, <1>3, <1>4, <1>5, <1>6, <1>7, <1>8, <1>9, <1>10, <1>11, <1>12, <1>13

(* Counts and places depend on the call and the row map.                   *)
LEMMA CountsKept ==
    ASSUME UNCHANGED <<prob, host, rowMap>>
    PROVE  /\ \A h, q, s : RowAt(h, q, s)' = RowAt(h, q, s)
           /\ \A h, f, l : Entries(h, f, l)' = Entries(h, f, l)
           /\ \A h, r : Chose(h, r)' = Chose(h, r)
           /\ \A h, r, q : Ahead(h, r, q)' = Ahead(h, r, q)
           /\ \A h, r, f, e : CountIn(h, r, f, e)' = CountIn(h, r, f, e)
           /\ \A h, f, e : Packed(h, f, e)' = Packed(h, f, e)
           /\ \A h : CountOfRow(h)' = CountOfRow(h)
           /\ \A h, r : Start(h, r)' = Start(h, r)
           /\ \A h, r : CtaCounts(h, r)' = CtaCounts(h, r)
           /\ \A h, t, o : Reach(h, t, o)' = Reach(h, t, o)
           /\ ChunksOf' = ChunksOf
           /\ \A h, q : Valid(h, q)' = Valid(h, q)
           /\ \A h, q, s : EdgeOf(h, q, s)' = EdgeOf(h, q, s) /\ PlaceOf(h, q, s)' = PlaceOf(h, q, s)
<1>1. prob' = prob /\ host' = host /\ rowMap' = rowMap
  OBVIOUS
<1>2. /\ Heads' = Heads /\ Rows' = Rows /\ Queries' = Queries /\ Levels0' = Levels0 /\ Ctas' = Ctas
         /\ Words' = Words
      /\ \A c : CtaEnd(c)' = CtaEnd(c) /\ CtaFirst(c)' = CtaFirst(c)
      /\ \A t : Bound(t)' = Bound(t)
      /\ \A h, q : Picks(h, q)' = Picks(h, q)
  BY SizesKept
<1>3. \A h, q, s : RowAt(h, q, s)' = RowAt(h, q, s)
  BY <1>1, <1>2 DEF RowAt
<1>4. \A h, f, l : Entries(h, f, l)' = Entries(h, f, l)
  BY <1>3 DEF Entries
<1>5. \A h, r : Chose(h, r)' = Chose(h, r)
  BY <1>2, <1>3 DEF Chose
<1>6. \A h, r, q : Ahead(h, r, q)' = Ahead(h, r, q)
  BY <1>5 DEF Ahead
<1>7. \A h, r, f, e : CountIn(h, r, f, e)' = CountIn(h, r, f, e)
  BY <1>6 DEF CountIn
<1>8. \A h, f, e : Packed(h, f, e)' = Packed(h, f, e)
  BY <1>2, <1>7 DEF Packed
<1>9. \A h : CountOfRow(h)' = CountOfRow(h)
  BY <1>1, <1>2, <1>6 DEF CountOfRow
<1>10. \A h, r : Start(h, r)' = Start(h, r)
  BY <1>9 DEF Start
<1>11. \A h, r : CtaCounts(h, r)' = CtaCounts(h, r)
  BY <1>2, <1>7 DEF CtaCounts
<1>12. \A h, t, o : Reach(h, t, o)' = Reach(h, t, o)
  BY <1>2, <1>10 DEF Reach
<1>13. ChunksOf' = ChunksOf
  BY <1>1, <1>2, <1>6 DEF ChunksOf
<1>14. \A h, q : Valid(h, q)' = Valid(h, q)
  BY <1>3 DEF Valid
<1>15. \A h, q, s : EdgeOf(h, q, s)' = EdgeOf(h, q, s) /\ PlaceOf(h, q, s)' = PlaceOf(h, q, s)
  BY <1>1, <1>3, <1>6, <1>10, <1>14 DEF EdgeOf, PlaceOf
<1>. QED
  BY <1>3, <1>4, <1>5, <1>6, <1>7, <1>8, <1>9, <1>10, <1>11, <1>12, <1>13, <1>14, <1>15

-----------------------------------------------------------------------------
(***************************************************************************)
(* The agents of a kernel and the steps they make.                         *)
(***************************************************************************)
(* The scan of a block covers all its threads.                             *)
LEMMA RoundsRight ==
    /\ ScanRounds \in Nat /\ Doubled[ScanRounds] >= ScanThreads /\ Doubled[ScanRounds] \in Nat
    /\ Emitting \in Nat /\ Emitting = 2 * ScanRounds + 1
    /\ \A n \in 1..Emitting : (n - 1) \div 2 \in Nat /\ OffsetAt(n) \in Nat \ {0}
    /\ OffsetAt(1) = 1 /\ OffsetAt(Emitting) = Doubled[ScanRounds]
<1>. DEFINE K == {k \in 0..ScanThreads : Doubled[k] >= ScanThreads}  R == ScanRounds
<1>1. ScanThreads \in Nat /\ \A k \in Nat : Doubled[k] \in Nat /\ Doubled[k] > k
  BY Positive, DoubledRight
<1>2. ScanThreads \in K /\ K \in SUBSET Nat
  BY <1>1
<1>3. ScanRounds \in K
  <2>1. ScanRounds = Smallest(K)
    BY DEF ScanRounds
  <2>. HIDE DEF K
  <2>. QED
    BY <1>2, <2>1, SmallestRight
<1>4. R \in Nat /\ Doubled[R] >= ScanThreads /\ Doubled[R] \in Nat
  BY <1>1, <1>3
<1>5. Emitting = 2 * R + 1
  BY DEF Emitting
<1>. HIDE DEF R
<1>6. ASSUME NEW n \in 1..Emitting PROVE (n - 1) \div 2 \in Nat /\ OffsetAt(n) \in Nat \ {0}
  <2>1. (n - 1) \div 2 \in Nat
    BY <1>4, <1>5
  <2>. DEFINE k == (n - 1) \div 2
  <2>. HIDE DEF k
  <2>2. Doubled[k] \in Nat /\ Doubled[k] > k /\ k \in Nat
    BY <1>1, <2>1 DEF k
  <2>3. OffsetAt(n) = Doubled[k]
    BY DEF OffsetAt, k
  <2>. QED
    BY <2>1, <2>2, <2>3
<1>7. OffsetAt(1) = 1
  <2>1. (1 - 1) \div 2 = 0
    OBVIOUS
  <2>. QED
    BY <2>1, DoubledRight DEF OffsetAt
<1>8. OffsetAt(Emitting) = Doubled[R]
  <2>1. (Emitting - 1) \div 2 = R
    BY <1>4, <1>5
  <2>. QED
    BY <2>1 DEF OffsetAt
<1>. QED
  BY <1>4, <1>5, <1>6, <1>7, <1>8 DEF R

(* The rows of the threads of PR follow one another.                       *)
LEMMA ThreadsRight ==
    ASSUME Fixed, Busy
    PROVE  /\ \A t \in Nat : Bound(t) \in 0..host.rows /\ Bound(t) <= Bound(t + 1)
                             /\ RowsOfThread(t) = Bound(t)..(Bound(t + 1) - 1)
                             /\ IsFiniteSet(RowsOfThread(t))
                                /\ Cardinality(RowsOfThread(t)) = Bound(t + 1) - Bound(t)
                             /\ \A r \in RowsOfThread(t) : r \in Rows /\ ThreadOf(r) = t
                                /\ FirstRow(t) = Bound(t)
           /\ Bound(0) = 0 /\ Bound(ScanThreads) = host.rows
           /\ \A r \in Rows : ThreadOf(r) \in 0..(ScanThreads - 1) /\ r \in RowsOfThread(ThreadOf(r))
<1>. DEFINE n == host.rows  c == CeilDiv(host.rows, ScanThreads)
<1>1. n \in Nat /\ n > 0 /\ ScanThreads \in Nat \ {0}
  BY Sizes, Positive DEF Busy
<1>2. c \in Nat \ {0} /\ n <= c * ScanThreads
  <2>. HIDE DEF n
  <2>1. CeilDiv(n, ScanThreads) \in Nat /\ n <= CeilDiv(n, ScanThreads) * ScanThreads
        /\ CeilDiv(n, ScanThreads) > 0
    BY <1>1, CeilDivRight
  <2>. QED
    BY <2>1 DEF n
<1>3. \A t : FirstRow(t) = t * c /\ Bound(t) = Smaller(FirstRow(t), n)
             /\ RowsOfThread(t) = FirstRow(t)..(Smaller(FirstRow(t + 1), n) - 1)
  BY DEF FirstRow, Bound, RowsOfThread
<1>4. \A r : ThreadOf(r) = r \div c
  BY DEF ThreadOf
<1>5. Rows = 0..(n - 1)
  BY DEF Rows
<1>. HIDE DEF n, c
<1>6. ASSUME NEW t \in Nat
      PROVE  /\ FirstRow(t) \in Nat /\ FirstRow(t + 1) = FirstRow(t) + c
             /\ Bound(t) \in 0..n /\ Bound(t) <= Bound(t + 1)
             /\ RowsOfThread(t) = Bound(t)..(Bound(t + 1) - 1)
             /\ \A r \in RowsOfThread(t) : r \in Rows /\ ThreadOf(r) = t /\ FirstRow(t) = Bound(t)
  <2>1. t * c \in Nat /\ (t + 1) * c = t * c + c
    BY <1>2
  <2>2. FirstRow(t) \in Nat /\ FirstRow(t + 1) = FirstRow(t) + c
    BY <1>3, <2>1
  <2>3. Bound(t) \in 0..n /\ Bound(t + 1) \in 0..n /\ Bound(t) <= Bound(t + 1)
    BY <1>1, <1>2, <1>3, <2>2 DEF Smaller
  <2>4. Bound(t) = FirstRow(t) \/ (Bound(t) = n /\ FirstRow(t) >= n /\ Bound(t + 1) = n)
    BY <1>1, <1>2, <1>3, <2>2 DEF Smaller
  <2>5. RowsOfThread(t) = FirstRow(t)..(Bound(t + 1) - 1)
    BY <1>3
  <2>6. RowsOfThread(t) = Bound(t)..(Bound(t + 1) - 1)
    BY <1>1, <2>2, <2>3, <2>4, <2>5
  <2>7. ASSUME NEW r \in RowsOfThread(t) PROVE r \in Rows /\ ThreadOf(r) = t /\ FirstRow(t) = Bound(t)
    <3>1. r \in Nat /\ FirstRow(t) <= r /\ r < Bound(t + 1) /\ Bound(t + 1) <= n
      BY <1>1, <2>2, <2>3, <2>5
    <3>2. Bound(t + 1) <= FirstRow(t) + c
      BY <1>1, <1>2, <1>3, <2>2 DEF Smaller
    <3>3. t * c <= r /\ r < t * c + c
      BY <1>1, <1>2, <1>3, <2>1, <2>2, <2>3, <3>1, <3>2
    <3>4. ThreadOf(r) = t
      BY <1>2, <1>4, <3>1, <3>3, QuotientOf
    <3>5. r \in Rows
      BY <1>1, <1>5, <2>3, <3>1
    <3>6. FirstRow(t) = Bound(t)
      BY <1>1, <2>2, <2>3, <2>4, <3>1
    <3>. QED
      BY <3>4, <3>5, <3>6
  <2>. QED
    BY <2>2, <2>3, <2>6, <2>7
<1>7. ASSUME NEW t \in Nat
      PROVE  IsFiniteSet(RowsOfThread(t)) /\ Cardinality(RowsOfThread(t)) = Bound(t + 1) - Bound(t)
  <2>. DEFINE a == Bound(t)  b == Bound(t + 1) - 1
  <2>1. a \in Int /\ b \in Int /\ a <= b + 1
    BY <1>1, <1>6
  <2>2. RowsOfThread(t) = a..b
    BY <1>6
  <2>3. b + 1 = Bound(t + 1)
    BY <1>1, <1>6
  <2>. HIDE DEF a, b
  <2>4. IsFiniteSet(a..b) /\ Cardinality(a..b) = IF a > b THEN 0 ELSE b - a + 1
    BY <2>1, FS_Interval
  <2>5. Cardinality(a..b) = (b + 1) - a
    BY <2>1, <2>4
  <2>. QED
    BY <2>2, <2>3, <2>4, <2>5 DEF a
<1>8. Bound(0) = 0 /\ Bound(ScanThreads) = n
  <2>1. 0 * c = 0 /\ ScanThreads * c = c * ScanThreads /\ c * ScanThreads \in Nat
    BY <1>1, <1>2
  <2>. QED
    BY <1>1, <1>2, <1>3, <2>1 DEF Smaller
<1>9. ASSUME NEW r \in Rows PROVE ThreadOf(r) \in 0..(ScanThreads - 1) /\ r \in RowsOfThread(ThreadOf(r))
  <2>. DEFINE t == r \div c
  <2>1. r \in Nat /\ r < n
    BY <1>1, <1>5
  <2>2. t \in Nat /\ r = t * c + (r % c) /\ r % c \in 0..(c - 1)
    BY <1>2, <2>1, Euclid
  <2>3. ThreadOf(r) = t
    BY <1>4
  <2>. HIDE DEF t
  <2>4. t * c \in Nat /\ t * c <= r /\ r < t * c + c
    BY <1>2, <2>1, <2>2
  <2>5. t < ScanThreads
    <3>1. ASSUME ScanThreads <= t PROVE FALSE
      <4>1. c * ScanThreads <= c * t /\ c * t = t * c /\ c * ScanThreads \in Nat
        BY <1>1, <1>2, <2>2, <3>1, Product
      <4>. QED
        BY <1>1, <1>2, <2>1, <2>4, <4>1
    <3>. QED
      BY <1>1, <2>2, <3>1
  <2>6. r \in RowsOfThread(t)
    <3>1. FirstRow(t) = t * c /\ FirstRow(t + 1) = FirstRow(t) + c
      BY <1>3, <1>6, <2>2
    <3>2. RowsOfThread(t) = FirstRow(t)..(Smaller(FirstRow(t + 1), n) - 1)
      BY <1>3
    <3>. QED
      BY <1>1, <1>2, <2>1, <2>4, <3>1, <3>2 DEF Smaller
  <2>. QED
    BY <1>1, <2>2, <2>3, <2>5, <2>6
<1>. QED
  BY <1>6, <1>7, <1>8, <1>9 DEF n

(* A unit scatters its queries in as many instructions as Steps says.      *)
LEMMA StepsRight ==
    ASSUME Fixed, NEW u \in Units
    PROVE  Steps(u) \in Nat \ {0} /\ End(u) - First(u) \in Nat /\ End(u) - First(u) <= Steps(u) * QPerIter
<1>. DEFINE d == End(u) - First(u)
<1>1. d \in Nat /\ QPerIter \in Nat \ {0}
  <2>1. First(u) \in 0..host.numQ /\ End(u) \in First(u)..host.numQ /\ host.numQ \in Nat
    BY UnitsRight, Sizes
  <2>. QED
    BY <2>1, Positive
<1>2. Steps(u) = Larger(1, CeilDiv(d, QPerIter))
  BY DEF Steps
<1>. HIDE DEF d
<1>3. CeilDiv(d, QPerIter) \in Nat /\ d <= CeilDiv(d, QPerIter) * QPerIter
  BY <1>1, CeilDivRight
<1>. DEFINE k == CeilDiv(d, QPerIter)
<1>4. k \in Nat /\ d <= k * QPerIter /\ Steps(u) = Larger(1, k)
  BY <1>2, <1>3
<1>. HIDE DEF k
<1>5. Steps(u) = k \/ (Steps(u) = 1 /\ k = 0)
  BY <1>4 DEF Larger
<1>6. Steps(u) \in Nat \ {0}
  BY <1>4 DEF Larger
<1>7. CASE Steps(u) = k
  BY <1>1, <1>4, <1>6, <1>7 DEF d
<1>8. CASE Steps(u) = 1 /\ k = 0
  BY <1>1, <1>4, <1>6, <1>8 DEF d
<1>. QED
  BY <1>5, <1>7, <1>8

(* Every agent of a kernel has a number of steps to make.                  *)
LEMMA StepsCounted ==
    ASSUME Fixed, Busy, NEW k, NEW a \in Agents(k)
    PROVE  StepsOf(k, a) \in Nat
<1>1. host.heads \in Nat
  BY Sizes
<1>2. CASE k \in {"M", "PT"}
  BY <1>2 DEF StepsOf
<1>3. CASE k = "H"
  BY <1>1, <1>3 DEF StepsOf
<1>4. CASE k = "PR"
  <2>1. a[2] \in Nat
    BY <1>4, Positive DEF Agents
  <2>2. Cardinality(RowsOfThread(a[2])) \in Nat
    <3>1. IsFiniteSet(RowsOfThread(a[2]))
      BY <2>1, ThreadsRight
    <3>. QED
      BY <3>1, FS_CardinalityType
  <2>3. StepsOf(k, a) = Emitting + Cardinality(RowsOfThread(a[2]))
    BY <1>4 DEF StepsOf
  <2>. QED
    BY <2>2, <2>3, RoundsRight
<1>5. CASE k = "S"
  <2>1. a \in Units
    BY <1>5 DEF Agents
  <2>2. Steps(a) \in Nat
    BY <2>1, StepsRight
  <2>3. StepsOf(k, a) = host.heads * Steps(a)
    BY <1>5 DEF StepsOf
  <2>. QED
    BY <1>1, <2>2, <2>3, Product
<1>6. CASE k \notin {"M", "H", "PR", "PT", "S"}
  BY <1>6 DEF Agents
<1>. QED
  BY <1>2, <1>3, <1>4, <1>5, <1>6

-----------------------------------------------------------------------------
(***************************************************************************)
(* Steps of a kernel.                                                      *)
(***************************************************************************)
(* A step of agent a of the running kernel that has steps to make.         *)
Moves(a) ==
    /\ a \in DOMAIN at /\ Did(a) /\ at[a] < StepsOf(stage, a)
    /\ UNCHANGED <<prob, host, wanted, stage>>

(* The counter of the agent moves on.                                      *)
LEMMA MovesRight ==
    ASSUME Fixed, Progress, NEW a, Moves(a)
    PROVE  /\ a \in Agents(stage) /\ Agents(stage)' = Agents(stage)
           /\ at = [b \in Agents(stage) |-> at[b]] /\ at[a] \in Nat
           /\ at' = [b \in Agents(stage) |-> IF b = a THEN at[a] + 1 ELSE at[b]]
           /\ \A b \in Agents(stage) : at[b] \in Nat
           /\ Fixed' /\ Progress' /\ stage # "done" /\ Busy
<1>1. prob' = prob /\ host' = host /\ wanted' = wanted /\ stage' = stage
  BY DEF Moves
<1>2. at = [b \in Agents(stage) |-> at[b]] /\ a \in Agents(stage)
  BY DEF Moves, Progress
<1>3. \A b \in Agents(stage) : StepsOf(stage, b) \in Nat /\ at[b] \in 0..StepsOf(stage, b)
  <2>1. stage # "done" /\ Busy
    BY <1>2 DEF Agents, Progress
  <2>. QED
    BY <2>1, StepsCounted DEF Progress
<1>4. \A b \in Agents(stage) : at[b] \in Nat
  BY <1>3
<1>5. at' = [b \in Agents(stage) |-> IF b = a THEN at[a] + 1 ELSE at[b]]
  BY <1>2 DEF Moves, Did
<1>6. stage # "done" /\ Busy
  <2>1. stage # "done"
    BY <1>2 DEF Agents
  <2>. QED
    BY <2>1 DEF Progress
<1>7. Fixed'
  <2>1. Heads' = Heads
    BY <1>1, SizesKept
  <2>2. Definition(prob)' = Definition(prob)
    BY <1>1, <2>1 DEF Definition
  <2>3. SafeProblem(prob)' /\ HostSizes(prob)' = host'
    BY <1>1 DEF Fixed
  <2>. QED
    BY <1>1, <2>2, <2>3 DEF Fixed
<1>8. /\ \A k : Agents(k)' = Agents(k)
      /\ \A k, b : StepsOf(k, b)' = StepsOf(k, b)
      /\ Busy' = Busy
  BY <1>1, SizesKept
<1>9. Agents(stage)' = Agents(stage)
  BY <1>1, <1>8 DEF Agents
<1>10. ASSUME NEW b \in Agents(stage) PROVE at'[b] \in 0..StepsOf(stage, b)
  <2>1. at[a] < StepsOf(stage, a)
    BY DEF Moves
  <2>. QED
    BY <1>2, <1>3, <1>5, <2>1
<1>11. ASSUME NEW b \in Agents(stage) PROVE StepsOf(stage, b)' = StepsOf(stage, b)
  BY <1>1, <1>8 DEF StepsOf
<1>12. Progress'
  <2>1. stage' \in {"M", "H", "PR", "PT", "S", "done"} /\ (stage' # "done" => Busy')
    BY <1>1, <1>8 DEF Progress
  <2>2. at' = [b \in Agents(stage)' |-> at'[b]]
    BY <1>5, <1>9
  <2>3. \A b \in Agents(stage)' : at'[b] \in 0..StepsOf(stage, b)'
    BY <1>9, <1>10, <1>11
  <2>. QED
    BY <2>1, <2>2, <2>3 DEF Progress
<1>. QED
  BY <1>2, <1>4, <1>5, <1>6, <1>7, <1>9, <1>12

(* What a step of a kernel does not touch stays right.                     *)
LEMMA Kept ==
    ASSUME CsrIInv, NEW a, Moves(a), stage # "M" => UNCHANGED <<rowMap, rowCoords>>
    PROVE  /\ Fixed' /\ Progress'
           /\ stage # "M" => MapRight'
           /\ stage # "H" /\ UNCHANGED <<rowCounts, tileCounts>> => HistRight'
           /\ stage # "PR" => ScanRight'
           /\ stage # "PR" /\ UNCHANGED rowPtr => PtrRight'
           /\ stage # "PR" /\ UNCHANGED <<items, workCount>>
              /\ (stage # "H" => UNCHANGED rowCounts) => ItemsRight'
           /\ stage # "PT" /\ (stage = "S" => UNCHANGED tileCounts) => PlacesRight'
           /\ stage # "S" /\ UNCHANGED <<edges, splitCounts>> => EdgesRight' /\ SplitsRight'
           /\ stage # "S" => CursorsRight'
<1>1. /\ Fixed /\ Progress /\ MapRight /\ HistRight /\ ScanRight /\ PtrRight /\ ItemsRight /\ PlacesRight
      /\ EdgesRight /\ SplitsRight /\ CursorsRight
  BY DEF CsrIInv
<1>2. /\ prob' = prob /\ host' = host /\ wanted' = wanted /\ stage' = stage
      /\ stage \in {"M", "H", "PR", "PT", "S", "done"}
  BY <1>1 DEF Moves, Progress
<1>3. /\ Heads' = Heads /\ Rows' = Rows /\ Queries' = Queries /\ Levels0' = Levels0 /\ Units' = Units
      /\ Busy' = Busy /\ QIdxSize' = QIdxSize
      /\ \A u : First(u)' = First(u) /\ End(u)' = End(u)
  BY <1>2, SizesKept
<1>4. Fixed' /\ Progress' /\ stage # "done"
  BY <1>1, MovesRight
<1>5. ASSUME stage # "M" PROVE MapRight'
  <2>1. rowMap' = rowMap /\ rowCoords' = rowCoords
    BY <1>5
  <2>2. \A l : Mapped(l)' => Mapped(l)
    BY <1>2, <1>3, <1>5 DEF Mapped
  <2>3. /\ rowMap' = [b \in SeqsOf(prob'.cuK) |-> [l \in Levels0' |-> rowMap'[b][l]]]
        /\ rowCoords' = [r \in Rows' |-> rowCoords'[r]]
    BY <1>1, <1>2, <1>3, <2>1 DEF MapRight
  <2>4. ASSUME NEW l \in Levels0', Mapped(l)', NEW b \in SeqsOf(prob'.cuK)
        PROVE  IF HasLevel(prob'.cuK, b, l)
               THEN rowMap'[b][l] = RowOf(prob'.cuK, b, l) /\ rowCoords'[RowOf(prob'.cuK, b, l)] = <<b, l>>
               ELSE rowMap'[b][l] = -1
    <3>1. l \in Levels0 /\ Mapped(l) /\ b \in SeqsOf(prob.cuK)
      BY <1>2, <1>3, <2>2, <2>4
    <3>. QED
      BY <1>1, <1>2, <2>1, <3>1 DEF MapRight
  <2>. QED
    BY <2>3, <2>4 DEF MapRight
<1>6. ASSUME stage \notin {"M"} PROVE rowMap' = rowMap /\ rowCoords' = rowCoords
  BY <1>6
<1>7. ASSUME stage # "H", rowCounts' = rowCounts, tileCounts' = tileCounts PROVE HistRight'
  <2>1. Grid(rowCounts)' /\ \A f : Grid(f)' = Grid(f)
    BY <1>1, <1>3, <1>7 DEF HistRight, Grid
  <2>2. CASE stage = "M"
    <3>1. \A h \in Heads', r \in Rows' : rowCounts'[h][r] = 0
      BY <1>1, <1>3, <1>7, <2>2 DEF HistRight
    <3>. QED
      BY <1>2, <2>1, <2>2, <3>1 DEF HistRight
  <2>3. CASE stage # "M"
    <3>1. /\ \A h : CountOfRow(h)' = CountOfRow(h)
          /\ \A h, r, f, e : CountIn(h, r, f, e)' = CountIn(h, r, f, e)
      BY <1>2, <1>6, <2>3, CountsKept
    <3>2. rowCounts' = [h \in Heads' |-> CountOfRow(h)']
      BY <1>1, <1>3, <1>7, <2>3, <3>1 DEF HistRight
    <3>3. stage' \in {"H", "PR", "PT", "S"} => TileGrid'
      <4>1. \A k : Grid(tileCounts[k])' = Grid(tileCounts[k])
        BY <1>3, <1>7 DEF Grid
      <4>. QED
        BY <1>1, <1>2, <1>7, <4>1 DEF HistRight, TileGrid
    <3>4. \A u, h, r : TileRight(u, h, r)' = TileRight(u, h, r)
      BY <1>3, <1>7, <3>1 DEF TileRight, UnitIndex
    <3>5. stage' = "PR" => \A u \in Units', h \in Heads', r \in Rows' : TileRight(u, h, r)'
      BY <1>1, <1>2, <1>3, <3>4 DEF HistRight
    <3>. QED
      BY <1>2, <1>7, <2>1, <2>3, <3>2, <3>3, <3>5 DEF HistRight
  <2>. QED
    BY <2>2, <2>3
<1>8. ASSUME stage # "PR" PROVE ScanRight'
  BY <1>2, <1>8 DEF ScanRight
<1>9. ASSUME stage # "PR" PROVE \A h, r : Emitted(h, r)' = Emitted(h, r)
  BY <1>2, <1>9 DEF Emitted
<1>10. ASSUME stage # "PR", rowPtr' = rowPtr PROVE PtrRight'
  <2>1. rowPtr' = [h \in Heads' |-> [i \in 0..host'.rows |-> rowPtr'[h][i]]]
    BY <1>1, <1>2, <1>3, <1>10 DEF PtrRight
  <2>2. \A h \in Heads : rowPtr'[h][0] = 0
    BY <1>1, <1>10 DEF PtrRight
  <2>3. ASSUME NEW h \in Heads, NEW r \in Rows, Emitted(h, r)' PROVE rowPtr'[h][r + 1] = Start(h, r + 1)'
    <3>1. Emitted(h, r) /\ stage # "M"
      BY <1>2, <1>9, <1>10, <2>3 DEF Emitted
    <3>2. Start(h, r + 1)' = Start(h, r + 1)
      BY <1>2, <1>6, <3>1, CountsKept
    <3>. QED
      BY <1>1, <1>10, <3>1, <3>2 DEF PtrRight
  <2>. QED
    BY <1>3, <2>1, <2>2, <2>3 DEF PtrRight
<1>11. ASSUME stage # "PR", items' = items, workCount' = workCount, stage # "H" => rowCounts' = rowCounts
              PROVE ItemsRight'
  <2>1. items' = [k \in 0..(host'.capacity - 1) |-> items'[k]]
    BY <1>1, <1>2, <1>11 DEF ItemsRight
  <2>2. RowsEmitted' = RowsEmitted
    BY <1>3, <1>9, <1>11 DEF RowsEmitted
  <2>3. CASE stage \in {"M", "H"}
    <3>1. RowsEmitted = {} /\ RowsEmitted' = {}
      BY <2>2, <2>3 DEF RowsEmitted, Emitted
    <3>2. \A f : Total(f, {}) = 0
      BY TotalZero, FS_EmptySet
    <3>3. workCount' = 0
      BY <1>1, <1>11, <3>1, <3>2 DEF ItemsRight
    <3>4. workCount' = Total(ChunksOf', RowsEmitted') /\ 0..(workCount' - 1) = {}
      BY <3>1, <3>2, <3>3
    <3>. QED
      BY <2>1, <3>1, <3>4 DEF ItemsRight
  <2>4. CASE stage \notin {"M", "H"}
    <3>1. ChunksOf' = ChunksOf /\ rowCounts' = rowCounts /\ rowCoords' = rowCoords
      BY <1>2, <1>6, <1>11, <2>4, CountsKept
    <3>2. \A h, r, c : ChunkItem(h, r, c)' = ChunkItem(h, r, c)
      BY <3>1 DEF ChunkItem
    <3>. QED
      BY <1>1, <1>11, <2>1, <2>2, <3>1, <3>2, ZenonT(30) DEF ItemsRight
  <2>. QED
    BY <2>3, <2>4
<1>12. ASSUME stage # "PT", stage = "S" => tileCounts' = tileCounts PROVE PlacesRight'
  <2>1. CASE stage # "S"
    BY <1>2, <1>12, <2>1 DEF PlacesRight
  <2>2. CASE stage = "S"
    <3>1. \A h, r : Start(h, r)' = Start(h, r) /\ \A q : Ahead(h, r, q)' = Ahead(h, r, q)
      BY <1>2, <1>6, <2>2, CountsKept
    <3>2. \A h, r : Placed(h, r) /\ Placed(h, r)'
      BY <1>2, <2>2 DEF Placed
    <3>3. \A u \in Units, h \in Heads, r \in Rows :
             tileCounts'[UnitIndex(u)][h][r] = Start(h, r)' + Ahead(h, r, First(u))'
      <4>1. \A u : \A h, r : Ahead(h, r, First(u))' = Ahead(h, r, First(u))
        BY <1>3, <3>1 DEF Ahead
      <4>. QED
        BY <1>1, <1>12, <2>2, <3>1, <3>2, <4>1 DEF PlacesRight
    <3>. QED
      BY <1>3, <3>2, <3>3 DEF PlacesRight, UnitIndex
  <2>. QED
    BY <2>1, <2>2
<1>13. ASSUME stage # "S", edges' = edges, splitCounts' = splitCounts PROVE EdgesRight' /\ SplitsRight'
  <2>1. \A h, q : ~ Scattered(h, q) /\ ~ Scattered(h, q)'
    BY <1>2, <1>4, <1>13 DEF Scattered
  <2>2. /\ edges' = [h \in Heads' |-> [i \in 0..(QIdxSize' - 1) |-> edges'[h][i]]]
        /\ splitCounts' = [q \in Queries' |-> [h \in Heads' |-> splitCounts'[q][h]]]
    BY <1>1, <1>3, <1>13 DEF EdgesRight, SplitsRight
  <2>3. \A h \in Heads', i \in 0..(QIdxSize' - 1) : edges'[h][i] = NoEdge
    BY <1>1, <1>3, <1>13, <2>1 DEF EdgesRight
  <2>. QED
    BY <2>1, <2>2, <2>3 DEF EdgesRight, SplitsRight, NoEdge
<1>14. ASSUME stage # "S" PROVE CursorsRight'
  BY <1>2, <1>14 DEF CursorsRight
<1>. QED
  BY <1>4, <1>5, <1>7, <1>8, <1>10, <1>11, <1>12, <1>13, <1>14

(* The row map: a thread of M writes the rows of its level and no other.   *)
LEMMA MapStep ==
    ASSUME CsrIInv, NEW a \in DOMAIN at, MapLevel(a)
    PROVE  CsrIInv'
<1>. DEFINE l == a[1]  cu == prob.cuK  S == SeqsOf(prob.cuK)
            at_level == {b \in S : HasLevel(cu, b, l)}
<1>1. Fixed /\ Progress /\ MapRight /\ stage = "M" /\ PrefixSums(cu)
  BY DEF CsrIInv, MapLevel, Fixed, SafeProblem
<1>2. a \in Levels0 \X {0} /\ l \in Levels0 /\ a = <<l, 0>> /\ l \in Nat
  <2>1. a \in Agents(stage)
    BY <1>1 DEF Progress
  <2>2. a \in Levels0 \X {0}
    BY <1>1, <2>1 DEF Agents
  <2>. QED
    BY <1>1, <2>2, Sizes DEF Levels0
<1>3. Moves(a)
  BY <1>1 DEF Moves, MapLevel, StepsOf
<1>4. /\ Agents(stage)' = Agents(stage) /\ Busy
      /\ at' = [b \in Agents(stage) |-> IF b = a THEN at[a] + 1 ELSE at[b]]
  BY <1>1, <1>3, MovesRight
<1>5. prob' = prob /\ host' = host /\ stage' = stage
  BY DEF MapLevel
<1>6. Levels0' = Levels0 /\ Rows' = Rows /\ Busy' = Busy
  BY <1>5, SizesKept
<1>7. rowMap = [b \in S |-> [k \in Levels0 |-> rowMap[b][k]]]
  BY <1>1 DEF MapRight
<1>8. /\ rowMap' = [b \in S |-> [rowMap[b] EXCEPT ![l] = IF b \in at_level THEN RowOf(cu, b, l) ELSE -1]]
      /\ rowCoords' = [r \in Rows |->
                         IF \E b \in at_level : RowOf(cu, b, l) = r
                         THEN <<CHOOSE b \in at_level : RowOf(cu, b, l) = r, l>>
                         ELSE rowCoords[r]]
  BY DEF MapLevel
<1>9. ASSUME NEW b \in S, NEW k \in Levels0
      PROVE  rowMap'[b][k] = IF k = l THEN (IF HasLevel(cu, b, l) THEN RowOf(cu, b, l) ELSE -1) ELSE rowMap[b][k]
  <2>1. rowMap[b] = [m \in Levels0 |-> rowMap[b][m]]
    BY <1>7
  <2>2. rowMap'[b] = [rowMap[b] EXCEPT ![l] = IF b \in at_level THEN RowOf(cu, b, l) ELSE -1]
    BY <1>8
  <2>3. b \in at_level <=> HasLevel(cu, b, l)
    OBVIOUS
  <2>. HIDE DEF at_level
  <2>. QED
    BY <2>1, <2>2, <2>3
<1>10. rowMap' = [b \in S |-> [k \in Levels0 |-> rowMap'[b][k]]]
  <2>1. \A b \in S : rowMap[b] = [m \in Levels0 |-> rowMap[b][m]]
    BY <1>7
  <2>2. \A b \in S : rowMap'[b] = [k \in Levels0 |-> rowMap'[b][k]]
    BY <1>8, <2>1
  <2>. QED
    BY <1>8, <2>2
<1>11. rowCoords' = [r \in Rows |-> rowCoords'[r]]
  BY <1>8
<1>12. ASSUME NEW b \in S, NEW k \in Levels0, HasLevel(cu, b, k), NEW c \in S, HasLevel(cu, c, l),
              RowOf(cu, c, l) = RowOf(cu, b, k)
       PROVE  c = b /\ k = l
  <2>1. k \in Nat
    BY <1>1, Sizes DEF Levels0
  <2>2. <<b, k>> \in Blocks(cu) /\ <<c, l>> \in Blocks(cu)
    BY <1>1, <1>2, <1>12, <2>1, BlocksRight
  <2>3. RowOf(cu, <<b, k>>[1], <<b, k>>[2]) = RowOf(cu, <<c, l>>[1], <<c, l>>[2])
    BY <1>12
  <2>4. <<b, k>> = <<c, l>>
    BY <1>1, <2>2, <2>3, RowsNumbered
  <2>. QED
    BY <2>4
<1>13. ASSUME NEW b \in S, NEW k \in Levels0, HasLevel(cu, b, k), k = l \/ rowCoords[RowOf(cu, b, k)] = <<b, k>>
       PROVE  rowCoords'[RowOf(cu, b, k)] = <<b, k>>
  <2>1. k \in Nat
    BY <1>1, Sizes DEF Levels0
  <2>2. RowOf(cu, b, k) \in Rows
    BY <1>1, <1>13, <2>1, LevelsFit
  <2>. DEFINE r == RowOf(cu, b, k)
  <2>3. rowCoords'[r] = IF \E c \in at_level : RowOf(cu, c, l) = r
                        THEN <<CHOOSE c \in at_level : RowOf(cu, c, l) = r, l>> ELSE rowCoords[r]
    BY <1>8, <2>2
  <2>4. \A c \in at_level : RowOf(cu, c, l) = r => c = b /\ k = l
    BY <1>12, <1>13
  <2>5. CASE k = l
    <3>1. b \in at_level /\ RowOf(cu, b, l) = r
      BY <1>13, <2>5
    <3>2. (CHOOSE c \in at_level : RowOf(cu, c, l) = r) = b
      BY <2>4, <3>1
    <3>. QED
      BY <2>3, <2>5, <3>1, <3>2
  <2>6. CASE k # l
    <3>1. ~ \E c \in at_level : RowOf(cu, c, l) = r
      BY <2>4, <2>6
    <3>. QED
      BY <1>13, <2>3, <2>6, <3>1
  <2>. QED
    BY <2>5, <2>6
<1>14. ASSUME NEW k \in Levels0, Mapped(k)', NEW b \in S
       PROVE  IF HasLevel(cu, b, k)
              THEN rowMap'[b][k] = RowOf(cu, b, k) /\ rowCoords'[RowOf(cu, b, k)] = <<b, k>>
              ELSE rowMap'[b][k] = -1
  <2>1. CASE k = l
    BY <1>9, <1>13, <2>1
  <2>2. CASE k # l
    <3>1. at'[<<k, 0>>] = 1
      BY <1>1, <1>5, <1>14 DEF Mapped
    <3>2. <<k, 0>> \in Agents(stage) /\ <<k, 0>> # a
      BY <1>1, <1>2, <2>2 DEF Agents
    <3>3. Mapped(k)
      BY <1>4, <3>1, <3>2 DEF Mapped
    <3>4. IF HasLevel(cu, b, k)
          THEN rowMap[b][k] = RowOf(cu, b, k) /\ rowCoords[RowOf(cu, b, k)] = <<b, k>>
          ELSE rowMap[b][k] = -1
      BY <1>1, <3>3 DEF MapRight
    <3>. QED
      BY <1>9, <1>13, <2>2, <3>4
  <2>. QED
    BY <2>1, <2>2
<1>15. MapRight'
  <2>. HIDE DEF at_level
  <2>. QED
    BY <1>5, <1>6, <1>10, <1>11, <1>14 DEF MapRight
<1>16. /\ Fixed' /\ Progress' /\ HistRight' /\ ScanRight' /\ PtrRight' /\ ItemsRight' /\ PlacesRight'
       /\ EdgesRight' /\ SplitsRight' /\ CursorsRight'
  <2>1. UNCHANGED <<rowCounts, tileCounts, rowPtr, items, workCount, edges, splitCounts>>
    BY DEF MapLevel, UnchangedPR, UnchangedS
  <2>. QED
    BY <1>1, <1>3, <2>1, Kept
<1>. QED
  BY <1>15, <1>16 DEF CsrIInv

-----------------------------------------------------------------------------
(***************************************************************************)
(* The histograms.                                                         *)
(***************************************************************************)
(* A step of H keeps the warps of a CTA within one step of one another.    *)
LEMMA HistMoves ==
    ASSUME CsrIInv, NEW a \in DOMAIN at, NEW n \in 0..3, HistStep(a, n)
    PROVE  /\ Moves(a) /\ stage = "H" /\ stage' = "H" /\ a \in Units
           /\ HeadOf(a) \in Heads /\ HeadOf(a) \in Nat /\ at[a] = 4 * HeadOf(a) + n
           /\ at = [u \in Units |-> at[u]]
           /\ at' = [u \in Units |-> IF u = a THEN at[a] + 1 ELSE at[u]]
           /\ (\A u \in Units : at[u] \in Nat)
           /\ Abreast' /\ (\A u \in Units : u[1] = a[1] => at[u] \in {at[a], at[a] + 1})
           /\ UNCHANGED <<prob, host, rowMap, rowCoords, rowPtr, items, workCount, edges, splitCounts>>
<1>1. Fixed /\ Progress /\ HistRight /\ stage = "H" /\ stage' = stage
  BY DEF CsrIInv, HistStep
<1>2. host.heads \in Nat /\ Units' = Units
  <2>1. prob' = prob /\ host' = host
    BY DEF HistStep
  <2>. QED
    BY <1>1, <2>1, Sizes, SizesKept
<1>3. Moves(a)
  BY <1>1 DEF Moves, HistStep, StepsOf
<1>4. /\ a \in Agents(stage) /\ at[a] \in Nat /\ at = [b \in Agents(stage) |-> at[b]]
      /\ at' = [b \in Agents(stage) |-> IF b = a THEN at[a] + 1 ELSE at[b]]
      /\ \A b \in Agents(stage) : at[b] \in Nat
  BY <1>1, <1>3, MovesRight
<1>5. Agents(stage) = Units
  BY <1>1 DEF Agents
<1>6. HeadOf(a) \in Heads /\ HeadOf(a) \in Nat /\ at[a] = 4 * HeadOf(a) + n
  <2>1. at[a] < 4 * host.heads /\ at[a] % 4 = n
    BY DEF HistStep
  <2>2. at[a] = (at[a] \div 4) * 4 + (at[a] % 4) /\ at[a] \div 4 \in Nat
    BY <1>4, Euclid
  <2>. QED
    BY <1>2, <2>1, <2>2 DEF HeadOf, Heads
<1>7. Abreast /\ Sync(a)
  BY <1>1 DEF HistRight, HistStep
<1>8. ASSUME NEW u \in Units, u[1] = a[1] PROVE at[u] \in {at[a], at[a] + 1}
  <2>1. at[u] >= at[a]
    BY <1>4, <1>5, <1>7, <1>8 DEF Sync
  <2>2. at[u] <= at[a] + 1
    BY <1>4, <1>5, <1>7, <1>8 DEF Abreast
  <2>. QED
    BY <1>4, <1>5, <2>1, <2>2
<1>9. Abreast'
  <2>1. ASSUME NEW u \in Units, NEW v \in Units, u[1] = v[1] PROVE at'[u] <= at'[v] + 1
    <3>1. at[u] <= at[v] + 1 /\ at[u] \in Nat /\ at[v] \in Nat /\ at[a] \in Nat
      BY <1>4, <1>5, <1>7, <2>1 DEF Abreast
    <3>2. at'[u] = (IF u = a THEN at[a] + 1 ELSE at[u]) /\ at'[v] = IF v = a THEN at[a] + 1 ELSE at[v]
      BY <1>4, <1>5
    <3>3. CASE u = a
      <4>1. at[v] \in {at[a], at[a] + 1}
        BY <1>8, <2>1, <3>3
      <4>. QED
        BY <3>1, <3>2, <3>3, <4>1
    <3>4. CASE u # a
      BY <3>1, <3>2, <3>4
    <3>. QED
      BY <3>3, <3>4
  <2>. QED
    BY <1>2, <2>1 DEF Abreast
<1>10. UNCHANGED <<prob, host, rowMap, rowCoords, rowPtr, items, workCount, edges, splitCounts>>
  BY DEF HistStep, UnchangedM, UnchangedPR, UnchangedS
<1>. QED
  BY <1>1, <1>3, <1>4, <1>5, <1>6, <1>8, <1>9, <1>10

(* A step of H changes nothing but the histograms.                         *)
LEMMA HistOthers ==
    ASSUME CsrIInv, NEW a \in DOMAIN at, NEW n \in 0..3, HistStep(a, n), HistRight'
    PROVE  CsrIInv'
<1>1. Moves(a) /\ stage = "H"
      /\ UNCHANGED <<prob, host, rowMap, rowCoords, rowPtr, items, workCount, edges, splitCounts>>
  BY HistMoves
<1>. QED
  BY <1>1, Kept DEF CsrIInv

(* The counters and tiles that a step of H leaves alone.                   *)
LEMMA HistKept ==
    ASSUME CsrIInv, NEW a \in DOMAIN at, NEW n \in 0..3, HistStep(a, n)
    PROVE  /\ \A u \in Units : u # a => Counters(u)' = Counters(u)
           /\ \A u : Counted(u)' = Counted(u)
           /\ \A h, r, u : CountIn(h, r, First(u), End(u))' = CountIn(h, r, First(u), End(u))
           /\ \A u : First(u)' = First(u) /\ End(u)' = End(u)
           /\ Heads' = Heads /\ Rows' = Rows /\ Units' = Units /\ Ctas' = Ctas /\ Zeroed' = Zeroed
           /\ \A h, r : CtaCounts(h, r)' = CtaCounts(h, r)
           /\ \A f : Grid(f)' = Grid(f)
           /\ HeadOf(a)' = (at[a] + 1) \div 4 /\ at'[a] = at[a] + 1
<1>1. /\ at = [u \in Units |-> at[u]] /\ a \in Units
      /\ at' = [u \in Units |-> IF u = a THEN at[a] + 1 ELSE at[u]]
      /\ prob' = prob /\ host' = host /\ rowMap' = rowMap
  BY HistMoves
<1>2. /\ \A u : First(u)' = First(u) /\ End(u)' = End(u)
      /\ Heads' = Heads /\ Rows' = Rows /\ Units' = Units /\ Ctas' = Ctas /\ Zeroed' = Zeroed
  BY <1>1, SizesKept
<1>3. (\A h, r : CtaCounts(h, r)' = CtaCounts(h, r)) /\ \A h, r, q : Ahead(h, r, q)' = Ahead(h, r, q)
  BY <1>1, CountsKept
<1>7. ASSUME NEW u, NEW h, NEW r PROVE CountIn(h, r, First(u), End(u))' = CountIn(h, r, First(u), End(u))
  <2>1. First(u)' = First(u) /\ End(u)' = End(u)
    BY <1>2
  <2>2. Ahead(h, r, First(u))' = Ahead(h, r, First(u)) /\ Ahead(h, r, End(u))' = Ahead(h, r, End(u))
    BY <1>3, <2>1 DEF Ahead
  <2>. QED
    BY <2>2 DEF CountIn
<1>8. ASSUME NEW u PROVE Counted(u)' = Counted(u)
  <2>1. Words' = Words
    BY <1>1, SizesKept
  <2>2. \A h : Packed(h, First(u), End(u))' = Packed(h, First(u), End(u))
    BY <1>7, <2>1 DEF Packed
  <2>. QED
    BY <1>2, <2>2 DEF Counted
<1>4. ASSUME NEW u \in Units, u # a PROVE Counters(u)' = Counters(u)
  <2>1. at'[u] = at[u]
    BY <1>1, <1>4
  <2>2. HeadOf(u)' = HeadOf(u)
    BY <2>1 DEF HeadOf
  <2>. QED
    BY <1>2, <1>8, <2>1, <2>2 DEF Counters
<1>5. \A f : Grid(f)' = Grid(f)
  BY <1>2 DEF Grid
<1>6. HeadOf(a)' = (at[a] + 1) \div 4 /\ at'[a] = at[a] + 1
  BY <1>1 DEF HeadOf
<1>. QED
  BY <1>2, <1>3, <1>4, <1>5, <1>6, <1>7, <1>8

(* What of the histograms a step of H leaves alone stays right.            *)
LEMMA HistSame ==
    ASSUME CsrIInv, NEW a \in DOMAIN at, NEW n \in 0..3, HistStep(a, n)
    PROVE  /\ tileCounts' = tileCounts => TileGrid'
           /\ n # 2 /\ tileCounts' = tileCounts => TilesCounted'
           /\ rowCounts' = rowCounts => Grid(rowCounts)'
           /\ n # 3 /\ rowCounts' = rowCounts => HeadsSummed'
           /\ n \in {2, 3} /\ smem' = smem => smem' = [u \in Units |-> Counters(u)']
<1>1. /\ stage = "H" /\ a \in Units /\ HeadOf(a) \in Heads /\ HeadOf(a) \in Nat /\ at[a] = 4 * HeadOf(a) + n
      /\ at = [u \in Units |-> at[u]] /\ at' = [u \in Units |-> IF u = a THEN at[a] + 1 ELSE at[u]]
      /\ (\A u \in Units : at[u] \in Nat) /\ prob' = prob /\ host' = host
  BY HistMoves
<1>2. /\ (\A u \in Units : u # a => Counters(u)' = Counters(u))
      /\ (\A u : Counted(u)' = Counted(u))
      /\ (\A h, r, u : CountIn(h, r, First(u), End(u))' = CountIn(h, r, First(u), End(u)))
      /\ Heads' = Heads /\ Rows' = Rows /\ Units' = Units /\ Ctas' = Ctas
      /\ (\A h, r : CtaCounts(h, r)' = CtaCounts(h, r))
      /\ at'[a] = at[a] + 1
  BY HistKept
<1>3. Fixed /\ HistRight /\ \A h \in Heads : h \in Nat
  <2>1. Fixed /\ HistRight
    BY DEF CsrIInv
  <2>. QED
    BY <2>1, Sizes DEF Heads
<1>4. ASSUME tileCounts' = tileCounts PROVE TileGrid'
  <2>1. \A k : Grid(tileCounts[k])' = Grid(tileCounts[k])
    BY <1>2, <1>4 DEF Grid
  <2>. QED
    BY <1>1, <1>3, <1>4, <2>1 DEF HistRight, TileGrid
<1>5. ASSUME n # 2, tileCounts' = tileCounts PROVE TilesCounted'
  <2>1. ASSUME NEW u \in Units, NEW h \in Heads, at'[u] >= 4 * h + 3 PROVE at[u] >= 4 * h + 3
    <3>1. h \in Nat /\ at[u] \in Nat /\ at'[u] = IF u = a THEN at[a] + 1 ELSE at[u]
      BY <1>1, <1>3
    <3>. QED
      BY <1>1, <1>5, <2>1, <3>1
  <2>2. \A u, h, r : TileRight(u, h, r)' = TileRight(u, h, r)
    BY <1>2, <1>5 DEF TileRight, UnitIndex
  <2>. QED
    BY <1>1, <1>2, <1>3, <2>1, <2>2 DEF HistRight, TilesCounted
<1>6. ASSUME rowCounts' = rowCounts PROVE Grid(rowCounts)'
  BY <1>2, <1>3, <1>6 DEF HistRight, Grid
<1>7. ASSUME n # 3, rowCounts' = rowCounts PROVE HeadsSummed'
  <2>1. ASSUME NEW u \in Units, NEW h \in Heads PROVE at'[u] >= 4 * h + 4 <=> at[u] >= 4 * h + 4
    <3>1. h \in Nat /\ at[u] \in Nat /\ at'[u] = IF u = a THEN at[a] + 1 ELSE at[u]
      BY <1>1, <1>3
    <3>. QED
      BY <1>1, <1>7, <3>1
  <2>2. ASSUME NEW h \in Heads, NEW r \in Rows PROVE Summed(h, r)' = Summed(h, r)
    <3>1. r % Warps \in 0..(Warps - 1)
      <4>1. r \in Nat
        BY <1>3, WordsRight
      <4>. QED
        BY <4>1, Positive, Euclid
    <3>2. \A c \in Ctas : <<c, r % Warps>> \in Units
      BY <3>1 DEF Units, Ctas
    <3>3. \A c \in Ctas : at'[<<c, r % Warps>>] >= 4 * h + 4 <=> at[<<c, r % Warps>>] >= 4 * h + 4
      BY <2>1, <3>2
    <3>. QED
      BY <1>2, <3>3 DEF Summed
  <2>. QED
    BY <1>1, <1>2, <1>3, <1>7, <2>2 DEF HistRight, HeadsSummed
<1>8. ASSUME n \in {2, 3}, smem' = smem PROVE smem' = [u \in Units |-> Counters(u)']
  <2>1. smem = [u \in Units |-> Counters(u)]
    BY <1>1, <1>3 DEF HistRight
  <2>. DEFINE h == HeadOf(a)
  <2>2. Counters(a) = Counted(a)[h]
    <3>1. at[a] % 4 = n
      BY DEF HistStep
    <3>. QED
      BY <1>8, <3>1 DEF Counters
  <2>3. Counters(a)' = Counted(a)[h]
    <3>1. CASE n = 2
      <4>1. at'[a] = 4 * h + 3
        BY <1>1, <1>2, <3>1
      <4>. HIDE DEF h
      <4>2. at'[a] % 4 = 3 /\ at'[a] \div 4 = h
        BY <1>1, <4>1 DEF h
      <4>3. HeadOf(a)' = h
        BY <4>2 DEF HeadOf
      <4>. QED
        BY <1>2, <4>2, <4>3 DEF Counters
    <3>2. CASE n = 3
      <4>1. at'[a] = 4 * h + 4
        BY <1>1, <1>2, <3>2
      <4>. HIDE DEF h
      <4>2. at'[a] % 4 = 0 /\ at'[a] \div 4 = h + 1 /\ at'[a] > 0 /\ (h + 1) - 1 = h
        BY <1>1, <4>1 DEF h
      <4>3. HeadOf(a)' = h + 1
        BY <4>2 DEF HeadOf
      <4>. QED
        BY <1>2, <4>2, <4>3 DEF Counters
    <3>. QED
      BY <1>8, <3>1, <3>2
  <2>4. \A u \in Units : Counters(u)' = Counters(u)
    BY <1>2, <2>2, <2>3
  <2>. QED
    BY <1>8, <2>1, <2>4
<1>. QED
  BY <1>4, <1>5, <1>6, <1>7, <1>8

(* A warp clears its counters.                                             *)
LEMMA ZeroStep ==
    ASSUME CsrIInv, NEW a \in DOMAIN at, HistZero(a)
    PROVE  CsrIInv'
<1>1. HistStep(a, 0) /\ smem' = [smem EXCEPT ![a] = Zeroed] /\ rowCounts' = rowCounts
      /\ tileCounts' = tileCounts
  BY DEF HistZero
<1>2. /\ stage = "H" /\ stage' = "H" /\ a \in Units /\ HeadOf(a) \in Nat /\ at[a] = 4 * HeadOf(a) + 0
         /\ Abreast'
      /\ prob' = prob /\ host' = host
  BY <1>1, HistMoves
<1>3. /\ (\A u \in Units : u # a => Counters(u)' = Counters(u)) /\ Units' = Units /\ Zeroed' = Zeroed
      /\ at'[a] = at[a] + 1
  BY <1>1, HistKept
<1>4. smem = [u \in Units |-> Counters(u)]
  BY <1>2 DEF CsrIInv, HistRight
<1>5. Counters(a)' = Zeroed
  <2>. DEFINE h == HeadOf(a)
  <2>1. at'[a] = 4 * h + 1
    BY <1>2, <1>3
  <2>. HIDE DEF h
  <2>2. at'[a] % 4 = 1
    BY <1>2, <2>1 DEF h
  <2>. QED
    BY <1>3, <2>2 DEF Counters
<1>6. smem' = [u \in Units |-> Counters(u)']
  BY <1>1, <1>3, <1>4, <1>5
<1>7. TileGrid' /\ TilesCounted' /\ Grid(rowCounts)' /\ HeadsSummed'
  <2>1. 0 \in 0..3 /\ 0 # 2 /\ 0 # 3
    OBVIOUS
  <2>. QED
    BY <1>1, <2>1, HistSame, Zenon
<1>8. HistRight'
  BY <1>2, <1>3, <1>6, <1>7 DEF HistRight
<1>. QED
  BY <1>1, <1>8, HistOthers

(* A warp counts the entries of its queries.                               *)
LEMMA CountStep ==
    ASSUME CsrIInv, NEW a \in DOMAIN at, HistCount(a)
    PROVE  CsrIInv'
<1>. DEFINE h == HeadOf(a)
<1>1. /\ HistStep(a, 1) /\ rowCounts' = rowCounts /\ tileCounts' = tileCounts
      /\ smem' = [smem EXCEPT ![a] = Bump(@, Entries(h, First(a), End(a)))]
  BY DEF HistCount
<1>2. /\ stage = "H" /\ stage' = "H" /\ a \in Units /\ h \in Nat /\ h \in Heads /\ at[a] = 4 * h + 1
         /\ Abreast'
      /\ prob' = prob /\ host' = host
  BY <1>1, HistMoves
<1>3. /\ (\A u \in Units : u # a => Counters(u)' = Counters(u)) /\ Units' = Units
      /\ (\A u : Counted(u)' = Counted(u))
      /\ at'[a] = at[a] + 1
  BY <1>1, HistKept
<1>4. smem = [u \in Units |-> Counters(u)] /\ Fixed /\ MapRight
  BY <1>2 DEF CsrIInv, HistRight
<1>5. Bump(smem[a], Entries(h, First(a), End(a))) = Counted(a)[h]
  <2>1. at[a] % 4 = 1
    BY <1>1 DEF HistStep
  <2>2. smem[a] = Zeroed
    BY <1>2, <1>4, <2>1 DEF Counters
  <2>. DEFINE f == First(a)  e == End(a)
  <2>3. f \in Nat /\ e \in Nat /\ f <= e /\ e \in f..host.numQ /\ e - f < HalfRange
    <3>1. First(a) \in 0..host.numQ /\ End(a) \in First(a)..host.numQ /\ End(a) <= First(a) + host.perWarp
          /\ host.perWarp < HalfRange /\ host.perWarp \in Nat /\ HalfRange \in Nat /\ host.numQ \in Nat
      BY <1>2, <1>4, UnitsRight, Sizes, HalfRangeRight
    <3>. HIDE DEF h
    <3>. QED
      BY <3>1
  <2>4. Counted(a)[h] = Packed(h, f, e)
    BY <1>2 DEF Counted
  <2>. HIDE DEF f, e, h
  <2>5. Zeroed = Packed(h, f, f)
    BY <1>4, <2>3, PackedRight
  <2>6. f <= f
    BY <2>3
  <2>7. Bump(Packed(h, f, f), Entries(h, f, e)) = Packed(h, f, e)
    BY <1>2, <1>4, <2>3, <2>6, CountersRight
  <2>. QED
    BY <2>2, <2>4, <2>5, <2>7 DEF f, e
<1>6. Counters(a)' = Counted(a)[h]
  <2>1. at'[a] = 4 * h + 2
    BY <1>2, <1>3
  <2>. HIDE DEF h
  <2>2. at'[a] % 4 = 2 /\ at'[a] \div 4 = h
    BY <1>2, <2>1
  <2>3. HeadOf(a)' = h
    BY <2>2 DEF HeadOf
  <2>. QED
    BY <1>3, <2>2, <2>3 DEF Counters
<1>7. smem' = [u \in Units |-> Counters(u)']
  <2>. HIDE DEF h
  <2>. QED
    BY <1>1, <1>3, <1>4, <1>5, <1>6
<1>8. TileGrid' /\ TilesCounted' /\ Grid(rowCounts)' /\ HeadsSummed'
  <2>1. 1 \in 0..3 /\ 1 # 2 /\ 1 # 3
    OBVIOUS
  <2>. QED
    BY <1>1, <2>1, HistSame, Zenon
<1>9. HistRight'
  BY <1>2, <1>3, <1>7, <1>8 DEF HistRight
<1>. QED
  BY <1>1, <1>9, HistOthers

(* A warp writes its counters to its tile.                                 *)
LEMMA TileStep ==
    ASSUME CsrIInv, NEW a \in DOMAIN at, HistTile(a)
    PROVE  CsrIInv'
<1>. DEFINE h == HeadOf(a)  T == 0..(host.ctas * Warps - 1)  tile == [r \in Rows |-> Half(smem[a], r)]
<1>1. /\ HistStep(a, 2) /\ rowCounts' = rowCounts /\ smem' = smem
      /\ tileCounts' = [tileCounts EXCEPT ![UnitIndex(a)][h] = tile]
  BY DEF HistTile
<1>2. /\ stage = "H" /\ stage' = "H" /\ a \in Units /\ h \in Nat /\ h \in Heads /\ at[a] = 4 * h + 2
         /\ Abreast'
      /\ prob' = prob /\ host' = host
      /\ at' = [u \in Units |-> IF u = a THEN at[a] + 1 ELSE at[u]] /\ (\A u \in Units : at[u] \in Nat)
  BY <1>1, HistMoves
<1>3. /\ Units' = Units /\ Heads' = Heads /\ Rows' = Rows
      /\ (\A g, r, u : CountIn(g, r, First(u), End(u))' = CountIn(g, r, First(u), End(u)))
  BY <1>1, HistKept
<1>4. smem = [u \in Units |-> Counters(u)] /\ Fixed /\ MapRight /\ TileGrid /\ TilesCounted
  BY <1>2 DEF CsrIInv, HistRight
<1>5. ASSUME NEW r \in Rows PROVE tile[r] = CountIn(h, r, First(a), End(a))
  <2>1. at[a] % 4 = 2
    BY <1>1 DEF HistStep
  <2>2. smem[a] = Packed(h, First(a), End(a))
    BY <1>2, <1>4, <2>1 DEF Counters, Counted
  <2>. DEFINE f == First(a)  e == End(a)
  <2>3. f \in Nat /\ e \in Nat /\ f <= e /\ e - f < HalfRange
    <3>1. First(a) \in 0..host.numQ /\ End(a) \in First(a)..host.numQ /\ End(a) <= First(a) + host.perWarp
          /\ host.perWarp < HalfRange /\ host.perWarp \in Nat /\ HalfRange \in Nat /\ host.numQ \in Nat
      BY <1>2, <1>4, UnitsRight, Sizes, HalfRangeRight
    <3>. HIDE DEF h
    <3>. QED
      BY <3>1
  <2>. HIDE DEF f, e, h
  <2>4. Half(Packed(h, f, e), r) = CountIn(h, r, f, e)
    BY <1>4, <2>3, PackedRight
  <2>. QED
    BY <2>2, <2>4 DEF f, e
<1>6. /\ \A u \in Units : UnitIndex(u) \in T
      /\ \A u, v \in Units : UnitIndex(u) = UnitIndex(v) => u = v
  <2>1. \A u \in Units : UnitIndex(u) \in T /\ UnitOf(UnitIndex(u)) = u
    BY <1>4, TilesRight
  <2>. HIDE DEF T
  <2>. QED
    BY <2>1
<1>7. tileCounts = [k \in T |-> tileCounts[k]]
      /\ \A k \in T : tileCounts[k] = [g \in Heads |-> [r \in Rows |-> tileCounts[k][g][r]]]
  BY <1>4 DEF TileGrid, Grid
<1>13. tile = [r \in Rows |-> tile[r]]
  OBVIOUS
<1>. HIDE DEF T, h, tile
<1>8. ASSUME NEW k \in T, NEW g \in Heads
      PROVE  tileCounts'[k][g] = IF k = UnitIndex(a) /\ g = h THEN tile ELSE tileCounts[k][g]
  BY <1>1, <1>2, <1>6, <1>7
<1>9. TileGrid'
  <2>1. tileCounts' = [k \in T |-> tileCounts'[k]]
    BY <1>1, <1>7
  <2>2. ASSUME NEW k \in T PROVE tileCounts'[k] = [g \in Heads |-> [r \in Rows |-> tileCounts'[k][g][r]]]
    <3>1. tileCounts'[k] = [g \in Heads |-> tileCounts'[k][g]]
      BY <1>1, <1>7
    <3>2. \A g \in Heads : tileCounts'[k][g] = [r \in Rows |-> tileCounts'[k][g][r]]
      BY <1>7, <1>8, <1>13
    <3>. QED
      BY <3>1, <3>2
  <2>3. \A k \in T : Grid(tileCounts[k])'
    BY <1>3, <2>2 DEF Grid
  <2>. QED
    BY <1>2, <2>1, <2>3 DEF TileGrid, T
<1>10. TilesCounted'
  <2>1. ASSUME NEW u \in Units, NEW g \in Heads, at'[u] >= 4 * g + 3, NEW r \in Rows
        PROVE  tileCounts'[UnitIndex(u)][g][r] = CountIn(g, r, First(u), End(u))
    <3>1. CASE u = a /\ g = h
      BY <1>5, <1>6, <1>8, <3>1
    <3>2. CASE ~ (u = a /\ g = h)
      <4>1. tileCounts'[UnitIndex(u)][g] = tileCounts[UnitIndex(u)][g]
        BY <1>2, <1>6, <1>8, <3>2
      <4>2. at[u] >= 4 * g + 3
        <5>1. g \in Nat /\ at[u] \in Nat /\ h \in Nat /\ at'[u] = IF u = a THEN at[a] + 1 ELSE at[u]
          BY <1>2, <1>4, Sizes DEF Heads
        <5>. QED
          BY <1>2, <2>1, <3>2, <5>1
      <4>. QED
        BY <1>4, <4>1, <4>2 DEF TilesCounted, TileRight
    <3>. QED
      BY <3>1, <3>2
  <2>2. ASSUME NEW u \in Units, NEW g \in Heads, at'[u] >= 4 * g + 3, NEW r \in Rows
               PROVE TileRight(u, g, r)'
    BY <1>3, <2>1, <2>2 DEF TileRight, UnitIndex
  <2>. QED
    BY <1>3, <2>2 DEF TilesCounted
<1>11. Grid(rowCounts)' /\ HeadsSummed' /\ smem' = [u \in Units |-> Counters(u)']
  BY <1>1, HistSame
<1>12. HistRight'
  BY <1>2, <1>3, <1>9, <1>10, <1>11 DEF HistRight
<1>. QED
  BY <1>1, <1>12, HistOthers

(* The counters of the warps of a CTA add up to what its queries chose.    *)
LEMMA WarpsSummed ==
    ASSUME Fixed, NEW h, NEW r, NEW c \in Ctas, NEW f,
           \A w \in 0..(Warps - 1) : f[w] = CountIn(h, r, First(<<c, w>>), End(<<c, w>>))
    PROVE  Total(f, 0..(Warps - 1)) = CountIn(h, r, CtaFirst(c), CtaEnd(c))
<1>. DEFINE n == Warps  g == [w \in 0..n |-> Ahead(h, r, WarpEdge(c, w))]
<1>1. n \in Nat /\ n > 0
  BY Positive
<1>2. /\ \A w \in 0..n : WarpEdge(c, w) \in Nat
      /\ WarpEdge(c, 0) = CtaFirst(c) /\ WarpEdge(c, n) = CtaEnd(c)
  <2>1. \A w \in 0..Warps : WarpEdge(c, w) \in CtaFirst(c)..CtaEnd(c)
    BY UnitsRight
  <2>2. c \in Nat
    BY Sizes DEF Ctas
  <2>3. CtaFirst(c) \in 0..host.numQ /\ CtaFirst(c + 1) \in 0..host.numQ /\ CtaEnd(c) = CtaFirst(c + 1)
    BY <2>2, CtasRight
  <2>4. WarpEdge(c, 0) = CtaFirst(c) /\ WarpEdge(c, Warps) = CtaEnd(c)
    BY UnitsRight
  <2>. QED
    BY <2>1, <2>3, <2>4
<1>3. \A w \in 0..n : g[w] = Ahead(h, r, WarpEdge(c, w)) /\ g[w] \in Int
  <2>1. \A q \in Nat : Ahead(h, r, q) \in Nat
    BY AheadRight
  <2>. QED
    BY <1>2, <2>1
<1>4. ASSUME NEW w \in 0..(n - 1) PROVE f[w] = g[w + 1] - g[w]
  <2>1. <<c, w>> \in Units
    BY DEF Units, Ctas
  <2>2. First(<<c, w>>) = WarpEdge(c, w) /\ End(<<c, w>>) = WarpEdge(c, w + 1)
    BY <2>1, UnitsRight
  <2>3. w \in 0..n /\ w + 1 \in 0..n
    BY <1>1
  <2>. HIDE DEF g
  <2>. QED
    BY <1>3, <2>2, <2>3 DEF CountIn
<1>5. g[n] = Ahead(h, r, CtaEnd(c)) /\ g[0] = Ahead(h, r, CtaFirst(c))
  <2>1. n \in 0..n /\ 0 \in 0..n
    BY <1>1
  <2>. QED
    BY <1>2, <1>3, <2>1
<1>. HIDE DEF g
<1>6. Total(f, 0..(n - 1)) = g[n] - g[0]
  BY <1>1, <1>3, <1>4, Telescope
<1>. QED
  BY <1>5, <1>6 DEF CountIn

(* A warp adds the counters of its CTA to row_counts, for its rows.        *)
LEMMA SumStep ==
    ASSUME CsrIInv, NEW a \in DOMAIN at, HistSum(a)
    PROVE  CsrIInv'
<1>. DEFINE h == HeadOf(a)  c == a[1]
            sum(r) == Total([w \in 0..(Warps - 1) |-> Half(smem[<<a[1], w>>], r)], 0..(Warps - 1))
            mine == {r \in Rows : r % Warps = a[2]}
<1>1. /\ HistStep(a, 3) /\ tileCounts' = tileCounts /\ smem' = smem
      /\ rowCounts' = [rowCounts EXCEPT ![h] = [r \in Rows |-> IF r \in mine THEN @[r] + sum(r) ELSE @[r]]]
  BY DEF HistSum
<1>2. /\ stage = "H" /\ stage' = "H" /\ a \in Units /\ h \in Nat /\ h \in Heads /\ at[a] = 4 * h + 3
         /\ Abreast'
      /\ prob' = prob /\ host' = host
      /\ at' = [u \in Units |-> IF u = a THEN at[a] + 1 ELSE at[u]] /\ (\A u \in Units : at[u] \in Nat)
      /\ \A u \in Units : u[1] = a[1] => at[u] \in {at[a], at[a] + 1}
  BY <1>1, HistMoves
<1>3. /\ Units' = Units /\ Heads' = Heads /\ Rows' = Rows /\ Ctas' = Ctas
      /\ (\A g, r : CtaCounts(g, r)' = CtaCounts(g, r))
  BY <1>1, HistKept
<1>4. smem = [u \in Units |-> Counters(u)] /\ Fixed /\ MapRight /\ Grid(rowCounts) /\ HeadsSummed
  BY <1>2 DEF CsrIInv, HistRight
<1>5. c \in Ctas /\ a[2] \in 0..(Warps - 1) /\ a = <<c, a[2]>> /\ \A g \in Heads : g \in Nat
  <2>1. \A g \in Heads : g \in Nat
    BY <1>4, Sizes DEF Heads
  <2>. QED
    BY <1>2, <1>4, <2>1, UnitsRight
<1>6. ASSUME NEW r \in Rows PROVE sum(r) = CtaCounts(h, r)[c]
  <2>. DEFINE f == [w \in 0..(Warps - 1) |-> Half(smem[<<a[1], w>>], r)]
  <2>1. ASSUME NEW w \in 0..(Warps - 1) PROVE f[w] = CountIn(h, r, First(<<c, w>>), End(<<c, w>>))
    <3>. DEFINE u == <<c, w>>
    <3>1. u \in Units /\ u[1] = a[1]
      BY <1>5 DEF Units, Ctas
    <3>2. at[u] = 4 * h + 3 \/ at[u] = 4 * h + 4
      BY <1>2, <3>1
    <3>3. smem[u] = Packed(h, First(u), End(u))
      <4>1. smem[u] = Counters(u)
        BY <1>4, <3>1
      <4>2. CASE at[u] = 4 * h + 3
        <5>. HIDE DEF h, u
        <5>1. at[u] % 4 = 3 /\ at[u] \div 4 = h
          BY <1>2, <4>2
        <5>. QED
          BY <1>2, <4>1, <5>1 DEF Counters, Counted, HeadOf
      <4>3. CASE at[u] = 4 * h + 4
        <5>. HIDE DEF h, u
        <5>1. at[u] % 4 = 0 /\ at[u] > 0 /\ at[u] \div 4 = h + 1 /\ (h + 1) - 1 = h
          BY <1>2, <4>3
        <5>. QED
          BY <1>2, <4>1, <5>1 DEF Counters, Counted, HeadOf
      <4>. QED
        BY <3>2, <4>2, <4>3
    <3>. DEFINE s == First(u)  e == End(u)
    <3>4. s \in Nat /\ e \in Nat /\ s <= e /\ e - s < HalfRange
      <4>1. First(u) \in 0..host.numQ /\ End(u) \in First(u)..host.numQ /\ End(u) <= First(u) + host.perWarp
            /\ host.perWarp < HalfRange /\ host.perWarp \in Nat /\ HalfRange \in Nat /\ host.numQ \in Nat
        BY <1>4, <3>1, UnitsRight, Sizes, HalfRangeRight
      <4>. HIDE DEF h, u
      <4>. QED
        BY <4>1
    <3>5. f[w] = Half(smem[u], r)
      OBVIOUS
    <3>. HIDE DEF s, e, h, f
    <3>6. Half(Packed(h, s, e), r) = CountIn(h, r, s, e)
      BY <1>4, <3>4, PackedRight
    <3>. QED
      BY <3>3, <3>5, <3>6 DEF s, e
  <2>2. sum(r) = Total(f, 0..(Warps - 1))
    OBVIOUS
  <2>. HIDE DEF f, sum, h, c
  <2>3. Total(f, 0..(Warps - 1)) = CountIn(h, r, CtaFirst(c), CtaEnd(c))
    BY <1>4, <1>5, <2>1, WarpsSummed
  <2>. QED
    BY <1>5, <2>2, <2>3 DEF CtaCounts
<1>7. rowCounts = [g \in Heads |-> [r \in Rows |-> rowCounts[g][r]]]
  BY <1>4 DEF Grid
<1>. HIDE DEF h, c, sum, mine
<1>8. ASSUME NEW g \in Heads
      PROVE  rowCounts'[g] = IF g = h THEN [r \in Rows |-> IF r \in mine THEN rowCounts[h][r] + sum(r) ELSE rowCounts[h][r]]
                             ELSE rowCounts[g]
  BY <1>1, <1>2, <1>7
<1>9. Grid(rowCounts)'
  <2>1. rowCounts' = [g \in Heads |-> rowCounts'[g]]
    BY <1>1, <1>7
  <2>2. \A g \in Heads : rowCounts'[g] = [r \in Rows |-> rowCounts'[g][r]]
    BY <1>7, <1>8
  <2>3. rowCounts' = [g \in Heads |-> [r \in Rows |-> rowCounts'[g][r]]]
    BY <2>1, <2>2
  <2>. QED
    BY <1>3, <2>3 DEF Grid
<1>10. ASSUME NEW g \in Heads, NEW r \in Rows PROVE rowCounts'[g][r] = Total(CtaCounts(g, r), Summed(g, r)')
  <2>1. r % Warps \in 0..(Warps - 1) /\ r \in Nat
    <3>1. r \in Nat
      BY <1>4, WordsRight
    <3>. QED
      BY <3>1, Positive, Euclid
  <2>2. \A d \in Ctas : <<d, r % Warps>> \in Units
    BY <2>1 DEF Units, Ctas
  <2>3. Summed(g, r)' = {d \in Ctas : at'[<<d, r % Warps>>] >= 4 * g + 4}
    BY <1>3 DEF Summed
  <2>4. Summed(g, r) = {d \in Ctas : at[<<d, r % Warps>>] >= 4 * g + 4}
    BY DEF Summed
  <2>5. rowCounts[g][r] = Total(CtaCounts(g, r), Summed(g, r))
    BY <1>4 DEF HeadsSummed
  <2>6. CASE g = h /\ r \in mine
    <3>1. r % Warps = a[2] /\ a = <<c, r % Warps>>
      BY <1>5, <2>6 DEF mine
    <3>2. at'[a] >= 4 * g + 4 /\ ~ (at[a] >= 4 * g + 4)
      BY <1>2, <2>6
    <3>3. \A d \in Ctas : d # c => at'[<<d, r % Warps>>] = at[<<d, r % Warps>>]
      BY <1>2, <2>2, <3>1
    <3>4. Summed(g, r)' = Summed(g, r) \cup {c} /\ c \notin Summed(g, r)
      BY <1>5, <2>3, <2>4, <3>1, <3>2, <3>3
    <3>5. IsFiniteSet(Summed(g, r))
      <4>. DEFINE e == host.ctas - 1
      <4>1. e \in Int /\ 0 \in Int
        BY <1>4, Sizes
      <4>2. Ctas = 0..e
        BY DEF Ctas
      <4>. HIDE DEF e
      <4>3. IsFiniteSet(Ctas)
        BY <4>1, <4>2, FS_Interval
      <4>4. Summed(g, r) \in SUBSET Ctas
        BY DEF Summed
      <4>. QED
        BY <4>3, <4>4, FS_Subset
    <3>6. \A d \in Ctas : CtaCounts(g, r)[d] \in Int
      <4>1. ASSUME NEW d \in Ctas PROVE CtaCounts(g, r)[d] \in Int
        <5>1. d \in Nat
          BY <1>4, Sizes DEF Ctas
        <5>2. CtaFirst(d) \in 0..host.numQ /\ CtaFirst(d + 1) \in 0..host.numQ
              /\ CtaEnd(d) = CtaFirst(d + 1)
          BY <1>4, <5>1, CtasRight
        <5>3. CtaFirst(d) \in Nat /\ CtaEnd(d) \in Nat
          BY <5>2
        <5>4. Ahead(g, r, CtaFirst(d)) \in Nat /\ Ahead(g, r, CtaEnd(d)) \in Nat
          BY <1>4, <5>3, AheadRight
        <5>. QED
          BY <5>4 DEF CtaCounts, CountIn
      <4>. QED
        BY <4>1
    <3>. DEFINE F == CtaCounts(g, r)  S == Summed(g, r)
    <3>7. IsFiniteSet(S) /\ (\A x \in S : F[x] \in Int) /\ c \notin S /\ F[c] \in Int
      BY <1>5, <3>4, <3>5, <3>6 DEF Summed
    <3>. HIDE DEF F, S
    <3>8. Total(F, S \cup {c}) = Total(F, S) + F[c]
      BY <3>7, TotalAdd
    <3>9. rowCounts'[g][r] = rowCounts[g][r] + sum(r)
      BY <1>8, <2>6
    <3>. QED
      BY <1>6, <2>5, <2>6, <3>4, <3>8, <3>9 DEF F, S
  <2>7. CASE ~ (g = h /\ r \in mine)
    <3>1. rowCounts'[g][r] = rowCounts[g][r]
      BY <1>8, <2>7
    <3>2. ASSUME NEW d \in Ctas PROVE at'[<<d, r % Warps>>] >= 4 * g + 4 <=> at[<<d, r % Warps>>] >= 4 * g + 4
      <4>. DEFINE u == <<d, r % Warps>>
      <4>1. CASE u = a
        <5>1. g # h
          BY <2>7, <4>1 DEF mine
        <5>2. g \in Nat /\ h \in Nat /\ at[a] = 4 * h + 3 /\ at'[a] = 4 * h + 4
          BY <1>2, <1>5
        <5>. QED
          BY <4>1, <5>1, <5>2
      <4>2. CASE u # a
        BY <1>2, <2>2, <4>2
      <4>. QED
        BY <4>1, <4>2
    <3>3. Summed(g, r)' = Summed(g, r)
      BY <2>3, <2>4, <3>2
    <3>. QED
      BY <2>5, <3>1, <3>3
  <2>. QED
    BY <2>6, <2>7
<1>11. HeadsSummed'
  BY <1>3, <1>10 DEF HeadsSummed
<1>12. TileGrid' /\ TilesCounted' /\ smem' = [u \in Units |-> Counters(u)']
  <2>1. 3 \in 0..3 /\ 3 # 2 /\ 3 \in {2, 3}
    OBVIOUS
  <2>. QED
    BY <1>1, <2>1, HistSame, Zenon
<1>13. HistRight'
  BY <1>2, <1>3, <1>9, <1>11, <1>12 DEF HistRight
<1>. QED
  BY <1>1, <1>13, HistOthers

-----------------------------------------------------------------------------
(***************************************************************************)
(* From one kernel to the next.                                            *)
(***************************************************************************)
(* The next kernel starts with agents that have made no step.              *)
LEMMA LaunchRight ==
    ASSUME CsrIInv, LaunchNext
    PROVE  /\ stage \in {"M", "H", "PR", "PT", "S"} /\ stage' = NextKernel[stage] /\ Busy
           /\ \A a \in Agents(stage) : at[a] = StepsOf(stage, a)
           /\ Agents(stage)' = Agents(NextKernel[stage])
           /\ at' = [a \in Agents(NextKernel[stage]) |-> 0]
           /\ UNCHANGED <<prob, host, wanted, rowMap, rowCoords, rowCounts, rowPtr, items, workCount, edges, splitCounts>>
           /\ Fixed' /\ Progress' /\ MapRight'
<1>1. /\ Fixed /\ Progress /\ MapRight
      /\ UNCHANGED <<prob, host, wanted, rowMap, rowCoords, rowCounts, rowPtr, items, workCount, edges, splitCounts>>
  BY DEF CsrIInv, LaunchNext, UnchangedM, UnchangedS
<1>2. /\ stage \in {"M", "H", "PR", "PT", "S"} /\ stage' = NextKernel[stage] /\ Busy
      /\ at = [a \in Agents(stage) |-> at[a]] /\ at' = [a \in Agents(NextKernel[stage]) |-> 0]
  BY <1>1 DEF LaunchNext, Progress
<1>3. \A a \in Agents(stage) : at[a] = StepsOf(stage, a)
  BY <1>2 DEF LaunchNext
<1>4. stage' \in {"H", "PR", "PT", "S", "done"}
  BY <1>2 DEF NextKernel
<1>5. /\ \A k : Agents(k)' = Agents(k)
      /\ \A k, a : StepsOf(k, a)' = StepsOf(k, a)
      /\ Busy' = Busy /\ Levels0' = Levels0 /\ Rows' = Rows /\ Heads' = Heads
  BY <1>1, SizesKept
<1>6. Agents(stage)' = Agents(NextKernel[stage])
  <2>1. Agents(stage)' = Agents(stage')
    BY <1>5 DEF Agents
  <2>. QED
    BY <1>2, <2>1
<1>7. Fixed'
  <2>1. Definition(prob)' = Definition(prob)
    BY <1>1, <1>5 DEF Definition
  <2>2. SafeProblem(prob)' /\ HostSizes(prob)' = host'
    BY <1>1 DEF Fixed
  <2>. QED
    BY <1>1, <2>1, <2>2 DEF Fixed
<1>8. Progress'
  <2>1. \A a \in Agents(NextKernel[stage]) : StepsOf(NextKernel[stage], a) \in Nat
    BY <1>1, <1>2, StepsCounted
  <2>2. ASSUME NEW a PROVE StepsOf(stage, a)' = StepsOf(NextKernel[stage], a)
    <3>1. StepsOf(stage, a)' = StepsOf(stage', a)
      <4>1. Steps(a)' = Steps(a) /\ RowsOfThread(a[2])' = RowsOfThread(a[2]) /\ host' = host
        BY <1>1, SizesKept
      <4>. QED
        BY <4>1 DEF StepsOf
    <3>. QED
      BY <1>2, <3>1
  <2>3. at' = [a \in Agents(stage)' |-> at'[a]]
    BY <1>2, <1>6
  <2>4. \A a \in Agents(stage)' : at'[a] \in 0..StepsOf(stage, a)'
    BY <1>2, <1>6, <2>1, <2>2
  <2>. QED
    BY <1>2, <1>4, <1>5, <2>3, <2>4 DEF Progress
<1>9. MapRight'
  <2>1. \A l \in Levels0 : Mapped(l)
    <3>1. ASSUME NEW l \in Levels0, stage = "M" PROVE at[<<l, 0>>] = 1
      <4>1. <<l, 0>> \in Agents(stage)
        BY <3>1 DEF Agents
      <4>. QED
        BY <1>3, <3>1, <4>1 DEF StepsOf
    <3>. QED
      BY <1>2, <3>1 DEF Mapped
  <2>2. /\ rowMap' = [b \in SeqsOf(prob'.cuK) |-> [l \in Levels0' |-> rowMap'[b][l]]]
        /\ rowCoords' = [r \in Rows' |-> rowCoords'[r]]
    BY <1>1, <1>5 DEF MapRight
  <2>3. ASSUME NEW l \in Levels0', NEW b \in SeqsOf(prob'.cuK)
        PROVE  IF HasLevel(prob'.cuK, b, l)
               THEN rowMap'[b][l] = RowOf(prob'.cuK, b, l) /\ rowCoords'[RowOf(prob'.cuK, b, l)] = <<b, l>>
               ELSE rowMap'[b][l] = -1
    <3>1. l \in Levels0 /\ Mapped(l) /\ b \in SeqsOf(prob.cuK)
      BY <1>1, <1>5, <2>1
    <3>. QED
      BY <1>1, <3>1 DEF MapRight
  <2>. QED
    BY <2>2, <2>3 DEF MapRight
<1>. QED
  BY <1>1, <1>2, <1>3, <1>6, <1>7, <1>8, <1>9

(* Every query belongs to a unit.                                          *)
LEMMA UnitOfQuery ==
    ASSUME Fixed, NEW q \in Queries
    PROVE  \E u \in Units : First(u) <= q /\ q < End(u)
<1>. DEFINE N == host.ctas * Warps  T == {k \in Nat : k <= N /\ q < UnitEdge(k)}
<1>1. /\ N \in Nat
      /\ \A k \in 0..(N - 1) : /\ UnitOf(k) \in Units /\ First(UnitOf(k)) = UnitEdge(k) /\ End(UnitOf(k)) = UnitEdge(k + 1)
      /\ UnitEdge(0) = 0 /\ UnitEdge(N) = host.numQ
      /\ \A k \in 0..N : UnitEdge(k) \in 0..host.numQ
  BY TilesRight
<1>2. host.numQ \in Nat /\ q \in Nat /\ q < host.numQ
  BY Sizes DEF Queries
<1>. HIDE DEF N
<1>3. N \in T /\ T \in SUBSET Nat
  BY <1>1, <1>2
<1>4. PICK m \in T : \A k \in T : m <= k
  BY <1>3, LeastNat
<1>5. m \in Nat /\ m <= N /\ q < UnitEdge(m)
  BY <1>4
<1>6. m # 0
  BY <1>1, <1>2, <1>5
<1>7. m - 1 \in 0..(N - 1) /\ m - 1 \in Nat /\ (m - 1) + 1 = m /\ m - 1 \in 0..N
  BY <1>1, <1>5, <1>6
<1>8. ~ (q < UnitEdge(m - 1))
  <2>1. m - 1 \notin T
    <3>1. m - 1 \in T => m <= m - 1
      BY <1>4
    <3>. QED
      BY <1>5, <3>1
  <2>. QED
    BY <1>1, <1>7, <2>1
<1>9. UnitEdge(m - 1) \in Nat
  BY <1>1, <1>2, <1>7
<1>10. First(UnitOf(m - 1)) <= q /\ q < End(UnitOf(m - 1)) /\ UnitOf(m - 1) \in Units
  BY <1>1, <1>2, <1>5, <1>7, <1>8, <1>9
<1>. QED
  BY <1>10

(* What the rows and queries of a kernel came to is what the next starts   *)
(* from.                                                                   *)
LEMMA LaunchKept ==
    ASSUME CsrIInv, LaunchNext
    PROVE  PtrRight' /\ ItemsRight' /\ EdgesRight' /\ SplitsRight'
<1>1. /\ Fixed /\ Progress /\ PtrRight /\ ItemsRight /\ EdgesRight /\ SplitsRight /\ host.heads \in Nat
  BY Sizes DEF CsrIInv
<1>2. /\ stage \in {"M", "H", "PR", "PT", "S"} /\ stage' = NextKernel[stage] /\ Busy
      /\ \A a \in Agents(stage) : at[a] = StepsOf(stage, a)
      /\ at' = [a \in Agents(NextKernel[stage]) |-> 0]
      /\ UNCHANGED <<prob, host, wanted, rowMap, rowCoords, rowCounts, rowPtr, items, workCount, edges, splitCounts>>
  BY LaunchRight
<1>3. /\ Heads' = Heads /\ Rows' = Rows /\ Queries' = Queries /\ Units' = Units /\ QIdxSize' = QIdxSize
      /\ \A u : First(u)' = First(u) /\ End(u)' = End(u) /\ Steps(u)' = Steps(u)
      /\ \A t : FirstRow(t)' = FirstRow(t)
      /\ \A r : ThreadOf(r)' = ThreadOf(r)
  BY <1>2, SizesKept
<1>4. /\ ChunksOf' = ChunksOf /\ (\A h, r : Start(h, r)' = Start(h, r))
      /\ (\A h, q : Valid(h, q)' = Valid(h, q))
      /\ (\A h, q, s : EdgeOf(h, q, s)' = EdgeOf(h, q, s) /\ PlaceOf(h, q, s)' = PlaceOf(h, q, s))
      /\ \A h, r, c : ChunkItem(h, r, c)' = ChunkItem(h, r, c)
  BY <1>2, CountsKept DEF ChunkItem
<1>5. ASSUME NEW r \in Rows
      PROVE  /\ ThreadOf(r) \in 0..(ScanThreads - 1) /\ ThreadOf(r) \in Nat
             /\ FirstRow(ThreadOf(r)) \in Nat /\ r \in Nat /\ r - FirstRow(ThreadOf(r)) \in Nat
             /\ r - FirstRow(ThreadOf(r)) < Cardinality(RowsOfThread(ThreadOf(r)))
             /\ Cardinality(RowsOfThread(ThreadOf(r))) \in Nat
  <2>. DEFINE t == ThreadOf(r)
  <2>1. t \in 0..(ScanThreads - 1) /\ r \in RowsOfThread(t) /\ t \in Nat
    BY <1>1, <1>2, ThreadsRight, Positive
  <2>2. /\ Bound(t) \in 0..host.rows /\ Bound(t) <= Bound(t + 1) /\ Bound(t + 1) \in 0..host.rows
        /\ RowsOfThread(t) = Bound(t)..(Bound(t + 1) - 1)
        /\ Cardinality(RowsOfThread(t)) = Bound(t + 1) - Bound(t) /\ FirstRow(t) = Bound(t)
    <3>1. t + 1 \in Nat
      BY <2>1
    <3>. HIDE DEF t
    <3>. QED
      BY <1>1, <1>2, <2>1, <3>1, ThreadsRight
  <2>3. host.rows \in Nat
    BY <1>1, Sizes
  <2>. HIDE DEF t
  <2>. QED
    BY <2>1, <2>2, <2>3 DEF t
<1>6. ASSUME NEW h \in Heads, NEW r \in Rows PROVE Emitted(h, r)' <=> Emitted(h, r)
  <2>. DEFINE a == <<h, ThreadOf(r)>>
  <2>1. a \in Agents("PR")
    BY <1>5 DEF Agents
  <2>2. CASE stage = "M"
    BY <1>2, <2>2 DEF Emitted, NextKernel
  <2>3. CASE stage = "H"
    <3>1. at'[a] = 0 /\ stage' = "PR"
      BY <1>2, <2>1, <2>3 DEF NextKernel
    <3>2. ~ (0 > Emitting + (r - FirstRow(ThreadOf(r))))
      BY <1>5, RoundsRight
    <3>3. Emitted(h, r)' <=> at'[a] > Emitting + (r - FirstRow(ThreadOf(r)))
      <4>1. ThreadOf(r)' = ThreadOf(r)
        BY <1>3
      <4>2. FirstRow(ThreadOf(r))' = FirstRow(ThreadOf(r))
        BY <1>2, <4>1 DEF FirstRow
      <4>. QED
        BY <3>1, <4>1, <4>2 DEF Emitted
    <3>. QED
      BY <2>3, <3>1, <3>2, <3>3 DEF Emitted
  <2>4. CASE stage = "PR"
    <3>1. stage' = "PT"
      BY <1>2, <2>4 DEF NextKernel
    <3>2. at[a] = Emitting + Cardinality(RowsOfThread(ThreadOf(r)))
      BY <1>2, <2>1, <2>4 DEF StepsOf
    <3>3. at[a] > Emitting + (r - FirstRow(ThreadOf(r)))
      BY <1>5, <3>2, RoundsRight
    <3>. QED
      BY <2>4, <3>1, <3>3 DEF Emitted
  <2>5. CASE stage \in {"PT", "S"}
    BY <1>2, <2>5 DEF Emitted, NextKernel
  <2>. QED
    BY <1>2, <2>2, <2>3, <2>4, <2>5
<1>7. ASSUME NEW h \in Heads, NEW q \in Queries PROVE Scattered(h, q)' <=> Scattered(h, q)
  <2>0. h \in Nat /\ h < host.heads
    BY <1>1 DEF Heads
  <2>1. CASE stage \in {"M", "H", "PR"}
    BY <1>2, <2>1 DEF Scattered, NextKernel
  <2>2. CASE stage = "PT"
    <3>1. ASSUME NEW u \in Units PROVE Reached(u, h)' = First(u)
      <4>1. at'[u] = 0
        BY <1>2, <2>2, <3>1 DEF NextKernel, Agents
      <4>2. Steps(u) \in Nat \ {0} /\ First(u) \in Nat /\ First(u) <= End(u) /\ End(u) \in Nat
        <5>1. First(u) \in 0..host.numQ /\ End(u) \in First(u)..host.numQ /\ host.numQ \in Nat
          BY <1>1, UnitsRight, Sizes
        <5>. QED
          BY <1>1, <5>1, StepsRight
      <4>. DEFINE S == Steps(u)  f == First(u)
      <4>. HIDE DEF S
      <4>3. 0 \div S = 0 /\ 0 % S = 0 /\ 0 * QPerIter = 0 /\ f + 0 = f
        <5>1. S \in Nat \ {0} /\ 0 * S = 0
          BY <4>2 DEF S
        <5>. QED
          BY <4>2, <5>1, QuotientOf, Positive
      <4>4. AtHead(u)' = 0
        BY <1>3, <4>1, <4>3 DEF AtHead, S
      <4>5. Smaller(f + 0 * QPerIter, End(u)) = f
        BY <4>2, <4>3 DEF Smaller
      <4>6. Reached(u, h)' = IF 0 > h THEN End(u) ELSE IF 0 = h THEN Smaller(f + 0 * QPerIter, End(u)) ELSE f
        BY <1>3, <4>1, <4>3, <4>4 DEF Reached, S
      <4>. QED
        BY <2>0, <4>5, <4>6
    <3>2. stage' = "S"
      BY <1>2, <2>2 DEF NextKernel
    <3>3. ASSUME NEW u \in Units PROVE ~ (First(u) <= q /\ q < First(u))
      <4>1. First(u) \in Nat /\ q \in Nat
        BY <1>1, UnitsRight, Sizes DEF Queries
      <4>. QED
        BY <4>1
    <3>4. ~ Scattered(h, q)'
      BY <1>3, <3>1, <3>2, <3>3 DEF Scattered
    <3>. QED
      BY <2>2, <3>4 DEF Scattered
  <2>3. CASE stage = "S"
    <3>1. stage' = "done"
      BY <1>2, <2>3 DEF NextKernel
    <3>2. PICK u \in Units : First(u) <= q /\ q < End(u)
      BY <1>1, UnitOfQuery
    <3>3. at[u] = host.heads * Steps(u)
      BY <1>2, <2>3, <3>2 DEF Agents, StepsOf
    <3>4. AtHead(u) = host.heads
      <4>. DEFINE S == Steps(u)
      <4>1. S \in Nat \ {0}
        BY <1>1, <3>2, StepsRight
      <4>. HIDE DEF S
      <4>2. (host.heads * S) \div S = host.heads
        BY <1>1, <4>1, RowsOf
      <4>. QED
        BY <3>3, <4>2 DEF AtHead, S
    <3>5. Reached(u, h) = End(u)
      BY <1>1, <2>0, <3>4 DEF Reached
    <3>. QED
      BY <2>3, <3>1, <3>2, <3>5 DEF Scattered
  <2>. QED
    BY <1>2, <2>1, <2>2, <2>3
<1>8. PtrRight'
  <2>1. rowPtr' = [h \in Heads' |-> [i \in 0..host'.rows |-> rowPtr'[h][i]]]
    BY <1>1, <1>2, <1>3 DEF PtrRight
  <2>2. \A h \in Heads : rowPtr'[h][0] = 0
        /\ \A r \in Rows : Emitted(h, r)' => rowPtr'[h][r + 1] = Start(h, r + 1)
    BY <1>1, <1>2, <1>6 DEF PtrRight
  <2>. QED
    BY <1>3, <1>4, <2>1, <2>2 DEF PtrRight
<1>9. ItemsRight'
  <2>1. RowsEmitted' = RowsEmitted
    BY <1>3, <1>6 DEF RowsEmitted
  <2>. QED
    BY <1>1, <1>2, <1>4, <2>1, ZenonT(30) DEF ItemsRight
<1>10. EdgesRight'
  <2>1. edges' = [h \in Heads' |-> [i \in 0..(QIdxSize' - 1) |-> edges'[h][i]]]
    BY <1>1, <1>2, <1>3 DEF EdgesRight
  <2>2. ASSUME NEW h \in Heads, NEW q \in Queries, Scattered(h, q)', NEW s \in Valid(h, q)
        PROVE  edges'[h][PlaceOf(h, q, s)] = EdgeOf(h, q, s)
    BY <1>1, <1>2, <1>7, <2>2 DEF EdgesRight
  <2>3. ASSUME NEW h \in Heads, NEW i \in 0..(QIdxSize - 1)
        PROVE  \/ edges'[h][i] = NoEdge
               \/ \E q \in Queries : Scattered(h, q)' /\ \E s \in Valid(h, q) : i = PlaceOf(h, q, s)
    BY <1>1, <1>2, <1>7 DEF EdgesRight
  <2>. QED
    BY <1>3, <1>4, <2>1, <2>2, <2>3 DEF EdgesRight, NoEdge
<1>11. SplitsRight'
  <2>1. splitCounts' = [q \in Queries' |-> [h \in Heads' |-> splitCounts'[q][h]]]
    BY <1>1, <1>2, <1>3 DEF SplitsRight
  <2>2. \A q \in Queries, h \in Heads : Scattered(h, q)' => splitCounts'[q][h] = Cardinality(Valid(h, q))
    BY <1>1, <1>2, <1>7 DEF SplitsRight
  <2>. QED
    BY <1>3, <1>4, <2>1, <2>2 DEF SplitsRight
<1>. QED
  BY <1>8, <1>9, <1>10, <1>11

(* From M to H: cleared counters and tiles.                                *)
LEMMA LaunchH ==
    ASSUME CsrIInv, LaunchNext, stage = "M"
    PROVE  CsrIInv'
<1>1. /\ Fixed /\ HistRight /\ stage' = "H" /\ Busy
      /\ UNCHANGED <<prob, host, wanted, rowMap, rowCoords, rowCounts>>
      /\ at' = [u \in Units |-> 0]
      /\ Fixed' /\ Progress' /\ MapRight' /\ PtrRight' /\ ItemsRight' /\ EdgesRight' /\ SplitsRight'
  <2>1. NextKernel["M"] = "H" /\ Agents("H") = Units
    BY DEF NextKernel, Agents
  <2>. QED
    BY <2>1, LaunchRight, LaunchKept DEF CsrIInv
<1>2. /\ smem' = [u \in Units |-> Zeroed]
      /\ tileCounts' = [k \in 0..(host.ctas * Warps - 1) |-> [h \in Heads |-> [r \in Rows |-> 0]]]
  BY DEF LaunchNext, NextKernel
<1>3. /\ Heads' = Heads /\ Rows' = Rows /\ Units' = Units /\ Ctas' = Ctas /\ Zeroed' = Zeroed
  BY <1>1, SizesKept
<1>4. \A h \in Heads : h \in Nat
  BY <1>1, Sizes DEF Heads
<1>5. Grid(rowCounts)' /\ \A h \in Heads, r \in Rows : rowCounts[h][r] = 0
  BY <1>1, <1>3 DEF HistRight, Grid
<1>6. \A u \in Units : Counters(u)' = Zeroed
  <2>1. ASSUME NEW u \in Units PROVE Counters(u)' = Zeroed
    <3>1. at'[u] = 0 /\ 0 % 4 = 0
      BY <1>1
    <3>. QED
      BY <1>3, <3>1 DEF Counters
  <2>. QED
    BY <2>1
<1>7. smem' = [u \in Units' |-> Counters(u)']
  BY <1>2, <1>3, <1>6
<1>8. TileGrid'
  BY <1>1, <1>2, <1>3 DEF TileGrid, Grid
<1>9. TilesCounted'
  <2>1. \A u \in Units, h \in Heads : ~ (at'[u] >= 4 * h + 3)
    BY <1>1, <1>4
  <2>. QED
    BY <1>3, <2>1 DEF TilesCounted
<1>10. HeadsSummed'
  <2>1. ASSUME NEW h \in Heads, NEW r \in Rows PROVE Summed(h, r)' = {}
    <3>1. r % Warps \in 0..(Warps - 1)
      <4>1. r \in Nat
        BY <1>1, WordsRight
      <4>. QED
        BY <4>1, Positive, Euclid
    <3>2. \A c \in Ctas : <<c, r % Warps>> \in Units
      BY <3>1 DEF Units, Ctas
    <3>3. \A c \in Ctas : ~ (at'[<<c, r % Warps>>] >= 4 * h + 4)
      BY <1>1, <1>4, <3>2
    <3>. QED
      BY <1>3, <3>3 DEF Summed
  <2>2. \A f : Total(f, {}) = 0
    BY TotalZero, FS_EmptySet
  <2>3. ASSUME NEW h \in Heads, NEW r \in Rows
               PROVE rowCounts'[h][r] = Total(CtaCounts(h, r)', Summed(h, r)')
    BY <1>1, <1>5, <2>1, <2>2
  <2>. QED
    BY <1>3, <2>3 DEF HeadsSummed
<1>11. Abreast'
  BY <1>1, <1>3 DEF Abreast
<1>12. HistRight'
  BY <1>1, <1>5, <1>7, <1>8, <1>9, <1>10, <1>11 DEF HistRight
<1>13. ScanRight' /\ PlacesRight' /\ CursorsRight'
  BY <1>1 DEF ScanRight, PlacesRight, CursorsRight
<1>. QED
  BY <1>1, <1>12, <1>13 DEF CsrIInv

(* From H to PR: row_counts holds what all queries chose, the tiles what   *)
(* each unit did.                                                          *)
LEMMA LaunchPR ==
    ASSUME CsrIInv, LaunchNext, stage = "H"
    PROVE  CsrIInv'
<1>1. /\ Fixed /\ HistRight /\ stage' = "PR" /\ Busy
      /\ UNCHANGED <<prob, host, wanted, rowMap, rowCoords, rowCounts>>
      /\ at' = [a \in Agents("PR") |-> 0] /\ \A u \in Units : at[u] = 4 * host.heads
      /\ Fixed' /\ Progress' /\ MapRight' /\ PtrRight' /\ ItemsRight' /\ EdgesRight' /\ SplitsRight'
  <2>1. NextKernel["H"] = "PR" /\ Agents("H") = Units /\ \A u : StepsOf("H", u) = 4 * host.heads
    BY DEF NextKernel, Agents, StepsOf
  <2>. QED
    BY <2>1, LaunchRight, LaunchKept DEF CsrIInv
<1>2. tileCounts' = tileCounts /\ scan' = [a \in Agents("PR") |-> 0] /\ addend' = scan'
  BY DEF LaunchNext, NextKernel
<1>3. /\ Heads' = Heads /\ Rows' = Rows /\ Units' = Units /\ Agents("PR")' = Agents("PR")
      /\ \A u : First(u)' = First(u) /\ End(u)' = End(u)
  BY <1>1, SizesKept
<1>4. (\A h : CountOfRow(h)' = CountOfRow(h)) /\ \A h, r, q : Ahead(h, r, q)' = Ahead(h, r, q)
  BY <1>1, CountsKept
<1>5. host.heads \in Nat /\ \A h \in Heads : h \in Nat /\ h < host.heads
  BY <1>1, Sizes DEF Heads
<1>6. ASSUME NEW h \in Heads, NEW r \in Rows PROVE rowCounts[h][r] = Ahead(h, r, host.numQ)
  <2>. DEFINE n == host.ctas  g == [c \in 0..n |-> Ahead(h, r, CtaFirst(c))]  f == CtaCounts(h, r)
  <2>1. Summed(h, r) = 0..(n - 1)
    <3>1. r % Warps \in 0..(Warps - 1)
      <4>1. r \in Nat
        BY <1>1, WordsRight
      <4>. QED
        BY <4>1, Positive, Euclid
    <3>2. \A c \in Ctas : <<c, r % Warps>> \in Units
      BY <3>1 DEF Units, Ctas
    <3>3. \A c \in Ctas : at[<<c, r % Warps>>] >= 4 * h + 4
      BY <1>1, <1>5, <3>2
    <3>. QED
      BY <3>3 DEF Summed, Ctas
  <2>2. n \in Nat /\ host.numQ \in Nat
    BY <1>1, Sizes
  <2>3. /\ \A c \in 0..n : CtaFirst(c) \in Nat
        /\ CtaFirst(0) = 0 /\ CtaFirst(n) = host.numQ
        /\ \A c \in 0..(n - 1) : CtaEnd(c) = CtaFirst(c + 1)
    <3>1. \A c \in Nat : CtaFirst(c) \in 0..host.numQ
      BY <1>1, CtasRight
    <3>2. CtaFirst(0) = 0 /\ CtaFirst(n) = host.numQ /\ \A c \in 0..(n - 1) : CtaEnd(c) = CtaFirst(c + 1)
      BY <1>1, CtasRight DEF Ctas
    <3>3. \A c \in 0..n : CtaFirst(c) \in Nat
      BY <2>2, <3>1
    <3>. QED
      BY <3>2, <3>3
  <2>. HIDE DEF n
  <2>4. \A c \in 0..n : g[c] = Ahead(h, r, CtaFirst(c)) /\ g[c] \in Int
    <3>1. \A q \in Nat : Ahead(h, r, q) \in Nat
      BY <1>1, AheadRight
    <3>. QED
      BY <2>3, <3>1
  <2>5. \A c \in 0..(n - 1) : f[c] = CountIn(h, r, CtaFirst(c), CtaEnd(c))
    BY DEF CtaCounts, Ctas, n
  <2>. HIDE DEF f, g
  <2>6. \A c \in 0..(n - 1) : f[c] = g[c + 1] - g[c]
    <3>1. ASSUME NEW c \in 0..(n - 1) PROVE f[c] = g[c + 1] - g[c]
      <4>1. c \in 0..n /\ c + 1 \in 0..n
        BY <2>2
      <4>. QED
        BY <2>3, <2>4, <2>5, <4>1 DEF CountIn
    <3>. QED
      BY <3>1
  <2>7. Total(f, 0..(n - 1)) = g[n] - g[0]
    <3>1. \A c \in 0..n : g[c] \in Int
      BY <2>4
    <3>2. n \in Nat
      BY <2>2
    <3>. QED
      BY <2>6, <3>1, <3>2, Telescope
  <2>8. g[n] = Ahead(h, r, host.numQ) /\ g[0] = 0
    <3>1. n \in 0..n /\ 0 \in 0..n
      BY <2>2
    <3>2. Ahead(h, r, 0) = 0
      BY <1>1, AheadRight
    <3>. QED
      BY <2>3, <2>4, <3>1, <3>2
  <2>9. Ahead(h, r, host.numQ) \in Int
    <3>1. \A q \in Nat : Ahead(h, r, q) \in Nat
      BY <1>1, AheadRight
    <3>. QED
      BY <2>2, <3>1
  <2>10. rowCounts[h][r] = Total(f, 0..(n - 1))
    BY <1>1, <2>1 DEF HistRight, HeadsSummed, f
  <2>. QED
    BY <2>7, <2>8, <2>9, <2>10
<1>7. rowCounts = [h \in Heads |-> CountOfRow(h)]
  <2>1. rowCounts = [h \in Heads |-> [r \in Rows |-> rowCounts[h][r]]]
    BY <1>1 DEF HistRight, Grid
  <2>. QED
    BY <1>6, <2>1 DEF CountOfRow
<1>8. ASSUME NEW u \in Units, NEW h \in Heads, NEW r \in Rows PROVE TileRight(u, h, r)'
  <2>1. at[u] >= 4 * h + 3
    BY <1>1, <1>5
  <2>2. TileRight(u, h, r)
    BY <1>1, <2>1 DEF HistRight, TilesCounted
  <2>3. CountIn(h, r, First(u), End(u))' = CountIn(h, r, First(u), End(u))
    <3>1. First(u)' = First(u) /\ End(u)' = End(u)
      BY <1>3
    <3>2. Ahead(h, r, First(u))' = Ahead(h, r, First(u)) /\ Ahead(h, r, End(u))' = Ahead(h, r, End(u))
      BY <1>4, <3>1 DEF Ahead
    <3>. QED
      BY <3>2 DEF CountIn
  <2>. QED
    BY <1>2, <2>2, <2>3 DEF TileRight, UnitIndex
<1>9. TileGrid' /\ Grid(rowCounts)'
  <2>1. \A k : Grid(tileCounts[k])' = Grid(tileCounts[k])
    BY <1>2, <1>3 DEF Grid
  <2>2. TileGrid /\ Grid(rowCounts)
    BY <1>1 DEF HistRight
  <2>. QED
    BY <1>1, <1>2, <1>3, <2>1, <2>2, ZenonT(30) DEF TileGrid, Grid
<1>10. HistRight'
  BY <1>1, <1>3, <1>4, <1>7, <1>8, <1>9 DEF HistRight
<1>11. ScanRight'
  <2>1. InStep'
    BY <1>1, <1>3 DEF InStep
  <2>2. \A a \in Agents("PR") : ~ (at'[a] \in 2..(Emitting - 1))
    BY <1>1
  <2>. QED
    BY <1>1, <1>2, <1>3, <2>1, <2>2 DEF ScanRight
<1>12. PlacesRight' /\ CursorsRight'
  BY <1>1 DEF PlacesRight, CursorsRight
<1>. QED
  BY <1>1, <1>10, <1>11, <1>12 DEF CsrIInv

(* The tiles and counts of the rows are kept from PR on.                   *)
LEMMA LaunchTiles ==
    ASSUME CsrIInv, LaunchNext, stage \in {"PR", "PT", "S"}
    PROVE  HistRight' /\ ScanRight' /\ tileCounts' = tileCounts /\ Busy
           /\ stage' = NextKernel[stage] /\ stage' \in {"PT", "S", "done"}
<1>1. /\ Fixed /\ HistRight /\ stage' = NextKernel[stage] /\ Busy
      /\ UNCHANGED <<prob, host, wanted, rowMap, rowCoords, rowCounts>>
  BY LaunchRight DEF CsrIInv
<1>2. stage' \in {"PT", "S", "done"} /\ tileCounts' = tileCounts
  BY <1>1 DEF LaunchNext, NextKernel
<1>3. Heads' = Heads /\ Rows' = Rows
  BY <1>1, SizesKept
<1>4. \A h : CountOfRow(h)' = CountOfRow(h)
  BY <1>1, CountsKept
<1>5. TileGrid' /\ Grid(rowCounts)'
  <2>1. \A k : Grid(tileCounts[k])' = Grid(tileCounts[k])
    BY <1>2, <1>3 DEF Grid
  <2>2. TileGrid /\ Grid(rowCounts)
    BY <1>1 DEF HistRight
  <2>. QED
    BY <1>1, <1>2, <1>3, <2>1, <2>2, ZenonT(30) DEF TileGrid, Grid
<1>6. rowCounts' = [h \in Heads' |-> CountOfRow(h)']
  BY <1>1, <1>3, <1>4 DEF HistRight
<1>7. HistRight'
  BY <1>2, <1>5, <1>6 DEF HistRight
<1>8. ScanRight'
  BY <1>2 DEF ScanRight
<1>. QED
  BY <1>1, <1>2, <1>7, <1>8

(* A block of PT has the row.                                              *)
LEMMA BlockOfRow ==
    ASSUME Fixed, NEW h \in Heads, NEW r \in Rows
    PROVE  BlockOf(h, r) \in Agents("PT")
<1>1. host.rows \in Nat /\ r \in Nat /\ r < host.rows
  BY Sizes DEF Rows
<1>2. r \div RowsPerBlock \in 0..(NumBlocksPT - 1)
  <2>. DEFINE B == RowsPerBlock  N == CeilDiv(host.rows, B)  k == r \div B
  <2>1. B \in Nat \ {0}
    BY Positive
  <2>. HIDE DEF B
  <2>2. N \in Nat /\ host.rows <= N * B /\ k \in Nat /\ r = k * B + (r % B) /\ r % B \in 0..(B - 1)
    BY <1>1, <2>1, CeilDivRight, Euclid
  <2>3. k < N
    <3>. HIDE DEF N, k
    <3>1. ASSUME N <= k PROVE FALSE
      <4>1. N * B \in Nat /\ k * B \in Nat /\ B * N <= B * k /\ B * N = N * B /\ B * k = k * B
        BY <2>1, <2>2, <3>1, Product
      <4>. QED
        BY <1>1, <2>1, <2>2, <4>1
    <3>. QED
      BY <2>2, <3>1
  <2>4. NumBlocksPT = N
    BY DEF NumBlocksPT, B
  <2>. HIDE DEF N, k
  <2>5. k \in 0..(N - 1)
    BY <2>2, <2>3
  <2>. QED
    BY <2>4, <2>5 DEF k, B
<1>. QED
  BY <1>2 DEF BlockOf, Agents

(* From PR to PT.                                                          *)
LEMMA LaunchPT ==
    ASSUME CsrIInv, LaunchNext, stage = "PR"
    PROVE  CsrIInv'
<1>1. /\ Fixed /\ HistRight /\ stage' = "PT" /\ Busy
      /\ UNCHANGED <<prob, host, wanted, rowMap, rowCoords, rowCounts>>
      /\ at' = [a \in Agents("PT") |-> 0]
      /\ Fixed' /\ Progress' /\ MapRight' /\ PtrRight' /\ ItemsRight' /\ EdgesRight' /\ SplitsRight'
  <2>1. NextKernel["PR"] = "PT"
    BY DEF NextKernel
  <2>. QED
    BY <2>1, LaunchRight, LaunchKept DEF CsrIInv
<1>2. HistRight' /\ ScanRight' /\ tileCounts' = tileCounts
  BY LaunchTiles
<1>3. Heads' = Heads /\ Rows' = Rows /\ Units' = Units /\ \A u : First(u)' = First(u) /\ End(u)' = End(u)
  BY <1>1, SizesKept
<1>4. ASSUME NEW u \in Units, NEW h \in Heads, NEW r \in Rows PROVE TileRight(u, h, r)'
  <2>1. TileRight(u, h, r)
    BY <1>1 DEF HistRight
  <2>2. \A q : Ahead(h, r, q)' = Ahead(h, r, q)
    BY <1>1, CountsKept
  <2>3. First(u)' = First(u) /\ End(u)' = End(u)
    BY <1>3
  <2>4. Ahead(h, r, First(u))' = Ahead(h, r, First(u)) /\ Ahead(h, r, End(u))' = Ahead(h, r, End(u))
    BY <2>2, <2>3 DEF Ahead
  <2>5. CountIn(h, r, First(u), End(u))' = CountIn(h, r, First(u), End(u))
    BY <2>4 DEF CountIn
  <2>. QED
    BY <1>2, <2>1, <2>5 DEF TileRight, UnitIndex
<1>5. ASSUME NEW h \in Heads, NEW r \in Rows PROVE ~ Placed(h, r)'
  <2>1. BlockOf(h, r) \in Agents("PT")
    BY <1>1, BlockOfRow
  <2>2. at'[BlockOf(h, r)] = 0
    BY <1>1, <2>1
  <2>. QED
    BY <1>1, <2>2 DEF Placed, BlockOf
<1>6. PlacesRight'
  BY <1>3, <1>4, <1>5 DEF PlacesRight
<1>7. CursorsRight'
  BY <1>1 DEF CursorsRight
<1>. QED
  BY <1>1, <1>2, <1>6, <1>7 DEF CsrIInv

(* From PT to S: the tiles hold the first place of every unit in every row. *)
LEMMA LaunchS ==
    ASSUME CsrIInv, LaunchNext, stage = "PT"
    PROVE  CsrIInv'
<1>1. /\ Fixed /\ PlacesRight /\ stage' = "S" /\ Busy
      /\ UNCHANGED <<prob, host, wanted, rowMap, rowCoords, rowCounts>>
      /\ at' = [u \in Units |-> 0] /\ \A a \in Agents("PT") : at[a] = 1
      /\ Fixed' /\ Progress' /\ MapRight' /\ PtrRight' /\ ItemsRight' /\ EdgesRight' /\ SplitsRight'
  <2>1. NextKernel["PT"] = "S" /\ Agents("S") = Units /\ \A a : StepsOf("PT", a) = 1
    BY DEF NextKernel, Agents, StepsOf
  <2>. QED
    BY <2>1, LaunchRight, LaunchKept DEF CsrIInv
<1>2. HistRight' /\ ScanRight' /\ tileCounts' = tileCounts
  BY LaunchTiles
<1>3. Heads' = Heads /\ Rows' = Rows /\ Units' = Units /\ (\A u : First(u)' = First(u))
      /\ (\A u : Steps(u)' = Steps(u))
  BY <1>1, SizesKept
<1>4. ASSUME NEW u \in Units, NEW h \in Heads, NEW r \in Rows
      PROVE  tileCounts'[UnitIndex(u)][h][r] = (Start(h, r) + Ahead(h, r, First(u)))'
  <2>1. Placed(h, r)
    BY <1>1, BlockOfRow DEF Placed
  <2>2. tileCounts[UnitIndex(u)][h][r] = Start(h, r) + Ahead(h, r, First(u))
    BY <1>1, <2>1 DEF PlacesRight
  <2>3. Start(h, r)' = Start(h, r) /\ \A q : Ahead(h, r, q)' = Ahead(h, r, q)
    BY <1>1, CountsKept
  <2>4. First(u)' = First(u)
    BY <1>3
  <2>5. Ahead(h, r, First(u))' = Ahead(h, r, First(u))
    BY <2>3, <2>4 DEF Ahead
  <2>. QED
    BY <1>2, <2>2, <2>3, <2>5
<1>5. PlacesRight'
  <2>1. \A h, r : Placed(h, r)'
    BY <1>1 DEF Placed
  <2>. QED
    BY <1>3, <1>4, <2>1 DEF PlacesRight, UnitIndex
<1>6. CursorsRight'
  <2>1. smem' = [u \in Units |-> Zeroed]
    BY <1>1 DEF LaunchNext, NextKernel
  <2>2. ASSUME NEW u \in Units PROVE ~ (at'[u] % Steps(u)' > 0)
    <3>. DEFINE S == Steps(u)
    <3>1. S \in Nat \ {0}
      BY <1>1, StepsRight
    <3>2. at'[u] = 0 /\ Steps(u)' = S
      BY <1>1, <1>3
    <3>. HIDE DEF S
    <3>3. 0 % S = 0
      BY <3>1, QuotientOf
    <3>. QED
      BY <3>2, <3>3
  <2>. QED
    BY <1>3, <2>1, <2>2 DEF CursorsRight
<1>. QED
  BY <1>1, <1>2, <1>5, <1>6 DEF CsrIInv

(* The end of the last kernel.                                             *)
LEMMA LaunchDone ==
    ASSUME CsrIInv, LaunchNext, stage = "S"
    PROVE  CsrIInv'
<1>1. stage' = "done" /\ Fixed' /\ Progress' /\ MapRight' /\ PtrRight' /\ ItemsRight' /\ EdgesRight'
      /\ SplitsRight'
  <2>1. NextKernel["S"] = "done"
    BY DEF NextKernel
  <2>. QED
    BY <2>1, LaunchRight, LaunchKept DEF CsrIInv
<1>2. HistRight' /\ ScanRight'
  BY LaunchTiles
<1>3. PlacesRight' /\ CursorsRight'
  BY <1>1 DEF PlacesRight, CursorsRight
<1>. QED
  BY <1>1, <1>2, <1>3 DEF CsrIInv

(* One kernel after the other.                                             *)
LEMMA LaunchStep == ASSUME CsrIInv, LaunchNext PROVE CsrIInv'
<1>1. stage \in {"M", "H", "PR", "PT", "S"}
  BY LaunchRight
<1>. QED
  BY <1>1, LaunchH, LaunchPR, LaunchPT, LaunchS, LaunchDone

-----------------------------------------------------------------------------
(***************************************************************************)
(* The first places of the rows, and of the units in them.                 *)
(***************************************************************************)
(* Rows start where the rows before them end.                              *)
LEMMA StartRight ==
    ASSUME Fixed, NEW h
    PROVE  /\ Start(h, 0) = 0
           /\ \A r \in 0..host.rows : Start(h, r) \in Nat
           /\ \A r \in Rows : Start(h, r + 1) = Start(h, r) + Ahead(h, r, host.numQ)
           /\ \A a, b \in 0..host.rows : a <= b => Start(h, a) <= Start(h, b)
<1>. DEFINE n == host.rows  f == CountOfRow(h)  S(b) == Total(f, 0..(b - 1))
<1>1. n \in Nat /\ host.numQ \in Nat
  BY Sizes
<1>2. \A q \in Nat : Ahead(h, 0, q) \in Nat
  BY AheadRight
<1>3. ASSUME NEW r \in 0..(n - 1) PROVE f[r] = Ahead(h, r, host.numQ) /\ f[r] \in Nat
  <2>1. \A q \in Nat : Ahead(h, r, q) \in Nat
    BY AheadRight
  <2>. QED
    BY <1>1, <2>1 DEF CountOfRow, Rows
<1>4. \A r : Start(h, r) = S(r)
  BY DEF Start
<1>. HIDE DEF n, f
<1>5. \A b \in 0..n : /\ Total(f, 0..(b - 1)) \in Int
                      /\ b < n => Total(f, 0..((b + 1) - 1)) = Total(f, 0..(b - 1)) + f[b]
                      /\ \A a \in 0..(b - 1) : Total(f, 0..(a - 1)) + f[a] <= Total(f, 0..(b - 1))
  <2>1. \A k \in 0..(n - 1) : f[k] \in Nat
    BY <1>3
  <2>. QED
    BY <1>1, <2>1, Running
<1>6. \A b \in 0..n : /\ S(b) \in Int
                      /\ b < n => S(b + 1) = S(b) + f[b]
                      /\ \A a \in 0..(b - 1) : S(a) + f[a] <= S(b)
  BY <1>5
<1>7. S(0) = 0
  <2>1. 0..(0 - 1) = {}
    OBVIOUS
  <2>2. Total(f, {}) = 0
    BY TotalZero, FS_EmptySet
  <2>. QED
    BY <2>1, <2>2
<1>. HIDE DEF S
<1>8. ASSUME NEW a \in 0..n, NEW b \in 0..n, a <= b PROVE S(a) <= S(b)
  <2>1. CASE a = b
    BY <1>6, <2>1
  <2>2. CASE a < b
    <3>1. a \in 0..(b - 1) /\ a \in 0..(n - 1)
      BY <1>1, <2>2
    <3>2. S(a) + f[a] <= S(b) /\ f[a] \in Nat /\ S(a) \in Int /\ S(b) \in Int
      BY <1>3, <1>6, <3>1
    <3>. QED
      BY <3>2
  <2>. QED
    BY <1>1, <1>8, <2>1, <2>2
<1>9. ASSUME NEW b \in 0..n PROVE S(b) \in Nat
  <2>1. 0 \in 0..n /\ 0 <= b
    BY <1>1
  <2>2. S(0) <= S(b) /\ S(b) \in Int
    BY <1>6, <1>8, <2>1
  <2>. QED
    BY <1>7, <2>2
<1>10. ASSUME NEW r \in 0..(n - 1) PROVE S(r + 1) = S(r) + Ahead(h, r, host.numQ)
  BY <1>1, <1>3, <1>6
<1>. QED
  BY <1>4, <1>7, <1>8, <1>9, <1>10 DEF n, Rows

(* The units before a unit put into a row what their queries chose.        *)
LEMMA UnitsSummed ==
    ASSUME Fixed, NEW h, NEW r, NEW u \in Units, NEW f,
           \A k \in 0..(host.ctas * Warps - 1) : f[k] = CountIn(h, r, First(UnitOf(k)), End(UnitOf(k)))
    PROVE  Total(f, 0..(UnitIndex(u) - 1)) = Ahead(h, r, First(u))
<1>. DEFINE n == host.ctas * Warps  m == UnitIndex(u)  g == [k \in 0..n |-> Ahead(h, r, UnitEdge(k))]
<1>1. n \in Nat /\ m \in 0..(n - 1) /\ host.numQ \in Nat
  BY TilesRight, Sizes
<1>2. \A k \in 0..n : UnitEdge(k) \in Nat
  <2>1. \A k \in 0..n : UnitEdge(k) \in 0..host.numQ
    BY TilesRight
  <2>. QED
    BY <1>1, <2>1
<1>3. \A k \in 0..n : g[k] \in Int
  <2>1. \A q \in Nat : Ahead(h, r, q) \in Nat
    BY AheadRight
  <2>. QED
    BY <1>2, <2>1
<1>4. \A k \in 0..(n - 1) : First(UnitOf(k)) = UnitEdge(k) /\ End(UnitOf(k)) = UnitEdge(k + 1)
  BY TilesRight
<1>5. UnitEdge(0) = 0 /\ First(u) = UnitEdge(m)
  <2>1. UnitOf(m) = u /\ UnitEdge(0) = 0
    BY TilesRight
  <2>. QED
    BY <1>1, <1>4, <2>1
<1>6. \A k \in 0..(n - 1) : f[k] = CountIn(h, r, First(UnitOf(k)), End(UnitOf(k)))
  OBVIOUS
<1>7. \A k \in 0..n : g[k] = Ahead(h, r, UnitEdge(k))
  OBVIOUS
<1>. HIDE DEF n, m, g
<1>8. ASSUME NEW k \in 0..(n - 1) PROVE f[k] = g[k + 1] - g[k]
  <2>1. k \in 0..n /\ k + 1 \in 0..n
    BY <1>1
  <2>. QED
    BY <1>4, <1>6, <1>7, <2>1 DEF CountIn
<1>9. m \in Nat /\ m < n
  BY <1>1
<1>10. Total(f, 0..(m - 1)) = g[m] - g[0]
  <2>1. \A k \in 0..m : g[k] \in Int
    BY <1>1, <1>3, <1>9
  <2>2. \A k \in 0..(m - 1) : f[k] = g[k + 1] - g[k]
    BY <1>1, <1>8, <1>9
  <2>. QED
    BY <1>9, <2>1, <2>2, Telescope
<1>11. g[m] = Ahead(h, r, First(u)) /\ g[0] = 0 /\ g[m] \in Int
  <2>1. m \in 0..n /\ 0 \in 0..n
    BY <1>1, <1>9
  <2>2. Ahead(h, r, 0) = 0
    BY AheadRight
  <2>. QED
    BY <1>3, <1>5, <1>7, <2>1, <2>2
<1>12. Total(f, 0..(m - 1)) = Ahead(h, r, First(u))
  BY <1>10, <1>11
<1>. QED
  BY <1>12 DEF m

(* The rows of a block of PT.                                              *)
LEMMA BlockRows ==
    ASSUME Fixed, NEW a \in Agents("PT"), NEW r \in Rows
    PROVE  r \in RowsOfBlock(a) <=> BlockOf(a[1], r) = a
<1>. DEFINE B == RowsPerBlock  k == a[2]  n == host.rows
<1>1. B \in Nat \ {0} /\ n \in Nat /\ r \in Nat /\ r < n /\ k \in Nat /\ a = <<a[1], k>>
  BY Positive, Sizes DEF Rows, Agents
<1>2. RowsOfBlock(a) = (k * B)..(Smaller(k * B + B, n) - 1)
  BY DEF RowsOfBlock
<1>3. BlockOf(a[1], r) = a <=> r \div B = k
  BY <1>1 DEF BlockOf
<1>. HIDE DEF B, k, n
<1>4. k * B \in Nat
  BY <1>1
<1>5. ASSUME r \in RowsOfBlock(a) PROVE r \div B = k
  <2>1. k * B <= r /\ r < k * B + B
    BY <1>1, <1>2, <1>4, <1>5 DEF Smaller
  <2>. QED
    BY <1>1, <2>1, QuotientOf
<1>6. ASSUME r \div B = k PROVE r \in RowsOfBlock(a)
  <2>1. r = k * B + (r % B) /\ r % B \in 0..(B - 1)
    BY <1>1, <1>6, Euclid
  <2>2. k * B <= r /\ r < k * B + B
    BY <1>1, <1>4, <2>1
  <2>. QED
    BY <1>1, <1>2, <1>4, <2>2 DEF Smaller
<1>. QED
  BY <1>3, <1>5, <1>6

(* A block of PT turns the counts of its rows into places.                 *)
LEMMA PrefixStep ==
    ASSUME CsrIInv, NEW a \in DOMAIN at, PrefixBlock(a)
    PROVE  CsrIInv'
<1>. DEFINE h == a[1]
            before(u, r) == [v \in 0..(u - 1) |-> tileCounts[v][h][r]]
            start(u, r) == rowPtr[h][r] + Total(before(u, r), 0..(u - 1))
<1>1. /\ stage = "PT" /\ at[a] = 0 /\ Did(a)
      /\ tileCounts' = [u \in DOMAIN tileCounts |-> [tileCounts[u] EXCEPT ![h] =
                          [r \in Rows |-> IF r \in RowsOfBlock(a) THEN start(u, r) ELSE @[r]]]]
      /\ UNCHANGED <<prob, host, wanted, stage, rowMap, rowCoords, rowCounts, rowPtr, scan, addend, items, workCount,
                     edges, splitCounts>>
  BY DEF PrefixBlock, UnchangedM, UnchangedPR, UnchangedS
<1>2. Moves(a)
  BY <1>1 DEF Moves, StepsOf
<1>3. /\ Fixed /\ Busy /\ Progress /\ HistRight /\ PlacesRight /\ PtrRight /\ TileGrid
      /\ a \in Agents("PT") /\ at' = [b \in Agents("PT") |-> IF b = a THEN 1 ELSE at[b]]
  <2>1. Fixed /\ Progress /\ HistRight /\ PlacesRight /\ PtrRight
    BY DEF CsrIInv
  <2>2. /\ Busy /\ a \in Agents(stage)
        /\ at' = [b \in Agents(stage) |-> IF b = a THEN at[a] + 1 ELSE at[b]]
    BY <1>2, <2>1, MovesRight
  <2>. QED
    BY <1>1, <2>1, <2>2 DEF HistRight
<1>4. /\ Fixed' /\ Progress' /\ MapRight' /\ ScanRight' /\ PtrRight' /\ ItemsRight' /\ EdgesRight'
         /\ SplitsRight' /\ CursorsRight'
  BY <1>1, <1>2, Kept
<1>5. /\ Heads' = Heads /\ Rows' = Rows /\ Units' = Units /\ (\A u : First(u)' = First(u))
         /\ (\A u : End(u)' = End(u))
  BY <1>1, SizesKept
<1>6. /\ (\A g : CountOfRow(g)' = CountOfRow(g)) /\ (\A g, r : Start(g, r)' = Start(g, r))
      /\ \A g, r, q : Ahead(g, r, q)' = Ahead(g, r, q)
  BY <1>1, CountsKept
<1>7. h \in Heads /\ a = <<h, a[2]>>
  BY <1>3 DEF Agents
<1>8. ASSUME NEW u \in Units
      PROVE  /\ UnitIndex(u) \in DOMAIN tileCounts
             /\ \A g \in Heads, r \in Rows :
                   tileCounts'[UnitIndex(u)][g][r] =
                      IF g = h /\ r \in RowsOfBlock(a) THEN start(UnitIndex(u), r) ELSE tileCounts[UnitIndex(u)][g][r]
  <2>. DEFINE k == UnitIndex(u)
  <2>1. k \in 0..(host.ctas * Warps - 1)
    BY <1>3, TilesRight
  <2>2. k \in DOMAIN tileCounts /\ Grid(tileCounts[k])
    BY <1>3, <2>1 DEF TileGrid
  <2>. HIDE DEF k
  <2>3. tileCounts'[k] = [tileCounts[k] EXCEPT ![h] = [r \in Rows |-> IF r \in RowsOfBlock(a) THEN start(k, r) ELSE @[r]]]
    BY <1>1, <2>2
  <2>4. h \in DOMAIN tileCounts[k] /\ DOMAIN tileCounts[k] = Heads
    BY <1>7, <2>2 DEF Grid
  <2>. HIDE DEF start, h
  <2>5. ASSUME NEW g \in Heads, NEW r \in Rows
        PROVE  tileCounts'[k][g][r] = IF g = h
               /\ r \in RowsOfBlock(a) THEN start(k, r) ELSE tileCounts[k][g][r]
    BY <2>3, <2>4
  <2>. QED
    BY <2>2, <2>5 DEF k
<1>9. ASSUME NEW u \in Units, NEW r \in Rows, r \in RowsOfBlock(a)
      PROVE  start(UnitIndex(u), r) = Start(h, r) + Ahead(h, r, First(u))
  <2>. DEFINE k == UnitIndex(u)  f == before(k, r)
  <2>1. rowPtr[h][r] = Start(h, r)
    <3>1. CASE r = 0
      BY <1>3, <1>7, <3>1, StartRight DEF PtrRight
    <3>2. CASE r # 0
      <4>1. r - 1 \in Rows /\ (r - 1) + 1 = r
        BY <1>3, <3>2, Sizes DEF Rows
      <4>2. Emitted(h, r - 1)
        BY <1>1 DEF Emitted
      <4>. QED
        BY <1>3, <1>7, <4>1, <4>2 DEF PtrRight
    <3>. QED
      BY <3>1, <3>2
  <2>2. k \in 0..(host.ctas * Warps - 1) /\ host.ctas * Warps \in Nat
    BY <1>3, TilesRight
  <2>3. ASSUME NEW v \in Units PROVE tileCounts[UnitIndex(v)][h][r] = CountIn(h, r, First(v), End(v))
    <3>1. BlockOf(h, r) = a
      BY <1>3, <1>9, BlockRows
    <3>2. ~ Placed(h, r)
      BY <1>1, <3>1 DEF Placed
    <3>. QED
      BY <1>1, <1>3, <1>7, <3>2 DEF PlacesRight, TileRight
  <2>. DEFINE g == [v \in 0..(host.ctas * Warps - 1) |-> tileCounts[v][h][r]]
  <2>4. \A v \in 0..(host.ctas * Warps - 1) : g[v] = CountIn(h, r, First(UnitOf(v)), End(UnitOf(v)))
    <3>1. \A v \in 0..(host.ctas * Warps - 1) : UnitOf(v) \in Units /\ UnitIndex(UnitOf(v)) = v
      BY <1>3, TilesRight
    <3>. QED
      BY <2>3, <3>1
  <2>5. \A v \in 0..(k - 1) : f[v] = g[v] /\ v \in 0..(host.ctas * Warps - 1)
    BY <2>2
  <2>. HIDE DEF g
  <2>6. Total(g, 0..(k - 1)) = Ahead(h, r, First(u))
    BY <1>3, <2>4, UnitsSummed
  <2>7. \A v \in 0..(k - 1) : g[v] \in Int
    <3>1. ASSUME NEW v \in 0..(k - 1) PROVE g[v] \in Int
      <4>1. v \in 0..(host.ctas * Warps - 1)
        BY <2>5
      <4>2. First(UnitOf(v)) \in Nat /\ End(UnitOf(v)) \in Nat
        <5>1. UnitOf(v) \in Units
          BY <1>3, <4>1, TilesRight
        <5>2. First(UnitOf(v)) \in 0..host.numQ /\ End(UnitOf(v)) \in First(UnitOf(v))..host.numQ
              /\ host.numQ \in Nat
          BY <1>3, <5>1, UnitsRight, Sizes
        <5>. QED
          BY <5>2
      <4>3. \A q \in Nat : Ahead(h, r, q) \in Nat
        BY <1>3, AheadRight
      <4>. QED
        BY <2>4, <4>1, <4>2, <4>3 DEF CountIn
    <3>. QED
      BY <3>1
  <2>. HIDE DEF f
  <2>8. Total(f, 0..(k - 1)) = Total(g, 0..(k - 1))
    <3>1. IsFiniteSet(0..(k - 1))
      BY <2>2, FS_Interval
    <3>2. \A v \in 0..(k - 1) : f[v] \in Int /\ g[v] \in Int
      BY <2>5, <2>7
    <3>. QED
      BY <2>5, <3>1, <3>2, TotalSame
  <2>. QED
    BY <2>1, <2>6, <2>8 DEF f
<1>. HIDE DEF h, start, before
<1>10. PlacesRight'
  <2>1. ASSUME NEW u \in Units, NEW g \in Heads, NEW r \in Rows
        PROVE  IF Placed(g, r)' THEN tileCounts'[UnitIndex(u)][g][r] = Start(g, r) + Ahead(g, r, First(u))
               ELSE tileCounts'[UnitIndex(u)][g][r] = CountIn(g, r, First(u), End(u))
    <3>1. Placed(g, r)' <=> at'[BlockOf(g, r)] = 1
      BY <1>1 DEF Placed, BlockOf
    <3>2. BlockOf(g, r) \in Agents("PT")
      BY <1>3, BlockOfRow
    <3>3. g = h /\ r \in RowsOfBlock(a) <=> BlockOf(g, r) = a
      <4>1. r \in RowsOfBlock(a) <=> BlockOf(h, r) = a
        BY <1>3, BlockRows DEF h
      <4>2. BlockOf(g, r) = a => g = h
        BY <1>7 DEF BlockOf
      <4>. QED
        BY <4>1, <4>2
    <3>4. CASE BlockOf(g, r) = a
      BY <1>3, <1>8, <1>9, <3>1, <3>3, <3>4
    <3>5. CASE BlockOf(g, r) # a
      <4>1. Placed(g, r)' <=> Placed(g, r)
        BY <1>1, <1>3, <3>1, <3>2, <3>5 DEF Placed
      <4>2. tileCounts'[UnitIndex(u)][g][r] = tileCounts[UnitIndex(u)][g][r]
        BY <1>8, <3>3, <3>5
      <4>. QED
        BY <1>1, <1>3, <4>1, <4>2 DEF PlacesRight, TileRight
    <3>. QED
      BY <3>4, <3>5
  <2>2. \A g, r : CountIn(g, r, 0, 0)' = CountIn(g, r, 0, 0)
    BY <1>6 DEF CountIn
  <2>3. ASSUME NEW u, NEW g, NEW r
        PROVE  (Start(g, r) + Ahead(g, r, First(u)))' = Start(g, r) + Ahead(g, r, First(u))
               /\ CountIn(g, r, First(u), End(u))' = CountIn(g, r, First(u), End(u))
    <3>1. First(u)' = First(u) /\ End(u)' = End(u)
      BY <1>5
    <3>2. Ahead(g, r, First(u))' = Ahead(g, r, First(u)) /\ Ahead(g, r, End(u))' = Ahead(g, r, End(u))
      BY <1>6, <3>1 DEF Ahead
    <3>. QED
      BY <1>6, <3>2 DEF CountIn
  <2>4. ASSUME NEW u \in Units, NEW g \in Heads, NEW r \in Rows
        PROVE  (IF Placed(g, r) THEN tileCounts[UnitIndex(u)][g][r] = Start(g, r) + Ahead(g, r, First(u))
                ELSE TileRight(u, g, r))'
    BY <2>1, <2>3 DEF TileRight, UnitIndex
  <2>. QED
    BY <1>5, <2>4 DEF PlacesRight
<1>11. HistRight'
  <2>1. DOMAIN tileCounts = 0..(host.ctas * Warps - 1)
    BY <1>3 DEF TileGrid
  <2>2. tileCounts' = [k \in 0..(host.ctas * Warps - 1) |-> tileCounts'[k]]
    BY <1>1, <2>1
  <2>3. ASSUME NEW k \in 0..(host.ctas * Warps - 1) PROVE Grid(tileCounts'[k])
    <3>1. Grid(tileCounts[k])
      BY <1>3 DEF TileGrid
    <3>2. tileCounts'[k] = [tileCounts[k] EXCEPT ![h] = [r \in Rows |-> IF r \in RowsOfBlock(a) THEN start(k, r) ELSE @[r]]]
      BY <1>1, <2>1 DEF start, before, h
    <3>3. tileCounts[k] = [g \in Heads |-> [r \in Rows |-> tileCounts[k][g][r]]]
      BY <3>1 DEF Grid
    <3>4. ASSUME NEW g \in Heads PROVE tileCounts'[k][g] = [r \in Rows |-> tileCounts'[k][g][r]]
      <4>1. CASE g = h
        BY <1>7, <3>2, <3>3, <4>1
      <4>2. CASE g # h
        BY <3>2, <3>3, <4>2
      <4>. QED
        BY <4>1, <4>2
    <3>5. tileCounts'[k] = [g \in Heads |-> tileCounts'[k][g]]
      BY <3>2, <3>3
    <3>. QED
      BY <3>4, <3>5 DEF Grid
  <2>4. TileGrid'
    <3>1. \A k : Grid(tileCounts[k])' = Grid(tileCounts'[k])
      BY <1>5 DEF Grid
    <3>. QED
      BY <1>1, <2>2, <2>3, <3>1 DEF TileGrid
  <2>5. Grid(rowCounts)' /\ rowCounts' = [g \in Heads' |-> CountOfRow(g)']
    BY <1>1, <1>3, <1>5, <1>6 DEF HistRight, Grid
  <2>. QED
    BY <1>1, <2>4, <2>5 DEF HistRight
<1>. QED
  BY <1>4, <1>10, <1>11 DEF CsrIInv

-----------------------------------------------------------------------------
(***************************************************************************)
(* The scan of the row counts, and the rows that its threads emit.         *)
(***************************************************************************)
(* The rows between two others hold what lies between their starts.        *)
LEMMA RangeCounted ==
    ASSUME Fixed, NEW h, NEW a \in 0..host.rows, NEW b \in a..host.rows
    PROVE  Total(CountOfRow(h), a..(b - 1)) = Start(h, b) - Start(h, a)
<1>. DEFINE n == host.rows  f == CountOfRow(h)
<1>1. n \in Nat /\ host.numQ \in Nat
  BY Sizes
<1>2. ASSUME NEW r \in 0..(n - 1) PROVE f[r] \in Int
  <2>1. \A q \in Nat : Ahead(h, r, q) \in Nat
    BY AheadRight
  <2>. QED
    BY <1>1, <2>1 DEF CountOfRow, Rows
<1>3. Start(h, b) = Total(f, 0..(b - 1)) /\ Start(h, a) = Total(f, 0..(a - 1))
  BY DEF Start
<1>4. a \in Nat /\ b \in Nat /\ a <= b /\ b <= n
  BY <1>1
<1>. HIDE DEF n, f
<1>5. /\ 0..(b - 1) = (0..(a - 1)) \cup (a..(b - 1)) /\ (0..(a - 1)) \cap (a..(b - 1)) = {}
      /\ IsFiniteSet(0..(a - 1)) /\ IsFiniteSet(a..(b - 1))
  BY <1>4, FS_Interval
<1>6. \A r \in (0..(a - 1)) \cup (a..(b - 1)) : f[r] \in Int
  <2>1. \A r \in (0..(a - 1)) \cup (a..(b - 1)) : r \in 0..(n - 1)
    BY <1>1, <1>4
  <2>. QED
    BY <1>2, <2>1
<1>7. Total(f, (0..(a - 1)) \cup (a..(b - 1))) = Total(f, 0..(a - 1)) + Total(f, a..(b - 1))
  BY <1>5, <1>6, TotalUnion
<1>8. Total(f, 0..(a - 1)) \in Int /\ Total(f, a..(b - 1)) \in Int
  BY <1>5, <1>6, TotalFirst
<1>9. Total(f, a..(b - 1)) = Start(h, b) - Start(h, a)
  <2>1. Start(h, b) = Start(h, a) + Total(f, a..(b - 1)) /\ Start(h, a) \in Int
    BY <1>3, <1>5, <1>7, <1>8
  <2>. DEFINE x == Start(h, a)  y == Total(f, a..(b - 1))
  <2>2. x \in Int /\ y \in Int /\ Start(h, b) = x + y
    BY <1>8, <2>1
  <2>. HIDE DEF x, y
  <2>3. y = (x + y) - x
    BY <2>2
  <2>. QED
    BY <2>2, <2>3 DEF x, y
<1>. QED
  BY <1>9 DEF f

(* A step of PR keeps the threads of a block within one step of one        *)
(* another until they emit.                                                *)
LEMMA PrMoves ==
    ASSUME CsrIInv, NEW a \in DOMAIN at, stage = "PR", Moves(a),
           UNCHANGED <<rowMap, rowCoords, rowCounts, tileCounts, edges, splitCounts>>,
           Sync(a) \/ at[a] = 0 \/ at[a] > Emitting
    PROVE  /\ a \in Agents("PR") /\ a[1] \in Heads /\ a[2] \in 0..(ScanThreads - 1) /\ a = <<a[1], a[2]>>
           /\ Agents("PR")' = Agents("PR") /\ Fixed /\ Busy
           /\ (\A b \in Agents("PR") : at[b] \in Nat)
           /\ at' = [b \in Agents("PR") |-> IF b = a THEN at[a] + 1 ELSE at[b]]
           /\ InStep' /\ stage' = "PR" /\ UNCHANGED <<prob, host>>
           /\ (\A h, t, o : Reach(h, t, o)' = Reach(h, t, o))
           /\ Fixed' /\ Progress' /\ MapRight' /\ HistRight' /\ PlacesRight' /\ EdgesRight' /\ SplitsRight'
              /\ CursorsRight'
<1>1. /\ Fixed /\ Progress /\ ScanRight /\ stage' = "PR" /\ UNCHANGED <<prob, host>>
  BY DEF CsrIInv, Moves
<1>2. /\ a \in Agents("PR") /\ Agents("PR")' = Agents("PR") /\ Busy /\ at[a] \in Nat
      /\ (\A b \in Agents("PR") : at[b] \in Nat)
      /\ at' = [b \in Agents("PR") |-> IF b = a THEN at[a] + 1 ELSE at[b]]
      /\ at = [b \in Agents("PR") |-> at[b]]
  <2>1. Agents("PR")' = Agents("PR")
    BY <1>1, SizesKept
  <2>2. /\ a \in Agents(stage) /\ Busy /\ (\A b \in Agents(stage) : at[b] \in Nat)
        /\ at' = [b \in Agents(stage) |-> IF b = a THEN at[a] + 1 ELSE at[b]]
        /\ at = [b \in Agents(stage) |-> at[b]]
    BY <1>1, MovesRight
  <2>. QED
    BY <2>1, <2>2
<1>3. a[1] \in Heads /\ a[2] \in 0..(ScanThreads - 1) /\ a = <<a[1], a[2]>>
  BY <1>2 DEF Agents
<1>4. InStep'
  <2>1. Emitting \in Nat
    BY RoundsRight
  <2>2. \A b, c \in Agents("PR") : b[1] = c[1] => at[b] <= at[c] + 1 \/ at[c] >= Emitting
    BY <1>1 DEF ScanRight, InStep
  <2>3. ASSUME NEW c \in Agents("PR"), a[1] = c[1], c # a PROVE at[a] + 1 <= at[c] + 1 \/ at[c] >= Emitting
    <3>1. CASE Sync(a)
      <4>1. at[c] >= at[a]
        BY <1>2, <2>3, <3>1 DEF Sync
      <4>. QED
        BY <1>2, <4>1
    <3>2. CASE at[a] = 0
      BY <1>2, <3>2
    <3>3. CASE at[a] > Emitting
      <4>1. at[a] <= at[c] + 1 \/ at[c] >= Emitting
        BY <1>2, <2>2, <2>3
      <4>. QED
        BY <1>2, <2>1, <3>3, <4>1
    <3>. QED
      BY <3>1, <3>2, <3>3
  <2>4. ASSUME NEW b \in Agents("PR"), NEW c \in Agents("PR"), b[1] = c[1]
        PROVE  at'[b] <= at'[c] + 1 \/ at'[c] >= Emitting
    <3>1. at[b] <= at[c] + 1 \/ at[c] >= Emitting
      BY <2>2, <2>4
    <3>2. at'[b] = (IF b = a THEN at[a] + 1 ELSE at[b]) /\ at'[c] = (IF c = a THEN at[a] + 1 ELSE at[c])
      BY <1>2
    <3>3. at[b] \in Nat /\ at[c] \in Nat
      BY <1>2
    <3>4. CASE b = a /\ c = a
      BY <1>2, <3>2, <3>4
    <3>5. CASE b = a /\ c # a
      BY <2>1, <2>3, <2>4, <3>2, <3>5
    <3>6. CASE b # a
      BY <2>1, <3>1, <3>2, <3>3, <3>6
    <3>. QED
      BY <3>4, <3>5, <3>6
  <2>. QED
    BY <1>2, <2>4 DEF InStep, Emitting
<1>5. \A h, t, o : Reach(h, t, o)' = Reach(h, t, o)
  BY <1>1, CountsKept
<1>6. Fixed' /\ Progress' /\ MapRight' /\ HistRight' /\ PlacesRight' /\ EdgesRight' /\ SplitsRight'
      /\ CursorsRight'
  BY Kept
<1>. QED
  BY <1>1, <1>2, <1>3, <1>4, <1>5, <1>6

(* A thread emits nothing before the scan has ended.                       *)
LEMMA NotEmitting ==
    ASSUME CsrIInv, NEW a \in DOMAIN at, stage = "PR", Moves(a), at[a] < Emitting,
           UNCHANGED <<rowMap, rowCoords, rowCounts, rowPtr, items, workCount>>
    PROVE  PtrRight' /\ ItemsRight'
<1>1. /\ Fixed /\ Busy /\ PtrRight /\ ItemsRight /\ stage' = "PR" /\ UNCHANGED <<prob, host>>
      /\ a \in Agents("PR") /\ (\A b \in Agents("PR") : at[b] \in Nat)
      /\ at' = [b \in Agents("PR") |-> IF b = a THEN at[a] + 1 ELSE at[b]]
  <2>1. Fixed /\ Progress /\ PtrRight /\ ItemsRight
    BY DEF CsrIInv
  <2>2. /\ a \in Agents(stage) /\ Busy /\ (\A b \in Agents(stage) : at[b] \in Nat)
        /\ at' = [b \in Agents(stage) |-> IF b = a THEN at[a] + 1 ELSE at[b]]
    BY <2>1, MovesRight
  <2>. QED
    BY <2>1, <2>2 DEF Moves
<1>2. Heads' = Heads /\ Rows' = Rows /\ (\A r : ThreadOf(r)' = ThreadOf(r))
      /\ (\A t : FirstRow(t)' = FirstRow(t))
  BY <1>1, SizesKept
<1>3. ASSUME NEW h \in Heads, NEW r \in Rows PROVE Emitted(h, r)' <=> Emitted(h, r)
  <2>. DEFINE b == <<h, ThreadOf(r)>>  d == r - FirstRow(ThreadOf(r))
  <2>1. b \in Agents("PR") /\ d \in Nat
    <3>1. ThreadOf(r) \in 0..(ScanThreads - 1) /\ r \in RowsOfThread(ThreadOf(r)) /\ ThreadOf(r) \in Nat
      BY <1>1, ThreadsRight, Positive
    <3>. DEFINE t == ThreadOf(r)
    <3>2. Bound(t) \in 0..host.rows /\ RowsOfThread(t) = Bound(t)..(Bound(t + 1) - 1)
          /\ FirstRow(t) = Bound(t)
      <4>. HIDE DEF t
      <4>. QED
        BY <1>1, <3>1, ThreadsRight DEF t
    <3>3. Bound(t + 1) \in 0..host.rows /\ host.rows \in Nat
      <4>1. t + 1 \in Nat
        BY <3>1
      <4>. HIDE DEF t
      <4>. QED
        BY <1>1, <4>1, ThreadsRight, Sizes
    <3>4. r - FirstRow(t) \in Nat
      <4>1. r \in RowsOfThread(t)
        BY <3>1
      <4>. HIDE DEF t
      <4>. QED
        BY <3>2, <3>3, <4>1
    <3>. QED
      BY <3>1, <3>4 DEF Agents
  <2>2. (Emitted(h, r) <=> at[b] > Emitting + d) /\ (Emitted(h, r)' <=> at'[b] > Emitting + d)
    <3>1. ThreadOf(r)' = ThreadOf(r)
      BY <1>2
    <3>2. FirstRow(ThreadOf(r))' = FirstRow(ThreadOf(r))
      BY <1>1, <3>1 DEF FirstRow
    <3>3. Emitting' = Emitting
      BY DEF Emitting, ScanRounds
    <3>. QED
      BY <1>1, <3>1, <3>2, <3>3 DEF Emitted
  <2>. HIDE DEF b, d
  <2>3. Emitting \in Nat
    BY RoundsRight
  <2>4. CASE b = a
    <3>1. ~ (at[b] > Emitting + d) /\ ~ (at'[b] > Emitting + d)
      BY <1>1, <2>1, <2>3, <2>4
    <3>. QED
      BY <2>2, <3>1
  <2>5. CASE b # a
    BY <1>1, <2>1, <2>2, <2>5
  <2>. QED
    BY <2>4, <2>5
<1>4. /\ (\A h, r : Start(h, r)' = Start(h, r)) /\ ChunksOf' = ChunksOf
      /\ \A h, r, c : ChunkItem(h, r, c)' = ChunkItem(h, r, c)
  BY <1>1, CountsKept DEF ChunkItem
<1>5. PtrRight'
  <2>1. rowPtr' = [h \in Heads' |-> [i \in 0..host'.rows |-> rowPtr'[h][i]]]
    BY <1>1, <1>2 DEF PtrRight
  <2>2. \A h \in Heads : rowPtr'[h][0] = 0
        /\ \A r \in Rows : Emitted(h, r)' => rowPtr'[h][r + 1] = Start(h, r + 1)
    BY <1>1, <1>3 DEF PtrRight
  <2>. QED
    BY <1>2, <1>4, <2>1, <2>2 DEF PtrRight
<1>6. ItemsRight'
  <2>1. RowsEmitted' = RowsEmitted
    BY <1>2, <1>3 DEF RowsEmitted
  <2>. QED
    BY <1>1, <1>4, <2>1, ZenonT(30) DEF ItemsRight
<1>. QED
  BY <1>5, <1>6

(* The distances of the scan: the same for the reads and the additions of  *)
(* a round, and twice as much in the next.                                 *)
LEMMA OffsetsRight ==
    ASSUME NEW n \in 1..(Emitting - 1)
    PROVE  /\ n + 1 \in 1..Emitting /\ Smaller(n, Emitting) = n /\ Smaller(n + 1, Emitting) = n + 1
           /\ OffsetAt(n) \in Nat \ {0}
           /\ n % 2 = 1 => n + 1 \in 2..(Emitting - 1) /\ (n + 1) % 2 = 0 /\ OffsetAt(n + 1) = OffsetAt(n)
           /\ n % 2 = 0 => n \in 2..(Emitting - 1) /\ (n + 1) % 2 = 1 /\ OffsetAt(n + 1) = 2 * OffsetAt(n)
<1>1. ScanRounds \in Nat /\ Emitting = 2 * ScanRounds + 1 /\ Emitting \in Nat
  BY RoundsRight
<1>2. OffsetAt(n) \in Nat \ {0}
  <2>1. n \in 1..Emitting
    BY <1>1
  <2>. QED
    BY <2>1, RoundsRight
<1>3. n \in Nat /\ n < Emitting /\ n + 1 \in 1..Emitting
  BY <1>1
<1>4. Smaller(n, Emitting) = n /\ Smaller(n + 1, Emitting) = n + 1
  BY <1>1, <1>3 DEF Smaller
<1>5. ASSUME n % 2 = 1 PROVE n + 1 \in 2..(Emitting - 1) /\ (n + 1) % 2 = 0 /\ OffsetAt(n + 1) = OffsetAt(n)
  <2>1. n + 1 \in 2..(Emitting - 1) /\ (n + 1) % 2 = 0 /\ ((n + 1) - 1) \div 2 = (n - 1) \div 2
    BY <1>1, <1>5
  <2>. QED
    BY <2>1 DEF OffsetAt
<1>6. ASSUME n % 2 = 0 PROVE n \in 2..(Emitting - 1) /\ (n + 1) % 2 = 1 /\ OffsetAt(n + 1) = 2 * OffsetAt(n)
  <2>. DEFINE k == (n - 1) \div 2
  <2>1. n \in 2..(Emitting - 1) /\ (n + 1) % 2 = 1 /\ k \in Nat /\ ((n + 1) - 1) \div 2 = k + 1
    BY <1>1, <1>6
  <2>. HIDE DEF k
  <2>2. Doubled[k + 1] = 2 * Doubled[k]
    BY <2>1, DoubledRight
  <2>3. OffsetAt(n + 1) = 2 * OffsetAt(n)
    BY <2>1, <2>2 DEF OffsetAt, k
  <2>. QED
    BY <2>1, <2>3
<1>. QED
  BY <1>2, <1>3, <1>4, <1>5, <1>6

(* What a thread adds in a round: the sums of its reach and of the thread  *)
(* it reads from make a reach twice as long.                               *)
LEMMA ReachTwice ==
    ASSUME Fixed, Busy, NEW h, NEW t \in Nat, NEW off \in Nat \ {0}
    PROVE  /\ Reach(h, t, off) \in Int
           /\ Reach(h, t, 2 * off) = Reach(h, t, off) + (IF t >= off THEN Reach(h, t - off, off) ELSE 0)
<1>. DEFINE S(k) == Start(h, Bound(k))
<1>1. \A k \in Nat : S(k) \in Int
  <2>1. \A k \in Nat : Bound(k) \in 0..host.rows
    BY ThreadsRight
  <2>2. \A r \in 0..host.rows : Start(h, r) \in Nat
    BY StartRight
  <2>. QED
    BY <2>1, <2>2
<1>2. \A v, o : Reach(h, v, o) = S(v + 1) - S(Larger(0, v + 1 - o))
  BY DEF Reach
<1>. HIDE DEF S
<1>3. Larger(0, t + 1 - off) \in Nat /\ t + 1 \in Nat
  BY DEF Larger
<1>4. Reach(h, t, off) \in Int
  BY <1>1, <1>2, <1>3
<1>5. CASE t >= off
  <2>1. Larger(0, t + 1 - off) = (t - off) + 1
        /\ Larger(0, t + 1 - 2 * off) = Larger(0, (t - off) + 1 - off)
    BY <1>5 DEF Larger
  <2>2. Larger(0, (t - off) + 1 - off) \in Nat /\ (t - off) + 1 \in Nat
    BY <1>5 DEF Larger
  <2>3. /\ Reach(h, t, off) = S(t + 1) - S((t - off) + 1)
        /\ Reach(h, t - off, off) = S((t - off) + 1) - S(Larger(0, (t - off) + 1 - off))
        /\ Reach(h, t, 2 * off) = S(t + 1) - S(Larger(0, (t - off) + 1 - off))
    BY <1>2, <2>1
  <2>. DEFINE x == S(t + 1)  y == S((t - off) + 1)  z == S(Larger(0, (t - off) + 1 - off))
  <2>4. x \in Int /\ y \in Int /\ z \in Int
    BY <1>1, <1>3, <2>2
  <2>5. Reach(h, t, off) = x - y /\ Reach(h, t - off, off) = y - z /\ Reach(h, t, 2 * off) = x - z
    BY <2>3
  <2>. HIDE DEF x, y, z
  <2>6. x - z = (x - y) + (y - z)
    BY <2>4
  <2>. QED
    BY <1>4, <1>5, <2>5, <2>6
<1>6. CASE ~ (t >= off)
  <2>1. Larger(0, t + 1 - off) = 0 /\ Larger(0, t + 1 - 2 * off) = 0
    BY <1>6 DEF Larger
  <2>2. Reach(h, t, off) = Reach(h, t, 2 * off)
    BY <1>2, <2>1
  <2>. QED
    BY <1>4, <1>6, <2>2
<1>. QED
  BY <1>5, <1>6

(* A thread adds up its rows.                                              *)
LEMMA LocalStep ==
    ASSUME CsrIInv, NEW a \in DOMAIN at, ScanLocal(a)
    PROVE  CsrIInv'
<1>1. /\ stage = "PR" /\ at[a] = 0 /\ Did(a)
      /\ scan' = [scan EXCEPT ![a] = CountOf(a[1], RowsOfThread(a[2]))]
      /\ UNCHANGED <<prob, host, wanted, stage, rowMap, rowCoords, smem, rowCounts, tileCounts, rowPtr, addend, items,
                     workCount, edges, splitCounts>>
  BY DEF ScanLocal, UnchangedM, UnchangedS
<1>2. Emitting \in Nat /\ Emitting >= 1 /\ OffsetAt(1) = 1
  <2>1. ScanRounds \in Nat /\ Emitting = 2 * ScanRounds + 1 /\ OffsetAt(1) = 1
    BY RoundsRight
  <2>. QED
    BY <2>1
<1>3. Moves(a)
  <2>1. a \in Agents("PR") /\ Fixed /\ Busy
    BY <1>1 DEF CsrIInv, Progress
  <2>2. 0 < StepsOf("PR", a)
    <3>1. StepsOf("PR", a) = Emitting + Cardinality(RowsOfThread(a[2]))
      BY DEF StepsOf
    <3>2. Cardinality(RowsOfThread(a[2])) \in Nat
      <4>1. a[2] \in Nat
        BY <2>1 DEF Agents
      <4>2. IsFiniteSet(RowsOfThread(a[2]))
        BY <2>1, <4>1, ThreadsRight
      <4>. QED
        BY <4>2, FS_CardinalityType
    <3>. QED
      BY <1>2, <3>1, <3>2
  <2>. QED
    BY <1>1, <2>2 DEF Moves
<1>4. /\ a \in Agents("PR") /\ a[1] \in Heads /\ a[2] \in 0..(ScanThreads - 1)
      /\ Agents("PR")' = Agents("PR") /\ Fixed /\ Busy
      /\ at' = [b \in Agents("PR") |-> IF b = a THEN at[a] + 1 ELSE at[b]]
      /\ InStep' /\ stage' = "PR"
      /\ (\A h, t, o : Reach(h, t, o)' = Reach(h, t, o))
      /\ Fixed' /\ Progress' /\ MapRight' /\ HistRight' /\ PlacesRight' /\ EdgesRight' /\ SplitsRight'
         /\ CursorsRight'
  BY <1>1, <1>3, PrMoves
<1>5. PtrRight' /\ ItemsRight'
  <2>1. at[a] < Emitting
    BY <1>1, <1>2
  <2>. QED
    BY <1>1, <1>3, <2>1, NotEmitting
<1>6. CountOf(a[1], RowsOfThread(a[2])) = Reach(a[1], a[2], 1)
  <2>. DEFINE h == a[1]  t == a[2]
  <2>1. rowCounts[h] = CountOfRow(h)
    BY <1>1, <1>4 DEF CsrIInv, HistRight
  <2>2. t \in Nat /\ t + 1 \in Nat /\ Larger(0, t + 1 - 1) = t
    BY <1>4 DEF Larger
  <2>. HIDE DEF h, t
  <2>3. Bound(t) \in 0..host.rows /\ Bound(t) <= Bound(t + 1) /\ Bound(t + 1) \in 0..host.rows
        /\ RowsOfThread(t) = Bound(t)..(Bound(t + 1) - 1)
    BY <1>4, <2>2, ThreadsRight
  <2>4. Bound(t + 1) \in Bound(t)..host.rows
    BY <2>3
  <2>5. Total(CountOfRow(h), Bound(t)..(Bound(t + 1) - 1)) = Start(h, Bound(t + 1)) - Start(h, Bound(t))
    BY <1>4, <2>3, <2>4, RangeCounted
  <2>. QED
    BY <2>1, <2>2, <2>3, <2>5 DEF CountOf, Reach, h, t
<1>7. ScanRight'
  <2>1. scan = [b \in Agents("PR") |-> IF at[b] = 0 THEN 0 ELSE Reach(b[1], b[2], OffsetAt(Smaller(at[b], Emitting)))]
    BY <1>1 DEF CsrIInv, ScanRight
  <2>2. at'[a] = 1 /\ Smaller(1, Emitting) = 1
    BY <1>1, <1>2, <1>4 DEF Smaller
  <2>3. ASSUME NEW b \in Agents("PR")
        PROVE  scan'[b] = IF at'[b] = 0 THEN 0 ELSE Reach(b[1], b[2], OffsetAt(Smaller(at'[b], Emitting)))
    <3>1. CASE b = a
      BY <1>1, <1>2, <1>4, <1>6, <2>1, <2>2, <3>1
    <3>2. CASE b # a
      <4>1. scan'[b] = scan[b] /\ at'[b] = at[b]
        BY <1>1, <1>4, <2>1, <3>2
      <4>. QED
        BY <2>1, <4>1
    <3>. QED
      BY <3>1, <3>2
  <2>4. scan' = [b \in Agents("PR") |-> IF at'[b] = 0 THEN 0 ELSE Reach(b[1], b[2], OffsetAt(Smaller(at'[b], Emitting)))]
    <3>1. scan' = [b \in Agents("PR") |-> scan'[b]]
      BY <1>1, <2>1
    <3>. QED
      BY <2>3, <3>1
  <2>5. addend' = [b \in Agents("PR") |-> addend'[b]]
    BY <1>1 DEF CsrIInv, ScanRight
  <2>6. ASSUME NEW b \in Agents("PR"), at'[b] \in 2..(Emitting - 1), at'[b] % 2 = 0
        PROVE  addend'[b] = IF b[2] >= OffsetAt(at'[b]) THEN Reach(b[1], b[2] - OffsetAt(at'[b]), OffsetAt(at'[b])) ELSE 0
    <3>1. b # a
      BY <2>2, <2>6
    <3>2. at'[b] = at[b]
      BY <1>4, <3>1
    <3>. QED
      BY <1>1, <2>6, <3>2 DEF CsrIInv, ScanRight
  <2>7. \A n : OffsetAt(n)' = OffsetAt(n)
    BY DEF OffsetAt, Doubled
  <2>8. Emitting' = Emitting
    BY DEF Emitting, ScanRounds
  <2>. QED
    BY <1>4, <2>4, <2>5, <2>6, <2>7, <2>8 DEF ScanRight
<1>. QED
  BY <1>4, <1>5, <1>7 DEF CsrIInv

(* A step of the scan: what it reads of the other threads of its block,    *)
(* and what it leaves alone.                                               *)
LEMMA ScanMoves ==
    ASSUME CsrIInv, NEW a \in DOMAIN at, stage = "PR", Did(a), Sync(a),
           NEW n \in 1..(Emitting - 1), at[a] = n,
           UNCHANGED <<prob, host, wanted, stage, rowMap, rowCoords, smem, rowCounts, tileCounts, rowPtr, items,
                       workCount, edges, splitCounts>>
    PROVE  /\ a \in Agents("PR") /\ a[1] \in Heads /\ a[2] \in 0..(ScanThreads - 1) /\ a = <<a[1], a[2]>>
           /\ Agents("PR")' = Agents("PR") /\ Fixed /\ Busy
           /\ at' = [b \in Agents("PR") |-> IF b = a THEN n + 1 ELSE at[b]]
           /\ \A b \in Agents("PR") : b[1] = a[1] => at[b] \in {n, n + 1}
           /\ scan = [b \in Agents("PR") |-> IF at[b] = 0 THEN 0 ELSE Reach(b[1], b[2], OffsetAt(Smaller(at[b], Emitting)))]
           /\ addend = [b \in Agents("PR") |-> addend[b]]
           /\ (ScanRight' <=>
                /\ scan' = [b \in Agents("PR") |-> IF at'[b] = 0 THEN 0 ELSE Reach(b[1], b[2], OffsetAt(Smaller(at'[b], Emitting)))]
                /\ addend' = [b \in Agents("PR") |-> addend'[b]]
                /\ \A b \in Agents("PR") : at'[b] \in 2..(Emitting - 1) /\ at'[b] % 2 = 0 =>
                     addend'[b] = IF b[2] >= OffsetAt(at'[b])
                                  THEN Reach(b[1], b[2] - OffsetAt(at'[b]), OffsetAt(at'[b])) ELSE 0)
           /\ ScanRight' => CsrIInv'
<1>1. Emitting \in Nat /\ n \in Nat /\ n < Emitting /\ n > 0
  BY RoundsRight
<1>2. Moves(a)
  <2>1. a \in Agents("PR") /\ Fixed /\ Busy
    BY DEF CsrIInv, Progress
  <2>2. StepsOf("PR", a) = Emitting + Cardinality(RowsOfThread(a[2]))
    BY DEF StepsOf
  <2>3. Cardinality(RowsOfThread(a[2])) \in Nat
    <3>1. a[2] \in Nat
      BY <2>1 DEF Agents
    <3>2. IsFiniteSet(RowsOfThread(a[2]))
      BY <2>1, <3>1, ThreadsRight
    <3>. QED
      BY <3>2, FS_CardinalityType
  <2>4. at[a] < StepsOf(stage, a)
    BY <1>1, <2>2, <2>3
  <2>. QED
    BY <2>4 DEF Moves
<1>3. /\ a \in Agents("PR") /\ a[1] \in Heads /\ a[2] \in 0..(ScanThreads - 1) /\ a = <<a[1], a[2]>>
      /\ Agents("PR")' = Agents("PR") /\ Fixed /\ Busy
      /\ (\A b \in Agents("PR") : at[b] \in Nat)
      /\ at' = [b \in Agents("PR") |-> IF b = a THEN at[a] + 1 ELSE at[b]]
      /\ InStep' /\ stage' = "PR"
      /\ (\A h, t, o : Reach(h, t, o)' = Reach(h, t, o))
      /\ Fixed' /\ Progress' /\ MapRight' /\ HistRight' /\ PlacesRight' /\ EdgesRight' /\ SplitsRight'
         /\ CursorsRight'
  BY <1>2, PrMoves
<1>4. PtrRight' /\ ItemsRight'
  BY <1>1, <1>2, NotEmitting
<1>5. ASSUME NEW b \in Agents("PR"), b[1] = a[1] PROVE at[b] \in {n, n + 1}
  <2>1. at[b] <= at[a] + 1 \/ at[a] >= Emitting
    BY <1>3, <1>5 DEF CsrIInv, ScanRight, InStep
  <2>2. at[b] >= at[a]
    BY <1>3, <1>5 DEF Sync, CsrIInv, Progress
  <2>. QED
    BY <1>1, <1>3, <2>1, <2>2
<1>6. /\ scan = [b \in Agents("PR") |-> IF at[b] = 0 THEN 0 ELSE Reach(b[1], b[2], OffsetAt(Smaller(at[b], Emitting)))]
      /\ addend = [b \in Agents("PR") |-> addend[b]]
  BY DEF CsrIInv, ScanRight
<1>7. ScanRight' <=>
        /\ scan' = [b \in Agents("PR") |-> IF at'[b] = 0 THEN 0 ELSE Reach(b[1], b[2], OffsetAt(Smaller(at'[b], Emitting)))]
        /\ addend' = [b \in Agents("PR") |-> addend'[b]]
        /\ \A b \in Agents("PR") : at'[b] \in 2..(Emitting - 1) /\ at'[b] % 2 = 0 =>
             addend'[b] = IF b[2] >= OffsetAt(at'[b])
                          THEN Reach(b[1], b[2] - OffsetAt(at'[b]), OffsetAt(at'[b])) ELSE 0
  <2>1. \A k : OffsetAt(k)' = OffsetAt(k)
    BY DEF OffsetAt, Doubled
  <2>2. Emitting' = Emitting
    BY DEF Emitting, ScanRounds
  <2>. QED
    BY <1>3, <2>1, <2>2 DEF ScanRight
<1>8. ScanRight' => CsrIInv'
  BY <1>3, <1>4 DEF CsrIInv
<1>. QED
  BY <1>3, <1>5, <1>6, <1>7, <1>8

(* A thread reads the sum of the thread a distance before it.              *)
LEMMA ReadStep ==
    ASSUME CsrIInv, NEW a \in DOMAIN at, ScanRead(a)
    PROVE  CsrIInv'
<1>. DEFINE n == at[a]  off == OffsetAt(n)
<1>1. /\ stage = "PR" /\ n \in 1..(Emitting - 1) /\ n % 2 = 1 /\ Did(a) /\ Sync(a)
      /\ addend' = [addend EXCEPT ![a] = IF a[2] >= off THEN scan[<<a[1], a[2] - off>>] ELSE 0]
      /\ scan' = scan
      /\ UNCHANGED <<prob, host, wanted, stage, rowMap, rowCoords, smem, rowCounts, tileCounts, rowPtr, items,
                     workCount, edges, splitCounts>>
  BY DEF ScanRead, UnchangedM, UnchangedS, OffsetAt
<1>2. /\ a \in Agents("PR") /\ a[1] \in Heads /\ a[2] \in 0..(ScanThreads - 1) /\ a = <<a[1], a[2]>>
      /\ at' = [b \in Agents("PR") |-> IF b = a THEN n + 1 ELSE at[b]]
      /\ (\A b \in Agents("PR") : b[1] = a[1] => at[b] \in {n, n + 1})
      /\ scan = [b \in Agents("PR") |-> IF at[b] = 0 THEN 0 ELSE Reach(b[1], b[2], OffsetAt(Smaller(at[b], Emitting)))]
      /\ addend = [b \in Agents("PR") |-> addend[b]]
  BY <1>1, ScanMoves
<1>3. /\ n + 1 \in 2..(Emitting - 1) /\ OffsetAt(n + 1) = off /\ off \in Nat \ {0} /\ n \in Nat /\ n # 0
         /\ n + 1 # 0
      /\ Smaller(n, Emitting) = n /\ Smaller(n + 1, Emitting) = n + 1
  <2>1. n \in 1..(Emitting - 1) /\ n % 2 = 1 /\ Emitting \in Nat
    BY <1>1, RoundsRight
  <2>. HIDE DEF n
  <2>2. n \in Nat /\ n # 0 /\ n + 1 # 0
    BY <2>1
  <2>. QED
    BY <2>1, <2>2, OffsetsRight
<1>. HIDE DEF n
<1>4. ASSUME NEW b \in Agents("PR"), b[1] = a[1] PROVE scan[b] = Reach(b[1], b[2], off)
  BY <1>2, <1>3, <1>4
<1>5. \A b \in Agents("PR") :
        scan'[b] = IF at'[b] = 0 THEN 0 ELSE Reach(b[1], b[2], OffsetAt(Smaller(at'[b], Emitting)))
  <2>1. ASSUME NEW b \in Agents("PR")
        PROVE  scan'[b] = IF at'[b] = 0 THEN 0 ELSE Reach(b[1], b[2], OffsetAt(Smaller(at'[b], Emitting)))
    <3>1. CASE b = a
      BY <1>1, <1>2, <1>3, <1>4, <3>1
    <3>2. CASE b # a
      BY <1>1, <1>2, <3>2
    <3>. QED
      BY <3>1, <3>2
  <2>. QED
    BY <2>1
<1>6. scan' = [b \in Agents("PR") |-> IF at'[b] = 0 THEN 0 ELSE Reach(b[1], b[2], OffsetAt(Smaller(at'[b], Emitting)))]
  <2>1. scan' = [b \in Agents("PR") |-> scan'[b]]
    BY <1>1, <1>2
  <2>. QED
    BY <1>5, <2>1
<1>7. addend' = [b \in Agents("PR") |-> addend'[b]]
  <2>. DEFINE v == IF a[2] >= off THEN scan[<<a[1], a[2] - off>>] ELSE 0
  <2>1. addend' = [addend EXCEPT ![a] = v] /\ DOMAIN addend = Agents("PR")
    BY <1>1, <1>2
  <2>. HIDE DEF v
  <2>. QED
    BY <2>1
<1>8. ASSUME NEW b \in Agents("PR"), at'[b] \in 2..(Emitting - 1), at'[b] % 2 = 0
      PROVE  addend'[b] = IF b[2] >= OffsetAt(at'[b]) THEN Reach(b[1], b[2] - OffsetAt(at'[b]), OffsetAt(at'[b])) ELSE 0
  <2>1. CASE b = a
    <3>1. at'[b] = n + 1
      BY <1>2, <2>1
    <3>2. addend'[a] = IF a[2] >= off THEN scan[<<a[1], a[2] - off>>] ELSE 0
      BY <1>1, <1>2
    <3>3. CASE a[2] >= off
      <4>. DEFINE c == <<a[1], a[2] - off>>
      <4>1. c \in Agents("PR") /\ c[1] = a[1] /\ c[2] = a[2] - off
        BY <1>2, <1>3, <3>3, Positive DEF Agents
      <4>2. scan[c] = Reach(a[1], a[2] - off, off)
        BY <1>4, <4>1
      <4>. QED
        BY <1>3, <2>1, <3>1, <3>2, <3>3, <4>2
    <3>4. CASE ~ (a[2] >= off)
      BY <1>3, <2>1, <3>1, <3>2, <3>4
    <3>. QED
      BY <3>3, <3>4
  <2>2. CASE b # a
    <3>1. at'[b] = at[b] /\ addend'[b] = addend[b]
      BY <1>1, <1>2, <2>2
    <3>. QED
      BY <1>1, <1>8, <3>1 DEF CsrIInv, ScanRight
  <2>. QED
    BY <2>1, <2>2
<1>9. ScanRight'
  BY <1>1, <1>6, <1>7, <1>8, ScanMoves DEF n
<1>. QED
  BY <1>1, <1>9, ScanMoves DEF n

(* A thread adds what it has read, which doubles its reach.                *)
LEMMA AddStep ==
    ASSUME CsrIInv, NEW a \in DOMAIN at, ScanAdd(a)
    PROVE  CsrIInv'
<1>. DEFINE n == at[a]  off == OffsetAt(n)
<1>1. /\ stage = "PR" /\ n \in 1..(Emitting - 1) /\ n % 2 = 0 /\ Did(a) /\ Sync(a)
      /\ scan' = [scan EXCEPT ![a] = @ + addend[a]]
      /\ addend' = addend
      /\ UNCHANGED <<prob, host, wanted, stage, rowMap, rowCoords, smem, rowCounts, tileCounts, rowPtr, items,
                     workCount, edges, splitCounts>>
  BY DEF ScanAdd, UnchangedM, UnchangedS
<1>2. /\ a \in Agents("PR") /\ a[1] \in Heads /\ a[2] \in 0..(ScanThreads - 1) /\ a = <<a[1], a[2]>>
         /\ Fixed /\ Busy
      /\ at' = [b \in Agents("PR") |-> IF b = a THEN n + 1 ELSE at[b]]
      /\ scan = [b \in Agents("PR") |-> IF at[b] = 0 THEN 0 ELSE Reach(b[1], b[2], OffsetAt(Smaller(at[b], Emitting)))]
      /\ addend = [b \in Agents("PR") |-> addend[b]]
  BY <1>1, ScanMoves
<1>3. /\ n \in 2..(Emitting - 1) /\ OffsetAt(n + 1) = 2 * off /\ off \in Nat \ {0} /\ n \in Nat /\ n # 0
         /\ n + 1 # 0
      /\ (n + 1) % 2 = 1 /\ Smaller(n, Emitting) = n /\ Smaller(n + 1, Emitting) = n + 1
  <2>1. n \in 1..(Emitting - 1) /\ n % 2 = 0 /\ Emitting \in Nat
    BY <1>1, RoundsRight
  <2>. HIDE DEF n
  <2>2. n \in Nat /\ n # 0 /\ n + 1 # 0
    BY <2>1
  <2>. QED
    BY <2>1, <2>2, OffsetsRight
<1>4. addend[a] = IF a[2] >= off THEN Reach(a[1], a[2] - off, off) ELSE 0
  BY <1>1, <1>2, <1>3 DEF CsrIInv, ScanRight
<1>. HIDE DEF n
<1>5. scan[a] + addend[a] = Reach(a[1], a[2], 2 * off)
  <2>1. a[2] \in Nat
    BY <1>2
  <2>2. scan[a] = Reach(a[1], a[2], off)
    BY <1>2, <1>3 DEF n
  <2>. QED
    BY <1>2, <1>3, <1>4, <2>1, <2>2, ReachTwice
<1>6. \A b \in Agents("PR") :
        scan'[b] = IF at'[b] = 0 THEN 0 ELSE Reach(b[1], b[2], OffsetAt(Smaller(at'[b], Emitting)))
  <2>1. ASSUME NEW b \in Agents("PR")
        PROVE  scan'[b] = IF at'[b] = 0 THEN 0 ELSE Reach(b[1], b[2], OffsetAt(Smaller(at'[b], Emitting)))
    <3>1. CASE b = a
      <4>1. scan'[b] = Reach(a[1], a[2], 2 * off)
        BY <1>1, <1>2, <1>5, <3>1
      <4>2. at'[b] = n + 1
        BY <1>2, <3>1
      <4>. QED
        BY <1>3, <3>1, <4>1, <4>2
    <3>2. CASE b # a
      <4>1. scan'[b] = scan[b] /\ at'[b] = at[b]
        BY <1>1, <1>2, <3>2
      <4>. QED
        BY <1>2, <4>1
    <3>. QED
      BY <3>1, <3>2
  <2>. QED
    BY <2>1
<1>7. scan' = [b \in Agents("PR") |-> IF at'[b] = 0 THEN 0 ELSE Reach(b[1], b[2], OffsetAt(Smaller(at'[b], Emitting)))]
  <2>1. scan' = [b \in Agents("PR") |-> scan'[b]]
    BY <1>1, <1>2
  <2>. QED
    BY <1>6, <2>1
<1>8. ASSUME NEW b \in Agents("PR"), at'[b] \in 2..(Emitting - 1), at'[b] % 2 = 0
      PROVE  addend'[b] = IF b[2] >= OffsetAt(at'[b]) THEN Reach(b[1], b[2] - OffsetAt(at'[b]), OffsetAt(at'[b])) ELSE 0
  <2>1. b # a
    <3>1. at'[a] = n + 1
      BY <1>2
    <3>. QED
      BY <1>3, <1>8, <3>1
  <2>2. at'[b] = at[b] /\ addend'[b] = addend[b]
    BY <1>1, <1>2, <2>1
  <2>. QED
    BY <1>1, <1>8, <2>2 DEF CsrIInv, ScanRight
<1>9. ScanRight'
  BY <1>1, <1>2, <1>7, <1>8, ScanMoves DEF n
<1>. QED
  BY <1>1, <1>9, ScanMoves DEF n

(* All that chose a row are ahead of the end of the queries.               *)
LEMMA AllAhead ==
    ASSUME Fixed, NEW h, NEW r
    PROVE  IsFiniteSet(Chose(h, r)) /\ Ahead(h, r, host.numQ) = Cardinality(Chose(h, r))
<1>1. host.numQ \in Nat /\ IsFiniteSet(Chose(h, r))
  BY Sizes, AheadRight
<1>2. \A q \in Chose(h, r) : q < host.numQ
  BY <1>1 DEF Chose, Queries
<1>3. {q \in Chose(h, r) : q < host.numQ} = Chose(h, r)
  BY <1>2
<1>. QED
  BY <1>1, <1>3 DEF Ahead, Under

(* A row is chosen by a slot of a query: the rows of a head hold no more   *)
(* than its slots.                                                         *)
LEMMA RoomInHead ==
    ASSUME Fixed, NEW h
    PROVE  Start(h, host.rows) <= QIdxSize /\ QIdxSize \in Nat
<1>. DEFINE F == [r \in Rows |-> Chose(h, r)]  T == Queries \X (1..TopK)  f == CountOfRow(h)
            slot(r, q) == CHOOSE s \in 1..TopK : RowAt(h, q, s) = r
            g == [x \in Rows \X Queries |-> <<x[2], slot(x[1], x[2])>>]
<1>1. host.rows \in Nat /\ host.numQ \in Nat /\ TopK \in Nat \ {0}
  BY Sizes, Positive
<1>2. IsFiniteSet(T) /\ Cardinality(T) = QIdxSize
  <2>1. IsFiniteSet(Queries) /\ Cardinality(Queries) = host.numQ
    BY <1>1, Counting DEF Queries
  <2>2. IsFiniteSet(1..TopK) /\ Cardinality(1..TopK) = TopK
    BY <1>1, Counting
  <2>. QED
    BY <2>1, <2>2, FS_Product, ZenonT(30) DEF QIdxSize
<1>3. IsFiniteSet(Rows) /\ (\A r \in Rows : IsFiniteSet(F[r])) /\ \A r \in Rows : f[r] = Cardinality(F[r])
  <2>1. IsFiniteSet(Rows)
    BY <1>1, Counting DEF Rows
  <2>2. \A r : IsFiniteSet(Chose(h, r)) /\ Ahead(h, r, host.numQ) = Cardinality(Chose(h, r))
    BY AllAhead
  <2>. QED
    BY <2>1, <2>2 DEF CountOfRow
<1>4. ASSUME NEW r \in Rows, NEW q \in F[r]
      PROVE  /\ q \in Queries /\ slot(r, q) \in 1..TopK /\ RowAt(h, q, slot(r, q)) = r
             /\ g[<<r, q>>] = <<q, slot(r, q)>> /\ g[<<r, q>>] \in T
  <2>1. q \in Queries /\ \E s \in 1..TopK : RowAt(h, q, s) = r
    BY DEF Chose
  <2>2. slot(r, q) \in 1..TopK /\ RowAt(h, q, slot(r, q)) = r
    BY <2>1
  <2>3. g[<<r, q>>] = <<q, slot(r, q)>>
    BY <2>1
  <2>. QED
    BY <2>1, <2>2, <2>3
<1>5. ASSUME NEW r \in Rows, NEW v \in Rows, NEW q \in F[r], NEW w \in F[v], g[<<r, q>>] = g[<<v, w>>]
      PROVE  r = v /\ q = w
  <2>. HIDE DEF slot, g
  <2>. QED
    BY <1>4, <1>5
<1>6. \A r \in Rows : \A q \in F[r] : g[<<r, q>>] \in T
  BY <1>4
<1>. HIDE DEF F, T, f, g
<1>7. Total(f, Rows) <= Cardinality(T)
  BY <1>2, <1>3, <1>5, <1>6, FibresFit
<1>8. Start(h, host.rows) = Total(f, Rows)
  BY DEF Start, Rows, f
<1>9. QIdxSize \in Nat
  BY <1>1, Product DEF QIdxSize
<1>. QED
  BY <1>2, <1>7, <1>8, <1>9

(* The queries of the rows of all heads.                                   *)
EntriesIn == [x \in Heads \X Rows |-> Ahead(x[1], x[2], host.numQ)]

(* There are no more of them than slots.                                   *)
LEMMA RoomInAll ==
    ASSUME Fixed
    PROVE  /\ IsFiniteSet(Heads \X Rows) /\ Cardinality(Heads \X Rows) = host.heads * host.rows
           /\ (\A x \in Heads \X Rows : EntriesIn[x] \in Nat)
           /\ Total(EntriesIn, Heads \X Rows) <= host.heads * QIdxSize
<1>. DEFINE S == Heads \X Rows  F == [x \in S |-> Chose(x[1], x[2])]  T == Heads \X (Queries \X (1..TopK))
            slot(h, r, q) == CHOOSE s \in 1..TopK : RowAt(h, q, s) = r
            g == [x \in S \X Queries |-> <<x[1][1], <<x[2], slot(x[1][1], x[1][2], x[2])>>>>]
<1>1. host.rows \in Nat /\ host.numQ \in Nat /\ host.heads \in Nat /\ TopK \in Nat \ {0}
  BY Sizes, Positive
<1>2. IsFiniteSet(Heads) /\ Cardinality(Heads) = host.heads /\ IsFiniteSet(Rows)
      /\ Cardinality(Rows) = host.rows
  BY <1>1, Counting DEF Heads, Rows
<1>3. IsFiniteSet(T) /\ Cardinality(T) = host.heads * QIdxSize
  <2>1. IsFiniteSet(Queries) /\ Cardinality(Queries) = host.numQ
    BY <1>1, Counting DEF Queries
  <2>2. IsFiniteSet(1..TopK) /\ Cardinality(1..TopK) = TopK
    BY <1>1, Counting
  <2>3. IsFiniteSet(Queries \X (1..TopK)) /\ Cardinality(Queries \X (1..TopK)) = QIdxSize
    BY <2>1, <2>2, FS_Product DEF QIdxSize
  <2>. QED
    BY <1>2, <2>3, FS_Product, SMTT(30)
<1>4. IsFiniteSet(S) /\ Cardinality(S) = host.heads * host.rows
  BY <1>2, FS_Product
<1>5. \A x \in S : IsFiniteSet(F[x]) /\ EntriesIn[x] = Cardinality(F[x]) /\ EntriesIn[x] \in Nat
  <2>1. \A h, r : IsFiniteSet(Chose(h, r)) /\ Ahead(h, r, host.numQ) = Cardinality(Chose(h, r))
    BY AllAhead
  <2>2. \A h, r : Cardinality(Chose(h, r)) \in Nat
    BY <2>1, FS_CardinalityType
  <2>. QED
    BY <2>1, <2>2 DEF EntriesIn
<1>6. ASSUME NEW x \in S, NEW q \in F[x]
      PROVE  /\ g[<<x, q>>] \in T /\ x = <<x[1], x[2]>>
             /\ \E s \in 1..TopK : g[<<x, q>>] = <<x[1], <<q, s>>>> /\ RowAt(x[1], q, s) = x[2]
  <2>. DEFINE s == slot(x[1], x[2], q)
  <2>1. q \in Queries /\ \E v \in 1..TopK : RowAt(x[1], q, v) = x[2]
    BY DEF Chose
  <2>2. s \in 1..TopK /\ RowAt(x[1], q, s) = x[2]
    BY <2>1
  <2>3. g[<<x, q>>] = <<x[1], <<q, s>>>>
    BY <2>1
  <2>4. x[1] \in Heads /\ x = <<x[1], x[2]>>
    OBVIOUS
  <2>. HIDE DEF s, g
  <2>. QED
    BY <2>1, <2>2, <2>3, <2>4
<1>. HIDE DEF g
<1>7. ASSUME NEW x \in S, NEW v \in S, NEW q \in F[x], NEW w \in F[v], g[<<x, q>>] = g[<<v, w>>]
      PROVE  x = v /\ q = w
  <2>1. PICK s \in 1..TopK : g[<<x, q>>] = <<x[1], <<q, s>>>> /\ RowAt(x[1], q, s) = x[2]
    BY <1>6
  <2>2. PICK t \in 1..TopK : g[<<v, w>>] = <<v[1], <<w, t>>>> /\ RowAt(v[1], w, t) = v[2]
    BY <1>6
  <2>3. x[1] = v[1] /\ q = w /\ s = t
    BY <1>7, <2>1, <2>2
  <2>4. x[2] = v[2]
    BY <2>1, <2>2, <2>3
  <2>. QED
    BY <1>6, <2>3, <2>4
<1>8. \A x \in S : \A q \in F[x] : g[<<x, q>>] \in T
  BY <1>6
<1>. HIDE DEF F, T, S
<1>9. Total(EntriesIn, S) <= Cardinality(T)
  <2>1. IsFiniteSet(S) /\ IsFiniteSet(T) /\ (\A x \in S : IsFiniteSet(F[x]))
        /\ \A x \in S : EntriesIn[x] = Cardinality(F[x])
    BY <1>3, <1>4, <1>5
  <2>2. \A x, v \in S : \A q \in F[x], w \in F[v] : g[<<x, q>>] = g[<<v, w>>] => x = v /\ q = w
    BY <1>7
  <2>. QED
    BY <1>8, <2>1, <2>2, FibresFit
<1>. QED
  BY <1>3, <1>4, <1>5, <1>9 DEF S

(* The work list has room for the chunks of any rows.                      *)
LEMMA CapacityRight ==
    ASSUME Fixed, NEW A \in SUBSET (Heads \X Rows)
    PROVE  /\ \A x \in Heads \X Rows : ChunksOf[x] \in Nat
           /\ Total(ChunksOf, A) \in Nat /\ Total(ChunksOf, A) <= host.capacity
<1>. DEFINE S == Heads \X Rows  f == EntriesIn  T == Target  Q == QIdxSize  H == host.heads  R == host.rows
<1>1. /\ IsFiniteSet(S) /\ Cardinality(S) = H * R /\ (\A x \in S : f[x] \in Nat) /\ Total(f, S) <= H * Q
      /\ T \in Nat \ {0} /\ H \in Nat /\ R \in Nat /\ Q \in Nat
  <2>1. Q \in Nat
    BY Sizes, Positive, Product DEF QIdxSize
  <2>. QED
    BY <2>1, RoomInAll, Positive, Sizes
<1>2. ASSUME NEW x \in S PROVE ChunksOf[x] = CeilDiv(f[x], T)
  BY DEF ChunksOf, Chunks, EntriesIn
<1>. HIDE DEF f, T, S
<1>3. ASSUME NEW x \in S PROVE ChunksOf[x] \in Nat /\ T * ChunksOf[x] <= f[x] + (T - 1)
             /\ T * ChunksOf[x] \in Nat
  <2>. DEFINE c == ChunksOf[x]  m == f[x]
  <2>1. m \in Nat /\ c = CeilDiv(m, T)
    BY <1>1, <1>2
  <2>. HIDE DEF c, m
  <2>2. c \in Nat /\ c * T < m + T
    BY <1>1, <2>1, CeilDivRight
  <2>3. c * T = T * c /\ T * c \in Nat
    BY <1>1, <2>2, Product
  <2>. QED
    BY <1>1, <2>1, <2>2, <2>3 DEF c, m
<1>4. Total(ChunksOf, A) \in Nat /\ Total(ChunksOf, A) <= Total(ChunksOf, S) /\ Total(ChunksOf, S) \in Nat
  <2>1. \A x \in S : ChunksOf[x] \in Nat
    BY <1>3
  <2>2. A \in SUBSET S
    BY DEF S
  <2>. QED
    BY <1>1, <2>1, <2>2, TotalPart
<1>. DEFINE g == [x \in S |-> T * ChunksOf[x]]  e == [x \in S |-> f[x] + (T - 1)]  d == [x \in S |-> T - 1]
            n == Total(ChunksOf, S)
<1>5. Total(g, S) = T * n
  <2>1. (\A x \in S : ChunksOf[x] \in Int /\ g[x] \in Int) /\ T \in Int
        /\ \A x \in S : g[x] = T * ChunksOf[x]
    BY <1>1, <1>3
  <2>. HIDE DEF g
  <2>. QED
    BY <1>1, <2>1, TotalTimes
<1>6. Total(g, S) <= Total(e, S)
  <2>1. (\A x \in S : g[x] \in Int /\ e[x] \in Int) /\ \A x \in S : g[x] <= e[x]
    BY <1>1, <1>3
  <2>. HIDE DEF g, e
  <2>. QED
    BY <1>1, <2>1, TotalMore
<1>7. Total(e, S) = Total(f, S) + (T - 1) * (H * R) /\ Total(f, S) \in Int
  BY <1>1, TotalShifted
<1>. HIDE DEF g, e, d
<1>8. T * n <= H * Q + (T - 1) * (H * R)
  <2>. DEFINE x == H * Q  y == (T - 1) * (H * R)  z == T * n
  <2>1. x \in Nat /\ y \in Nat /\ z \in Nat
    <3>1. x \in Nat
      BY <1>1, Product
    <3>2. H * R \in Nat /\ T - 1 \in Nat
      BY <1>1, Product
    <3>3. y \in Nat
      BY <3>2, Product
    <3>4. z \in Nat
      BY <1>1, <1>4, Product
    <3>. QED
      BY <3>1, <3>3, <3>4
  <2>2. Total(g, S) = z /\ Total(e, S) = Total(f, S) + y /\ Total(f, S) <= x
    BY <1>1, <1>5, <1>7
  <2>. HIDE DEF x, y, z
  <2>3. z <= x + y
    BY <1>6, <1>7, <2>1, <2>2
  <2>. QED
    BY <2>3 DEF x, y, z
<1>. HIDE DEF Q, H, R, n
<1>9. CASE H = 0 \/ R = 0
  <2>1. H * R = 0
    BY <1>1, <1>9
  <2>2. S = {}
    BY <1>1, <2>1, FS_EmptySet
  <2>3. A = {}
    BY <2>2 DEF S
  <2>4. Total(ChunksOf, A) = 0
    BY <2>3, TotalZero, FS_EmptySet
  <2>5. host.capacity \in Nat
    BY Sizes
  <2>. QED
    BY <1>3, <2>4, <2>5 DEF S
<1>10. CASE H # 0 /\ R # 0
  <2>. DEFINE N == Larger(Q * H, 1)  D == CeilDiv(N, T)
  <2>1. Q * H \in Nat /\ N \in Nat /\ N >= Q * H /\ Q * H = H * Q /\ R * H = H * R /\ H * R \in Nat
    <3>1. Q * H \in Nat /\ Q * H = H * Q /\ R * H = H * R /\ H * R \in Nat
      BY <1>1, Product
    <3>. DEFINE x == Q * H
    <3>2. x \in Nat
      BY <3>1
    <3>. HIDE DEF x
    <3>3. Larger(x, 1) \in Nat /\ Larger(x, 1) >= x
      BY <3>2 DEF Larger
    <3>. QED
      BY <3>1, <3>3 DEF x
  <2>2. host.capacity = Larger(1, H * R + D)
    <3>1. host.capacity = Capacity(R, host.numQ, TopK, H, T) /\ host.numQ \in Nat /\ TopK \in Nat \ {0}
      BY Sizes, Positive DEF R, H, T
    <3>2. Larger(R, 0) = R /\ Larger(H, 1) = H /\ Larger(host.numQ, 0) = host.numQ
          /\ Larger(TopK, 1) = TopK /\ Larger(T, 1) = T
      <4>. DEFINE m == host.numQ
      <4>1. m \in Nat /\ R \in Nat /\ R # 0 /\ H \in Nat /\ H # 0 /\ T \in Nat /\ T # 0 /\ TopK \in Nat
            /\ TopK # 0
        BY <1>1, <1>10, <3>1
      <4>. HIDE DEF m
      <4>2. \A x \in Nat : Larger(x, 0) = x /\ (x # 0 => Larger(x, 1) = x)
        BY DEF Larger
      <4>. QED
        BY <4>1, <4>2 DEF m
    <3>3. Q = host.numQ * TopK
      BY DEF Q, QIdxSize
    <3>. QED
      BY <2>1, <3>1, <3>2, <3>3 DEF Capacity
  <2>. HIDE DEF N
  <2>3. D \in Nat /\ N <= D * T /\ D * T = T * D
    <3>1. D \in Nat /\ N <= D * T
      BY <1>1, <2>1, CeilDivRight
    <3>. HIDE DEF D
    <3>. QED
      BY <1>1, <3>1, Product
  <2>. HIDE DEF D
  <2>4. n <= H * R + D
    <3>. DEFINE x == H * R
    <3>1. x \in Nat /\ n \in Nat /\ T \in Nat /\ T > 0 /\ D \in Nat
      BY <1>1, <1>4, <2>1, <2>3 DEF n
    <3>2. T * n <= T * D + (T - 1) * x
      <4>. DEFINE a == T * D  b == (T - 1) * x  c == T * n  k == H * Q
      <4>1. k <= N /\ N <= a /\ c <= k + b
        BY <1>8, <2>1, <2>3
      <4>2. a \in Nat /\ b \in Nat /\ c \in Nat /\ k \in Nat /\ N \in Nat
        <5>1. T - 1 \in Nat
          BY <3>1
        <5>2. T * D \in Nat /\ T * n \in Nat
          BY <3>1, Product
        <5>3. (T - 1) * x \in Nat
          BY <3>1, <5>1, Product
        <5>. QED
          BY <2>1, <5>2, <5>3
      <4>. HIDE DEF a, b, c, k
      <4>3. c <= a + b
        BY <4>1, <4>2
      <4>. QED
        BY <4>3 DEF a, b, c
    <3>. HIDE DEF x
    <3>3. ASSUME n > x + D PROVE FALSE
      <4>1. (T - 1) * x <= T * x /\ T * x \in Nat /\ (T - 1) * x \in Nat /\ T * D \in Nat
        BY <3>1
      <4>2. T * (x + D + 1) <= T * n
        <5>1. x + D + 1 <= n /\ x + D + 1 \in Nat
          BY <3>1, <3>3
        <5>. DEFINE y == x + D + 1
        <5>2. y \in Nat /\ y <= n
          BY <5>1
        <5>. HIDE DEF y
        <5>3. T * y <= T * n
          BY <3>1, <5>2, Product
        <5>. QED
          BY <5>3 DEF y
      <4>3. T * (x + D + 1) = T * x + T * D + T
        BY <3>1
      <4>. QED
        BY <3>1, <3>2, <4>1, <4>2, <4>3
    <3>4. n <= x + D
      BY <3>1, <3>3
    <3>. QED
      BY <3>4 DEF x
  <2>5. Larger(1, H * R + D) >= H * R + D
    <3>. DEFINE y == H * R + D
    <3>1. y \in Nat
      BY <2>1, <2>3
    <3>. HIDE DEF y
    <3>2. Larger(1, y) >= y
      BY <3>1 DEF Larger
    <3>. QED
      BY <3>2 DEF y
  <2>6. H * R + D \in Nat /\ host.capacity \in Nat
    BY <2>1, <2>3, Sizes, SMTT(30)
  <2>7. Total(ChunksOf, A) <= host.capacity
    <3>. DEFINE y == H * R + D
    <3>1. y \in Nat /\ n <= y /\ host.capacity >= y /\ host.capacity \in Nat
      BY <2>2, <2>4, <2>5, <2>6
    <3>. HIDE DEF y
    <3>. QED
      BY <1>4, <3>1 DEF n
  <2>. QED
    BY <1>3, <1>4, <2>7 DEF S
<1>. QED
  BY <1>1, <1>9, <1>10

(* The row a thread emits next, and what its sums are.                     *)
LEMMA EmitMoves ==
    ASSUME CsrIInv, NEW a \in DOMAIN at, EmitRow(a)
    PROVE  LET h == a[1]
               row == FirstRow(a[2]) + (at[a] - Emitting) IN
           /\ Moves(a) /\ stage = "PR" /\ at[a] \in Nat /\ at[a] >= Emitting /\ a \in Agents("PR")
           /\ h \in Heads /\ row \in Rows /\ ThreadOf(row) = a[2] /\ a = <<h, ThreadOf(row)>>
           /\ FirstRow(a[2]) \in Nat /\ row \in Nat /\ at[a] = Emitting + (row - FirstRow(a[2]))
           /\ (scan[a] - CountOf(h, RowsOfThread(a[2]))) + CountOf(h, {r \in RowsOfThread(a[2]) : r <= row})
                = Start(h, row + 1)
           /\ rowCounts[h][row] = Ahead(h, row, host.numQ)
<1>. DEFINE h == a[1]  t == a[2]  i == at[a] - Emitting  row == FirstRow(t) + i  mine == RowsOfThread(t)
<1>1. /\ stage = "PR" /\ at[a] >= Emitting /\ i < Cardinality(mine) /\ Did(a)
      /\ UNCHANGED <<prob, host, wanted, stage>>
  BY DEF EmitRow
<1>2. Fixed /\ Busy /\ a \in Agents("PR") /\ at[a] \in 0..StepsOf("PR", a) /\ HistRight /\ ScanRight
  BY <1>1 DEF CsrIInv, Progress
<1>3. h \in Heads /\ t \in 0..(ScanThreads - 1) /\ a = <<h, t>> /\ t \in Nat
  BY <1>2, Positive DEF Agents
<1>. HIDE DEF h, t
<1>4. /\ Bound(t) \in 0..host.rows /\ Bound(t) <= Bound(t + 1) /\ Bound(t + 1) \in 0..host.rows
      /\ mine = Bound(t)..(Bound(t + 1) - 1)
      /\ IsFiniteSet(mine) /\ Cardinality(mine) = Bound(t + 1) - Bound(t)
      /\ \A r \in mine : r \in Rows /\ ThreadOf(r) = t /\ FirstRow(t) = Bound(t)
  <2>1. t + 1 \in Nat
    BY <1>3
  <2>. QED
    BY <1>2, <1>3, <2>1, ThreadsRight
<1>5. /\ Emitting \in Nat /\ at[a] \in Nat /\ i \in Nat /\ StepsOf("PR", a) = Emitting + Cardinality(mine)
      /\ host.rows \in Nat
  <2>1. Emitting \in Nat /\ host.rows \in Nat
    BY <1>2, RoundsRight, Sizes
  <2>2. StepsOf("PR", a) = Emitting + Cardinality(mine)
    BY DEF StepsOf, t
  <2>3. at[a] \in Nat
    BY <1>2
  <2>. QED
    BY <1>1, <2>1, <2>2, <2>3
<1>6. FirstRow(t) = Bound(t)
  <2>1. Bound(t) \in mine
    BY <1>1, <1>4, <1>5
  <2>. QED
    BY <1>4, <2>1
<1>7. row \in mine /\ row \in Rows /\ ThreadOf(row) = t /\ row \in Nat /\ FirstRow(t) \in Nat
      /\ row = Bound(t) + i
  <2>1. row = Bound(t) + i
    BY <1>6
  <2>. HIDE DEF i, row
  <2>2. row \in mine /\ row \in Nat /\ Bound(t) \in Nat
    BY <1>1, <1>4, <1>5, <2>1
  <2>. QED
    BY <1>4, <1>6, <2>1, <2>2
<1>8. at[a] = Emitting + (row - FirstRow(t))
  BY <1>5, <1>7
<1>9. Moves(a)
  <2>1. at[a] < StepsOf(stage, a)
    BY <1>1, <1>4, <1>5
  <2>. QED
    BY <1>1, <2>1 DEF Moves
<1>10. rowCounts[h] = CountOfRow(h)
  BY <1>1, <1>2, <1>3 DEF HistRight
<1>. HIDE DEF row, i
<1>11. scan[a] = Start(h, Bound(t + 1))
  <2>1. scan[a] = Reach(h, t, OffsetAt(Emitting))
    <3>1. at[a] # 0 /\ Smaller(at[a], Emitting) = Emitting
      <4>1. ScanRounds \in Nat /\ Emitting = 2 * ScanRounds + 1
        BY RoundsRight
      <4>. QED
        BY <1>1, <1>5, <4>1 DEF Smaller
    <3>. QED
      BY <1>1, <1>2, <3>1 DEF ScanRight, h, t
  <2>2. OffsetAt(Emitting) \in Nat /\ OffsetAt(Emitting) >= ScanThreads
    BY RoundsRight
  <2>3. Larger(0, t + 1 - OffsetAt(Emitting)) = 0
    BY <1>3, <2>2, Positive DEF Larger
  <2>4. Bound(0) = 0
    BY <1>2, ThreadsRight
  <2>5. Start(h, 0) = 0 /\ \A r \in 0..host.rows : Start(h, r) \in Nat
    BY <1>2, StartRight
  <2>6. Reach(h, t, OffsetAt(Emitting)) = Start(h, Bound(t + 1)) - 0 /\ Start(h, Bound(t + 1)) \in Nat
    BY <1>4, <2>3, <2>4, <2>5 DEF Reach
  <2>. QED
    BY <2>1, <2>6
<1>12. CountOf(h, mine) = Start(h, Bound(t + 1)) - Start(h, Bound(t))
  <2>1. Bound(t + 1) \in Bound(t)..host.rows
    BY <1>4
  <2>2. Total(CountOfRow(h), Bound(t)..(Bound(t + 1) - 1)) = Start(h, Bound(t + 1)) - Start(h, Bound(t))
    BY <1>2, <1>4, <2>1, RangeCounted
  <2>. QED
    BY <1>4, <1>10, <2>2 DEF CountOf
<1>13. CountOf(h, {r \in mine : r <= row}) = Start(h, row + 1) - Start(h, Bound(t))
  <2>1. row + 1 \in Bound(t)..host.rows /\ row \in Bound(t)..(Bound(t + 1) - 1)
    BY <1>4, <1>5, <1>7
  <2>2. {r \in mine : r <= row} = Bound(t)..((row + 1) - 1)
    <3>1. \A r : r \in mine /\ r <= row <=> r \in Bound(t)..((row + 1) - 1)
      BY <1>4, <1>5, <1>7, <2>1, SMTT(30)
    <3>. QED
      BY <3>1
  <2>3. Total(CountOfRow(h), Bound(t)..((row + 1) - 1)) = Start(h, row + 1) - Start(h, Bound(t))
    BY <1>2, <1>4, <2>1, RangeCounted
  <2>. QED
    BY <1>10, <2>2, <2>3 DEF CountOf
<1>14. (scan[a] - CountOf(h, mine)) + CountOf(h, {r \in mine : r <= row}) = Start(h, row + 1)
  <2>. DEFINE x == Start(h, Bound(t + 1))  y == Start(h, Bound(t))  z == Start(h, row + 1)
  <2>1. x \in Int /\ y \in Int /\ z \in Int
    <3>1. \A r \in 0..host.rows : Start(h, r) \in Nat
      BY <1>2, StartRight
    <3>2. row + 1 \in 0..host.rows
      BY <1>4, <1>5, <1>7
    <3>. QED
      BY <1>4, <3>1, <3>2
  <2>2. scan[a] = x /\ CountOf(h, mine) = x - y /\ CountOf(h, {r \in mine : r <= row}) = z - y
    BY <1>11, <1>12, <1>13
  <2>. HIDE DEF x, y, z
  <2>3. (x - (x - y)) + (z - y) = z
    BY <2>1
  <2>. QED
    BY <2>2, <2>3 DEF z
<1>15. rowCounts[h][row] = Ahead(h, row, host.numQ)
  BY <1>7, <1>10 DEF CountOfRow
<1>16. a = <<h, ThreadOf(row)>>
  BY <1>3, <1>7
<1>. QED
  BY <1>1, <1>2, <1>3, <1>5, <1>7, <1>8, <1>9, <1>14, <1>15, <1>16 DEF h, t, i, row

(* With its row a thread emits no other.                                   *)
LEMMA EmitsOne ==
    ASSUME CsrIInv, NEW a \in DOMAIN at, EmitRow(a), NEW g \in Heads, NEW r \in Rows
    PROVE  LET h == a[1]
               row == FirstRow(a[2]) + (at[a] - Emitting) IN
           /\ Emitted(g, r)' <=> Emitted(g, r) \/ (g = h /\ r = row)
           /\ ~ Emitted(h, row)
<1>. DEFINE h == a[1]  row == FirstRow(a[2]) + (at[a] - Emitting)  b == <<g, ThreadOf(r)>>
<1>1. /\ Moves(a) /\ stage = "PR" /\ at[a] \in Nat /\ a \in Agents("PR")
      /\ row \in Rows /\ ThreadOf(row) = a[2] /\ a = <<h, ThreadOf(row)>>
      /\ FirstRow(a[2]) \in Nat /\ row \in Nat /\ at[a] = Emitting + (row - FirstRow(a[2]))
  BY EmitMoves
<1>2. /\ Fixed /\ Busy /\ UNCHANGED <<prob, host>> /\ stage' = "PR"
      /\ at' = [c \in Agents("PR") |-> IF c = a THEN at[a] + 1 ELSE at[c]]
      /\ (\A c \in Agents("PR") : at[c] \in Nat)
  <2>1. Fixed /\ Progress
    BY DEF CsrIInv
  <2>. QED
    BY <1>1, <2>1, MovesRight DEF Moves
<1>. HIDE DEF h, row
<1>3. b \in Agents("PR") /\ r \in Nat
  <2>1. ThreadOf(r) \in 0..(ScanThreads - 1)
    BY <1>2, ThreadsRight
  <2>. QED
    BY <1>2, <2>1, WordsRight DEF Agents
<1>4. /\ Emitted(g, r) <=> at[b] > Emitting + (r - FirstRow(ThreadOf(r)))
      /\ Emitted(g, r)' <=> at'[b] > Emitting + (r - FirstRow(ThreadOf(r)))
  <2>1. ThreadOf(r)' = ThreadOf(r)
    BY <1>2, SizesKept
  <2>2. FirstRow(ThreadOf(r))' = FirstRow(ThreadOf(r))
    BY <1>2, <2>1 DEF FirstRow
  <2>3. Emitting' = Emitting
    BY DEF Emitting, ScanRounds
  <2>. QED
    BY <1>1, <1>2, <2>1, <2>2, <2>3 DEF Emitted
<1>5. Emitting \in Nat
  BY RoundsRight
<1>6. ~ Emitted(h, row)
  <2>1. Emitted(h, row) <=> at[a] > Emitting + (row - FirstRow(a[2]))
    BY <1>1 DEF Emitted
  <2>. QED
    BY <1>1, <1>5, <2>1
<1>7. CASE b = a
  <2>1. g = h /\ FirstRow(ThreadOf(r)) = FirstRow(a[2])
    BY <1>1, <1>7
  <2>2. at'[b] = at[a] + 1
    BY <1>2, <1>3, <1>7
  <2>3. at'[b] > Emitting + (r - FirstRow(ThreadOf(r))) <=> at[a] > Emitting + (r - FirstRow(a[2])) \/ r = row
    <3>. DEFINE f == FirstRow(a[2])  n == at[a]
    <3>1. f \in Nat /\ n \in Nat /\ n = Emitting + (row - f)
      BY <1>1
    <3>. HIDE DEF f, n
    <3>2. n + 1 > Emitting + (r - f) <=> n > Emitting + (r - f) \/ r = row
      BY <1>1, <1>3, <1>5, <3>1
    <3>. QED
      BY <2>1, <2>2, <3>2 DEF f, n
  <2>. QED
    BY <1>4, <1>6, <1>7, <2>1, <2>3 DEF h, row
<1>8. CASE b # a
  <2>1. at'[b] = at[b] /\ ~ (g = h /\ r = row)
    BY <1>1, <1>2, <1>3, <1>8
  <2>. QED
    BY <1>4, <1>6, <2>1 DEF h, row
<1>. QED
  BY <1>7, <1>8

(* A thread emits a row: where the next one starts, and the chunks of its  *)
(* queries, into places of the work list that nobody else has taken.       *)
LEMMA EmitStep ==
    ASSUME CsrIInv, NEW a \in DOMAIN at, EmitRow(a)
    PROVE  CsrIInv'
<1>. DEFINE h == a[1]  row == FirstRow(a[2]) + (at[a] - Emitting)  x == <<h, row>>
            num == Chunks(rowCounts[h][row], Target)  n == workCount
<1>1. /\ Moves(a) /\ stage = "PR" /\ at[a] >= Emitting /\ at[a] \in Nat
      /\ h \in Heads /\ row \in Rows /\ row \in Nat
      /\ (scan[a] - CountOf(h, RowsOfThread(a[2]))) + CountOf(h, {r \in RowsOfThread(a[2]) : r <= row})
           = Start(h, row + 1)
      /\ rowCounts[h][row] = Ahead(h, row, host.numQ)
  BY EmitMoves
<1>2. /\ rowPtr' = [rowPtr EXCEPT ![h][row + 1] =
                      (scan[a] - CountOf(h, RowsOfThread(a[2]))) + CountOf(h, {r \in RowsOfThread(a[2]) : r <= row})]
      /\ workCount' = n + num
      /\ items' = [k \in DOMAIN items |-> IF k \in n..(n + num - 1) THEN ChunkItem(h, row, k - n) ELSE items[k]]
      /\ Sync(a) \/ at[a] > Emitting
      /\ UNCHANGED <<prob, host, wanted, stage, rowMap, rowCoords, smem, rowCounts, tileCounts, scan, addend, edges,
                     splitCounts>>
  BY DEF EmitRow, UnchangedM, UnchangedS
<1>3. /\ Fixed /\ Busy /\ a \in Agents("PR") /\ Agents("PR")' = Agents("PR")
      /\ at' = [b \in Agents("PR") |-> IF b = a THEN at[a] + 1 ELSE at[b]]
      /\ InStep' /\ stage' = "PR"
      /\ (\A g, t, o : Reach(g, t, o)' = Reach(g, t, o))
      /\ Fixed' /\ Progress' /\ MapRight' /\ HistRight' /\ PlacesRight' /\ EdgesRight' /\ SplitsRight'
         /\ CursorsRight'
  BY <1>1, <1>2, PrMoves
<1>4. /\ \A g \in Heads, r \in Rows : Emitted(g, r)' <=> Emitted(g, r) \/ (g = h /\ r = row)
      /\ ~ Emitted(h, row)
  BY <1>1, EmitsOne
<1>5. PtrRight /\ ItemsRight /\ ScanRight
  BY DEF CsrIInv
<1>6. Heads' = Heads /\ Rows' = Rows
  BY <1>2, SizesKept
<1>7. (\A g, r : Start(g, r)' = Start(g, r)) /\ ChunksOf' = ChunksOf
      /\ \A g, r, c : ChunkItem(g, r, c)' = ChunkItem(g, r, c)
  BY <1>2, CountsKept DEF ChunkItem
<1>8. num = ChunksOf[x] /\ x \in Heads \X Rows /\ x[1] = h /\ x[2] = row
  BY <1>1 DEF ChunksOf
<1>. HIDE DEF h, row
<1>9. PtrRight'
  <2>1. rowPtr = [g \in Heads |-> [i \in 0..host.rows |-> rowPtr[g][i]]]
    BY <1>5 DEF PtrRight
  <2>2. row + 1 \in 0..host.rows /\ host.rows \in Nat
    BY <1>1, <1>3, Sizes DEF Rows
  <2>3. rowPtr' = [rowPtr EXCEPT ![h][row + 1] = Start(h, row + 1)]
    BY <1>1, <1>2
  <2>4. rowPtr' = [g \in Heads |-> [i \in 0..host.rows |-> IF g = h /\ i = row + 1 THEN Start(h, row + 1) ELSE rowPtr[g][i]]]
    BY <1>1, <2>1, <2>2, <2>3
  <2>5. rowPtr' = [g \in Heads |-> [i \in 0..host.rows |-> rowPtr'[g][i]]]
    BY <2>4
  <2>6. ASSUME NEW g \in Heads
        PROVE  rowPtr'[g][0] = 0 /\ \A r \in Rows : Emitted(g, r)' => rowPtr'[g][r + 1] = Start(g, r + 1)
    <3>1. rowPtr[g][0] = 0 /\ \A r \in Rows : Emitted(g, r) => rowPtr[g][r + 1] = Start(g, r + 1)
      BY <1>5 DEF PtrRight
    <3>2. 0 \in 0..host.rows /\ 0 # row + 1 /\ \A r \in Rows : r + 1 \in 0..host.rows
          /\ (r + 1 = row + 1 <=> r = row)
      BY <1>1, <2>2 DEF Rows
    <3>3. rowPtr'[g][0] = 0
      BY <2>4, <3>1, <3>2
    <3>4. ASSUME NEW r \in Rows, Emitted(g, r)' PROVE rowPtr'[g][r + 1] = Start(g, r + 1)
      <4>1. rowPtr'[g][r + 1] = IF g = h /\ r + 1 = row + 1 THEN Start(h, row + 1) ELSE rowPtr[g][r + 1]
        BY <2>4, <3>2
      <4>2. Emitted(g, r) \/ (g = h /\ r = row)
        BY <1>4, <3>4
      <4>. QED
        BY <3>1, <3>2, <4>1, <4>2
    <3>. QED
      BY <3>3, <3>4
  <2>. QED
    BY <1>2, <1>6, <1>7, <2>5, <2>6 DEF PtrRight
<1>10. RowsEmitted' = RowsEmitted \cup {x} /\ x \notin RowsEmitted /\ RowsEmitted \in SUBSET (Heads \X Rows)
  <2>1. ASSUME NEW y PROVE y \in RowsEmitted' <=> y \in RowsEmitted \/ y = x
    <3>1. y \in RowsEmitted' <=> y \in Heads \X Rows /\ Emitted(y[1], y[2])'
      BY <1>6 DEF RowsEmitted
    <3>2. y \in RowsEmitted <=> y \in Heads \X Rows /\ Emitted(y[1], y[2])
      BY DEF RowsEmitted
    <3>3. y \in Heads \X Rows => (y[1] = h /\ y[2] = row <=> y = x)
      BY <1>8
    <3>. QED
      BY <1>4, <1>8, <3>1, <3>2, <3>3
  <2>2. x \notin RowsEmitted
    BY <1>4, <1>8 DEF RowsEmitted
  <2>3. RowsEmitted \in SUBSET (Heads \X Rows)
    BY DEF RowsEmitted
  <2>4. RowsEmitted' = RowsEmitted \cup {x}
    BY <2>1
  <2>. QED
    BY <2>2, <2>3, <2>4
<1>. DEFINE E == RowsEmitted
<1>11. /\ n = Total(ChunksOf, E) /\ n \in Nat /\ num \in Nat
       /\ n + num = Total(ChunksOf, E \cup {x}) /\ n + num <= host.capacity /\ host.capacity \in Nat
  <2>1. n = Total(ChunksOf, E)
    BY <1>5 DEF ItemsRight
  <2>2. (\A y \in Heads \X Rows : ChunksOf[y] \in Nat) /\ n \in Nat
    BY <1>3, <1>10, <2>1, CapacityRight
  <2>3. E \cup {x} \in SUBSET (Heads \X Rows)
    BY <1>8, <1>10
  <2>4. Total(ChunksOf, E \cup {x}) <= host.capacity
    BY <1>3, <2>3, CapacityRight
  <2>5. IsFiniteSet(E)
    <3>1. IsFiniteSet(Heads \X Rows)
      BY <1>3, RoomInAll
    <3>. QED
      BY <1>10, <3>1, FS_Subset
  <2>6. (\A y \in E : ChunksOf[y] \in Int) /\ ChunksOf[x] \in Int
    BY <1>8, <1>10, <2>2
  <2>7. Total(ChunksOf, E \cup {x}) = Total(ChunksOf, E) + ChunksOf[x]
    BY <1>10, <2>5, <2>6, TotalAdd
  <2>8. num \in Nat /\ host.capacity \in Nat
    BY <1>3, <1>8, <2>2, Sizes
  <2>. QED
    BY <1>8, <2>1, <2>2, <2>4, <2>7, <2>8
<1>. HIDE DEF num, n, E, x
<1>12. ASSUME NEW k \in 0..(n + num - 1)
       PROVE  items'[k] = IF k < n THEN items[k] ELSE ChunkItem(h, row, k - n)
  <2>1. k \in DOMAIN items
    <3>1. DOMAIN items = 0..(host.capacity - 1)
      BY <1>5 DEF ItemsRight
    <3>. QED
      BY <1>11, <3>1
  <2>2. k \in n..(n + num - 1) <=> ~ (k < n)
    BY <1>11
  <2>. QED
    BY <1>2, <2>1, <2>2
<1>13. /\ \A k \in 0..(n - 1) : \E y \in E : \E c \in 0..(ChunksOf[y] - 1) : items[k] = ChunkItem(y[1], y[2], c)
       /\ \A y \in E : \A c \in 0..(ChunksOf[y] - 1) : \E k \in 0..(n - 1) : items[k] = ChunkItem(y[1], y[2], c)
       /\ \A k, l \in 0..(n - 1) : items[k] = items[l] => k = l
  BY <1>5 DEF ItemsRight, n, E
<1>14. \A g, r, c : /\ ChunkItem(g, r, c).head = g /\ ChunkItem(g, r, c).row = r
                    /\ ChunkItem(g, r, c).begin = c * Target
  BY DEF ChunkItem, Item
<1>15. ItemsRight'
  <2>1. items' = [k \in 0..(host'.capacity - 1) |-> items'[k]]
    BY <1>2, <1>5 DEF ItemsRight
  <2>2. ASSUME NEW k \in 0..(n + num - 1)
        PROVE  \E y \in E \cup {x} : \E c \in 0..(ChunksOf[y] - 1) : items'[k] = ChunkItem(y[1], y[2], c)
    <3>1. CASE k < n
      <4>1. k \in 0..(n - 1) /\ items'[k] = items[k]
        BY <1>11, <1>12, <3>1
      <4>. QED
        BY <1>13, <4>1
    <3>2. CASE ~ (k < n)
      <4>1. k - n \in 0..(ChunksOf[x] - 1)
        BY <1>8, <1>11, <3>2
      <4>2. items'[k] = ChunkItem(x[1], x[2], k - n)
        BY <1>8, <1>12, <3>2
      <4>. QED
        BY <4>1, <4>2
    <3>. QED
      BY <3>1, <3>2
  <2>3. ASSUME NEW y \in E \cup {x}, NEW c \in 0..(ChunksOf[y] - 1)
        PROVE  \E k \in 0..(n + num - 1) : items'[k] = ChunkItem(y[1], y[2], c)
    <3>1. CASE y = x
      <4>1. n + c \in 0..(n + num - 1) /\ ~ (n + c < n) /\ (n + c) - n = c
        BY <1>8, <1>11, <3>1
      <4>2. items'[n + c] = ChunkItem(y[1], y[2], c)
        BY <1>8, <1>12, <3>1, <4>1
      <4>. QED
        BY <4>1, <4>2
    <3>2. CASE y \in E
      <4>1. PICK k \in 0..(n - 1) : items[k] = ChunkItem(y[1], y[2], c)
        BY <1>13, <3>2
      <4>2. k \in 0..(n + num - 1) /\ k < n
        BY <1>11
      <4>. QED
        BY <1>12, <4>1, <4>2
    <3>. QED
      BY <3>1, <3>2
  <2>4. ASSUME NEW k \in 0..(n + num - 1),
               NEW l \in 0..(n + num - 1), items'[k] = items'[l], k < n, ~ (l < n)
        PROVE  FALSE
    <3>1. k \in 0..(n - 1) /\ items'[k] = items[k] /\ items'[l] = ChunkItem(h, row, l - n)
      BY <1>11, <1>12, <2>4
    <3>2. PICK y \in E : \E c \in 0..(ChunksOf[y] - 1) : items[k] = ChunkItem(y[1], y[2], c)
      BY <1>13, <3>1
    <3>3. PICK c \in 0..(ChunksOf[y] - 1) : items[k] = ChunkItem(y[1], y[2], c)
      BY <3>2
    <3>4. ChunkItem(y[1], y[2], c) = ChunkItem(h, row, l - n)
      BY <2>4, <3>1, <3>3
    <3>5. y[1] = h /\ y[2] = row
      BY <1>14, <3>4
    <3>6. y \in Heads \X Rows
      BY <1>10 DEF E
    <3>7. y = x
      BY <3>5, <3>6 DEF x
    <3>. QED
      BY <1>10, <3>7 DEF E
  <2>5. ASSUME NEW k \in 0..(n + num - 1),
               NEW l \in 0..(n + num - 1), items'[k] = items'[l], ~ (k < n), ~ (l < n)
        PROVE  k = l
    <3>1. items'[k] = ChunkItem(h, row, k - n) /\ items'[l] = ChunkItem(h, row, l - n)
      BY <1>12, <2>5
    <3>2. (k - n) * Target = (l - n) * Target
      <4>. DEFINE u == ChunkItem(h, row, k - n)  v == ChunkItem(h, row, l - n)
      <4>1. u = v
        BY <2>5, <3>1
      <4>2. u.begin = (k - n) * Target /\ v.begin = (l - n) * Target
        BY <1>14
      <4>. HIDE DEF u, v
      <4>. QED
        BY <4>1, <4>2
    <3>. DEFINE i == k - n  j == l - n  T == Target
    <3>3. i \in Nat /\ j \in Nat /\ T \in Nat /\ T # 0
      BY <1>11, <2>5, Positive
    <3>4. i * T = j * T
      BY <3>2
    <3>. HIDE DEF i, j, T
    <3>5. T * i = T * j
      BY <3>3, <3>4, Product
    <3>6. i = j
      BY <3>3, <3>5, Product
    <3>. QED
      BY <1>11, <3>6 DEF i, j
  <2>6. ASSUME NEW k \in 0..(n + num - 1), NEW l \in 0..(n + num - 1), items'[k] = items'[l]
        PROVE  k = l
    <3>1. CASE k < n /\ l < n
      <4>1. k \in 0..(n - 1) /\ l \in 0..(n - 1) /\ items[k] = items[l]
        BY <1>11, <1>12, <2>6, <3>1
      <4>. QED
        BY <1>13, <4>1
    <3>. QED
      BY <2>4, <2>5, <2>6, <3>1
  <2>7. workCount' = n + num /\ workCount' = Total(ChunksOf', RowsEmitted')
    BY <1>2, <1>7, <1>10, <1>11 DEF E, n, num
  <2>8. RowsEmitted' = E \cup {x}
    BY <1>10 DEF E
  <2>9. \A k \in 0..(workCount' - 1) : \E y \in RowsEmitted' : \E c \in 0..(ChunksOf'[y] - 1) :
           items'[k] = ChunkItem(y[1], y[2], c)'
    <3>1. \A k \in 0..(n + num - 1) : \E y \in E \cup {x} : \E c \in 0..(ChunksOf[y] - 1) :
             items'[k] = ChunkItem(y[1], y[2], c)
      BY <2>2
    <3>2. 0..(workCount' - 1) = 0..(n + num - 1) /\ ChunksOf' = ChunksOf
      BY <1>7, <1>11, <2>7
    <3>3. \A y, c : ChunkItem(y[1], y[2], c)' = ChunkItem(y[1], y[2], c)
      BY <1>7
    <3>4. ASSUME NEW k \in 0..(n + num - 1)
          PROVE  \E y \in RowsEmitted' : \E c \in 0..(ChunksOf'[y] - 1) : items'[k] = ChunkItem(y[1], y[2], c)'
      <4>1. PICK y \in E \cup {x} : \E c \in 0..(ChunksOf[y] - 1) : items'[k] = ChunkItem(y[1], y[2], c)
        BY <3>1
      <4>2. PICK c \in 0..(ChunksOf[y] - 1) : items'[k] = ChunkItem(y[1], y[2], c)
        BY <4>1
      <4>. QED
        BY <2>8, <3>2, <3>3, <4>1, <4>2
    <3>. QED
      BY <3>2, <3>4
  <2>10. \A y \in RowsEmitted' : \A c \in 0..(ChunksOf'[y] - 1) : \E k \in 0..(workCount' - 1) :
           items'[k] = ChunkItem(y[1], y[2], c)'
    <3>1. \A y \in E \cup {x} : \A c \in 0..(ChunksOf[y] - 1) : \E k \in 0..(n + num - 1) :
             items'[k] = ChunkItem(y[1], y[2], c)
      BY <2>3
    <3>2. 0..(workCount' - 1) = 0..(n + num - 1) /\ ChunksOf' = ChunksOf
      BY <1>7, <1>11, <2>7
    <3>3. \A y, c : ChunkItem(y[1], y[2], c)' = ChunkItem(y[1], y[2], c)
      BY <1>7
    <3>. QED
      BY <2>8, <3>1, <3>2, <3>3
  <2>11. \A k, l \in 0..(workCount' - 1) : items'[k] = items'[l] => k = l
    <3>1. \A k, l \in 0..(n + num - 1) : items'[k] = items'[l] => k = l
      BY <2>6
    <3>2. 0..(workCount' - 1) = 0..(n + num - 1)
      BY <1>11, <2>7
    <3>. QED
      BY <3>1, <3>2
  <2>. QED
    BY <2>1, <2>7, <2>9, <2>10, <2>11 DEF ItemsRight
<1>16. ScanRight'
  <2>1. Emitting \in Nat /\ Emitting' = Emitting /\ \A k : OffsetAt(k)' = OffsetAt(k)
    BY RoundsRight DEF Emitting, ScanRounds, OffsetAt, Doubled
  <2>2. ASSUME NEW b \in Agents("PR")
        PROVE  /\ (at'[b] = 0 <=> at[b] = 0) \/ b = a
               /\ Smaller(at'[b], Emitting) = Smaller(at[b], Emitting)
               /\ at'[b] \in 2..(Emitting - 1) => b # a /\ at'[b] = at[b]
    BY <1>1, <1>3, <2>1 DEF Smaller
  <2>3. scan = [b \in Agents("PR") |-> IF at[b] = 0 THEN 0 ELSE Reach(b[1], b[2], OffsetAt(Smaller(at[b], Emitting)))]
    BY <1>1, <1>5 DEF ScanRight
  <2>4. at[a] # 0 /\ at'[a] # 0
    <3>1. Emitting > 0
      <4>1. ScanRounds \in Nat /\ Emitting = 2 * ScanRounds + 1
        BY RoundsRight
      <4>. QED
        BY <4>1
    <3>. QED
      BY <1>1, <1>3, <2>1, <3>1
  <2>5. scan' = [b \in Agents("PR") |-> IF at'[b] = 0 THEN 0 ELSE Reach(b[1], b[2], OffsetAt(Smaller(at'[b], Emitting)))]
    BY <1>2, <2>2, <2>3, <2>4
  <2>6. addend' = [b \in Agents("PR") |-> addend'[b]]
    BY <1>1, <1>2, <1>5 DEF ScanRight
  <2>7. ASSUME NEW b \in Agents("PR"), at'[b] \in 2..(Emitting - 1), at'[b] % 2 = 0
        PROVE  addend'[b] = IF b[2] >= OffsetAt(at'[b]) THEN Reach(b[1], b[2] - OffsetAt(at'[b]), OffsetAt(at'[b])) ELSE 0
    <3>1. at'[b] = at[b]
      BY <2>2, <2>7
    <3>. QED
      BY <1>1, <1>2, <1>5, <2>7, <3>1 DEF ScanRight
  <2>. QED
    BY <1>3, <2>1, <2>5, <2>6, <2>7 DEF ScanRight
<1>. QED
  BY <1>3, <1>9, <1>15, <1>16 DEF CsrIInv

-----------------------------------------------------------------------------
(***************************************************************************)
(* The scatter.                                                            *)
(***************************************************************************)
(* Who chose a row has a place of its own in it.                           *)
LEMMA PlaceInRow ==
    ASSUME Fixed, NEW h, NEW r \in Rows, NEW q \in Chose(h, r)
    PROVE  /\ q \in Nat /\ Start(h, r) \in Nat /\ Ahead(h, r, q) \in Nat
           /\ Start(h, r) + Ahead(h, r, q) < Start(h, r + 1)
           /\ Start(h, r) + Ahead(h, r, q) \in 0..(QIdxSize - 1)
           /\ \A p \in Chose(h, r) : Ahead(h, r, q) = Ahead(h, r, p) => p = q
<1>1. host.numQ \in Nat /\ host.rows \in Nat
  BY Sizes
<1>2. ASSUME NEW p \in Chose(h, r) PROVE p \in Nat /\ p < host.numQ
  BY <1>1 DEF Chose, Queries
<1>3. (\A p \in Nat : Ahead(h, r, p) \in Nat) /\ Chose(h, r) \in SUBSET Nat
  BY AheadRight
<1>4. ASSUME NEW p \in Chose(h, r), NEW b \in Nat, p < b PROVE Ahead(h, r, p) + 1 <= Ahead(h, r, b)
  <2>1. p \in Nat /\ p + 1 \in Nat /\ p + 1 <= b
    BY <1>2, <1>4
  <2>2. \A n \in Nat : Ahead(h, r, n + 1) = Ahead(h, r, n) + (IF n \in Chose(h, r) THEN 1 ELSE 0)
    BY AheadRight
  <2>3. Ahead(h, r, p + 1) = Ahead(h, r, p) + 1
    BY <2>1, <2>2
  <2>4. \A m, n \in Nat : m <= n =>
          /\ CountIn(h, r, m, n) = Cardinality({v \in Chose(h, r) : m <= v /\ v < n})
          /\ CountIn(h, r, m, n) \in 0..(n - m)
    BY AheadRight
  <2>5. CountIn(h, r, p + 1, b) \in 0..(b - (p + 1))
    BY <2>1, <2>4
  <2>6. Ahead(h, r, b) \in Nat /\ Ahead(h, r, p + 1) \in Nat /\ Ahead(h, r, p) \in Nat
    BY <1>3, <2>1
  <2>. DEFINE x == Ahead(h, r, b)  y == Ahead(h, r, p + 1)
  <2>7. x - y \in 0..(b - (p + 1)) /\ x \in Nat /\ y \in Nat
    BY <2>5, <2>6 DEF CountIn
  <2>. HIDE DEF x, y
  <2>8. y <= x
    BY <2>1, <2>7
  <2>. QED
    BY <2>3, <2>8 DEF x, y
<1>5. q \in Nat /\ q < host.numQ /\ Ahead(h, r, q) \in Nat
  BY <1>2, <1>3
<1>6. Ahead(h, r, q) + 1 <= Ahead(h, r, host.numQ)
  BY <1>1, <1>4, <1>5
<1>7. /\ \A v \in 0..host.rows : Start(h, v) \in Nat
      /\ \A v \in Rows : Start(h, v + 1) = Start(h, v) + Ahead(h, v, host.numQ)
      /\ \A a, b \in 0..host.rows : a <= b => Start(h, a) <= Start(h, b)
  BY StartRight
<1>8. r \in 0..host.rows /\ r + 1 \in 0..host.rows /\ r + 1 <= host.rows /\ host.rows \in 0..host.rows
  BY <1>1 DEF Rows
<1>9. Start(h, r) \in Nat /\ Start(h, r + 1) = Start(h, r) + Ahead(h, r, host.numQ)
      /\ Start(h, r + 1) <= Start(h, host.rows) /\ Start(h, host.rows) \in Nat
  BY <1>7, <1>8
<1>10. Start(h, host.rows) <= QIdxSize /\ QIdxSize \in Nat
  BY RoomInHead
<1>. DEFINE x == Start(h, r)  y == Ahead(h, r, q)  z == Ahead(h, r, host.numQ)  e == Start(h, host.rows)  m == QIdxSize
<1>11. x \in Nat /\ y \in Nat /\ z \in Nat /\ e \in Nat /\ m \in Nat /\ y + 1 <= z /\ x + z <= e /\ e <= m
  <2>1. z \in Nat
    BY <1>1, <1>3
  <2>. QED
    BY <1>5, <1>6, <1>9, <1>10, <2>1
<1>. HIDE DEF x, y, z, e, m
<1>12. x + y < x + z /\ x + y \in 0..(m - 1)
  BY <1>11
<1>13. ASSUME NEW p \in Chose(h, r), Ahead(h, r, q) = Ahead(h, r, p) PROVE p = q
  <2>1. p \in Nat /\ Ahead(h, r, p) \in Nat
    BY <1>2, <1>3
  <2>2. ~ (p < q)
    <3>1. ASSUME p < q PROVE FALSE
      <4>1. Ahead(h, r, p) + 1 <= Ahead(h, r, q)
        BY <1>4, <1>5, <3>1
      <4>. QED
        BY <1>5, <1>13, <4>1
    <3>. QED
      BY <3>1
  <2>3. ~ (q < p)
    <3>1. ASSUME q < p PROVE FALSE
      <4>1. Ahead(h, r, q) + 1 <= Ahead(h, r, p)
        BY <1>4, <2>1, <3>1
      <4>. QED
        BY <1>5, <1>13, <4>1
    <3>. QED
      BY <3>1
  <2>. QED
    BY <1>5, <2>1, <2>2, <2>3
<1>. QED
  BY <1>5, <1>9, <1>12, <1>13 DEF x, y, z, m

(* No two entries of a head go to one place, and all places are in q_idx.  *)
LEMMA PlaceRight ==
    ASSUME Fixed, MapRight, stage # "M", NEW h \in Heads, NEW q \in Queries, NEW s \in Valid(h, q)
    PROVE  /\ PlaceOf(h, q, s) \in 0..(QIdxSize - 1)
           /\ \A p \in Queries : \A t \in Valid(h, p) : PlaceOf(h, p, t) = PlaceOf(h, q, s) => p = q
              /\ t = s
<1>1. ASSUME NEW p \in Queries, NEW t \in Valid(h, p)
      PROVE  t \in 1..TopK /\ RowAt(h, p, t) \in Rows /\ RowAt(h, p, t) # -1
             /\ p \in Chose(h, RowAt(h, p, t))
  <2>1. t \in 1..TopK /\ RowAt(h, p, t) # -1
    BY DEF Valid
  <2>2. RowAt(h, p, t) \in Rows
    <3>1. RowAt(h, p, t) \in Rows \cup {-1}
      BY <2>1, RowAtRight
    <3>. QED
      BY <2>1, <3>1
  <2>. QED
    BY <2>1, <2>2 DEF Chose
<1>. DEFINE r == RowAt(h, q, s)
<1>2. r \in Rows /\ q \in Chose(h, r)
  BY <1>1
<1>3. PlaceOf(h, q, s) = Start(h, r) + Ahead(h, r, q)
  BY DEF PlaceOf
<1>4. PlaceOf(h, q, s) \in 0..(QIdxSize - 1)
  <2>. HIDE DEF r
  <2>. QED
    BY <1>2, <1>3, PlaceInRow
<1>5. ASSUME NEW p \in Queries, NEW t \in Valid(h, p), PlaceOf(h, p, t) = PlaceOf(h, q, s) PROVE p = q
             /\ t = s
  <2>. DEFINE v == RowAt(h, p, t)
  <2>1. v \in Rows /\ p \in Chose(h, v) /\ PlaceOf(h, p, t) = Start(h, v) + Ahead(h, v, p)
    BY <1>1 DEF PlaceOf
  <2>. HIDE DEF r, v
  <2>2. /\ Start(h, r) \in Nat /\ Ahead(h, r, q) \in Nat /\ Start(h, r) + Ahead(h, r, q) < Start(h, r + 1)
        /\ Start(h, v) \in Nat /\ Ahead(h, v, p) \in Nat /\ Start(h, v) + Ahead(h, v, p) < Start(h, v + 1)
        /\ Start(h, r) + Ahead(h, r, q) = Start(h, v) + Ahead(h, v, p)
    BY <1>2, <1>3, <1>5, <2>1, PlaceInRow
  <2>3. host.rows \in Nat /\ r \in Nat /\ v \in Nat /\ r < host.rows /\ v < host.rows
    BY <1>2, <2>1, Sizes, SMTT(30) DEF Rows
  <2>4. \A a, b \in 0..host.rows : a <= b => Start(h, a) <= Start(h, b)
    BY StartRight
  <2>5. \A a \in 0..host.rows : Start(h, a) \in Nat
    BY StartRight
  <2>6. ASSUME r < v PROVE FALSE
    <3>1. r + 1 \in 0..host.rows /\ v \in 0..host.rows /\ r + 1 <= v
      BY <2>3, <2>6
    <3>2. Start(h, r + 1) <= Start(h, v) /\ Start(h, r + 1) \in Nat
      BY <2>4, <2>5, <3>1
    <3>. QED
      BY <2>2, <3>2
  <2>7. ASSUME v < r PROVE FALSE
    <3>1. v + 1 \in 0..host.rows /\ r \in 0..host.rows /\ v + 1 <= r
      BY <2>3, <2>7
    <3>2. Start(h, v + 1) <= Start(h, r) /\ Start(h, v + 1) \in Nat
      BY <2>4, <2>5, <3>1
    <3>. QED
      BY <2>2, <3>2
  <2>8. v = r
    BY <2>3, <2>6, <2>7
  <2>9. Ahead(h, r, q) = Ahead(h, r, p)
    <3>. DEFINE x == Start(h, r)  y == Ahead(h, r, q)  z == Ahead(h, r, p)
    <3>1. Start(h, v) = x /\ Ahead(h, v, p) = z
      BY <2>8
    <3>2. x \in Nat /\ y \in Nat /\ z \in Nat /\ x + y = x + z
      BY <2>2, <3>1
    <3>. HIDE DEF x, y, z
    <3>3. y = z
      BY <3>2
    <3>. QED
      BY <3>3 DEF y, z
  <2>10. p = q
    BY <1>2, <2>1, <2>8, <2>9, PlaceInRow
  <2>11. RowAt(h, q, s) = RowAt(h, q, t) /\ RowAt(h, q, s) # -1 /\ t \in 1..TopK /\ s \in 1..TopK
    BY <1>1, <2>8, <2>10 DEF r, v
  <2>12. s = t
    BY <2>11, ChosenOnce
  <2>. QED
    BY <2>10, <2>12
<1>. QED
  BY <1>4, <1>5

(* The ballot counts the valid slots of a query, and those before a slot.  *)
LEMMA SlotsRight ==
    ASSUME Fixed, NEW h \in Heads, NEW first \in Nat, NEW last \in 0..host.numQ, NEW q \in first..(last - 1)
    PROVE  /\ Cardinality({e \in Entries(h, first, last) : e.q = q}) = Cardinality(Valid(h, q))
           /\ \A e \in Entries(h, first, last) : e.q = q =>
                SplitOf(e, Entries(h, first, last)) = Cardinality({t \in Valid(h, q) : t < e.slot})
<1>. DEFINE E == Entries(h, first, last)
<1>1. /\ \A e \in E : /\ e.slot \in 1..TopK /\ e.slot \in Valid(h, e.q) /\ e.q \in Queries
                      /\ e = [q |-> e.q, slot |-> e.slot, row |-> RowAt(h, e.q, e.slot)]
      /\ \A s \in Valid(h, q) : [q |-> q, slot |-> s, row |-> RowAt(h, q, s)] \in E
  BY EntriesRight
<1>2. ASSUME NEW V \in SUBSET Valid(h, q)
             PROVE Cardinality({e \in E : e.q = q /\ e.slot \in V}) = Cardinality(V)
  <2>. DEFINE F == {e \in E : e.q = q /\ e.slot \in V}  g == [e \in F |-> e.slot]
  <2>1. IsFiniteSet(V)
    <3>1. V \in SUBSET (1..TopK)
      BY DEF Valid
    <3>2. TopK \in Nat
      BY Positive
    <3>. QED
      BY <3>1, <3>2, Counting, FS_Subset
  <2>2. g \in [F -> V]
    OBVIOUS
  <2>3. \A e, f \in F : g[e] = g[f] => e = f
    BY <1>1
  <2>4. ASSUME NEW s \in V PROVE \E e \in F : g[e] = s
    <3>. DEFINE e == [q |-> q, slot |-> s, row |-> RowAt(h, q, s)]
    <3>1. e \in E
      BY <1>1
    <3>2. e.q = q /\ e.slot = s
      OBVIOUS
    <3>. HIDE DEF e, E
    <3>3. e \in F /\ g[e] = s
      BY <3>1, <3>2
    <3>. QED
      BY <3>3
  <2>5. \A s \in V : \E e \in F : g[e] = s
    BY <2>4
  <2>. HIDE DEF F, g
  <2>6. Cardinality(F) = Cardinality(V)
    BY <2>1, <2>2, <2>3, <2>5, SameCount
  <2>. QED
    BY <2>6 DEF F
<1>3. Cardinality({e \in E : e.q = q}) = Cardinality(Valid(h, q))
  <2>1. \A e : e \in E /\ e.q = q <=> e \in E /\ e.q = q /\ e.slot \in Valid(h, q)
    BY <1>1
  <2>2. {e \in E : e.q = q} = {e \in E : e.q = q /\ e.slot \in Valid(h, q)}
    BY <2>1
  <2>. QED
    BY <1>2, <2>2
<1>4. ASSUME NEW e \in E, e.q = q PROVE SplitOf(e, E) = Cardinality({t \in Valid(h, q) : t < e.slot})
  <2>. DEFINE V == {t \in Valid(h, q) : t < e.slot}
  <2>1. \A f : f \in E /\ f.q = e.q /\ f.slot < e.slot <=> f \in E /\ f.q = q /\ f.slot \in V
    BY <1>1, <1>4
  <2>2. {f \in E : f.q = e.q /\ f.slot < e.slot} = {f \in E : f.q = q /\ f.slot \in V}
    BY <2>1
  <2>3. V \in SUBSET Valid(h, q)
    OBVIOUS
  <2>. HIDE DEF V
  <2>4. SplitOf(e, E) = Cardinality(V)
    BY <1>2, <2>2, <2>3 DEF SplitOf
  <2>. QED
    BY <2>4 DEF V
<1>. QED
  BY <1>3, <1>4

(* What an instruction of a unit scatters, and how far the unit then is.   *)
LEMMA ScatterMoves ==
    ASSUME CsrIInv, NEW u \in DOMAIN at, Scatter(u)
    PROVE  LET h == AtHead(u)
               i == at[u] % Steps(u)
               first == First(u) + i * QPerIter
               last == Larger(first, Smaller(first + QPerIter, End(u))) IN
           /\ stage = "S" /\ u \in Units /\ h \in Heads /\ Moves(u) /\ i \in Nat
           /\ first \in Nat /\ First(u) \in Nat /\ First(u) <= first /\ last \in first..host.numQ
           /\ last - First(u) < HalfRange
           /\ (i = 0 => first = First(u))
           /\ \A g \in Heads : Reached(u, g)' = IF g = h THEN last ELSE Reached(u, g)
           /\ Reached(u, h) = first
           /\ at'[u] % Steps(u) > 0 => AtHead(u)' = h
<1>. DEFINE h == AtHead(u)  S == Steps(u)  i == at[u] % S  Q == QPerIter  f == First(u)  e == End(u)
            first == f + i * Q  last == Larger(first, Smaller(first + Q, e))
<1>1. stage = "S" /\ h < host.heads /\ Did(u) /\ UNCHANGED <<prob, host, wanted, stage>>
  BY DEF Scatter
<1>2. /\ Fixed /\ Busy /\ u \in Units /\ at = [v \in Units |-> at[v]] /\ at[u] \in Nat
      /\ \A v \in Units : at[v] \in 0..StepsOf("S", v)
  <2>1. Agents("S") = Units
    BY DEF Agents
  <2>2. Fixed /\ Busy /\ u \in Units /\ at = [v \in Units |-> at[v]]
        /\ \A v \in Units : at[v] \in 0..StepsOf("S", v)
    BY <1>1, <2>1 DEF CsrIInv, Progress
  <2>3. at[u] \in Nat
    BY <2>2
  <2>. QED
    BY <2>2, <2>3
<1>3. /\ S \in Nat \ {0} /\ e - f \in Nat /\ e - f <= S * Q /\ Q \in Nat \ {0}
      /\ S = Larger(1, CeilDiv(e - f, Q))
  BY <1>2, StepsRight, Positive DEF Steps
<1>4. /\ f \in 0..host.numQ /\ e \in f..host.numQ /\ e <= f + host.perWarp
      /\ host.numQ \in Nat /\ host.perWarp \in Nat /\ host.perWarp < HalfRange /\ host.heads \in Nat
  BY <1>2, UnitsRight, Sizes
<1>5. HalfRange \in Nat
  BY HalfRangeRight
<1>6. h = at[u] \div S
  BY DEF AtHead
<1>7. at[u] + 1 = at'[u] /\ at' = [at EXCEPT ![u] = at[u] + 1]
  BY <1>1, <1>2 DEF Did
<1>. HIDE DEF S, h
<1>8. at[u] = h * S + i /\ i \in 0..(S - 1) /\ h \in Nat /\ h * S \in Nat
  <2>1. at[u] = (at[u] \div S) * S + (at[u] % S) /\ at[u] % S \in 0..(S - 1) /\ at[u] \div S \in Nat
    BY <1>2, <1>3, Euclid
  <2>2. h \in Nat
    BY <1>6, <2>1
  <2>3. h * S \in Nat
    BY <1>3, <2>2
  <2>. QED
    BY <1>6, <2>1, <2>2, <2>3
<1>. HIDE DEF i
<1>9. h \in Heads
  BY <1>1, <1>4, <1>8 DEF Heads
<1>10. i \in Nat /\ i < S /\ i * Q \in Nat /\ (i + 1) * Q = i * Q + Q /\ (i = 0 => i * Q = 0)
  BY <1>3, <1>8
<1>11. f + i * Q <= e
  <2>1. CASE i = 0
    BY <1>4, <1>10, <2>1
  <2>2. CASE i # 0
    <3>. DEFINE c == CeilDiv(e - f, Q)  d == e - f
    <3>1. d \in Nat /\ c = CeilDiv(d, Q)
      BY <1>3
    <3>. HIDE DEF d, c
    <3>2. c \in Nat /\ c * Q < d + Q /\ c * Q \in Nat
      <4>1. c \in Nat /\ c * Q < d + Q
        BY <1>3, <3>1, CeilDivRight
      <4>. QED
        BY <1>3, <4>1
    <3>3. S = Larger(1, c)
      BY <1>3 DEF c, d
    <3>4. S = c
      BY <1>8, <1>10, <2>2, <3>2, <3>3 DEF Larger
    <3>5. i * Q + Q <= c * Q
      BY <1>3, <1>10, <3>2, <3>4, Groups
    <3>6. i * Q <= d
      <4>. DEFINE x == i * Q  y == c * Q
      <4>1. x \in Nat /\ y \in Nat /\ x + Q <= y /\ y < d + Q
        BY <1>10, <3>2, <3>5
      <4>. HIDE DEF x, y
      <4>2. x <= d
        BY <1>3, <3>1, <4>1
      <4>. QED
        BY <4>2 DEF x
    <3>. QED
      BY <1>4, <1>10, <3>6 DEF d
  <2>. QED
    BY <2>1, <2>2
<1>. DEFINE x == i * Q
<1>12. x \in Nat /\ f + x <= e /\ first = f + x /\ f \in Nat /\ e \in Nat /\ e <= host.numQ /\ f <= e
  BY <1>4, <1>10, <1>11
<1>. HIDE DEF x, f, e, Q
<1>13. /\ first \in Nat /\ f <= first /\ last \in first..host.numQ /\ last = Smaller(first + Q, e)
       /\ last <= e
  <2>1. first \in Nat /\ f <= first /\ first <= e
    BY <1>12
  <2>. HIDE DEF first
  <2>. QED
    BY <1>3, <1>4, <1>12, <2>1 DEF Larger, Smaller
<1>14. last - f < HalfRange
  <2>. HIDE DEF first, last
  <2>. QED
    BY <1>4, <1>5, <1>12, <1>13 DEF f, e
<1>15. i = 0 => first = f
  BY <1>10, <1>12 DEF x
<1>16. Moves(u)
  <2>1. StepsOf(stage, u) = host.heads * S
    BY <1>1 DEF StepsOf, S
  <2>2. h * S + S <= host.heads * S /\ host.heads * S \in Nat
    <3>1. h * S + S <= host.heads * S
      BY <1>1, <1>3, <1>4, <1>8, Groups
    <3>. QED
      BY <1>3, <1>4, <3>1
  <2>. DEFINE y == h * S  z == host.heads * S
  <2>3. y \in Nat /\ z \in Nat /\ y + S <= z /\ at[u] = y + i
    BY <1>8, <2>2
  <2>. HIDE DEF y, z
  <2>4. at[u] < z
    BY <1>3, <1>10, <2>3
  <2>. QED
    BY <1>1, <2>1, <2>4 DEF Moves, z
<1>17. \A v : First(v)' = First(v) /\ End(v)' = End(v) /\ Steps(v)' = Steps(v)
  BY <1>1, SizesKept
<1>18. /\ i + 1 < S => AtHead(u)' = h /\ at'[u] % S = i + 1
       /\ i + 1 = S => AtHead(u)' = h + 1 /\ at'[u] % S = 0
  <2>1. AtHead(u)' = at'[u] \div S
    BY <1>17 DEF AtHead, S
  <2>2. at'[u] = h * S + (i + 1)
    BY <1>7, <1>8
  <2>. DEFINE y == h * S  n == at'[u]
  <2>3. y \in Nat /\ n = y + (i + 1) /\ n \in Nat /\ (h + 1) * S = y + S
    BY <1>3, <1>8, <1>10, <2>2
  <2>. HIDE DEF y, n
  <2>4. ASSUME i + 1 < S PROVE n \div S = h /\ n % S = i + 1
    <3>1. h * S <= n /\ n < h * S + S /\ n - h * S = i + 1
      BY <1>3, <1>10, <2>3, <2>4 DEF y
    <3>2. n \in Nat /\ S \in Nat \ {0} /\ h \in Nat
      BY <1>3, <1>8, <2>3
    <3>3. n \div S = h /\ n % S = n - h * S
      BY <3>1, <3>2, QuotientOf
    <3>. QED
      BY <3>1, <3>3
  <2>5. ASSUME i + 1 = S PROVE n \div S = h + 1 /\ n % S = 0
    <3>. DEFINE k == h + 1
    <3>1. k * S <= n /\ n < k * S + S /\ n - k * S = 0 /\ k \in Nat
      BY <1>3, <1>8, <1>10, <2>3, <2>5
    <3>2. n \in Nat /\ S \in Nat \ {0}
      BY <1>3, <2>3
    <3>. HIDE DEF k
    <3>3. n \div S = k /\ n % S = n - k * S
      BY <3>1, <3>2, QuotientOf
    <3>. QED
      BY <3>1, <3>3 DEF k
  <2>. QED
    BY <2>1, <2>4, <2>5 DEF n
<1>19. at'[u] % S > 0 => AtHead(u)' = h
  <2>1. CASE i + 1 < S
    BY <1>18, <2>1
  <2>2. CASE i + 1 = S
    BY <1>18, <2>2
  <2>. QED
    BY <1>3, <1>10, <2>1, <2>2
<1>20. Reached(u, h) = first
  <2>1. Reached(u, h) = Smaller(f + i * Q, e)
    BY <1>8 DEF Reached, h, f, e, i, S, Q
  <2>2. Smaller(f + x, e) = f + x
    BY <1>12 DEF Smaller
  <2>. QED
    BY <1>12, <2>1, <2>2 DEF x
<1>21. ASSUME NEW g \in Heads PROVE Reached(u, g)' = IF g = h THEN last ELSE Reached(u, g)
  <2>1. g \in Nat
    BY <1>4 DEF Heads
  <2>2. Reached(u, g) = IF h > g THEN e ELSE IF h = g THEN first ELSE f
    <3>1. Reached(u, g) = IF h > g THEN e ELSE IF h = g THEN Smaller(f + i * Q, e) ELSE f
      BY DEF Reached, h, f, e, i, S, Q
    <3>2. Smaller(f + x, e) = first
      BY <1>12 DEF Smaller
    <3>. QED
      BY <3>1, <3>2 DEF x
  <2>3. Reached(u, g)' = IF AtHead(u)' > g THEN e
                         ELSE IF AtHead(u)' = g THEN Smaller(f + (at'[u] % S) * Q, e) ELSE f
    BY <1>17 DEF Reached, f, e, S, Q
  <2>4. CASE i + 1 < S
    <3>1. Reached(u, g)' = IF h > g THEN e ELSE IF h = g THEN Smaller(f + (i + 1) * Q, e) ELSE f
      BY <1>18, <2>3, <2>4
    <3>2. f + (i + 1) * Q = first + Q
      BY <1>3, <1>10, <1>12 DEF x
    <3>3. Smaller(f + (i + 1) * Q, e) = last
      BY <1>13, <3>2
    <3>. QED
      BY <1>8, <2>1, <2>2, <3>1, <3>3
  <2>5. CASE i + 1 = S
    <3>1. Reached(u, g)' = IF h + 1 > g THEN e ELSE IF h + 1 = g THEN Smaller(f + 0 * Q, e) ELSE f
      BY <1>18, <2>3, <2>5
    <3>2. Smaller(f + 0 * Q, e) = f
      <4>1. 0 * Q = 0
        BY <1>3
      <4>. QED
        BY <1>12, <4>1 DEF Smaller
    <3>3. last = e
      <4>1. S * Q = x + Q
        BY <1>10, <2>5 DEF x
      <4>2. e - f <= x + Q
        BY <1>3, <4>1
      <4>3. e <= first + Q
        BY <1>3, <1>12, <4>2
      <4>. HIDE DEF first
      <4>. QED
        BY <1>3, <1>12, <1>13, <4>3 DEF Smaller
    <3>. QED
      BY <1>8, <2>1, <2>2, <3>1, <3>2, <3>3
  <2>. QED
    BY <1>3, <1>10, <2>4, <2>5
<1>. HIDE DEF first, last
<1>. QED
  BY <1>1, <1>2, <1>9, <1>10, <1>12, <1>13, <1>14, <1>15, <1>16, <1>19, <1>20, <1>21 DEF first, last, i, f,
     e, Q, S, h

(* The packed counters of a unit hold what it has scattered, and an entry's *)
(* place is the one its query has in the row (the ranges of the units and   *)
(* the order of the lanes).                                                 *)
LEMMA ScatterPlaces ==
    ASSUME CsrIInv, NEW u \in DOMAIN at, Scatter(u)
    PROVE  LET h == AtHead(u)
               i == at[u] % Steps(u)
               first == First(u) + i * QPerIter
               last == Larger(first, Smaller(first + QPerIter, End(u)))
               entries == Entries(h, first, last)
               cleared == IF i = 0 THEN Zeroed ELSE smem[u] IN
           /\ Bump(cleared, entries) = Packed(h, First(u), last)
           /\ \A e \in entries :
                tileCounts[UnitIndex(u)][h][e.row] + Half(Bump(cleared, {f \in entries : LaneBefore(f, e)}), e.row)
                  = PlaceOf(h, e.q, e.slot)
<1>. DEFINE h == AtHead(u)  i == at[u] % Steps(u)  f == First(u)
            first == First(u) + i * QPerIter
            last == Larger(first, Smaller(first + QPerIter, End(u)))
            entries == Entries(h, first, last)
            cleared == IF i = 0 THEN Zeroed ELSE smem[u]
<1>1. /\ stage = "S" /\ u \in Units /\ h \in Heads /\ i \in Nat
      /\ first \in Nat /\ f \in Nat /\ f <= first /\ last \in first..host.numQ
      /\ last - f < HalfRange /\ (i = 0 => first = f) /\ Reached(u, h) = first
  BY ScatterMoves
<1>2. Fixed /\ MapRight /\ PlacesRight /\ CursorsRight
  BY DEF CsrIInv
<1>3. cleared = Packed(h, f, first)
  <2>1. CASE i = 0
    BY <1>1, <1>2, <2>1, PackedRight
  <2>2. CASE i # 0
    <3>1. smem[u] = ScatteredTo(u)[h]
      BY <1>1, <1>2, <2>2 DEF CursorsRight
    <3>. QED
      BY <1>1, <2>2, <3>1 DEF ScatteredTo
  <2>. QED
    BY <2>1, <2>2
<1>4. host.numQ \in Nat
  BY <1>2, Sizes
<1>. HIDE DEF first, last, f, h, cleared, i
<1>5. Bump(Packed(h, f, first), entries) = Packed(h, f, last)
  BY <1>1, <1>2, CountersRight
<1>6. ASSUME NEW e \in entries
      PROVE  tileCounts[UnitIndex(u)][h][e.row]
               + Half(Bump(Packed(h, f, first), {d \in entries : LaneBefore(d, e)}), e.row) = PlaceOf(h, e.q, e.slot)
  <2>1. Half(Bump(Packed(h, f, first), {d \in entries : LaneBefore(d, e)}), e.row) = CountIn(h, e.row, f, e.q)
    BY <1>1, <1>2, CountersRight
  <2>2. last \in 0..host.numQ
    BY <1>1, <1>4
  <2>3. e.row = RowAt(h, e.q, e.slot) /\ e.row \in Rows /\ e.row \in Nat /\ e.q \in Nat
    BY <1>1, <1>2, <2>2, EntriesRight
  <2>4. tileCounts[UnitIndex(u)][h][e.row] = Start(h, e.row) + Ahead(h, e.row, f)
    BY <1>1, <1>2, <2>3 DEF PlacesRight, Placed, f
  <2>5. Start(h, e.row) \in Nat
    <3>1. e.row \in 0..host.rows
      BY <1>2, <2>3, Sizes DEF Rows
    <3>. QED
      BY <1>2, <3>1, StartRight
  <2>6. \A q \in Nat : Ahead(h, e.row, q) \in Nat
    BY <1>2, AheadRight
  <2>7. Ahead(h, e.row, f) \in Nat /\ Ahead(h, e.row, e.q) \in Nat
    BY <1>1, <2>3, <2>6
  <2>8. CountIn(h, e.row, f, e.q) = Ahead(h, e.row, e.q) - Ahead(h, e.row, f)
    BY DEF CountIn
  <2>9. PlaceOf(h, e.q, e.slot) = Start(h, e.row) + Ahead(h, e.row, e.q)
    BY <2>3 DEF PlaceOf
  <2>. QED
    BY <2>1, <2>4, <2>5, <2>7, <2>8, <2>9
<1>. QED
  BY <1>3, <1>5, <1>6 DEF first, last, f, h, cleared, i

(* What an instruction writes in q_idx: its entries, each at its place.    *)
LEMMA ScatterWrites ==
    ASSUME CsrIInv, NEW u \in DOMAIN at, Scatter(u)
    PROVE  LET h == AtHead(u)
               i == at[u] % Steps(u)
               first == First(u) + i * QPerIter
               last == Larger(first, Smaller(first + QPerIter, End(u)))
               entries == Entries(h, first, last) IN
           /\ edges' = [g \in Heads |-> [k \in 0..(QIdxSize - 1) |-> edges'[g][k]]]
           /\ \A e \in entries : edges'[h][PlaceOf(h, e.q, e.slot)] = EdgeOf(h, e.q, e.slot)
           /\ \A g \in Heads, k \in 0..(QIdxSize - 1) :
                g # h \/ (\A e \in entries : PlaceOf(h, e.q, e.slot) # k) => edges'[g][k] = edges[g][k]
<1>. DEFINE h == AtHead(u)  i == at[u] % Steps(u)
            first == First(u) + i * QPerIter
            last == Larger(first, Smaller(first + QPerIter, End(u)))
            entries == Entries(h, first, last)
            cleared == IF i = 0 THEN Zeroed ELSE smem[u]
            before(e) == {f \in entries : LaneBefore(f, e)}
            place(e) == PlaceOf(h, e.q, e.slot)
            written(e) == EdgeOf(h, e.q, e.slot)
            at_place(k) == {e \in entries : place(e) = k}
            last_at(k) == CHOOSE e \in at_place(k) : at_place(k) \subseteq before(e) \cup {e}
            edge(e) == [q |-> e.q - prob.cuQ[BatchOf(prob.cuQ, e.q)], split |-> SplitOf(e, entries)]
<1>1. stage = "S" /\ h \in Heads /\ first \in Nat /\ last \in first..host.numQ
  BY ScatterMoves
<1>2. Fixed /\ MapRight /\ host.numQ \in Nat
  BY Sizes DEF CsrIInv
<1>3. edges = [g \in Heads |-> [k \in 0..(QIdxSize - 1) |-> edges[g][k]]]
  BY DEF CsrIInv, EdgesRight
<1>4. \A e \in entries :
         tileCounts[UnitIndex(u)][h][e.row] + Half(Bump(cleared, {f \in entries : LaneBefore(f, e)}), e.row) = place(e)
  BY ScatterPlaces
<1>. DEFINE pl(o, e) == tileCounts[UnitIndex(u)][h][e.row] + Half(Bump(cleared, o[e]), e.row)
            atp(o, k) == {e \in entries : pl(o, e) = k}
            la(o, k) == CHOOSE e \in atp(o, k) : atp(o, k) \subseteq o[e] \cup {e}
<1>5. PICK o \in LaneOrder(entries) :
        edges' = [edges EXCEPT ![h] =
                    [k \in DOMAIN edges[h] |-> IF atp(o, k) # {} THEN edge(la(o, k)) ELSE edges[h][k]]]
  BY DEF Scatter
<1>. HIDE DEF first, last, h, cleared, i
<1>6. edges' = [edges EXCEPT ![h] = [k \in DOMAIN edges[h] |->
                   IF at_place(k) # {} THEN edge(last_at(k)) ELSE edges[h][k]]]
  <2>1. \A e \in entries : o[e] = before(e)
    BY <1>5 DEF LaneOrder
  <2>2. \A e \in entries : pl(o, e) = place(e)
    BY <1>4, <2>1
  <2>3. \A k : atp(o, k) = at_place(k)
    BY <2>2
  <2>4. \A k : \A e \in atp(o, k) : o[e] = before(e)
    BY <2>1
  <2>. HIDE DEF pl, at_place, before, entries, edge, atp
  <2>5. \A k : la(o, k) = last_at(k)
    <3>. SUFFICES ASSUME NEW k PROVE la(o, k) = last_at(k)
      OBVIOUS
    <3>1. \A e : e \in atp(o, k) /\ atp(o, k) \subseteq o[e] \cup {e}
                    <=> e \in at_place(k) /\ at_place(k) \subseteq before(e) \cup {e}
      BY <2>3, <2>4
    <3>. QED
      BY <3>1, Zenon
  <2>. HIDE DEF la, last_at
  <2>. QED
    BY <1>5, <2>3, <2>5
<1>7. last \in 0..host.numQ
  BY <1>1, <1>2
<1>8. \A e \in entries : /\ e.q \in first..(last - 1) /\ e.q \in Queries /\ e.slot \in Valid(h, e.q)
                         /\ e = [q |-> e.q, slot |-> e.slot, row |-> RowAt(h, e.q, e.slot)]
  BY <1>1, <1>2, <1>7, EntriesRight
<1>9. \A e \in entries : edge(e) = written(e)
  <2>. SUFFICES ASSUME NEW e \in entries PROVE SplitOf(e, entries) = Cardinality({t \in Valid(h, e.q) : t < e.slot})
    BY DEF EdgeOf
  <2>1. \A q \in first..(last - 1) : \A d \in entries :
           d.q = q => SplitOf(d, entries) = Cardinality({t \in Valid(h, q) : t < d.slot})
    BY <1>1, <1>2, <1>7, SlotsRight, ZenonT(30)
  <2>. QED
    BY <1>8, <2>1
<1>10. \A e \in entries : place(e) \in 0..(QIdxSize - 1)
  BY <1>1, <1>2, <1>8, PlaceRight
<1>11. \A e, f \in entries : place(e) = place(f) => e = f
  <2>. SUFFICES ASSUME NEW e \in entries, NEW f \in entries, place(e) = place(f) PROVE e = f
    OBVIOUS
  <2>1. e.q = f.q /\ e.slot = f.slot
    BY <1>1, <1>2, <1>8, PlaceRight
  <2>. QED
    BY <1>8, <2>1
<1>12. \A e \in entries : at_place(place(e)) = {e} /\ last_at(place(e)) = e
  <2>. SUFFICES ASSUME NEW e \in entries PROVE at_place(place(e)) = {e} /\ last_at(place(e)) = e
    OBVIOUS
  <2>1. at_place(place(e)) = {e}
    BY <1>11
  <2>. QED
    BY <2>1
<1>. DEFINE new == [k \in DOMAIN edges[h] |-> IF at_place(k) # {} THEN edge(last_at(k)) ELSE edges[h][k]]
<1>13. DOMAIN edges = Heads /\ DOMAIN edges[h] = 0..(QIdxSize - 1)
  BY <1>1, <1>3
<1>14. edges' = [g \in Heads |-> IF g = h THEN new ELSE edges[g]]
  <2>1. edges' = [edges EXCEPT ![h] = new]
    BY <1>6
  <2>. HIDE DEF new
  <2>. QED
    BY <1>13, <2>1
<1>15. \A e \in entries : edges'[h][place(e)] = written(e)
  <2>. SUFFICES ASSUME NEW e \in entries PROVE edges'[h][place(e)] = written(e)
    OBVIOUS
  <2>1. edges'[h] = new
    BY <1>1, <1>14
  <2>2. place(e) \in DOMAIN edges[h] /\ at_place(place(e)) # {} /\ edge(last_at(place(e))) = edge(e)
    BY <1>10, <1>12, <1>13
  <2>. HIDE DEF place, at_place, last_at, edge
  <2>3. new[place(e)] = edge(e)
    BY <2>2
  <2>. QED
    BY <1>9, <2>1, <2>3
<1>16. edges' = [g \in Heads |-> [k \in 0..(QIdxSize - 1) |-> edges'[g][k]]]
  <2>1. \A g \in Heads : edges'[g] = [k \in 0..(QIdxSize - 1) |-> edges'[g][k]]
    <3>. SUFFICES ASSUME NEW g \in Heads PROVE edges'[g] = [k \in 0..(QIdxSize - 1) |-> edges'[g][k]]
      OBVIOUS
    <3>1. CASE g = h
      <4>1. new = [k \in 0..(QIdxSize - 1) |-> new[k]]
        BY <1>13
      <4>. HIDE DEF new
      <4>. QED
        BY <1>14, <3>1, <4>1
    <3>2. CASE g # h
      <4>1. edges[g] = [k \in 0..(QIdxSize - 1) |-> edges[g][k]]
        BY <1>3
      <4>. HIDE DEF new
      <4>. QED
        BY <1>14, <3>2, <4>1
    <3>. QED
      BY <3>1, <3>2
  <2>. HIDE DEF new
  <2>. QED
    BY <1>14, <2>1
<1>17. ASSUME NEW g \in Heads, NEW k \in 0..(QIdxSize - 1), g # h \/ (\A e \in entries : place(e) # k)
       PROVE  edges'[g][k] = edges[g][k]
  <2>1. CASE g # h
    BY <1>14, <2>1
  <2>2. CASE g = h
    <3>1. at_place(k) = {}
      BY <1>17, <2>2
    <3>2. new[k] = edges[h][k]
      BY <1>13, <3>1
    <3>. QED
      BY <1>14, <2>2, <3>2
  <2>. QED
    BY <2>1, <2>2
<1>. QED
  BY <1>15, <1>16, <1>17 DEF first, last, h, i

(* The queries that have been scattered.                                   *)
LEMMA ScattersMore ==
    ASSUME CsrIInv, NEW u \in DOMAIN at, Scatter(u), NEW g \in Heads, NEW q \in Queries
    PROVE  LET h == AtHead(u)
               first == First(u) + (at[u] % Steps(u)) * QPerIter
               last == Larger(first, Smaller(first + QPerIter, End(u))) IN
           Scattered(g, q)' <=> Scattered(g, q) \/ (g = h /\ q \in first..(last - 1))
<1>. DEFINE h == AtHead(u)
            first == First(u) + (at[u] % Steps(u)) * QPerIter
            last == Larger(first, Smaller(first + QPerIter, End(u)))
<1>1. /\ stage = "S" /\ u \in Units /\ h \in Heads /\ Moves(u)
      /\ first \in Nat /\ First(u) \in Nat /\ First(u) <= first /\ last \in first..host.numQ
      /\ (\A k \in Heads : Reached(u, k)' = IF k = h THEN last ELSE Reached(u, k))
      /\ Reached(u, h) = first
  BY ScatterMoves
<1>. HIDE DEF h, first, last
<1>2. Fixed /\ Progress /\ stage' = "S" /\ UNCHANGED <<prob, host>>
  BY <1>1 DEF CsrIInv, Moves
<1>3. Units' = Units /\ (\A v : First(v)' = First(v) /\ End(v)' = End(v) /\ Steps(v)' = Steps(v))
  BY <1>2, SizesKept
<1>4. q \in Nat /\ host.numQ \in Nat
  BY <1>2, Sizes DEF Queries
<1>5. ASSUME NEW v \in Units, v # u PROVE Reached(v, g)' = Reached(v, g)
  <2>1. at' = [b \in Agents(stage) |-> IF b = u THEN at[u] + 1 ELSE at[b]]
    BY <1>1, <1>2, MovesRight
  <2>2. at'[v] = at[v]
    BY <1>1, <1>5, <2>1 DEF Agents
  <2>3. AtHead(v)' = AtHead(v)
    BY <1>3, <2>2 DEF AtHead
  <2>. QED
    BY <1>3, <2>2, <2>3 DEF Reached
<1>6. Reached(u, g)' = IF g = h THEN last ELSE Reached(u, g)
  BY <1>1
<1>7. Scattered(g, q)' <=> \E v \in Units : First(v) <= q /\ q < Reached(v, g)'
  BY <1>2, <1>3 DEF Scattered
<1>8. Scattered(g, q) <=> \E v \in Units : First(v) <= q /\ q < Reached(v, g)
  BY <1>1 DEF Scattered
<1>9. ASSUME Scattered(g, q) PROVE Scattered(g, q)'
  <2>1. PICK v \in Units : First(v) <= q /\ q < Reached(v, g)
    BY <1>8, <1>9
  <2>2. CASE v = u /\ g = h
    BY <1>1, <1>4, <1>6, <1>7, <2>1, <2>2
  <2>3. CASE v = u /\ g # h
    BY <1>6, <1>7, <2>1, <2>3
  <2>4. CASE v # u
    BY <1>5, <1>7, <2>1, <2>4
  <2>. QED
    BY <2>2, <2>3, <2>4
<1>10. ASSUME g = h, q \in first..(last - 1) PROVE Scattered(g, q)'
  <2>1. First(u) <= q /\ q < last
    BY <1>1, <1>4, <1>10
  <2>. QED
    BY <1>1, <1>6, <1>7, <1>10, <2>1
<1>11. ASSUME Scattered(g, q)', ~ Scattered(g, q) PROVE g = h /\ q \in first..(last - 1)
  <2>1. PICK v \in Units : First(v) <= q /\ q < Reached(v, g)'
    BY <1>7, <1>11
  <2>2. v = u /\ g = h
    BY <1>5, <1>6, <1>8, <1>11, <2>1
  <2>3. q < last /\ ~ (q < first)
    BY <1>1, <1>6, <1>8, <1>11, <2>1, <2>2
  <2>. QED
    BY <1>1, <1>4, <2>2, <2>3
<1>. QED
  BY <1>9, <1>10, <1>11 DEF h, first, last

(* Scatter keeps the invariant.                                            *)
LEMMA ScatterStep ==
    ASSUME CsrIInv, NEW u \in DOMAIN at, Scatter(u)
    PROVE  CsrIInv'
<1>. DEFINE h == AtHead(u)  i == at[u] % Steps(u)
            first == First(u) + i * QPerIter
            last == Larger(first, Smaller(first + QPerIter, End(u)))
            entries == Entries(h, first, last)
            cleared == IF i = 0 THEN Zeroed ELSE smem[u]
<1>1. /\ stage = "S" /\ u \in Units /\ h \in Heads /\ Moves(u) /\ i \in Nat
      /\ first \in Nat /\ First(u) \in Nat /\ First(u) <= first /\ last \in first..host.numQ
      /\ (\A g \in Heads : Reached(u, g)' = IF g = h THEN last ELSE Reached(u, g))
      /\ (at'[u] % Steps(u) > 0 => AtHead(u)' = h)
  BY ScatterMoves
<1>2. /\ UNCHANGED <<prob, host, wanted, stage, rowMap, rowCoords, rowCounts, tileCounts, rowPtr, items, workCount>>
      /\ smem' = [smem EXCEPT ![u] = Bump(cleared, entries)]
      /\ splitCounts' = [q \in DOMAIN splitCounts |->
            IF q \in first..(last - 1)
            THEN [splitCounts[q] EXCEPT ![h] = Cardinality({e \in entries : e.q = q})]
            ELSE splitCounts[q]]
  BY DEF Scatter, UnchangedM, UnchangedPR
<1>3. Fixed /\ Progress /\ MapRight /\ EdgesRight /\ SplitsRight /\ CursorsRight /\ host.numQ \in Nat
  BY Sizes DEF CsrIInv
<1>4. /\ Fixed' /\ Progress' /\ MapRight' /\ HistRight' /\ ScanRight' /\ PtrRight' /\ ItemsRight'
         /\ PlacesRight'
  BY <1>1, <1>2, Kept
<1>5. /\ Heads' = Heads /\ Queries' = Queries /\ Units' = Units /\ QIdxSize' = QIdxSize
      /\ (\A v : First(v)' = First(v) /\ End(v)' = End(v) /\ Steps(v)' = Steps(v))
  BY <1>2, SizesKept
<1>6. /\ (\A g, q : Valid(g, q)' = Valid(g, q))
      /\ (\A g, q, s : EdgeOf(g, q, s)' = EdgeOf(g, q, s) /\ PlaceOf(g, q, s)' = PlaceOf(g, q, s))
      /\ (\A g, f, e : Packed(g, f, e)' = Packed(g, f, e))
  BY <1>2, CountsKept
<1>7. /\ edges' = [g \in Heads |-> [k \in 0..(QIdxSize - 1) |-> edges'[g][k]]]
      /\ (\A e \in entries : edges'[h][PlaceOf(h, e.q, e.slot)] = EdgeOf(h, e.q, e.slot))
      /\ \A g \in Heads, k \in 0..(QIdxSize - 1) :
           g # h \/ (\A e \in entries : PlaceOf(h, e.q, e.slot) # k) => edges'[g][k] = edges[g][k]
  BY ScatterWrites
<1>8. \A g \in Heads, q \in Queries : Scattered(g, q)' <=> Scattered(g, q) \/ (g = h /\ q \in first..(last - 1))
  BY ScattersMore
<1>9. Bump(cleared, entries) = Packed(h, First(u), last)
  BY ScatterPlaces
<1>. HIDE DEF h, i, first, last, cleared
<1>10. last \in 0..host.numQ
  BY <1>1, <1>3
<1>11. /\ \A e \in entries : /\ e.q \in first..(last - 1) /\ e.q \in Queries /\ e.slot \in Valid(h, e.q)
                             /\ e = [q |-> e.q, slot |-> e.slot, row |-> RowAt(h, e.q, e.slot)]
       /\ \A q \in first..(last - 1) : q \in Queries /\ \A s \in Valid(h, q) :
             [q |-> q, slot |-> s, row |-> RowAt(h, q, s)] \in entries
  BY <1>1, <1>3, <1>10, EntriesRight
<1>12. ASSUME NEW q \in first..(last - 1), NEW s \in Valid(h, q)
       PROVE  q \in Queries /\ edges'[h][PlaceOf(h, q, s)] = EdgeOf(h, q, s)
  <2>. DEFINE e == [q |-> q, slot |-> s, row |-> RowAt(h, q, s)]
  <2>1. q \in Queries /\ e \in entries /\ e.q = q /\ e.slot = s
    BY <1>11
  <2>. HIDE DEF e
  <2>. QED
    BY <1>7, <2>1
<1>13. EdgesRight'
  <2>1. ASSUME NEW g \in Heads, NEW q \in Queries, Scattered(g, q)', NEW s \in Valid(g, q)
        PROVE  edges'[g][PlaceOf(g, q, s)] = EdgeOf(g, q, s)
    <3>1. CASE g = h /\ q \in first..(last - 1)
      BY <1>12, <3>1
    <3>2. CASE ~ (g = h /\ q \in first..(last - 1))
      <4>1. edges[g][PlaceOf(g, q, s)] = EdgeOf(g, q, s)
        <5>1. Scattered(g, q)
          BY <1>8, <2>1, <3>2
        <5>. QED
          BY <1>3, <5>1 DEF EdgesRight
      <4>2. /\ PlaceOf(g, q, s) \in 0..(QIdxSize - 1)
            /\ \A p \in Queries : \A t \in Valid(g, p) : PlaceOf(g, p, t) = PlaceOf(g, q, s) => p = q
               /\ t = s
        BY <1>1, <1>3, PlaceRight
      <4>3. g # h \/ (\A e \in entries : PlaceOf(h, e.q, e.slot) # PlaceOf(g, q, s))
        <5>1. SUFFICES ASSUME g = h, NEW e \in entries, PlaceOf(h, e.q, e.slot) = PlaceOf(g, q, s)
                              PROVE FALSE
          OBVIOUS
        <5>2. e.q = q
          BY <1>11, <4>2, <5>1
        <5>. QED
          BY <1>11, <3>2, <5>1, <5>2
      <4>. QED
        BY <1>7, <4>1, <4>2, <4>3
    <3>. QED
      BY <3>1, <3>2
  <2>2. ASSUME NEW g \in Heads, NEW k \in 0..(QIdxSize - 1), edges'[g][k] # NoEdge
        PROVE  \E q \in Queries : Scattered(g, q)' /\ \E s \in Valid(g, q) : k = PlaceOf(g, q, s)
    <3>1. CASE edges[g][k] = edges'[g][k]
      <4>1. PICK q \in Queries : Scattered(g, q) /\ \E s \in Valid(g, q) : k = PlaceOf(g, q, s)
        BY <1>3, <2>2, <3>1 DEF EdgesRight
      <4>2. Scattered(g, q)'
        BY <1>8, <4>1
      <4>. QED
        BY <4>1, <4>2
    <3>2. CASE edges[g][k] # edges'[g][k]
      <4>1. g = h
        BY <1>7, <3>2
      <4>2. PICK e \in entries : PlaceOf(h, e.q, e.slot) = k
        BY <1>7, <3>2
      <4>3. Scattered(g, e.q)'
        BY <1>8, <1>11, <4>1
      <4>. QED
        BY <1>11, <4>1, <4>2, <4>3
    <3>. QED
      BY <3>1, <3>2
  <2>3. NoEdge' = NoEdge
    BY DEF NoEdge
  <2>4. edges' = [g \in Heads' |-> [k \in 0..(QIdxSize' - 1) |-> edges'[g][k]]]
    BY <1>5, <1>7
  <2>5. \A g \in Heads', q \in Queries' : Scattered(g, q)' =>
           \A s \in Valid(g, q)' : edges'[g][PlaceOf(g, q, s)'] = EdgeOf(g, q, s)'
    BY <1>5, <1>6, <2>1
  <2>6. \A g \in Heads', k \in 0..(QIdxSize' - 1) :
           \/ edges'[g][k] = NoEdge'
           \/ \E q \in Queries' : Scattered(g, q)' /\ \E s \in Valid(g, q)' : k = PlaceOf(g, q, s)'
    <3>. SUFFICES ASSUME NEW g \in Heads, NEW k \in 0..(QIdxSize - 1), edges'[g][k] # NoEdge
                  PROVE  \E q \in Queries' : Scattered(g, q)'
                         /\ \E s \in Valid(g, q)' : k = PlaceOf(g, q, s)'
      BY <1>5, <2>3
    <3>1. PICK q \in Queries : Scattered(g, q)' /\ \E s \in Valid(g, q) : k = PlaceOf(g, q, s)
      BY <2>2
    <3>2. q \in Queries' /\ Valid(g, q)' = Valid(g, q) /\ \A s : PlaceOf(g, q, s)' = PlaceOf(g, q, s)
      BY <1>5, <1>6
    <3>. QED
      BY <3>1, <3>2
  <2>. QED
    BY <2>4, <2>5, <2>6 DEF EdgesRight
<1>14. SplitsRight'
  <2>1. splitCounts = [q \in Queries |-> [g \in Heads |-> splitCounts[q][g]]]
    BY <1>3 DEF SplitsRight
  <2>. DEFINE found(q) == Cardinality({e \in entries : e.q = q})
  <2>2. ASSUME NEW q \in Queries
        PROVE  splitCounts'[q] = [g \in Heads |-> IF g = h /\ q \in first..(last - 1) THEN found(q) ELSE splitCounts[q][g]]
    <3>1. q \in DOMAIN splitCounts /\ splitCounts[q] = [g \in Heads |-> splitCounts[q][g]]
      BY <2>1
    <3>2. splitCounts'[q] = IF q \in first..(last - 1) THEN [splitCounts[q] EXCEPT ![h] = found(q)] ELSE splitCounts[q]
      BY <1>2, <3>1
    <3>. HIDE DEF found
    <3>. QED
      BY <3>1, <3>2
  <2>3. DOMAIN splitCounts' = Queries
    BY <1>2, <2>1
  <2>4. splitCounts' = [q \in Queries |-> splitCounts'[q]]
    BY <1>2, <2>1
  <2>. HIDE DEF found
  <2>5. \A q \in Queries : splitCounts'[q] = [g \in Heads |-> splitCounts'[q][g]]
    BY <2>2
  <2>6. ASSUME NEW q \in Queries, NEW g \in Heads, Scattered(g, q)'
        PROVE  splitCounts'[q][g] = Cardinality(Valid(g, q))
    <3>1. CASE g = h /\ q \in first..(last - 1)
      <4>1. \A p \in first..(last - 1) : Cardinality({e \in entries : e.q = p}) = Cardinality(Valid(h, p))
        BY <1>1, <1>3, <1>10, SlotsRight
      <4>2. found(q) = Cardinality(Valid(h, q))
        BY <3>1, <4>1 DEF found
      <4>. QED
        BY <2>2, <3>1, <4>2
    <3>2. CASE ~ (g = h /\ q \in first..(last - 1))
      <4>1. Scattered(g, q)
        BY <1>8, <2>6, <3>2
      <4>2. splitCounts[q][g] = Cardinality(Valid(g, q))
        BY <1>3, <4>1 DEF SplitsRight
      <4>. QED
        BY <2>2, <3>2, <4>2
    <3>. QED
      BY <3>1, <3>2
  <2>7. splitCounts' = [q \in Queries' |-> [g \in Heads' |-> splitCounts'[q][g]]]
    BY <1>5, <2>4, <2>5
  <2>8. \A q \in Queries', g \in Heads' : Scattered(g, q)' => splitCounts'[q][g] = Cardinality(Valid(g, q)')
    <3>. SUFFICES ASSUME NEW q \in Queries, NEW g \in Heads, Scattered(g, q)'
                  PROVE  splitCounts'[q][g] = Cardinality(Valid(g, q)')
      BY <1>5
    <3>1. Valid(g, q)' = Valid(g, q)
      BY <1>6
    <3>. QED
      BY <2>6, <3>1
  <2>. QED
    BY <2>7, <2>8 DEF SplitsRight
<1>15. CursorsRight'
  <2>1. smem = [v \in Units |-> smem[v]]
    BY <1>1, <1>3 DEF CursorsRight
  <2>. DEFINE now == Bump(cleared, entries)
  <2>2. smem' = [v \in Units |-> IF v = u THEN now ELSE smem[v]]
    <3>1. smem' = [smem EXCEPT ![u] = now]
      BY <1>2
    <3>. HIDE DEF now
    <3>. QED
      BY <2>1, <3>1
  <2>3. ASSUME NEW v \in Units, at'[v] % Steps(v) > 0
        PROVE  smem'[v] = ScatteredTo(v)'[AtHead(v)']
    <3>1. ScatteredTo(v)' = [g \in Heads |-> Packed(g, First(v), Reached(v, g)')]
      <4>1. ASSUME NEW g PROVE Packed(g, First(v), Reached(v, g))' = Packed(g, First(v), Reached(v, g)')
        <5>1. ASSUME NEW r PROVE CountIn(g, r, First(v), Reached(v, g))' = CountIn(g, r, First(v), Reached(v, g)')
          <6>1. Chose(g, r)' = Chose(g, r)
            BY <1>2, CountsKept
          <6>2. /\ Ahead(g, r, Reached(v, g))' = Ahead(g, r, Reached(v, g)')
                /\ Ahead(g, r, First(v))' = Ahead(g, r, First(v))
            BY <1>5, <6>1 DEF Ahead
          <6>. QED
            BY <6>2 DEF CountIn
        <5>2. Words' = Words
          BY <1>2, SizesKept
        <5>. QED
          BY <5>1, <5>2 DEF Packed, HalfRange
      <4>2. ScatteredTo(v)' = [g \in Heads' |-> Packed(g, First(v), Reached(v, g))']
        BY DEF ScatteredTo
      <4>. QED
        BY <1>5, <4>1, <4>2
    <3>2. CASE v = u
      <4>1. PICK g \in Heads : g = h
        BY <1>1
      <4>2. AtHead(v)' = g /\ Reached(v, g)' = last
        BY <1>1, <2>3, <3>2, <4>1
      <4>3. ScatteredTo(v)'[g] = Packed(g, First(v), Reached(v, g)')
        BY <3>1
      <4>. QED
        BY <1>9, <2>2, <3>2, <4>1, <4>2, <4>3
    <3>3. CASE v # u
      <4>1. at' = [b \in Agents(stage) |-> IF b = u THEN at[u] + 1 ELSE at[b]] /\ Agents("S") = Units
        BY <1>1, <1>3, MovesRight DEF Agents
      <4>2. at'[v] = at[v]
        BY <1>1, <3>3, <4>1
      <4>3. AtHead(v)' = AtHead(v)
        BY <1>5, <4>2 DEF AtHead
      <4>4. \A g : Reached(v, g)' = Reached(v, g)
        BY <1>5, <4>2, <4>3 DEF Reached
      <4>5. smem[v] = ScatteredTo(v)[AtHead(v)]
        BY <1>1, <1>3, <2>3, <4>2 DEF CursorsRight
      <4>6. ScatteredTo(v)' = ScatteredTo(v)
        BY <3>1, <4>4 DEF ScatteredTo
      <4>. QED
        BY <2>2, <3>3, <4>3, <4>5, <4>6
    <3>. QED
      BY <3>2, <3>3
  <2>. HIDE DEF now
  <2>4. smem' = [v \in Units |-> smem'[v]]
    BY <2>2
  <2>5. \A v \in Units : at'[v] % Steps(v) > 0 => smem'[v] = ScatteredTo(v)'[AtHead(v)']
    BY <2>3
  <2>. QED
    BY <1>5, <2>4, <2>5 DEF CursorsRight
<1>. QED
  BY <1>4, <1>13, <1>14, <1>15 DEF CsrIInv

-----------------------------------------------------------------------------
(***************************************************************************)
(* The invariant holds throughout.                                         *)
(***************************************************************************)
(* Without queries or without rows there is nothing to count or to place.  *)
LEMMA NothingToDo ==
    ASSUME Fixed, ~ Busy
    PROVE  /\ \A h : \A r \in Rows : Ahead(h, r, host.numQ) = 0
           /\ \A h : \A r \in 0..host.rows : Start(h, r) = 0
           /\ \A h : \A q \in Queries : Valid(h, q) = {}
           /\ \A x \in Heads \X Rows : ChunksOf[x] = 0
<1>1. host.numQ \in Nat /\ host.rows \in Nat /\ (host.numQ = 0 \/ host.rows = 0)
  BY Sizes DEF Busy
<1>2. ASSUME NEW h, NEW r \in Rows PROVE Ahead(h, r, host.numQ) = 0
  <2>1. host.numQ = 0
    BY <1>1, <1>2 DEF Rows
  <2>2. Ahead(h, r, 0) = 0
    BY AheadRight
  <2>. QED
    BY <2>1, <2>2
<1>3. ASSUME NEW h, NEW r \in 0..host.rows PROVE Start(h, r) = 0
  <2>1. \A s \in 0..(r - 1) : CountOfRow(h)[s] = 0
    <3>1. ASSUME NEW s \in 0..(r - 1) PROVE CountOfRow(h)[s] = 0
      <4>1. s \in Rows
        BY <1>1 DEF Rows
      <4>. QED
        BY <1>2, <4>1 DEF CountOfRow
    <3>. QED
      BY <3>1
  <2>2. IsFiniteSet(0..(r - 1))
    BY <1>1, Counting
  <2>. QED
    BY <2>1, <2>2, TotalZero DEF Start
<1>4. ASSUME NEW h, NEW q \in Queries PROVE Valid(h, q) = {}
  <2>1. Rows = {}
    BY <1>1, <1>4 DEF Queries, Rows
  <2>2. \A s : RowAt(h, q, s) = -1
    BY <2>1 DEF RowAt
  <2>. QED
    BY <2>2 DEF Valid
<1>5. ASSUME NEW x \in Heads \X Rows PROVE ChunksOf[x] = 0
  <2>1. Ahead(x[1], x[2], host.numQ) = 0
    BY <1>2, <1>5
  <2>2. CeilDiv(0, Target) = 0
    <3>1. CeilDiv(0, Target) \in Nat /\ CeilDiv(0, Target) <= 0
      BY Positive, CeilDivRight
    <3>. QED
      BY <3>1
  <2>. QED
    BY <2>1, <2>2 DEF ChunksOf, Chunks
<1>. QED
  BY <1>2, <1>3, <1>4, <1>5

(* What the host allocates and clears satisfies it.                        *)
LEMMA CsrInitRight ==
    ASSUME CsrInit, \A p \in Problems : SafeProblem(p)
    PROVE  CsrIInv
<1>1. Fixed
  BY DEF CsrInit, Fixed
<1>2. host.numQ \in Nat /\ host.rows \in Nat /\ host.heads \in Nat /\ host.capacity \in Nat
  BY <1>1, Sizes
<1>3. (stage = "done" /\ ~ Busy) \/ (stage = "M" /\ Busy)
  BY <1>2 DEF CsrInit, Busy
<1>4. at = [a \in Agents(stage) |-> 0]
  BY DEF CsrInit
<1>5. Progress
  <2>1. \A a \in Agents(stage) : at[a] \in 0..StepsOf(stage, a)
    <3>1. CASE stage = "done"
      BY <3>1 DEF Agents
    <3>2. CASE stage = "M"
      <4>1. \A a : StepsOf("M", a) = 1
        BY DEF StepsOf
      <4>. QED
        BY <1>4, <3>2, <4>1
    <3>. QED
      BY <1>3, <3>1, <3>2
  <2>. QED
    BY <1>3, <1>4, <2>1 DEF Progress
<1>6. MapRight
  <2>1. ASSUME NEW l \in Levels0 PROVE ~ Mapped(l)
    <3>1. CASE stage = "M"
      <4>1. <<l, 0>> \in Agents("M")
        BY DEF Agents
      <4>2. at[<<l, 0>>] = 0
        BY <1>4, <3>1, <4>1
      <4>. QED
        BY <3>1, <4>2 DEF Mapped
    <3>2. CASE stage = "done"
      BY <1>3, <3>2 DEF Mapped
    <3>. QED
      BY <1>3, <3>1, <3>2
  <2>2. /\ rowMap = [b \in SeqsOf(prob.cuK) |-> [l \in Levels0 |-> -1]]
        /\ rowCoords = [r \in Rows |-> <<>>]
    BY DEF CsrInit
  <2>3. /\ rowMap = [b \in SeqsOf(prob.cuK) |-> [l \in Levels0 |-> rowMap[b][l]]]
        /\ rowCoords = [r \in Rows |-> rowCoords[r]]
    BY <2>2
  <2>. QED
    BY <2>1, <2>3 DEF MapRight
<1>7. HistRight
  <2>1. rowCounts = [h \in Heads |-> [r \in Rows |-> 0]]
    BY DEF CsrInit
  <2>2. Grid(rowCounts) /\ \A h \in Heads, r \in Rows : rowCounts[h][r] = 0
    BY <2>1 DEF Grid
  <2>3. stage = "done" => rowCounts = [h \in Heads |-> CountOfRow(h)]
    <3>. SUFFICES ASSUME stage = "done" PROVE rowCounts = [h \in Heads |-> CountOfRow(h)]
      OBVIOUS
    <3>1. \A h : CountOfRow(h) = [r \in Rows |-> 0]
      BY <1>1, <1>3, NothingToDo DEF CountOfRow
    <3>. QED
      BY <2>1, <3>1
  <2>. QED
    BY <1>3, <2>2, <2>3 DEF HistRight
<1>8. ScanRight /\ PlacesRight /\ CursorsRight
  BY <1>3 DEF ScanRight, PlacesRight, CursorsRight
<1>9. PtrRight
  <2>1. rowPtr = [h \in Heads |-> [i \in 0..host.rows |-> 0]]
    BY DEF CsrInit
  <2>2. /\ rowPtr = [h \in Heads |-> [i \in 0..host.rows |-> rowPtr[h][i]]]
        /\ \A h \in Heads : rowPtr[h][0] = 0
    BY <1>2, <2>1
  <2>3. ASSUME NEW h \in Heads, NEW r \in Rows, Emitted(h, r) PROVE rowPtr[h][r + 1] = Start(h, r + 1)
    <3>1. stage = "done" /\ ~ Busy
      BY <1>3, <2>3 DEF Emitted
    <3>2. r + 1 \in 0..host.rows
      BY <1>2 DEF Rows
    <3>. QED
      BY <1>1, <2>1, <3>1, <3>2, NothingToDo
  <2>. QED
    BY <2>2, <2>3 DEF PtrRight
<1>10. ItemsRight
  <2>1. items = [k \in 0..(host.capacity - 1) |-> NoItem] /\ workCount = 0
    BY DEF CsrInit
  <2>2. items = [k \in 0..(host.capacity - 1) |-> items[k]]
    BY <2>1
  <2>3. RowsEmitted \subseteq Heads \X Rows
    BY DEF RowsEmitted
  <2>4. \A x \in RowsEmitted : ChunksOf[x] = 0
    <3>1. CASE stage = "M"
      <4>1. RowsEmitted = {}
        BY <3>1 DEF RowsEmitted, Emitted
      <4>. QED
        BY <4>1
    <3>2. CASE stage = "done"
      BY <1>1, <1>3, <2>3, <3>2, NothingToDo
    <3>. QED
      BY <1>3, <3>1, <3>2
  <2>5. IsFiniteSet(RowsEmitted)
    <3>1. IsFiniteSet(Heads \X Rows)
      BY <1>1, RoomInAll
    <3>. QED
      BY <2>3, <3>1, FS_Subset
  <2>6. Total(ChunksOf, RowsEmitted) = 0
    BY <2>4, <2>5, TotalZero
  <2>7. 0..(workCount - 1) = {}
    BY <2>1
  <2>8. \A x \in RowsEmitted : 0..(ChunksOf[x] - 1) = {}
    BY <2>4
  <2>. QED
    BY <2>1, <2>2, <2>6, <2>7, <2>8 DEF ItemsRight
<1>11. ASSUME NEW h \in Heads, NEW q \in Queries, Scattered(h, q) PROVE Valid(h, q) = {} /\ stage = "done"
  <2>1. stage = "done" /\ ~ Busy
    BY <1>3, <1>11 DEF Scattered
  <2>. QED
    BY <1>1, <2>1, NothingToDo
<1>12. EdgesRight
  <2>1. edges = [h \in Heads |-> [i \in 0..(QIdxSize - 1) |-> NoEdge]]
    BY DEF CsrInit, QIdxSize
  <2>2. /\ edges = [h \in Heads |-> [i \in 0..(QIdxSize - 1) |-> edges[h][i]]]
        /\ \A h \in Heads, i \in 0..(QIdxSize - 1) : edges[h][i] = NoEdge
    BY <2>1
  <2>. QED
    BY <1>11, <2>2 DEF EdgesRight
<1>13. SplitsRight
  <2>1. splitCounts = [q \in Queries |-> [h \in Heads |-> IF stage = "done" THEN 0 ELSE -1]]
    BY DEF CsrInit
  <2>2. splitCounts = [q \in Queries |-> [h \in Heads |-> splitCounts[q][h]]]
    BY <2>1
  <2>3. \A q \in Queries, h \in Heads : Scattered(h, q) => splitCounts[q][h] = Cardinality(Valid(h, q))
    BY <1>11, <2>1, FS_EmptySet
  <2>. QED
    BY <2>2, <2>3 DEF SplitsRight
<1>. QED
  BY <1>1, <1>5, <1>6, <1>7, <1>8, <1>9, <1>10, <1>12, <1>13 DEF CsrIInv

(* A step of another component leaves all of it alone.                     *)
LEMMA Unmoved ==
    ASSUME CsrIInv, UNCHANGED csrVars
    PROVE  CsrIInv'
<1>1. /\ UNCHANGED <<prob, host, stage, at, rowMap, rowCoords, smem, rowCounts, tileCounts, rowPtr>>
      /\ UNCHANGED <<scan, addend, items, workCount, edges, splitCounts, wanted>>
  BY DEF csrVars
<1>2. /\ Heads' = Heads /\ Rows' = Rows /\ Queries' = Queries /\ Levels0' = Levels0 /\ Units' = Units
         /\ Busy' = Busy
      /\ QIdxSize' = QIdxSize /\ Zeroed' = Zeroed /\ Ctas' = Ctas
      /\ (\A u : First(u)' = First(u) /\ End(u)' = End(u) /\ Steps(u)' = Steps(u))
      /\ (\A t : FirstRow(t)' = FirstRow(t)) /\ (\A r : ThreadOf(r)' = ThreadOf(r))
      /\ (\A k : Agents(k)' = Agents(k)) /\ (\A k, a : StepsOf(k, a)' = StepsOf(k, a))
  BY <1>1, SizesKept
<1>3. /\ (\A h, r, q : Ahead(h, r, q)' = Ahead(h, r, q))
         /\ (\A h, r, f, e : CountIn(h, r, f, e)' = CountIn(h, r, f, e))
      /\ (\A h : CountOfRow(h)' = CountOfRow(h)) /\ (\A h, r : Start(h, r)' = Start(h, r))
      /\ (\A h, r : CtaCounts(h, r)' = CtaCounts(h, r)) /\ (\A h, t, o : Reach(h, t, o)' = Reach(h, t, o))
      /\ (\A h, f, e : Packed(h, f, e)' = Packed(h, f, e))
      /\ ChunksOf' = ChunksOf /\ (\A h, q : Valid(h, q)' = Valid(h, q))
      /\ \A h, q, s : EdgeOf(h, q, s)' = EdgeOf(h, q, s) /\ PlaceOf(h, q, s)' = PlaceOf(h, q, s)
  BY <1>1, CountsKept
<1>4. Fixed'
  <2>1. Definition(prob)' = Definition(prob)
    BY <1>1, <1>2 DEF Definition
  <2>2. SafeProblem(prob)' /\ HostSizes(prob)' = host'
    BY <1>1 DEF CsrIInv, Fixed
  <2>. QED
    BY <1>1, <2>1, <2>2 DEF CsrIInv, Fixed
<1>5. Progress'
  <2>1. \A a : StepsOf(stage, a)' = StepsOf(stage, a)
    BY <1>1, <1>2 DEF StepsOf
  <2>2. Agents(stage)' = Agents(stage)
    BY <1>1, <1>2 DEF Agents
  <2>. QED
    BY <1>1, <1>2, <2>1, <2>2 DEF CsrIInv, Progress
<1>6. MapRight'
  BY <1>1, <1>2 DEF CsrIInv, MapRight, Mapped
<1>7. \A u, h, r : /\ CountIn(h, r, First(u), End(u))' = CountIn(h, r, First(u), End(u))
                   /\ Ahead(h, r, First(u))' = Ahead(h, r, First(u))
  <2>1. \A u, h, r : Ahead(h, r, First(u))' = Ahead(h, r, First(u))
        /\ Ahead(h, r, End(u))' = Ahead(h, r, End(u))
    BY <1>2, <1>3 DEF Ahead
  <2>. QED
    BY <2>1 DEF CountIn
<1>8. Words' = Words
  BY <1>1, SizesKept
<1>9. \A u, h, r : TileRight(u, h, r)' = TileRight(u, h, r)
  BY <1>1, <1>7 DEF TileRight, UnitIndex
<1>10. HistRight'
  <2>1. \A f : Grid(f)' = Grid(f)
    BY <1>2 DEF Grid
  <2>2. Grid(rowCounts)' /\ \A k : Grid(tileCounts[k])' = Grid(tileCounts[k])
    BY <1>1, <1>2 DEF CsrIInv, HistRight, Grid
  <2>3. TileGrid' = TileGrid
    BY <1>1, <2>2 DEF TileGrid
  <2>4. Abreast' = Abreast
    BY <1>1, <1>2 DEF Abreast
  <2>5. \A u : Counters(u)' = Counters(u)
    <3>1. \A u, h : Packed(h, First(u), End(u))' = Packed(h, First(u), End(u))
      <4>1. \A h, r, u : CountIn(h, r, First(u), End(u))' = CountIn(h, r, First(u), End(u))
        BY <1>7
      <4>. QED
        BY <1>8, <4>1 DEF Packed, HalfRange
    <3>2. \A u : Counted(u)' = Counted(u)
      BY <1>2, <3>1 DEF Counted
    <3>3. \A u : HeadOf(u)' = HeadOf(u)
      BY <1>1 DEF HeadOf
    <3>. QED
      BY <1>1, <1>2, <3>2, <3>3 DEF Counters
  <2>6. TilesCounted' = TilesCounted
    BY <1>1, <1>2, <1>9 DEF TilesCounted
  <2>7. HeadsSummed' = HeadsSummed
    <3>1. \A h, r : Summed(h, r)' = Summed(h, r)
      BY <1>1, <1>2 DEF Summed
    <3>2. \A h, r : CtaCounts(h, r)' = CtaCounts(h, r)
      BY <1>3
    <3>. QED
      BY <1>1, <1>2, <3>1, <3>2 DEF HeadsSummed
  <2>8. HistRight
    BY DEF CsrIInv
  <2>9. stage' = "M" => \A h \in Heads', r \in Rows' : rowCounts'[h][r] = 0
    BY <1>1, <1>2, <2>8 DEF HistRight
  <2>10. stage' = "H" => Abreast' /\ smem' = [u \in Units' |-> Counters(u)'] /\ TilesCounted'
         /\ HeadsSummed'
    BY <1>1, <1>2, <2>4, <2>5, <2>6, <2>7, <2>8 DEF HistRight
  <2>11. stage' \notin {"M", "H"} => rowCounts' = [h \in Heads' |-> CountOfRow(h)']
    BY <1>1, <1>2, <1>3, <2>8 DEF HistRight
  <2>12. stage' \in {"H", "PR", "PT", "S"} => TileGrid'
    BY <1>1, <2>3, <2>8 DEF HistRight
  <2>13. stage' = "PR" => \A u \in Units', h \in Heads', r \in Rows' : TileRight(u, h, r)'
    BY <1>1, <1>2, <1>9, <2>8 DEF HistRight
  <2>. QED
    BY <2>2, <2>9, <2>10, <2>11, <2>12, <2>13 DEF HistRight
<1>11. ScanRight'
  <2>1. \A k : OffsetAt(k)' = OffsetAt(k)
    BY DEF OffsetAt, Doubled
  <2>2. Emitting' = Emitting
    BY DEF Emitting, ScanRounds
  <2>3. InStep' = InStep
    BY <1>1, <1>2, <2>2 DEF InStep
  <2>. QED
    BY <1>1, <1>2, <1>3, <2>1, <2>2, <2>3 DEF CsrIInv, ScanRight
<1>12. \A h, r : Emitted(h, r)' = Emitted(h, r)
  BY <1>1, <1>2 DEF Emitted, Emitting, ScanRounds
<1>13. PtrRight'
  <2>1. \A h, r : Start(h, r + 1)' = Start(h, r + 1)
    BY <1>3
  <2>. QED
    BY <1>1, <1>2, <1>12, <2>1 DEF CsrIInv, PtrRight
<1>14. ItemsRight'
  <2>1. RowsEmitted' = RowsEmitted
    BY <1>2, <1>12 DEF RowsEmitted
  <2>2. \A h, r, c : ChunkItem(h, r, c)' = ChunkItem(h, r, c)
    BY <1>1 DEF ChunkItem
  <2>. QED
    BY <1>1, <1>3, <2>1, <2>2, ZenonT(30) DEF CsrIInv, ItemsRight
<1>15. PlacesRight'
  <2>1. \A h, r : Placed(h, r)' = Placed(h, r)
    BY <1>1 DEF Placed, BlockOf
  <2>2. \A u, h, r : tileCounts[UnitIndex(u)][h][r]' = tileCounts[UnitIndex(u)][h][r]
    BY <1>1 DEF UnitIndex
  <2>. QED
    BY <1>1, <1>2, <1>3, <1>7, <1>9, <2>1, <2>2 DEF CsrIInv, PlacesRight
<1>16. \A u, h : Reached(u, h)' = Reached(u, h) /\ AtHead(u)' = AtHead(u)
  <2>1. \A u : AtHead(u)' = AtHead(u)
    BY <1>1, <1>2 DEF AtHead
  <2>. QED
    BY <1>1, <1>2, <2>1 DEF Reached
<1>17. \A h, q : Scattered(h, q)' = Scattered(h, q)
  BY <1>1, <1>2, <1>16 DEF Scattered
<1>18. EdgesRight'
  BY <1>1, <1>2, <1>3, <1>17 DEF CsrIInv, EdgesRight, NoEdge
<1>19. SplitsRight'
  BY <1>1, <1>2, <1>3, <1>17 DEF CsrIInv, SplitsRight
<1>20. CursorsRight'
  <2>1. \A u, h : Packed(h, First(u), Reached(u, h))' = Packed(h, First(u), Reached(u, h))
    <3>1. \A u, h, r : CountIn(h, r, First(u), Reached(u, h))' = CountIn(h, r, First(u), Reached(u, h))
      <4>1. \A u, g, h, r : Ahead(h, r, Reached(u, g))' = Ahead(h, r, Reached(u, g))
        BY <1>3, <1>16 DEF Ahead
      <4>. QED
        BY <1>7, <4>1 DEF CountIn
    <3>. QED
      BY <1>8, <3>1 DEF Packed, HalfRange
  <2>2. \A u : ScatteredTo(u)' = ScatteredTo(u)
    BY <1>2, <2>1 DEF ScatteredTo
  <2>. QED
    BY <1>1, <1>2, <1>16, <2>2 DEF CsrIInv, CursorsRight
<1>. QED
  BY <1>4, <1>5, <1>6, <1>10, <1>11, <1>13, <1>14, <1>15, <1>18, <1>19, <1>20 DEF CsrIInv

(* Every step of every thread, and every launch, keeps the invariant.      *)
LEMMA BuilderStep ==
    ASSUME CsrIInv, Builder
    PROVE  CsrIInv'
<1>1. ASSUME NEW a \in DOMAIN at, KernelStep(a) PROVE CsrIInv'
  <2>1. CASE MapLevel(a)
    BY <2>1, MapStep
  <2>2. CASE HistZero(a)
    BY <2>2, ZeroStep
  <2>3. CASE HistCount(a)
    BY <2>3, CountStep
  <2>4. CASE HistTile(a)
    BY <2>4, TileStep
  <2>5. CASE HistSum(a)
    BY <2>5, SumStep
  <2>6. CASE ScanLocal(a)
    BY <2>6, LocalStep
  <2>7. CASE ScanRead(a)
    BY <2>7, ReadStep
  <2>8. CASE ScanAdd(a)
    BY <2>8, AddStep
  <2>9. CASE EmitRow(a)
    BY <2>9, EmitStep
  <2>10. CASE PrefixBlock(a)
    BY <2>10, PrefixStep
  <2>11. CASE Scatter(a)
    BY <2>11, ScatterStep
  <2>. QED
    BY <1>1, <2>1, <2>2, <2>3, <2>4, <2>5, <2>6, <2>7, <2>8, <2>9, <2>10, <2>11 DEF KernelStep
<1>2. CASE LaunchNext
  BY <1>2, LaunchStep
<1>. QED
  BY <1>1, <1>2 DEF Builder

(* The counters, the maps, the scan, the work list, the places and the      *)
(* entries of the index are what the kernels have made of the problem, for  *)
(* every batch that keeps to SafeProblem, every shape of a launch and every *)
(* interleaving of CTAs, warps and threads.                                 *)
THEOREM CsrInvariance ==
    ASSUME \A p \in Problems : SafeProblem(p)
    PROVE  CsrSpec => []CsrIInv
<1>1. CsrInit => CsrIInv
  BY CsrInitRight
<1>2. CsrIInv /\ [Builder]_csrVars => CsrIInv'
  <2>1. CASE Builder
    BY <2>1, BuilderStep
  <2>2. ASSUME CsrIInv, UNCHANGED csrVars PROVE CsrIInv'
    BY <2>2, Unmoved
  <2>. QED
    BY <2>1, <2>2
<1>. QED
  BY <1>1, <1>2, PTL DEF CsrSpec

-----------------------------------------------------------------------------
(***************************************************************************)
(* What it means for the finished index.                                   *)
(***************************************************************************)
(* A row begins where the rows before it end.                              *)
LEMMA PtrAtEnd ==
    ASSUME CsrIInv, stage = "done", NEW h \in Heads
    PROVE  /\ \A r \in 0..host.rows : rowPtr[h][r] = Start(h, r)
           /\ \A r \in Rows : rowPtr[h][r + 1] - rowPtr[h][r] = Ahead(h, r, host.numQ)
<1>1. Fixed /\ PtrRight /\ host.rows \in Nat /\ host.numQ \in Nat
  BY Sizes DEF CsrIInv
<1>2. \A r \in Rows : Emitted(h, r)
  BY DEF Emitted
<1>3. ASSUME NEW r \in 0..host.rows PROVE rowPtr[h][r] = Start(h, r)
  <2>1. CASE r = 0
    BY <1>1, <2>1, StartRight DEF PtrRight
  <2>2. CASE r # 0
    <3>1. r - 1 \in Rows /\ (r - 1) + 1 = r
      BY <1>1, <2>2 DEF Rows
    <3>. QED
      BY <1>1, <1>2, <3>1 DEF PtrRight
  <2>. QED
    BY <2>1, <2>2
<1>4. ASSUME NEW r \in Rows PROVE rowPtr[h][r + 1] - rowPtr[h][r] = Ahead(h, r, host.numQ)
  <2>1. r \in 0..host.rows /\ r + 1 \in 0..host.rows
    BY <1>1 DEF Rows
  <2>2. Start(h, r + 1) = Start(h, r) + Ahead(h, r, host.numQ) /\ Start(h, r) \in Nat
    BY <1>1, <2>1, StartRight
  <2>3. Ahead(h, r, host.numQ) \in Nat
    <3>1. \A q \in Nat : Ahead(h, r, q) \in Nat
      BY <1>1, AheadRight
    <3>. QED
      BY <1>1, <3>1
  <2>. QED
    BY <1>3, <2>1, <2>2, <2>3
<1>. QED
  BY <1>3, <1>4

(* Chunk c of a row: where it begins and how many queries it has.          *)
LEMMA ChunkBounds ==
    ASSUME NEW n \in Nat, NEW c \in 0..(Chunks(n, Target) - 1)
    PROVE  /\ c * Target \in Nat /\ c * Target < n
           /\ Smaller(Target, n - c * Target) \in 1..Target
           /\ c * Target + Smaller(Target, n - c * Target) <= n
           /\ \A i \in 0..(n - 1) :
                i \in (c * Target)..(c * Target + Smaller(Target, n - c * Target) - 1) <=> i \div Target = c
<1>1. Target \in Nat \ {0}
  BY Positive
<1>. DEFINE k == Chunks(n, Target)  x == c * Target
<1>2. k \in Nat /\ n <= k * Target /\ k * Target < n + Target
  BY <1>1, CeilDivRight DEF Chunks
<1>. HIDE DEF k
<1>3. c \in Nat /\ c < k /\ x \in Nat /\ k * Target \in Nat
  BY <1>1, <1>2 DEF k
<1>4. x + Target <= k * Target
  BY <1>1, <1>2, <1>3, Groups
<1>5. x < n
  <2>. DEFINE y == k * Target
  <2>1. y \in Nat /\ x + Target <= y /\ y < n + Target /\ x \in Nat
    BY <1>2, <1>3, <1>4
  <2>. HIDE DEF x, y
  <2>. QED
    BY <1>1, <2>1
<1>6. ASSUME NEW i \in 0..(n - 1)
      PROVE  i \in x..(x + Smaller(Target, n - x) - 1) <=> x <= i /\ i < x + Target
  <2>. HIDE DEF x
  <2>. QED
    BY <1>1, <1>3, <1>5 DEF Smaller
<1>7. ASSUME NEW i \in 0..(n - 1), x <= i, i < x + Target PROVE i \div Target = c
  <2>1. i \in Nat
    OBVIOUS
  <2>. QED
    BY <1>1, <1>3, <1>7, <2>1, QuotientOf
<1>8. ASSUME NEW i \in 0..(n - 1), i \div Target = c PROVE x <= i /\ i < x + Target
  <2>1. i \in Nat
    OBVIOUS
  <2>2. i = (i \div Target) * Target + (i % Target) /\ i % Target \in 0..(Target - 1)
    BY <1>1, <2>1, Euclid
  <2>3. i = x + (i % Target)
    BY <1>8, <2>2
  <2>. HIDE DEF x
  <2>. QED
    BY <1>1, <1>3, <2>2, <2>3
<1>9. Smaller(Target, n - x) \in 1..Target /\ x + Smaller(Target, n - x) <= n
  <2>. HIDE DEF x
  <2>. QED
    BY <1>1, <1>3, <1>5 DEF Smaller
<1>. QED
  BY <1>3, <1>5, <1>6, <1>7, <1>8, <1>9

(* The item of a chunk: its coordinates are those of the row.              *)
LEMMA ChunkItemRight ==
    ASSUME CsrIInv, stage = "done", NEW h \in Heads, NEW r \in Rows,
           NEW c \in 0..(Chunks(Ahead(h, r, host.numQ), Target) - 1)
    PROVE  LET it == ChunkItem(h, r, c)
               n == Ahead(h, r, host.numQ) IN
           /\ it.head = h /\ it.row = r /\ it.begin = c * Target
           /\ it.count = Smaller(Target, n - c * Target) /\ n \in Nat
           /\ <<it.batch, it.block>> \in Blocks(prob.cuK) /\ wanted.row[<<it.batch, it.block>>] = r
<1>1. Fixed /\ MapRight /\ HistRight /\ host.numQ \in Nat
  BY Sizes DEF CsrIInv
<1>2. rowCounts[h][r] = Ahead(h, r, host.numQ)
  BY <1>1 DEF HistRight, CountOfRow
<1>3. /\ ChunkItem(h, r, c).head = h /\ ChunkItem(h, r, c).row = r /\ ChunkItem(h, r, c).begin = c * Target
      /\ ChunkItem(h, r, c).count = Smaller(Target, Ahead(h, r, host.numQ) - c * Target)
      /\ ChunkItem(h, r, c).batch = rowCoords[r][1] /\ ChunkItem(h, r, c).block = rowCoords[r][2]
  BY <1>2 DEF ChunkItem, Item
<1>4. Ahead(h, r, host.numQ) \in Nat /\ Ahead(h, r, host.numQ) > 0
  <2>1. \A q \in Nat : Ahead(h, r, q) \in Nat
    BY <1>1, AheadRight
  <2>. DEFINE n == Ahead(h, r, host.numQ)
  <2>2. n \in Nat
    BY <1>1, <2>1
  <2>3. c \in 0..(Chunks(n, Target) - 1)
    OBVIOUS
  <2>. HIDE DEF n
  <2>4. c * Target \in Nat /\ c * Target < n
    BY <2>2, <2>3, ChunkBounds
  <2>5. n > 0
    <3>. DEFINE x == c * Target
    <3>1. x \in Nat /\ x < n
      BY <2>4
    <3>. HIDE DEF x
    <3>. QED
      BY <2>2, <3>1
  <2>. QED
    BY <2>2, <2>5 DEF n
<1>5. PICK q \in Chose(h, r) : TRUE
  <2>1. IsFiniteSet(Chose(h, r)) /\ Ahead(h, r, host.numQ) = Cardinality(Chose(h, r))
    BY <1>1, AllAhead
  <2>2. Chose(h, r) # {}
    BY <1>4, <2>1, FS_EmptySet
  <2>. QED
    BY <2>2
<1>6. PICK s \in 1..TopK : q \in Queries /\ RowAt(h, q, s) = r
  BY <1>5 DEF Chose
<1>7. r # -1
  BY <1>1, Sizes DEF Rows
<1>. DEFINE b == BatchOf(prob.cuQ, q)  kvb == Picks(h, q)[s]
<1>8. /\ b \in SeqsOf(prob.cuK) /\ kvb \in Nat /\ HasLevel(prob.cuK, b, kvb)
      /\ r = RowOf(prob.cuK, b, kvb) /\ rowCoords[r] = <<b, kvb>>
  BY <1>1, <1>6, <1>7, RowAtRight
<1>. HIDE DEF b, kvb
<1>9. <<b, kvb>> \in Blocks(prob.cuK)
  BY <1>1, <1>8, LevelsFit
<1>10. RowOf(prob.cuK, b, kvb) = RowRank(prob.cuK, b, kvb)
  <2>1. PrefixSums(prob.cuK)
    BY <1>1 DEF Fixed, SafeProblem
  <2>2. \A bl \in Blocks(prob.cuK) : RowOf(prob.cuK, bl[1], bl[2]) = RowRank(prob.cuK, bl[1], bl[2])
    BY <2>1, RowsNumbered
  <2>. QED
    BY <1>9, <2>2
<1>11. wanted.row[<<b, kvb>>] = RowRank(prob.cuK, b, kvb)
  BY <1>1, <1>9 DEF Fixed, Definition
<1>. QED
  BY <1>3, <1>4, <1>8, <1>9, <1>10, <1>11

(* The work list of a finished index covers it within the capacity.        *)
LEMMA ScheduleAtEnd ==
    ASSUME CsrIInv
    PROVE  ScheduleRight
<1>. SUFFICES ASSUME stage = "done" PROVE
        /\ workCount <= host.capacity
        /\ Covers([k \in 0..(workCount - 1) |-> items[k]],
                  [h \in Heads |-> [r \in Rows |-> rowPtr[h][r + 1] - rowPtr[h][r]]], Target, wanted.row)
  BY DEF ScheduleRight
<1>. DEFINE K == 0..(workCount - 1)
            list == [k \in K |-> items[k]]
            counts == [h \in Heads |-> [r \in Rows |-> rowPtr[h][r + 1] - rowPtr[h][r]]]
            chunks(h, r) == 0..(Chunks(Ahead(h, r, host.numQ), Target) - 1)
<1>1. Fixed /\ ItemsRight /\ host.numQ \in Nat
  BY Sizes DEF CsrIInv
<1>2. RowsEmitted = Heads \X Rows
  BY DEF RowsEmitted, Emitted
<1>3. workCount \in Nat /\ workCount <= host.capacity
  <2>1. Heads \X Rows \in SUBSET (Heads \X Rows)
    OBVIOUS
  <2>2. Total(ChunksOf, Heads \X Rows) \in Nat /\ Total(ChunksOf, Heads \X Rows) <= host.capacity
    BY <1>1, <2>1, CapacityRight
  <2>. QED
    BY <1>1, <1>2, <2>2 DEF ItemsRight
<1>4. \A h \in Heads, r \in Rows : counts[h][r] = Ahead(h, r, host.numQ)
  BY PtrAtEnd
<1>5. \A h \in Heads, r \in Rows : ChunksOf[<<h, r>>] = Chunks(Ahead(h, r, host.numQ), Target)
  BY DEF ChunksOf
<1>6. \A k \in K : \E h \in Heads, r \in Rows : \E c \in chunks(h, r) : items[k] = ChunkItem(h, r, c)
  <2>. SUFFICES ASSUME NEW k \in K
                PROVE  \E h \in Heads, r \in Rows : \E c \in chunks(h, r) : items[k] = ChunkItem(h, r, c)
    OBVIOUS
  <2>1. PICK x \in Heads \X Rows : \E c \in 0..(ChunksOf[x] - 1) : items[k] = ChunkItem(x[1], x[2], c)
    BY <1>1, <1>2 DEF ItemsRight
  <2>2. x[1] \in Heads /\ x[2] \in Rows /\ x = <<x[1], x[2]>>
    BY <2>1
  <2>3. ChunksOf[x] = Chunks(Ahead(x[1], x[2], host.numQ), Target)
    BY <1>5, <2>2
  <2>. QED
    BY <2>1, <2>2, <2>3
<1>7. ASSUME NEW h \in Heads, NEW r \in Rows, NEW c \in chunks(h, r)
      PROVE  \E k \in K : items[k] = ChunkItem(h, r, c)
  <2>1. <<h, r>> \in RowsEmitted /\ <<h, r>>[1] = h /\ <<h, r>>[2] = r
    BY <1>2
  <2>2. c \in 0..(ChunksOf[<<h, r>>] - 1)
    BY <1>5
  <2>. QED
    BY <1>1, <2>1, <2>2 DEF ItemsRight
<1>8. \A k, l \in K : items[k] = items[l] => k = l
  BY <1>1 DEF ItemsRight
<1>9. ASSUME NEW h \in Heads, NEW r \in Rows
      PROVE  Ahead(h, r, host.numQ) \in Nat
  <2>1. \A q \in Nat : Ahead(h, r, q) \in Nat
    BY <1>1, AheadRight
  <2>. QED
    BY <1>1, <2>1
<1>16. ASSUME NEW h \in Heads, NEW r \in Rows, NEW c \in chunks(h, r)
       PROVE  ChunkItem(h, r, c).head = h /\ ChunkItem(h, r, c).row = r
  BY ChunkItemRight
<1>. HIDE DEF K
<1>10. DOMAIN list = K /\ \A k \in K : list[k] = items[k]
  OBVIOUS
<1>11. DOMAIN counts = Heads /\ \A h \in Heads : DOMAIN counts[h] = Rows
  OBVIOUS
<1>12. DOMAIN wanted.row = Blocks(prob.cuK)
  BY <1>1 DEF Fixed, Definition
<1>. HIDE DEF list, counts
<1>13. ASSUME NEW h \in Heads, NEW r \in Rows, NEW i \in 0..(counts[h][r] - 1)
       PROVE  Cardinality({k \in K : /\ list[k].head = h /\ list[k].row = r
                                     /\ i \in list[k].begin..(list[k].begin + list[k].count - 1)}) = 1
  <2>. DEFINE n == Ahead(h, r, host.numQ)
              c == i \div Target
              E == {k \in K : /\ list[k].head = h /\ list[k].row = r
                              /\ i \in list[k].begin..(list[k].begin + list[k].count - 1)}
  <2>1. n \in Nat /\ i \in 0..(n - 1) /\ i \in Nat /\ Target \in Nat \ {0}
    BY <1>4, <1>9, Positive
  <2>2. c \in chunks(h, r)
    <3>1. i = c * Target + (i % Target) /\ i % Target \in 0..(Target - 1) /\ c \in Nat
      BY <2>1, Euclid
    <3>. DEFINE t == Chunks(n, Target)
    <3>2. t \in Nat /\ n <= t * Target
      BY <2>1, CeilDivRight DEF Chunks
    <3>. HIDE DEF c, n, t
    <3>3. ASSUME t <= c PROVE FALSE
      <4>1. t * Target <= c * Target
        BY <2>1, <3>1, <3>2, <3>3, Groups
      <4>. DEFINE x == t * Target  y == c * Target
      <4>2. x \in Nat /\ y \in Nat /\ x <= y /\ n <= x /\ i = y + (i % Target)
        BY <2>1, <3>1, <3>2, <4>1
      <4>. HIDE DEF x, y
      <4>. QED
        BY <2>1, <3>1, <4>2
    <3>. QED
      BY <3>1, <3>2, <3>3 DEF t, n
  <2>3. PICK k \in K : items[k] = ChunkItem(h, r, c)
    BY <1>7, <2>2
  <2>4. ASSUME NEW d \in chunks(h, r)
        PROVE  i \in ChunkItem(h, r, d).begin..(ChunkItem(h, r, d).begin + ChunkItem(h, r, d).count - 1) <=> c = d
    <3>. DEFINE size == Smaller(Target, n - d * Target)  it == ChunkItem(h, r, d)
    <3>1. it.begin = d * Target /\ it.count = size
      BY ChunkItemRight
    <3>2. i \in (d * Target)..(d * Target + size - 1) <=> c = d
      BY <2>1, ChunkBounds
    <3>. HIDE DEF it, size, c
    <3>. QED
      BY <3>1, <3>2 DEF it
  <2>5. k \in E
    <3>1. items[k].head = h /\ items[k].row = r
      BY <1>16, <2>2, <2>3
    <3>2. i \in items[k].begin..(items[k].begin + items[k].count - 1)
      BY <2>2, <2>3, <2>4
    <3>. QED
      BY <1>10, <2>3, <3>1, <3>2
  <2>6. ASSUME NEW l \in E PROVE l = k
    <3>1. /\ l \in K /\ items[l].head = h /\ items[l].row = r
          /\ i \in items[l].begin..(items[l].begin + items[l].count - 1)
      BY <1>10
    <3>2. PICK g \in Heads, s \in Rows : \E d \in chunks(g, s) : items[l] = ChunkItem(g, s, d)
      BY <1>6, <3>1
    <3>3. PICK d \in chunks(g, s) : items[l] = ChunkItem(g, s, d)
      BY <3>2
    <3>4. g = h /\ s = r
      BY <1>16, <3>1, <3>3
    <3>5. d \in chunks(h, r) /\ items[l] = ChunkItem(h, r, d)
      BY <3>3, <3>4
    <3>6. c = d
      BY <2>4, <3>1, <3>5
    <3>. QED
      BY <1>8, <2>3, <3>1, <3>5, <3>6
  <2>7. E = {k}
    BY <2>5, <2>6
  <2>. QED
    BY <2>7, FS_Singleton
<1>14. ASSUME NEW k \in K
       PROVE  /\ list[k].count \in 1..Target
              /\ list[k].begin + list[k].count <= counts[list[k].head][list[k].row]
              /\ <<list[k].batch, list[k].block>> \in DOMAIN wanted.row
              /\ wanted.row[<<list[k].batch, list[k].block>>] = list[k].row
  <2>1. PICK h \in Heads, r \in Rows : \E c \in chunks(h, r) : items[k] = ChunkItem(h, r, c)
    BY <1>6
  <2>2. PICK c \in chunks(h, r) : items[k] = ChunkItem(h, r, c)
    BY <2>1
  <2>. DEFINE n == Ahead(h, r, host.numQ)  it == ChunkItem(h, r, c)
  <2>3. /\ it.head = h /\ it.row = r /\ it.begin = c * Target /\ it.count = Smaller(Target, n - c * Target)
        /\ n \in Nat /\ <<it.batch, it.block>> \in Blocks(prob.cuK)
           /\ wanted.row[<<it.batch, it.block>>] = r
    BY <2>2, ChunkItemRight
  <2>4. Smaller(Target, n - c * Target) \in 1..Target /\ c * Target + Smaller(Target, n - c * Target) <= n
    BY <2>3, ChunkBounds
  <2>5. list[k] = it /\ counts[h][r] = n
    BY <1>4, <1>10, <2>2
  <2>. HIDE DEF it, n
  <2>. QED
    BY <1>12, <2>3, <2>4, <2>5
<1>15. Covers(list, counts, Target, wanted.row)
  BY <1>10, <1>11, <1>13, <1>14 DEF Covers
<1>. QED
  BY <1>3, <1>15 DEF list, counts, K

(* The work list, in whatever order the threads emit their rows and however *)
(* their items interleave: every query of every row is in one item, with    *)
(* the row's coordinates, and the list is within the capacity the host      *)
(* allotted (build_k2q_csr.cu, launch_pipeline).                            *)
THEOREM ScheduleIsRight ==
    ASSUME \A p \in Problems : SafeProblem(p)
    PROVE  CsrSpec => []ScheduleRight
<1>1. CsrSpec => []CsrIInv
  BY CsrInvariance
<1>2. CsrIInv => ScheduleRight
  BY ScheduleAtEnd
<1>. QED
  BY <1>1, <1>2, PTL

(* The elements of a set of numbers, by their ranks.                       *)
LEMMA Ranks ==
    ASSUME NEW S \in SUBSET Nat, IsFiniteSet(S)
    PROVE  /\ Cardinality(S) \in Nat
           /\ \A x \in S : Under(S, x) \in 0..(Cardinality(S) - 1)
           /\ \A x, y \in S : Under(S, x) = Under(S, y) => x = y
           /\ \A k \in 0..(Cardinality(S) - 1) : \E x \in S : Under(S, x) = k
<1>. DEFINE below == [x \in S |-> {y \in S : y < x}]
<1>1. \A x \in S : below[x] = {y \in S : y < x} /\ Under(S, x) = Cardinality(below[x])
  BY DEF Under
<1>2. below \in [S -> SUBSET S]
  OBVIOUS
<1>. HIDE DEF below
<1>3. \A x \in S : x \in Nat
  OBVIOUS
<1>4. \A x \in S : x \notin below[x]
  BY <1>1, <1>3
<1>5. ASSUME NEW x \in S, NEW y \in S, x < y PROVE x \in below[y] /\ below[x] \subseteq below[y]
  <2>1. \A z \in S : z < x => z < y
    BY <1>3, <1>5
  <2>. QED
    BY <1>1, <1>5, <2>1
<1>6. \A x, y \in S : \/ x = y
                      \/ x \in below[y] /\ below[x] \subseteq below[y]
                      \/ y \in below[x] /\ below[y] \subseteq below[x]
  BY <1>3, <1>5
<1>7. /\ \A x \in S : Cardinality(below[x]) \in 0..(Cardinality(S) - 1)
      /\ \A x, y \in S : Cardinality(below[x]) = Cardinality(below[y]) => x = y
      /\ \A k \in 0..(Cardinality(S) - 1) : \E x \in S : Cardinality(below[x]) = k
  <2>. DEFINE T == S
  <2>1. /\ IsFiniteSet(T) /\ below \in [T -> SUBSET T]
        /\ (\A x \in T : x \notin below[x])
        /\ \A x, y \in T : \/ x = y
                           \/ x \in below[y] /\ below[x] \subseteq below[y]
                           \/ y \in below[x] /\ below[y] \subseteq below[x]
    BY <1>2, <1>4, <1>6
  <2>. HIDE DEF T
  <2>2. /\ \A x \in T : Cardinality(below[x]) \in 0..(Cardinality(T) - 1)
        /\ \A x, y \in T : Cardinality(below[x]) = Cardinality(below[y]) => x = y
        /\ \A k \in 0..(Cardinality(T) - 1) : \E x \in T : Cardinality(below[x]) = k
    BY <2>1, Places
  <2>. QED
    BY <2>2 DEF T
<1>8. Cardinality(S) \in Nat
  BY FS_CardinalityType
<1>. QED
  BY <1>1, <1>7, <1>8

(* Ascending lists a set of numbers by those ranks.                        *)
LEMMA AscendingRight ==
    ASSUME NEW S \in SUBSET Nat, IsFiniteSet(S), NEW x \in S
    PROVE  Under(S, x) + 1 \in 1..Cardinality(S) /\ Ascending(S)[Under(S, x) + 1] = x
<1>1. /\ Cardinality(S) \in Nat /\ Under(S, x) \in 0..(Cardinality(S) - 1)
      /\ \A y \in S : Under(S, x) = Under(S, y) => x = y
  BY Ranks
<1>. DEFINE i == Under(S, x) + 1  P(y) == Cardinality({z \in S : z < y}) = i - 1
<1>2. i \in 1..Cardinality(S) /\ i - 1 = Under(S, x)
  BY <1>1
<1>3. \A y \in S : P(y) <=> Under(S, y) = Under(S, x)
  BY <1>2 DEF Under
<1>4. \A y \in S : P(y) <=> y = x
  BY <1>1, <1>3
<1>5. Ascending(S)[i] = CHOOSE y \in S : P(y)
  BY <1>2 DEF Ascending
<1>. HIDE DEF P, i
<1>6. (CHOOSE y \in S : P(y)) = x
  BY <1>4
<1>. QED
  BY <1>2, <1>5, <1>6 DEF i

(* The queries of a row are those of its sequence that chose its block.    *)
LEMMA ChosenInRow ==
    ASSUME Fixed, MapRight, stage # "M", NEW h \in Heads, NEW bl \in Blocks(prob.cuK)
    PROVE  LET b == bl[1]
               r == RowOf(prob.cuK, bl[1], bl[2])
               S == Chosen(prob, h, bl[1], bl[2]) IN
           /\ r \in Rows /\ prob.cuQ[b] \in Nat
           /\ \A i \in S : i \in Nat /\ prob.cuQ[b] + i \in Chose(h, r)
                           /\ BatchOf(prob.cuQ, prob.cuQ[b] + i) = b
           /\ \A q \in Chose(h, r) : \E i \in S : q = prob.cuQ[b] + i
<1>. DEFINE b == bl[1]  l == bl[2]  cu == prob.cuQ  r == RowOf(prob.cuK, b, l)  S == Chosen(prob, h, b, l)
<1>1. PrefixSums(cu) /\ PrefixSums(prob.cuK) /\ Len(cu) = Len(prob.cuK)
  BY DEF Fixed, SafeProblem
<1>2. /\ bl = <<b, l>> /\ b \in SeqsOf(prob.cuK) /\ l \in Nat /\ HasLevel(prob.cuK, b, l)
  BY <1>1, BlocksRight
<1>3. b \in SeqsOf(cu)
  BY <1>1, <1>2 DEF SeqsOf
<1>4. /\ b \in 1..Len(cu) /\ b + 1 \in 1..Len(cu) /\ LenOf(cu, b) \in Nat /\ Len(cu) \in Nat
      /\ cu[b] \in Nat /\ cu[b + 1] \in Nat /\ Tokens(cu) = cu[Len(cu)] /\ Len(cu) \in 1..Len(cu)
      /\ Tokens(cu) \in Nat /\ cu[b + 1] <= Tokens(cu) /\ LenOf(cu, b) = cu[b + 1] - cu[b]
  <2>1. /\ Len(cu) \in Nat /\ Len(cu) > 1 /\ Tokens(cu) = cu[Len(cu)]
        /\ (\A a \in 1..Len(cu) : cu[a] \in Nat)
        /\ (\A a, c \in 1..Len(cu) : a <= c => cu[a] <= cu[c])
        /\ \A a \in SeqsOf(cu) : a \in 1..Len(cu) /\ a + 1 \in 1..Len(cu) /\ LenOf(cu, a) \in Nat
    BY <1>1, SumsRight
  <2>2. b \in 1..Len(cu) /\ b + 1 \in 1..Len(cu) /\ LenOf(cu, b) \in Nat /\ Len(cu) \in 1..Len(cu)
    BY <1>3, <2>1
  <2>3. cu[b + 1] <= cu[Len(cu)]
    BY <2>1, <2>2
  <2>. QED
    BY <2>1, <2>2, <2>3 DEF LenOf
<1>5. r \in Rows /\ host.numQ = Tokens(cu) /\ host.rows \in Nat
  BY <1>2, LevelsFit, Sizes
<1>6. r # -1 /\ host.rows > 0
  BY <1>5 DEF Rows
<1>7. h \in Nat /\ \A q : Picks(h, q) = prob.q2k[h + 1][q + 1]
  BY Sizes DEF Picks, Heads
<1>. HIDE DEF r
<1>8. ASSUME NEW i \in S PROVE i \in Nat /\ cu[b] + i \in Chose(h, r) /\ BatchOf(cu, cu[b] + i) = b
  <2>. DEFINE q == cu[b] + i
  <2>1. i \in 0..(LenOf(cu, b) - 1) /\ \E s \in 1..TopK : prob.q2k[h + 1][q + 1][s] = l
    BY DEF Chosen
  <2>. DEFINE x == cu[b]  y == cu[b + 1]  n == Tokens(cu)
  <2>2. i \in Nat /\ q \in Nat /\ cu[b] <= q /\ q < cu[b + 1] /\ q < host.numQ
    <3>1. x \in Nat /\ y \in Nat /\ n \in Nat /\ y <= n /\ i \in 0..((y - x) - 1) /\ q = x + i
          /\ host.numQ = n
      BY <1>4, <1>5, <2>1
    <3>. HIDE DEF x, y, n, q
    <3>2. i \in Nat /\ q \in Nat /\ x <= q /\ q < y /\ q < host.numQ
      BY <3>1
    <3>. QED
      BY <3>2 DEF x, y
  <2>. HIDE DEF q
  <2>3. q \in Queries /\ q \in 0..(Tokens(cu) - 1) /\ host.numQ > 0
    BY <1>4, <1>5, <2>2, SMTT(30) DEF Queries
  <2>4. BatchOf(cu, q) = b
    BY <1>1, <1>3, <2>2, <2>3, BatchRight
  <2>5. PICK s \in 1..TopK : Picks(h, q)[s] = l
    BY <1>7, <2>1
  <2>6. RowAt(h, q, s) # -1
    <3>1. Busy
      BY <1>6, <2>3 DEF Busy
    <3>. QED
      BY <1>2, <2>3, <2>4, <2>5, <3>1, RowAtRight
  <2>7. RowAt(h, q, s) = r
    BY <2>3, <2>4, <2>5, <2>6, RowAtRight DEF r
  <2>. QED
    BY <2>2, <2>3, <2>4, <2>7 DEF Chose, q
<1>9. ASSUME NEW q \in Chose(h, r) PROVE \E i \in S : q = cu[b] + i
  <2>1. PICK s \in 1..TopK : q \in Queries /\ RowAt(h, q, s) = r
    BY DEF Chose
  <2>2. q \in Nat /\ q \in 0..(Tokens(cu) - 1)
    BY <2>1, PicksRight
  <2>. DEFINE c == BatchOf(cu, q)  k == Picks(h, q)[s]
  <2>3. c \in SeqsOf(prob.cuK) /\ k \in Nat /\ HasLevel(prob.cuK, c, k) /\ r = RowOf(prob.cuK, c, k)
    BY <1>6, <2>1, RowAtRight
  <2>4. cu[c] <= q /\ q < cu[c + 1]
    BY <1>1, <2>2, BatchRight
  <2>. HIDE DEF c, k
  <2>5. c = b /\ k = l
    <3>1. <<c, k>> \in Blocks(prob.cuK)
      BY <2>3, LevelsFit
    <3>2. \A x, y \in Blocks(prob.cuK) : RowOf(prob.cuK, x[1], x[2]) = RowOf(prob.cuK, y[1], y[2]) => x = y
      BY <1>1, RowsNumbered
    <3>3. <<c, k>> = bl
      BY <2>3, <3>1, <3>2 DEF r
    <3>. QED
      BY <1>2, <3>3
  <2>. DEFINE i == q - cu[b]
  <2>6. i \in 0..(LenOf(cu, b) - 1) /\ q = cu[b] + i
    <3>. DEFINE x == cu[b]  y == cu[b + 1]
    <3>1. x \in Nat /\ y \in Nat /\ LenOf(cu, b) = y - x /\ q \in Nat /\ x <= q /\ q < y /\ i = q - x
      BY <1>4, <2>2, <2>4, <2>5
    <3>. HIDE DEF x, y, i
    <3>2. i \in 0..((y - x) - 1) /\ q = x + i
      BY <3>1
    <3>. QED
      BY <3>1, <3>2 DEF x
  <2>7. prob.q2k[h + 1][cu[b] + i + 1][s] = l
    <3>1. cu[b] + i + 1 = q + 1
      BY <1>4, <2>2, SMTT(30)
    <3>. QED
      BY <1>7, <2>5, <3>1 DEF k
  <2>. HIDE DEF i
  <2>8. i \in S
    BY <2>1, <2>6, <2>7 DEF Chosen
  <2>. QED
    BY <2>6, <2>8
<1>. QED
  BY <1>4, <1>5, <1>8, <1>9 DEF r

(* What a finished row lists is what its block was chosen by.              *)
LEMMA SliceRight ==
    ASSUME CsrIInv, stage = "done", NEW h \in Heads, NEW bl \in Blocks(prob.cuK)
    PROVE  /\ RowOf(prob.cuK, bl[1], bl[2]) \in Rows
           /\ Slice(h, RowOf(prob.cuK, bl[1], bl[2])) = Ascending(Chosen(prob, h, bl[1], bl[2]))
<1>. DEFINE b == bl[1]  r == RowOf(prob.cuK, bl[1], bl[2])  S == Chosen(prob, h, bl[1], bl[2])
            C == Chose(h, r)  o == prob.cuQ[b]
<1>1. Fixed /\ MapRight /\ EdgesRight
  BY DEF CsrIInv
<1>2. /\ r \in Rows /\ o \in Nat
      /\ \A i \in S : i \in Nat /\ o + i \in C /\ BatchOf(prob.cuQ, o + i) = b
      /\ \A q \in C : \E i \in S : q = o + i
  BY <1>1, ChosenInRow
<1>3. C \in SUBSET Nat /\ IsFiniteSet(C) /\ Ahead(h, r, host.numQ) = Cardinality(C)
  BY <1>1, AheadRight, AllAhead
<1>. HIDE DEF b, r, S, C, o
<1>4. IsFiniteSet(S) /\ Cardinality(S) = Cardinality(C) /\ S \in SUBSET Nat
  <2>. DEFINE f == [i \in S |-> o + i]
  <2>1. /\ f \in [S -> C]
        /\ (\A i, j \in S : f[i] = f[j] => i = j)
        /\ \A q \in C : \E i \in S : f[i] = q
    BY <1>2
  <2>. HIDE DEF f
  <2>2. IsFiniteSet(S) /\ Cardinality(S) = Cardinality(C)
    BY <1>3, <2>1, SameCount
  <2>3. S \in SUBSET Nat
    BY <1>2
  <2>. QED
    BY <2>2, <2>3
<1>5. ASSUME NEW x \in S PROVE Ahead(h, r, o + x) = Under(S, x)
  <2>. DEFINE A == {y \in S : y < x}  B == {p \in C : p < o + x}
              f == [y \in A |-> o + y]
  <2>1. x \in Nat
    BY <1>2
  <2>2. \A y \in A : y \in S /\ y \in Nat /\ o + y \in B
    BY <1>2, <2>1
  <2>3. \A p \in B : \E y \in A : o + y = p
    <3>. SUFFICES ASSUME NEW p \in B PROVE \E y \in A : o + y = p
      OBVIOUS
    <3>1. PICK y \in S : p = o + y
      BY <1>2
    <3>2. y \in Nat /\ p < o + x
      BY <1>2
    <3>3. y < x
      BY <1>2, <2>1, <3>1, <3>2
    <3>. QED
      BY <3>1, <3>3
  <2>4. B \in SUBSET C
    OBVIOUS
  <2>. HIDE DEF A, B
  <2>5. /\ f \in [A -> B]
        /\ (\A i, j \in A : f[i] = f[j] => i = j)
        /\ \A q \in B : \E i \in A : f[i] = q
    BY <1>2, <2>2, <2>3
  <2>6. IsFiniteSet(B)
    BY <1>3, <2>4, FS_Subset
  <2>. HIDE DEF f
  <2>7. Cardinality(A) = Cardinality(B)
    BY <2>5, <2>6, SameCount
  <2>. QED
    BY <2>7 DEF A, B, Ahead, Under, C
<1>. DEFINE n == Cardinality(S)
<1>6. n \in Nat /\ rowPtr[h][r + 1] - rowPtr[h][r] = n
  <2>1. rowPtr[h][r + 1] - rowPtr[h][r] = Ahead(h, r, host.numQ)
    BY <1>2, PtrAtEnd
  <2>. QED
    BY <1>3, <1>4, <2>1, FS_CardinalityType
<1>7. rowPtr[h][r] = Start(h, r) /\ Start(h, r) \in Nat
  <2>1. r \in 0..host.rows
    BY <1>1, <1>2, Sizes DEF Rows
  <2>. QED
    BY <1>1, <2>1, PtrAtEnd, StartRight
<1>8. Slice(h, r) = [i \in 1..n |-> edges[h][rowPtr[h][r] + i - 1].q]
  BY <1>6 DEF Slice
<1>9. ASSUME NEW i \in 1..n PROVE edges[h][rowPtr[h][r] + i - 1].q = Ascending(S)[i]
  <2>1. i - 1 \in 0..(n - 1)
    BY <1>6
  <2>2. PICK x \in S : Under(S, x) = i - 1
    BY <1>4, <2>1, Ranks
  <2>3. Ascending(S)[i] = x
    <3>1. Ascending(S)[Under(S, x) + 1] = x
      BY <1>4, AscendingRight
    <3>2. (i - 1) + 1 = i
      BY <1>6
    <3>. QED
      BY <2>2, <3>1, <3>2
  <2>. DEFINE q == o + x
  <2>4. q \in C /\ BatchOf(prob.cuQ, q) = b /\ x \in Nat /\ q - o = x
    BY <1>2
  <2>5. Ahead(h, r, q) = i - 1
    BY <1>5, <2>2
  <2>. HIDE DEF q
  <2>6. PICK s \in 1..TopK : q \in Queries /\ RowAt(h, q, s) = r
    BY <2>4 DEF C, Chose
  <2>7. s \in Valid(h, q)
    <3>1. r # -1
      BY <1>1, <1>2, Sizes DEF Rows
    <3>. QED
      BY <2>6, <3>1 DEF Valid
  <2>8. edges[h][PlaceOf(h, q, s)] = EdgeOf(h, q, s)
    BY <1>1, <2>6, <2>7 DEF EdgesRight, Scattered
  <2>9. PlaceOf(h, q, s) = rowPtr[h][r] + i - 1
    <3>1. PlaceOf(h, q, s) = Start(h, r) + (i - 1)
      BY <2>5, <2>6 DEF PlaceOf
    <3>. QED
      BY <1>6, <1>7, <3>1
  <2>10. EdgeOf(h, q, s).q = x
    BY <2>4 DEF EdgeOf, o
  <2>. QED
    BY <2>3, <2>8, <2>9, <2>10
<1>10. Ascending(S) = [i \in 1..n |-> Ascending(S)[i]]
  <2>. DEFINE ranked(i) == CHOOSE x \in S : Cardinality({y \in S : y < x}) = i - 1
  <2>1. Ascending(S) = [i \in 1..n |-> ranked(i)]
    BY DEF Ascending
  <2>. HIDE DEF ranked
  <2>. QED
    BY <2>1
<1>. HIDE DEF n
<1>11. Slice(h, r) = Ascending(S)
  BY <1>8, <1>9, <1>10
<1>. QED
  BY <1>2, <1>11 DEF r, S

(* Outside the rows of the blocks, and after the rows, there is nothing.   *)
LEMMA RestEmpty ==
    ASSUME CsrIInv, stage = "done", NEW h \in Heads
    PROVE  /\ \A row \in Rows : row >= Cardinality(Blocks(prob.cuK)) => Slice(h, row) = <<>>
           /\ \A i \in rowPtr[h][host.rows]..(QIdxSize - 1) : edges[h][i] = NoEdge
<1>1. Fixed /\ MapRight /\ EdgesRight /\ host.numQ \in Nat /\ host.rows \in Nat
  BY Sizes DEF CsrIInv
<1>2. ASSUME NEW q \in Queries, NEW s \in 1..TopK, RowAt(h, q, s) # -1
      PROVE  RowAt(h, q, s) \in Rows /\ RowAt(h, q, s) < Cardinality(Blocks(prob.cuK))
  <2>. DEFINE b == BatchOf(prob.cuQ, q)  l == Picks(h, q)[s]
  <2>1. /\ RowAt(h, q, s) \in Rows \cup {-1} /\ b \in SeqsOf(prob.cuK)
        /\ l \in Nat /\ HasLevel(prob.cuK, b, l) /\ RowAt(h, q, s) = RowOf(prob.cuK, b, l)
    BY <1>1, <1>2, RowAtRight
  <2>. HIDE DEF b, l
  <2>2. PrefixSums(prob.cuK)
    BY <1>1 DEF Fixed, SafeProblem
  <2>3. <<b, l>> \in Blocks(prob.cuK)
    BY <1>1, <2>1, LevelsFit
  <2>4. \A bl \in Blocks(prob.cuK) : RowOf(prob.cuK, bl[1], bl[2]) \in 0..(Cardinality(Blocks(prob.cuK)) - 1)
    BY <2>2, RowsNumbered
  <2>5. Cardinality(Blocks(prob.cuK)) \in Nat
    BY <2>2, BlocksRight, FS_CardinalityType
  <2>6. RowOf(prob.cuK, b, l) \in 0..(Cardinality(Blocks(prob.cuK)) - 1)
    BY <2>3, <2>4
  <2>. QED
    BY <1>2, <2>1, <2>5, <2>6
<1>3. ASSUME NEW row \in Rows, row >= Cardinality(Blocks(prob.cuK)) PROVE Slice(h, row) = <<>>
  <2>1. Cardinality(Blocks(prob.cuK)) \in Nat /\ row \in Nat
    <3>1. PrefixSums(prob.cuK)
      BY <1>1 DEF Fixed, SafeProblem
    <3>. QED
      BY <1>1, <3>1, BlocksRight, FS_CardinalityType DEF Rows
  <2>2. Chose(h, row) = {}
    <3>1. SUFFICES ASSUME NEW q \in Queries, NEW s \in 1..TopK, RowAt(h, q, s) = row PROVE FALSE
      BY DEF Chose
    <3>2. RowAt(h, q, s) # -1
      BY <2>1, <3>1
    <3>3. RowAt(h, q, s) < Cardinality(Blocks(prob.cuK))
      BY <1>2, <3>2
    <3>. QED
      BY <1>3, <2>1, <3>1, <3>3
  <2>3. Ahead(h, row, host.numQ) = 0
    BY <1>1, <2>2, AllAhead, FS_EmptySet
  <2>4. rowPtr[h][row + 1] - rowPtr[h][row] = 0
    BY <2>3, PtrAtEnd
  <2>. QED
    BY <2>4 DEF Slice
<1>4. ASSUME NEW i \in rowPtr[h][host.rows]..(QIdxSize - 1) PROVE edges[h][i] = NoEdge
  <2>1. (\A r \in 0..host.rows : Start(h, r) \in Nat)
        /\ \A a, b \in 0..host.rows : a <= b => Start(h, a) <= Start(h, b)
    BY <1>1, StartRight
  <2>2. rowPtr[h][host.rows] = Start(h, host.rows) /\ Start(h, host.rows) \in Nat /\ QIdxSize \in Nat
    BY <1>1, <2>1, PtrAtEnd, RoomInHead
  <2>3. i \in 0..(QIdxSize - 1) /\ i \in Nat /\ Start(h, host.rows) <= i
    BY <2>2
  <2>4. ASSUME NEW q \in Queries, NEW s \in Valid(h, q), i = PlaceOf(h, q, s) PROVE FALSE
    <3>. DEFINE r == RowAt(h, q, s)
    <3>1. s \in 1..TopK /\ r # -1
      BY DEF Valid
    <3>2. r \in Rows /\ q \in Chose(h, r)
      BY <1>2, <3>1 DEF Chose
    <3>3. i = Start(h, r) + Ahead(h, r, q)
      BY <2>4 DEF PlaceOf
    <3>. HIDE DEF r
    <3>4. i < Start(h, r + 1)
      BY <1>1, <3>2, <3>3, PlaceInRow
    <3>5. r + 1 \in 0..host.rows /\ host.rows \in 0..host.rows /\ r + 1 <= host.rows
      BY <1>1, <3>2 DEF Rows
    <3>6. Start(h, r + 1) <= Start(h, host.rows) /\ Start(h, r + 1) \in Nat
      BY <2>1, <3>5
    <3>. DEFINE x == Start(h, r + 1)  y == Start(h, host.rows)
    <3>7. x \in Nat /\ y \in Nat /\ x <= y /\ y <= i /\ i < x
      BY <2>2, <2>3, <3>4, <3>6
    <3>. HIDE DEF x, y
    <3>. QED
      BY <2>3, <3>7
  <2>. QED
    BY <1>1, <2>3, <2>4 DEF EdgesRight
<1>. QED
  BY <1>3, <1>4

(* A finished index is the one the definition gives.                       *)
LEMMA CsrAtEnd ==
    ASSUME CsrIInv
    PROVE  CsrRight
<1>. SUFFICES ASSUME stage = "done", NEW h \in Heads PROVE
        /\ rowPtr[h][0] = 0
        /\ \A bl \in DOMAIN wanted.row :
             wanted.row[bl] \in Rows /\ Slice(h, wanted.row[bl]) = wanted.slice[h][bl]
        /\ \A row \in Rows : row >= Cardinality(DOMAIN wanted.row) => Slice(h, row) = <<>>
        /\ \A i \in rowPtr[h][host.rows]..(QIdxSize - 1) : edges[h][i] = NoEdge
  BY DEF CsrRight
<1>1. Fixed /\ PtrRight
  BY DEF CsrIInv
<1>2. DOMAIN wanted.row = Blocks(prob.cuK)
  BY <1>1 DEF Fixed, Definition
<1>3. ASSUME NEW bl \in Blocks(prob.cuK)
      PROVE  /\ wanted.row[bl] = RowRank(prob.cuK, bl[1], bl[2])
             /\ wanted.slice[h][bl] = Ascending(Chosen(prob, h, bl[1], bl[2]))
  BY <1>1 DEF Fixed, Definition
<1>4. ASSUME NEW bl \in Blocks(prob.cuK)
      PROVE  wanted.row[bl] \in Rows /\ Slice(h, wanted.row[bl]) = wanted.slice[h][bl]
  <2>1. PrefixSums(prob.cuK)
    BY <1>1 DEF Fixed, SafeProblem
  <2>2. \A x \in Blocks(prob.cuK) : RowOf(prob.cuK, x[1], x[2]) = RowRank(prob.cuK, x[1], x[2])
    BY <2>1, RowsNumbered
  <2>3. wanted.row[bl] = RowOf(prob.cuK, bl[1], bl[2])
    BY <1>3, <2>2
  <2>4. /\ RowOf(prob.cuK, bl[1], bl[2]) \in Rows
        /\ Slice(h, RowOf(prob.cuK, bl[1], bl[2])) = Ascending(Chosen(prob, h, bl[1], bl[2]))
    BY SliceRight
  <2>. QED
    BY <1>3, <2>3, <2>4
<1>5. rowPtr[h][0] = 0
  BY <1>1 DEF PtrRight
<1>. QED
  BY <1>2, <1>4, <1>5, RestEmpty

(* The reverse index, for every batch, selection, launch shape and          *)
(* interleaving: every row lists the queries that chose its block, each     *)
(* once and in ascending order, the rows follow one another, and the rest   *)
(* of q_idx is what the host wrote (build_k2q_csr.cu).                      *)
THEOREM IndexIsRight ==
    ASSUME \A p \in Problems : SafeProblem(p)
    PROVE  CsrSpec => []CsrRight
<1>1. CsrSpec => []CsrIInv
  BY CsrInvariance
<1>2. CsrIInv => CsrRight
  BY CsrAtEnd
<1>. QED
  BY <1>1, <1>2, PTL

(* A place is in the row of one block, and the entry there belongs to a     *)
(* query of its sequence.                                                   *)
LEMMA RowOfPlace ==
    ASSUME CsrIInv, stage = "done", NEW h \in Heads, NEW q \in Queries, NEW s \in Valid(h, q)
    PROVE  LET b == BatchOf(prob.cuQ, q)
               r == RowAt(h, q, s) IN
           /\ r \in Rows /\ PlaceOf(h, q, s) \in rowPtr[h][r]..(rowPtr[h][r + 1] - 1)
           /\ \E bl \in Blocks(prob.cuK) : bl[1] = b /\ wanted.row[bl] = r
           /\ \A bl \in Blocks(prob.cuK) :
                PlaceOf(h, q, s) \in rowPtr[h][wanted.row[bl]]..(rowPtr[h][wanted.row[bl] + 1] - 1) => bl[1] = b
<1>. DEFINE b == BatchOf(prob.cuQ, q)  r == RowAt(h, q, s)  l == Picks(h, q)[s]  pos == PlaceOf(h, q, s)
<1>1. Fixed /\ MapRight /\ host.rows \in Nat /\ PrefixSums(prob.cuK)
  BY Sizes DEF CsrIInv, Fixed, SafeProblem
<1>2. s \in 1..TopK /\ r # -1
  BY DEF Valid
<1>3. /\ r \in Rows \cup {-1} /\ b \in SeqsOf(prob.cuK)
      /\ l \in Nat /\ HasLevel(prob.cuK, b, l) /\ r = RowOf(prob.cuK, b, l)
  BY <1>1, <1>2, RowAtRight
<1>4. r \in Rows /\ q \in Chose(h, r)
  BY <1>2, <1>3 DEF Chose
<1>5. pos = Start(h, r) + Ahead(h, r, q)
  BY DEF PlaceOf
<1>. HIDE DEF b, r, l, pos
<1>6. <<b, l>> \in Blocks(prob.cuK)
  BY <1>1, <1>3, LevelsFit
<1>7. /\ \A x \in Blocks(prob.cuK) : /\ RowOf(prob.cuK, x[1], x[2]) = RowRank(prob.cuK, x[1], x[2])
                                     /\ x = <<x[1], x[2]>> /\ x[1] \in SeqsOf(prob.cuK) /\ x[2] \in Nat
                                     /\ HasLevel(prob.cuK, x[1], x[2])
      /\ \A x, y \in Blocks(prob.cuK) : RowOf(prob.cuK, x[1], x[2]) = RowOf(prob.cuK, y[1], y[2]) => x = y
  BY <1>1, RowsNumbered, BlocksRight
<1>8. \A x \in Blocks(prob.cuK) : wanted.row[x] = RowOf(prob.cuK, x[1], x[2])
  <2>1. \A x \in Blocks(prob.cuK) : wanted.row[x] = RowRank(prob.cuK, x[1], x[2])
    BY <1>1 DEF Fixed, Definition
  <2>. QED
    BY <1>7, <2>1
<1>9. ASSUME NEW v \in Rows
      PROVE  v \in 0..host.rows /\ v + 1 \in 0..host.rows /\ v \in Nat /\ Start(h, v) \in Nat
             /\ Start(h, v + 1) \in Nat
             /\ rowPtr[h][v] = Start(h, v) /\ rowPtr[h][v + 1] = Start(h, v + 1)
  <2>1. v \in 0..host.rows /\ v + 1 \in 0..host.rows /\ v \in Nat
    BY <1>1 DEF Rows
  <2>. QED
    BY <1>1, <2>1, StartRight, PtrAtEnd
<1>10. pos \in Nat /\ Start(h, r) <= pos /\ pos < Start(h, r + 1)
  <2>1. Start(h, r) \in Nat /\ Ahead(h, r, q) \in Nat /\ Start(h, r) + Ahead(h, r, q) < Start(h, r + 1)
    BY <1>1, <1>4, PlaceInRow
  <2>. QED
    BY <1>5, <2>1
<1>11. pos \in rowPtr[h][r]..(rowPtr[h][r + 1] - 1)
  BY <1>4, <1>9, <1>10
<1>12. ASSUME NEW v \in Rows, Start(h, v) <= pos, pos < Start(h, v + 1) PROVE v = r
  <2>1. \A c, d \in 0..host.rows : c <= d => Start(h, c) <= Start(h, d)
    BY <1>1, StartRight
  <2>2. ASSUME NEW x \in Rows, NEW y \in Rows, x < y, Start(h, y) <= pos, pos < Start(h, x + 1) PROVE FALSE
    <3>1. /\ x + 1 \in 0..host.rows /\ y \in 0..host.rows /\ x \in Nat /\ y \in Nat
          /\ Start(h, x + 1) \in Nat /\ Start(h, y) \in Nat
      BY <1>9
    <3>2. x + 1 <= y
      BY <2>2, <3>1
    <3>3. Start(h, x + 1) <= Start(h, y)
      BY <2>1, <3>1, <3>2
    <3>. QED
      BY <1>10, <2>2, <3>1, <3>3
  <2>3. v \in Nat /\ r \in Nat
    BY <1>4, <1>9
  <2>. QED
    BY <1>4, <1>10, <1>12, <2>2, <2>3
<1>13. ASSUME NEW x \in Blocks(prob.cuK), pos \in rowPtr[h][wanted.row[x]]..(rowPtr[h][wanted.row[x] + 1] - 1)
       PROVE  x[1] = b
  <2>. DEFINE v == wanted.row[x]
  <2>1. v = RowOf(prob.cuK, x[1], x[2])
    BY <1>8
  <2>2. v \in Rows
    BY <1>1, <1>7, <2>1, LevelsFit
  <2>3. pos \in Start(h, v)..(Start(h, v + 1) - 1)
    BY <1>9, <1>13, <2>2
  <2>. HIDE DEF v
  <2>4. v = r
    BY <1>9, <1>10, <1>12, <2>2, <2>3
  <2>5. x = <<b, l>>
    BY <1>3, <1>6, <1>7, <2>1, <2>4
  <2>. QED
    BY <2>5
<1>14. \E bl \in Blocks(prob.cuK) : bl[1] = b /\ wanted.row[bl] = r
  <2>1. wanted.row[<<b, l>>] = r /\ <<b, l>>[1] = b
    BY <1>3, <1>6, <1>8
  <2>. QED
    BY <1>6, <2>1
<1>. QED
  BY <1>4, <1>11, <1>13, <1>14 DEF b, r, pos

(* The edges of a query are those of its valid slots.                      *)
LEMMA EdgesOfQuery ==
    ASSUME CsrIInv, stage = "done", NEW h \in Heads, NEW q \in Queries
    PROVE  LET b == BatchOf(prob.cuQ, q)
               i == q - prob.cuQ[b]
               rows == {wanted.row[bl] : bl \in {x \in DOMAIN wanted.row : x[1] = b}} IN
           /\ \A s \in Valid(h, q) :
                /\ edges[h][PlaceOf(h, q, s)].q = i
                /\ \E r \in rows : PlaceOf(h, q, s) \in rowPtr[h][r]..(rowPtr[h][r + 1] - 1)
           /\ \A pos \in 0..(QIdxSize - 1) :
                edges[h][pos].q = i /\ (\E r \in rows : pos \in rowPtr[h][r]..(rowPtr[h][r + 1] - 1))
                  => \E s \in Valid(h, q) : pos = PlaceOf(h, q, s)
<1>. DEFINE b == BatchOf(prob.cuQ, q)  i == q - prob.cuQ[b]
            rows == {wanted.row[bl] : bl \in {x \in DOMAIN wanted.row : x[1] = b}}
<1>1. Fixed /\ MapRight /\ EdgesRight /\ PrefixSums(prob.cuQ)
  BY DEF CsrIInv, Fixed, SafeProblem
<1>2. DOMAIN wanted.row = Blocks(prob.cuK)
  BY <1>1 DEF Fixed, Definition
<1>3. ASSUME NEW p \in Queries
      PROVE  /\ p \in Nat /\ prob.cuQ[BatchOf(prob.cuQ, p)] \in Nat /\ prob.cuQ[BatchOf(prob.cuQ, p)] <= p
             /\ \A t \in Valid(h, p) : edges[h][PlaceOf(h, p, t)].q = p - prob.cuQ[BatchOf(prob.cuQ, p)]
  <2>1. p \in Nat /\ p \in 0..(Tokens(prob.cuQ) - 1)
    BY <1>1, PicksRight
  <2>2. BatchOf(prob.cuQ, p) \in SeqsOf(prob.cuQ) /\ prob.cuQ[BatchOf(prob.cuQ, p)] <= p
    BY <1>1, <2>1, BatchRight
  <2>3. \A c \in 1..Len(prob.cuQ) : prob.cuQ[c] \in Nat
    BY <1>1, SumsRight
  <2>4. BatchOf(prob.cuQ, p) \in 1..Len(prob.cuQ)
    BY <1>1, <2>2, SumsRight
  <2>5. \A t \in Valid(h, p) : edges[h][PlaceOf(h, p, t)] = EdgeOf(h, p, t)
    BY <1>1 DEF EdgesRight, Scattered
  <2>6. \A t : EdgeOf(h, p, t).q = p - prob.cuQ[BatchOf(prob.cuQ, p)]
    BY DEF EdgeOf
  <2>7. \A t \in Valid(h, p) : edges[h][PlaceOf(h, p, t)].q = p - prob.cuQ[BatchOf(prob.cuQ, p)]
    BY <2>5, <2>6
  <2>. QED
    BY <2>1, <2>2, <2>3, <2>4, <2>7
<1>4. ASSUME NEW s \in Valid(h, q)
      PROVE  /\ edges[h][PlaceOf(h, q, s)].q = i
             /\ \E r \in rows : PlaceOf(h, q, s) \in rowPtr[h][r]..(rowPtr[h][r + 1] - 1)
  <2>1. edges[h][PlaceOf(h, q, s)].q = i
    BY <1>3
  <2>2. PICK bl \in Blocks(prob.cuK) : bl[1] = b /\ wanted.row[bl] = RowAt(h, q, s)
    BY RowOfPlace
  <2>3. RowAt(h, q, s) \in rows
    BY <1>2, <2>2
  <2>4. PlaceOf(h, q, s) \in rowPtr[h][RowAt(h, q, s)]..(rowPtr[h][RowAt(h, q, s) + 1] - 1)
    BY RowOfPlace
  <2>. QED
    BY <2>1, <2>3, <2>4
<1>5. ASSUME NEW pos \in 0..(QIdxSize - 1), edges[h][pos].q = i, NEW r \in rows,
             pos \in rowPtr[h][r]..(rowPtr[h][r + 1] - 1)
      PROVE  \E s \in Valid(h, q) : pos = PlaceOf(h, q, s)
  <2>1. i \in Nat
    BY <1>3
  <2>2. edges[h][pos] # NoEdge
    BY <1>5, <2>1 DEF NoEdge
  <2>3. PICK p \in Queries : \E t \in Valid(h, p) : pos = PlaceOf(h, p, t)
    BY <1>1, <2>2 DEF EdgesRight
  <2>4. PICK t \in Valid(h, p) : pos = PlaceOf(h, p, t)
    BY <2>3
  <2>5. p - prob.cuQ[BatchOf(prob.cuQ, p)] = i
    BY <1>3, <1>5, <2>4
  <2>6. PICK bl \in Blocks(prob.cuK) : bl[1] = b /\ r = wanted.row[bl]
    BY <1>2
  <2>7. BatchOf(prob.cuQ, p) = b
    BY <1>5, <2>4, <2>6, RowOfPlace
  <2>8. p = q
    BY <1>3, <2>5, <2>7
  <2>. QED
    BY <2>4, <2>8
<1>. QED
  BY <1>4, <1>5

(* The splits of a query at the end: as many as it has edges, each one's.  *)
LEMMA SplitsAtEnd ==
    ASSUME CsrIInv
    PROVE  SplitsDense
<1>. SUFFICES ASSUME stage = "done", NEW h \in Heads, NEW q \in Queries PROVE
        LET b == BatchOf(prob.cuQ, q)
            i == q - prob.cuQ[b]
            rows == {wanted.row[bl] : bl \in {x \in DOMAIN wanted.row : x[1] = b}}
            mine == {pos \in 0..(QIdxSize - 1) : edges[h][pos].q = i /\
                       \E r \in rows : pos \in rowPtr[h][r]..(rowPtr[h][r + 1] - 1)}
            n == splitCounts[q][h] IN
        {edges[h][pos].split : pos \in mine} = 0..(n - 1) /\ Cardinality(mine) = n
  BY DEF SplitsDense
<1>. DEFINE b == BatchOf(prob.cuQ, q)
            i == q - prob.cuQ[b]
            rows == {wanted.row[bl] : bl \in {x \in DOMAIN wanted.row : x[1] = b}}
            mine == {pos \in 0..(QIdxSize - 1) : edges[h][pos].q = i /\
                       \E r \in rows : pos \in rowPtr[h][r]..(rowPtr[h][r + 1] - 1)}
            n == splitCounts[q][h]
            V == Valid(h, q)
<1>1. Fixed /\ MapRight /\ EdgesRight /\ SplitsRight
  BY DEF CsrIInv
<1>2. Scattered(h, q)
  BY DEF Scattered
<1>3. n = Cardinality(V)
  BY <1>1, <1>2 DEF SplitsRight
<1>4. V \in SUBSET Nat /\ IsFiniteSet(V)
  <2>1. V \in SUBSET (1..TopK) /\ TopK \in Nat
    BY Positive DEF Valid
  <2>2. IsFiniteSet(1..TopK)
    BY <2>1, Counting
  <2>3. IsFiniteSet(V)
    BY <2>1, <2>2, FS_Subset
  <2>4. \A s \in 1..TopK : s \in Nat
    BY <2>1
  <2>. QED
    BY <2>1, <2>3, <2>4
<1>. DEFINE place == [s \in V |-> PlaceOf(h, q, s)]
<1>5. \A s \in V : place[s] \in mine
  <2>1. \A s \in V : PlaceOf(h, q, s) \in 0..(QIdxSize - 1)
    BY <1>1, PlaceRight
  <2>2. \A s \in V : /\ edges[h][PlaceOf(h, q, s)].q = i
                     /\ \E r \in rows : PlaceOf(h, q, s) \in rowPtr[h][r]..(rowPtr[h][r + 1] - 1)
    BY EdgesOfQuery
  <2>. HIDE DEF V, i, rows
  <2>. QED
    BY <2>1, <2>2
<1>6. \A pos \in mine : \E s \in V : place[s] = pos
  <2>1. \A pos \in mine : \E s \in V : pos = PlaceOf(h, q, s)
    BY EdgesOfQuery
  <2>. HIDE DEF V, mine
  <2>. QED
    BY <2>1
<1>7. \A s, t \in V : place[s] = place[t] => s = t
  BY <1>1, PlaceRight
<1>8. \A s \in V : edges[h][place[s]].split = Under(V, s)
  <2>1. \A s \in V : edges[h][PlaceOf(h, q, s)] = EdgeOf(h, q, s)
    BY <1>1, <1>2 DEF EdgesRight
  <2>2. \A s : EdgeOf(h, q, s).split = Under(V, s)
    BY DEF EdgeOf, Under
  <2>. HIDE DEF V
  <2>. QED
    BY <2>1, <2>2
<1>. HIDE DEF V, mine, place, n
<1>9. Cardinality(mine) = n
  <2>1. place \in [V -> mine]
    BY <1>5 DEF place
  <2>2. IsFiniteSet(mine)
    <3>1. mine \in SUBSET (0..(QIdxSize - 1))
      BY DEF mine
    <3>2. QIdxSize \in Nat
      BY <1>1, RoomInHead
    <3>3. IsFiniteSet(0..(QIdxSize - 1))
      BY <3>2, Counting
    <3>. QED
      BY <3>1, <3>3, FS_Subset
  <2>. QED
    BY <1>3, <1>6, <1>7, <2>1, <2>2, SameCount
<1>10. /\ Cardinality(V) \in Nat
       /\ \A s \in V : Under(V, s) \in 0..(Cardinality(V) - 1)
       /\ \A k \in 0..(Cardinality(V) - 1) : \E s \in V : Under(V, s) = k
  BY <1>4, Ranks
<1>11. \A k : k \in {edges[h][pos].split : pos \in mine} <=> k \in 0..(n - 1)
  <2>1. ASSUME NEW pos \in mine PROVE edges[h][pos].split \in 0..(n - 1)
    <3>1. PICK s \in V : place[s] = pos
      BY <1>6
    <3>. QED
      BY <1>3, <1>8, <1>10, <3>1
  <2>2. ASSUME NEW k \in 0..(n - 1) PROVE \E pos \in mine : edges[h][pos].split = k
    <3>1. PICK s \in V : Under(V, s) = k
      BY <1>3, <1>10
    <3>. QED
      BY <1>5, <1>8, <3>1
  <2>. QED
    BY <2>1, <2>2
<1>12. {edges[h][pos].split : pos \in mine} = 0..(n - 1)
  BY <1>11
<1>. QED
  BY <1>9, <1>12 DEF mine, n

(* The partial outputs of a query and head are numbered 0 to n - 1 over all *)
(* its rows, and split_counts is n: whichever warps scattered them, the     *)
(* combine kernel finds every slot written once (build_k2q_csr.cu).         *)
THEOREM SplitsAreDense ==
    ASSUME \A p \in Problems : SafeProblem(p)
    PROVE  CsrSpec => []SplitsDense
<1>1. CsrSpec => []CsrIInv
  BY CsrInvariance
<1>2. CsrIInv => SplitsDense
  BY SplitsAtEnd
<1>. QED
  BY <1>1, <1>2, PTL

=============================================================================
