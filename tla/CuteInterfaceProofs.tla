------------------------- MODULE CuteInterfaceProofs -------------------------
(***************************************************************************)
(* A sparse call is given one plan, whether the builder's schedule reaches *)
(* it or is made again: the list and the numbers made again agree with the *)
(* builder's, for every batch, selection, number of lanes and of threads,  *)
(* and every order in which warps reserve places and CTAs number edges.    *)
(* And calls of the two kinds leave each other alone, so that what is      *)
(* proved of each holds of every call.                                     *)
(***************************************************************************)
EXTENDS CuteInterface, K2qCsrProofs, DecodeAttentionProofs

\* A function as the bisection of _decode_sparse_row_linear computes it.
IsBisection(g, cu, row) ==
    g = [range \in Nat \X Nat |->
          LET lo == range[1]
              hi == range[2]
              mid == (lo + hi) \div 2 IN
          IF lo >= hi THEN lo
          ELSE IF RowsBeforeLevel(cu, mid + 1) <= row THEN g[<<mid + 1, hi>>]
          ELSE g[<<lo, mid>>]]

\* What it finds: the level, or the end of the range that is nearest to it.
Nearest(lo, hi, level) == IF lo >= hi \/ level <= lo THEN lo ELSE IF level >= hi THEN hi ELSE level

-----------------------------------------------------------------------------
(***************************************************************************)
(* Rows are decoded as they were numbered.                                 *)
(***************************************************************************)
(* More levels have more rows, and those of a level are between.           *)
LEMMA LevelsGrow ==
    ASSUME NEW cu, PrefixSums(cu)
    PROVE  /\ \A l \in Nat : RowsBeforeLevel(cu, l) \in Nat
           /\ \A k, l \in Nat : k <= l => RowsBeforeLevel(cu, k) <= RowsBeforeLevel(cu, l)
           /\ \A bl \in Blocks(cu) : /\ RowOf(cu, bl[1], bl[2]) \in Nat
                                     /\ RowsBeforeLevel(cu, bl[2]) <= RowOf(cu, bl[1], bl[2])
                                     /\ RowOf(cu, bl[1], bl[2]) < RowsBeforeLevel(cu, bl[2] + 1)
<1>. DEFINE low(l) == {bl \in Blocks(cu) : bl[2] < l}
<1>1. \A l \in Nat : IsFiniteSet(low(l)) /\ Cardinality(low(l)) = RowsBeforeLevel(cu, l)
  BY BeforeLevelRight
<1>2. \A bl \in Blocks(cu) : bl = <<bl[1], bl[2]>> /\ bl[1] \in Nat /\ bl[2] \in Nat
  BY BlocksRight
<1>3. \A l \in Nat : RowsBeforeLevel(cu, l) \in Nat
  BY <1>1, FS_CardinalityType
<1>4. ASSUME NEW k \in Nat, NEW l \in Nat, k <= l
      PROVE  RowsBeforeLevel(cu, k) <= RowsBeforeLevel(cu, l)
  <2>1. \A bl \in Blocks(cu) : bl[2] < k => bl[2] < l
    BY <1>2, <1>4
  <2>2. low(k) \subseteq low(l)
    BY <2>1
  <2>. HIDE DEF low
  <2>3. Cardinality(low(k)) <= Cardinality(low(l))
    BY <1>1, <2>2, FS_Subset
  <2>. QED
    BY <1>1, <2>3
<1>5. ASSUME NEW bl \in Blocks(cu)
      PROVE  /\ RowOf(cu, bl[1], bl[2]) \in Nat
             /\ RowsBeforeLevel(cu, bl[2]) <= RowOf(cu, bl[1], bl[2])
             /\ RowOf(cu, bl[1], bl[2]) < RowsBeforeLevel(cu, bl[2] + 1)
  <2>. DEFINE l == bl[2]  within == low(l + 1)
              ahead == {x \in Blocks(cu) : x[2] < l \/ (x[2] = l /\ x[1] < bl[1])}
  <2>1. RowOf(cu, bl[1], bl[2]) = Cardinality(ahead)
    BY RowsNumbered DEF RowRank
  <2>2. l \in Nat /\ l + 1 \in Nat
    BY <1>2
  <2>3. low(l) \subseteq ahead /\ bl \notin ahead /\ ahead \cup {bl} \subseteq within
    BY <1>2
  <2>4. /\ IsFiniteSet(low(l)) /\ Cardinality(low(l)) = RowsBeforeLevel(cu, bl[2])
        /\ IsFiniteSet(within) /\ Cardinality(within) = RowsBeforeLevel(cu, bl[2] + 1)
    BY <1>1, <2>2
  <2>5. RowsBeforeLevel(cu, bl[2]) \in Nat /\ RowsBeforeLevel(cu, bl[2] + 1) \in Nat
    BY <1>3, <2>2
  <2>. HIDE DEF low, ahead, within
  <2>6. IsFiniteSet(ahead)
    BY <2>3, <2>4, FS_Subset
  <2>7. Cardinality(low(l)) <= Cardinality(ahead) /\ Cardinality(ahead) \in Nat
    BY <2>3, <2>6, FS_Subset, FS_CardinalityType
  <2>8. Cardinality(ahead \cup {bl}) = Cardinality(ahead) + 1
    BY <2>3, <2>6, FS_AddElement
  <2>9. Cardinality(ahead \cup {bl}) <= Cardinality(within)
    BY <2>3, <2>4, FS_Subset
  <2>. QED
    BY <2>1, <2>4, <2>5, <2>7, <2>8, <2>9
<1>. QED
  BY <1>3, <1>4, <1>5

(* The bisection finds the level of a row.                                 *)
LEMMA BisectRight ==
    ASSUME NEW cu, PrefixSums(cu), NEW bl \in Blocks(cu)
    PROVE  Bisect(cu, RowOf(cu, bl[1], bl[2])) = bl[2]
<1>. DEFINE row == RowOf(cu, bl[1], bl[2])
            level == bl[2]
            f == [range \in Nat \X Nat |-> Nearest(range[1], range[2], level)]
<1>1. level \in Nat /\ row \in Nat
  BY BlocksRight, LevelsGrow
<1>2. ASSUME NEW k \in Nat PROVE RowsBeforeLevel(cu, k + 1) <= row <=> k < level
  <2>. DEFINE rows(l) == RowsBeforeLevel(cu, l)
  <2>1. /\ rows(k + 1) \in Nat /\ rows(level) \in Nat /\ rows(level + 1) \in Nat
        /\ rows(level) <= row /\ row < rows(level + 1)
        /\ (k + 1 <= level => rows(k + 1) <= rows(level))
        /\ (level + 1 <= k + 1 => rows(level + 1) <= rows(k + 1))
    BY <1>1, LevelsGrow
  <2>. HIDE DEF rows, row, level
  <2>2. rows(k + 1) <= row <=> k < level
    BY <1>1, <2>1
  <2>. QED
    BY <2>2 DEF rows
<1>. HIDE DEF row, level
<1>3. ASSUME NEW lo \in Nat, NEW hi \in Nat, NEW mid, mid = (lo + hi) \div 2
      PROVE  Nearest(lo, hi, level) =
               IF lo >= hi THEN lo
               ELSE IF RowsBeforeLevel(cu, mid + 1) <= row THEN Nearest(mid + 1, hi, level)
               ELSE Nearest(lo, mid, level)
  <2>1. mid \in Nat /\ (lo < hi => lo <= mid /\ mid < hi)
    BY <1>3
  <2>2. RowsBeforeLevel(cu, mid + 1) <= row <=> mid < level
    BY <1>2, <2>1
  <2>. QED
    BY <1>1, <2>1, <2>2 DEF Nearest
<1>4. IsBisection(f, cu, row)
  <2>1. ASSUME NEW range \in Nat \X Nat
        PROVE  f[range] =
                 LET lo == range[1]  hi == range[2]  mid == (lo + hi) \div 2
                 IN IF lo >= hi THEN lo
                    ELSE IF RowsBeforeLevel(cu, mid + 1) <= row THEN f[<<mid + 1, hi>>]
                    ELSE f[<<lo, mid>>]
    <3>. DEFINE lo == range[1]  hi == range[2]  mid == (lo + hi) \div 2
    <3>1. lo \in Nat /\ hi \in Nat /\ mid \in Nat /\ mid + 1 \in Nat
      OBVIOUS
    <3>2. /\ f[range] = Nearest(lo, hi, level) /\ f[<<mid + 1, hi>>] = Nearest(mid + 1, hi, level)
          /\ f[<<lo, mid>>] = Nearest(lo, mid, level)
      <4>. HIDE DEF lo, hi, mid
      <4>. QED
        BY <3>1 DEF lo, hi
    <3>3. Nearest(lo, hi, level) =
            IF lo >= hi THEN lo
            ELSE IF RowsBeforeLevel(cu, mid + 1) <= row THEN Nearest(mid + 1, hi, level)
            ELSE Nearest(lo, mid, level)
      BY <1>3, <3>1
    <3>. HIDE DEF f
    <3>. QED
      BY <3>2, <3>3
  <2>2. f = [range \in Nat \X Nat |-> f[range]]
    OBVIOUS
  <2>. HIDE DEF f
  <2>. QED
    BY <2>1, <2>2 DEF IsBisection
<1>. DEFINE g == CHOOSE g : IsBisection(g, cu, row)
<1>5. Bisect(cu, row) = g[<<0, MostRows(cu)>>]
  BY DEF Bisect, IsBisection
<1>. HIDE DEF f
<1>6. IsBisection(g, cu, row)
  BY <1>4
<1>. HIDE DEF g
<1>7. ASSUME NEW lo \in Nat, NEW hi \in Nat, NEW mid, mid = (lo + hi) \div 2
      PROVE  g[<<lo, hi>>] = IF lo >= hi THEN lo
               ELSE IF RowsBeforeLevel(cu, mid + 1) <= row THEN g[<<mid + 1, hi>>] ELSE g[<<lo, mid>>]
  <2>1. <<lo, hi>> \in Nat \X Nat /\ <<lo, hi>>[1] = lo /\ <<lo, hi>>[2] = hi
    OBVIOUS
  <2>. QED
    BY <1>6, <1>7, <2>1 DEF IsBisection
<1>. DEFINE Wrong(d) == \E lo, hi \in Nat : lo <= hi /\ hi - lo = d
            /\ g[<<lo, hi>>] # Nearest(lo, hi, level)
            D == {d \in Nat : Wrong(d)}
<1>8. ASSUME D # {} PROVE FALSE
  <2>1. PICK d \in D : \A e \in D : d <= e
    BY <1>8, LeastNat
  <2>2. PICK lo \in Nat, hi \in Nat : lo <= hi /\ hi - lo = d /\ g[<<lo, hi>>] # Nearest(lo, hi, level)
    BY <2>1
  <2>3. PICK mid : mid = (lo + hi) \div 2
    OBVIOUS
  <2>4. g[<<lo, hi>>] = IF lo >= hi THEN lo
               ELSE IF RowsBeforeLevel(cu, mid + 1) <= row THEN g[<<mid + 1, hi>>] ELSE g[<<lo, mid>>]
    BY <1>7, <2>3
  <2>5. Nearest(lo, hi, level) = IF lo >= hi THEN lo
               ELSE IF RowsBeforeLevel(cu, mid + 1) <= row THEN Nearest(mid + 1, hi, level)
               ELSE Nearest(lo, mid, level)
    BY <1>3, <2>3
  <2>6. lo < hi
    BY <2>2, <2>4, <2>5
  <2>7. mid \in Nat /\ lo <= mid /\ mid < hi /\ mid + 1 \in Nat
    BY <2>3, <2>6
  <2>8. ASSUME NEW a \in Nat, NEW b \in Nat, a <= b, b - a < d
        PROVE  g[<<a, b>>] = Nearest(a, b, level)
    <3>1. \A e \in D : d <= e
      BY <2>1
    <3>2. b - a \in Nat /\ d \in Nat
      BY <2>8
    <3>3. b - a \notin D
      <4>. HIDE DEF D
      <4>. QED
        BY <2>8, <3>1, <3>2
    <3>. QED
      BY <2>8, <3>2, <3>3
  <2>. HIDE DEF D
  <2>9. g[<<mid + 1, hi>>] = Nearest(mid + 1, hi, level)
    BY <2>2, <2>7, <2>8
  <2>10. g[<<lo, mid>>] = Nearest(lo, mid, level)
    BY <2>2, <2>7, <2>8
  <2>. QED
    BY <2>2, <2>4, <2>5, <2>9, <2>10
<1>9. MostRows(cu) \in Nat /\ level < MostRows(cu)
  <2>1. level \in Levels(cu)
    BY DEF Blocks, level
  <2>. QED
    BY <1>1, <2>1, BlocksRight DEF Levels
<1>10. g[<<0, MostRows(cu)>>] = Nearest(0, MostRows(cu), level)
  <2>. DEFINE d == MostRows(cu)
  <2>1. d \in Nat /\ 0 <= d /\ d - 0 = d /\ d \notin D
    BY <1>8, <1>9
  <2>. HIDE DEF d
  <2>2. g[<<0, d>>] = Nearest(0, d, level)
    BY <2>1
  <2>. QED
    BY <2>2 DEF d
<1>. QED
  BY <1>1, <1>5, <1>9, <1>10 DEF Nearest, row, level

(* Decoding a row gives its block.                                         *)
LEMMA DecodeRight ==
    ASSUME NEW cu, PrefixSums(cu), NEW bl \in Blocks(cu)
    PROVE  Decode(cu, RowOf(cu, bl[1], bl[2])) = bl
<1>. DEFINE b == bl[1]  l == bl[2]  row == RowOf(cu, b, l)
            active(a) == Cardinality({i \in 1..(a - 1) : HasLevel(cu, i, l)})
            found == {a \in SeqsOf(cu) : HasLevel(cu, a, l) /\ active(a) = row - RowsBeforeLevel(cu, l)}
<1>1. Bisect(cu, row) = l
  BY BisectRight
<1>2. Decode(cu, row) = <<IF found = {} THEN 1 ELSE Smallest(found), l>>
  BY <1>1 DEF Decode
<1>3. bl = <<b, l>> /\ b \in SeqsOf(cu) /\ b \in Nat /\ l \in Nat /\ HasLevel(cu, b, l)
  BY BlocksRight
<1>4. SeqsOf(cu) \in SUBSET Nat /\ RowsBeforeLevel(cu, l) \in Nat
  BY <1>3, SumsRight, LevelsGrow
<1>5. \A a : RowOf(cu, a, l) = RowsBeforeLevel(cu, l) + active(a)
  BY DEF RowOf
<1>6. \A a \in SeqsOf(cu) : active(a) \in Nat
  <2>1. ASSUME NEW a \in SeqsOf(cu) PROVE active(a) \in Nat
    <3>1. a \in Nat
      BY <1>4
    <3>2. IsFiniteSet(1..(a - 1))
      BY <3>1, FS_Interval
    <3>. QED
      BY <3>2, FS_Subset, FS_CardinalityType
  <2>. QED
    BY <2>1
<1>7. found = {b}
  <2>. HIDE DEF active, b, l
  <2>1. b \in found
    <3>1. row = RowsBeforeLevel(cu, l) + active(b) /\ active(b) \in Nat
      BY <1>3, <1>5, <1>6
    <3>. HIDE DEF row
    <3>. QED
      BY <1>3, <1>4, <3>1
  <2>2. ASSUME NEW a \in found PROVE a = b
    <3>1. a \in SeqsOf(cu) /\ HasLevel(cu, a, l) /\ active(a) = row - RowsBeforeLevel(cu, l)
      OBVIOUS
    <3>2. row \in Int
      BY <1>3, <1>4, <1>5, <1>6
    <3>3. RowOf(cu, a, l) = row
      <4>1. active(a) \in Nat
        BY <1>6, <3>1
      <4>. HIDE DEF row
      <4>. QED
        BY <1>4, <1>5, <3>1, <3>2, <4>1
    <3>4. <<a, l>> \in Blocks(cu) /\ <<b, l>> \in Blocks(cu)
      BY <1>3, <3>1, BlocksRight
    <3>5. <<a, l>> = <<b, l>>
      BY <3>3, <3>4, RowsNumbered
    <3>. QED
      BY <3>5
  <2>. HIDE DEF found
  <2>. QED
    BY <2>1, <2>2
<1>8. Smallest(found) = b
  <2>1. {b} \in SUBSET Nat /\ {b} # {}
    BY <1>3
  <2>2. Smallest({b}) \in {b}
    BY <2>1, SmallestRight
  <2>. QED
    BY <1>7, <2>2
<1>. HIDE DEF found
<1>. QED
  BY <1>2, <1>3, <1>7, <1>8 DEF row

-----------------------------------------------------------------------------
(***************************************************************************)
(* The finished index, place by place.                                     *)
(***************************************************************************)
\* The places of a row, the query of one of them, and the places of a query.
RangeOf(h, r) == Start(h, r)..(Start(h, r + 1) - 1)
QueryAt(h, r, pos) == prob.cuQ[rowCoords[r][1]] + edges[h][pos].q
Mine(h, q) == {PlaceOf(h, q, s) : s \in Valid(h, q)}

(* A place is in one row.                                                  *)
LEMMA RangesApart ==
    ASSUME Fixed, NEW h, NEW r \in Rows, NEW v \in Rows, NEW pos \in RangeOf(h, r), pos \in RangeOf(h, v)
    PROVE  r = v
<1>1. host.rows \in Nat
  BY Sizes
<1>2. ASSUME NEW x \in Rows
      PROVE  x \in 0..host.rows /\ x + 1 \in 0..host.rows /\ x \in Nat
             /\ Start(h, x) \in Nat /\ Start(h, x + 1) \in Nat
  <2>1. x \in 0..host.rows /\ x + 1 \in 0..host.rows /\ x \in Nat
    BY <1>1 DEF Rows
  <2>. QED
    BY <2>1, StartRight
<1>3. ASSUME NEW x \in Rows, NEW y \in Rows, x < y, pos \in RangeOf(h, x), pos \in RangeOf(h, y) PROVE FALSE
  <2>1. x + 1 <= y
    BY <1>2, <1>3
  <2>2. Start(h, x + 1) <= Start(h, y)
    BY <1>2, <2>1, StartRight
  <2>3. Start(h, x + 1) \in Nat /\ Start(h, x) \in Nat /\ Start(h, y) \in Nat /\ Start(h, y + 1) \in Nat
    BY <1>2
  <2>. DEFINE a == Start(h, x)  b == Start(h, x + 1)  c == Start(h, y)  d == Start(h, y + 1)
  <2>4. pos \in a..(b - 1) /\ pos \in c..(d - 1) /\ a \in Nat /\ b \in Nat /\ c \in Nat /\ d \in Nat
        /\ b <= c
    BY <1>3, <2>2, <2>3 DEF RangeOf
  <2>. HIDE DEF a, b, c, d
  <2>. QED
    BY <2>4
<1>. QED
  BY <1>2, <1>3

(* An entry is in the row of its block, whose coordinates lead back to the *)
(* query.                                                                  *)
LEMMA EntryRight ==
    ASSUME CsrIInv, stage = "done", NEW h \in Heads, NEW q \in Queries, NEW s \in Valid(h, q)
    PROVE  LET r == RowAt(h, q, s)
               pos == PlaceOf(h, q, s) IN
           /\ r \in Rows /\ pos \in RangeOf(h, r) /\ pos \in 0..(QIdxSize - 1)
           /\ QueryAt(h, r, pos) = q /\ Decode(prob.cuK, r) = rowCoords[r]
<1>. DEFINE b == BatchOf(prob.cuQ, q)  r == RowAt(h, q, s)  l == Picks(h, q)[s]  pos == PlaceOf(h, q, s)
<1>1. Fixed /\ MapRight /\ EdgesRight /\ PrefixSums(prob.cuK) /\ PrefixSums(prob.cuQ)
  BY DEF CsrIInv, Fixed, SafeProblem
<1>2. s \in 1..TopK /\ r # -1
  BY DEF Valid
<1>3. /\ r \in Rows \cup {-1} /\ b \in SeqsOf(prob.cuK) /\ b \in SeqsOf(prob.cuQ)
      /\ l \in Nat /\ HasLevel(prob.cuK, b, l) /\ r = RowOf(prob.cuK, b, l) /\ rowCoords[r] = <<b, l>>
  BY <1>1, <1>2, RowAtRight
<1>4. r \in Rows /\ q \in Chose(h, r)
  BY <1>2, <1>3 DEF Chose
<1>5. pos = Start(h, r) + Ahead(h, r, q)
  BY DEF PlaceOf
<1>6. edges[h][pos].q = q - prob.cuQ[b]
  <2>1. edges[h][pos] = EdgeOf(h, q, s)
    BY <1>1 DEF EdgesRight, Scattered
  <2>2. EdgeOf(h, q, s).q = q - prob.cuQ[b]
    BY DEF EdgeOf
  <2>. QED
    BY <2>1, <2>2
<1>. HIDE DEF b, r, l, pos
<1>7. pos \in RangeOf(h, r) /\ pos \in 0..(QIdxSize - 1)
  <2>1. /\ Start(h, r) \in Nat /\ Ahead(h, r, q) \in Nat /\ Start(h, r) + Ahead(h, r, q) < Start(h, r + 1)
        /\ Start(h, r) + Ahead(h, r, q) \in 0..(QIdxSize - 1)
    BY <1>1, <1>4, PlaceInRow
  <2>2. Start(h, r + 1) \in Nat
    <3>1. r + 1 \in 0..host.rows
      BY <1>1, <1>4, Sizes DEF Rows
    <3>. QED
      BY <1>1, <3>1, StartRight
  <2>. DEFINE x == Start(h, r)  y == Start(h, r + 1)
  <2>3. x \in Nat /\ y \in Nat /\ pos = x + Ahead(h, r, q) /\ pos < y
    BY <1>5, <2>1, <2>2
  <2>. HIDE DEF x, y
  <2>4. pos \in x..(y - 1)
    BY <2>1, <2>3
  <2>. QED
    BY <1>5, <2>1, <2>4 DEF RangeOf, x, y
<1>8. QueryAt(h, r, pos) = q
  <2>1. q \in Nat /\ prob.cuQ[b] \in Nat
    <3>1. b \in 1..Len(prob.cuQ)
      BY <1>1, <1>3, SumsRight
    <3>. QED
      BY <1>1, <3>1, PicksRight, SumsRight
  <2>2. QueryAt(h, r, pos) = prob.cuQ[b] + (q - prob.cuQ[b])
    BY <1>3, <1>6 DEF QueryAt
  <2>. QED
    BY <2>1, <2>2
<1>9. Decode(prob.cuK, r) = rowCoords[r]
  <2>1. <<b, l>> \in Blocks(prob.cuK)
    BY <1>1, <1>3, LevelsFit
  <2>2. Decode(prob.cuK, RowOf(prob.cuK, <<b, l>>[1], <<b, l>>[2])) = <<b, l>>
    BY <1>1, <2>1, DecodeRight
  <2>. QED
    BY <1>3, <2>2
<1>. QED
  BY <1>4, <1>7, <1>8, <1>9 DEF r, pos

(* Every place of a row is some entry's.                                   *)
LEMMA PlaceTaken ==
    ASSUME CsrIInv, stage = "done", NEW h \in Heads, NEW r \in Rows, NEW pos \in RangeOf(h, r)
    PROVE  /\ pos \in 0..(QIdxSize - 1) /\ Decode(prob.cuK, r) = rowCoords[r]
           /\ QueryAt(h, r, pos) \in Queries /\ pos \in Mine(h, QueryAt(h, r, pos))
<1>1. Fixed /\ host.rows \in Nat /\ host.numQ \in Nat
  BY Sizes DEF CsrIInv
<1>2. r \in 0..host.rows /\ r \in Nat
  BY <1>1 DEF Rows
<1>3. Start(h, r) \in Nat /\ Start(h, r + 1) = Start(h, r) + Ahead(h, r, host.numQ)
  BY <1>1, <1>2, StartRight
<1>. DEFINE C == Chose(h, r)  i == pos - Start(h, r)
<1>4. C \in SUBSET Nat /\ IsFiniteSet(C) /\ Ahead(h, r, host.numQ) = Cardinality(C)
  BY <1>1, AheadRight, AllAhead
<1>5. \A k \in 0..(Cardinality(C) - 1) : \E q \in C : Ahead(h, r, q) = k
  <2>. HIDE DEF C
  <2>1. \A k \in 0..(Cardinality(C) - 1) : \E q \in C : Under(C, q) = k
    BY <1>4, Ranks
  <2>. QED
    BY <2>1 DEF Ahead, C
<1>6. i \in 0..(Cardinality(C) - 1) /\ pos = Start(h, r) + i
  <2>. DEFINE x == Start(h, r)  n == Cardinality(C)
  <2>1. x \in Nat /\ n \in Nat /\ pos \in x..((x + n) - 1)
    BY <1>3, <1>4, FS_CardinalityType DEF RangeOf
  <2>. HIDE DEF x, n
  <2>2. pos - x \in 0..(n - 1) /\ pos = x + (pos - x)
    BY <2>1
  <2>. QED
    BY <2>2 DEF x, n
<1>7. PICK q \in C : Ahead(h, r, q) = i
  BY <1>5, <1>6
<1>8. PICK s \in 1..TopK : q \in Queries /\ RowAt(h, q, s) = r
  BY <1>7 DEF Chose
<1>9. s \in Valid(h, q)
  BY <1>2, <1>8 DEF Valid
<1>10. PlaceOf(h, q, s) = pos
  BY <1>6, <1>7, <1>8 DEF PlaceOf
<1>11. /\ pos \in 0..(QIdxSize - 1) /\ QueryAt(h, r, pos) = q /\ Decode(prob.cuK, r) = rowCoords[r]
  BY <1>8, <1>9, <1>10, EntryRight
<1>. QED
  BY <1>8, <1>9, <1>10, <1>11 DEF Mine

(* The places of a query: as many as it has valid slots, and its alone.    *)
LEMMA MineRight ==
    ASSUME CsrIInv, stage = "done", NEW h \in Heads, NEW q \in Queries
    PROVE  /\ Mine(h, q) \in SUBSET (0..(QIdxSize - 1)) /\ IsFiniteSet(Mine(h, q))
           /\ Cardinality(Mine(h, q)) = splitCounts[q][h] /\ Cardinality(Mine(h, q)) \in 0..TopK
           /\ \A p \in Queries : p # q => Mine(h, p) \cap Mine(h, q) = {}
           /\ \A pos \in Mine(h, q) : \E r \in Rows : pos \in RangeOf(h, r) /\ QueryAt(h, r, pos) = q
<1>. DEFINE V == Valid(h, q)  M == Mine(h, q)  place == [s \in V |-> PlaceOf(h, q, s)]
<1>1. Fixed /\ MapRight /\ SplitsRight
  BY DEF CsrIInv
<1>2. \A s \in V : PlaceOf(h, q, s) \in 0..(QIdxSize - 1)
  BY <1>1, PlaceRight
<1>3. M \in SUBSET (0..(QIdxSize - 1))
  BY <1>2 DEF Mine
<1>4. IsFiniteSet(M)
  <2>1. IsFiniteSet(0..(QIdxSize - 1))
    BY <1>1, RoomInHead, Counting
  <2>. QED
    BY <1>3, <2>1, FS_Subset
<1>5. Cardinality(V) = Cardinality(M)
  <2>1. place \in [V -> M] /\ \A z \in M : \E s \in V : place[s] = z
    BY DEF Mine
  <2>2. \A s, t \in V : place[s] = place[t] => s = t
    BY <1>1, PlaceRight
  <2>. HIDE DEF V, M, place
  <2>. QED
    BY <1>4, <2>1, <2>2, SameCount
<1>6. Cardinality(V) \in 0..TopK
  <2>1. V \in SUBSET (1..TopK) /\ TopK \in Nat
    BY Positive DEF Valid
  <2>2. IsFiniteSet(1..TopK) /\ Cardinality(1..TopK) = TopK
    BY <2>1, Counting
  <2>3. IsFiniteSet(V) /\ Cardinality(V) <= TopK
    BY <2>1, <2>2, FS_Subset
  <2>. QED
    BY <2>1, <2>3, FS_CardinalityType
<1>7. splitCounts[q][h] = Cardinality(V)
  BY <1>1 DEF SplitsRight, Scattered
<1>8. ASSUME NEW p \in Queries, p # q PROVE Mine(h, p) \cap M = {}
  <2>1. \A s \in V : \A t \in Valid(h, p) : PlaceOf(h, p, t) # PlaceOf(h, q, s)
    BY <1>1, <1>8, PlaceRight
  <2>. QED
    BY <2>1 DEF Mine
<1>9. ASSUME NEW pos \in M PROVE \E r \in Rows : pos \in RangeOf(h, r) /\ QueryAt(h, r, pos) = q
  <2>1. PICK s \in V : pos = PlaceOf(h, q, s)
    BY DEF Mine
  <2>. QED
    BY <2>1, EntryRight
<1>. QED
  BY <1>3, <1>4, <1>5, <1>6, <1>7, <1>8, <1>9

-----------------------------------------------------------------------------
(***************************************************************************)
(* The index as the second call receives it.                               *)
(***************************************************************************)
Lent == stage = "done" /\ host.rows > 0 /\ host.heads > 0 /\ index = BuiltIndex

(* The second call uses the same notions as the builder.                   *)
LEMMA SameNotions ==
    /\ \A S : Prep!Cardinality(S) = Cardinality(S)
    /\ \A cu : Prep!Tokens(cu) = Tokens(cu)
    /\ \A cu, row : Prep!Decode(cu, row) = Decode(cu, row)
    /\ \A h, r, c, n, t, b, l : Prep!Item(h, r, c, n, t, b, l) = Item(h, r, c, n, t, b, l)
    /\ \A n, t : Prep!Chunks(n, t) = Chunks(n, t)
    /\ \A r, q, k, h, t : Prep!Capacity(r, q, k, h, t) = Capacity(r, q, k, h, t)
<1>1. \A S : Prep!Cardinality(S) = Cardinality(S)
  BY DEF Prep!Cardinality, Cardinality
<1>2. \A cu, row : Prep!Decode(cu, row) = Decode(cu, row)
  BY DEF Prep!Decode, Decode, Prep!Bisect, Bisect, Prep!RowsBeforeLevel, RowsBeforeLevel,
         Prep!Total, Total, Prep!MapThenSumSet, MapThenSumSet, Prep!MapThenFoldSet, MapThenFoldSet,
         Prep!Cardinality, Cardinality, Prep!MostRows, MostRows, Prep!Largest, Largest, Prep!Smallest, Smallest,
         Prep!HasLevel, HasLevel, Prep!RowsIn, RowsIn, Prep!CeilDiv, CeilDiv, Prep!LenOf, LenOf,
         Prep!SeqsOf, SeqsOf, Prep!Smaller, Smaller
<1>. QED
  BY <1>1, <1>2 DEF Prep!Tokens, Tokens, Prep!Item, Item, Prep!Smaller, Smaller, Prep!Chunks, Chunks,
     Prep!CeilDiv, CeilDiv, Prep!Capacity, Capacity, Prep!Larger, Larger

(* Sizes, rows and entries are read from the tensors as the builder has    *)
(* them.                                                                   *)
LEMMA BuiltRight ==
    ASSUME CsrIInv, stage = "done", host.rows > 0, host.heads > 0, NEW p, p = BuiltIndex
    PROVE  /\ DOMAIN p.rowPtr = Heads /\ p.cuK = prob.cuK /\ p.cuQ = prob.cuQ
           /\ Prep!Tokens(p.cuQ) = host.numQ /\ Prep!TotalRows(p) = host.rows
           /\ Prep!RowHeads(p) = Heads \X Rows
           /\ Prep!Places(p) = 0..(host.capacity - 1) /\ Prep!Edges(p) = 0..(QIdxSize - 1)
           /\ \A h \in Heads : \A i \in 1..(host.rows + 1) : p.rowPtr[h][i] = rowPtr[h][i - 1]
           /\ \A h \in Heads : \A pos \in 0..(QIdxSize - 1) : p.qIdx[h][pos + 1] = edges[h][pos].q
<1>1. Fixed
  BY DEF CsrIInv
<1>2. host.rows \in Nat /\ host.heads \in Nat /\ host.numQ \in Nat /\ host.numQ = Tokens(prob.cuQ)
      /\ host.capacity = Capacity(host.rows, host.numQ, TopK, host.heads, Target)
  BY <1>1, Sizes
<1>3. /\ p.cuK = prob.cuK /\ p.cuQ = prob.cuQ
      /\ p.rowPtr = [h \in Heads |-> [i \in 1..(host.rows + 1) |-> rowPtr[h][i - 1]]]
      /\ p.qIdx = [h \in Heads |-> [i \in 1..(host.numQ * TopK) |-> edges[h][i - 1].q]]
  BY DEF BuiltIndex
<1>4. DOMAIN p.rowPtr = Heads
  BY <1>3
<1>5. \A h \in Heads : \A i \in 1..(host.rows + 1) : p.rowPtr[h][i] = rowPtr[h][i - 1]
  BY <1>3
<1>6. 0 \in Heads
  BY <1>1, <1>2 DEF Heads
<1>7. Prep!TotalRows(p) = host.rows
  <2>. DEFINE ptr == p.rowPtr[0]
  <2>1. ptr = [i \in 1..(host.rows + 1) |-> rowPtr[0][i - 1]]
    BY <1>3, <1>6
  <2>2. host.rows + 1 \in Nat
    BY <1>2
  <2>. HIDE DEF ptr
  <2>3. Len(ptr) = host.rows + 1
    BY <2>1, <2>2
  <2>. QED
    BY <1>2, <2>3 DEF Prep!TotalRows, ptr
<1>8. Prep!RowHeads(p) = Heads \X Rows
  BY <1>4, <1>7 DEF Prep!RowHeads, Rows
<1>9. Cardinality(Heads) = host.heads
  BY <1>2, Counting DEF Heads
<1>10. Prep!Places(p) = 0..(host.capacity - 1)
  BY <1>2, <1>3, <1>4, <1>7, <1>9, SameNotions DEF Prep!Places
<1>11. Prep!Edges(p) = 0..(QIdxSize - 1)
  BY <1>2, <1>3, SameNotions DEF Prep!Edges, QIdxSize
<1>12. ASSUME NEW h \in Heads, NEW pos \in 0..(QIdxSize - 1)
       PROVE  p.qIdx[h][pos + 1] = edges[h][pos].q
  <2>1. QIdxSize \in Nat /\ QIdxSize = host.numQ * TopK
    BY <1>1, RoomInHead DEF QIdxSize
  <2>2. pos + 1 \in 1..(host.numQ * TopK) /\ (pos + 1) - 1 = pos
    BY <2>1
  <2>. QED
    BY <1>3, <2>2
<1>. QED
  BY <1>2, <1>3, <1>4, <1>5, <1>7, <1>8, <1>10, <1>11, <1>12, SameNotions

(* The kernels find them by these.                                         *)
LEMMA LentRight ==
    ASSUME CsrIInv, Lent
    PROVE  /\ Prep!Heads = Heads /\ Prep!NumQ = host.numQ /\ Prep!Rows = Rows
           /\ index.cuK = prob.cuK /\ index.cuQ = prob.cuQ
           /\ Prep!TotalRows(index) = host.rows /\ Prep!RowHeads(index) = Heads \X Rows
           /\ \A h \in Heads : \A r \in 0..host.rows : Prep!RowStart(h, r) = Start(h, r)
           /\ \A h \in Heads : \A r \in Rows : Prep!CountOf(h, r) = Ahead(h, r, host.numQ)
           /\ \A h \in Heads : \A pos \in 0..(QIdxSize - 1) : index.qIdx[h][pos + 1] = edges[h][pos].q
<1>1. /\ DOMAIN index.rowPtr = Heads /\ index.cuK = prob.cuK /\ index.cuQ = prob.cuQ
      /\ Prep!Tokens(index.cuQ) = host.numQ /\ Prep!TotalRows(index) = host.rows
      /\ Prep!RowHeads(index) = Heads \X Rows
      /\ \A h \in Heads : \A i \in 1..(host.rows + 1) : index.rowPtr[h][i] = rowPtr[h][i - 1]
      /\ \A h \in Heads : \A pos \in 0..(QIdxSize - 1) : index.qIdx[h][pos + 1] = edges[h][pos].q
  BY BuiltRight DEF Lent
<1>2. stage = "done" /\ host.rows \in Nat
  BY Sizes DEF Lent, CsrIInv
<1>3. Prep!Rows = Rows
  BY <1>1 DEF Prep!Rows, Rows
<1>4. ASSUME NEW h \in Heads, NEW r \in 0..host.rows PROVE Prep!RowStart(h, r) = Start(h, r)
  <2>1. r + 1 \in 1..(host.rows + 1) /\ (r + 1) - 1 = r
    BY <1>2
  <2>2. rowPtr[h][r] = Start(h, r)
    BY <1>2, PtrAtEnd
  <2>. QED
    BY <1>1, <2>1, <2>2 DEF Prep!RowStart
<1>5. ASSUME NEW h \in Heads, NEW r \in Rows PROVE Prep!CountOf(h, r) = Ahead(h, r, host.numQ)
  <2>1. r + 1 \in 1..(host.rows + 1) /\ r + 2 \in 1..(host.rows + 1) /\ (r + 1) - 1 = r
        /\ (r + 2) - 1 = r + 1
    BY <1>2 DEF Rows
  <2>2. index.rowPtr[h][r + 1] = rowPtr[h][r] /\ index.rowPtr[h][r + 2] = rowPtr[h][r + 1]
    BY <1>1, <2>1
  <2>3. rowPtr[h][r + 1] - rowPtr[h][r] = Ahead(h, r, host.numQ)
    BY <1>2, PtrAtEnd
  <2>. QED
    BY <2>2, <2>3 DEF Prep!CountOf
<1>. QED
  BY <1>1, <1>3, <1>4, <1>5 DEF Prep!Heads, Prep!NumQ

\* The chunks reserved so far, and all there are.
Reserved == Pairs(reserved, Heads \X Rows)
ChunksIn(x) == 0..(ChunksOf[x] - 1)
AllChunks == Pairs([x \in Heads \X Rows |-> ChunksIn(x)], Heads \X Rows)

(* The chunks of the rows are as many as the items the builder emitted, and *)
(* fit into the list.                                                      *)
LEMMA AllChunksRight ==
    ASSUME CsrIInv, stage = "done"
    PROVE  /\ IsFiniteSet(AllChunks) /\ Cardinality(AllChunks) = workCount
           /\ workCount \in Nat /\ workCount <= host.capacity
<1>. DEFINE S == Heads \X Rows  F == [x \in S |-> ChunksIn(x)]
<1>1. Fixed /\ ItemsRight
  BY DEF CsrIInv
<1>2. RowsEmitted = S
  BY DEF RowsEmitted, Emitted
<1>3. \A x \in S : ChunksOf[x] \in Nat
  <2>1. S \in SUBSET S
    OBVIOUS
  <2>. QED
    BY <1>1, <2>1, CapacityRight
<1>4. Total(ChunksOf, S) \in Nat /\ Total(ChunksOf, S) <= host.capacity /\ IsFiniteSet(S)
  <2>1. S \in SUBSET S
    OBVIOUS
  <2>. QED
    BY <1>1, <2>1, CapacityRight, RoomInAll
<1>5. \A x \in S : IsFiniteSet(F[x]) /\ ChunksOf[x] = Cardinality(F[x])
  <2>1. \A n \in Nat : IsFiniteSet(0..(n - 1)) /\ Cardinality(0..(n - 1)) = n
    BY Counting
  <2>. QED
    BY <1>3, <2>1 DEF ChunksIn
<1>. HIDE DEF S, F
<1>6. IsFiniteSet(Pairs(F, S)) /\ Cardinality(Pairs(F, S)) = Total(ChunksOf, S)
  BY <1>4, <1>5, Fibres
<1>7. workCount = Total(ChunksOf, S)
  BY <1>1, <1>2 DEF ItemsRight
<1>. QED
  BY <1>4, <1>6, <1>7 DEF AllChunks, F, S

-----------------------------------------------------------------------------
(***************************************************************************)
(* The invariant.  While places are reserved, the list holds the chunks    *)
(* reserved so far, each once; while edges are numbered, those of a query  *)
(* that have a number have all the numbers below its count.                *)
(***************************************************************************)
FlatRight ==
    /\ reserved = [x \in Heads \X Rows |-> reserved[x]]
    /\ \A x \in Heads \X Rows : reserved[x] \in SUBSET ChunksIn(x)
    /\ list = [k \in 0..(host.capacity - 1) |-> list[k]]
    /\ listed = Cardinality(Reserved)
    /\ \A k \in 0..(listed - 1) : \E x \in Heads \X Rows : \E c \in reserved[x] :
          list[k] = ChunkItem(x[1], x[2], c)
    /\ \A x \in Heads \X Rows : \A c \in reserved[x] : \E k \in 0..(listed - 1) :
          list[k] = ChunkItem(x[1], x[2], c)
    /\ \A k, l \in 0..(listed - 1) : list[k] = list[l] => k = l
    /\ phase # "flat" => \A x \in Heads \X Rows : reserved[x] = ChunksIn(x)

\* The edge that a thread numbers, those numbered, and those of a query.
EdgeAt(k, i) == Start(list[k].head, list[k].row) + list[k].begin + i
Given(h) ==
    {pos \in 0..(QIdxSize - 1) :
        \E k \in 0..(listed - 1) : list[k].head = h /\ \E i \in numbered[k] : pos = EdgeAt(k, i)}
GivenOf(h, q) == Mine(h, q) \cap Given(h)

DenseSoFar(h, q) ==
    /\ counts[q][h] = Cardinality(GivenOf(h, q))
    /\ \A pos \in GivenOf(h, q) : slots[h][pos] \in 0..(counts[q][h] - 1)
    /\ \A pos, other \in GivenOf(h, q) : slots[h][pos] = slots[h][other] => pos = other

NumberedRight ==
    /\ numbered = [k \in 0..(host.capacity - 1) |-> numbered[k]]
    /\ slots = [h \in Heads |-> [pos \in 0..(QIdxSize - 1) |-> slots[h][pos]]]
    /\ counts = [q \in Queries |-> [h \in Heads |-> counts[q][h]]]
    /\ phase = "flat" => \A k \in 0..(host.capacity - 1) : numbered[k] = {}
    /\ phase # "flat" =>
        /\ \A k \in 0..(listed - 1) : numbered[k] \in SUBSET (0..(list[k].count - 1))
        /\ \A h \in Heads, q \in Queries : DenseSoFar(h, q)
    /\ phase = "done" => \A k \in 0..(listed - 1) : numbered[k] = 0..(list[k].count - 1)

IndexIInv ==
    /\ CsrIInv /\ host.heads > 0
    /\ phase \in {"none", "flat", "split", "done"}
    /\ phase # "none" => Lent /\ FlatRight /\ NumberedRight

-----------------------------------------------------------------------------
(***************************************************************************)
(* Steps of the first kernel.                                              *)
(***************************************************************************)
(* What the builder has made stays.                                        *)
LEMMA PlanKept ==
    ASSUME UNCHANGED csrVars
    PROVE  /\ Heads' = Heads /\ Rows' = Rows /\ Queries' = Queries /\ QIdxSize' = QIdxSize
           /\ host' = host /\ ChunksOf' = ChunksOf /\ BuiltIndex' = BuiltIndex /\ stage' = stage
           /\ \A h, r : Start(h, r)' = Start(h, r)
           /\ \A h, q : Mine(h, q)' = Mine(h, q)
           /\ \A x : ChunksIn(x)' = ChunksIn(x)
           /\ \A h, r, c : ChunkItem(h, r, c)' = ChunkItem(h, r, c)
<1>1. UNCHANGED <<prob, host, stage, rowMap, rowCoords, rowCounts, rowPtr, edges>>
  BY DEF csrVars
<1>2. Heads' = Heads /\ Rows' = Rows /\ Queries' = Queries /\ QIdxSize' = QIdxSize
  BY <1>1, SizesKept
<1>3. /\ ChunksOf' = ChunksOf /\ \A h, r : Start(h, r)' = Start(h, r)
      /\ \A h, q : Valid(h, q)' = Valid(h, q)
      /\ \A h, q, s : PlaceOf(h, q, s)' = PlaceOf(h, q, s)
  BY <1>1, CountsKept
<1>4. BuiltIndex' = BuiltIndex
  BY <1>1, <1>2 DEF BuiltIndex
<1>5. \A h, q : Mine(h, q)' = Mine(h, q)
  BY <1>3 DEF Mine
<1>6. \A x : ChunksIn(x)' = ChunksIn(x)
  BY <1>3 DEF ChunksIn
<1>7. \A h, r, c : ChunkItem(h, r, c)' = ChunkItem(h, r, c)
  BY <1>1 DEF ChunkItem
<1>. QED
  BY <1>1, <1>2, <1>3, <1>4, <1>5, <1>6, <1>7

(* A chunk's item tells the row and the chunk.                             *)
LEMMA ChunksApart ==
    ASSUME CsrIInv, stage = "done"
    PROVE  /\ \A x \in Heads \X Rows : \A c \in ChunksIn(x) :
                LET it == ChunkItem(x[1], x[2], c)
                    n == Ahead(x[1], x[2], host.numQ) IN
                /\ it.head = x[1] /\ it.row = x[2] /\ it.begin = c * Target /\ n \in Nat
                /\ it.count = Smaller(Target, n - c * Target) /\ c \in 0..(Chunks(n, Target) - 1)
                /\ it.batch = rowCoords[x[2]][1] /\ c \in Nat
           /\ \A x, y \in Heads \X Rows : \A c \in ChunksIn(x), d \in ChunksIn(y) :
                ChunkItem(x[1], x[2], c) = ChunkItem(y[1], y[2], d) => x = y /\ c = d
<1>1. \A x \in Heads \X Rows : x[1] \in Heads /\ x[2] \in Rows /\ x = <<x[1], x[2]>>
  OBVIOUS
<1>2. ASSUME NEW x \in Heads \X Rows, NEW c \in ChunksIn(x)
      PROVE  LET it == ChunkItem(x[1], x[2], c)
                 n == Ahead(x[1], x[2], host.numQ) IN
             /\ it.head = x[1] /\ it.row = x[2] /\ it.begin = c * Target /\ n \in Nat
             /\ it.count = Smaller(Target, n - c * Target) /\ c \in 0..(Chunks(n, Target) - 1)
             /\ it.batch = rowCoords[x[2]][1] /\ c \in Nat
  <2>1. ChunksOf[x] = Chunks(Ahead(x[1], x[2], host.numQ), Target)
    BY <1>1 DEF ChunksOf
  <2>2. c \in 0..(Chunks(Ahead(x[1], x[2], host.numQ), Target) - 1)
    BY <2>1 DEF ChunksIn
  <2>3. ChunkItem(x[1], x[2], c).batch = rowCoords[x[2]][1]
    BY DEF ChunkItem, Item
  <2>4. x[1] \in Heads /\ x[2] \in Rows /\ c \in Nat
    BY <1>1, <2>2
  <2>5. LET it == ChunkItem(x[1], x[2], c)
            n == Ahead(x[1], x[2], host.numQ) IN
        /\ it.head = x[1] /\ it.row = x[2] /\ it.begin = c * Target
        /\ it.count = Smaller(Target, n - c * Target) /\ n \in Nat
    <3>1. ASSUME NEW h \in Heads, NEW r \in Rows, NEW d \in 0..(Chunks(Ahead(h, r, host.numQ), Target) - 1)
          PROVE  LET it == ChunkItem(h, r, d)
                     n == Ahead(h, r, host.numQ) IN
                 /\ it.head = h /\ it.row = r /\ it.begin = d * Target
                 /\ it.count = Smaller(Target, n - d * Target) /\ n \in Nat
      <4>. DEFINE m == Ahead(h, r, host.numQ)
      <4>1. m \in Nat /\ Chunks(m, Target) \in Nat
        <5>1. \A q \in Nat : Ahead(h, r, q) \in Nat
          BY AheadRight DEF CsrIInv
        <5>2. host.numQ \in Nat
          BY Sizes DEF CsrIInv
        <5>3. \A a \in Nat : Chunks(a, Target) \in Nat
          BY Positive, CeilDivRight DEF Chunks
        <5>. QED
          BY <5>1, <5>2, <5>3
      <4>2. d \in Nat
        BY <4>1
      <4>3. LET it == ChunkItem(h, r, d) IN
            /\ it.head = h /\ it.row = r /\ it.begin = d * Target
            /\ it.count = Smaller(Target, m - d * Target) /\ m \in Nat
            /\ <<it.batch, it.block>> \in Blocks(prob.cuK) /\ wanted.row[<<it.batch, it.block>>] = r
        BY <4>1, <4>2, ChunkItemRight
      <4>. QED
        BY <4>3
    <3>. QED
      BY <2>2, <2>4, <3>1
  <2>. QED
    BY <2>2, <2>3, <2>4, <2>5
<1>3. ASSUME NEW x \in Heads \X Rows, NEW y \in Heads \X Rows, NEW c \in ChunksIn(x), NEW d \in ChunksIn(y),
             ChunkItem(x[1], x[2], c) = ChunkItem(y[1], y[2], d)
      PROVE  x = y /\ c = d
  <2>1. x[1] = y[1] /\ x[2] = y[2] /\ c * Target = d * Target /\ c \in Nat /\ d \in Nat
    BY <1>2, <1>3
  <2>2. Target * c = Target * d => c = d
    BY <2>1, Positive, Product
  <2>3. c * Target = Target * c /\ d * Target = Target * d
    BY <2>1, Positive, Product
  <2>. QED
    BY <1>1, <2>1, <2>2, <2>3
<1>. QED
  BY <1>2, <1>3

(* A call starts with nothing reserved and no edge numbered.               *)
LEMMA PrepareStep ==
    ASSUME IndexIInv, Prepare, UNCHANGED csrVars, CsrIInv'
    PROVE  IndexIInv'
<1>1. /\ stage = "done" /\ host.rows > 0 /\ host.heads > 0 /\ CsrIInv
      /\ Prep!Begin(BuiltIndex)
  BY DEF Prepare, IndexIInv
<1>2. PICK p : p = BuiltIndex
  OBVIOUS
<1>3. /\ DOMAIN p.rowPtr = Heads /\ p.cuQ = prob.cuQ /\ Prep!Tokens(p.cuQ) = host.numQ
      /\ Prep!RowHeads(p) = Heads \X Rows
      /\ Prep!Places(p) = 0..(host.capacity - 1) /\ Prep!Edges(p) = 0..(QIdxSize - 1)
  BY <1>1, <1>2, BuiltRight
<1>4. /\ phase' = "flat" /\ index' = p /\ reserved' = [x \in Heads \X Rows |-> {}]
      /\ list' = [k \in 0..(host.capacity - 1) |-> Prep!NoItem] /\ listed' = 0
      /\ numbered' = [k \in 0..(host.capacity - 1) |-> {}]
      /\ slots' = [h \in Heads |-> [i \in 0..(QIdxSize - 1) |-> -1]]
      /\ \E old \in {0, TopK} : counts' = [q \in Queries |-> [h \in Heads |-> old]]
  BY <1>1, <1>2, <1>3 DEF Prep!Begin, Queries
<1>5. /\ Heads' = Heads /\ Rows' = Rows /\ Queries' = Queries /\ QIdxSize' = QIdxSize
      /\ host' = host /\ BuiltIndex' = BuiltIndex /\ stage' = stage
  BY PlanKept
<1>6. Lent'
  BY <1>1, <1>2, <1>4, <1>5 DEF Lent
<1>7. FlatRight'
  <2>1. Reserved' = {}
    <3>1. \A x \in Heads \X Rows : reserved'[x] = {}
      BY <1>4
    <3>2. Reserved' = UNION {{x} \X reserved'[x] : x \in Heads \X Rows}
      BY <1>5 DEF Reserved, Pairs
    <3>. QED
      BY <3>1, <3>2
  <2>2. Cardinality(Reserved)' = 0
    BY <2>1, FS_EmptySet
  <2>3. /\ reserved' = [x \in Heads \X Rows |-> reserved'[x]]
        /\ \A x \in Heads \X Rows : reserved'[x] \in SUBSET ChunksIn(x)' /\ \A c : c \notin reserved'[x]
        /\ list' = [k \in 0..(host.capacity - 1) |-> list'[k]] /\ phase' = "flat"
        /\ \A k : k \notin 0..(listed' - 1)
    BY <1>4
  <2>. QED
    BY <1>4, <1>5, <2>2, <2>3 DEF FlatRight
<1>8. NumberedRight'
  <2>1. /\ numbered' = [k \in 0..(host.capacity - 1) |-> numbered'[k]]
        /\ slots' = [h \in Heads |-> [pos \in 0..(QIdxSize - 1) |-> slots'[h][pos]]]
        /\ counts' = [q \in Queries |-> [h \in Heads |-> counts'[q][h]]]
        /\ \A k \in 0..(host.capacity - 1) : numbered'[k] = {}
    BY <1>4
  <2>. QED
    BY <1>4, <1>5, <2>1 DEF NumberedRight
<1>. QED
  BY <1>1, <1>4, <1>5, <1>6, <1>7, <1>8 DEF IndexIInv

(* A lane's item is the builder's of the same chunk, at the next place.    *)
LEMMA ReserveMoves ==
    ASSUME IndexIInv, phase = "flat", NEW x \in Prep!RowHeads(index),
           NEW c \in 0..(Prep!Chunks(Prep!CountOf(x[1], x[2]), Target) - 1), Prep!EmitChunk(x[1], x[2], c)
    PROVE  /\ x \in Heads \X Rows /\ c \in ChunksIn(x) /\ c \notin reserved[x]
           /\ listed \in Nat /\ listed < host.capacity
           /\ reserved' = [reserved EXCEPT ![x] = @ \cup {c}]
           /\ list' = [list EXCEPT ![listed] = ChunkItem(x[1], x[2], c)] /\ listed' = listed + 1
           /\ IsFiniteSet(Reserved) /\ <<x, c>> \notin Reserved
           /\ UNCHANGED <<index, phase, numbered, slots, counts>>
<1>1. /\ CsrIInv /\ Lent /\ FlatRight /\ stage = "done" /\ Fixed /\ HistRight /\ host.numQ \in Nat
      /\ host.rows \in Nat
  BY Sizes DEF IndexIInv, CsrIInv, Lent
<1>2. x \in Heads \X Rows /\ x[1] \in Heads /\ x[2] \in Rows /\ x = <<x[1], x[2]>>
  <2>1. x \in Heads \X Rows
    BY <1>1, LentRight
  <2>. QED
    BY <2>1
<1>. DEFINE h == x[1]  r == x[2]  n == Ahead(h, r, host.numQ)
<1>3. Prep!CountOf(h, r) = n /\ rowCounts[h][r] = n
  BY <1>1, <1>2, LentRight DEF HistRight, CountOfRow
<1>4. c \in ChunksIn(x) /\ c \in 0..(Chunks(n, Target) - 1)
  <2>1. c \in 0..(Chunks(n, Target) - 1)
    BY <1>3, SameNotions
  <2>2. ChunksOf[x] = Chunks(n, Target)
    BY <1>2 DEF ChunksOf
  <2>. QED
    BY <2>1, <2>2 DEF ChunksIn
<1>5. c \notin reserved[x]
  BY <1>2 DEF Prep!EmitChunk
<1>6. Decode(prob.cuK, r) = rowCoords[r]
  <2>1. Start(h, r) \in Nat /\ Start(h, r + 1) = Start(h, r) + n /\ n \in Nat
    <3>1. r \in 0..host.rows /\ r \in Nat
      BY <1>1, <1>2 DEF Rows
    <3>2. \A q \in Nat : Ahead(h, r, q) \in Nat
      BY <1>1, AheadRight
    <3>. QED
      BY <1>1, <1>2, <3>1, <3>2, StartRight
  <2>2. n > 0
    <3>. DEFINE m == n  t == c * Target
    <3>1. t \in Nat /\ t < m /\ m \in Nat
      BY <1>4, <2>1, ChunkBounds
    <3>. HIDE DEF m, t
    <3>2. m > 0
      BY <3>1
    <3>. QED
      BY <3>2 DEF m
  <2>3. Start(h, r) \in RangeOf(h, r)
    <3>. DEFINE a == Start(h, r)  b == Start(h, r + 1)  m == n
    <3>1. a \in Nat /\ b = a + m /\ m \in Nat /\ m > 0
      BY <2>1, <2>2
    <3>. HIDE DEF a, b, m
    <3>2. a \in a..(b - 1)
      BY <3>1
    <3>. QED
      BY <3>2 DEF RangeOf, a, b
  <2>. QED
    BY <1>1, <1>2, <2>3, PlaceTaken
<1>7. LET bl == Prep!Decode(index.cuK, r) IN
      Prep!Item(h, r, c, Prep!CountOf(h, r), Target, bl[1], bl[2]) = ChunkItem(h, r, c)
  BY <1>1, <1>3, <1>6, SameNotions, LentRight DEF ChunkItem
<1>8. IsFiniteSet(Reserved) /\ <<x, c>> \notin Reserved /\ listed \in Nat /\ listed < host.capacity
  <2>1. Reserved \cup {<<x, c>>} \in SUBSET AllChunks
    <3>1. \A y \in Heads \X Rows : reserved[y] \in SUBSET ChunksIn(y)
      BY <1>1 DEF FlatRight
    <3>. QED
      BY <1>2, <1>4, <3>1 DEF Reserved, AllChunks, Pairs
  <2>2. <<x, c>> \notin Reserved
    BY <1>5 DEF Reserved, Pairs
  <2>3. IsFiniteSet(AllChunks) /\ Cardinality(AllChunks) \in Nat /\ Cardinality(AllChunks) <= host.capacity
    BY <1>1, AllChunksRight
  <2>4. IsFiniteSet(Reserved) /\ Cardinality(Reserved) \in Nat
    BY <2>1, <2>3, FS_Subset, FS_CardinalityType
  <2>5. Cardinality(Reserved \cup {<<x, c>>}) = Cardinality(Reserved) + 1
    BY <2>2, <2>4, FS_AddElement
  <2>6. Cardinality(Reserved \cup {<<x, c>>}) <= Cardinality(AllChunks)
    BY <2>1, <2>3, FS_Subset
  <2>7. listed = Cardinality(Reserved) /\ host.capacity \in Nat
    BY <1>1, Sizes DEF FlatRight
  <2>. QED
    BY <2>2, <2>3, <2>4, <2>5, <2>6, <2>7
<1>9. listed \in DOMAIN list
  <2>1. list = [k \in 0..(host.capacity - 1) |-> list[k]] /\ host.capacity \in Nat
    BY <1>1, Sizes DEF FlatRight
  <2>2. listed \in 0..(host.capacity - 1)
    BY <1>8, <2>1
  <2>. QED
    BY <2>1, <2>2
<1>10. /\ reserved' = [reserved EXCEPT ![x] = @ \cup {c}] /\ listed' = listed + 1
       /\ list' = [list EXCEPT ![listed] = ChunkItem(h, r, c)]
       /\ UNCHANGED <<index, phase, numbered, slots, counts>>
  BY <1>2, <1>7, <1>9 DEF Prep!EmitChunk
<1>. QED
  BY <1>2, <1>4, <1>5, <1>8, <1>10

(* A reservation keeps the list and the chunks in step.                    *)
LEMMA ReserveStep ==
    ASSUME IndexIInv, phase = "flat", NEW x \in Prep!RowHeads(index),
           NEW c \in 0..(Prep!Chunks(Prep!CountOf(x[1], x[2]), Target) - 1), Prep!EmitChunk(x[1], x[2], c),
           UNCHANGED csrVars, CsrIInv'
    PROVE  IndexIInv'
<1>. DEFINE S == Heads \X Rows  new == ChunkItem(x[1], x[2], c)
<1>1. CsrIInv /\ Lent /\ FlatRight /\ NumberedRight /\ stage = "done" /\ host.heads > 0
  BY DEF IndexIInv, Lent
<1>2. /\ x \in S /\ c \in ChunksIn(x) /\ c \notin reserved[x]
      /\ listed \in Nat /\ listed < host.capacity
      /\ reserved' = [reserved EXCEPT ![x] = @ \cup {c}]
      /\ list' = [list EXCEPT ![listed] = new] /\ listed' = listed + 1
      /\ IsFiniteSet(Reserved) /\ <<x, c>> \notin Reserved
      /\ UNCHANGED <<index, phase, numbered, slots, counts>>
  BY ReserveMoves
<1>3. /\ Heads' = Heads /\ Rows' = Rows /\ Queries' = Queries /\ QIdxSize' = QIdxSize
      /\ host' = host /\ BuiltIndex' = BuiltIndex /\ stage' = stage
      /\ (\A y : ChunksIn(y)' = ChunksIn(y))
      /\ \A g, r, d : ChunkItem(g, r, d)' = ChunkItem(g, r, d)
  BY PlanKept
<1>4. /\ reserved = [y \in S |-> reserved[y]] /\ (\A y \in S : reserved[y] \in SUBSET ChunksIn(y))
      /\ list = [k \in 0..(host.capacity - 1) |-> list[k]] /\ listed = Cardinality(Reserved)
      /\ (\A k \in 0..(listed - 1) : \E y \in S : \E d \in reserved[y] : list[k] = ChunkItem(y[1], y[2], d))
      /\ (\A y \in S : \A d \in reserved[y] : \E k \in 0..(listed - 1) : list[k] = ChunkItem(y[1], y[2], d))
      /\ (\A k, l \in 0..(listed - 1) : list[k] = list[l] => k = l)
  BY <1>1 DEF FlatRight
<1>5. /\ reserved' = [y \in S |-> reserved'[y]]
      /\ reserved'[x] = reserved[x] \cup {c} /\ \A y \in S : y # x => reserved'[y] = reserved[y]
  <2>1. DOMAIN reserved = S
    BY <1>4
  <2>. QED
    BY <1>2, <2>1
<1>6. /\ list' = [k \in 0..(host.capacity - 1) |-> list'[k]]
      /\ list'[listed] = new /\ \A k \in 0..(listed - 1) : list'[k] = list[k]
  <2>1. DOMAIN list = 0..(host.capacity - 1) /\ host.capacity \in Nat
    BY <1>1, <1>4, Sizes DEF CsrIInv
  <2>2. listed \in DOMAIN list /\ \A k \in 0..(listed - 1) : k \in DOMAIN list /\ k # listed
    BY <1>2, <2>1
  <2>. HIDE DEF new
  <2>. QED
    BY <1>2, <2>1, <2>2
<1>. HIDE DEF S, new
<1>7. \A k \in 0..(listed' - 1) : k = listed \/ k \in 0..(listed - 1)
  BY <1>2
<1>8. \A k \in 0..(listed - 1) : k \in 0..(listed' - 1)
  BY <1>2
<1>9. listed \in 0..(listed' - 1)
  BY <1>2
<1>10. \A y \in S : reserved'[y] \in SUBSET ChunksIn(y)
  BY <1>2, <1>4, <1>5
<1>11. listed' = Cardinality(Reserved')
  <2>1. Reserved' = Reserved \cup {<<x, c>>}
    <3>1. \A p : p \in Reserved <=> \E y \in S : p \in {y} \X reserved[y]
      BY DEF Reserved, Pairs, S
    <3>2. \A p : p \in Reserved' <=> \E y \in S : p \in {y} \X reserved'[y]
      BY <1>3 DEF Reserved, Pairs, S
    <3>3. \A p : p \in Reserved' => p \in Reserved \cup {<<x, c>>}
      BY <1>5, <3>1, <3>2
    <3>4. \A p : p \in Reserved \cup {<<x, c>>} => p \in Reserved'
      BY <1>2, <1>5, <3>1, <3>2
    <3>. QED
      BY <3>3, <3>4
  <2>. QED
    BY <1>2, <1>4, <2>1, FS_AddElement
<1>12. ASSUME NEW k \in 0..(listed' - 1)
       PROVE  \E y \in S : \E d \in reserved'[y] : list'[k] = ChunkItem(y[1], y[2], d)
  <2>1. CASE k = listed
    <3>1. c \in reserved'[x] /\ list'[k] = ChunkItem(x[1], x[2], c)
      BY <1>5, <1>6, <2>1 DEF new
    <3>. QED
      BY <1>2, <3>1
  <2>2. CASE k \in 0..(listed - 1)
    <3>1. PICK y \in S : \E d \in reserved[y] : list[k] = ChunkItem(y[1], y[2], d)
      BY <1>4, <2>2
    <3>2. reserved[y] \in SUBSET reserved'[y]
      BY <1>5
    <3>. QED
      BY <1>6, <2>2, <3>1, <3>2
  <2>. QED
    BY <1>7, <2>1, <2>2
<1>13. ASSUME NEW y \in S, NEW d \in reserved'[y]
       PROVE  \E k \in 0..(listed' - 1) : list'[k] = ChunkItem(y[1], y[2], d)
  <2>1. CASE d \in reserved[y]
    <3>1. PICK k \in 0..(listed - 1) : list[k] = ChunkItem(y[1], y[2], d)
      BY <1>4, <2>1
    <3>. QED
      BY <1>6, <1>8, <3>1
  <2>2. CASE d \notin reserved[y]
    <3>1. y = x /\ d = c
      BY <1>5, <2>2
    <3>. QED
      BY <1>6, <1>9, <3>1 DEF new
  <2>. QED
    BY <2>1, <2>2
<1>14. ASSUME NEW k \in 0..(listed - 1) PROVE list[k] # new
  <2>1. PICK y \in S : \E d \in reserved[y] : list[k] = ChunkItem(y[1], y[2], d)
    BY <1>4
  <2>2. PICK d \in reserved[y] : list[k] = ChunkItem(y[1], y[2], d)
    BY <2>1
  <2>3. d \in ChunksIn(y)
    BY <1>4
  <2>4. new = list[k] => y = x /\ d = c
    BY <1>1, <1>2, <2>2, <2>3, ChunksApart DEF S, new
  <2>. QED
    BY <1>2, <2>4
<1>15. ASSUME NEW k \in 0..(listed' - 1), NEW l \in 0..(listed' - 1), list'[k] = list'[l] PROVE k = l
  <2>1. \A i \in 0..(listed - 1) : list'[i] # list'[listed]
    BY <1>6, <1>14
  <2>2. CASE k = listed \/ l = listed
    BY <1>7, <1>15, <2>1, <2>2
  <2>3. CASE k \in 0..(listed - 1) /\ l \in 0..(listed - 1)
    BY <1>4, <1>6, <1>15, <2>3
  <2>. QED
    BY <1>7, <2>2, <2>3
<1>16. FlatRight'
  <2>1. S' = S /\ phase' = "flat" /\ \A y, d : ChunkItem(y[1], y[2], d)' = ChunkItem(y[1], y[2], d)
    <3>1. phase = "flat"
      OBVIOUS
    <3>. QED
      BY <1>2, <1>3, <3>1 DEF S
  <2>2. /\ \A y \in S : reserved'[y] \in SUBSET ChunksIn(y)'
        /\ list' = [k \in 0..(host'.capacity - 1) |-> list'[k]]
    BY <1>3, <1>6, <1>10
  <2>3. /\ \A k \in 0..(listed' - 1) : \E y \in S : \E d \in reserved'[y] :
             list'[k] = ChunkItem(y[1], y[2], d)'
        /\ \A y \in S : \A d \in reserved'[y] : \E k \in 0..(listed' - 1) :
             list'[k] = ChunkItem(y[1], y[2], d)'
    <3>1. ASSUME NEW k \in 0..(listed' - 1)
          PROVE  \E y \in S : \E d \in reserved'[y] : list'[k] = ChunkItem(y[1], y[2], d)'
      <4>1. PICK y \in S : \E d \in reserved'[y] : list'[k] = ChunkItem(y[1], y[2], d)
        BY <1>12
      <4>2. PICK d \in reserved'[y] : list'[k] = ChunkItem(y[1], y[2], d)
        BY <4>1
      <4>3. ChunkItem(y[1], y[2], d)' = ChunkItem(y[1], y[2], d)
        BY <2>1
      <4>. QED
        BY <4>2, <4>3
    <3>2. ASSUME NEW y \in S, NEW d \in reserved'[y]
          PROVE  \E k \in 0..(listed' - 1) : list'[k] = ChunkItem(y[1], y[2], d)'
      <4>1. PICK k \in 0..(listed' - 1) : list'[k] = ChunkItem(y[1], y[2], d)
        BY <1>13
      <4>2. ChunkItem(y[1], y[2], d)' = ChunkItem(y[1], y[2], d)
        BY <2>1
      <4>. QED
        BY <4>1, <4>2
    <3>. QED
      BY <3>1, <3>2
  <2>. QED
    BY <1>3, <1>5, <1>11, <1>15, <2>1, <2>2, <2>3 DEF FlatRight, S
<1>17. phase' = "flat" /\ NumberedRight'
  <2>1. phase = "flat"
    OBVIOUS
  <2>. QED
    BY <1>1, <1>2, <1>3, <2>1 DEF NumberedRight
<1>18. Lent'
  BY <1>1, <1>2, <1>3 DEF Lent
<1>. QED
  BY <1>1, <1>3, <1>16, <1>17, <1>18 DEF IndexIInv

(* The list stays while none is reserved.                                  *)
LEMMA FlatKept ==
    ASSUME FlatRight, UNCHANGED csrVars, UNCHANGED <<reserved, list, listed>>,
           \/ phase' = "flat"
           \/ \A x \in Heads \X Rows : reserved[x] = ChunksIn(x)
    PROVE  FlatRight' /\ Reserved' = Reserved
<1>1. /\ Heads' = Heads /\ Rows' = Rows /\ host' = host
      /\ \A x : ChunksIn(x)' = ChunksIn(x)
      /\ \A x, d : ChunkItem(x[1], x[2], d)' = ChunkItem(x[1], x[2], d)
  BY PlanKept
<1>2. Reserved' = Reserved
  BY <1>1 DEF Reserved
<1>. DEFINE S == Heads \X Rows
<1>3. S' = S
  BY <1>1
<1>. HIDE DEF S
<1>4. /\ reserved = [x \in S |-> reserved[x]]
      /\ \A x \in S : reserved[x] \in SUBSET ChunksIn(x)
      /\ list = [k \in 0..(host.capacity - 1) |-> list[k]]
      /\ listed = Cardinality(Reserved)
      /\ \A k \in 0..(listed - 1) : \E x \in S : \E c \in reserved[x] : list[k] = ChunkItem(x[1], x[2], c)
      /\ \A x \in S : \A c \in reserved[x] : \E k \in 0..(listed - 1) : list[k] = ChunkItem(x[1], x[2], c)
      /\ \A k, l \in 0..(listed - 1) : list[k] = list[l] => k = l
  BY DEF FlatRight, S
<1>5. /\ reserved' = [x \in S |-> reserved'[x]] /\ list' = [k \in 0..(host'.capacity - 1) |-> list'[k]]
      /\ \A x \in S : reserved'[x] \in SUBSET ChunksIn(x)'
      /\ listed' = Cardinality(Reserved)'
  BY <1>1, <1>2, <1>4
<1>6. /\ \A k \in 0..(listed' - 1) : \E x \in S : \E c \in reserved'[x] : list'[k] = ChunkItem(x[1], x[2], c)'
      /\ \A x \in S : \A c \in reserved'[x] : \E k \in 0..(listed' - 1) :
            list'[k] = ChunkItem(x[1], x[2], c)'
      /\ \A k, l \in 0..(listed' - 1) : list'[k] = list'[l] => k = l
  <2>1. reserved' = reserved /\ list' = list /\ listed' = listed
    OBVIOUS
  <2>2. \A k \in 0..(listed' - 1) : \E x \in S : \E c \in reserved'[x] : list'[k] = ChunkItem(x[1], x[2], c)'
    <3>1. ASSUME NEW k \in 0..(listed' - 1)
          PROVE  \E x \in S : \E c \in reserved'[x] : list'[k] = ChunkItem(x[1], x[2], c)'
      <4>1. \E x \in S : \E c \in reserved[x] : list[k] = ChunkItem(x[1], x[2], c)
        <5>1. k \in 0..(listed - 1)
          BY <2>1
        <5>. QED
          BY <1>4, <5>1
      <4>. QED
        BY <1>1, <2>1, <4>1
    <3>. QED
      BY <3>1
  <2>3. ASSUME NEW x \in S, NEW c \in reserved'[x]
        PROVE  \E k \in 0..(listed' - 1) : list'[k] = ChunkItem(x[1], x[2], c)'
    <3>1. PICK k \in 0..(listed - 1) : list[k] = ChunkItem(x[1], x[2], c)
      BY <1>4, <2>1
    <3>. QED
      BY <1>1, <2>1, <3>1
  <2>4. \A k, l \in 0..(listed' - 1) : list'[k] = list'[l] => k = l
    BY <1>4, <2>1
  <2>. QED
    BY <2>2, <2>3, <2>4
<1>7. phase' # "flat" => \A x \in S : reserved'[x] = ChunksIn(x)'
  BY <1>1 DEF S
<1>8. FlatRight'
  BY <1>3, <1>5, <1>6, <1>7 DEF FlatRight, S
<1>. QED
  BY <1>2, <1>8

(* When every chunk has its place, the counts are cleared.                 *)
LEMMA ClearStep ==
    ASSUME IndexIInv, Prep!Zero, UNCHANGED csrVars, CsrIInv'
    PROVE  IndexIInv'
<1>1. /\ phase = "flat" /\ Prep!FlatDone /\ phase' = "split"
      /\ counts' = [q \in DOMAIN counts |-> [h \in Prep!Heads |-> 0]]
      /\ UNCHANGED <<index, reserved, list, listed, numbered, slots>>
  BY DEF Prep!Zero
<1>2. CsrIInv /\ Lent /\ FlatRight /\ NumberedRight /\ host.heads > 0
  BY <1>1 DEF IndexIInv
<1>3. /\ Heads' = Heads /\ Rows' = Rows /\ Queries' = Queries /\ QIdxSize' = QIdxSize
      /\ host' = host /\ BuiltIndex' = BuiltIndex /\ stage' = stage
      /\ (\A x : ChunksIn(x)' = ChunksIn(x)) /\ (\A h, q : Mine(h, q)' = Mine(h, q))
      /\ (\A h, r : Start(h, r)' = Start(h, r))
      /\ \A g, r, d : ChunkItem(g, r, d)' = ChunkItem(g, r, d)
  BY PlanKept
<1>4. Lent'
  BY <1>1, <1>2, <1>3 DEF Lent
<1>5. Reserved' = Reserved
  BY <1>1, <1>3 DEF Reserved
<1>6. \A x \in Heads \X Rows : reserved[x] = ChunksIn(x)
  <2>1. ASSUME NEW x \in Heads \X Rows PROVE reserved[x] = ChunksIn(x)
    <3>1. x[1] \in Heads /\ x[2] \in Rows /\ x = <<x[1], x[2]>>
      OBVIOUS
    <3>2. reserved[x] = 0..(Prep!Chunks(Prep!CountOf(x[1], x[2]), Target) - 1)
      BY <1>1, <1>2, LentRight DEF Prep!FlatDone
    <3>3. Prep!Chunks(Prep!CountOf(x[1], x[2]), Target) = Chunks(Ahead(x[1], x[2], host.numQ), Target)
      BY <1>2, <3>1, LentRight, SameNotions
    <3>. QED
      BY <3>1, <3>2, <3>3 DEF ChunksIn, ChunksOf
  <2>. QED
    BY <2>1
<1>7. FlatRight'
  BY <1>1, <1>2, <1>6, FlatKept
<1>8. host.capacity \in Nat /\ listed \in Nat /\ listed <= host.capacity /\ stage = "done"
  <2>1. IsFiniteSet(AllChunks) /\ Cardinality(AllChunks) <= host.capacity /\ Cardinality(AllChunks) \in Nat
    BY <1>2, AllChunksRight DEF Lent
  <2>2. Reserved = AllChunks
    BY <1>6 DEF Reserved, AllChunks, Pairs
  <2>. QED
    BY <1>2, <2>1, <2>2, Sizes DEF FlatRight, Lent, CsrIInv
<1>9. \A k \in 0..(listed - 1) : numbered[k] = {}
  <2>1. \A k \in 0..(host.capacity - 1) : numbered[k] = {}
    BY <1>1, <1>2 DEF NumberedRight
  <2>2. \A k \in 0..(listed - 1) : k \in 0..(host.capacity - 1)
    BY <1>8
  <2>. QED
    BY <2>1, <2>2
<1>10. \A h : Given(h)' = {}
  BY <1>1, <1>9 DEF Given
<1>11. \A h, q : GivenOf(h, q)' = {}
  BY <1>10 DEF GivenOf
<1>12. counts' = [q \in Queries |-> [h \in Heads |-> 0]]
  <2>1. DOMAIN counts = Queries
    BY <1>2 DEF NumberedRight
  <2>. QED
    BY <1>1, <1>2, <2>1, LentRight
<1>13. \A h \in Heads, q \in Queries : DenseSoFar(h, q)'
  BY <1>11, <1>12, FS_EmptySet DEF DenseSoFar
<1>14. NumberedRight'
  <2>1. /\ numbered' = [k \in 0..(host'.capacity - 1) |-> numbered'[k]]
        /\ slots' = [h \in Heads' |-> [pos \in 0..(QIdxSize' - 1) |-> slots'[h][pos]]]
    BY <1>1, <1>2, <1>3 DEF NumberedRight
  <2>2. counts' = [q \in Queries' |-> [h \in Heads' |-> counts'[q][h]]]
    BY <1>3, <1>12
  <2>3. \A k \in 0..(listed' - 1) : numbered'[k] \in SUBSET (0..(list'[k].count - 1))
    BY <1>1, <1>9
  <2>4. \A h \in Heads', q \in Queries' : DenseSoFar(h, q)'
    BY <1>3, <1>13
  <2>. QED
    BY <1>1, <2>1, <2>2, <2>3, <2>4 DEF NumberedRight
<1>. QED
  BY <1>1, <1>2, <1>3, <1>4, <1>7, <1>14 DEF IndexIInv

-----------------------------------------------------------------------------
(***************************************************************************)
(* The edges that the chunks hold.                                         *)
(***************************************************************************)
(* A query of a row is in one chunk.                                       *)
LEMMA QueryChunk ==
    ASSUME NEW n \in Nat, NEW i \in 0..(n - 1)
    PROVE  LET c == i \div Target IN
           /\ c \in 0..(Chunks(n, Target) - 1)
           /\ i \in (c * Target)..(c * Target + Smaller(Target, n - c * Target) - 1)
<1>. DEFINE c == i \div Target  t == Chunks(n, Target)
<1>1. i \in Nat /\ Target \in Nat \ {0}
  BY Positive
<1>2. i = c * Target + (i % Target) /\ i % Target \in 0..(Target - 1) /\ c \in Nat
  BY <1>1, Euclid
<1>3. t \in Nat /\ n <= t * Target
  BY <1>1, CeilDivRight DEF Chunks
<1>4. c \in 0..(t - 1)
  <2>. HIDE DEF c, t
  <2>1. ASSUME t <= c PROVE FALSE
    <3>1. t * Target <= c * Target
      BY <1>1, <1>2, <1>3, <2>1, Groups
    <3>. DEFINE x == t * Target  y == c * Target
    <3>2. x \in Nat /\ y \in Nat /\ x <= y /\ n <= x /\ i = y + (i % Target)
      BY <1>1, <1>2, <1>3, <3>1
    <3>. HIDE DEF x, y
    <3>. QED
      BY <1>1, <1>2, <3>2
  <2>. QED
    BY <1>2, <1>3, <2>1
<1>5. i \in (c * Target)..(c * Target + Smaller(Target, n - c * Target) - 1)
  BY <1>4, ChunkBounds
<1>. QED
  BY <1>4, <1>5

(* The items of the list are chunks of their rows, each once.              *)
LEMMA ListedRight ==
    ASSUME CsrIInv, Lent, FlatRight
    PROVE  /\ listed \in Nat /\ listed <= host.capacity
           /\ \A k \in 0..(listed - 1) :
                /\ k \in 0..(host.capacity - 1)
                /\ \E x \in Heads \X Rows : \E c \in ChunksIn(x) : list[k] = ChunkItem(x[1], x[2], c)
<1>1. host.capacity \in Nat /\ IsFiniteSet(AllChunks) /\ Cardinality(AllChunks) <= host.capacity
  BY Sizes, AllChunksRight DEF CsrIInv, Lent
<1>2. \A x \in Heads \X Rows : reserved[x] \in SUBSET ChunksIn(x)
  BY DEF FlatRight
<1>3. Reserved \in SUBSET AllChunks
  BY <1>2 DEF Reserved, AllChunks, Pairs
<1>4. listed \in Nat /\ listed <= host.capacity
  <2>1. IsFiniteSet(Reserved) /\ Cardinality(Reserved) <= Cardinality(AllChunks)
    BY <1>1, <1>3, FS_Subset
  <2>2. Cardinality(Reserved) \in Nat /\ Cardinality(AllChunks) \in Nat
    BY <1>1, <2>1, FS_CardinalityType
  <2>3. listed = Cardinality(Reserved)
    BY DEF FlatRight
  <2>. QED
    BY <1>1, <2>1, <2>2, <2>3
<1>5. ASSUME NEW k \in 0..(listed - 1)
      PROVE  \E x \in Heads \X Rows : \E c \in ChunksIn(x) : list[k] = ChunkItem(x[1], x[2], c)
  <2>1. PICK x \in Heads \X Rows : \E c \in reserved[x] : list[k] = ChunkItem(x[1], x[2], c)
    BY DEF FlatRight
  <2>. QED
    BY <1>2, <2>1
<1>. QED
  BY <1>1, <1>4, <1>5

(* Where the edge of a thread is.                                          *)
LEMMA EdgeAtRight ==
    ASSUME CsrIInv, Lent, FlatRight, NEW k \in 0..(listed - 1), NEW i \in 0..(list[k].count - 1)
    PROVE  LET h == list[k].head  r == list[k].row IN
           /\ h \in Heads /\ r \in Rows /\ list[k].batch = rowCoords[r][1]
           /\ EdgeAt(k, i) \in RangeOf(h, r) /\ i \in Nat
           /\ list[k].begin = ((EdgeAt(k, i) - Start(h, r)) \div Target) * Target
           /\ list[k] = ChunkItem(h, r, (EdgeAt(k, i) - Start(h, r)) \div Target)
<1>1. PICK x \in Heads \X Rows : \E d \in ChunksIn(x) : list[k] = ChunkItem(x[1], x[2], d)
  BY ListedRight
<1>2. PICK c \in ChunksIn(x) : list[k] = ChunkItem(x[1], x[2], c)
  BY <1>1
<1>3. PICK h, r : h = x[1] /\ r = x[2] /\ h \in Heads /\ r \in Rows
  OBVIOUS
<1>. DEFINE n == Ahead(h, r, host.numQ)  s == Start(h, r)
<1>4. /\ list[k].head = h /\ list[k].row = r /\ list[k].begin = c * Target /\ n \in Nat
      /\ list[k].count = Smaller(Target, n - c * Target) /\ c \in 0..(Chunks(n, Target) - 1)
      /\ list[k].batch = rowCoords[r][1] /\ c \in Nat
  BY <1>2, <1>3, ChunksApart DEF Lent
<1>5. s \in Nat /\ Start(h, r + 1) = s + n
  <2>1. r \in 0..host.rows
    BY <1>3, Sizes DEF Rows, CsrIInv
  <2>. QED
    BY <1>3, <2>1, StartRight DEF CsrIInv
<1>. DEFINE a == c * Target  z == Smaller(Target, n - c * Target)  p == a + i
<1>6. a \in Nat /\ z \in Nat /\ a + z <= n
  BY <1>4, ChunkBounds
<1>7. \A j \in 0..(n - 1) : j \in a..(a + z - 1) <=> j \div Target = c
  BY <1>4, ChunkBounds
<1>8. list[k].count = z
  BY <1>4
<1>9. EdgeAt(k, i) = s + a + i
  BY <1>4 DEF EdgeAt
<1>. HIDE DEF n, s, a, z
<1>10. i \in Nat /\ p \in 0..(n - 1) /\ p \in a..(a + z - 1)
  BY <1>4, <1>6, <1>8
<1>11. p \div Target = c
  BY <1>7, <1>10
<1>12. EdgeAt(k, i) \in s..(s + n - 1) /\ EdgeAt(k, i) - s = p
  BY <1>4, <1>5, <1>6, <1>9, <1>10
<1>13. EdgeAt(k, i) \in RangeOf(h, r)
  <2>. DEFINE t == Start(h, r + 1)
  <2>1. RangeOf(h, r) = s..(t - 1) /\ t = s + n
    BY <1>5 DEF RangeOf, s
  <2>. HIDE DEF t
  <2>. QED
    BY <1>4, <1>5, <1>12, <2>1
<1>14. (EdgeAt(k, i) - Start(h, r)) \div Target = c
  BY <1>11, <1>12 DEF s
<1>. QED
  BY <1>2, <1>3, <1>4, <1>10, <1>13, <1>14

(* Different threads have different edges.                                 *)
LEMMA EdgesApart ==
    ASSUME CsrIInv, Lent, FlatRight, NEW k \in 0..(listed - 1), NEW l \in 0..(listed - 1),
           NEW i \in 0..(list[k].count - 1), NEW j \in 0..(list[l].count - 1),
           list[k].head = list[l].head, EdgeAt(k, i) = EdgeAt(l, j)
    PROVE  k = l /\ i = j
<1>. DEFINE h == list[k].head  r == list[k].row  v == list[l].row
<1>1. Fixed
  BY DEF CsrIInv
<1>2. /\ h \in Heads /\ r \in Rows /\ EdgeAt(k, i) \in RangeOf(h, r) /\ i \in Nat
      /\ list[k] = ChunkItem(h, r, (EdgeAt(k, i) - Start(h, r)) \div Target)
      /\ list[k].begin = ((EdgeAt(k, i) - Start(h, r)) \div Target) * Target
  BY EdgeAtRight
<1>3. /\ list[l].head \in Heads /\ v \in Rows /\ EdgeAt(l, j) \in RangeOf(list[l].head, v) /\ j \in Nat
      /\ list[l] = ChunkItem(list[l].head, v, (EdgeAt(l, j) - Start(list[l].head, v)) \div Target)
  BY EdgeAtRight
<1>4. r = v
  BY <1>1, <1>2, <1>3, RangesApart
<1>5. list[k] = list[l]
  BY <1>2, <1>3, <1>4
<1>6. k = l
  BY <1>5 DEF FlatRight
<1>. DEFINE s == Start(h, r)  b == list[k].begin
<1>7. s \in Nat /\ b \in Int
  <2>1. \A x \in Rows : x \in 0..host.rows
    BY <1>1, Sizes DEF Rows
  <2>2. s \in Nat
    BY <1>1, <1>2, <2>1, StartRight
  <2>3. EdgeAt(k, i) \in Int
    BY <1>2 DEF RangeOf
  <2>4. (EdgeAt(k, i) - s) \in Int
    BY <2>2, <2>3
  <2>. DEFINE e == EdgeAt(k, i) - s
  <2>5. b = (e \div Target) * Target
    BY <1>2
  <2>. HIDE DEF e, b
  <2>6. (e \div Target) \in Int
    BY <2>4, Positive DEF e
  <2>. QED
    BY <2>2, <2>5, <2>6, Positive
<1>8. s + b + i = s + b + j
  BY <1>4, <1>6 DEF EdgeAt
<1>. HIDE DEF s, b
<1>. QED
  BY <1>2, <1>3, <1>6, <1>7, <1>8

(* When every chunk has its place, every edge is some thread's.            *)
LEMMA EdgesAll ==
    ASSUME CsrIInv, Lent, FlatRight, phase # "flat", NEW h \in Heads, NEW r \in Rows,
           NEW pos \in RangeOf(h, r)
    PROVE  \E k \in 0..(listed - 1) : list[k].head = h
           /\ \E i \in 0..(list[k].count - 1) : pos = EdgeAt(k, i)
<1>. DEFINE n == Ahead(h, r, host.numQ)  s == Start(h, r)  p == pos - s  c == p \div Target
            a == c * Target  z == Smaller(Target, n - a)  x == <<h, r>>
<1>1. Fixed /\ x \in Heads \X Rows /\ x[1] = h /\ x[2] = r
  BY DEF CsrIInv
<1>2. n \in Nat
  BY <1>1, Sizes, AheadRight
<1>3. s \in Nat /\ Start(h, r + 1) = s + n
  <2>1. r \in 0..host.rows
    BY <1>1, Sizes DEF Rows
  <2>. QED
    BY <1>1, <2>1, StartRight
<1>4. p \in 0..(n - 1) /\ pos = s + p
  <2>1. pos \in s..(s + n - 1)
    <3>. DEFINE t == Start(h, r + 1)
    <3>1. pos \in s..(t - 1) /\ t = s + n
      BY <1>3 DEF RangeOf
    <3>. HIDE DEF s, n, t
    <3>. QED
      BY <1>2, <1>3, <3>1
  <2>. HIDE DEF s, n
  <2>. QED
    BY <1>2, <1>3, <2>1
<1>5. c \in 0..(Chunks(n, Target) - 1) /\ p \in a..(a + z - 1)
  <2>. HIDE DEF n, p
  <2>. QED
    BY <1>2, <1>4, QueryChunk
<1>6. c \in ChunksIn(x) /\ ChunksIn(x) = reserved[x]
  <2>1. ChunksOf[x] = Chunks(n, Target)
    BY <1>1 DEF ChunksOf
  <2>2. \A y \in Heads \X Rows : reserved[y] = ChunksIn(y)
    BY DEF FlatRight
  <2>. HIDE DEF c, n
  <2>. QED
    BY <1>1, <1>5, <2>1, <2>2 DEF ChunksIn
<1>. HIDE DEF c
<1>7. PICK k \in 0..(listed - 1) : list[k] = ChunkItem(h, r, c)
  <2>1. \A y \in Heads \X Rows : \A d \in reserved[y] : \E k \in 0..(listed - 1) : list[k] = ChunkItem(y[1], y[2], d)
    BY DEF FlatRight
  <2>. HIDE DEF x
  <2>. QED
    BY <1>1, <1>6, <2>1
<1>8. list[k].head = h /\ list[k].row = r /\ list[k].begin = a /\ list[k].count = z
  BY <1>1, <1>6, <1>7, ChunksApart DEF Lent
<1>9. a \in Int
  BY <1>5, Positive
<1>10. PICK i : i = p - a
  OBVIOUS
<1>11. EdgeAt(k, i) = s + a + i
  BY <1>8 DEF EdgeAt
<1>12. z \in Int
  BY <1>2, <1>9, Positive DEF Smaller
<1>. HIDE DEF n, s, a, z, p
<1>13. i \in 0..(z - 1) /\ s + a + i = s + p
  BY <1>3, <1>4, <1>5, <1>9, <1>10, <1>12
<1>. QED
  BY <1>4, <1>8, <1>11, <1>13

-----------------------------------------------------------------------------
(***************************************************************************)
(* Steps of the second kernel.                                             *)
(***************************************************************************)
(* A thread numbers an edge that had none, of a query that has edges left. *)
LEMMA NumberMoves ==
    ASSUME IndexIInv, NEW k \in DOMAIN list, NEW i \in 0..(list[k].count - 1), Prep!NumberEdge(k, i)
    PROVE  LET h == list[k].head
               pos == EdgeAt(k, i)
               q == QueryAt(h, list[k].row, pos) IN
           /\ phase = "split" /\ k \in 0..(listed - 1) /\ i \notin numbered[k]
           /\ h \in Heads /\ q \in Queries /\ pos \in Mine(h, q) /\ pos \notin Given(h)
           /\ IsFiniteSet(GivenOf(h, q)) /\ pos \in 0..(QIdxSize - 1)
           /\ numbered' = [numbered EXCEPT ![k] = @ \cup {i}]
           /\ counts' = [counts EXCEPT ![q][h] = @ + 1]
           /\ slots' = [slots EXCEPT ![h][pos] = counts[q][h]]
           /\ UNCHANGED <<index, phase, reserved, list, listed>>
<1>. DEFINE h == list[k].head  r == list[k].row  pos == EdgeAt(k, i)  q == QueryAt(h, r, pos)
            edge == Prep!RowStart(h, r) + list[k].begin + i
            query == index.cuQ[list[k].batch] + index.qIdx[h][edge + 1]
            slot == counts[query][h]
<1>1. /\ phase = "split" /\ k < listed /\ i \notin numbered[k]
      /\ numbered' = [numbered EXCEPT ![k] = @ \cup {i}]
      /\ counts' = [counts EXCEPT ![query][h] = @ + 1]
      /\ slots' = IF slot < TopK THEN [slots EXCEPT ![h][edge] = slot] ELSE slots
      /\ UNCHANGED <<index, phase, reserved, list, listed>>
  BY DEF Prep!NumberEdge, Prep!TakeNumber
<1>2. CsrIInv /\ Lent /\ FlatRight /\ NumberedRight /\ stage = "done"
  BY <1>1 DEF IndexIInv, Lent
<1>3. k \in 0..(listed - 1)
  <2>1. DOMAIN list = 0..(host.capacity - 1) /\ listed \in Nat /\ host.capacity \in Nat
    BY <1>2, ListedRight, Sizes DEF FlatRight, CsrIInv
  <2>2. k \in 0..(host.capacity - 1)
    BY <2>1
  <2>3. k < listed
    BY <1>1
  <2>. HIDE DEF query, slot, edge
  <2>. QED
    BY <2>1, <2>2, <2>3
<1>4. /\ h \in Heads /\ r \in Rows /\ list[k].batch = rowCoords[r][1] /\ pos \in RangeOf(h, r)
  BY <1>2, <1>3, EdgeAtRight
<1>5. pos \in 0..(QIdxSize - 1) /\ q \in Queries /\ pos \in Mine(h, q)
  BY <1>2, <1>4, PlaceTaken
<1>6. edge = pos
  <2>1. r \in 0..host.rows
    BY <1>2, <1>4, Sizes DEF Rows, CsrIInv
  <2>2. Prep!RowStart(h, r) = Start(h, r)
    BY <1>2, <1>4, <2>1, LentRight
  <2>. QED
    BY <2>2 DEF EdgeAt
<1>7. query = q
  <2>1. index.cuQ = prob.cuQ /\ index.qIdx[h][pos + 1] = edges[h][pos].q
    BY <1>2, <1>4, <1>5, LentRight
  <2>. HIDE DEF pos, edge
  <2>. QED
    BY <1>4, <1>6, <2>1 DEF QueryAt
<1>8. pos \notin Given(h)
  <2>1. ASSUME NEW l \in 0..(listed - 1), list[l].head = h, NEW j \in numbered[l], pos = EdgeAt(l, j)
        PROVE  FALSE
    <3>1. j \in 0..(list[l].count - 1)
      BY <1>1, <1>2 DEF NumberedRight
    <3>2. k = l /\ i = j
      BY <1>2, <1>3, <2>1, <3>1, EdgesApart
    <3>. QED
      BY <1>1, <2>1, <3>2
  <2>. QED
    BY <2>1 DEF Given
<1>. HIDE DEF pos, q, edge, query, h, r
<1>9. IsFiniteSet(GivenOf(h, q)) /\ counts[q][h] < TopK
  <2>1. IsFiniteSet(Mine(h, q)) /\ Cardinality(Mine(h, q)) \in 0..TopK
    BY <1>2, <1>4, <1>5, MineRight
  <2>2. GivenOf(h, q) \cup {pos} \in SUBSET Mine(h, q) /\ pos \notin GivenOf(h, q)
    BY <1>5, <1>8 DEF GivenOf
  <2>3. IsFiniteSet(GivenOf(h, q)) /\ Cardinality(GivenOf(h, q) \cup {pos}) <= Cardinality(Mine(h, q))
    BY <2>1, <2>2, FS_Subset
  <2>4. Cardinality(GivenOf(h, q) \cup {pos}) = Cardinality(GivenOf(h, q)) + 1
    BY <2>2, <2>3, FS_AddElement
  <2>5. Cardinality(GivenOf(h, q)) \in Nat /\ TopK \in Nat
    BY <2>3, FS_CardinalityType, Positive
  <2>6. counts[q][h] = Cardinality(GivenOf(h, q))
    BY <1>1, <1>2, <1>4, <1>5 DEF NumberedRight, DenseSoFar
  <2>. QED
    BY <2>1, <2>3, <2>4, <2>5, <2>6
<1>10. slots' = [slots EXCEPT ![h][pos] = counts[q][h]]
  BY <1>1, <1>6, <1>7, <1>9
<1>11. counts' = [counts EXCEPT ![q][h] = @ + 1]
  BY <1>1, <1>7
<1>. QED
  BY <1>1, <1>3, <1>4, <1>5, <1>8, <1>9, <1>10, <1>11 DEF pos, q, h, r

\* What a step of the second kernel does to the edges with a number: edge pos of
\* head h, of query q, has got one from thread i of place k.
Numbers(k, i, h, pos, q) ==
    /\ phase = "split" /\ k \in 0..(listed - 1) /\ h = list[k].head /\ pos = EdgeAt(k, i)
    /\ h \in Heads /\ q \in Queries /\ pos \in 0..(QIdxSize - 1) /\ pos \in Mine(h, q)
    /\ numbered'[k] = numbered[k] \cup {i}
    /\ \A l \in 0..(listed - 1) : l # k => numbered'[l] = numbered[l]
    /\ UNCHANGED <<list, listed>>

(* Its query has one edge more with a number; no other has.                *)
LEMMA GivenNow ==
    ASSUME IndexIInv, UNCHANGED csrVars, NEW k, NEW i, NEW h, NEW pos, NEW q, Numbers(k, i, h, pos, q)
    PROVE  /\ GivenOf(h, q)' = GivenOf(h, q) \cup {pos}
           /\ \A g \in Heads, p \in Queries : <<g, p>> # <<h, q>> => GivenOf(g, p)' = GivenOf(g, p)
<1>1. /\ phase = "split" /\ k \in 0..(listed - 1) /\ h = list[k].head /\ pos = EdgeAt(k, i)
      /\ h \in Heads /\ q \in Queries /\ pos \in 0..(QIdxSize - 1) /\ pos \in Mine(h, q)
      /\ numbered'[k] = numbered[k] \cup {i} /\ list' = list /\ listed' = listed
      /\ \A l \in 0..(listed - 1) : l # k => numbered'[l] = numbered[l]
  BY DEF Numbers
<1>2. CsrIInv /\ stage = "done"
  BY <1>1 DEF IndexIInv, Lent
<1>3. /\ QIdxSize' = QIdxSize /\ \A g, p : Mine(g, p)' = Mine(g, p)
      /\ \A g, r : Start(g, r)' = Start(g, r)
  BY PlanKept
<1>4. \A l, j : EdgeAt(l, j)' = EdgeAt(l, j)
  BY <1>1, <1>3 DEF EdgeAt
<1>5. \A g, e : e \in Given(g)' <=>
        /\ e \in 0..(QIdxSize - 1)
        /\ \E l \in 0..(listed - 1) : list[l].head = g /\ \E j \in numbered'[l] : e = EdgeAt(l, j)
  BY <1>1, <1>3, <1>4 DEF Given
<1>6. \A g, e : e \in Given(g) <=>
        /\ e \in 0..(QIdxSize - 1)
        /\ \E l \in 0..(listed - 1) : list[l].head = g /\ \E j \in numbered[l] : e = EdgeAt(l, j)
  BY DEF Given
<1>7. ASSUME NEW g, NEW e, e \in Given(g) PROVE e \in Given(g)'
  <2>1. PICK l \in 0..(listed - 1) : list[l].head = g /\ \E j \in numbered[l] : e = EdgeAt(l, j)
    BY <1>6, <1>7
  <2>2. PICK j \in numbered[l] : e = EdgeAt(l, j)
    BY <2>1
  <2>3. j \in numbered'[l] /\ e \in 0..(QIdxSize - 1)
    BY <1>1, <1>6, <1>7, <2>2
  <2>. QED
    BY <1>5, <2>1, <2>2, <2>3
<1>8. pos \in Given(h)'
  BY <1>1, <1>5
<1>9. ASSUME NEW g, NEW e, e \in Given(g)' PROVE e \in Given(g) \/ (g = h /\ e = pos)
  <2>1. PICK l \in 0..(listed - 1) : list[l].head = g /\ \E j \in numbered'[l] : e = EdgeAt(l, j)
    BY <1>5, <1>9
  <2>2. PICK j \in numbered'[l] : e = EdgeAt(l, j)
    BY <2>1
  <2>3. e \in 0..(QIdxSize - 1)
    BY <1>5, <1>9
  <2>4. CASE j \in numbered[l]
    BY <1>6, <2>1, <2>2, <2>3, <2>4
  <2>5. CASE j \notin numbered[l]
    <3>1. l = k /\ j = i
      BY <1>1, <2>2, <2>5
    <3>. QED
      BY <1>1, <2>1, <2>2, <3>1
  <2>. QED
    BY <2>4, <2>5
<1>10. \A g, p : GivenOf(g, p) = Mine(g, p) \cap Given(g) /\ GivenOf(g, p)' = Mine(g, p) \cap Given(g)'
  BY <1>3 DEF GivenOf
<1>11. GivenOf(h, q)' = GivenOf(h, q) \cup {pos}
  BY <1>1, <1>7, <1>8, <1>9, <1>10
<1>12. ASSUME NEW g \in Heads, NEW p \in Queries, <<g, p>> # <<h, q>> PROVE GivenOf(g, p)' = GivenOf(g, p)
  <2>1. ASSUME g = h, pos \in Mine(g, p) PROVE FALSE
    <3>1. p # q
      BY <1>12, <2>1
    <3>2. Mine(h, p) \cap Mine(h, q) = {}
      BY <1>1, <1>2, <3>1, MineRight
    <3>. QED
      BY <1>1, <2>1, <3>2
  <2>. QED
    BY <1>7, <1>9, <1>10, <2>1
<1>. QED
  BY <1>11, <1>12

(* A number that a thread takes keeps those of every query dense.          *)
LEMMA NumberStep ==
    ASSUME IndexIInv, NEW k \in DOMAIN list, NEW i \in 0..(list[k].count - 1), Prep!NumberEdge(k, i),
           UNCHANGED csrVars, CsrIInv'
    PROVE  IndexIInv'
<1>1. PICK h, pos : h = list[k].head /\ pos = EdgeAt(k, i)
  OBVIOUS
<1>2. PICK q : q = QueryAt(h, list[k].row, pos)
  OBVIOUS
<1>3. /\ phase = "split" /\ k \in 0..(listed - 1) /\ i \notin numbered[k]
      /\ h \in Heads /\ q \in Queries /\ pos \in Mine(h, q) /\ pos \notin Given(h)
      /\ IsFiniteSet(GivenOf(h, q)) /\ pos \in 0..(QIdxSize - 1)
      /\ numbered' = [numbered EXCEPT ![k] = @ \cup {i}]
      /\ counts' = [counts EXCEPT ![q][h] = @ + 1]
      /\ slots' = [slots EXCEPT ![h][pos] = counts[q][h]]
      /\ UNCHANGED <<index, phase, reserved, list, listed>>
  BY <1>1, <1>2, NumberMoves
<1>4. /\ CsrIInv /\ Lent /\ FlatRight /\ NumberedRight /\ host.heads > 0 /\ stage = "done"
  BY <1>3 DEF IndexIInv, Lent
<1>5. /\ Heads' = Heads /\ Rows' = Rows /\ Queries' = Queries /\ QIdxSize' = QIdxSize
      /\ host' = host /\ BuiltIndex' = BuiltIndex /\ stage' = stage
  BY PlanKept
<1>6. Lent'
  BY <1>3, <1>4, <1>5 DEF Lent
<1>7. FlatRight'
  <2>1. \A x \in Heads \X Rows : reserved[x] = ChunksIn(x)
    BY <1>3, <1>4 DEF FlatRight
  <2>. QED
    BY <1>3, <1>4, <2>1, FlatKept
<1>8. /\ GivenOf(h, q)' = GivenOf(h, q) \cup {pos}
      /\ \A g \in Heads, p \in Queries : <<g, p>> # <<h, q>> => GivenOf(g, p)' = GivenOf(g, p)
  <2>1. numbered'[k] = numbered[k] \cup {i}
        /\ \A l \in 0..(listed - 1) : l # k => numbered'[l] = numbered[l]
    <3>1. numbered = [l \in 0..(host.capacity - 1) |-> numbered[l]]
      BY <1>4 DEF NumberedRight
    <3>2. \A l \in 0..(listed - 1) : l \in DOMAIN numbered
      BY <1>4, <3>1, ListedRight
    <3>. QED
      BY <1>3, <3>2
  <2>2. Numbers(k, i, h, pos, q)
    BY <1>1, <1>3, <2>1 DEF Numbers
  <2>. QED
    BY <2>2, GivenNow
<1>9. \A g \in Heads, p \in Queries : DenseSoFar(g, p)
  BY <1>3, <1>4 DEF NumberedRight
<1>10. /\ counts = [p \in Queries |-> [g \in Heads |-> counts[p][g]]]
       /\ slots = [g \in Heads |-> [e \in 0..(QIdxSize - 1) |-> slots[g][e]]]
       /\ numbered = [l \in 0..(host.capacity - 1) |-> numbered[l]]
  BY <1>4 DEF NumberedRight
<1>11. /\ counts' = [p \in Queries |-> [g \in Heads |-> counts'[p][g]]]
       /\ counts'[q][h] = counts[q][h] + 1
       /\ \A g \in Heads, p \in Queries : <<g, p>> # <<h, q>> => counts'[p][g] = counts[p][g]
  <2>. DEFINE taken == [p \in Queries |-> [g \in Heads |->
                          IF p = q /\ g = h THEN counts[p][g] + 1 ELSE counts[p][g]]]
  <2>1. counts' = taken
    <3>1. DOMAIN counts = Queries /\ \A p \in Queries : DOMAIN counts[p] = Heads
      BY <1>10
    <3>2. counts' = [p \in Queries |-> IF p = q THEN [counts[q] EXCEPT ![h] = @ + 1] ELSE counts[p]]
      BY <1>3, <3>1
    <3>3. [counts[q] EXCEPT ![h] = @ + 1] = [g \in Heads |-> IF g = h THEN counts[q][g] + 1 ELSE counts[q][g]]
      BY <1>3, <3>1
    <3>4. \A p \in Queries : counts[p] = [g \in Heads |-> counts[p][g]]
      BY <1>10
    <3>. QED
      BY <3>2, <3>3, <3>4
  <2>2. \A p \in Queries : counts'[p] = [g \in Heads |-> IF p = q /\ g = h THEN counts[p][g] + 1 ELSE counts[p][g]]
    BY <2>1
  <2>3. \A p \in Queries, g \in Heads :
            counts'[p][g] = IF p = q /\ g = h THEN counts[p][g] + 1 ELSE counts[p][g]
    BY <2>2
  <2>. HIDE DEF taken
  <2>4. DOMAIN counts' = Queries
    BY <2>1 DEF taken
  <2>5. counts' = [p \in Queries |-> [g \in Heads |-> counts'[p][g]]]
    <3>1. \A p \in Queries : counts'[p] = [g \in Heads |-> counts'[p][g]]
      BY <2>2
    <3>2. counts' = [p \in Queries |-> counts'[p]]
      BY <2>1 DEF taken
    <3>. QED
      BY <3>1, <3>2
  <2>6. q \in Queries /\ h \in Heads
    BY <1>3
  <2>7. \A g \in Heads, p \in Queries : <<g, p>> # <<h, q>> => counts'[p][g] = counts[p][g]
    BY <2>3
  <2>. QED
    BY <2>3, <2>5, <2>6, <2>7
<1>12. /\ slots' = [g \in Heads |-> [e \in 0..(QIdxSize - 1) |-> slots'[g][e]]]
       /\ slots'[h][pos] = counts[q][h]
       /\ \A g \in Heads, e \in 0..(QIdxSize - 1) : <<g, e>> # <<h, pos>> => slots'[g][e] = slots[g][e]
  <2>. DEFINE Es == 0..(QIdxSize - 1)
              taken == [g \in Heads |-> [e \in Es |->
                          IF g = h /\ e = pos THEN counts[q][h] ELSE slots[g][e]]]
  <2>1. /\ slots = [g \in Heads |-> [e \in Es |-> slots[g][e]]] /\ pos \in Es
    BY <1>3, <1>10
  <2>. HIDE DEF Es
  <2>2. slots' = taken
    <3>1. DOMAIN slots = Heads /\ \A g \in Heads : DOMAIN slots[g] = Es
      BY <2>1
    <3>2. slots' = [g \in Heads |-> IF g = h THEN [slots[h] EXCEPT ![pos] = counts[q][h]] ELSE slots[g]]
      BY <1>3, <3>1
    <3>3. [slots[h] EXCEPT ![pos] = counts[q][h]] = [e \in Es |-> IF e = pos THEN counts[q][h] ELSE slots[h][e]]
      BY <1>3, <2>1, <3>1
    <3>4. \A g \in Heads : slots[g] = [e \in Es |-> slots[g][e]]
      BY <2>1
    <3>. QED
      BY <3>2, <3>3, <3>4
  <2>3. \A g \in Heads : slots'[g] = [e \in Es |-> IF g = h /\ e = pos THEN counts[q][h] ELSE slots[g][e]]
    BY <2>2
  <2>4. \A g \in Heads, e \in Es : slots'[g][e] = IF g = h /\ e = pos THEN counts[q][h] ELSE slots[g][e]
    BY <2>3
  <2>. HIDE DEF taken
  <2>5. slots' = [g \in Heads |-> [e \in Es |-> slots'[g][e]]]
    <3>1. \A g \in Heads : slots'[g] = [e \in Es |-> slots'[g][e]]
      BY <2>3
    <3>2. slots' = [g \in Heads |-> slots'[g]]
      BY <2>2 DEF taken
    <3>. QED
      BY <3>1, <3>2
  <2>6. pos \in Es /\ h \in Heads
    BY <1>3, <2>1
  <2>7. \A g \in Heads, e \in Es : <<g, e>> # <<h, pos>> => slots'[g][e] = slots[g][e]
    BY <2>4
  <2>8. slots'[h][pos] = counts[q][h]
    BY <2>4, <2>6
  <2>. QED
    BY <2>5, <2>7, <2>8 DEF Es
<1>13. /\ numbered' = [l \in 0..(host.capacity - 1) |-> numbered'[l]]
       /\ \A l \in 0..(listed - 1) : numbered'[l] \in SUBSET (0..(list[l].count - 1))
  <2>1. \A l \in 0..(listed - 1) : l \in 0..(host.capacity - 1)
    BY <1>4, ListedRight
  <2>2. \A l \in 0..(listed - 1) : numbered[l] \in SUBSET (0..(list[l].count - 1))
    BY <1>3, <1>4 DEF NumberedRight
  <2>3. /\ numbered' = [l \in 0..(host.capacity - 1) |-> numbered'[l]]
        /\ numbered'[k] = numbered[k] \cup {i}
        /\ \A l \in 0..(host.capacity - 1) : l # k => numbered'[l] = numbered[l]
    BY <1>3, <1>10, <2>1
  <2>. QED
    BY <1>3, <2>1, <2>2, <2>3
<1>14. ASSUME NEW g \in Heads, NEW p \in Queries PROVE DenseSoFar(g, p)'
  <2>. DEFINE G == GivenOf(g, p)
  <2>1. /\ counts[p][g] = Cardinality(G) /\ \A e \in G : slots[g][e] \in 0..(counts[p][g] - 1)
        /\ \A e, f \in G : slots[g][e] = slots[g][f] => e = f
    BY <1>9 DEF DenseSoFar
  <2>2. \A e \in G : e \in 0..(QIdxSize - 1)
    BY DEF GivenOf, Given
  <2>3. CASE <<g, p>> = <<h, q>>
    <3>1. g = h /\ p = q /\ IsFiniteSet(G) /\ pos \notin G /\ G' = G \cup {pos}
      BY <1>3, <1>8, <2>3 DEF GivenOf
    <3>2. Cardinality(G') = Cardinality(G) + 1 /\ Cardinality(G) \in Nat
      BY <3>1, FS_AddElement, FS_CardinalityType
    <3>3. counts'[p][g] = counts[p][g] + 1 /\ slots'[g][pos] = counts[p][g]
      BY <1>11, <1>12, <3>1
    <3>4. \A e \in G : slots'[g][e] = slots[g][e]
      BY <1>12, <2>2, <3>1
    <3>5. counts'[p][g] = Cardinality(G')
      BY <2>1, <3>2, <3>3
    <3>6. \A e \in G : slots'[g][e] # counts[p][g] /\ slots'[g][e] \in 0..(counts'[p][g] - 1)
      BY <2>1, <3>2, <3>3, <3>4
    <3>7. \A e \in G' : slots'[g][e] \in 0..(counts'[p][g] - 1)
      <4>1. slots'[g][pos] \in 0..(counts'[p][g] - 1)
        BY <2>1, <3>2, <3>3
      <4>. QED
        BY <3>1, <3>6, <4>1
    <3>8. \A e, f \in G' : slots'[g][e] = slots'[g][f] => e = f
      BY <2>1, <3>1, <3>3, <3>4, <3>6
    <3>. HIDE DEF G
    <3>9. GivenOf(g, p)' = G'
      BY DEF G
    <3>. QED
      BY <3>5, <3>7, <3>8, <3>9 DEF DenseSoFar
  <2>4. CASE <<g, p>> # <<h, q>>
    <3>1. GivenOf(g, p)' = G /\ counts'[p][g] = counts[p][g]
      BY <1>8, <1>11, <2>4
    <3>2. \A e \in G : <<g, e>> # <<h, pos>>
      <4>1. ASSUME g = h, pos \in G PROVE FALSE
        BY <1>3, <4>1 DEF GivenOf
      <4>. QED
        BY <4>1
    <3>3. \A e \in G : slots'[g][e] = slots[g][e]
      BY <1>12, <2>2, <3>2
    <3>. QED
      BY <2>1, <3>1, <3>3 DEF DenseSoFar
  <2>. QED
    BY <2>3, <2>4
<1>15. phase' = "split" /\ NumberedRight'
  BY <1>3, <1>5, <1>11, <1>12, <1>13, <1>14 DEF NumberedRight
<1>. QED
  BY <1>4, <1>5, <1>6, <1>7, <1>15 DEF IndexIInv

(* Nothing changes, or every edge has its number.                          *)
LEMMA StaysOrEnds ==
    ASSUME IndexIInv, UNCHANGED csrVars, CsrIInv',
           UNCHANGED <<index, reserved, list, listed, numbered, slots, counts>>,
           \/ phase' = phase
           \/ /\ phase = "split" /\ phase' = "done"
              /\ \A k \in 0..(listed - 1) : numbered[k] = 0..(list[k].count - 1)
    PROVE  IndexIInv'
<1>1. /\ Heads' = Heads /\ Rows' = Rows /\ Queries' = Queries /\ QIdxSize' = QIdxSize
      /\ host' = host /\ BuiltIndex' = BuiltIndex /\ stage' = stage
      /\ (\A h, q : Mine(h, q)' = Mine(h, q)) /\ \A h, r : Start(h, r)' = Start(h, r)
  BY PlanKept
<1>2. phase' \in {"none", "flat", "split", "done"} /\ host'.heads > 0
  BY <1>1 DEF IndexIInv
<1>3. ASSUME phase' # "none" PROVE Lent' /\ FlatRight' /\ NumberedRight'
  <2>1. phase # "none" /\ Lent /\ FlatRight /\ NumberedRight
    BY <1>3 DEF IndexIInv
  <2>2. Lent'
    BY <1>1, <2>1 DEF Lent
  <2>3. FlatRight'
    <3>1. phase' = "flat" \/ \A x \in Heads \X Rows : reserved[x] = ChunksIn(x)
      BY <2>1 DEF FlatRight
    <3>. QED
      BY <2>1, <3>1, FlatKept
  <2>4. NumberedRight'
    <3>1. \A k, i : EdgeAt(k, i)' = EdgeAt(k, i)
      BY <1>1 DEF EdgeAt
    <3>2. \A h : Given(h)' = Given(h)
      BY <1>1, <3>1 DEF Given
    <3>3. \A h, q : GivenOf(h, q)' = GivenOf(h, q)
      BY <1>1, <3>2 DEF GivenOf
    <3>4. \A h, q : DenseSoFar(h, q)' <=> DenseSoFar(h, q)
      BY <3>3 DEF DenseSoFar
    <3>5. /\ numbered = [k \in 0..(host.capacity - 1) |-> numbered[k]]
          /\ slots = [h \in Heads |-> [pos \in 0..(QIdxSize - 1) |-> slots[h][pos]]]
          /\ counts = [q \in Queries |-> [h \in Heads |-> counts[q][h]]]
          /\ phase = "flat" => \A k \in 0..(host.capacity - 1) : numbered[k] = {}
          /\ phase # "flat" =>
              /\ \A k \in 0..(listed - 1) : numbered[k] \in SUBSET (0..(list[k].count - 1))
              /\ \A h \in Heads, q \in Queries : DenseSoFar(h, q)
          /\ phase = "done" => \A k \in 0..(listed - 1) : numbered[k] = 0..(list[k].count - 1)
      BY <2>1 DEF NumberedRight
    <3>6. /\ numbered' = [k \in 0..(host'.capacity - 1) |-> numbered'[k]]
          /\ slots' = [h \in Heads' |-> [pos \in 0..(QIdxSize' - 1) |-> slots'[h][pos]]]
          /\ counts' = [q \in Queries' |-> [h \in Heads' |-> counts'[q][h]]]
      BY <1>1, <3>5
    <3>7. phase' = "flat" => \A k \in 0..(host'.capacity - 1) : numbered'[k] = {}
      BY <1>1, <3>5
    <3>8. phase' # "flat" =>
              /\ \A k \in 0..(listed' - 1) : numbered'[k] \in SUBSET (0..(list'[k].count - 1))
              /\ \A h \in Heads', q \in Queries' : DenseSoFar(h, q)'
      BY <1>1, <3>4, <3>5
    <3>9. phase' = "done" => \A k \in 0..(listed' - 1) : numbered'[k] = 0..(list'[k].count - 1)
      BY <3>5
    <3>. QED
      BY <3>6, <3>7, <3>8, <3>9 DEF NumberedRight
  <2>. QED
    BY <2>2, <2>3, <2>4
<1>. QED
  BY <1>2, <1>3 DEF IndexIInv

(* The second kernel ends when every edge of every place has a number.     *)
LEMMA FinishStep ==
    ASSUME IndexIInv, Prep!Finish, UNCHANGED csrVars, CsrIInv'
    PROVE  IndexIInv'
<1>1. /\ phase = "split" /\ phase' = "done" /\ Prep!SplitDone
      /\ UNCHANGED <<index, reserved, list, listed, numbered, slots, counts>>
  BY DEF Prep!Finish
<1>2. CsrIInv /\ Lent /\ FlatRight
  BY <1>1 DEF IndexIInv
<1>3. ASSUME NEW k \in 0..(listed - 1) PROVE numbered[k] = 0..(list[k].count - 1)
  <2>1. k \in DOMAIN list
    BY <1>2, ListedRight DEF FlatRight
  <2>2. k < listed
    BY <1>2, ListedRight
  <2>. QED
    BY <1>1, <2>1, <2>2 DEF Prep!SplitDone
<1>. QED
  BY <1>1, <1>3, StaysOrEnds

(* The builder's steps are over once its index is lent.                    *)
LEMMA BuilderKeeps ==
    ASSUME Builder
    PROVE  stage # "done" /\ host' = host
<1>1. CASE LaunchNext
  BY <1>1 DEF LaunchNext
<1>2. ASSUME NEW a, KernelStep(a) PROVE stage # "done" /\ host' = host
  <2>1. CASE MapLevel(a)
    BY <2>1 DEF MapLevel
  <2>2. CASE HistZero(a) \/ HistCount(a) \/ HistTile(a) \/ HistSum(a)
    BY <2>2 DEF HistZero, HistCount, HistTile, HistSum, HistStep
  <2>3. CASE ScanLocal(a) \/ ScanRead(a) \/ ScanAdd(a)
    BY <2>3 DEF ScanLocal, ScanRead, ScanAdd
  <2>4. CASE EmitRow(a)
    BY <2>4 DEF EmitRow
  <2>5. CASE PrefixBlock(a)
    BY <2>5 DEF PrefixBlock
  <2>6. CASE Scatter(a)
    BY <2>6 DEF Scatter
  <2>. QED
    BY <1>2, <2>1, <2>2, <2>3, <2>4, <2>5, <2>6 DEF KernelStep
<1>. QED
  BY <1>1, <1>2 DEF Builder

(* Every step keeps the invariant.                                         *)
LEMMA IndexStep ==
    ASSUME IndexIInv, [IndexNext]_indexVars
    PROVE  IndexIInv'
<1>1. CASE Builder /\ UNCHANGED prepVars
  <2>1. CsrIInv' /\ stage # "done" /\ host' = host
    BY <1>1, BuilderStep, BuilderKeeps DEF IndexIInv
  <2>2. phase = "none" /\ phase' = "none"
    BY <1>1, <2>1 DEF IndexIInv, Lent, prepVars
  <2>. QED
    BY <2>1, <2>2 DEF IndexIInv
<1>2. ASSUME UNCHANGED csrVars PROVE CsrIInv'
  BY <1>2, Unmoved DEF IndexIInv
<1>3. CASE Prepare /\ UNCHANGED csrVars
  BY <1>2, <1>3, PrepareStep
<1>4. CASE Prep!Step /\ UNCHANGED csrVars
  <2>1. CASE phase = "flat" /\ \E rh \in Prep!RowHeads(index) :
                \E c \in 0..(Prep!Chunks(Prep!CountOf(rh[1], rh[2]), Target) - 1) : Prep!EmitChunk(rh[1], rh[2], c)
    BY <1>2, <1>4, <2>1, ReserveStep
  <2>2. CASE Prep!Zero
    BY <1>2, <1>4, <2>2, ClearStep
  <2>3. CASE \E k \in DOMAIN list : \E i \in 0..(list[k].count - 1) : Prep!NumberEdge(k, i)
    BY <1>2, <1>4, <2>3, NumberStep
  <2>4. CASE Prep!Finish
    BY <1>2, <1>4, <2>4, FinishStep
  <2>. QED
    BY <1>4, <2>1, <2>2, <2>3, <2>4 DEF Prep!Step
<1>5. CASE UNCHANGED indexVars
  <2>1. UNCHANGED csrVars /\ UNCHANGED prepVars
    BY <1>5 DEF indexVars
  <2>2. UNCHANGED <<index, reserved, list, listed, numbered, slots, counts>> /\ phase' = phase
    BY <2>1 DEF prepVars
  <2>. QED
    BY <1>2, <2>1, <2>2, StaysOrEnds
<1>. QED
  BY <1>1, <1>3, <1>4, <1>5 DEF IndexNext

(* What the forward needs is, at the start, nowhere.                       *)
LEMMA IndexInitRight ==
    ASSUME IndexInit, \A p \in Problems : SafeProblem(p) /\ p.q2k # <<>>
    PROVE  IndexIInv
<1>1. CsrIInv /\ phase = "none" /\ prob \in Problems
  BY CsrInitRight DEF IndexInit, Prep!Init, CsrInit
<1>2. host.heads = Len(prob.q2k) /\ host.heads \in Nat
  BY <1>1, Sizes DEF CsrIInv
<1>3. prob.q2k \in Seq(Seq(Seq(Int))) /\ prob.q2k # <<>>
  BY <1>1 DEF SafeProblem
<1>4. Len(prob.q2k) # 0
  BY <1>3
<1>. QED
  BY <1>1, <1>2, <1>4 DEF IndexIInv

-----------------------------------------------------------------------------
(***************************************************************************)
(* What it means when the call ends.                                       *)
(***************************************************************************)
(* All the edges of a query have a number.                                 *)
LEMMA AllGiven ==
    ASSUME IndexIInv, phase = "done", NEW h \in Heads, NEW q \in Queries
    PROVE  /\ counts[q][h] = Cardinality(Mine(h, q)) /\ IsFiniteSet(Mine(h, q))
           /\ \A pos \in Mine(h, q) : slots[h][pos] \in 0..(counts[q][h] - 1)
           /\ \A pos, other \in Mine(h, q) : slots[h][pos] = slots[h][other] => pos = other
<1>1. CsrIInv /\ Lent /\ FlatRight /\ NumberedRight /\ stage = "done"
  BY DEF IndexIInv, Lent
<1>2. /\ IsFiniteSet(Mine(h, q)) /\ Mine(h, q) \in SUBSET (0..(QIdxSize - 1))
      /\ \A pos \in Mine(h, q) : \E r \in Rows : pos \in RangeOf(h, r) /\ QueryAt(h, r, pos) = q
  BY <1>1, MineRight
<1>3. GivenOf(h, q) = Mine(h, q)
  <2>1. ASSUME NEW pos \in Mine(h, q) PROVE pos \in Given(h)
    <3>1. PICK r \in Rows : pos \in RangeOf(h, r)
      BY <1>2
    <3>2. PICK k \in 0..(listed - 1) : list[k].head = h
          /\ \E i \in 0..(list[k].count - 1) : pos = EdgeAt(k, i)
      BY <1>1, <3>1, EdgesAll
    <3>3. numbered[k] = 0..(list[k].count - 1) /\ pos \in 0..(QIdxSize - 1)
      BY <1>1, <1>2 DEF NumberedRight
    <3>. QED
      BY <3>2, <3>3 DEF Given
  <2>. QED
    BY <2>1 DEF GivenOf
<1>4. DenseSoFar(h, q)
  BY <1>1 DEF NumberedRight
<1>. QED
  BY <1>2, <1>3, <1>4 DEF DenseSoFar

(* The edges of a query are numbered from 0 without a gap.                 *)
LEMMA NumbersAtEnd ==
    ASSUME IndexIInv
    PROVE  Prep!SplitsDense
<1>. SUFFICES ASSUME phase = "done", NEW h \in Prep!Heads, NEW q \in 0..(Prep!NumQ - 1) PROVE
        LET used == 0..(Prep!RowStart(h, Prep!TotalRows(index)) - 1)
            query(edge, r) == index.cuQ[Prep!Decode(index.cuK, r)[1]] + index.qIdx[h][edge + 1]
            mine == {edge \in used : \E r \in Prep!Rows :
                        /\ edge \in Prep!RowStart(h, r)..(Prep!RowStart(h, r + 1) - 1)
                        /\ query(edge, r) = q} IN
        /\ {slots[h][edge] : edge \in mine} = 0..(counts[q][h] - 1)
        /\ Prep!Cardinality(mine) = counts[q][h]
  BY DEF Prep!SplitsDense
<1>1. CsrIInv /\ Lent /\ FlatRight /\ NumberedRight /\ stage = "done" /\ Fixed
  BY DEF IndexIInv, Lent, CsrIInv
<1>2. /\ Prep!Heads = Heads /\ Prep!NumQ = host.numQ /\ Prep!Rows = Rows
      /\ index.cuK = prob.cuK /\ index.cuQ = prob.cuQ /\ Prep!TotalRows(index) = host.rows
      /\ \A r \in 0..host.rows : Prep!RowStart(h, r) = Start(h, r)
      /\ \A pos \in 0..(QIdxSize - 1) : index.qIdx[h][pos + 1] = edges[h][pos].q
  BY <1>1, LentRight
<1>3. h \in Heads /\ q \in Queries
  BY <1>2 DEF Queries
<1>4. host.rows \in Nat /\ \A r \in Rows : r \in 0..host.rows /\ r + 1 \in 0..host.rows
  BY <1>1, Sizes DEF Rows
<1>. DEFINE used == 0..(Prep!RowStart(h, Prep!TotalRows(index)) - 1)
            query(edge, r) == index.cuQ[Prep!Decode(index.cuK, r)[1]] + index.qIdx[h][edge + 1]
            mine == {edge \in used : \E r \in Prep!Rows :
                        /\ edge \in Prep!RowStart(h, r)..(Prep!RowStart(h, r + 1) - 1)
                        /\ query(edge, r) = q}
<1>5. ASSUME NEW r \in Rows
      PROVE  /\ Prep!RowStart(h, r)..(Prep!RowStart(h, r + 1) - 1) = RangeOf(h, r)
             /\ \A edge \in RangeOf(h, r) : query(edge, r) = QueryAt(h, r, edge)
  <2>1. Prep!RowStart(h, r)..(Prep!RowStart(h, r + 1) - 1) = RangeOf(h, r)
    BY <1>2, <1>4 DEF RangeOf
  <2>2. ASSUME NEW edge \in RangeOf(h, r) PROVE query(edge, r) = QueryAt(h, r, edge)
    <3>1. edge \in 0..(QIdxSize - 1) /\ Decode(prob.cuK, r) = rowCoords[r]
      BY <1>1, <1>3, <2>2, PlaceTaken
    <3>2. Prep!Decode(index.cuK, r) = rowCoords[r]
      BY <1>2, <3>1, SameNotions
    <3>. QED
      BY <1>2, <3>1, <3>2 DEF QueryAt
  <2>. QED
    BY <2>1, <2>2
<1>6. ASSUME NEW r \in Rows, NEW edge \in RangeOf(h, r) PROVE edge \in used
  <2>. DEFINE a == Start(h, r)  b == Start(h, r + 1)  c == Start(h, host.rows)
  <2>1. a \in Nat /\ b \in Nat /\ c \in Nat /\ b <= c
    <3>1. r \in 0..host.rows /\ r + 1 \in 0..host.rows /\ host.rows \in 0..host.rows /\ r + 1 <= host.rows
      BY <1>4
    <3>. QED
      BY <1>1, <3>1, StartRight
  <2>2. used = 0..(c - 1) /\ edge \in a..(b - 1)
    BY <1>2, <1>4 DEF RangeOf
  <2>. HIDE DEF a, b, c, used
  <2>. QED
    BY <2>1, <2>2
<1>7. mine = Mine(h, q)
  <2>1. ASSUME NEW edge \in mine PROVE edge \in Mine(h, q)
    <3>1. PICK r \in Rows : edge \in Prep!RowStart(h, r)..(Prep!RowStart(h, r + 1) - 1)
          /\ query(edge, r) = q
      BY <1>2
    <3>2. edge \in RangeOf(h, r) /\ QueryAt(h, r, edge) = q
      <4>. HIDE DEF query
      <4>. QED
        BY <1>5, <3>1
    <3>. QED
      BY <1>1, <1>3, <3>2, PlaceTaken
  <2>2. ASSUME NEW edge \in Mine(h, q) PROVE edge \in mine
    <3>1. PICK r \in Rows : edge \in RangeOf(h, r) /\ QueryAt(h, r, edge) = q
      BY <1>1, <1>3, MineRight
    <3>2. edge \in used /\ query(edge, r) = q /\ edge \in Prep!RowStart(h, r)..(Prep!RowStart(h, r + 1) - 1)
      <4>. HIDE DEF query, used
      <4>. QED
        BY <1>5, <1>6, <3>1
    <3>. QED
      BY <1>2, <3>2
  <2>. HIDE DEF mine
  <2>. QED
    BY <2>1, <2>2
<1>. HIDE DEF mine
<1>8. PICK M, n, f : M = Mine(h, q) /\ n = counts[q][h] /\ f = [pos \in M |-> slots[h][pos]]
  OBVIOUS
<1>9. /\ n = Cardinality(M) /\ IsFiniteSet(M) /\ f \in [M -> 0..(Cardinality(M) - 1)]
      /\ \A x, y \in M : f[x] = f[y] => x = y
  BY <1>3, <1>8, AllGiven
<1>10. \A k \in 0..(n - 1) : \E x \in M : f[x] = k
  BY <1>9, Onto
<1>11. {slots[h][edge] : edge \in M} = 0..(n - 1)
  <2>1. \A x \in M : f[x] = slots[h][x] /\ f[x] \in 0..(n - 1)
    BY <1>8, <1>9
  <2>. QED
    BY <1>10, <2>1
<1>12. /\ {slots[h][edge] : edge \in mine} = 0..(counts[q][h] - 1)
       /\ Prep!Cardinality(mine) = counts[q][h]
  BY <1>7, <1>8, <1>9, <1>11, SameNotions
<1>. QED
  BY <1>12 DEF mine

(* The list and the counts are the builder's.                              *)
LEMMA SamePlanAtEnd ==
    ASSUME IndexIInv
    PROVE  SamePlan
<1>1. SplitsDense /\ Prep!SplitsDense
  BY SplitsAtEnd, NumbersAtEnd DEF IndexIInv
<1>2. ASSUME phase = "done"
      PROVE  /\ listed = workCount
             /\ {list[k] : k \in DOMAIN list \cap 0..(listed - 1)} = {items[k] : k \in 0..(workCount - 1)}
             /\ counts = splitCounts
  <2>1. CsrIInv /\ Lent /\ FlatRight /\ NumberedRight /\ stage = "done" /\ ItemsRight /\ SplitsRight
    BY <1>2 DEF IndexIInv, Lent, CsrIInv
  <2>2. \A x \in Heads \X Rows : reserved[x] = ChunksIn(x)
    BY <1>2, <2>1 DEF FlatRight
  <2>3. listed = workCount
    <3>1. Reserved = AllChunks
      BY <2>2 DEF Reserved, AllChunks, Pairs
    <3>. QED
      BY <2>1, <3>1, AllChunksRight DEF FlatRight
  <2>4. RowsEmitted = Heads \X Rows
    BY <2>1 DEF RowsEmitted, Emitted
  <2>5. /\ \A k \in 0..(listed - 1) : \E x \in Heads \X Rows : \E c \in ChunksIn(x) :
              list[k] = ChunkItem(x[1], x[2], c)
        /\ \A x \in Heads \X Rows : \A c \in ChunksIn(x) : \E k \in 0..(listed - 1) :
              list[k] = ChunkItem(x[1], x[2], c)
    BY <2>1, <2>2 DEF FlatRight
  <2>6. /\ \A k \in 0..(listed - 1) : \E x \in Heads \X Rows : \E c \in ChunksIn(x) :
              items[k] = ChunkItem(x[1], x[2], c)
        /\ \A x \in Heads \X Rows : \A c \in ChunksIn(x) : \E k \in 0..(listed - 1) :
              items[k] = ChunkItem(x[1], x[2], c)
    BY <2>1, <2>3, <2>4 DEF ItemsRight, ChunksIn
  <2>7. \A k \in 0..(listed - 1) : k \in DOMAIN list
    BY <2>1, ListedRight DEF FlatRight
  <2>8. ASSUME NEW k \in 0..(listed - 1) PROVE \E l \in 0..(listed - 1) : items[l] = list[k]
    <3>1. PICK x \in Heads \X Rows : \E c \in ChunksIn(x) : list[k] = ChunkItem(x[1], x[2], c)
      BY <2>5
    <3>. QED
      BY <2>6, <3>1
  <2>9. ASSUME NEW l \in 0..(listed - 1) PROVE \E k \in 0..(listed - 1) : list[k] = items[l]
    <3>1. PICK x \in Heads \X Rows : \E c \in ChunksIn(x) : items[l] = ChunkItem(x[1], x[2], c)
      BY <2>6
    <3>. QED
      BY <2>5, <3>1
  <2>10. {list[k] : k \in DOMAIN list \cap 0..(listed - 1)} = {items[k] : k \in 0..(workCount - 1)}
    <3>1. {list[k] : k \in DOMAIN list \cap 0..(listed - 1)} = {list[k] : k \in 0..(listed - 1)}
      BY <2>7
    <3>2. {list[k] : k \in 0..(listed - 1)} = {items[k] : k \in 0..(listed - 1)}
      BY <2>8, <2>9
    <3>. QED
      BY <2>3, <3>1, <3>2
  <2>11. counts = splitCounts
    <3>1. \A q \in Queries, h \in Heads : counts[q][h] = splitCounts[q][h]
      BY <1>2, <2>1, AllGiven, MineRight
    <3>2. /\ counts = [q \in Queries |-> [h \in Heads |-> counts[q][h]]]
          /\ splitCounts = [q \in Queries |-> [h \in Heads |-> splitCounts[q][h]]]
      BY <2>1 DEF NumberedRight, SplitsRight
    <3>3. [q \in Queries |-> [h \in Heads |-> counts[q][h]]] = [q \in Queries |-> [h \in Heads |-> splitCounts[q][h]]]
      BY <3>1
    <3>. QED
      BY <3>2, <3>3
  <2>. QED
    BY <2>3, <2>10, <2>11
<1>. QED
  BY <1>1, <1>2 DEF SamePlan

(* The list and the edges' numbers are right at every moment of the builder *)
(* and of the two kernels that make them again.                            *)
THEOREM IndexInvariance ==
    ASSUME \A p \in Problems : SafeProblem(p) /\ p.q2k # <<>>
    PROVE  IndexSpec => []IndexIInv
<1>1. IndexInit => IndexIInv
  BY IndexInitRight
<1>2. IndexIInv /\ [IndexNext]_indexVars => IndexIInv'
  BY IndexStep
<1>. QED
  BY <1>1, <1>2, PTL DEF IndexSpec

(* The edges of a query have the numbers 0 to n - 1, from the builder and   *)
(* from the atomics of prepare_scheduler.py, and the work list made again   *)
(* has the builder's items and counts, for every batch, selection, number   *)
(* of lanes and threads, and every order of the warps and CTAs.             *)
THEOREM SamePlanRight ==
    ASSUME \A p \in Problems : SafeProblem(p) /\ p.q2k # <<>>
    PROVE  IndexSpec => []SamePlan
<1>1. IndexSpec => []IndexIInv
  BY IndexInvariance
<1>2. IndexIInv => SamePlan
  BY SamePlanAtEnd
<1>. QED
  BY <1>1, <1>2, PTL

-----------------------------------------------------------------------------
(***************************************************************************)
(* Calls of the interface.                                                 *)
(***************************************************************************)
(* A call of one kind is a behaviour of its component, and leaves the other *)
(* component's tensors as they were: what is proved of SparseIndex and of   *)
(* DecodeAttention holds of every call (interface.py).                      *)
THEOREM CallsApart == CallSpec => IndexSpec /\ AttentionSpec
<1>1. CallInit => IndexInit /\ AttentionInit
  BY DEF CallInit
<1>2. [CallNext]_callVars => [IndexNext]_indexVars /\ [AttentionNext]_allVars
  BY DEF CallNext, callVars
<1>. QED
  BY <1>1, <1>2, PTL DEF CallSpec, IndexSpec, AttentionSpec

(* Whatever is called: a finished index is the definition, its work list    *)
(* covers it within the capacity, and a plan made again is the builder's;  *)
(* the list of a decode call holds each piece once, its chunk is the least *)
(* that runs at once, and unless its list is padded each row of the output *)
(* is made, of each page once.                                             *)
THEOREM CallsAreRight ==
    ASSUME \A p \in Problems : SafeProblem(p) /\ p.q2k # <<>>
    PROVE  CallSpec => /\ [](CsrRight /\ ScheduleRight /\ SamePlan)
                       /\ [](WorkListRight /\ ChunkRight)
                       /\ []((Built => out.info.padded = WantedWork) => OutputsWhole)
<1>1. IndexSpec => []IndexIInv
  BY IndexInvariance
<1>2. IndexIInv => CsrRight /\ ScheduleRight /\ SamePlan
  BY CsrAtEnd, ScheduleAtEnd, SamePlanAtEnd DEF IndexIInv
<1>3. AttentionSpec => /\ []WorkListRight /\ []ChunkRight
                       /\ []((Built => out.info.padded = WantedWork) => OutputsWhole)
  BY RequestsAssumption, WorkListIsRight, ChunkIsRight, OutputsAreWhole
<1>. QED
  BY <1>1, <1>2, <1>3, CallsApart, PTL

=============================================================================
