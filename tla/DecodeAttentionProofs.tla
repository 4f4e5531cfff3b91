----------------------- MODULE DecodeAttentionProofs -----------------------
(***************************************************************************)
(* What a decode call does for every batch, grid and interleaving of the   *)
(* warps: the schedule kernel's scan, its choice of a chunk and its work   *)
(* list, and the outputs of the decode and combine kernels.                *)
(***************************************************************************)
EXTENDS DecodeAttention, ReductionLemmas

-----------------------------------------------------------------------------
(***************************************************************************)
(* A call: what is fixed while the kernel runs.                            *)
(***************************************************************************)
Assumed == AttentionAssumption /\ req \in Requests

\* The warp of a thread.
WarpOf(t) == t \div WarpSize

(* The constants and arguments.                                            *)
LEMMA Arguments ==
    ASSUME Assumed
    PROVE  /\ PageSize \in Nat \ {0} /\ QTokens \in Nat \ {0} /\ WarpSize \in Nat \ {0}
           /\ MinWarps \in Nat \ {0} /\ MinChunkPages \in Nat \ {0} /\ CombineMaxSplits \in Nat \ {0}
           /\ TinyPages \in Nat /\ Sms \in Nat \ {0}
           /\ req.maxLen \in Nat \ {0} /\ req.seqlenQ \in Nat \ {0} /\ req.heads \in Nat \ {0}
           /\ req.grid \in Nat \ {0} /\ req.fixed \in Nat
           /\ req.disable \in BOOLEAN /\ req.graph \in BOOLEAN
           /\ Size \in Nat \ {0} /\ QTiles \in Nat \ {0}
           /\ \A b \in Batch : req.seqused[b + 1] \in Nat /\ req.seqused[b + 1] <= req.maxLen
<1>1. /\ DecodeAssumption /\ Sms \in Nat \ {0} /\ req \in Requests
  BY DEF Assumed, AttentionAssumption
<1>2. /\ PageSize \in Nat \ {0} /\ QTokens \in Nat \ {0} /\ WarpSize \in Nat \ {0}
      /\ MinWarps \in Nat \ {0} /\ MinChunkPages \in Nat \ {0} /\ CombineMaxSplits \in Nat \ {0}
      /\ TinyPages \in Nat
  BY <1>1 DEF DecodeAssumption
<1>3. /\ req.seqused \in Seq(Nat) /\ req.seqused # <<>>
      /\ {req.maxLen, req.seqlenQ, req.heads, req.grid} \subseteq Nat \ {0}
      /\ \A b \in DOMAIN req.seqused : req.seqused[b] <= req.maxLen
      /\ req.fixed \in Nat /\ req.disable \in BOOLEAN /\ req.graph \in BOOLEAN
  BY <1>1 DEF DecodeAssumption
<1>4. Len(req.seqused) \in Nat \ {0} /\ DOMAIN req.seqused = 1 .. Len(req.seqused)
  BY <1>3
<1>5. Size \in Nat \ {0}
  BY <1>4 DEF Size
<1>6. ASSUME NEW b \in Batch PROVE req.seqused[b + 1] \in Nat /\ req.seqused[b + 1] <= req.maxLen
  <2>1. b + 1 \in 1 .. Len(req.seqused)
    BY <1>4 DEF Batch, Size
  <2>. QED
    BY <1>3, <1>4, <2>1
<1>7. QTiles \in Nat \ {0}
  <2>1. req.seqlenQ \in Nat \ {0}
    BY <1>3
  <2>. QED
    <3>. DEFINE n == req.seqlenQ
    <3>1. n \in Nat /\ n > 0 /\ QTokens \in Nat \ {0}
      BY <1>2, <2>1
    <3>. HIDE DEF n
    <3>2. CeilDiv(n, QTokens) \in Nat /\ CeilDiv(n, QTokens) > 0
      BY <3>1, CeilDivRight
    <3>. QED
      BY <3>2 DEF QTiles, n
<1>. QED
  BY <1>1, <1>2, <1>3, <1>5, <1>6, <1>7

(* A request has a page at least, and none more than the longest may have. *)
LEMMA PagesRight ==
    ASSUME Assumed
    PROVE  \A b \in Batch : /\ Pages(b) \in Nat \ {0} /\ KvPages(b) \in Nat
                            /\ Pages(b) = Larger(1, KvPages(b))
                            /\ Pages(b) <= Larger(CeilDiv(req.maxLen, PageSize), 1)
<1>1. ASSUME NEW b \in Batch
      PROVE  /\ CeilDiv(req.seqused[b + 1], PageSize) \in Nat
             /\ CeilDiv(req.seqused[b + 1], PageSize) <= CeilDiv(req.maxLen, PageSize)
             /\ CeilDiv(req.maxLen, PageSize) \in Nat
  <2>. DEFINE a == req.seqused[b + 1]  m == req.maxLen
  <2>1. a \in Nat /\ m \in Nat /\ a <= m /\ PageSize \in Nat \ {0}
    BY Arguments
  <2>. HIDE DEF a, m
  <2>2. CeilDiv(m, PageSize) \in Nat /\ m <= CeilDiv(m, PageSize) * PageSize
    BY <2>1, CeilDivRight
  <2>3. a <= CeilDiv(m, PageSize) * PageSize
    BY <2>1, <2>2
  <2>4. CeilDiv(a, PageSize) \in Nat /\ CeilDiv(a, PageSize) <= CeilDiv(m, PageSize)
    BY <2>1, <2>2, <2>3, CeilDivRight
  <2>. QED
    BY <2>2, <2>4 DEF a, m
<1>. QED
  BY <1>1 DEF Pages, KvPages, Larger

(* Every request has a thread, and every thread is of one warp.            *)
LEMMA ThreadsOfWarps ==
    ASSUME Assumed
    PROVE  /\ CtaWarps \in Nat \ {0} /\ 0 \in Warp /\ Tpb \in Nat \ {0} /\ Tpb = CtaWarps * WarpSize
           /\ Size <= Tpb /\ Batch \subseteq Thread
           /\ \A t \in Thread : WarpOf(t) \in Warp /\ t \in ThreadsOf(WarpOf(t))
           /\ \A w \in Warp : \A t \in ThreadsOf(w) : t \in Thread /\ WarpOf(t) = w
<1>. DEFINE m == MinWarps * WarpSize
            K == {k \in 0..Size : m * Doubled[k] >= Size}
<1>1. Size \in Nat \ {0} /\ MinWarps \in Nat \ {0} /\ WarpSize \in Nat \ {0}
  BY Arguments
<1>2. m \in Nat \ {0} /\ m = MinWarps * WarpSize
  BY <1>1
<1>. HIDE DEF m
<1>3. Size \in K
  <2>1. Doubled[Size] \in Nat /\ Doubled[Size] > Size
    BY <1>1, DoubledRight
  <2>2. m * Doubled[Size] >= Doubled[Size]
    BY <1>2, <2>1
  <2>3. m * Doubled[Size] \in Int
    BY <1>2, <2>1
  <2>. QED
    BY <1>1, <2>1, <2>2, <2>3
<1>4. K # {} /\ K \in SUBSET Nat
  BY <1>1, <1>3
<1>5. Doublings = Smallest(K)
  BY DEF Doublings, m
<1>6. Doublings \in K
  <2>. HIDE DEF K
  <2>. QED
    BY <1>4, <1>5, SmallestRight
<1>7. Doublings \in Nat /\ m * Doubled[Doublings] >= Size
  BY <1>6
<1>8. Doubled[Doublings] \in Nat \ {0}
  BY <1>7, DoubledRight
<1>9. CtaWarps \in Nat \ {0}
  BY <1>1, <1>8 DEF CtaWarps
<1>10. Tpb \in Nat \ {0} /\ Tpb = CtaWarps * WarpSize
  BY <1>1, <1>9 DEF Tpb
<1>11. Tpb = m * Doubled[Doublings]
  BY <1>1, <1>2, <1>8 DEF Tpb, CtaWarps
<1>12. Size <= Tpb
  BY <1>1, <1>7, <1>10, <1>11
<1>13. ASSUME NEW t \in Thread PROVE WarpOf(t) \in Warp /\ t \in ThreadsOf(WarpOf(t))
  <2>. DEFINE d == t \div WarpSize
  <2>1. t \in Nat /\ t < CtaWarps * WarpSize
    BY <1>10 DEF Thread
  <2>2. t = d * WarpSize + (t % WarpSize) /\ t % WarpSize \in 0 .. (WarpSize - 1) /\ d \in Nat
    BY <1>1, <2>1, Euclid
  <2>3. d \in 0 .. (CtaWarps - 1)
    BY <1>1, <1>9, <2>1, RowsOf
  <2>4. d * WarpSize \in Int
    BY <1>1, <2>2
  <2>. HIDE DEF d
  <2>5. t \in (d * WarpSize) .. (d * WarpSize + WarpSize - 1)
    BY <1>1, <2>1, <2>2, <2>4
  <2>. QED
    BY <2>3, <2>5 DEF Warp, ThreadsOf, WarpOf, d
<1>14. ASSUME NEW w \in Warp, NEW t \in ThreadsOf(w) PROVE t \in Thread /\ WarpOf(t) = w
  <2>1. w \in Nat /\ w < CtaWarps
    BY <1>9 DEF Warp
  <2>2. w * WarpSize \in Nat /\ w * WarpSize + WarpSize <= CtaWarps * WarpSize
    BY <1>1, <1>9, <2>1, Groups
  <2>3. t \in Nat /\ w * WarpSize <= t /\ t < w * WarpSize + WarpSize
    BY <1>1, <2>2 DEF ThreadsOf
  <2>4. t \div WarpSize = w
    BY <1>1, <2>1, <2>3, QuotientOf
  <2>5. t \in Thread
    <3>1. CtaWarps * WarpSize \in Nat
      BY <1>10
    <3>2. t < CtaWarps * WarpSize
      BY <1>1, <2>2, <2>3, <3>1
    <3>. QED
      BY <1>10, <2>3, <3>2 DEF Thread
  <2>. QED
    BY <2>4, <2>5 DEF WarpOf
<1>. QED
  BY <1>1, <1>9, <1>10, <1>12, <1>13, <1>14 DEF Warp, Thread, Batch

-----------------------------------------------------------------------------
(***************************************************************************)
(* The choice of a chunk.                                                  *)
(***************************************************************************)
IsSearch(f, M) == f = [range \in (1..M) \X (1..M) |->
    LET low == range[1]  high == range[2]  mid == (low + high) \div 2
    IN IF low >= high THEN low
       ELSE IF TooMany(mid) THEN f[<<mid + 1, high>>] ELSE f[<<low, mid>>]]

\* The least chunk from low to high that is high or has room.
Fitting(low, high) == {c \in low..high : c = high \/ ~ TooMany(c)}
LeastFitting(low, high) == Smallest(Fitting(low, high))

(* There is one.                                                           *)
LEMMA LeastFits ==
    ASSUME NEW low \in Nat \ {0}, NEW high \in Nat, low <= high
    PROVE  /\ LeastFitting(low, high) \in Fitting(low, high)
           /\ \A c \in Fitting(low, high) : LeastFitting(low, high) <= c
<1>1. high \in Fitting(low, high) /\ Fitting(low, high) \in SUBSET Nat
  BY DEF Fitting
<1>. QED
  BY <1>1, SmallestRight DEF LeastFitting

(* Half of the range has it, if a chunk smaller than one that leaves too   *)
(* much work does so too.                                                  *)
LEMMA LeastFitsHalf ==
    ASSUME NEW M \in Nat, NEW low \in 1..M, NEW high \in 1..M, NEW mid \in low..(high - 1),
           \A c, d \in 1..M : c <= d /\ TooMany(d) => TooMany(c)
    PROVE  LeastFitting(low, high) =
               IF TooMany(mid) THEN LeastFitting(mid + 1, high) ELSE LeastFitting(low, mid)
<1>. DEFINE x == LeastFitting(low, high)
            y == LeastFitting(mid + 1, high)
            z == LeastFitting(low, mid)
<1>1. x \in Fitting(low, high) /\ \A c \in Fitting(low, high) : x <= c
  BY LeastFits
<1>2. y \in Fitting(mid + 1, high) /\ \A c \in Fitting(mid + 1, high) : y <= c
  BY LeastFits
<1>3. z \in Fitting(low, mid) /\ \A c \in Fitting(low, mid) : z <= c
  BY LeastFits
<1>. HIDE DEF x, y, z
<1>4. ASSUME TooMany(mid) PROVE x = y
  <2>1. y \in Fitting(low, high)
    BY <1>2 DEF Fitting
  <2>2. x \in low..high /\ (x = high \/ ~ TooMany(x))
    BY <1>1 DEF Fitting
  <2>3. ASSUME x <= mid PROVE FALSE
    <3>1. x \in 1..M /\ mid \in 1..M /\ x # high
      BY <2>2, <2>3
    <3>. QED
      BY <1>4, <2>2, <2>3, <3>1
  <2>4. x \in Fitting(mid + 1, high)
    BY <2>2, <2>3 DEF Fitting
  <2>5. y <= x /\ x <= y
    BY <1>1, <1>2, <2>1, <2>4
  <2>. QED
    BY <1>1, <1>2, <2>5 DEF Fitting
<1>5. ASSUME ~ TooMany(mid) PROVE x = z
  <2>1. z \in Fitting(low, high) /\ mid \in Fitting(low, high)
    BY <1>3, <1>5 DEF Fitting
  <2>2. x \in Fitting(low, mid)
    BY <1>1, <2>1 DEF Fitting
  <2>3. z <= x /\ x <= z
    BY <1>1, <1>3, <2>1, <2>2
  <2>. QED
    BY <1>1, <1>3, <2>3 DEF Fitting
<1>. QED
  BY <1>4, <1>5 DEF x, y, z

(* The binary search finds it.                                             *)
LEMMA SearchRight ==
    ASSUME MaxPages \in Nat \ {0},
           \A c, d \in 1..MaxPages : c <= d /\ TooMany(d) => TooMany(c)
    PROVE  \A low, high \in 1..MaxPages : low <= high => Search[<<low, high>>] = LeastFitting(low, high)
<1>. DEFINE M == MaxPages
            f == [range \in (1..M) \X (1..M) |->
                    IF range[1] >= range[2] THEN range[1] ELSE LeastFitting(range[1], range[2])]
<1>0. M \in Nat /\ \A c, d \in 1..M : c <= d /\ TooMany(d) => TooMany(c)
  OBVIOUS
<1>. HIDE DEF M
<1>1. ASSUME NEW low \in 1..M, NEW high \in 1..M, low <= high
      PROVE  f[<<low, high>>] = LeastFitting(low, high)
  <2>1. ASSUME low = high PROVE LeastFitting(low, high) = low
    <3>1. LeastFitting(low, high) \in Fitting(low, high)
      BY <1>0, LeastFits, <2>1
    <3>. QED
      BY <1>0, <2>1, <3>1 DEF Fitting
  <2>. QED
    BY <1>0, <1>1, <2>1
<1>2. ASSUME NEW low \in 1..M, NEW high \in 1..M, NEW mid, mid = (low + high) \div 2
      PROVE  f[<<low, high>>] = IF low >= high THEN low
                                ELSE IF TooMany(mid) THEN f[<<mid + 1, high>>] ELSE f[<<low, mid>>]
  <2>1. CASE low >= high
    BY <2>1
  <2>2. CASE low < high
    <3>1. mid \in low..(high - 1) /\ mid \in 1..M /\ mid + 1 \in 1..M
      BY <1>0, <1>2, <2>2
    <3>2. LeastFitting(low, high) =
            IF TooMany(mid) THEN LeastFitting(mid + 1, high) ELSE LeastFitting(low, mid)
      BY <1>0, <3>1, LeastFitsHalf
    <3>3. /\ f[<<low, high>>] = LeastFitting(low, high)
          /\ f[<<mid + 1, high>>] = LeastFitting(mid + 1, high)
          /\ f[<<low, mid>>] = LeastFitting(low, mid)
      <4>. HIDE DEF f
      <4>. QED
        BY <1>0, <1>1, <2>2, <3>1
    <3>. HIDE DEF f
    <3>. QED
      BY <1>0, <2>2, <3>2, <3>3
  <2>. QED
    BY <1>0, <2>1, <2>2
<1>3. f = [range \in (1..M) \X (1..M) |-> f[range]]
  OBVIOUS
<1>. HIDE DEF f
<1>4. IsSearch(f, M)
  <2>1. ASSUME NEW range \in (1..M) \X (1..M)
        PROVE  f[range] =
                 LET low == range[1]  high == range[2]  mid == (low + high) \div 2
                 IN IF low >= high THEN low
                    ELSE IF TooMany(mid) THEN f[<<mid + 1, high>>] ELSE f[<<low, mid>>]
    <3>1. range[1] \in 1..M /\ range[2] \in 1..M /\ range = <<range[1], range[2]>>
      OBVIOUS
    <3>. QED
      BY <1>2, <3>1
  <2>. QED
    BY <1>3, <2>1 DEF IsSearch
<1>5. Search = CHOOSE g : IsSearch(g, M)
  BY DEF Search, IsSearch, M
<1>6. IsSearch(Search, M)
  BY <1>4, <1>5
<1>7. ASSUME NEW low \in 1..M, NEW high \in 1..M, NEW mid, mid = (low + high) \div 2
      PROVE  Search[<<low, high>>] = IF low >= high THEN low
                ELSE IF TooMany(mid) THEN Search[<<mid + 1, high>>] ELSE Search[<<low, mid>>]
  <2>1. \A g : IsSearch(g, M) =>
            g[<<low, high>>] = IF low >= high THEN low
                ELSE IF TooMany(mid) THEN g[<<mid + 1, high>>] ELSE g[<<low, mid>>]
    <3>. HIDE DEF TooMany
    <3>. QED
      BY <1>7 DEF IsSearch
  <2>. QED
    BY <1>6, <2>1
<1>. DEFINE Wrong(d) == \E low, high \in 1..M :
                  low <= high /\ high - low = d /\ Search[<<low, high>>] # f[<<low, high>>]
            D == {d \in Nat : Wrong(d)}
<1>8. ASSUME D # {} PROVE FALSE
  <2>1. PICK d \in D : \A e \in D : d <= e
    BY <1>8, LeastNat
  <2>2. PICK low \in 1..M, high \in 1..M :
            low <= high /\ high - low = d /\ Search[<<low, high>>] # f[<<low, high>>]
    BY <2>1
  <2>. DEFINE mid == (low + high) \div 2
  <2>. HIDE DEF mid
  <2>8. mid = (low + high) \div 2
    BY DEF mid
  <2>9. Search[<<low, high>>] = IF low >= high THEN low
                ELSE IF TooMany(mid) THEN Search[<<mid + 1, high>>] ELSE Search[<<low, mid>>]
    BY <1>7, <2>8
  <2>12. f[<<low, high>>] = IF low >= high THEN low
                ELSE IF TooMany(mid) THEN f[<<mid + 1, high>>] ELSE f[<<low, mid>>]
    BY <1>2, <2>8
  <2>10. ~ (low >= high)
    BY <2>2, <2>9, <2>12, Zenon
  <2>3. low < high
    BY <1>0, <2>10
  <2>4. mid \in low..(high - 1) /\ mid \in 1..M /\ mid + 1 \in 1..M
    BY <1>0, <2>3, <2>8
  <2>5. high - (mid + 1) \in Nat /\ high - (mid + 1) < d /\ mid - low \in Nat /\ mid - low < d
    BY <1>0, <2>2, <2>4
  <2>6. ~ Wrong(high - (mid + 1)) /\ ~ Wrong(mid - low)
    <3>. HIDE DEF Wrong
    <3>. QED
      BY <1>0, <2>1, <2>2, <2>5
  <2>11. mid + 1 <= high /\ low <= mid
    BY <1>0, <2>4
  <2>7. /\ Search[<<mid + 1, high>>] = f[<<mid + 1, high>>]
        /\ Search[<<low, mid>>] = f[<<low, mid>>]
    BY <2>4, <2>6, <2>11, Zenon
  <2>. QED
    BY <2>2, <2>7, <2>9, <2>10, <2>12, Zenon
<1>9. ASSUME NEW low \in 1..M, NEW high \in 1..M, low <= high PROVE Search[<<low, high>>] = f[<<low, high>>]
  <2>. DEFINE d == high - low
  <2>1. d \in Nat
    BY <1>0, <1>9
  <2>2. ~ Wrong(d)
    <3>. HIDE DEF Wrong
    <3>. QED
      BY <1>8, <2>1
  <2>. QED
    BY <1>9, <2>2, Zenon
<1>. QED
  BY <1>1, <1>9 DEF M

\* The pieces of all requests if they are cut into chunks of a size.
Cut(c) == Total([b \in Batch |-> CeilDiv(Pages(b), c)], Batch)

(* Requests that are cut have a piece at least; larger chunks are no more; *)
(* and a chunk that leaves every request whole is as long as the longest.  *)
LEMMA CutRight ==
    ASSUME Assumed
    PROVE  /\ Longest \in Nat \ {0} /\ \A b \in Batch : Pages(b) <= Longest
           /\ AllPages \in Nat
           /\ \A c \in Nat \ {0} : Cut(c) \in Nat /\ Size <= Cut(c) /\ (Cut(c) = Size => Longest <= c)
           /\ \A c, d \in Nat \ {0} : c <= d => Cut(d) <= Cut(c)
           /\ Cut(Longest) = Size
<1>1. Size \in Nat \ {0} /\ IsFiniteSet(Batch) /\ Cardinality(Batch) = Size
  <2>1. Size \in Nat \ {0}
    BY Arguments
  <2>2. IsFiniteSet(0 .. (Size - 1)) /\ Cardinality(0 .. (Size - 1)) = Size
    BY <2>1, FS_Interval
  <2>. QED
    BY <2>1, <2>2 DEF Batch
<1>2. \A b \in Batch : Pages(b) \in Nat \ {0} /\ Pages(b) <= Larger(CeilDiv(req.maxLen, PageSize), 1)
  BY PagesRight
<1>3. Larger(CeilDiv(req.maxLen, PageSize), 1) \in Nat
  <2>. DEFINE m == req.maxLen
  <2>1. m \in Nat /\ PageSize \in Nat \ {0}
    BY Arguments
  <2>. HIDE DEF m
  <2>2. CeilDiv(m, PageSize) \in Nat
    BY <2>1, CeilDivRight
  <2>. QED
    BY <2>2 DEF Larger, m
<1>4. Longest \in {Pages(b) : b \in Batch} /\ \A y \in {Pages(b) : b \in Batch} : y <= Longest
  <2>. DEFINE P == {Pages(b) : b \in Batch}  m == Larger(CeilDiv(req.maxLen, PageSize), 1)
  <2>1. P \in SUBSET Nat /\ (\A y \in P : y <= m) /\ m \in Nat
    BY <1>2, <1>3
  <2>2. P # {}
    BY <1>1 DEF Batch
  <2>. HIDE DEF P, m
  <2>3. Largest(P) \in P /\ \A y \in P : y <= Largest(P)
    BY <2>1, <2>2, LargestRight
  <2>. QED
    BY <2>3 DEF P, Longest
<1>5. Longest \in Nat \ {0} /\ (\A b \in Batch : Pages(b) <= Longest) /\ \E b \in Batch : Pages(b) = Longest
  BY <1>2, <1>4
<1>6. AllPages \in Nat
  <2>. DEFINE f == [b \in Batch |-> Pages(b)]
  <2>1. (\A b \in Batch : f[b] \in Int /\ f[b] >= 0) /\ \A b \in Batch : f[b] \in Int
    BY <1>2
  <2>. DEFINE z == [b \in Batch |-> 0]
  <2>2. (\A b \in Batch : z[b] = 0) /\ (\A b \in Batch : z[b] \in Int /\ f[b] \in Int) /\ \A b \in Batch : z[b] <= f[b]
    BY <2>1
  <2>. HIDE DEF f, z
  <2>3. Total(z, Batch) = 0 /\ Total(f, Batch) \in Int /\ Total(z, Batch) <= Total(f, Batch)
    BY <1>1, <2>1, <2>2, TotalZero, TotalFirst, TotalMore
  <2>. QED
    BY <2>3 DEF f, AllPages
<1>. DEFINE F(c) == [b \in Batch |-> CeilDiv(Pages(b), c)]
            one == [b \in Batch |-> 1]
<1>7. ASSUME NEW c \in Nat \ {0} PROVE \A b \in Batch : F(c)[b] \in Nat \ {0}
  <2>1. ASSUME NEW b \in Batch PROVE CeilDiv(Pages(b), c) \in Nat \ {0}
    <3>1. Pages(b) \in Nat /\ Pages(b) > 0
      BY <1>2
    <3>2. CeilDiv(Pages(b), c) \in Nat /\ CeilDiv(Pages(b), c) > 0
      BY <3>1, CeilDivRight
    <3>. QED
      BY <3>2
  <2>. QED
    BY <2>1
<1>8. Total(one, Batch) = Size /\ \A b \in Batch : one[b] = 1
  BY <1>1, TotalOnes
<1>. HIDE DEF one
<1>9. ASSUME NEW c \in Nat \ {0} PROVE Cut(c) \in Nat /\ Size <= Cut(c)
  <2>1. \A b \in Batch : one[b] \in Int /\ F(c)[b] \in Int /\ one[b] <= F(c)[b]
    BY <1>7, <1>8
  <2>2. Cut(c) = Total(F(c), Batch)
    BY DEF Cut
  <2>. HIDE DEF F
  <2>3. Total(F(c), Batch) \in Int /\ Total(one, Batch) <= Total(F(c), Batch)
    BY <1>1, <2>1, TotalFirst, TotalMore
  <2>. QED
    BY <1>1, <1>8, <2>2, <2>3
<1>10. ASSUME NEW c \in Nat \ {0}, NEW d \in Nat \ {0}, c <= d PROVE Cut(d) <= Cut(c)
  <2>1. \A b \in Batch : F(c)[b] \in Int /\ F(d)[b] \in Int
    BY <1>7
  <2>2. \A b \in Batch : F(d)[b] <= F(c)[b]
    BY <1>2, <1>10, CeilDivLess
  <2>3. Cut(c) = Total(F(c), Batch) /\ Cut(d) = Total(F(d), Batch)
    BY DEF Cut
  <2>. HIDE DEF F
  <2>4. Total(F(d), Batch) <= Total(F(c), Batch)
    BY <1>1, <2>1, <2>2, TotalMore
  <2>. QED
    BY <2>3, <2>4
<1>11. Cut(Longest) = Size
  <2>1. ASSUME NEW b \in Batch PROVE CeilDiv(Pages(b), Longest) = 1
    <3>1. Pages(b) \in Nat \ {0} /\ Pages(b) <= 1 * Longest /\ Longest \in Nat \ {0}
      BY <1>2, <1>5
    <3>2. CeilDiv(Pages(b), Longest) \in Nat /\ CeilDiv(Pages(b), Longest) > 0
      BY <3>1, CeilDivRight
    <3>3. \A q \in Nat : Pages(b) <= q * Longest => CeilDiv(Pages(b), Longest) <= q
      BY <3>1, CeilDivRight
    <3>4. CeilDiv(Pages(b), Longest) <= 1
      BY <3>1, <3>3
    <3>. QED
      BY <3>2, <3>4
  <2>2. \A b \in Batch : F(Longest)[b] = 1
    BY <2>1
  <2>3. Cut(Longest) = Total(F(Longest), Batch)
    BY DEF Cut
  <2>. HIDE DEF F
  <2>. QED
    BY <1>1, <2>2, <2>3, TotalOnes
<1>12. ASSUME NEW c \in Nat \ {0}, Cut(c) = Size, c < Longest PROVE FALSE
  <2>1. PICK b \in Batch : Pages(b) = Longest
    BY <1>5
  <2>2. F(c)[b] >= 2
    <3>. DEFINE q == CeilDiv(Longest, c)
    <3>1. q \in Nat /\ Longest <= q * c
      BY <1>5, CeilDivRight
    <3>2. q # 0 /\ q # 1
      BY <1>5, <1>12, <3>1
    <3>. QED
      BY <2>1, <3>1, <3>2
  <2>. DEFINE R == Batch \ {b}
  <2>3. \A x \in Batch : one[x] \in Int /\ F(c)[x] \in Int /\ one[x] <= F(c)[x]
    BY <1>7, <1>8
  <2>4. Cut(c) = Total(F(c), Batch) /\ one[b] = 1
    BY <1>8 DEF Cut
  <2>5. IsFiniteSet(R) /\ (\A x \in R : one[x] \in Int /\ F(c)[x] \in Int) /\ \A x \in R : one[x] <= F(c)[x]
    BY <1>1, <2>3, FS_RemoveElement
  <2>. HIDE DEF F
  <2>6. Total(F(c), Batch) = F(c)[b] + Total(F(c), R) /\ Total(one, Batch) = one[b] + Total(one, R)
    BY <1>1, <2>3, TotalRemove
  <2>. HIDE DEF R
  <2>7. Total(one, R) <= Total(F(c), R) /\ Total(one, R) \in Int /\ Total(F(c), R) \in Int
    BY <2>5, TotalMore, TotalFirst
  <2>8. F(c)[b] \in Int
    BY <2>3
  <2>. QED
    BY <1>8, <1>12, <2>2, <2>4, <2>6, <2>7, <2>8
<1>. QED
  <2>1. ASSUME NEW c \in Nat \ {0}, Cut(c) = Size PROVE Longest <= c
    BY <1>5, <1>12, <2>1
  <2>. HIDE DEF F
  <2>. QED
    BY <1>5, <1>6, <1>9, <1>10, <1>11, <2>1

(* The work of the pieces falls as the chunk grows.                        *)
LEMMA WorkRight ==
    ASSUME Assumed
    PROVE  /\ \A c \in Nat \ {0} : Work(c) \in Nat /\ Work(c) = QTiles * Cut(c) * req.heads
           /\ \A c, d \in Nat \ {0} : c <= d => Work(d) <= Work(c)
<1>1. QTiles \in Nat /\ req.heads \in Nat
  BY Arguments
<1>. DEFINE q == QTiles  h == req.heads  k == q * h
<1>2. k \in Nat
  BY <1>1, Product
<1>3. ASSUME NEW c \in Nat \ {0}
      PROVE  Cut(c) \in Nat /\ Work(c) = k * Cut(c) /\ Work(c) = q * Cut(c) * h /\ Work(c) \in Nat
  <2>1. Cut(c) \in Nat
    BY CutRight
  <2>2. Work(c) = k * Cut(c)
    BY DEF Work, Cut
  <2>. HIDE DEF q, h
  <2>3. (q * h) * Cut(c) = (q * Cut(c)) * h /\ k * Cut(c) \in Nat
    BY <1>1, <1>2, <2>1, Product DEF q, h
  <2>. QED
    BY <2>1, <2>2, <2>3
<1>4. ASSUME NEW c \in Nat \ {0}, NEW d \in Nat \ {0}, c <= d PROVE Work(d) <= Work(c)
  <2>1. Cut(d) <= Cut(c) /\ Cut(c) \in Nat /\ Cut(d) \in Nat
    BY <1>4, CutRight
  <2>. HIDE DEF k
  <2>2. k * Cut(d) <= k * Cut(c)
    BY <1>2, <2>1, Product
  <2>. QED
    BY <1>3, <2>2
<1>. QED
  BY <1>3, <1>4

(* What warp 0 chooses from what the warps have reduced is a useful chunk. *)
LEMMA ChoiceRight ==
    ASSUME Assumed, \A b \in Batch : sm.pages[b] = Pages(b), MaxPages = Longest, SumPages = AllPages
    PROVE  /\ Choice.chunk \in Nat \ {0} /\ Choice.split \in BOOLEAN
           /\ Useful(Choice.chunk, Choice.split)
<1>1. /\ MinChunkPages \in Nat \ {0} /\ CombineMaxSplits \in Nat \ {0} /\ TinyPages \in Nat
      /\ req.heads \in Nat \ {0} /\ req.grid \in Nat \ {0} /\ req.fixed \in Nat
      /\ req.disable \in BOOLEAN /\ req.graph \in BOOLEAN
      /\ Size \in Nat \ {0} /\ QTiles \in Nat \ {0}
  BY Arguments
<1>2. /\ Longest \in Nat \ {0} /\ AllPages \in Nat
      /\ \A c \in Nat \ {0} : Cut(c) \in Nat /\ Size <= Cut(c) /\ (Cut(c) = Size => Longest <= c)
      /\ Cut(Longest) = Size
  BY CutRight
<1>3. ASSUME NEW c \in Nat \ {0} PROVE WorkX(c) = QTiles * Cut(c)
  <2>1. [b \in Batch |-> CeilDiv(sm.pages[b], c)] = [b \in Batch |-> CeilDiv(Pages(b), c)]
    OBVIOUS
  <2>. QED
    BY <2>1, Zenon DEF WorkX, Cut
<1>4. ASSUME NEW c \in Nat \ {0} PROVE TooMany(c) <=> Work(c) > req.grid
  BY <1>3, WorkRight DEF TooMany
<1>5. ASSUME NEW c \in Nat \ {0} PROVE WorkX(c) = BaseWork => Longest <= c
  <2>1. WorkX(c) = BaseWork => QTiles * Cut(c) = QTiles * Size
    BY <1>1, <1>3 DEF BaseWork
  <2>2. QTiles * Cut(c) = QTiles * Size => Cut(c) = Size
    <3>. DEFINE q == QTiles  s == Size  t == Cut(c)
    <3>1. q \in Nat /\ q # 0 /\ s \in Nat /\ t \in Nat
      BY <1>1, <1>2
    <3>. HIDE DEF q, s, t
    <3>2. q * t = q * s => t = s
      BY <3>1, Product
    <3>. QED
      BY <3>2 DEF q, s, t
  <2>. QED
    BY <1>2, <2>1, <2>2
<1>6. Choice = Unsplit => /\ Choice.chunk \in Nat \ {0} /\ Choice.split \in BOOLEAN
                          /\ Useful(Choice.chunk, Choice.split)
  BY <1>2 DEF Unsplit, Useful
<1>7. CASE req.disable
  BY <1>6, <1>7 DEF Choice
<1>8. CASE ~ req.disable /\ req.fixed > 0
  <2>1. Choice = [chunk |-> req.fixed, split |-> WorkX(req.fixed) # BaseWork]
    BY <1>8 DEF Choice
  <2>2. Choice.chunk = req.fixed /\ Choice.split = (WorkX(req.fixed) # BaseWork)
    BY <2>1
  <2>3. req.fixed \in Nat \ {0}
    BY <1>1, <1>8
  <2>4. ~ Choice.split => Longest <= req.fixed
    BY <1>5, <2>2, <2>3
  <2>. QED
    BY <1>1, <1>2, <1>8, <2>2, <2>3, <2>4 DEF Useful
<1>9. CASE ~ req.disable /\ ~ (req.fixed > 0) /\ (BaseWork * req.heads >= req.grid \/ MaxPages <= TinyPages)
  BY <1>6, <1>9 DEF Choice
<1>10. CASE ~ req.disable /\ ~ (req.fixed > 0) /\ ~ (BaseWork * req.heads >= req.grid \/ MaxPages <= TinyPages)
  <2>. DEFINE low == Smaller(MinChunkPages, MaxPages)
              s == Search[<<low, MaxPages>>]
              found == Balanced(s)
              cap == CeilDiv(MaxPages, CombineMaxSplits)
              chunk == Larger(found, cap)
  <2>1. Choice = IF req.graph \/ WorkX(chunk) # BaseWork THEN [chunk |-> chunk, split |-> TRUE] ELSE Unsplit
    BY <1>10 DEF Choice
  <2>2. low \in 1..Longest /\ low <= MinChunkPages /\ (low = MinChunkPages \/ low = Longest)
    BY <1>1, <1>2 DEF Smaller
  <2>3. s = LeastFitting(low, Longest)
    <3>1. \A c, d \in 1..MaxPages : c <= d /\ TooMany(d) => TooMany(c)
      <4>1. ASSUME NEW c \in 1..MaxPages, NEW d \in 1..MaxPages, c <= d, TooMany(d) PROVE TooMany(c)
        <5>1. c \in Nat \ {0} /\ d \in Nat \ {0}
          BY <1>2
        <5>2. Work(d) <= Work(c) /\ Work(d) \in Nat /\ Work(c) \in Nat
          BY <4>1, <5>1, WorkRight
        <5>. QED
          BY <1>1, <1>4, <4>1, <5>1, <5>2
      <4>. QED
        BY <4>1
    <3>2. MaxPages \in Nat \ {0} /\ MaxPages \in 1..MaxPages /\ low \in 1..MaxPages /\ low <= MaxPages
      BY <1>2, <2>2
    <3>. HIDE DEF low
    <3>3. s = LeastFitting(low, MaxPages)
      BY <3>1, <3>2, SearchRight
    <3>. QED
      BY <3>3
  <2>4. /\ s \in low..Longest /\ (s = Longest \/ ~ TooMany(s))
        /\ \A c \in low..(s - 1) : TooMany(c)
    <3>. HIDE DEF low, s
    <3>1. s \in Fitting(low, Longest) /\ \A c \in Fitting(low, Longest) : s <= c
      BY <1>2, <2>2, <2>3, LeastFits
    <3>2. ASSUME NEW c \in low..(s - 1), ~ TooMany(c) PROVE FALSE
      <4>1. c \in Fitting(low, Longest) /\ c < s
        BY <1>2, <2>2, <3>1, <3>2 DEF Fitting
      <4>. QED
        BY <1>2, <2>2, <3>1, <4>1 DEF Fitting
    <3>. QED
      BY <3>1, <3>2 DEF Fitting
  <2>5. cap \in Nat /\ 0 < cap /\ cap <= Longest
    <3>1. Longest \in Nat /\ Longest > 0
      BY <1>2
    <3>. QED
      BY <1>1, <3>1, CeilDivRight
  <2>6. /\ found \in low..s
        /\ found = s \/ Uneven
    <3>. DEFINE avg == CeilDiv(SumPages, Size)  balance == Larger(MinChunkPages, avg \div 4)
    <3>1. avg \in Nat /\ avg = CeilDiv(AllPages, Size)
      BY <1>1, <1>2, CeilDivRight
    <3>2. found = IF MaxPages * 2 >= avg * 3 /\ avg >= 4 /\ MaxPages > balance /\ balance < s
                  THEN balance ELSE s
      BY DEF Balanced
    <3>3. balance \in Nat /\ balance >= MinChunkPages
      <4>. HIDE DEF avg
      <4>1. avg \div 4 \in Nat
        BY <3>1
      <4>. QED
        BY <1>1, <4>1 DEF Larger
    <3>4. s \in Nat /\ low \in Nat /\ low <= s /\ low <= MinChunkPages
      BY <1>2, <2>2, <2>4
    <3>5. MaxPages * 2 >= avg * 3 => Uneven
      <4>. HIDE DEF avg
      <4>. QED
        BY <1>2, <3>1 DEF Uneven
    <3>. HIDE DEF avg, balance, s, low, found
    <3>. QED
      BY <1>1, <3>1, <3>2, <3>3, <3>4, <3>5
  <2>7. chunk \in 1..Longest /\ found <= chunk /\ cap <= chunk /\ (chunk = found \/ chunk = cap)
    <3>. HIDE DEF low, s, found, cap
    <3>. QED
      BY <1>2, <2>2, <2>4, <2>5, <2>6 DEF Larger
  <2>8. LeastChunk = Smaller(Longest, Larger(MinChunkPages, cap))
    BY DEF LeastChunk
  <2>. HIDE DEF low, s, found, cap, chunk
  <2>9. LeastChunk \in Nat /\ LeastChunk <= chunk /\ low <= LeastChunk /\ cap <= LeastChunk
    BY <1>1, <1>2, <2>2, <2>4, <2>5, <2>6, <2>7, <2>8 DEF Smaller, Larger
  <2>10. Work(chunk) <= req.grid \/ Uneven
    <3>1. ASSUME found = s PROVE Work(chunk) <= req.grid
      <4>1. s \in Nat \ {0} /\ chunk \in Nat \ {0} /\ s <= chunk
        BY <1>2, <2>2, <2>4, <2>7, <3>1
      <4>2. Work(chunk) <= Work(s) /\ Work(chunk) \in Nat /\ Work(s) \in Nat
        BY <4>1, WorkRight
      <4>3. Work(s) <= req.grid
        <5>1. CASE ~ TooMany(s)
          BY <1>1, <1>4, <4>1, <4>2, <5>1
        <5>2. CASE s = Longest
          <6>1. Work(Longest) = QTiles * Cut(Longest) * req.heads
            BY <1>2, WorkRight
          <6>2. QTiles * Cut(Longest) = BaseWork
            BY <1>1, <1>2 DEF BaseWork
          <6>3. Work(s) = BaseWork * req.heads
            BY <5>2, <6>1, <6>2
          <6>. QED
            BY <1>1, <1>10, <4>2, <6>3
        <5>. QED
          BY <2>4, <5>1, <5>2
      <4>. QED
        BY <1>1, <4>2, <4>3
    <3>. QED
      BY <2>6, <3>1
  <2>11. ASSUME NEW c \in LeastChunk..(chunk - 1) PROVE Work(c) > req.grid
    <3>1. c \in Nat /\ LeastChunk <= c /\ c < chunk
      BY <2>7, <2>9
    <3>2. chunk = found
      BY <2>5, <2>7, <2>9, <3>1
    <3>3. c \in low..(s - 1) /\ c \in Nat \ {0}
      BY <1>2, <2>2, <2>4, <2>6, <2>9, <3>1, <3>2
    <3>. QED
      BY <1>4, <2>4, <3>3
  <2>12. Useful(chunk, TRUE)
    BY <2>7, <2>9, <2>10, <2>11 DEF Useful
  <2>13. CASE req.graph \/ WorkX(chunk) # BaseWork
    <3>1. Choice.chunk = chunk /\ Choice.split = TRUE
      BY <2>1, <2>13
    <3>2. chunk \in Nat \ {0}
      BY <1>2, <2>7
    <3>. QED
      BY <2>12, <3>1, <3>2, Zenon
  <2>14. CASE ~ (req.graph \/ WorkX(chunk) # BaseWork)
    BY <1>6, <2>1, <2>14
  <2>. QED
    BY <2>13, <2>14
<1>. QED
  BY <1>7, <1>8, <1>9, <1>10

-----------------------------------------------------------------------------
(***************************************************************************)
(* The inductive invariant: what each warp has done when it has come to a  *)
(* step.  Warps are never more than a step apart.                          *)
(***************************************************************************)
Function(f, S) == f = [x \in S |-> f[x]]

Shape ==
    /\ warpAt \in [Warp -> 0..(8 + ScanSteps)]
    /\ sm = [pages |-> sm.pages, warpMax |-> sm.warpMax, warpSum |-> sm.warpSum,
             chunk |-> sm.chunk, split |-> sm.split, splits |-> sm.splits, slots |-> sm.slots,
             warpSplits |-> sm.warpSplits, count |-> sm.count]
    /\ Function(sm.pages, Thread) /\ Function(sm.warpMax, Warp) /\ Function(sm.warpSum, Warp)
    /\ Function(sm.splits, Thread) /\ Function(sm.slots, Thread) /\ Function(sm.warpSplits, Warp)
    /\ Function(scanned, Thread)
    /\ out = [list |-> out.list, splits |-> out.splits, oIndptr |-> out.oIndptr,
              merge |-> out.merge, info |-> out.info]
    /\ Function(out.list, 0..(PadWork - 1)) /\ Function(out.splits, Batch)
    /\ Function(out.oIndptr, 0..Size) /\ Function(out.merge, 0..(Size * req.seqlenQ))

StepApart == \A v, w \in Warp : warpAt[v] <= warpAt[w] + 1

CountedRight ==
    \A w \in Warp : warpAt[w] >= 1 =>
        \A t \in ThreadsOf(w) : sm.pages[t] = IF t \in Batch THEN Pages(t) ELSE 0

PagesAt == [b \in Batch |-> Pages(b)]
ReducedRight ==
    \A w \in Warp : warpAt[w] >= 2 =>
        /\ sm.warpMax[w] = Largest({Pages(t) : t \in ThreadsOf(w) \cap Batch} \cup {0})
        /\ sm.warpSum[w] = Total(PagesAt, ThreadsOf(w) \cap Batch)

ChosenRight ==
    warpAt[0] >= 3 => sm.chunk \in Nat \ {0} /\ sm.split \in BOOLEAN /\ Useful(sm.chunk, sm.split)

\* The pieces of a thread's request, and of all before it.
Pieces(t) == IF t \notin Batch THEN 0 ELSE IF sm.split THEN CeilDiv(Pages(t), sm.chunk) ELSE 1
PieceOf == [t \in Thread |-> Pieces(t)]
Prior(n) == Total(PieceOf, 0..(n - 1))

SplitRight ==
    \A w \in Warp : warpAt[w] >= 4 =>
        \A t \in ThreadsOf(w) : /\ sm.splits[t] = Pieces(t)
                                /\ t \in Batch => out.splits[t] = Pieces(t)

\* In a round of the scan a slot has the pieces of as many requests, up to
\* its own, as the offset.
Span(t, off) == QTiles * (Prior(t + 1) - (IF t >= off THEN Prior(t + 1 - off) ELSE 0))
Offset(w) ==
    IF Shuffled THEN Tpb ELSE Doubled[Smaller(warpAt[w] - 4, ScanSteps) \div 2]

ScannedRight ==
    \A w \in Warp : warpAt[w] >= 4 =>
        \A t \in ThreadsOf(w) :
            /\ t \in Batch \/ ~ Shuffled => sm.slots[t] = Span(t, Offset(w))
            /\ warpAt[w] < 4 + ScanSteps /\ warpAt[w] % 2 = 1 =>
                   scanned[t] = IF t >= Offset(w) THEN Span(t - Offset(w), Offset(w)) ELSE 0

WidestRight ==
    \A w \in Warp : warpAt[w] >= 5 + ScanSteps =>
        sm.warpSplits[w] = Largest({Pieces(t) : t \in ThreadsOf(w)})

PointersRight ==
    \A w \in Warp : warpAt[w] >= 6 + ScanSteps =>
        /\ w = 0 => out.oIndptr[0] = 0 /\ out.merge[0] = 0
        /\ \A b \in ThreadsOf(w) \cap Batch :
            /\ out.oIndptr[b + 1] = QTokens * (QTiles * Prior(b + 1))
            /\ \A q \in 0..(req.seqlenQ - 1) :
                out.merge[b * req.seqlenQ + q + 1] = Prior(b) * req.seqlenQ + (q + 1) * Pieces(b)
        /\ Size - 1 \in ThreadsOf(w) => sm.count = QTiles * Prior(Size)

InfoRight ==
    warpAt[0] >= 7 + ScanSteps =>
        /\ out.info.split = sm.split /\ out.info.chunk = sm.chunk
        /\ out.info.padded \in Nat /\ out.info.padded >= QTiles * Prior(Size)
        /\ ~ req.graph => out.info.padded = QTiles * Prior(Size)
        /\ out.info.maxSplits = Largest({Pieces(b) : b \in Batch})
        /\ out.info.rows = QTokens * (QTiles * Prior(Size))

WorkListed ==
    \A w \in Warp : warpAt[w] >= 8 + ScanSteps =>
        \A b \in Batch : \A q \in 0..(QTiles - 1), kv \in 0..(Pieces(b) - 1) :
            LET i == QTiles * Prior(b) + q * Pieces(b) + kv
            IN i % Tpb \in ThreadsOf(w) => out.list[i] = [b |-> b, q |-> q, kv |-> kv, mask |-> 1]

ScheduleIInv ==
    /\ Assumed /\ Shape /\ StepApart /\ CountedRight /\ ReducedRight /\ ChosenRight /\ SplitRight
    /\ ScannedRight /\ WidestRight /\ PointersRight /\ InfoRight /\ WorkListed

-----------------------------------------------------------------------------
(* What depends on the call alone does not change with a step.             *)
LEMMA CallKept ==
    ASSUME req' = req
    PROVE  /\ Size' = Size /\ QTiles' = QTiles /\ CtaWarps' = CtaWarps /\ Tpb' = Tpb
           /\ Batch' = Batch /\ Warp' = Warp /\ Thread' = Thread /\ Shuffled' = Shuffled
           /\ ScanSteps' = ScanSteps /\ PadWork' = PadWork /\ BaseWork' = BaseWork
           /\ \A b : Pages(b)' = Pages(b)
           /\ PagesAt' = PagesAt /\ Longest' = Longest /\ LeastChunk' = LeastChunk
           /\ Assumed' = Assumed
<1>1. Size' = Size /\ QTiles' = QTiles
  BY DEF Size, QTiles
<1>2. Batch' = Batch /\ Shuffled' = Shuffled
  BY <1>1 DEF Batch, Shuffled
<1>3. Doublings' = Doublings
  <2>. DEFINE K == {k \in 0..Size : MinWarps * WarpSize * Doubled[k] >= Size}
  <2>1. K' = K
    BY <1>1
  <2>2. Doublings = Smallest(K)
    BY DEF Doublings
  <2>3. Doublings' = Smallest(K')
    BY DEF Doublings
  <2>. HIDE DEF K
  <2>. QED
    BY <2>1, <2>2, <2>3
<1>4. CtaWarps' = CtaWarps
  BY <1>3 DEF CtaWarps
<1>5. Warp' = Warp /\ Tpb' = Tpb
  BY <1>4 DEF Warp, Tpb
<1>6. Thread' = Thread
  BY <1>5 DEF Thread
<1>7. ScanSteps' = ScanSteps
  <2>. DEFINE K == {k \in Thread : Doubled[k] >= Tpb}
  <2>1. K' = K
    BY <1>5, <1>6
  <2>2. ScanSteps = IF Shuffled THEN 0 ELSE 2 * Smallest(K)
    BY DEF ScanSteps
  <2>3. ScanSteps' = IF Shuffled' THEN 0 ELSE 2 * Smallest(K')
    BY DEF ScanSteps
  <2>. HIDE DEF K
  <2>. QED
    BY <1>2, <2>1, <2>2, <2>3
<1>8. PadWork' = PadWork /\ BaseWork' = BaseWork
  BY <1>1 DEF PadWork, BaseWork
<1>9. \A b : Pages(b)' = Pages(b)
  BY DEF Pages
<1>10. PagesAt' = PagesAt
  <2>1. PagesAt' = [b \in Batch' |-> Pages(b)']
    BY DEF PagesAt
  <2>. QED
    BY <1>2, <1>9, <2>1 DEF PagesAt
<1>11. Longest' = Longest
  <2>. DEFINE P == {Pages(b) : b \in Batch}
  <2>1. P' = P
    BY <1>2, <1>9
  <2>2. Longest = Largest(P) /\ Longest' = Largest(P')
    BY DEF Longest
  <2>. HIDE DEF P
  <2>. QED
    BY <2>1, <2>2
<1>12. LeastChunk' = LeastChunk
  BY <1>11 DEF LeastChunk
<1>13. Assumed' = Assumed
  BY DEF Assumed
<1>. QED
  BY <1>1, <1>2, <1>4, <1>5, <1>6, <1>7, <1>8, <1>9, <1>10, <1>11, <1>12, <1>13

(* And neither does what makes a chunk useful.                             *)
LEMMA MeasuresKept ==
    ASSUME req' = req
    PROVE  Longest' = Longest /\ LeastChunk' = LeastChunk /\ Uneven' = Uneven /\ \A c : Work(c)' = Work(c)
<1>1. /\ Size' = Size /\ QTiles' = QTiles /\ Batch' = Batch /\ Longest' = Longest /\ PagesAt' = PagesAt
      /\ LeastChunk' = LeastChunk /\ \A b : Pages(b)' = Pages(b)
  BY CallKept
<1>2. ASSUME NEW c PROVE Work(c)' = Work(c)
  <2>1. [b \in Batch |-> CeilDiv(Pages(b), c)]' = [b \in Batch |-> CeilDiv(Pages(b), c)]
    BY <1>1
  <2>. DEFINE f == [b \in Batch |-> CeilDiv(Pages(b), c)]
  <2>2. Work(c) = QTiles * req.heads * Total(f, Batch)
    BY DEF Work
  <2>3. Work(c)' = QTiles' * req'.heads * Total(f', Batch')
    BY DEF Work
  <2>4. f' = f
    BY <2>1
  <2>. HIDE DEF f
  <2>. QED
    BY <1>1, <2>2, <2>3, <2>4
<1>3. Uneven' = Uneven
  <2>1. AllPages = Total(PagesAt, Batch)
    BY DEF AllPages, PagesAt
  <2>2. AllPages' = Total(PagesAt', Batch')
    BY DEF AllPages, PagesAt
  <2>3. AllPages' = AllPages
    BY <1>1, <2>1, <2>2
  <2>. QED
    BY <1>1, <2>3 DEF Uneven
<1>. QED
  BY <1>1, <1>2, <1>3

(* A useful chunk stays useful.                                            *)
LEMMA UsefulKept ==
    ASSUME req' = req, sm'.chunk = sm.chunk, sm'.split = sm.split, Useful(sm.chunk, sm.split)
    PROVE  Useful(sm.chunk, sm.split)'
BY MeasuresKept DEF Useful

(* The pieces of a request do not change once the chunk is chosen.         *)
LEMMA PiecesKept ==
    ASSUME req' = req, sm'.chunk = sm.chunk, sm'.split = sm.split
    PROVE  /\ \A t : Pieces(t)' = Pieces(t)
           /\ \A n : Prior(n)' = Prior(n)
           /\ \A t, off : Span(t, off)' = Span(t, off)
<1>1. QTiles' = QTiles /\ Batch' = Batch /\ Thread' = Thread /\ \A b : Pages(b)' = Pages(b)
  BY CallKept
<1>2. \A t : Pieces(t)' = Pieces(t)
  BY <1>1 DEF Pieces
<1>3. PieceOf' = PieceOf
  <2>1. PieceOf' = [t \in Thread' |-> Pieces(t)']
    BY DEF PieceOf
  <2>. QED
    BY <1>1, <1>2, <2>1 DEF PieceOf
<1>4. \A n : Prior(n)' = Prior(n)
  BY <1>3 DEF Prior
<1>5. \A t, off : Span(t, off)' = Span(t, off)
  BY <1>1, <1>4 DEF Span
<1>. QED
  BY <1>2, <1>4, <1>5

ChunkChosen == sm.chunk \in Nat \ {0} /\ sm.split \in BOOLEAN

(* The running sum of the pieces.                                          *)
LEMMA FirstRight ==
    ASSUME Assumed, ChunkChosen
    PROVE  /\ \A t \in Thread : Pieces(t) \in Nat
           /\ \A b \in Batch : Pieces(b) > 0 /\ Pieces(b) <= Pages(b)
           /\ Prior(0) = 0
           /\ \A n \in 0..Tpb : Prior(n) \in Nat
           /\ \A t \in Thread : Prior(t + 1) = Prior(t) + Pieces(t)
           /\ \A b \in Batch : Prior(b) + Pieces(b) <= Prior(Size)
           /\ \A b \in Batch : \A a \in 0..(b - 1) : Prior(a) + Pieces(a) <= Prior(b)
<1>1. /\ Tpb \in Nat \ {0} /\ Batch \subseteq Thread /\ Thread = 0..(Tpb - 1)
      /\ Size \in Nat \ {0} /\ Size <= Tpb /\ Batch = 0..(Size - 1)
  BY Arguments, ThreadsOfWarps DEF Thread, Batch
<1>2. ASSUME NEW b \in Batch PROVE Pieces(b) \in Nat /\ Pieces(b) > 0 /\ Pieces(b) <= Pages(b)
  <2>1. Pages(b) \in Nat /\ Pages(b) > 0
    BY PagesRight
  <2>2. CASE sm.split
    <3>1. sm.chunk \in Nat \ {0}
      BY DEF ChunkChosen
    <3>2. CeilDiv(Pages(b), sm.chunk) \in Nat /\ CeilDiv(Pages(b), sm.chunk) > 0
          /\ CeilDiv(Pages(b), sm.chunk) <= Pages(b)
      BY <2>1, <3>1, CeilDivRight
    <3>. QED
      BY <2>2, <3>2 DEF Pieces
  <2>3. CASE ~ sm.split
    BY <2>1, <2>3 DEF Pieces
  <2>. QED
    BY <2>2, <2>3
<1>3. ASSUME NEW t \in Thread PROVE Pieces(t) \in Nat
  <2>1. t \notin Batch => Pieces(t) = 0
    BY DEF Pieces
  <2>. QED
    BY <1>2, <2>1
<1>4. /\ \A t \in Thread : PieceOf[t] = Pieces(t)
      /\ \A k \in 0..(Tpb - 1) : PieceOf[k] \in Nat
  BY <1>1, <1>3 DEF PieceOf
<1>5. \A b \in 0..Tpb :
          /\ Prior(b) \in Int
          /\ b < Tpb => Prior(b + 1) = Prior(b) + PieceOf[b]
          /\ \A a \in 0..(b - 1) : Prior(a) + PieceOf[a] <= Prior(b)
  <2>1. Tpb \in Nat
    BY <1>1
  <2>2. \A b \in 0 .. Tpb :
              /\ Total(PieceOf, 0 .. (b - 1)) \in Int
              /\ b < Tpb => Total(PieceOf, 0 .. ((b + 1) - 1)) = Total(PieceOf, 0 .. (b - 1)) + PieceOf[b]
              /\ \A a \in 0 .. (b - 1) : Total(PieceOf, 0 .. (a - 1)) + PieceOf[a] <= Total(PieceOf, 0 .. (b - 1))
    BY <1>4, <2>1, Running
  <2>. QED
    BY <2>2 DEF Prior
<1>6. Prior(0) = 0
  <2>1. 0 .. (0 - 1) = {}
    OBVIOUS
  <2>2. IsFiniteSet({}) /\ \A x \in {} : PieceOf[x] \in Int
    BY FS_EmptySet
  <2>3. Total(PieceOf, {}) = 0
    BY <2>2, TotalFirst
  <2>4. Prior(0) = Total(PieceOf, 0 .. (0 - 1))
    BY DEF Prior
  <2>. QED
    BY <2>1, <2>3, <2>4, Zenon
<1>7. ASSUME NEW n \in 0..Tpb PROVE Prior(n) \in Nat
  <2>1. CASE n = 0
    BY <1>6, <2>1
  <2>2. CASE n # 0
    <3>1. 0 \in 0..(n - 1) /\ 0 \in Thread
      BY <1>1, <2>2
    <3>2. Prior(0) + PieceOf[0] <= Prior(n) /\ PieceOf[0] \in Nat /\ Prior(n) \in Int
      BY <1>1, <1>4, <1>5, <3>1
    <3>. QED
      BY <1>6, <3>2
  <2>. QED
    BY <2>1, <2>2
<1>8. ASSUME NEW t \in Thread PROVE Prior(t + 1) = Prior(t) + Pieces(t)
  <2>1. t \in 0..Tpb /\ t < Tpb
    BY <1>1
  <2>2. Prior(t + 1) = Prior(t) + PieceOf[t]
    BY <1>5, <2>1
  <2>. QED
    BY <1>4, <2>2
<1>9. ASSUME NEW n \in 0..Tpb, NEW a \in 0..(n - 1) PROVE Prior(a) + Pieces(a) <= Prior(n)
  <2>1. a \in Thread
    BY <1>1
  <2>. QED
    BY <1>4, <1>5, <2>1
<1>10. \A b \in Batch : Prior(b) + Pieces(b) <= Prior(Size)
  <2>1. Size \in 0..Tpb
    BY <1>1
  <2>. QED
    BY <1>1, <1>9, <2>1
<1>11. \A b \in Batch : \A a \in 0..(b - 1) : Prior(a) + Pieces(a) <= Prior(b)
  <2>1. ASSUME NEW b \in Batch, NEW a \in 0..(b - 1) PROVE Prior(a) + Pieces(a) <= Prior(b)
    <3>1. b \in 0..Tpb
      BY <1>1
    <3>. QED
      BY <1>9, <3>1
  <2>. QED
    BY <2>1
<1>. QED
  BY <1>2, <1>3, <1>6, <1>7, <1>8, <1>10, <1>11

(* The scan has two steps for each doubling until every thread is reached. *)
LEMMA ScanRoundsRight ==
    ASSUME Assumed
    PROVE  /\ ScanSteps \in Nat /\ ScanSteps % 2 = 0
           /\ Shuffled => ScanSteps = 0
           /\ ~ Shuffled => Doubled[ScanSteps \div 2] >= Tpb
<1>1. Tpb \in Nat \ {0} /\ Thread = 0..(Tpb - 1)
  BY ThreadsOfWarps DEF Thread
<1>. DEFINE K == {k \in Thread : Doubled[k] >= Tpb}  r == Smallest(K)
<1>2. ScanSteps = IF Shuffled THEN 0 ELSE 2 * r
  BY DEF ScanSteps
<1>3. r \in K
  <2>1. Tpb - 1 \in Nat /\ Doubled[Tpb - 1] \in Nat /\ Doubled[Tpb - 1] > Tpb - 1
    BY <1>1, DoubledRight, SMTT(30)
  <2>2. K \in SUBSET Nat /\ K # {}
    BY <1>1, <2>1
  <2>. HIDE DEF K
  <2>. QED
    BY <2>2, SmallestRight
<1>4. r \in Nat /\ Doubled[r] >= Tpb
  BY <1>1, <1>3
<1>. HIDE DEF r
<1>5. CASE Shuffled
  BY <1>2, <1>5
<1>6. CASE ~ Shuffled
  <2>1. ScanSteps = 2 * r
    BY <1>2, <1>6
  <2>2. ScanSteps \in Nat /\ ScanSteps % 2 = 0 /\ ScanSteps \div 2 = r
    BY <1>4, <2>1
  <2>. QED
    BY <1>4, <1>6, <2>2
<1>. QED
  BY <1>5, <1>6

(* The offset of a round, and that of a scan that is over.                 *)
LEMMA OffsetRight ==
    ASSUME Assumed, NEW w, warpAt[w] \in 4..(8 + ScanSteps)
    PROVE  /\ Offset(w) \in Nat \ {0}
           /\ warpAt[w] = 4 /\ ~ Shuffled => Offset(w) = 1
           /\ warpAt[w] >= 4 + ScanSteps => Offset(w) >= Tpb
           /\ warpAt[w] < 4 + ScanSteps => ~ Shuffled /\ Offset(w) = Doubled[(warpAt[w] - 4) \div 2]
<1>1. /\ ScanSteps \in Nat /\ (Shuffled => ScanSteps = 0)
      /\ (~ Shuffled => Doubled[ScanSteps \div 2] >= Tpb)
      /\ Tpb \in Nat \ {0} /\ warpAt[w] \in Nat
  BY ScanRoundsRight, ThreadsOfWarps
<1>2. CASE Shuffled
  BY <1>1, <1>2 DEF Offset
<1>3. CASE ~ Shuffled
  <2>. DEFINE r == Smaller(warpAt[w] - 4, ScanSteps) \div 2
  <2>1. r \in Nat /\ (warpAt[w] = 4 => r = 0)
        /\ (warpAt[w] >= 4 + ScanSteps => r = ScanSteps \div 2)
        /\ (warpAt[w] < 4 + ScanSteps => r = (warpAt[w] - 4) \div 2)
    BY <1>1 DEF Smaller
  <2>2. Offset(w) = Doubled[r]
    BY <1>3 DEF Offset
  <2>3. Doubled[r] \in Nat /\ Doubled[r] > r
    BY <2>1, DoubledRight
  <2>. HIDE DEF r
  <2>4. Doubled[r] \in Nat \ {0} /\ Doubled[0] = 1
    BY <2>1, <2>3, DoubledRight
  <2>. QED
    BY <1>1, <1>3, <2>1, <2>2, <2>4
<1>. QED
  BY <1>2, <1>3

-----------------------------------------------------------------------------
(***************************************************************************)
(* Each step keeps the invariant.                                          *)
(***************************************************************************)
\* A warp makes a step of the kernel.
WarpMoves(w) ==
    /\ w \in Warp /\ req' = req /\ Synced(w)
    /\ warpAt[w] < 8 + ScanSteps /\ warpAt' = [warpAt EXCEPT ![w] = @ + 1]

(* The warps stay within a step of each other, and the others where they   *)
(* are.                                                                    *)
LEMMA WarpMovesRight ==
    ASSUME ScheduleIInv, NEW w, WarpMoves(w)
    PROVE  /\ Assumed /\ Assumed' /\ StepApart'
           /\ warpAt' \in [Warp' -> 0..(8 + ScanSteps')]
           /\ ScanSteps \in Nat /\ ScanSteps' = ScanSteps /\ Warp' = Warp /\ 0 \in Warp
           /\ w \in Warp /\ warpAt[w] \in Nat /\ warpAt'[w] = warpAt[w] + 1
           /\ \A v \in Warp : /\ warpAt[v] \in 0..(8 + ScanSteps) /\ warpAt'[v] \in 0..(8 + ScanSteps)
                              /\ warpAt[v] >= warpAt[w] /\ warpAt[v] <= warpAt[w] + 1
                              /\ v # w => warpAt'[v] = warpAt[v]
<1>1. Assumed /\ warpAt \in [Warp -> 0..(8 + ScanSteps)] /\ \A v, u \in Warp : warpAt[v] <= warpAt[u] + 1
  BY DEF ScheduleIInv, Shape, StepApart
<1>2. ScanSteps \in Nat /\ 0 \in Warp
  BY <1>1, ScanRoundsRight, ThreadsOfWarps
<1>3. /\ w \in Warp /\ warpAt[w] < 8 + ScanSteps /\ warpAt' = [warpAt EXCEPT ![w] = @ + 1]
      /\ \A v \in Warp : warpAt[v] >= warpAt[w]
  BY DEF WarpMoves, Synced
<1>4. ScanSteps' = ScanSteps /\ Warp' = Warp /\ Assumed'
  BY <1>1, CallKept DEF WarpMoves
<1>5. warpAt' \in [Warp -> 0..(8 + ScanSteps)] /\ warpAt'[w] = warpAt[w] + 1 /\ \A v \in Warp : v # w => warpAt'[v] = warpAt[v]
  BY <1>1, <1>2, <1>3
<1>6. \A v \in Warp : warpAt[v] \in 0..(8 + ScanSteps) /\ warpAt'[v] \in 0..(8 + ScanSteps)
  BY <1>1, <1>5
<1>7. StepApart'
  <2>1. \A v, u \in Warp : warpAt'[v] <= warpAt'[u] + 1
    BY <1>1, <1>2, <1>3, <1>5, <1>6
  <2>. QED
    BY <1>4, <2>1 DEF StepApart
<1>. QED
  BY <1>1, <1>2, <1>3, <1>4, <1>5, <1>6, <1>7

(* A part of the invariant that is about what a step leaves alone.         *)
LEMMA KeptPart ==
    ASSUME ScheduleIInv, NEW w, WarpMoves(w)
    PROVE  /\ warpAt[w] # 0 /\ sm'.pages = sm.pages => CountedRight'
           /\ warpAt[w] # 1 /\ sm'.warpMax = sm.warpMax /\ sm'.warpSum = sm.warpSum => ReducedRight'
           /\ sm'.chunk = sm.chunk /\ sm'.split = sm.split =>
                /\ ~ (warpAt[w] = 2 /\ w = 0) => ChosenRight'
                /\ warpAt[w] # 3 /\ sm'.splits = sm.splits /\ out'.splits = out.splits => SplitRight'
                /\ ~ (warpAt[w] \in 3..(3 + ScanSteps)) /\ sm'.slots = sm.slots /\ scanned' = scanned => ScannedRight'
                /\ warpAt[w] # 4 + ScanSteps /\ sm'.warpSplits = sm.warpSplits => WidestRight'
                /\ (warpAt[w] # 5 + ScanSteps /\ sm'.count = sm.count
                        /\ out'.oIndptr = out.oIndptr /\ out'.merge = out.merge) => PointersRight'
                /\ ~ (warpAt[w] = 6 + ScanSteps /\ w = 0) /\ out'.info = out.info => InfoRight'
                /\ warpAt[w] # 7 + ScanSteps /\ out'.list = out.list => WorkListed'
           /\ warpAt[w] <= 2 => SplitRight' /\ ScannedRight' /\ WidestRight' /\ PointersRight' /\ InfoRight' /\ WorkListed'
<1>1. /\ Assumed /\ ScanSteps \in Nat /\ ScanSteps' = ScanSteps /\ Warp' = Warp /\ 0 \in Warp
      /\ w \in Warp /\ warpAt[w] \in Nat /\ warpAt'[w] = warpAt[w] + 1
      /\ \A v \in Warp : /\ warpAt[v] \in 0..(8 + ScanSteps) /\ warpAt'[v] \in 0..(8 + ScanSteps)
                         /\ warpAt[v] >= warpAt[w] /\ warpAt[v] <= warpAt[w] + 1
                         /\ v # w => warpAt'[v] = warpAt[v]
  BY WarpMovesRight
<1>2. req' = req
  BY DEF WarpMoves
<1>3. /\ Size' = Size /\ QTiles' = QTiles /\ Tpb' = Tpb /\ Batch' = Batch /\ Shuffled' = Shuffled
      /\ PagesAt' = PagesAt /\ \A b : Pages(b)' = Pages(b)
  BY <1>2, CallKept
<1>4. ASSUME NEW n \in Nat, warpAt[w] + 1 # n, NEW v \in Warp, warpAt'[v] >= n PROVE warpAt[v] >= n
  BY <1>1, <1>4
<1>5. ASSUME warpAt[w] # 0, sm'.pages = sm.pages PROVE CountedRight'
  <2>1. \A v \in Warp : warpAt'[v] >= 1 => warpAt[v] >= 1
    BY <1>1, <1>4, <1>5
  <2>2. CountedRight
    BY DEF ScheduleIInv
  <2>. QED
    BY <1>1, <1>3, <1>5, <2>1, <2>2 DEF CountedRight
<1>6. ASSUME warpAt[w] # 1, sm'.warpMax = sm.warpMax, sm'.warpSum = sm.warpSum PROVE ReducedRight'
  <2>1. \A v \in Warp : warpAt'[v] >= 2 => warpAt[v] >= 2
    BY <1>1, <1>4, <1>6
  <2>2. ReducedRight
    BY DEF ScheduleIInv
  <2>3. ASSUME NEW v \in Warp
        PROVE  {Pages(t) : t \in ThreadsOf(v) \cap Batch}' = {Pages(t) : t \in ThreadsOf(v) \cap Batch}
    BY <1>3
  <2>4. ASSUME NEW v \in Warp, warpAt'[v] >= 2
        PROVE  /\ sm'.warpMax[v] = Largest({Pages(t) : t \in ThreadsOf(v) \cap Batch}' \cup {0})
               /\ sm'.warpSum[v] = Total(PagesAt', ThreadsOf(v) \cap Batch')
    <3>. DEFINE S == {Pages(t) : t \in ThreadsOf(v) \cap Batch}
    <3>1. sm.warpMax[v] = Largest(S \cup {0}) /\ sm.warpSum[v] = Total(PagesAt, ThreadsOf(v) \cap Batch)
      BY <2>1, <2>2, <2>4 DEF ReducedRight
    <3>2. S' = S
      BY <2>3
    <3>. HIDE DEF S
    <3>3. sm'.warpMax[v] = Largest(S' \cup {0}) /\ sm'.warpSum[v] = Total(PagesAt', ThreadsOf(v) \cap Batch')
      BY <1>3, <1>6, <3>1, <3>2
    <3>. QED
      BY <3>3 DEF S
  <2>. QED
    BY <1>1, <2>4 DEF ReducedRight
<1>7. ASSUME sm'.chunk = sm.chunk, sm'.split = sm.split, ~ (warpAt[w] = 2 /\ w = 0) PROVE ChosenRight'
  <2>1. warpAt'[0] >= 3 => warpAt[0] >= 3
    BY <1>1, <1>7
  <2>2. ChosenRight
    BY DEF ScheduleIInv
  <2>3. Useful(sm.chunk, sm.split) => Useful(sm.chunk, sm.split)'
    BY <1>2, <1>7, UsefulKept
  <2>. QED
    BY <1>7, <2>1, <2>2, <2>3 DEF ChosenRight
<1>8. ASSUME sm'.chunk = sm.chunk, sm'.split = sm.split
      PROVE  /\ \A t : Pieces(t)' = Pieces(t)
             /\ \A n : Prior(n)' = Prior(n)
             /\ \A t, off : Span(t, off)' = Span(t, off)
  BY <1>2, <1>8, PiecesKept
<1>9. ASSUME sm'.chunk = sm.chunk, sm'.split = sm.split,
             warpAt[w] # 3, sm'.splits = sm.splits, out'.splits = out.splits PROVE SplitRight'
  <2>1. \A v \in Warp : warpAt'[v] >= 4 => warpAt[v] >= 4
    BY <1>1, <1>4, <1>9
  <2>2. SplitRight
    BY DEF ScheduleIInv
  <2>. QED
    BY <1>1, <1>3, <1>8, <1>9, <2>1, <2>2 DEF SplitRight
<1>10. ASSUME sm'.chunk = sm.chunk, sm'.split = sm.split,
              ~ (warpAt[w] \in 3..(3 + ScanSteps)), sm'.slots = sm.slots, scanned' = scanned PROVE ScannedRight'
  <2>1. ScannedRight
    BY DEF ScheduleIInv
  <2>2. ASSUME NEW v \in Warp, warpAt'[v] >= 4
        PROVE  warpAt[v] >= 4 /\ Offset(v)' = Offset(v) /\ (warpAt'[v] = warpAt[v] \/ warpAt'[v] > 4 + ScanSteps)
    <3>1. warpAt[v] >= 4
      BY <1>1, <1>4, <1>10, <2>2
    <3>2. warpAt'[v] = warpAt[v] \/ (v = w /\ warpAt[w] >= 4 + ScanSteps)
      BY <1>1, <1>10, <3>1
    <3>3. Smaller(warpAt'[v] - 4, ScanSteps) = Smaller(warpAt[v] - 4, ScanSteps)
      BY <1>1, <3>2 DEF Smaller
    <3>4. Offset(v)' = Offset(v)
      BY <1>1, <1>3, <3>3 DEF Offset
    <3>. QED
      BY <1>1, <3>1, <3>2, <3>4
  <2>3. ASSUME NEW v \in Warp, warpAt'[v] >= 4, NEW t \in ThreadsOf(v)
        PROVE  /\ t \in Batch' \/ ~ Shuffled' => sm'.slots[t] = Span(t, Offset(v))'
               /\ warpAt'[v] < 4 + ScanSteps' /\ warpAt'[v] % 2 = 1 =>
                     scanned'[t] = IF t >= Offset(v)' THEN Span(t - Offset(v), Offset(v))' ELSE 0
    <3>1. /\ t \in Batch \/ ~ Shuffled => sm.slots[t] = Span(t, Offset(v))
          /\ warpAt[v] < 4 + ScanSteps /\ warpAt[v] % 2 = 1 =>
                scanned[t] = IF t >= Offset(v) THEN Span(t - Offset(v), Offset(v)) ELSE 0
      BY <2>1, <2>2, <2>3 DEF ScannedRight
    <3>2. /\ Span(t, Offset(v))' = Span(t, Offset(v))
          /\ Span(t - Offset(v), Offset(v))' = Span(t - Offset(v), Offset(v))
      <4>1. Offset(v)' = Offset(v)
        BY <2>2, <2>3
      <4>2. \A n : Prior(n)' = Prior(n)
        BY <1>8, <1>10
      <4>. HIDE DEF Offset
      <4>. QED
        BY <1>3, <4>1, <4>2 DEF Span
    <3>. QED
      BY <1>1, <1>3, <1>10, <2>2, <2>3, <3>1, <3>2
  <2>. QED
    BY <1>1, <2>3 DEF ScannedRight
<1>11. ASSUME sm'.chunk = sm.chunk, sm'.split = sm.split,
              warpAt[w] # 4 + ScanSteps, sm'.warpSplits = sm.warpSplits PROVE WidestRight'
  <2>1. \A v \in Warp : warpAt'[v] >= 5 + ScanSteps => warpAt[v] >= 5 + ScanSteps
    BY <1>1, <1>4, <1>11
  <2>2. WidestRight
    BY DEF ScheduleIInv
  <2>3. ASSUME NEW v \in Warp, warpAt'[v] >= 5 + ScanSteps
        PROVE  sm'.warpSplits[v] = Largest({Pieces(t) : t \in ThreadsOf(v)})'
    <3>. DEFINE S == {Pieces(t) : t \in ThreadsOf(v)}
    <3>1. S' = S
      BY <1>8, <1>11
    <3>2. sm.warpSplits[v] = Largest(S)
      BY <2>1, <2>2, <2>3 DEF WidestRight
    <3>. HIDE DEF S
    <3>3. sm'.warpSplits[v] = Largest(S)'
      BY <1>11, <3>1, <3>2
    <3>. QED
      BY <3>3 DEF S
  <2>. QED
    BY <1>1, <2>3 DEF WidestRight
<1>12. ASSUME sm'.chunk = sm.chunk, sm'.split = sm.split,
              warpAt[w] # 5 + ScanSteps, sm'.count = sm.count,
              out'.oIndptr = out.oIndptr, out'.merge = out.merge PROVE PointersRight'
  <2>1. \A v \in Warp : warpAt'[v] >= 6 + ScanSteps => warpAt[v] >= 6 + ScanSteps
    BY <1>1, <1>4, <1>12
  <2>2. PointersRight
    BY DEF ScheduleIInv
  <2>. QED
    BY <1>1, <1>2, <1>3, <1>8, <1>12, <2>1, <2>2 DEF PointersRight
<1>13. ASSUME sm'.chunk = sm.chunk, sm'.split = sm.split,
              ~ (warpAt[w] = 6 + ScanSteps /\ w = 0), out'.info = out.info PROVE InfoRight'
  <2>1. warpAt'[0] >= 7 + ScanSteps => warpAt[0] >= 7 + ScanSteps
    BY <1>1, <1>13
  <2>2. InfoRight
    BY DEF ScheduleIInv
  <2>. DEFINE S == {Pieces(b) : b \in Batch}
  <2>3. S' = S
    BY <1>3, <1>8, <1>13
  <2>4. warpAt[0] >= 7 + ScanSteps => out.info.maxSplits = Largest(S)
    BY <2>2 DEF InfoRight
  <2>5. warpAt'[0] >= 7 + ScanSteps => out'.info.maxSplits = Largest(S')
    <3>. HIDE DEF S
    <3>. QED
      BY <1>13, <2>1, <2>3, <2>4
  <2>6. Prior(Size)' = Prior(Size)
    BY <1>3, <1>8, <1>13
  <2>. QED
    BY <1>1, <1>2, <1>3, <1>13, <2>1, <2>2, <2>5, <2>6 DEF InfoRight
<1>14. ASSUME sm'.chunk = sm.chunk, sm'.split = sm.split,
              warpAt[w] # 7 + ScanSteps, out'.list = out.list PROVE WorkListed'
  <2>1. \A v \in Warp : warpAt'[v] >= 8 + ScanSteps => warpAt[v] >= 8 + ScanSteps
    BY <1>1, <1>4, <1>14
  <2>2. WorkListed
    BY DEF ScheduleIInv
  <2>. QED
    BY <1>1, <1>3, <1>8, <1>14, <2>1, <2>2 DEF WorkListed
<1>15. ASSUME warpAt[w] <= 2
       PROVE  SplitRight' /\ ScannedRight' /\ WidestRight' /\ PointersRight' /\ InfoRight' /\ WorkListed'
  <2>1. \A v \in Warp' : warpAt'[v] \in Nat /\ warpAt'[v] < 4
    BY <1>1, <1>15
  <2>. QED
    BY <1>1, <2>1 DEF SplitRight, ScannedRight, WidestRight, PointersRight, InfoRight, WorkListed
<1>16. ASSUME sm'.chunk = sm.chunk, sm'.split = sm.split
       PROVE  /\ ~ (warpAt[w] = 2 /\ w = 0) => ChosenRight'
              /\ warpAt[w] # 3 /\ sm'.splits = sm.splits /\ out'.splits = out.splits => SplitRight'
              /\ ~ (warpAt[w] \in 3..(3 + ScanSteps)) /\ sm'.slots = sm.slots /\ scanned' = scanned => ScannedRight'
              /\ warpAt[w] # 4 + ScanSteps /\ sm'.warpSplits = sm.warpSplits => WidestRight'
              /\ (warpAt[w] # 5 + ScanSteps /\ sm'.count = sm.count
                      /\ out'.oIndptr = out.oIndptr /\ out'.merge = out.merge) => PointersRight'
              /\ ~ (warpAt[w] = 6 + ScanSteps /\ w = 0) /\ out'.info = out.info => InfoRight'
              /\ warpAt[w] # 7 + ScanSteps /\ out'.list = out.list => WorkListed'
  <2>1. ~ (warpAt[w] = 2 /\ w = 0) => ChosenRight'
    BY <1>7, <1>16
  <2>2. warpAt[w] # 3 /\ sm'.splits = sm.splits /\ out'.splits = out.splits => SplitRight'
    BY <1>9, <1>16
  <2>3. ~ (warpAt[w] \in 3..(3 + ScanSteps)) /\ sm'.slots = sm.slots /\ scanned' = scanned => ScannedRight'
    BY <1>10, <1>16
  <2>4. warpAt[w] # 4 + ScanSteps /\ sm'.warpSplits = sm.warpSplits => WidestRight'
    BY <1>11, <1>16
  <2>5. (warpAt[w] # 5 + ScanSteps /\ sm'.count = sm.count
           /\ out'.oIndptr = out.oIndptr /\ out'.merge = out.merge) => PointersRight'
    BY <1>12, <1>16
  <2>6. ~ (warpAt[w] = 6 + ScanSteps /\ w = 0) /\ out'.info = out.info => InfoRight'
    BY <1>13, <1>16
  <2>7. warpAt[w] # 7 + ScanSteps /\ out'.list = out.list => WorkListed'
    BY <1>14, <1>16
  <2>. QED
    BY <2>1, <2>2, <2>3, <2>4, <2>5, <2>6, <2>7
<1>. QED
  BY <1>5, <1>6, <1>15, <1>16

(* A thread writes its own number of pages.                                *)
LEMMA StepCountPages == ASSUME ScheduleIInv, NEW w \in Warp, CountPages(w) PROVE ScheduleIInv'
<1>1. /\ warpAt[w] = 0 /\ Synced(w) /\ warpAt' = [warpAt EXCEPT ![w] = @ + 1] /\ req' = req
      /\ sm' = [sm EXCEPT !.pages = [t \in Thread |->
                  IF t \in ThreadsOf(w) THEN IF t \in Batch THEN Pages(t) ELSE 0 ELSE sm.pages[t]]]
      /\ scanned' = scanned /\ out' = out
  BY DEF CountPages, WarpDoes
<1>2. Shape /\ Assumed /\ CountedRight
  BY DEF ScheduleIInv
<1>3. ScanSteps \in Nat
  BY <1>2, ScanRoundsRight
<1>4. WarpMoves(w)
  BY <1>1, <1>3 DEF WarpMoves
<1>5. /\ Assumed' /\ StepApart' /\ warpAt' \in [Warp' -> 0..(8 + ScanSteps')]
      /\ \A v \in Warp : v # w => warpAt'[v] = warpAt[v]
  BY <1>4, WarpMovesRight
<1>6. /\ Size' = Size /\ Batch' = Batch /\ Warp' = Warp /\ Thread' = Thread /\ PadWork' = PadWork
      /\ \A b : Pages(b)' = Pages(b)
  BY <1>1, CallKept
<1>7. /\ sm'.pages = [t \in Thread |->
             IF t \in ThreadsOf(w) THEN IF t \in Batch THEN Pages(t) ELSE 0 ELSE sm.pages[t]]
      /\ sm'.warpMax = sm.warpMax /\ sm'.warpSum = sm.warpSum /\ sm'.chunk = sm.chunk
      /\ sm'.split = sm.split /\ sm'.splits = sm.splits /\ sm'.slots = sm.slots
      /\ sm'.warpSplits = sm.warpSplits /\ sm'.count = sm.count
      /\ sm' = [pages |-> sm'.pages, warpMax |-> sm'.warpMax, warpSum |-> sm'.warpSum,
                chunk |-> sm'.chunk, split |-> sm'.split, splits |-> sm'.splits, slots |-> sm'.slots,
                warpSplits |-> sm'.warpSplits, count |-> sm'.count]
  BY <1>1, <1>2 DEF Shape
<1>8. Shape'
  BY <1>1, <1>2, <1>5, <1>6, <1>7 DEF Shape, Function
<1>9. CountedRight'
  <2>1. ASSUME NEW v \in Warp, warpAt'[v] >= 1, NEW t \in ThreadsOf(v)
        PROVE  sm'.pages[t] = IF t \in Batch THEN Pages(t) ELSE 0
    <3>1. t \in Thread /\ (v # w => t \notin ThreadsOf(w))
      BY <1>2, <2>1, ThreadsOfWarps
    <3>2. v # w => sm.pages[t] = IF t \in Batch THEN Pages(t) ELSE 0
      BY <1>2, <1>5, <2>1 DEF CountedRight
    <3>. QED
      BY <1>7, <2>1, <3>1, <3>2
  <2>. QED
    BY <1>6, <2>1 DEF CountedRight
<1>10. /\ ReducedRight' /\ ChosenRight' /\ SplitRight' /\ ScannedRight' /\ WidestRight'
       /\ PointersRight' /\ InfoRight' /\ WorkListed'
  BY <1>1, <1>4, <1>7, KeptPart
<1>. QED
  BY <1>5, <1>8, <1>9, <1>10 DEF ScheduleIInv

(* A warp's reduction of the pages of its requests.                        *)
LEMMA StepReducePages == ASSUME ScheduleIInv, NEW w \in Warp, ReducePages(w) PROVE ScheduleIInv'
<1>1. /\ warpAt[w] = 1 /\ Synced(w) /\ warpAt' = [warpAt EXCEPT ![w] = @ + 1] /\ req' = req
      /\ sm' = [sm EXCEPT !.warpMax[w] = Largest(PagesOf(w) \cup {0}),
                          !.warpSum[w] = Total(sm.pages, ThreadsOf(w) \cap Batch)]
      /\ scanned' = scanned /\ out' = out
  BY DEF ReducePages, WarpDoes
<1>2. Shape /\ Assumed /\ CountedRight /\ ReducedRight
  BY DEF ScheduleIInv
<1>3. ScanSteps \in Nat
  BY <1>2, ScanRoundsRight
<1>4. WarpMoves(w)
  BY <1>1, <1>3 DEF WarpMoves
<1>5. /\ Assumed' /\ StepApart' /\ warpAt' \in [Warp' -> 0..(8 + ScanSteps')]
      /\ \A v \in Warp : v # w => warpAt'[v] = warpAt[v]
  BY <1>4, WarpMovesRight
<1>6. /\ Size' = Size /\ Batch' = Batch /\ Warp' = Warp /\ Thread' = Thread /\ PadWork' = PadWork
      /\ PagesAt' = PagesAt /\ \A b : Pages(b)' = Pages(b)
  BY <1>1, CallKept
<1>7. /\ sm'.pages = sm.pages
      /\ sm'.warpMax = [sm.warpMax EXCEPT ![w] = Largest(PagesOf(w) \cup {0})]
      /\ sm'.warpSum = [sm.warpSum EXCEPT ![w] = Total(sm.pages, ThreadsOf(w) \cap Batch)]
      /\ sm'.chunk = sm.chunk /\ sm'.split = sm.split /\ sm'.splits = sm.splits /\ sm'.slots = sm.slots
      /\ sm'.warpSplits = sm.warpSplits /\ sm'.count = sm.count
      /\ sm' = [pages |-> sm'.pages, warpMax |-> sm'.warpMax, warpSum |-> sm'.warpSum,
                chunk |-> sm'.chunk, split |-> sm'.split, splits |-> sm'.splits, slots |-> sm'.slots,
                warpSplits |-> sm'.warpSplits, count |-> sm'.count]
  BY <1>1, <1>2 DEF Shape
<1>8. Shape'
  BY <1>1, <1>2, <1>5, <1>6, <1>7, ZenonT(30) DEF Shape, Function
<1>9. ASSUME NEW t \in ThreadsOf(w) \cap Batch PROVE sm.pages[t] = Pages(t)
  BY <1>1, <1>2 DEF CountedRight
<1>10. PagesOf(w) = {Pages(t) : t \in ThreadsOf(w) \cap Batch}
  BY <1>9 DEF PagesOf
<1>11. Total(sm.pages, ThreadsOf(w) \cap Batch) = Total(PagesAt, ThreadsOf(w) \cap Batch)
  <2>. DEFINE S == ThreadsOf(w) \cap Batch
  <2>1. \A t \in S : sm.pages[t] \in Int /\ PagesAt[t] \in Int
    BY <1>2, <1>9, PagesRight DEF PagesAt
  <2>2. \A t \in S : sm.pages[t] = PagesAt[t]
    BY <1>9 DEF PagesAt
  <2>3. IsFiniteSet(S)
    <3>1. IsFiniteSet(0 .. (Size - 1))
      BY <1>2, Arguments, FS_Interval
    <3>2. S \subseteq 0 .. (Size - 1)
      BY DEF Batch
    <3>. QED
      BY <3>1, <3>2, FS_Subset
  <2>. HIDE DEF S
  <2>. QED
    BY <2>1, <2>2, <2>3, TotalSame DEF S
<1>12. ReducedRight'
  <2>1. ASSUME NEW v \in Warp, warpAt'[v] >= 2
        PROVE  /\ sm'.warpMax[v] = Largest({Pages(t) : t \in ThreadsOf(v) \cap Batch} \cup {0})
               /\ sm'.warpSum[v] = Total(PagesAt, ThreadsOf(v) \cap Batch)
    <3>1. CASE v = w
      <4>1. DOMAIN sm.warpMax = Warp /\ DOMAIN sm.warpSum = Warp
        BY <1>2 DEF Shape, Function
      <4>2. /\ sm'.warpMax[w] = Largest(PagesOf(w) \cup {0})
            /\ sm'.warpSum[w] = Total(sm.pages, ThreadsOf(w) \cap Batch)
        BY <1>7, <4>1
      <4>. QED
        BY <1>10, <1>11, <3>1, <4>2, Zenon
    <3>2. CASE v # w
      <4>1. sm'.warpMax[v] = sm.warpMax[v] /\ sm'.warpSum[v] = sm.warpSum[v] /\ warpAt[v] >= 2
        BY <1>2, <1>5, <1>7, <2>1, <3>2 DEF Shape, Function
      <4>. QED
        BY <1>2, <4>1, Zenon DEF ReducedRight
    <3>. QED
      BY <3>1, <3>2
  <2>2. \A v \in Warp : {Pages(t) : t \in ThreadsOf(v) \cap Batch}' = {Pages(t) : t \in ThreadsOf(v) \cap Batch}
    BY <1>6
  <2>3. ASSUME NEW v \in Warp', warpAt'[v] >= 2
        PROVE  /\ sm'.warpMax[v] = Largest({Pages(t) : t \in ThreadsOf(v) \cap Batch}' \cup {0})
               /\ sm'.warpSum[v] = Total(PagesAt', ThreadsOf(v) \cap Batch')
    <3>. DEFINE S == {Pages(t) : t \in ThreadsOf(v) \cap Batch}
    <3>1. v \in Warp
      BY <1>6
    <3>2. sm'.warpMax[v] = Largest(S \cup {0}) /\ sm'.warpSum[v] = Total(PagesAt, ThreadsOf(v) \cap Batch)
      BY <2>1, <2>3, <3>1
    <3>3. S' = S
      BY <2>2, <3>1
    <3>. HIDE DEF S
    <3>4. sm'.warpMax[v] = Largest(S' \cup {0}) /\ sm'.warpSum[v] = Total(PagesAt', ThreadsOf(v) \cap Batch')
      BY <1>6, <3>2, <3>3
    <3>. QED
      BY <3>4 DEF S
  <2>. QED
    BY <2>3 DEF ReducedRight
<1>13. CountedRight' /\ ChosenRight' /\ SplitRight' /\ ScannedRight' /\ WidestRight'
       /\ PointersRight' /\ InfoRight' /\ WorkListed'
  BY <1>1, <1>4, <1>7, KeptPart
<1>. QED
  BY <1>5, <1>8, <1>12, <1>13 DEF ScheduleIInv

(* When every warp has reduced its requests, the values together are those *)
(* of the whole batch.                                                     *)
LEMMA Reduced ==
    ASSUME Assumed, Shape, CountedRight, ReducedRight, \A v \in Warp : warpAt[v] >= 2
    PROVE  /\ \A b \in Batch : sm.pages[b] = Pages(b)
           /\ MaxPages = Longest /\ SumPages = AllPages
<1>1. /\ CtaWarps \in Nat \ {0} /\ Warp = 0..(CtaWarps - 1) /\ Tpb = CtaWarps * WarpSize
      /\ Batch \subseteq Thread /\ WarpSize \in Nat \ {0} /\ Tpb \in Nat
      /\ \A t \in Thread : WarpOf(t) \in Warp /\ t \in ThreadsOf(WarpOf(t))
      /\ Size \in Nat \ {0} /\ Batch = 0..(Size - 1) /\ Size <= Tpb
  BY ThreadsOfWarps, Arguments DEF Warp, Batch
<1>2. \A b \in Batch : sm.pages[b] = Pages(b)
  <2>1. ASSUME NEW b \in Batch PROVE sm.pages[b] = Pages(b)
    <3>1. WarpOf(b) \in Warp /\ b \in ThreadsOf(WarpOf(b)) /\ warpAt[WarpOf(b)] >= 2 /\ warpAt[WarpOf(b)] \in Nat
      BY <1>1, ScanRoundsRight DEF Shape
    <3>. QED
      BY <3>1 DEF CountedRight
  <2>. QED
    BY <2>1
<1>3. \A b \in Batch : Pages(b) \in Nat
  BY PagesRight
<1>4. Longest \in Nat /\ (\A b \in Batch : Pages(b) <= Longest) /\ \E b \in Batch : Pages(b) = Longest
  <2>. DEFINE P == {Pages(b) : b \in Batch}
  <2>1. Longest \in Nat /\ \A b \in Batch : Pages(b) <= Longest
    BY CutRight
  <2>4. 0 \in Batch
    BY <1>1
  <2>2. P \in SUBSET Nat /\ P # {} /\ \A y \in P : y <= Longest
    BY <1>3, <2>1, <2>4
  <2>. HIDE DEF P
  <2>3. Largest(P) \in P
    BY <2>1, <2>2, LargestRight
  <2>. QED
    BY <2>1, <2>3 DEF P, Longest
<1>5. ASSUME NEW v \in Warp
      PROVE  /\ sm.warpMax[v] \in Nat /\ sm.warpMax[v] <= Longest
             /\ \A b \in ThreadsOf(v) \cap Batch : Pages(b) <= sm.warpMax[v]
  <2>. DEFINE S == {Pages(t) : t \in ThreadsOf(v) \cap Batch} \cup {0}
  <2>1. sm.warpMax[v] = Largest(S)
    BY DEF ReducedRight
  <2>2. S \in SUBSET Nat /\ S # {} /\ \A y \in S : y <= Longest
    BY <1>3, <1>4
  <2>3. \A b \in ThreadsOf(v) \cap Batch : Pages(b) \in S
    OBVIOUS
  <2>. HIDE DEF S
  <2>4. Largest(S) \in S /\ \A y \in S : y <= Largest(S)
    BY <1>4, <2>2, LargestRight
  <2>. QED
    BY <2>1, <2>2, <2>3, <2>4
<1>6. MaxPages = Longest
  <2>. DEFINE M == {sm.warpMax[v] : v \in Warp}
  <2>1. Longest \in M
    <3>1. PICK b \in Batch : Pages(b) = Longest
      BY <1>4
    <3>2. WarpOf(b) \in Warp /\ b \in ThreadsOf(WarpOf(b))
      BY <1>1
    <3>3. sm.warpMax[WarpOf(b)] = Longest
      BY <1>4, <1>5, <3>1, <3>2
    <3>. QED
      BY <3>2, <3>3
  <2>2. M \in SUBSET Nat /\ \A y \in M : y <= Longest
    BY <1>5
  <2>3. MaxPages = Largest(M)
    BY DEF MaxPages
  <2>. HIDE DEF M
  <2>. QED
    BY <2>1, <2>2, <2>3, LargestIs
<1>. DEFINE To(k) == {t \in Batch : t < k * WarpSize}
            U == {k \in Nat : k <= CtaWarps => Total(sm.warpSum, 0..(k - 1)) = Total(PagesAt, To(k))}
<1>7. ASSUME NEW S \in SUBSET Batch
      PROVE  IsFiniteSet(S) /\ (\A t \in S : PagesAt[t] \in Int) /\ Total(PagesAt, S) \in Int
  <2>1. IsFiniteSet(0 .. (Size - 1))
    BY <1>1, FS_Interval
  <2>3. IsFiniteSet(S)
    <3>1. S \in SUBSET (0 .. (Size - 1))
      BY DEF Batch
    <3>. QED
      BY <2>1, <3>1, FS_Subset
  <2>2. IsFiniteSet(S) /\ \A t \in S : PagesAt[t] \in Int
    BY <1>3, <2>3 DEF PagesAt
  <2>. QED
    BY <2>2, TotalFirst
<1>8. ASSUME NEW v \in Warp
      PROVE  sm.warpSum[v] = Total(PagesAt, ThreadsOf(v) \cap Batch) /\ sm.warpSum[v] \in Int
  <2>1. sm.warpSum[v] = Total(PagesAt, ThreadsOf(v) \cap Batch)
    BY DEF ReducedRight
  <2>2. ThreadsOf(v) \cap Batch \in SUBSET Batch
    OBVIOUS
  <2>. QED
    BY <1>7, <2>1, <2>2
<1>9. 0 \in U
  <2>1. 0 .. (0 - 1) = {} /\ To(0) = {}
    BY <1>1
  <2>2. ASSUME NEW f PROVE Total(f, {}) = 0
    BY FS_EmptySet, TotalZero
  <2>3. Total(sm.warpSum, 0 .. (0 - 1)) = 0 /\ Total(PagesAt, To(0)) = 0
    <3>. HIDE DEF To
    <3>. QED
      BY <2>1, <2>2, Zenon
  <2>. QED
    BY <2>3
<1>10. ASSUME NEW k \in U PROVE k + 1 \in U
  <2>1. SUFFICES ASSUME k + 1 <= CtaWarps
                 PROVE  Total(sm.warpSum, 0..((k + 1) - 1)) = Total(PagesAt, To(k + 1))
    OBVIOUS
  <2>2. k \in Nat /\ k \in Warp /\ Total(sm.warpSum, 0..(k - 1)) = Total(PagesAt, To(k))
    BY <1>1, <2>1
  <2>. DEFINE A == 0..(k - 1)  B == To(k)  C == ThreadsOf(k) \cap Batch
  <2>3. 0..((k + 1) - 1) = A \cup {k} /\ k \notin A
    BY <2>2
  <2>4. IsFiniteSet(A) /\ (\A v \in A : sm.warpSum[v] \in Int) /\ sm.warpSum[k] \in Int
    <3>1. IsFiniteSet(A)
      BY <2>2, FS_Interval
    <3>2. A \subseteq Warp
      BY <1>1, <2>2
    <3>. QED
      BY <1>8, <2>2, <3>1, <3>2
  <2>5. Total(sm.warpSum, A \cup {k}) = Total(sm.warpSum, A) + sm.warpSum[k]
    <3>. HIDE DEF A
    <3>. QED
      BY <2>3, <2>4, TotalAdd
  <2>6. To(k + 1) = B \cup C /\ B \cap C = {} /\ B \in SUBSET Batch /\ C \in SUBSET Batch
    <3>1. k * WarpSize \in Nat /\ (k + 1) * WarpSize = k * WarpSize + WarpSize
      BY <1>1, <2>2
    <3>2. \A t \in Batch : t < (k + 1) * WarpSize <=> (t < k * WarpSize \/ t \in ThreadsOf(k))
      <4>. DEFINE m == k * WarpSize
      <4>1. m \in Nat /\ (k + 1) * WarpSize = m + WarpSize
        BY <3>1
      <4>2. ThreadsOf(k) = m .. (m + WarpSize - 1)
        BY DEF ThreadsOf
      <4>. HIDE DEF m
      <4>3. \A t \in Batch : t < m + WarpSize <=> (t < m \/ t \in ThreadsOf(k))
        BY <1>1, <4>1, <4>2
      <4>. QED
        BY <4>1, <4>3 DEF m
    <3>3. \A t \in Batch : t < k * WarpSize => t \notin ThreadsOf(k)
      BY <1>1, <3>1 DEF ThreadsOf
    <3>. QED
      BY <3>2, <3>3
  <2>7. Total(PagesAt, B \cup C) = Total(PagesAt, B) + Total(PagesAt, C)
    <3>1. IsFiniteSet(B) /\ IsFiniteSet(C) /\ \A t \in B \cup C : PagesAt[t] \in Int
      BY <1>7, <2>6
    <3>2. B \cap C = {}
      BY <2>6
    <3>. HIDE DEF B, C
    <3>. QED
      BY <3>1, <3>2, TotalUnion
  <2>8. sm.warpSum[k] = Total(PagesAt, C)
    BY <1>8, <2>2
  <2>9. Total(sm.warpSum, 0..((k + 1) - 1)) = Total(sm.warpSum, A \cup {k})
        /\ Total(PagesAt, To(k + 1)) = Total(PagesAt, B \cup C)
    BY <2>3, <2>6, Zenon
  <2>10. Total(sm.warpSum, A) = Total(PagesAt, B)
    BY <2>2
  <2>. HIDE DEF A, B, C, To
  <2>. QED
    BY <2>5, <2>7, <2>8, <2>9, <2>10, Zenon
<1>11. U = Nat
  <2>. HIDE DEF U
  <2>1. U \in SUBSET Nat
    BY DEF U
  <2>. QED
    BY <1>9, <1>10, <2>1, NatSet
<1>12. SumPages = AllPages
  <2>1. Total(sm.warpSum, 0..(CtaWarps - 1)) = Total(PagesAt, To(CtaWarps))
    <3>1. CtaWarps \in U
      BY <1>1, <1>11
    <3>. QED
      BY <1>1, <3>1
  <2>2. To(CtaWarps) = Batch
    <3>1. \A t \in Batch : t < Tpb
      BY <1>1
    <3>. QED
      BY <1>1, <3>1
  <2>3. SumPages = Total(sm.warpSum, Warp) /\ AllPages = Total(PagesAt, Batch)
    BY DEF SumPages, AllPages, PagesAt
  <2>. HIDE DEF To
  <2>. QED
    BY <1>1, <2>1, <2>2, <2>3, Zenon
<1>. QED
  BY <1>2, <1>6, <1>12

(* Warp 0 chooses.                                                         *)
LEMMA StepDecide == ASSUME ScheduleIInv, NEW w \in Warp, Decide(w) PROVE ScheduleIInv'
<1>1. /\ warpAt[w] = 2 /\ Synced(w) /\ warpAt' = [warpAt EXCEPT ![w] = @ + 1] /\ req' = req
      /\ sm' = IF w = 0 THEN [sm EXCEPT !.chunk = Choice.chunk, !.split = Choice.split] ELSE sm
      /\ scanned' = scanned /\ out' = out
  BY DEF Decide, WarpDoes
<1>2. Shape /\ Assumed /\ CountedRight /\ ReducedRight /\ ChosenRight
  BY DEF ScheduleIInv
<1>3. ScanSteps \in Nat
  BY <1>2, ScanRoundsRight
<1>4. WarpMoves(w)
  BY <1>1, <1>3 DEF WarpMoves
<1>5. /\ Assumed' /\ StepApart' /\ warpAt' \in [Warp' -> 0..(8 + ScanSteps')] /\ 0 \in Warp
      /\ \A v \in Warp : warpAt[v] >= 2 /\ (v # w => warpAt'[v] = warpAt[v])
  BY <1>1, <1>4, WarpMovesRight
<1>6. /\ Size' = Size /\ Batch' = Batch /\ Warp' = Warp /\ Thread' = Thread /\ PadWork' = PadWork
  BY <1>1, CallKept
<1>7. /\ sm'.pages = sm.pages /\ sm'.warpMax = sm.warpMax /\ sm'.warpSum = sm.warpSum
      /\ sm'.splits = sm.splits /\ sm'.slots = sm.slots
      /\ sm'.warpSplits = sm.warpSplits /\ sm'.count = sm.count
      /\ (w = 0 => sm'.chunk = Choice.chunk /\ sm'.split = Choice.split)
      /\ (w # 0 => sm'.chunk = sm.chunk /\ sm'.split = sm.split)
      /\ sm' = [pages |-> sm'.pages, warpMax |-> sm'.warpMax, warpSum |-> sm'.warpSum,
                chunk |-> sm'.chunk, split |-> sm'.split, splits |-> sm'.splits, slots |-> sm'.slots,
                warpSplits |-> sm'.warpSplits, count |-> sm'.count]
  BY <1>1, <1>2 DEF Shape
<1>8. Shape'
  BY <1>1, <1>2, <1>5, <1>6, <1>7 DEF Shape, Function
<1>9. ChosenRight'
  <2>1. CASE w # 0
    BY <1>1, <1>4, <1>7, <2>1, KeptPart
  <2>2. CASE w = 0
    <3>1. Choice.chunk \in Nat \ {0} /\ Choice.split \in BOOLEAN /\ Useful(Choice.chunk, Choice.split)
      BY <1>2, <1>5, Reduced, ChoiceRight
    <3>2. Useful(sm.chunk, sm.split)'
      BY <1>1, <1>7, <2>2, <3>1, MeasuresKept DEF Useful
    <3>. QED
      BY <1>7, <2>2, <3>1, <3>2 DEF ChosenRight
  <2>. QED
    BY <2>1, <2>2
<1>10. CountedRight' /\ ReducedRight' /\ SplitRight' /\ ScannedRight' /\ WidestRight'
       /\ PointersRight' /\ InfoRight' /\ WorkListed'
  BY <1>1, <1>4, <1>7, KeptPart
<1>. QED
  BY <1>5, <1>8, <1>9, <1>10 DEF ScheduleIInv

(* What every warp has seen to once it counts the pieces: the pages, and   *)
(* the chunk.                                                              *)
LEMMA PiecesCounted ==
    ASSUME ScheduleIInv, \A v \in Warp : warpAt[v] >= 3
    PROVE  /\ ChunkChosen /\ \A t \in Thread : SplitsOf(t) = Pieces(t)
<1>1. Assumed /\ Shape /\ CountedRight /\ ReducedRight /\ ChosenRight
  BY DEF ScheduleIInv
<1>2. /\ 0 \in Warp /\ Batch \subseteq Thread
      /\ ScanSteps \in Nat /\ \A v \in Warp : warpAt[v] \in Nat /\ warpAt[v] >= 2
  BY <1>1, ThreadsOfWarps, ScanRoundsRight DEF Shape
<1>3. ChunkChosen
  BY <1>1, <1>2 DEF ChosenRight, ChunkChosen
<1>4. \A b \in Batch : sm.pages[b] = Pages(b)
  BY <1>1, <1>2, Reduced
<1>. QED
  BY <1>3, <1>4 DEF SplitsOf, Pieces

(* Where the scan begins: at the pieces of the request, or, in registers,  *)
(* at their sum.                                                           *)
LEMMA ScanSlotsRight ==
    ASSUME ScheduleIInv, \A v \in Warp : warpAt[v] >= 3, NEW t \in Thread
    PROVE  Slots(t) = QTiles * (IF Shuffled THEN Prior(t + 1) ELSE Prior(t + 1) - Prior(t))
<1>1. Assumed /\ ChunkChosen /\ \A u \in Thread : SplitsOf(u) = Pieces(u)
  BY PiecesCounted DEF ScheduleIInv
<1>2. QTiles \in Nat /\ Tpb \in Nat /\ Thread = 0..(Tpb - 1)
  BY <1>1, Arguments, ThreadsOfWarps DEF Thread
<1>3. /\ \A u \in Thread : Pieces(u) \in Nat
      /\ Prior(t + 1) = Prior(t) + Pieces(t) /\ Prior(t) \in Nat
  <2>1. t \in 0..Tpb
    BY <1>2
  <2>. QED
    BY <1>1, <2>1, FirstRight
<1>4. CASE Shuffled
  <2>. DEFINE S == 0..t  g == [u \in S |-> SplitsOf(u) * QTiles]
  <2>1. IsFiniteSet(S) /\ S \subseteq Thread
    <3>1. t \in Nat /\ t < Tpb
      BY <1>2
    <3>2. S \subseteq Thread
      BY <1>2, <3>1
    <3>. QED
      BY <3>1, <3>2, FS_Interval
  <2>2. \A u \in S : PieceOf[u] \in Int /\ g[u] \in Int /\ g[u] = QTiles * PieceOf[u]
    <3>1. ASSUME NEW u \in S PROVE PieceOf[u] = Pieces(u) /\ Pieces(u) \in Nat /\ g[u] = Pieces(u) * QTiles
      BY <1>1, <1>3, <2>1 DEF PieceOf
    <3>2. ASSUME NEW u \in S PROVE Pieces(u) * QTiles = QTiles * Pieces(u) /\ QTiles * Pieces(u) \in Nat
      BY <1>2, <3>1, Product
    <3>. HIDE DEF g, S
    <3>. QED
      BY <3>1, <3>2
  <2>3. Slots(t) = Total(g, S)
    BY <1>4 DEF Slots
  <2>4. Prior(t + 1) = Total(PieceOf, S)
    <3>1. (t + 1) - 1 = t
      BY <1>2
    <3>. QED
      BY <3>1 DEF Prior
  <2>. HIDE DEF g, S
  <2>5. Total(g, S) = QTiles * Total(PieceOf, S)
    <3>1. IsFiniteSet(S) /\ QTiles \in Int
      BY <1>2, <2>1
    <3>2. \A u \in S : PieceOf[u] \in Int /\ g[u] \in Int
      BY <2>2
    <3>3. \A u \in S : g[u] = QTiles * PieceOf[u]
      BY <2>2
    <3>. QED
      BY <3>1, <3>2, <3>3, TotalTimes
  <2>. QED
    BY <1>4, <2>3, <2>4, <2>5
<1>5. CASE ~ Shuffled
  <2>1. Slots(t) = Pieces(t) * QTiles
    BY <1>1, <1>5 DEF Slots
  <2>2. Pieces(t) * QTiles = QTiles * Pieces(t) /\ Prior(t + 1) - Prior(t) = Pieces(t)
    BY <1>2, <1>3, Product
  <2>. QED
    BY <1>5, <2>1, <2>2
<1>. QED
  BY <1>4, <1>5

(* The pieces of each request, and the beginning of the scan.              *)
LEMMA StepCountSplits == ASSUME ScheduleIInv, NEW w \in Warp, CountSplits(w) PROVE ScheduleIInv'
<1>1. /\ warpAt[w] = 3 /\ Synced(w) /\ warpAt' = [warpAt EXCEPT ![w] = @ + 1] /\ req' = req
      /\ sm' = [sm EXCEPT
                  !.splits = [t \in Thread |-> IF t \in ThreadsOf(w) THEN SplitsOf(t) ELSE sm.splits[t]],
                  !.slots = [t \in Thread |-> IF t \in ThreadsOf(w) /\ (t \in Batch \/ ~Shuffled)
                                              THEN Slots(t) ELSE sm.slots[t]]]
      /\ out' = [out EXCEPT !.splits =
                  [b \in Batch |-> IF b \in ThreadsOf(w) THEN SplitsOf(b) ELSE out.splits[b]]]
      /\ scanned' = scanned
  BY DEF CountSplits, WarpDoes
<1>2. Shape /\ Assumed /\ SplitRight /\ ScannedRight
  BY DEF ScheduleIInv
<1>3. ScanSteps \in Nat
  BY <1>2, ScanRoundsRight
<1>4. WarpMoves(w)
  BY <1>1, <1>3 DEF WarpMoves
<1>5. /\ Assumed' /\ StepApart' /\ warpAt' \in [Warp' -> 0..(8 + ScanSteps')] /\ 0 \in Warp /\ warpAt'[w] = 4
      /\ \A v \in Warp : warpAt[v] \in Nat /\ warpAt[v] >= 3 /\ (v # w => warpAt'[v] = warpAt[v]) /\ warpAt[v] <= 4
  BY <1>1, <1>4, WarpMovesRight
<1>6. /\ Size' = Size /\ Batch' = Batch /\ Warp' = Warp /\ Thread' = Thread /\ PadWork' = PadWork
      /\ Shuffled' = Shuffled /\ Tpb' = Tpb /\ ScanSteps' = ScanSteps /\ QTiles' = QTiles
  BY <1>1, CallKept
<1>7. /\ sm'.pages = sm.pages /\ sm'.warpMax = sm.warpMax /\ sm'.warpSum = sm.warpSum
      /\ sm'.chunk = sm.chunk /\ sm'.split = sm.split
      /\ sm'.splits = [t \in Thread |-> IF t \in ThreadsOf(w) THEN SplitsOf(t) ELSE sm.splits[t]]
      /\ sm'.slots = [t \in Thread |-> IF t \in ThreadsOf(w) /\ (t \in Batch \/ ~Shuffled)
                                       THEN Slots(t) ELSE sm.slots[t]]
      /\ sm'.warpSplits = sm.warpSplits /\ sm'.count = sm.count
      /\ sm' = [pages |-> sm'.pages, warpMax |-> sm'.warpMax, warpSum |-> sm'.warpSum,
                chunk |-> sm'.chunk, split |-> sm'.split, splits |-> sm'.splits, slots |-> sm'.slots,
                warpSplits |-> sm'.warpSplits, count |-> sm'.count]
  BY <1>1, <1>2 DEF Shape
<1>8. /\ out'.splits = [b \in Batch |-> IF b \in ThreadsOf(w) THEN SplitsOf(b) ELSE out.splits[b]]
      /\ out'.list = out.list /\ out'.oIndptr = out.oIndptr /\ out'.merge = out.merge /\ out'.info = out.info
      /\ out' = [list |-> out'.list, splits |-> out'.splits, oIndptr |-> out'.oIndptr,
                 merge |-> out'.merge, info |-> out'.info]
  BY <1>1, <1>2 DEF Shape
<1>9. Shape'
  BY <1>1, <1>2, <1>5, <1>6, <1>7, <1>8 DEF Shape, Function
<1>10. ChunkChosen /\ \A t \in Thread : SplitsOf(t) = Pieces(t)
  BY <1>5, PiecesCounted
<1>11. /\ \A t : Pieces(t)' = Pieces(t)
       /\ \A n : Prior(n)' = Prior(n)
       /\ \A t, off : Span(t, off)' = Span(t, off)
  BY <1>1, <1>7, PiecesKept
<1>12. /\ \A v \in Warp : \A t \in ThreadsOf(v) : t \in Thread /\ (v # w => t \notin ThreadsOf(w))
       /\ Batch \subseteq Thread
  BY <1>2, ThreadsOfWarps
<1>13. SplitRight'
  <2>1. ASSUME NEW v \in Warp, warpAt'[v] >= 4, NEW t \in ThreadsOf(v)
        PROVE  sm'.splits[t] = Pieces(t) /\ (t \in Batch => out'.splits[t] = Pieces(t))
    <3>1. CASE v = w
      BY <1>7, <1>8, <1>10, <1>12, <2>1, <3>1
    <3>2. CASE v # w
      <4>1. sm'.splits[t] = sm.splits[t] /\ (t \in Batch => out'.splits[t] = out.splits[t]) /\ warpAt[v] >= 4
        BY <1>5, <1>7, <1>8, <1>12, <2>1, <3>2
      <4>. QED
        BY <1>2, <2>1, <4>1 DEF SplitRight
    <3>. QED
      BY <3>1, <3>2
  <2>. QED
    BY <1>6, <1>11, <2>1 DEF SplitRight
<1>14. \A v \in Warp : v # w => Offset(v)' = Offset(v)
  <2>1. ASSUME NEW v \in Warp, v # w PROVE Offset(v)' = Offset(v)
    <3>1. warpAt'[v] = warpAt[v]
      BY <1>5, <2>1
    <3>. QED
      BY <1>6, <3>1 DEF Offset
  <2>. QED
    BY <2>1
<1>15. Offset(w)' = IF Shuffled THEN Tpb ELSE 1
  <2>1. Smaller(warpAt'[w] - 4, ScanSteps) \div 2 = 0
    BY <1>3, <1>5 DEF Smaller
  <2>2. Doubled[Smaller(warpAt'[w] - 4, ScanSteps) \div 2] = 1
    BY <2>1, DoubledRight
  <2>. QED
    BY <1>6, <2>2 DEF Offset
<1>16. ScannedRight'
  <2>1. ASSUME NEW v \in Warp, warpAt'[v] >= 4, NEW t \in ThreadsOf(v)
        PROVE  t \in Batch' \/ ~ Shuffled' => sm'.slots[t] = Span(t, Offset(v))'
    <3>1. CASE v = w
      <4>1. t \in Thread /\ Tpb \in Nat /\ Thread = 0..(Tpb - 1)
        BY <1>2, <1>12, <2>1, ThreadsOfWarps DEF Thread
      <4>2. Slots(t) = QTiles * (IF Shuffled THEN Prior(t + 1) ELSE Prior(t + 1) - Prior(t))
        BY <1>5, <4>1, ScanSlotsRight
      <4>3. Prior(0) = 0 /\ Prior(t) \in Nat /\ Prior(t + 1) \in Nat
        <5>1. t \in 0..Tpb /\ t + 1 \in 0..Tpb
          BY <4>1
        <5>. QED
          BY <1>2, <1>10, <5>1, FirstRight
      <4>4. Span(t, Offset(v))' = Slots(t)
        <5>1. Span(t, Offset(v))' = QTiles * (Prior(t + 1) - (IF t >= Offset(v)' THEN Prior(t + 1 - Offset(v))' ELSE 0))
          BY <1>6, <1>11 DEF Span
        <5>2. CASE Shuffled
          BY <1>15, <3>1, <4>1, <4>2, <4>3, <5>1, <5>2
        <5>3. CASE ~ Shuffled
          <6>1. Offset(v)' = 1
            BY <1>15, <3>1, <5>3
          <6>2. Prior(t + 1 - Offset(v))' = Prior(t)
            <7>1. t + 1 - Offset(v)' = t
              BY <4>1, <6>1
            <7>2. Prior(t + 1 - Offset(v))' = Prior(t)'
              BY <7>1 DEF Prior
            <7>. QED
              BY <1>11, <7>2
          <6>. QED
            BY <4>1, <4>2, <4>3, <5>1, <5>3, <6>1, <6>2
        <5>. QED
          BY <5>2, <5>3
      <4>. QED
        BY <1>6, <1>7, <2>1, <3>1, <4>1, <4>4
    <3>2. CASE v # w
      <4>1. sm'.slots[t] = sm.slots[t] /\ warpAt[v] >= 4
        BY <1>5, <1>7, <1>12, <2>1, <3>2
      <4>2. t \in Batch \/ ~ Shuffled => sm.slots[t] = Span(t, Offset(v))
        BY <1>2, <2>1, <4>1 DEF ScannedRight
      <4>3. Span(t, Offset(v))' = Span(t, Offset(v))
        <5>1. Offset(v)' = Offset(v)
          BY <1>14, <3>2
        <5>. HIDE DEF Offset
        <5>. QED
          BY <1>6, <1>11, <5>1 DEF Span
      <4>. QED
        BY <1>6, <4>1, <4>2, <4>3
    <3>. QED
      BY <3>1, <3>2
  <2>2. \A v \in Warp : warpAt'[v] >= 4 => warpAt'[v] = 4
    BY <1>5
  <2>. QED
    BY <1>6, <2>1, <2>2 DEF ScannedRight
<1>17. CountedRight' /\ ReducedRight' /\ ChosenRight' /\ WidestRight'
       /\ PointersRight' /\ InfoRight' /\ WorkListed'
  BY <1>1, <1>3, <1>4, <1>7, <1>8, KeptPart
<1>. QED
  BY <1>5, <1>9, <1>13, <1>16, <1>17 DEF ScheduleIInv

(* Twice the span of a thread is its own and that of the thread before it. *)
LEMMA SpanTwice ==
    ASSUME Assumed, ChunkChosen, NEW t \in Thread, NEW off \in Nat \ {0}
    PROVE  Span(t, 2 * off) = Span(t, off) + (IF t >= off THEN Span(t - off, off) ELSE 0)
<1>1. /\ QTiles \in Nat /\ Tpb \in Nat /\ t \in Nat /\ t < Tpb
      /\ \A n \in 0..Tpb : Prior(n) \in Nat
  BY Arguments, ThreadsOfWarps, FirstRight DEF Thread
<1>2. Prior(t + 1) \in Nat
  BY <1>1
<1>3. ASSUME NEW a \in Nat, NEW b \in Nat, NEW c \in Nat
      PROVE  QTiles * (a - c) = QTiles * (a - b) + QTiles * (b - c)
  BY <1>1
<1>. DEFINE x == Prior(t + 1)  y == Prior(t + 1 - off)  z == Prior(t + 1 - 2 * off)
<1>4. Span(t, off) = QTiles * (x - (IF t >= off THEN y ELSE 0))
      /\ Span(t, 2 * off) = QTiles * (x - (IF t >= 2 * off THEN z ELSE 0))
  BY DEF Span
<1>5. CASE t >= off
  <2>1. y \in Nat
    <3>1. t + 1 - off \in 0..Tpb
      BY <1>1, <1>5
    <3>. QED
      BY <1>1, <3>1
  <2>2. Span(t - off, off) = QTiles * (y - (IF t >= 2 * off THEN z ELSE 0))
    <3>1. (t - off) + 1 = t + 1 - off /\ (t - off) + 1 - off = t + 1 - 2 * off
          /\ (t - off >= off <=> t >= 2 * off)
      BY <1>1
    <3>2. Prior((t - off) + 1) = y /\ Prior((t - off) + 1 - off) = z
      BY <3>1, Zenon
    <3>. QED
      BY <3>1, <3>2 DEF Span
  <2>3. t >= 2 * off => z \in Nat
    <3>1. t >= 2 * off => t + 1 - 2 * off \in 0..Tpb
      BY <1>1
    <3>. QED
      BY <1>1, <3>1
  <2>. HIDE DEF x, y, z
  <2>4. x \in Nat
    BY <1>2 DEF x
  <2>5. Span(t, off) = QTiles * (x - y)
    BY <1>4, <1>5
  <2>6. CASE t >= 2 * off
    <3>1. /\ Span(t, 2 * off) = QTiles * (x - z) /\ Span(t - off, off) = QTiles * (y - z)
      BY <1>4, <2>2, <2>6
    <3>2. z \in Nat
      BY <2>3, <2>6
    <3>3. QTiles * (x - z) = QTiles * (x - y) + QTiles * (y - z)
      BY <1>3, <2>1, <2>4, <3>2
    <3>. QED
      BY <1>5, <2>5, <3>1, <3>3
  <2>7. CASE ~ (t >= 2 * off)
    <3>1. QTiles * x = QTiles * (x - y) + QTiles * y
      <4>1. x - 0 = x /\ y - 0 = y
        BY <2>1, <2>4
      <4>2. QTiles * (x - 0) = QTiles * (x - y) + QTiles * (y - 0)
        BY <1>3, <2>1, <2>4, Zenon, 0 \in Nat
      <4>. QED
        BY <4>1, <4>2, Zenon
    <3>2. Span(t, 2 * off) = QTiles * x /\ Span(t - off, off) = QTiles * y
      BY <1>4, <2>1, <2>2, <2>4, <2>7
    <3>. QED
      BY <1>5, <2>5, <3>1, <3>2
  <2>. QED
    BY <2>6, <2>7
<1>6. CASE ~ (t >= off)
  <2>1. ~ (t >= 2 * off) /\ x \in Nat /\ QTiles * (x - 0) \in Int
    BY <1>1, <1>2, <1>6
  <2>. QED
    BY <1>4, <1>6, <2>1
<1>. QED
  BY <1>5, <1>6

(* A step of the scan: the warps are in the same round, and the slots and  *)
(* what is added to them are those of the round.                           *)
LEMMA ScanRound ==
    ASSUME ScheduleIInv, NEW w \in Warp, ScanStep(w), req' = req
    PROVE  /\ WarpMoves(w) /\ ~ Shuffled /\ Assumed /\ ChunkChosen
           /\ warpAt[w] \in Nat /\ warpAt[w] >= 4 /\ warpAt[w] < 4 + ScanSteps /\ warpAt'[w] = warpAt[w] + 1
           /\ ScanSteps \in Nat /\ ScanSteps % 2 = 0
           /\ Offset(w) \in Nat \ {0} /\ Offset(w) = Doubled[(warpAt[w] - 4) \div 2]
           /\ \A v \in Warp : warpAt[v] >= 4 /\ (v # w => warpAt'[v] = warpAt[v])
           /\ warpAt[w] % 2 = 0 => \A v \in Warp : Offset(v) = Offset(w)
<1>1. /\ warpAt[w] \in 4..(3 + ScanSteps) /\ Synced(w) /\ warpAt' = [warpAt EXCEPT ![w] = @ + 1]
      /\ Assumed /\ warpAt \in [Warp -> 0..(8 + ScanSteps)]
  BY DEF ScanStep, ScanSync, ScheduleIInv, Shape
<1>2. ScanSteps \in Nat /\ ScanSteps % 2 = 0 /\ (Shuffled => ScanSteps = 0)
  BY <1>1, ScanRoundsRight
<1>3. warpAt[w] \in Nat /\ warpAt[w] >= 4 /\ warpAt[w] < 4 + ScanSteps
  BY <1>1, <1>2
<1>4. WarpMoves(w)
  BY <1>1, <1>2, <1>3 DEF WarpMoves
<1>5. /\ warpAt'[w] = warpAt[w] + 1
      /\ \A v \in Warp : /\ warpAt[v] \in 0..(8 + ScanSteps) /\ warpAt[v] >= warpAt[w] /\ warpAt[v] <= warpAt[w] + 1
                         /\ v # w => warpAt'[v] = warpAt[v]
  BY <1>4, WarpMovesRight
<1>6. ~ Shuffled
  BY <1>2, <1>3
<1>7. \A v \in Warp : warpAt[v] \in 4..(8 + ScanSteps)
  BY <1>2, <1>3, <1>5
<1>8. Offset(w) \in Nat \ {0} /\ Offset(w) = Doubled[(warpAt[w] - 4) \div 2]
  BY <1>1, <1>3, <1>7, OffsetRight
<1>9. ASSUME warpAt[w] % 2 = 0, NEW v \in Warp PROVE Offset(v) = Offset(w)
  <2>1. warpAt[v] \in Nat /\ warpAt[v] < 4 + ScanSteps /\ (warpAt[v] - 4) \div 2 = (warpAt[w] - 4) \div 2
    BY <1>2, <1>3, <1>5, <1>9
  <2>2. Offset(v) = Doubled[(warpAt[v] - 4) \div 2]
    BY <1>1, <1>7, <2>1, OffsetRight
  <2>. HIDE DEF Offset
  <2>. QED
    BY <1>8, <2>1, <2>2
<1>10. ChunkChosen
  <2>1. \A v \in Warp : warpAt[v] >= 3
    BY <1>7, <1>2
  <2>. QED
    BY <2>1, PiecesCounted
<1>. QED
  BY <1>1, <1>2, <1>3, <1>4, <1>5, <1>6, <1>7, <1>8, <1>9, <1>10

(* A warp reads what it will add.                                          *)
LEMMA StepSlotsRead == ASSUME ScheduleIInv, NEW w \in Warp, SlotsRead(w) PROVE ScheduleIInv'
<1>1. /\ ScanStep(w) /\ warpAt[w] % 2 = 0 /\ req' = req /\ sm' = sm /\ out' = out
      /\ warpAt' = [warpAt EXCEPT ![w] = @ + 1]
      /\ scanned' = [t \in Thread |-> IF t \in ThreadsOf(w)
                        THEN IF t >= Doubled[(warpAt[w] - 4) \div 2] THEN sm.slots[t - Doubled[(warpAt[w] - 4) \div 2]] ELSE 0
                        ELSE scanned[t]]
  BY DEF SlotsRead, ScanStep
<1>2. Shape /\ Assumed /\ ScannedRight
  BY DEF ScheduleIInv
<1>3. /\ WarpMoves(w) /\ ~ Shuffled /\ ChunkChosen
      /\ warpAt[w] \in Nat /\ warpAt[w] >= 4 /\ warpAt[w] < 4 + ScanSteps /\ warpAt'[w] = warpAt[w] + 1
      /\ ScanSteps \in Nat /\ ScanSteps % 2 = 0
      /\ Offset(w) \in Nat \ {0} /\ Offset(w) = Doubled[(warpAt[w] - 4) \div 2]
      /\ \A v \in Warp : warpAt[v] >= 4 /\ (v # w => warpAt'[v] = warpAt[v]) /\ Offset(v) = Offset(w)
  BY <1>1, ScanRound
<1>4. /\ Assumed' /\ StepApart' /\ warpAt' \in [Warp' -> 0..(8 + ScanSteps')]
  BY <1>3, WarpMovesRight
<1>5. /\ Size' = Size /\ Batch' = Batch /\ Warp' = Warp /\ Thread' = Thread /\ PadWork' = PadWork
      /\ Shuffled' = Shuffled /\ Tpb' = Tpb /\ ScanSteps' = ScanSteps
  BY <1>1, CallKept
<1>6. Shape'
  <2>1. Function(scanned', Thread')
    BY <1>1, <1>5 DEF Function
  <2>. QED
    BY <1>1, <1>2, <1>4, <1>5, <2>1 DEF Shape, Function
<1>7. \A t, off : Span(t, off)' = Span(t, off)
  BY <1>1, PiecesKept
<1>8. \A v \in Warp : Offset(v)' = Offset(v)
  <2>1. ASSUME NEW v \in Warp, v # w PROVE Offset(v)' = Offset(v)
    BY <1>3, <1>5, <2>1 DEF Offset
  <2>2. Offset(w)' = Offset(w)
    <3>1. Smaller(warpAt'[w] - 4, ScanSteps) \div 2 = Smaller(warpAt[w] - 4, ScanSteps) \div 2
      BY <1>1, <1>3 DEF Smaller
    <3>. QED
      BY <1>3, <1>5, <3>1 DEF Offset
  <2>. QED
    BY <2>1, <2>2
<1>. DEFINE off == Offset(w)
<1>9. /\ \A v \in Warp : \A t \in ThreadsOf(v) : t \in Thread /\ (v # w => t \notin ThreadsOf(w))
      /\ \A t \in Thread : WarpOf(t) \in Warp /\ t \in ThreadsOf(WarpOf(t))
      /\ Tpb \in Nat /\ Thread = 0..(Tpb - 1)
  BY <1>2, ThreadsOfWarps DEF Thread
<1>10. \A t \in Thread : sm.slots[t] = Span(t, off)
  BY <1>2, <1>3, <1>9 DEF ScannedRight
<1>11. \A t \in ThreadsOf(w) : scanned'[t] = IF t >= off THEN Span(t - off, off) ELSE 0
  <2>. HIDE DEF off
  <2>1. off \in Nat \ {0} /\ off = Doubled[(warpAt[w] - 4) \div 2]
    BY <1>3 DEF off
  <2>2. ASSUME NEW t \in ThreadsOf(w) PROVE scanned'[t] = IF t >= off THEN Span(t - off, off) ELSE 0
    <3>1. t \in Thread /\ (t >= off => t - off \in Thread)
      BY <1>9, <2>1
    <3>2. scanned'[t] = IF t >= off THEN sm.slots[t - off] ELSE 0
      BY <1>1, <2>1, <3>1
    <3>. QED
      BY <1>10, <3>1, <3>2
  <2>. QED
    BY <2>2
<1>12. ScannedRight'
  <2>1. ASSUME NEW v \in Warp, NEW t \in ThreadsOf(v)
        PROVE  /\ sm'.slots[t] = Span(t, Offset(v))'
               /\ warpAt'[v] < 4 + ScanSteps /\ warpAt'[v] % 2 = 1 =>
                      scanned'[t] = IF t >= Offset(v)' THEN Span(t - Offset(v), Offset(v))' ELSE 0
    <3>. DEFINE d == Offset(v)
    <3>1. d' = d /\ d = off
      BY <1>3, <1>8
    <3>2. Span(t, d)' = Span(t, d) /\ Span(t - d, d)' = Span(t - d, d)
      <4>. HIDE DEF d
      <4>. QED
        BY <1>1, <1>5, <1>7, <3>1 DEF Span
    <3>3. sm'.slots[t] = Span(t, d)'
      BY <1>1, <1>9, <1>10, <3>1, <3>2
    <3>4. v = w => scanned'[t] = IF t >= d' THEN Span(t - d, d)' ELSE 0
      BY <1>11, <3>1, <3>2
    <3>5. v # w /\ warpAt'[v] < 4 + ScanSteps /\ warpAt'[v] % 2 = 1 => scanned'[t] = IF t >= d' THEN Span(t - d, d)' ELSE 0
      <4>1. v # w => scanned'[t] = scanned[t] /\ warpAt'[v] = warpAt[v]
        BY <1>1, <1>3, <1>9
      <4>2. warpAt[v] < 4 + ScanSteps /\ warpAt[v] % 2 = 1 => scanned[t] = IF t >= d THEN Span(t - d, d) ELSE 0
        BY <1>2, <1>3 DEF ScannedRight
      <4>. HIDE DEF d
      <4>. QED
        BY <3>1, <3>2, <4>1, <4>2
    <3>. QED
      BY <3>3, <3>4, <3>5
  <2>. QED
    BY <1>5, <2>1 DEF ScannedRight
<1>13. CountedRight' /\ ReducedRight' /\ ChosenRight' /\ SplitRight' /\ WidestRight'
       /\ PointersRight' /\ InfoRight' /\ WorkListed'
  BY <1>1, <1>3, KeptPart
<1>. QED
  BY <1>4, <1>6, <1>12, <1>13 DEF ScheduleIInv

(* A warp adds what it has read: the spans of its threads are twice as     *)
(* long.                                                                   *)
LEMMA StepSlotsAdd == ASSUME ScheduleIInv, NEW w \in Warp, SlotsAdd(w) PROVE ScheduleIInv'
<1>1. /\ ScanStep(w) /\ warpAt[w] % 2 = 1 /\ req' = req /\ out' = out /\ scanned' = scanned
      /\ warpAt' = [warpAt EXCEPT ![w] = @ + 1]
      /\ sm' = [sm EXCEPT !.slots = [t \in Thread |-> IF t \in ThreadsOf(w) THEN sm.slots[t] + scanned[t]
                                                      ELSE sm.slots[t]]]
  BY DEF SlotsAdd, ScanStep
<1>2. Shape /\ Assumed /\ ScannedRight
  BY DEF ScheduleIInv
<1>3. /\ WarpMoves(w) /\ ~ Shuffled /\ ChunkChosen
      /\ warpAt[w] \in Nat /\ warpAt[w] >= 4 /\ warpAt[w] < 4 + ScanSteps /\ warpAt'[w] = warpAt[w] + 1
      /\ ScanSteps \in Nat /\ ScanSteps % 2 = 0
      /\ Offset(w) \in Nat \ {0} /\ Offset(w) = Doubled[(warpAt[w] - 4) \div 2]
      /\ \A v \in Warp : warpAt[v] >= 4 /\ (v # w => warpAt'[v] = warpAt[v])
  BY <1>1, ScanRound
<1>4. /\ Assumed' /\ StepApart' /\ warpAt' \in [Warp' -> 0..(8 + ScanSteps')]
  BY <1>3, WarpMovesRight
<1>5. /\ Size' = Size /\ Batch' = Batch /\ Warp' = Warp /\ Thread' = Thread /\ PadWork' = PadWork
      /\ Shuffled' = Shuffled /\ Tpb' = Tpb /\ ScanSteps' = ScanSteps
  BY <1>1, CallKept
<1>6. /\ sm'.pages = sm.pages /\ sm'.warpMax = sm.warpMax /\ sm'.warpSum = sm.warpSum
      /\ sm'.chunk = sm.chunk /\ sm'.split = sm.split /\ sm'.splits = sm.splits
      /\ sm'.slots = [t \in Thread |-> IF t \in ThreadsOf(w) THEN sm.slots[t] + scanned[t] ELSE sm.slots[t]]
      /\ sm'.warpSplits = sm.warpSplits /\ sm'.count = sm.count
      /\ sm' = [pages |-> sm'.pages, warpMax |-> sm'.warpMax, warpSum |-> sm'.warpSum,
                chunk |-> sm'.chunk, split |-> sm'.split, splits |-> sm'.splits, slots |-> sm'.slots,
                warpSplits |-> sm'.warpSplits, count |-> sm'.count]
  BY <1>1, <1>2 DEF Shape
<1>7. Shape'
  BY <1>1, <1>2, <1>4, <1>5, <1>6 DEF Shape, Function
<1>8. \A t, off : Span(t, off)' = Span(t, off)
  BY <1>1, <1>6, PiecesKept
<1>. DEFINE off == Offset(w)
<1>9. /\ Offset(w)' = 2 * off
      /\ \A v \in Warp : v # w => Offset(v)' = Offset(v)
  <2>1. ASSUME NEW v \in Warp, v # w PROVE Offset(v)' = Offset(v)
    BY <1>3, <1>5, <2>1 DEF Offset
  <2>2. Offset(w)' = 2 * off
    <3>. DEFINE r == (warpAt[w] - 4) \div 2
    <3>1. Smaller(warpAt'[w] - 4, ScanSteps) \div 2 = r + 1 /\ r \in Nat
      BY <1>1, <1>3 DEF Smaller
    <3>. HIDE DEF r
    <3>2. Doubled[r + 1] = 2 * Doubled[r]
      BY <3>1, DoubledRight
    <3>3. Offset(w)' = Doubled[Smaller(warpAt'[w] - 4, ScanSteps) \div 2]
      BY <1>3, <1>5 DEF Offset
    <3>4. off = Doubled[r]
      BY <1>3 DEF r
    <3>. HIDE DEF off
    <3>. QED
      BY <3>1, <3>2, <3>3, <3>4
  <2>. QED
    BY <2>1, <2>2
<1>10. /\ \A v \in Warp : \A t \in ThreadsOf(v) : t \in Thread /\ (v # w => t \notin ThreadsOf(w))
  BY <1>2, ThreadsOfWarps
<1>11. ScannedRight'
  <2>1. ASSUME NEW v \in Warp, NEW t \in ThreadsOf(v)
        PROVE  /\ sm'.slots[t] = Span(t, Offset(v))'
               /\ warpAt'[v] < 4 + ScanSteps /\ warpAt'[v] % 2 = 1 =>
                      scanned'[t] = IF t >= Offset(v)' THEN Span(t - Offset(v), Offset(v))' ELSE 0
    <3>. DEFINE d == Offset(v)
    <3>1. Span(t, d)' = Span(t, d') /\ Span(t - d, d)' = Span(t - d', d')
      <4>1. QTiles' = QTiles /\ \A n : Prior(n)' = Prior(n)
        BY <1>1, <1>6, CallKept, PiecesKept
      <4>. QED
        BY <4>1 DEF Span
    <3>2. CASE v = w
      <4>1. sm'.slots[t] = Span(t, off) + (IF t >= off THEN Span(t - off, off) ELSE 0)
        BY <1>1, <1>2, <1>3, <1>6, <1>10, <3>2 DEF ScannedRight
      <4>2. Span(t, 2 * off) = Span(t, off) + (IF t >= off THEN Span(t - off, off) ELSE 0)
        BY <1>2, <1>3, <1>10, SpanTwice
      <4>3. warpAt'[v] % 2 = 0
        BY <1>1, <1>3, <3>2
      <4>4. d' = 2 * off
        BY <1>9, <3>2
      <4>. HIDE DEF d
      <4>. QED
        BY <3>1, <4>1, <4>2, <4>3, <4>4 DEF d
    <3>3. CASE v # w
      <4>1. sm'.slots[t] = sm.slots[t] /\ scanned'[t] = scanned[t] /\ warpAt'[v] = warpAt[v] /\ d' = d
        BY <1>1, <1>3, <1>6, <1>9, <1>10, <3>3
      <4>2. /\ sm.slots[t] = Span(t, d)
            /\ warpAt[v] < 4 + ScanSteps /\ warpAt[v] % 2 = 1 => scanned[t] = IF t >= d THEN Span(t - d, d) ELSE 0
        BY <1>2, <1>3 DEF ScannedRight
      <4>3. Span(t, d') = Span(t, d) /\ Span(t - d', d') = Span(t - d, d)
        BY <4>1, Zenon
      <4>. HIDE DEF d
      <4>. QED
        BY <3>1, <4>1, <4>2, <4>3 DEF d
    <3>. QED
      BY <3>2, <3>3
  <2>. QED
    BY <1>5, <2>1 DEF ScannedRight
<1>12. CountedRight' /\ ReducedRight' /\ ChosenRight' /\ SplitRight' /\ WidestRight'
       /\ PointersRight' /\ InfoRight' /\ WorkListed'
  BY <1>1, <1>3, <1>6, KeptPart
<1>. QED
  BY <1>4, <1>7, <1>11, <1>12 DEF ScheduleIInv

(* The pieces of the widest request of a warp.                             *)
LEMMA StepReduceSplits == ASSUME ScheduleIInv, NEW w \in Warp, ReduceSplits(w) PROVE ScheduleIInv'
<1>1. /\ warpAt[w] = 4 + ScanSteps /\ Synced(w) /\ warpAt' = [warpAt EXCEPT ![w] = @ + 1] /\ req' = req
      /\ sm' = [sm EXCEPT !.warpSplits[w] = Largest({SplitsOf(t) : t \in ThreadsOf(w)})]
      /\ scanned' = scanned /\ out' = out
  BY DEF ReduceSplits, WarpDoes
<1>2. Shape /\ Assumed /\ WidestRight
  BY DEF ScheduleIInv
<1>3. ScanSteps \in Nat
  BY <1>2, ScanRoundsRight
<1>4. WarpMoves(w)
  BY <1>1, <1>3 DEF WarpMoves
<1>5. /\ Assumed' /\ StepApart' /\ warpAt' \in [Warp' -> 0..(8 + ScanSteps')]
      /\ \A v \in Warp : warpAt[v] >= 3 /\ (v # w => warpAt'[v] = warpAt[v])
  BY <1>1, <1>3, <1>4, WarpMovesRight
<1>6. /\ Size' = Size /\ Batch' = Batch /\ Warp' = Warp /\ Thread' = Thread /\ PadWork' = PadWork
      /\ ScanSteps' = ScanSteps
  BY <1>1, CallKept
<1>7. /\ sm'.pages = sm.pages /\ sm'.warpMax = sm.warpMax /\ sm'.warpSum = sm.warpSum
      /\ sm'.chunk = sm.chunk /\ sm'.split = sm.split /\ sm'.splits = sm.splits /\ sm'.slots = sm.slots
      /\ sm'.warpSplits = [sm.warpSplits EXCEPT ![w] = Largest({SplitsOf(t) : t \in ThreadsOf(w)})]
      /\ sm'.count = sm.count
      /\ sm' = [pages |-> sm'.pages, warpMax |-> sm'.warpMax, warpSum |-> sm'.warpSum,
                chunk |-> sm'.chunk, split |-> sm'.split, splits |-> sm'.splits, slots |-> sm'.slots,
                warpSplits |-> sm'.warpSplits, count |-> sm'.count]
  BY <1>1, <1>2 DEF Shape
<1>8. Shape'
  BY <1>1, <1>2, <1>5, <1>6, <1>7, ZenonT(30) DEF Shape, Function
<1>9. \A t \in Thread : SplitsOf(t) = Pieces(t)
  BY <1>5, PiecesCounted
<1>10. WidestRight'
  <2>1. ASSUME NEW v \in Warp, warpAt'[v] >= 5 + ScanSteps
        PROVE  sm'.warpSplits[v] = Largest({Pieces(t)' : t \in ThreadsOf(v)})
    <3>. DEFINE S == {Pieces(t) : t \in ThreadsOf(v)}
    <3>1. {Pieces(t)' : t \in ThreadsOf(v)} = S
      BY <1>1, <1>7, PiecesKept
    <3>2. sm'.warpSplits[v] = Largest(S)
      <4>1. CASE v = w
        <5>1. \A t \in ThreadsOf(w) : t \in Thread
          BY <1>2, ThreadsOfWarps
        <5>2. {SplitsOf(t) : t \in ThreadsOf(w)} = S
          BY <1>9, <4>1, <5>1
        <5>3. sm'.warpSplits[w] = Largest({SplitsOf(t) : t \in ThreadsOf(w)})
          BY <1>2, <1>7 DEF Shape, Function
        <5>. HIDE DEF S
        <5>. QED
          BY <4>1, <5>2, <5>3, Zenon
      <4>2. CASE v # w
        <5>1. sm'.warpSplits[v] = sm.warpSplits[v] /\ warpAt'[v] = warpAt[v]
          BY <1>2, <1>5, <1>7, <4>2 DEF Shape, Function
        <5>. QED
          BY <1>2, <2>1, <5>1 DEF WidestRight
      <4>. QED
        BY <4>1, <4>2
    <3>. HIDE DEF S
    <3>. QED
      BY <3>1, <3>2, Zenon
  <2>2. \A v : {Pieces(t) : t \in ThreadsOf(v)}' = {Pieces(t)' : t \in ThreadsOf(v)}
    BY DEF ThreadsOf
  <2>. QED
    BY <1>6, <2>1, <2>2 DEF WidestRight, ThreadsOf
<1>11. CountedRight' /\ ReducedRight' /\ ChosenRight' /\ SplitRight' /\ ScannedRight'
       /\ PointersRight' /\ InfoRight' /\ WorkListed'
  <2>1. /\ warpAt[w] # 0 /\ warpAt[w] # 1 /\ warpAt[w] # 2 /\ warpAt[w] # 3 /\ ~ (warpAt[w] \in 3..(3 + ScanSteps))
        /\ warpAt[w] # 5 + ScanSteps /\ warpAt[w] # 6 + ScanSteps /\ warpAt[w] # 7 + ScanSteps
    BY <1>1, <1>3
  <2>2. scanned' = scanned /\ out' = out
    BY <1>1
  <2>. QED
    BY <1>4, <1>7, <2>1, <2>2, KeptPart
<1>. QED
  BY <1>5, <1>8, <1>10, <1>11 DEF ScheduleIInv

(* When the scan is over, the slot of a request has the pieces of all up   *)
(* to it.                                                                  *)
LEMMA ScanOver ==
    ASSUME ScheduleIInv, \A v \in Warp : warpAt[v] >= 4 + ScanSteps
    PROVE  /\ ChunkChosen /\ \A t \in Thread : SplitsOf(t) = Pieces(t) /\ sm.splits[t] = Pieces(t)
           /\ \A b \in Batch : sm.slots[b] = QTiles * Prior(b + 1)
<1>1. Assumed /\ Shape /\ SplitRight /\ ScannedRight
  BY DEF ScheduleIInv
<1>2. /\ ScanSteps \in Nat /\ \A v \in Warp : warpAt[v] \in 0..(8 + ScanSteps)
  BY <1>1, ScanRoundsRight DEF Shape
<1>3. \A v \in Warp : warpAt[v] >= 3 /\ warpAt[v] >= 4 /\ warpAt[v] \in 4..(8 + ScanSteps)
  BY <1>2
<1>4. ChunkChosen /\ \A t \in Thread : SplitsOf(t) = Pieces(t)
  BY <1>3, PiecesCounted
<1>5. /\ \A t \in Thread : WarpOf(t) \in Warp /\ t \in ThreadsOf(WarpOf(t))
      /\ Batch \subseteq Thread /\ Thread = 0..(Tpb - 1) /\ Tpb \in Nat
  BY <1>1, ThreadsOfWarps DEF Thread
<1>6. \A t \in Thread : sm.splits[t] = Pieces(t)
  BY <1>1, <1>3, <1>5 DEF SplitRight
<1>7. ASSUME NEW b \in Batch PROVE sm.slots[b] = QTiles * Prior(b + 1)
  <2>. DEFINE off == Offset(WarpOf(b))
  <2>1. sm.slots[b] = Span(b, off)
    BY <1>1, <1>3, <1>5 DEF ScannedRight
  <2>2. off \in Nat /\ off >= Tpb
    BY <1>1, <1>3, <1>5, OffsetRight
  <2>3. Prior(b + 1) \in Nat
    <3>1. b + 1 \in 0..Tpb
      BY <1>5
    <3>. QED
      BY <1>1, <1>4, <3>1, FirstRight
  <2>4. ~ (b >= off)
    BY <1>5, <2>2
  <2>. HIDE DEF off
  <2>. QED
    BY <2>1, <2>3, <2>4 DEF Span
<1>. QED
  BY <1>4, <1>6, <1>7

(* The first rows and pieces of the requests of a warp, and how many       *)
(* pieces there are.                                                       *)
LEMMA StepWritePointers == ASSUME ScheduleIInv, NEW w \in Warp, WritePointers(w) PROVE ScheduleIInv'
<1>. DEFINE mine == ThreadsOf(w) \cap Batch
            sq == req.seqlenQ
            before(b) == sm.slots[b] \div QTiles - SplitsOf(b)
            merge(b, q) == before(b) * sq + (q + 1) * SplitsOf(b)
<1>1. /\ warpAt[w] = 5 + ScanSteps /\ Synced(w) /\ warpAt' = [warpAt EXCEPT ![w] = @ + 1] /\ req' = req
      /\ out' = [out EXCEPT
                  !.oIndptr = [i \in 0..Size |->
                      IF i = 0 THEN IF w = 0 THEN 0 ELSE out.oIndptr[i]
                      ELSE IF i - 1 \in mine THEN QTokens * sm.slots[i - 1] ELSE out.oIndptr[i]],
                  !.merge = [i \in DOMAIN out.merge |->
                      IF i = 0 THEN IF w = 0 THEN 0 ELSE out.merge[i]
                      ELSE IF ((i - 1) \div sq) \in mine THEN merge((i - 1) \div sq, (i - 1) % sq) ELSE out.merge[i]]]
      /\ sm' = IF Size - 1 \in mine THEN [sm EXCEPT !.count = sm.slots[Size - 1]] ELSE sm
      /\ scanned' = scanned
  BY DEF WritePointers, WarpDoes
<1>2. Shape /\ Assumed /\ PointersRight
  BY DEF ScheduleIInv
<1>3. ScanSteps \in Nat
  BY <1>2, ScanRoundsRight
<1>4. WarpMoves(w)
  BY <1>1, <1>3 DEF WarpMoves
<1>5. /\ Assumed' /\ StepApart' /\ warpAt' \in [Warp' -> 0..(8 + ScanSteps')] /\ 0 \in Warp
      /\ \A v \in Warp : warpAt[v] >= 4 + ScanSteps /\ (v # w => warpAt'[v] = warpAt[v])
  BY <1>1, <1>3, <1>4, WarpMovesRight
<1>6. /\ Size' = Size /\ Batch' = Batch /\ Warp' = Warp /\ Thread' = Thread /\ PadWork' = PadWork
      /\ ScanSteps' = ScanSteps /\ QTiles' = QTiles
  BY <1>1, CallKept
<1>7. /\ sm'.pages = sm.pages /\ sm'.warpMax = sm.warpMax /\ sm'.warpSum = sm.warpSum
      /\ sm'.chunk = sm.chunk /\ sm'.split = sm.split /\ sm'.splits = sm.splits /\ sm'.slots = sm.slots
      /\ sm'.warpSplits = sm.warpSplits
      /\ sm'.count = IF Size - 1 \in mine THEN sm.slots[Size - 1] ELSE sm.count
      /\ sm' = [pages |-> sm'.pages, warpMax |-> sm'.warpMax, warpSum |-> sm'.warpSum,
                chunk |-> sm'.chunk, split |-> sm'.split, splits |-> sm'.splits, slots |-> sm'.slots,
                warpSplits |-> sm'.warpSplits, count |-> sm'.count]
  <2>. HIDE DEF mine
  <2>. QED
    BY <1>1, <1>2 DEF Shape
<1>8. /\ out'.oIndptr = [i \in 0..Size |->
                      IF i = 0 THEN IF w = 0 THEN 0 ELSE out.oIndptr[i]
                      ELSE IF i - 1 \in mine THEN QTokens * sm.slots[i - 1] ELSE out.oIndptr[i]]
      /\ out'.merge = [i \in 0..(Size * sq) |->
                      IF i = 0 THEN IF w = 0 THEN 0 ELSE out.merge[i]
                      ELSE IF ((i - 1) \div sq) \in mine THEN merge((i - 1) \div sq, (i - 1) % sq) ELSE out.merge[i]]
      /\ out'.list = out.list /\ out'.splits = out.splits /\ out'.info = out.info
      /\ out' = [list |-> out'.list, splits |-> out'.splits, oIndptr |-> out'.oIndptr,
                 merge |-> out'.merge, info |-> out'.info]
  <2>1. DOMAIN out.merge = 0..(Size * sq)
    BY <1>2 DEF Shape, Function
  <2>. HIDE DEF mine, merge
  <2>. QED
    BY <1>1, <1>2, <2>1 DEF Shape
<1>9. Shape'
  <2>1. Function(out'.oIndptr, 0..Size') /\ Function(out'.merge, 0..(Size' * req'.seqlenQ))
    <3>. HIDE DEF mine, merge
    <3>. QED
      BY <1>1, <1>6, <1>8 DEF Function
  <2>. QED
    BY <1>1, <1>2, <1>5, <1>6, <1>7, <1>8, <2>1, ZenonT(30) DEF Shape, Function
<1>10. /\ ChunkChosen /\ \A t \in Thread : SplitsOf(t) = Pieces(t)
       /\ \A b \in Batch : sm.slots[b] = QTiles * Prior(b + 1)
  BY <1>5, ScanOver
<1>11. /\ \A v \in Warp : \A t \in ThreadsOf(v) : t \in Thread /\ (v # w => t \notin ThreadsOf(w))
       /\ Batch \subseteq Thread /\ Thread = 0..(Tpb - 1) /\ Tpb \in Nat
       /\ Size \in Nat \ {0} /\ Batch = 0..(Size - 1) /\ QTiles \in Nat \ {0} /\ sq \in Nat \ {0} /\ QTokens \in Nat
  BY <1>2, ThreadsOfWarps, Arguments DEF Thread, Batch
<1>12. /\ \A t : Pieces(t)' = Pieces(t)
       /\ \A n : Prior(n)' = Prior(n)
  BY <1>1, <1>7, PiecesKept
<1>13. ASSUME NEW b \in Batch PROVE before(b) = Prior(b) /\ SplitsOf(b) = Pieces(b)
  <2>1. b \in Thread /\ b + 1 \in 0..Tpb /\ b \in 0..Tpb
    BY <1>11
  <2>2. /\ Prior(b + 1) \in Nat /\ Prior(b) \in Nat /\ Pieces(b) \in Nat
        /\ Prior(b + 1) = Prior(b) + Pieces(b)
    BY <1>2, <1>10, <2>1, FirstRight
  <2>3. (QTiles * Prior(b + 1)) \div QTiles = Prior(b + 1)
    <3>. DEFINE n == Prior(b + 1)
    <3>1. QTiles * n = n * QTiles
      BY <1>11, <2>2, Product
    <3>2. (n * QTiles) \div QTiles = n
      <4>. HIDE DEF n
      <4>1. n \in Nat
        BY <2>2 DEF n
      <4>. QED
        BY <1>11, <4>1, RowsOf
    <3>. HIDE DEF n
    <3>. QED
      BY <3>1, <3>2 DEF n
  <2>. QED
    BY <1>10, <2>1, <2>2, <2>3
<1>14. ASSUME NEW b \in Batch, NEW q \in 0..(sq - 1)
       PROVE  LET i == b * sq + q + 1
              IN /\ i \in 0..(Size * sq) /\ i # 0
                 /\ (i - 1) \div sq = b /\ (i - 1) % sq = q
  <2>. DEFINE a == b * sq + q
  <2>1. b \in Nat /\ b < Size /\ b * sq \in Nat
    BY <1>11, Product
  <2>2. b * sq + sq <= Size * sq
    BY <1>11, <2>1, Groups
  <2>3. a \in Nat /\ b * sq <= a /\ a < b * sq + sq /\ (a + 1) - 1 = a /\ a + 1 # 0
    BY <1>11, <2>1, SMTT(30)
  <2>4. a \div sq = b /\ a % sq = a - b * sq
    BY <1>11, <2>1, <2>3, QuotientOf
  <2>5. Size * sq \in Nat
    BY <1>11, Product
  <2>6. b * sq + q + 1 = a + 1
    BY <1>11, <2>1
  <2>7. a - b * sq = q
    BY <1>11, <2>1
  <2>8. a + 1 \in 0..(Size * sq)
    <3>. DEFINE c == b * sq  d == Size * sq
    <3>1. a = c + q /\ c \in Nat /\ d \in Nat /\ c + sq <= d
      BY <2>1, <2>2, <2>5
    <3>. HIDE DEF a, c, d
    <3>2. a + 1 <= d
      BY <1>11, <3>1
    <3>. USE DEF d
    <3>. QED
      BY <2>3, <2>5, <3>2
  <2>. HIDE DEF a
  <2>. QED
    BY <2>3, <2>4, <2>6, <2>7, <2>8
<1>15. PointersRight'
  <2>1. ASSUME NEW v \in Warp, warpAt'[v] >= 6 + ScanSteps
        PROVE  /\ v = 0 => out'.oIndptr[0] = 0 /\ out'.merge[0] = 0
               /\ \A b \in ThreadsOf(v) \cap Batch :
                   /\ out'.oIndptr[b + 1] = QTokens * (QTiles * Prior(b + 1))
                   /\ \A q \in 0..(sq - 1) :
                       out'.merge[b * sq + q + 1] = Prior(b) * sq + (q + 1) * Pieces(b)
               /\ Size - 1 \in ThreadsOf(v) => sm'.count = QTiles * Prior(Size)
    <3>0. 0 \in 0..Size /\ 0 \in 0..(Size * sq)
      BY <1>11, Product
    <3>1. CASE v = w
      <4>1. v = 0 => out'.oIndptr[0] = 0 /\ out'.merge[0] = 0
        <5>. HIDE DEF mine, merge
        <5>. QED
          BY <1>8, <3>0, <3>1
      <4>2. ASSUME NEW b \in ThreadsOf(v) \cap Batch
            PROVE  out'.oIndptr[b + 1] = QTokens * (QTiles * Prior(b + 1))
        <5>1. b + 1 \in 0..Size /\ b + 1 # 0 /\ (b + 1) - 1 = b /\ b \in mine /\ b \in Batch
          BY <1>11, <3>1
        <5>2. out'.oIndptr[b + 1] = QTokens * sm.slots[b]
          <6>. HIDE DEF mine, merge
          <6>. QED
            BY <1>8, <5>1
        <5>. QED
          BY <1>10, <5>1, <5>2
      <4>3. ASSUME NEW b \in ThreadsOf(v) \cap Batch, NEW q \in 0..(sq - 1)
            PROVE  out'.merge[b * sq + q + 1] = Prior(b) * sq + (q + 1) * Pieces(b)
        <5>. DEFINE i == b * sq + q + 1
        <5>1. b \in mine /\ b \in Batch
          BY <3>1
        <5>2. i \in 0..(Size * sq) /\ i # 0 /\ (i - 1) \div sq = b /\ (i - 1) % sq = q
          BY <1>14, <5>1
        <5>3. out'.merge[i] = merge(b, q)
          <6>. HIDE DEF mine, merge, i
          <6>. QED
            BY <1>8, <5>1, <5>2
        <5>4. before(b) = Prior(b) /\ SplitsOf(b) = Pieces(b)
          BY <1>13, <5>1
        <5>5. merge(b, q) = Prior(b) * sq + (q + 1) * Pieces(b)
          <6>. HIDE DEF before
          <6>. QED
            BY <5>4
        <5>. QED
          BY <5>3, <5>5
      <4>4. Size - 1 \in ThreadsOf(v) => sm'.count = QTiles * Prior(Size)
        <5>1. Size - 1 \in Batch /\ (Size - 1) + 1 = Size
          BY <1>11
        <5>2. sm.slots[Size - 1] = QTiles * Prior(Size)
          BY <1>10, <5>1
        <5>. QED
          BY <1>7, <3>1, <5>1, <5>2
      <4>. QED
        BY <4>1, <4>2, <4>3, <4>4
    <3>2. CASE v # w
      <4>1. /\ v = 0 => out.oIndptr[0] = 0 /\ out.merge[0] = 0
            /\ \A b \in ThreadsOf(v) \cap Batch :
                /\ out.oIndptr[b + 1] = QTokens * (QTiles * Prior(b + 1))
                /\ \A q \in 0..(sq - 1) :
                    out.merge[b * sq + q + 1] = Prior(b) * sq + (q + 1) * Pieces(b)
            /\ Size - 1 \in ThreadsOf(v) => sm.count = QTiles * Prior(Size)
        BY <1>2, <1>5, <2>1, <3>2 DEF PointersRight
      <4>2. v = 0 => out'.oIndptr[0] = 0 /\ out'.merge[0] = 0
        <5>. HIDE DEF mine, merge
        <5>. QED
          BY <1>8, <3>0, <3>2, <4>1
      <4>3. ASSUME NEW b \in ThreadsOf(v) \cap Batch
            PROVE  out'.oIndptr[b + 1] = QTokens * (QTiles * Prior(b + 1))
        <5>1. b + 1 \in 0..Size /\ b + 1 # 0 /\ (b + 1) - 1 = b /\ b \notin mine
          BY <1>11, <3>2
        <5>2. out'.oIndptr[b + 1] = out.oIndptr[b + 1]
          <6>. HIDE DEF mine, merge
          <6>. QED
            BY <1>8, <5>1
        <5>. QED
          BY <4>1, <5>2
      <4>4. ASSUME NEW b \in ThreadsOf(v) \cap Batch, NEW q \in 0..(sq - 1)
            PROVE  out'.merge[b * sq + q + 1] = Prior(b) * sq + (q + 1) * Pieces(b)
        <5>. DEFINE i == b * sq + q + 1
        <5>1. b \notin mine /\ b \in Batch
          BY <1>11, <3>2
        <5>2. i \in 0..(Size * sq) /\ i # 0 /\ (i - 1) \div sq = b
          BY <1>14, <5>1
        <5>3. out'.merge[i] = out.merge[i]
          <6>. HIDE DEF mine, merge, i
          <6>. QED
            BY <1>8, <5>1, <5>2
        <5>. QED
          BY <4>1, <5>3
      <4>5. Size - 1 \in ThreadsOf(v) => sm'.count = QTiles * Prior(Size)
        BY <1>7, <1>11, <3>2, <4>1
      <4>. QED
        BY <4>2, <4>3, <4>4, <4>5
    <3>. QED
      BY <3>1, <3>2
  <2>2. \A v : ThreadsOf(v)' = ThreadsOf(v)
    BY DEF ThreadsOf
  <2>3. req'.seqlenQ = sq
    BY <1>1
  <2>. QED
    BY <1>6, <1>12, <2>1, <2>2, <2>3 DEF PointersRight
<1>16. CountedRight' /\ ReducedRight' /\ ChosenRight' /\ SplitRight' /\ ScannedRight' /\ WidestRight'
       /\ InfoRight' /\ WorkListed'
  <2>1. /\ warpAt[w] # 0 /\ warpAt[w] # 1 /\ warpAt[w] # 2 /\ warpAt[w] # 3 /\ ~ (warpAt[w] \in 3..(3 + ScanSteps))
        /\ warpAt[w] # 4 + ScanSteps /\ warpAt[w] # 6 + ScanSteps /\ warpAt[w] # 7 + ScanSteps
    BY <1>1, <1>3
  <2>2. scanned' = scanned /\ out'.list = out.list /\ out'.splits = out.splits /\ out'.info = out.info
    BY <1>1, <1>8
  <2>. HIDE DEF mine
  <2>. QED
    BY <1>4, <1>7, <2>1, <2>2, KeptPart
<1>. QED
  BY <1>5, <1>9, <1>15, <1>16 DEF ScheduleIInv

(* Warp 0 writes the summary.                                              *)
LEMMA StepWriteInfo == ASSUME ScheduleIInv, NEW w \in Warp, WriteInfo(w) PROVE ScheduleIInv'
<1>. DEFINE info == [split |-> sm.split, chunk |-> sm.chunk,
                     padded |-> IF req.graph /\ sm.split
                                THEN Largest({sm.count, 1, req.grid \div req.heads}) ELSE sm.count,
                     maxSplits |-> Largest({sm.warpSplits[v] : v \in Warp} \cup {1}),
                     rows |-> QTokens * sm.slots[Size - 1]]
<1>1. /\ warpAt[w] = 6 + ScanSteps /\ Synced(w) /\ warpAt' = [warpAt EXCEPT ![w] = @ + 1] /\ req' = req
      /\ out' = IF w # 0 THEN out ELSE [out EXCEPT !.info = info]
      /\ sm' = sm /\ scanned' = scanned
  BY DEF WriteInfo, WarpDoes
<1>2. Shape /\ Assumed /\ WidestRight /\ PointersRight
  BY DEF ScheduleIInv
<1>3. ScanSteps \in Nat
  BY <1>2, ScanRoundsRight
<1>4. WarpMoves(w)
  BY <1>1, <1>3 DEF WarpMoves
<1>5. /\ Assumed' /\ StepApart' /\ warpAt' \in [Warp' -> 0..(8 + ScanSteps')] /\ 0 \in Warp
      /\ \A v \in Warp : /\ warpAt[v] >= 4 + ScanSteps /\ warpAt[v] >= 5 + ScanSteps /\ warpAt[v] >= 6 + ScanSteps
                         /\ v # w => warpAt'[v] = warpAt[v]
  BY <1>1, <1>3, <1>4, WarpMovesRight
<1>6. /\ Size' = Size /\ Batch' = Batch /\ Warp' = Warp /\ Thread' = Thread /\ PadWork' = PadWork
      /\ ScanSteps' = ScanSteps /\ QTiles' = QTiles
  BY <1>1, CallKept
<1>7. /\ out'.list = out.list /\ out'.splits = out.splits /\ out'.oIndptr = out.oIndptr /\ out'.merge = out.merge
      /\ out'.info = (IF w # 0 THEN out.info ELSE info)
      /\ out' = [list |-> out'.list, splits |-> out'.splits, oIndptr |-> out'.oIndptr,
                 merge |-> out'.merge, info |-> out'.info]
  <2>. HIDE DEF info
  <2>. QED
    BY <1>1, <1>2 DEF Shape
<1>8. Shape'
  BY <1>1, <1>2, <1>5, <1>6, <1>7 DEF Shape, Function
<1>9. CountedRight' /\ ReducedRight' /\ ChosenRight' /\ SplitRight' /\ ScannedRight' /\ WidestRight'
      /\ PointersRight' /\ WorkListed' /\ (w # 0 => InfoRight')
  <2>1. /\ warpAt[w] # 0 /\ warpAt[w] # 1 /\ warpAt[w] # 2 /\ warpAt[w] # 3 /\ ~ (warpAt[w] \in 3..(3 + ScanSteps))
        /\ warpAt[w] # 4 + ScanSteps /\ warpAt[w] # 5 + ScanSteps /\ warpAt[w] # 7 + ScanSteps
    BY <1>1, <1>3
  <2>2. w # 0 => out'.info = out.info
    BY <1>7
  <2>. HIDE DEF info
  <2>. QED
    BY <1>1, <1>4, <1>7, <2>1, <2>2, KeptPart
<1>10. /\ ChunkChosen /\ \A b \in Batch : sm.slots[b] = QTiles * Prior(b + 1)
  BY <1>5, ScanOver
<1>11. /\ \A t \in Thread : WarpOf(t) \in Warp /\ t \in ThreadsOf(WarpOf(t))
       /\ \A v \in Warp : \A t \in ThreadsOf(v) : t \in Thread
       /\ Batch \subseteq Thread /\ Thread = 0..(Tpb - 1) /\ Tpb \in Nat
       /\ Size \in Nat \ {0} /\ Size <= Tpb /\ Batch = 0..(Size - 1) /\ QTiles \in Nat \ {0} /\ QTokens \in Nat
       /\ req.grid \in Nat /\ req.heads \in Nat \ {0}
  BY <1>2, ThreadsOfWarps, Arguments DEF Thread, Batch
<1>12. Prior(Size) \in Nat /\ QTiles * Prior(Size) \in Nat
  <2>1. Size \in 0..Tpb
    BY <1>11
  <2>2. Prior(Size) \in Nat
    BY <1>2, <1>10, <2>1, FirstRight
  <2>. QED
    BY <1>11, <2>2, Product
<1>13. sm.count = QTiles * Prior(Size) /\ sm.slots[Size - 1] = QTiles * Prior(Size)
  <2>1. Size - 1 \in Batch /\ (Size - 1) + 1 = Size
    BY <1>11
  <2>2. WarpOf(Size - 1) \in Warp /\ Size - 1 \in ThreadsOf(WarpOf(Size - 1))
    BY <1>11, <2>1
  <2>3. sm.count = QTiles * Prior(Size)
    BY <1>2, <1>5, <2>2 DEF PointersRight
  <2>4. sm.slots[Size - 1] = QTiles * Prior(Size)
    BY <1>10, <2>1
  <2>. QED
    BY <2>3, <2>4
<1>14. /\ info.padded \in Nat /\ info.padded >= sm.count
       /\ ~ req.graph => info.padded = sm.count
  <2>. DEFINE g == req.grid \div req.heads  S == {sm.count, 1, g}
  <2>1. g \in Nat /\ sm.count \in Nat
    <3>1. g \in Nat
      BY <1>11, Euclid
    <3>. QED
      BY <1>12, <1>13, <3>1
  <2>2. S \in SUBSET Nat /\ S # {} /\ sm.count \in S /\ \A y \in S : y <= sm.count + 1 + g
    BY <2>1
  <2>3. Largest(S) \in Nat /\ Largest(S) >= sm.count
    <3>1. sm.count + 1 + g \in Nat
      BY <2>1
    <3>. HIDE DEF S
    <3>2. Largest(S) \in S /\ \A y \in S : y <= Largest(S)
      BY <2>2, <3>1, LargestRight
    <3>. QED
      BY <2>2, <3>2
  <2>4. info.padded = IF req.graph /\ sm.split THEN Largest(S) ELSE sm.count
    OBVIOUS
  <2>. HIDE DEF S, g, info
  <2>. QED
    BY <2>1, <2>3, <2>4
<1>15. info.maxSplits = Largest({Pieces(b) : b \in Batch})
  <2>. DEFINE P == {Pieces(b) : b \in Batch}
              M == {sm.warpSplits[v] : v \in Warp} \cup {1}
              m == Largest(P)
  <2>1. /\ \A t \in Thread : Pieces(t) \in Nat
        /\ \A b \in Batch : Pieces(b) > 0 /\ Prior(b) + Pieces(b) <= Prior(Size) /\ Prior(b) \in Nat
    <3>1. \A b \in Batch : b \in 0..Tpb
      BY <1>11
    <3>. QED
      BY <1>2, <1>10, <3>1, FirstRight
  <2>2. P \in SUBSET Nat /\ P # {} /\ \A y \in P : y <= Prior(Size)
    <3>1. 0 \in Batch
      BY <1>11
    <3>2. \A b \in Batch : Pieces(b) \in Nat
      BY <1>11, <2>1
    <3>3. \A b \in Batch : Pieces(b) <= Prior(Size)
      BY <1>12, <2>1, <3>2
    <3>. QED
      BY <3>1, <3>2, <3>3
  <2>3. m \in P /\ \A y \in P : y <= m
    <3>. HIDE DEF P
    <3>. QED
      BY <1>12, <2>2, LargestRight
  <2>4. PICK b \in Batch : m = Pieces(b)
    BY <2>3
  <2>5. m \in Nat \ {0}
    BY <1>11, <2>1, <2>4
  <2>6. ASSUME NEW t \in Thread PROVE Pieces(t) \in Nat /\ Pieces(t) <= m
    <3>1. CASE t \in Batch
      BY <2>1, <2>3, <2>6, <3>1
    <3>2. CASE t \notin Batch
      BY <2>5, <3>2 DEF Pieces
    <3>. QED
      BY <3>1, <3>2
  <2>. HIDE DEF m
  <2>7. ASSUME NEW v \in Warp, ThreadsOf(v) # {}
        PROVE  /\ sm.warpSplits[v] \in Nat /\ sm.warpSplits[v] <= m
               /\ \A t \in ThreadsOf(v) : Pieces(t) <= sm.warpSplits[v]
    <3>. DEFINE S == {Pieces(t) : t \in ThreadsOf(v)}
    <3>1. sm.warpSplits[v] = Largest(S)
      BY <1>2, <1>5 DEF WidestRight
    <3>2. S \in SUBSET Nat /\ S # {} /\ \A y \in S : y <= m
      BY <1>11, <2>6, <2>7
    <3>3. \A t \in ThreadsOf(v) : Pieces(t) \in S
      OBVIOUS
    <3>. HIDE DEF S
    <3>4. Largest(S) \in S /\ \A y \in S : y <= Largest(S)
      BY <2>5, <3>2, LargestRight
    <3>. QED
      BY <3>1, <3>2, <3>3, <3>4
  <2>8. ASSUME NEW v \in Warp PROVE ThreadsOf(v) # {}
    <3>1. v \in Nat /\ WarpSize \in Nat \ {0}
      BY <1>2, ThreadsOfWarps, Arguments DEF Warp
    <3>2. v * WarpSize \in Nat
      BY <3>1, Product
    <3>3. v * WarpSize \in ThreadsOf(v)
      <4>. DEFINE c == v * WarpSize
      <4>1. c \in Nat
        BY <3>2
      <4>2. ThreadsOf(v) = c..(c + WarpSize - 1)
        BY DEF ThreadsOf
      <4>. HIDE DEF c
      <4>3. c \in ThreadsOf(v)
        BY <3>1, <4>1, <4>2
      <4>. QED
        BY <4>3 DEF c
    <3>. QED
      BY <3>3
  <2>9. M \in SUBSET Nat /\ \A y \in M : y <= m
    BY <2>5, <2>7, <2>8
  <2>10. m \in M
    <3>1. WarpOf(b) \in Warp /\ b \in ThreadsOf(WarpOf(b))
      BY <1>11
    <3>2. sm.warpSplits[WarpOf(b)] = m
      BY <2>4, <2>5, <2>7, <2>8, <3>1
    <3>. QED
      BY <3>1, <3>2
  <2>11. Largest(M) = m
    <3>. HIDE DEF M
    <3>. QED
      BY <2>9, <2>10, LargestIs
  <2>. QED
    BY <2>11 DEF m
<1>16. info.split = sm.split /\ info.chunk = sm.chunk /\ info.rows = QTokens * (QTiles * Prior(Size))
  BY <1>13
<1>17. CASE w = 0
  <2>1. InfoRight'
    <3>1. out'.info = info
      BY <1>7, <1>17
    <3>2. {Pieces(b) : b \in Batch}' = {Pieces(b) : b \in Batch} /\ Prior(Size)' = Prior(Size)
      <4>1. /\ \A t : Pieces(t)' = Pieces(t)
            /\ \A n : Prior(n)' = Prior(n)
        BY <1>1, PiecesKept
      <4>. QED
        BY <1>6, <4>1
    <3>. HIDE DEF info
    <3>3. Largest({Pieces(b) : b \in Batch}') = Largest({Pieces(b) : b \in Batch})
      BY <3>2, Zenon
    <3>. QED
      BY <1>1, <1>6, <1>13, <1>14, <1>15, <1>16, <3>1, <3>2, <3>3 DEF InfoRight
  <2>. QED
    BY <1>5, <1>8, <1>9, <2>1 DEF ScheduleIInv
<1>18. CASE w # 0
  BY <1>5, <1>8, <1>9, <1>18 DEF ScheduleIInv
<1>. QED
  BY <1>17, <1>18

(* The list is long enough for the pieces.                                 *)
LEMMA WorkFits ==
    ASSUME Assumed, ChunkChosen
    PROVE  /\ Prior(Size) \in Nat /\ QTiles * Prior(Size) <= PadWork /\ PadWork \in Nat
<1>. DEFINE M == Larger(CeilDiv(req.maxLen, PageSize), 1)
            f == [b \in Batch |-> M]  one == [b \in Batch |-> 1]
<1>1. /\ Size \in Nat \ {0} /\ QTiles \in Nat \ {0} /\ Batch = 0..(Size - 1) /\ Size <= Tpb
      /\ Batch \subseteq Thread /\ Tpb \in Nat
  BY Arguments, ThreadsOfWarps DEF Batch
<1>2. IsFiniteSet(Batch) /\ Cardinality(Batch) = Size
  BY <1>1, FS_Interval
<1>3. M \in Nat
  <2>1. CeilDiv(req.maxLen, PageSize) \in Nat
    BY Arguments, CeilDivRight
  <2>. QED
    BY <2>1 DEF Larger
<1>4. \A b \in Batch : Pieces(b) \in Nat /\ Pieces(b) <= M
  <2>1. \A b \in Batch : Pieces(b) \in Nat /\ Pieces(b) <= Pages(b)
    BY <1>1, FirstRight
  <2>2. \A b \in Batch : Pages(b) \in Nat /\ Pages(b) <= M
    BY PagesRight
  <2>. HIDE DEF M
  <2>. QED
    BY <1>3, <2>1, <2>2
<1>5. Total(one, Batch) = Size
  <2>1. \A b \in Batch : one[b] = 1
    OBVIOUS
  <2>. HIDE DEF one
  <2>. QED
    BY <1>2, <2>1, TotalOnes
<1>6. Total(f, Batch) = M * Size
  <2>1. \A b \in Batch : f[b] \in Int /\ one[b] \in Int
    BY <1>3
  <2>2. \A b \in Batch : f[b] = M * one[b]
    BY <1>3
  <2>3. M \in Int
    BY <1>3
  <2>. HIDE DEF f, one, M
  <2>4. Total(f, Batch) = M * Total(one, Batch)
    BY <1>2, <2>1, <2>2, <2>3, TotalTimes
  <2>. QED
    BY <1>5, <2>4
<1>7. Prior(Size) = Total(PieceOf, Batch)
  BY DEF Prior, Batch
<1>8. Total(PieceOf, Batch) <= Total(f, Batch)
  <2>1. \A b \in Batch : PieceOf[b] = Pieces(b) /\ f[b] = M
    BY <1>1 DEF PieceOf
  <2>. HIDE DEF f, M
  <2>2. \A b \in Batch : PieceOf[b] \in Int /\ f[b] \in Int
    BY <1>3, <1>4, <2>1
  <2>3. \A b \in Batch : PieceOf[b] <= f[b]
    BY <1>4, <2>1
  <2>. QED
    BY <1>2, <2>2, <2>3, TotalMore
<1>9. Prior(Size) \in Nat
  <2>1. Size \in 0..Tpb
    BY <1>1
  <2>. QED
    BY <2>1, FirstRight
<1>. DEFINE n == Prior(Size)
<1>10. n <= M * Size
  BY <1>6, <1>7, <1>8
<1>11. PadWork = Size * QTiles * M
  BY DEF PadWork
<1>. HIDE DEF M
<1>12. M * Size \in Nat /\ QTiles * n <= QTiles * (M * Size)
  <2>1. M * Size \in Nat
    BY <1>1, <1>3, Product
  <2>. HIDE DEF n
  <2>2. n \in Nat
    BY <1>9 DEF n
  <2>. QED
    BY <1>1, <1>10, <2>1, <2>2, Product
<1>13. QTiles * (M * Size) = Size * QTiles * M
  BY <1>1, <1>3
<1>14. QTiles * (M * Size) \in Nat
  BY <1>1, <1>12, Product
<1>. QED
  BY <1>9, <1>11, <1>12, <1>13, <1>14

\* Where the piece of a request is in the list.
PiecePlace(b, q, kv) == QTiles * Prior(b) + q * Pieces(b) + kv

(* The pieces of a request have the places from QTiles times the pieces    *)
(* before it.                                                              *)
LEMMA PiecePlaceRight ==
    ASSUME Assumed, ChunkChosen, NEW b \in Batch, NEW q \in 0..(QTiles - 1), NEW kv \in 0..(Pieces(b) - 1)
    PROVE  /\ PiecePlace(b, q, kv) \in Nat
           /\ QTiles * Prior(b) <= PiecePlace(b, q, kv) /\ PiecePlace(b, q, kv) < QTiles * Prior(b + 1)
           /\ PiecePlace(b, q, kv) < QTiles * Prior(Size)
           /\ (PiecePlace(b, q, kv) - QTiles * Prior(b)) \div Pieces(b) = q
           /\ (PiecePlace(b, q, kv) - QTiles * Prior(b)) % Pieces(b) = kv
<1>. DEFINE P == Pieces(b)  F == Prior(b)  G == Prior(b + 1)  H == Prior(Size)
<1>1. /\ QTiles \in Nat \ {0} /\ Batch \subseteq Thread /\ Size \in Nat /\ Batch = 0..(Size - 1) /\ Size <= Tpb
      /\ Tpb \in Nat
  BY Arguments, ThreadsOfWarps DEF Batch
<1>2. P \in Nat \ {0} /\ F \in Nat /\ G = F + P /\ H \in Nat /\ G <= H
  <2>1. b \in Thread /\ b \in 0..Tpb /\ Size \in 0..Tpb
    BY <1>1
  <2>. QED
    BY <2>1, FirstRight
<1>. HIDE DEF P, F, G, H
<1>3. QTiles * F \in Nat /\ q * P \in Nat /\ QTiles * P \in Nat /\ QTiles * G = QTiles * F + QTiles * P
      /\ QTiles * G <= QTiles * H /\ QTiles * H \in Nat /\ q * P = P * q /\ QTiles * P = P * QTiles
  <2>1. QTiles * F \in Nat /\ q * P \in Nat /\ QTiles * P \in Nat /\ QTiles * H \in Nat
        /\ q * P = P * q /\ QTiles * P = P * QTiles
    BY <1>1, <1>2, Product
  <2>2. QTiles * (F + P) = QTiles * F + QTiles * P
    BY <1>1, <1>2
  <2>3. QTiles * G <= QTiles * H
    <3>1. G \in Nat
      BY <1>2
    <3>. QED
      BY <1>1, <1>2, <3>1, Product
  <2>. QED
    BY <1>2, <2>1, <2>2, <2>3
<1>. DEFINE a == q * P + kv
<1>4. kv \in Nat /\ kv < P /\ q \in Nat /\ q < QTiles
  BY <1>1, <1>2 DEF P
<1>5. q * P + P <= QTiles * P
  BY <1>1, <1>2, <1>4, Groups
<1>6. a \in Nat /\ q * P <= a /\ a < q * P + P /\ a < QTiles * P /\ a - q * P = kv
  BY <1>2, <1>3, <1>4, <1>5
<1>7. a \div P = q /\ a % P = kv
  BY <1>2, <1>4, <1>6, QuotientOf
<1>8. PiecePlace(b, q, kv) = QTiles * F + a
  BY <1>3, <1>4 DEF PiecePlace, P, F
<1>. HIDE DEF a
<1>9. /\ QTiles * F + a \in Nat /\ QTiles * F <= QTiles * F + a /\ QTiles * F + a < QTiles * G
      /\ QTiles * F + a < QTiles * H /\ (QTiles * F + a) - QTiles * F = a
  <2>. DEFINE x == QTiles * F  y == QTiles * G  z == QTiles * H  d == QTiles * P
  <2>1. x \in Nat /\ d \in Nat /\ y = x + d /\ y <= z /\ z \in Nat /\ a \in Nat /\ a < d
    BY <1>3, <1>6
  <2>. HIDE DEF x, y, z, d
  <2>2. x + a \in Nat /\ x <= x + a /\ x + a < y /\ x + a < z /\ (x + a) - x = a
    BY <2>1
  <2>. QED
    BY <2>2 DEF x, y, z
<1>. QED
  BY <1>7, <1>8, <1>9 DEF P, F, G, H

(* A place of the list is taken by its piece.                              *)
LEMMA PieceRight ==
    ASSUME Assumed, ChunkChosen, \A t \in Thread : sm.splits[t] = Pieces(t),
           NEW b \in Batch, NEW q \in 0..(QTiles - 1), NEW kv \in 0..(Pieces(b) - 1)
    PROVE  PieceAt(PiecePlace(b, q, kv)) = [b |-> b, q |-> q, kv |-> kv, mask |-> 1]
<1>. DEFINE i == PiecePlace(b, q, kv)
<1>1. /\ QTiles \in Nat \ {0} /\ Batch \subseteq Thread /\ Thread = 0..(Tpb - 1) /\ Tpb \in Nat
      /\ Size \in Nat \ {0} /\ Batch = 0..(Size - 1) /\ Size <= Tpb
  BY Arguments, ThreadsOfWarps DEF Batch, Thread
<1>2. \A t \in Thread : Pieces(t) \in Nat
  BY FirstRight
<1>3. ASSUME NEW n \in 0..Size PROVE Before(n) = QTiles * Prior(n)
  <2>. DEFINE S == 0..(n - 1)  f == [c \in S |-> sm.splits[c] * QTiles]
  <2>1. IsFiniteSet(S) /\ S \subseteq Thread
    <3>1. n \in Nat /\ n <= Tpb
      BY <1>1
    <3>2. S \subseteq Thread
      BY <1>1, <3>1
    <3>. QED
      BY <3>1, <3>2, FS_Interval
  <2>2. ASSUME NEW c \in S PROVE PieceOf[c] = Pieces(c) /\ Pieces(c) \in Nat /\ f[c] = Pieces(c) * QTiles
    BY <1>2, <2>1 DEF PieceOf
  <2>3. ASSUME NEW c \in S PROVE Pieces(c) * QTiles = QTiles * Pieces(c) /\ QTiles * Pieces(c) \in Nat
    BY <1>1, <2>2, Product
  <2>4. Before(n) = Total(f, S) /\ Prior(n) = Total(PieceOf, S)
    BY DEF Before, Prior
  <2>. HIDE DEF f, S
  <2>5. \A c \in S : PieceOf[c] \in Int /\ f[c] \in Int
    BY <2>2, <2>3
  <2>6. \A c \in S : f[c] = QTiles * PieceOf[c]
    BY <2>2, <2>3
  <2>7. QTiles \in Int
    BY <1>1
  <2>8. Total(f, S) = QTiles * Total(PieceOf, S)
    BY <2>1, <2>5, <2>6, <2>7, TotalTimes
  <2>. QED
    BY <2>4, <2>8
<1>4. /\ i \in Nat /\ QTiles * Prior(b) <= i /\ i < QTiles * Prior(b + 1)
      /\ (i - QTiles * Prior(b)) \div Pieces(b) = q
      /\ (i - QTiles * Prior(b)) % Pieces(b) = kv
  BY PiecePlaceRight
<1>. DEFINE beyond == {c \in Batch : i < Before(c + 1)}
<1>5. b \in beyond
  <2>1. b + 1 \in 0..Size
    BY <1>1
  <2>. QED
    BY <1>3, <1>4, <2>1
<1>6. ASSUME NEW c \in beyond PROVE b <= c
  <2>1. c \in Batch /\ c \in Nat /\ b \in Nat /\ c + 1 \in 0..Size
    BY <1>1
  <2>2. i < QTiles * Prior(c + 1)
    BY <1>3, <2>1
  <2>3. ASSUME c < b PROVE FALSE
    <3>1. c \in 0..(b - 1) /\ c \in Thread /\ b \in 0..Tpb /\ c + 1 \in 0..Tpb
      BY <1>1, <2>1, <2>3
    <3>2. /\ Prior(c + 1) = Prior(c) + Pieces(c) /\ Prior(c) + Pieces(c) <= Prior(b)
          /\ Prior(b) \in Nat /\ Prior(c + 1) \in Nat
      BY <3>1, FirstRight
    <3>. DEFINE F == Prior(c + 1)  G == Prior(b)
    <3>3. F \in Nat /\ G \in Nat /\ F <= G
      BY <3>2
    <3>4. i < QTiles * F /\ QTiles * G <= i
      BY <1>4, <2>2
    <3>. HIDE DEF F, G, i
    <3>5. QTiles * F <= QTiles * G /\ QTiles * F \in Nat /\ QTiles * G \in Nat
      BY <1>1, <3>3, Product
    <3>. QED
      BY <1>4, <3>4, <3>5
  <2>. QED
    BY <2>1, <2>3
<1>7. Smallest(beyond) = b /\ beyond # {}
  <2>1. beyond \in SUBSET Nat
    BY <1>1
  <2>2. b \in Nat
    BY <1>1
  <2>. HIDE DEF beyond
  <2>3. Smallest(beyond) \in beyond /\ \A y \in beyond : Smallest(beyond) <= y
    BY <1>5, <2>1, SmallestRight
  <2>4. b <= Smallest(beyond) /\ Smallest(beyond) <= b /\ Smallest(beyond) \in Nat
    BY <1>5, <1>6, <2>1, <2>3
  <2>. QED
    BY <1>5, <2>2, <2>4
<1>8. Before(b) = QTiles * Prior(b)
  <2>1. b \in 0..Size
    BY <1>1
  <2>. QED
    BY <1>3, <2>1
<1>9. sm.splits[b] = Pieces(b)
  BY <1>1
<1>10. PieceAt(i) = [b |-> Smallest(beyond), q |-> (i - Before(b)) \div sm.splits[b],
                     kv |-> (i - Before(b)) % sm.splits[b], mask |-> 1]
  <2>. DEFINE c == IF beyond = {} THEN 0 ELSE Smallest(beyond)
              d == IF beyond = {} THEN Before(Size) ELSE Before(c)
  <2>1. PieceAt(i) = [b |-> c, q |-> (i - d) \div sm.splits[c], kv |-> (i - d) % sm.splits[c], mask |-> 1]
    BY DEF PieceAt
  <2>. HIDE DEF beyond, i
  <2>2. c = b
    BY <1>7
  <2>3. d = Before(b)
    <3>1. d = Before(c)
      BY <1>7
    <3>. HIDE DEF c, d
    <3>. QED
      BY <2>2, <3>1, Zenon
  <2>. HIDE DEF c, d
  <2>. QED
    BY <1>7, <2>1, <2>2, <2>3
<1>. HIDE DEF beyond, i
<1>11. PieceAt(i) = [b |-> b, q |-> q, kv |-> kv, mask |-> 1]
  BY <1>4, <1>7, <1>8, <1>9, <1>10
<1>. QED
  BY <1>11 DEF i

(* The threads of a warp write the pieces they have.                       *)
LEMMA StepWriteList == ASSUME ScheduleIInv, NEW w \in Warp, WriteList(w) PROVE ScheduleIInv'
<1>1. /\ warpAt[w] = 7 + ScanSteps /\ Synced(w) /\ warpAt' = [warpAt EXCEPT ![w] = @ + 1] /\ req' = req
      /\ out' = [out EXCEPT !.list = [i \in DOMAIN out.list |->
                    IF i < sm.count /\ i % Tpb \in ThreadsOf(w) THEN PieceAt(i) ELSE out.list[i]]]
      /\ sm' = sm /\ scanned' = scanned
  BY DEF WriteList, WarpDoes
<1>2. Shape /\ Assumed /\ PointersRight /\ WorkListed
  BY DEF ScheduleIInv
<1>3. ScanSteps \in Nat
  BY <1>2, ScanRoundsRight
<1>4. WarpMoves(w)
  BY <1>1, <1>3 DEF WarpMoves
<1>5. /\ Assumed' /\ StepApart' /\ warpAt' \in [Warp' -> 0..(8 + ScanSteps')] /\ 0 \in Warp
      /\ \A v \in Warp : warpAt[v] >= 4 + ScanSteps /\ warpAt[v] >= 6 + ScanSteps /\ (v # w => warpAt'[v] = warpAt[v])
  BY <1>1, <1>3, <1>4, WarpMovesRight
<1>6. /\ Size' = Size /\ Batch' = Batch /\ Warp' = Warp /\ Thread' = Thread /\ PadWork' = PadWork
      /\ ScanSteps' = ScanSteps /\ QTiles' = QTiles /\ Tpb' = Tpb
  BY <1>1, CallKept
<1>7. /\ out'.list = [i \in 0..(PadWork - 1) |->
                    IF i < sm.count /\ i % Tpb \in ThreadsOf(w) THEN PieceAt(i) ELSE out.list[i]]
      /\ out'.splits = out.splits /\ out'.oIndptr = out.oIndptr /\ out'.merge = out.merge
      /\ out'.info = out.info
      /\ out' = [list |-> out'.list, splits |-> out'.splits, oIndptr |-> out'.oIndptr,
                 merge |-> out'.merge, info |-> out'.info]
  <2>1. DOMAIN out.list = 0..(PadWork - 1)
    BY <1>2 DEF Shape, Function
  <2>. QED
    BY <1>1, <1>2, <2>1 DEF Shape
<1>8. Shape'
  BY <1>1, <1>2, <1>5, <1>6, <1>7 DEF Shape, Function
<1>9. CountedRight' /\ ReducedRight' /\ ChosenRight' /\ SplitRight' /\ ScannedRight' /\ WidestRight'
      /\ PointersRight' /\ InfoRight'
  <2>1. /\ warpAt[w] # 0 /\ warpAt[w] # 1 /\ warpAt[w] # 2 /\ warpAt[w] # 3 /\ ~ (warpAt[w] \in 3..(3 + ScanSteps))
        /\ warpAt[w] # 4 + ScanSteps /\ warpAt[w] # 5 + ScanSteps /\ warpAt[w] # 6 + ScanSteps
    BY <1>1, <1>3
  <2>. QED
    BY <1>1, <1>4, <1>7, <2>1, KeptPart
<1>10. ChunkChosen /\ \A t \in Thread : sm.splits[t] = Pieces(t)
  BY <1>5, ScanOver
<1>11. sm.count = QTiles * Prior(Size) /\ sm.count <= PadWork /\ PadWork \in Nat /\ sm.count \in Int
  <2>1. Size - 1 \in Thread
    BY <1>2, ThreadsOfWarps, Arguments DEF Batch
  <2>2. WarpOf(Size - 1) \in Warp /\ Size - 1 \in ThreadsOf(WarpOf(Size - 1))
    BY <1>2, <2>1, ThreadsOfWarps
  <2>3. sm.count = QTiles * Prior(Size)
    BY <1>2, <1>5, <2>2 DEF PointersRight
  <2>4. Prior(Size) \in Nat /\ QTiles \in Nat
    BY <1>2, <1>10, WorkFits, Arguments
  <2>5. QTiles * Prior(Size) \in Nat
    BY <2>4, Product
  <2>. QED
    BY <1>2, <1>10, <2>3, <2>5, WorkFits
<1>12. \A v \in Warp : \A t \in ThreadsOf(v) : v # w => t \notin ThreadsOf(w)
  BY <1>2, ThreadsOfWarps
<1>13. /\ \A t : Pieces(t)' = Pieces(t)
       /\ \A n : Prior(n)' = Prior(n)
  BY <1>1, PiecesKept
<1>14. WorkListed'
  <2>1. ASSUME NEW v \in Warp, warpAt'[v] >= 8 + ScanSteps,
               NEW b \in Batch, NEW q \in 0..(QTiles - 1), NEW kv \in 0..(Pieces(b) - 1),
               PiecePlace(b, q, kv) % Tpb \in ThreadsOf(v)
        PROVE  out'.list[PiecePlace(b, q, kv)] = [b |-> b, q |-> q, kv |-> kv, mask |-> 1]
    <3>. DEFINE i == PiecePlace(b, q, kv)
    <3>1. i \in Nat /\ i < sm.count
      BY <1>2, <1>10, <1>11, PiecePlaceRight
    <3>2. i \in 0..(PadWork - 1)
      BY <1>11, <3>1
    <3>3. CASE v = w
      <4>1. PieceAt(i) = [b |-> b, q |-> q, kv |-> kv, mask |-> 1]
        BY <1>2, <1>10, PieceRight
      <4>. HIDE DEF i
      <4>2. out'.list[i] = PieceAt(i)
        BY <1>7, <2>1, <3>1, <3>2, <3>3 DEF i
      <4>. QED
        BY <4>1, <4>2 DEF i
    <3>4. CASE v # w
      <4>1. out'.list[i] = out.list[i]
        <5>1. ~ (i % Tpb \in ThreadsOf(w))
          BY <1>12, <2>1, <3>4
        <5>. HIDE DEF i
        <5>. QED
          BY <1>7, <3>2, <5>1
      <4>2. warpAt[v] >= 8 + ScanSteps
        BY <1>5, <2>1, <3>4
      <4>3. out.list[i] = [b |-> b, q |-> q, kv |-> kv, mask |-> 1]
        BY <1>2, <2>1, <4>2 DEF WorkListed, PiecePlace
      <4>. QED
        BY <4>1, <4>3
    <3>. QED
      BY <3>3, <3>4
  <2>2. ASSUME NEW v \in Warp, warpAt'[v] >= 8 + ScanSteps,
               NEW b \in Batch, NEW q \in 0..(QTiles - 1), NEW kv \in 0..(Pieces(b) - 1)
        PROVE  LET i == QTiles * Prior(b) + q * Pieces(b) + kv
               IN i % Tpb \in ThreadsOf(v) => out'.list[i] = [b |-> b, q |-> q, kv |-> kv, mask |-> 1]
    BY <2>1, <2>2 DEF PiecePlace
  <2>3. \A v : ThreadsOf(v)' = ThreadsOf(v)
    BY DEF ThreadsOf
  <2>. QED
    BY <1>6, <1>13, <2>2, <2>3 DEF WorkListed
<1>. QED
  BY <1>5, <1>8, <1>9, <1>14 DEF ScheduleIInv

(* A step of the other kernels leaves the schedule alone.                  *)
LEMMA ScheduleKept == ASSUME ScheduleIInv, scheduleVars' = scheduleVars PROVE ScheduleIInv'
<1>1. req' = req /\ warpAt' = warpAt /\ sm' = sm /\ scanned' = scanned /\ out' = out
  BY DEF scheduleVars
<1>2. /\ Size' = Size /\ QTiles' = QTiles /\ CtaWarps' = CtaWarps /\ Tpb' = Tpb
      /\ Batch' = Batch /\ Warp' = Warp /\ Thread' = Thread /\ Shuffled' = Shuffled
      /\ ScanSteps' = ScanSteps /\ PadWork' = PadWork
      /\ (\A b : Pages(b)' = Pages(b)) /\ PagesAt' = PagesAt /\ Assumed' = Assumed
  BY <1>1, CallKept
<1>3. /\ \A t : Pieces(t)' = Pieces(t)
      /\ \A n : Prior(n)' = Prior(n)
      /\ \A t, off : Span(t, off)' = Span(t, off)
  BY <1>1, PiecesKept
<1>4. \A v : ThreadsOf(v)' = ThreadsOf(v) /\ Offset(v)' = Offset(v)
  BY <1>1, <1>2 DEF ThreadsOf, Offset
<1>5. Assumed' /\ Shape' /\ StepApart' /\ CountedRight'
  BY <1>1, <1>2, <1>4 DEF ScheduleIInv, Shape, Function, StepApart, CountedRight
<1>6. ReducedRight'
  <2>1. ReducedRight
    BY DEF ScheduleIInv
  <2>2. ASSUME NEW v
        PROVE  {Pages(t) : t \in ThreadsOf(v) \cap Batch}' = {Pages(t) : t \in ThreadsOf(v) \cap Batch}
    BY <1>2
  <2>3. ASSUME NEW v \in Warp, warpAt[v] >= 2
        PROVE  /\ sm.warpMax[v] = Largest({Pages(t) : t \in ThreadsOf(v) \cap Batch}' \cup {0})
               /\ sm.warpSum[v] = Total(PagesAt', ThreadsOf(v) \cap Batch')
    <3>. DEFINE S == {Pages(t) : t \in ThreadsOf(v) \cap Batch}
    <3>1. sm.warpMax[v] = Largest(S \cup {0}) /\ sm.warpSum[v] = Total(PagesAt, ThreadsOf(v) \cap Batch)
      BY <2>1, <2>3 DEF ReducedRight
    <3>2. S' = S
      BY <2>2
    <3>. HIDE DEF S
    <3>3. sm.warpMax[v] = Largest(S' \cup {0}) /\ sm.warpSum[v] = Total(PagesAt', ThreadsOf(v) \cap Batch')
      BY <1>2, <3>1, <3>2
    <3>. QED
      BY <3>3 DEF S
  <2>. QED
    BY <1>1, <1>2, <2>3 DEF ReducedRight
<1>7. ChosenRight'
  <2>1. Useful(sm.chunk, sm.split) => Useful(sm.chunk, sm.split)'
    BY <1>1, UsefulKept
  <2>. QED
    BY <1>1, <2>1 DEF ScheduleIInv, ChosenRight
<1>8. SplitRight'
  BY <1>1, <1>2, <1>3, <1>4 DEF ScheduleIInv, SplitRight
<1>9. ScannedRight'
  <2>1. ScannedRight
    BY DEF ScheduleIInv
  <2>2. ASSUME NEW v, NEW t
        PROVE  /\ Span(t, Offset(v))' = Span(t, Offset(v))
               /\ Span(t - Offset(v), Offset(v))' = Span(t - Offset(v), Offset(v))
    <3>1. Offset(v)' = Offset(v)
      BY <1>4
    <3>. HIDE DEF Offset
    <3>. QED
      BY <1>2, <1>3, <3>1 DEF Span
  <2>3. ASSUME NEW v \in Warp, warpAt'[v] >= 4, NEW t \in ThreadsOf(v)
        PROVE  /\ t \in Batch' \/ ~ Shuffled' => sm'.slots[t] = Span(t, Offset(v))'
               /\ warpAt'[v] < 4 + ScanSteps' /\ warpAt'[v] % 2 = 1 =>
                     scanned'[t] = IF t >= Offset(v)' THEN Span(t - Offset(v), Offset(v))' ELSE 0
    <3>1. /\ t \in Batch \/ ~ Shuffled => sm.slots[t] = Span(t, Offset(v))
          /\ warpAt[v] < 4 + ScanSteps /\ warpAt[v] % 2 = 1 =>
                scanned[t] = IF t >= Offset(v) THEN Span(t - Offset(v), Offset(v)) ELSE 0
      BY <1>1, <2>1, <2>3 DEF ScannedRight
    <3>. QED
      BY <1>1, <1>2, <1>4, <2>2, <3>1
  <2>. QED
    BY <1>1, <1>2, <1>4, <2>3 DEF ScannedRight
<1>10. WidestRight'
  <2>1. WidestRight
    BY DEF ScheduleIInv
  <2>2. ASSUME NEW v \in Warp, warpAt[v] >= 5 + ScanSteps
        PROVE  sm.warpSplits[v] = Largest({Pieces(t) : t \in ThreadsOf(v)})'
    <3>. DEFINE S == {Pieces(t) : t \in ThreadsOf(v)}
    <3>1. S' = S
      BY <1>3
    <3>2. sm.warpSplits[v] = Largest(S)
      BY <2>1, <2>2 DEF WidestRight
    <3>. HIDE DEF S
    <3>3. sm.warpSplits[v] = Largest(S)'
      BY <3>1, <3>2
    <3>. QED
      BY <3>3 DEF S
  <2>. QED
    BY <1>1, <1>2, <2>2 DEF WidestRight
<1>11. PointersRight'
  BY <1>1, <1>2, <1>3, <1>4 DEF ScheduleIInv, PointersRight
<1>12. InfoRight'
  <2>. DEFINE S == {Pieces(b) : b \in Batch}
  <2>1. S' = S
    BY <1>2, <1>3
  <2>2. InfoRight
    BY DEF ScheduleIInv
  <2>3. warpAt[0] >= 7 + ScanSteps => out.info.maxSplits = Largest(S)
    BY <2>2 DEF InfoRight
  <2>4. warpAt[0] >= 7 + ScanSteps => out.info.maxSplits = Largest(S')
    <3>. HIDE DEF S
    <3>. QED
      BY <2>1, <2>3
  <2>5. Prior(Size)' = Prior(Size)
    BY <1>2, <1>3
  <2>. QED
    BY <1>1, <1>2, <2>2, <2>4, <2>5 DEF InfoRight
<1>13. WorkListed'
  BY <1>1, <1>2, <1>3, <1>4 DEF ScheduleIInv, WorkListed
<1>. QED
  BY <1>5, <1>6, <1>7, <1>8, <1>9, <1>10, <1>11, <1>12, <1>13 DEF ScheduleIInv

(* Before the first step.                                                  *)
LEMMA ScheduleStart == ASSUME AttentionAssumption, ScheduleInit PROVE ScheduleIInv
<1>1. Assumed /\ warpAt = [w \in Warp |-> 0]
  BY DEF ScheduleInit, Assumed
<1>2. ScanSteps \in Nat /\ 0 \in Warp
  BY <1>1, ScanRoundsRight, ThreadsOfWarps
<1>3. /\ sm = [pages |-> [t \in Thread |-> -1], warpMax |-> [w \in Warp |-> -1],
             warpSum |-> [w \in Warp |-> -1], chunk |-> -1, split |-> FALSE,
             splits |-> [t \in Thread |-> -1], slots |-> [t \in Thread |-> -1],
             warpSplits |-> [w \in Warp |-> -1], count |-> -1]
      /\ scanned = [t \in Thread |-> 0]
  BY DEF ScheduleInit
<1>4. /\ Function(sm.pages, Thread) /\ Function(sm.warpMax, Warp) /\ Function(sm.warpSum, Warp)
      /\ Function(sm.splits, Thread) /\ Function(sm.slots, Thread) /\ Function(sm.warpSplits, Warp)
      /\ Function(scanned, Thread)
      /\ sm = [pages |-> sm.pages, warpMax |-> sm.warpMax, warpSum |-> sm.warpSum,
               chunk |-> sm.chunk, split |-> sm.split, splits |-> sm.splits, slots |-> sm.slots,
               warpSplits |-> sm.warpSplits, count |-> sm.count]
  BY <1>3 DEF Function
<1>5. /\ out = [list |-> out.list, splits |-> out.splits, oIndptr |-> out.oIndptr,
                merge |-> out.merge, info |-> out.info]
      /\ Function(out.list, 0..(PadWork - 1)) /\ Function(out.splits, Batch)
      /\ Function(out.oIndptr, 0..Size) /\ Function(out.merge, 0..(Size * req.seqlenQ))
  BY DEF ScheduleInit, Function
<1>6. warpAt \in [Warp -> 0..(8 + ScanSteps)] /\ \A v \in Warp : warpAt[v] = 0
  BY <1>1, <1>2
<1>7. Shape /\ StepApart
  BY <1>4, <1>5, <1>6 DEF Shape, StepApart
<1>8. CountedRight /\ ReducedRight /\ ChosenRight /\ SplitRight
  BY <1>2, <1>6 DEF CountedRight, ReducedRight, ChosenRight, SplitRight
<1>9. ScannedRight /\ WidestRight /\ PointersRight /\ InfoRight /\ WorkListed
  BY <1>2, <1>6 DEF ScannedRight, WidestRight, PointersRight, InfoRight, WorkListed
<1>. QED
  BY <1>1, <1>7, <1>8, <1>9 DEF ScheduleIInv

(* A step of the schedule kernel.                                          *)
LEMMA ScheduleStep == ASSUME ScheduleIInv, BuildNext PROVE ScheduleIInv'
<1>1. PICK w \in Warp : WarpStep(w)
  BY DEF BuildNext
<1>2. CASE CountPages(w)
  BY <1>2, StepCountPages
<1>3. CASE ReducePages(w)
  BY <1>3, StepReducePages
<1>4. CASE Decide(w)
  BY <1>4, StepDecide
<1>5. CASE CountSplits(w)
  BY <1>5, StepCountSplits
<1>6. CASE SlotsRead(w)
  BY <1>6, StepSlotsRead
<1>7. CASE SlotsAdd(w)
  BY <1>7, StepSlotsAdd
<1>8. CASE ReduceSplits(w)
  BY <1>8, StepReduceSplits
<1>9. CASE WritePointers(w)
  BY <1>9, StepWritePointers
<1>10. CASE WriteInfo(w)
  BY <1>10, StepWriteInfo
<1>11. CASE WriteList(w)
  BY <1>11, StepWriteList
<1>. QED
  BY <1>1, <1>2, <1>3, <1>4, <1>5, <1>6, <1>7, <1>8, <1>9, <1>10, <1>11 DEF WarpStep

(* Whatever the call, and however the warps interleave, they are within a  *)
(* step of each other, and what each has written by the step it has come   *)
(* to is right.                                                            *)
THEOREM ScheduleInvariance == ASSUME AttentionAssumption PROVE AttentionSpec => []ScheduleIInv
<1>1. AttentionInit => ScheduleIInv
  BY ScheduleStart DEF AttentionInit
<1>2. ScheduleIInv /\ [AttentionNext]_allVars => ScheduleIInv'
  <2>1. SUFFICES ASSUME ScheduleIInv, [AttentionNext]_allVars PROVE ScheduleIInv'
    OBVIOUS
  <2>2. CASE Build
    BY <2>1, <2>2, ScheduleStep DEF Build
  <2>3. CASE ~ Build
    <3>1. scheduleVars' = scheduleVars
      BY <2>1, <2>3 DEF AttentionNext, Launch, Attend, Attended, Combine, Stop, allVars
    <3>. QED
      BY <2>1, <3>1, ScheduleKept
  <2>. QED
    BY <2>2, <2>3
<1>. QED
  BY <1>1, <1>2, PTL DEF AttentionSpec

-----------------------------------------------------------------------------
(***************************************************************************)
(* What the schedule is when it is built.                                  *)
(***************************************************************************)
(* The pieces are those the summary speaks of.                             *)
LEMMA BuiltPieces ==
    ASSUME ScheduleIInv, Built
    PROVE  /\ Assumed /\ ChunkChosen
           /\ out.info.split = sm.split /\ out.info.chunk = sm.chunk
           /\ \A b \in Batch : Wanted(b) = Pieces(b) /\ out.splits[b] = Pieces(b)
           /\ WantedWork = QTiles * Prior(Size)
<1>1. Assumed /\ InfoRight /\ SplitRight
  BY DEF ScheduleIInv
<1>2. /\ ScanSteps \in Nat /\ 0 \in Warp /\ \A v \in Warp : warpAt[v] = 8 + ScanSteps
      /\ Batch \subseteq Thread /\ Size \in Nat /\ Batch = 0..(Size - 1)
      /\ \A t \in Thread : WarpOf(t) \in Warp /\ t \in ThreadsOf(WarpOf(t))
      /\ QTiles \in Nat
  BY <1>1, ScanRoundsRight, ThreadsOfWarps, Arguments DEF Built, Batch
<1>3. \A v \in Warp : warpAt[v] >= 4 + ScanSteps /\ warpAt[v] >= 7 + ScanSteps /\ warpAt[v] >= 4
  BY <1>2
<1>4. ChunkChosen
  BY <1>3, ScanOver
<1>5. out.info.split = sm.split /\ out.info.chunk = sm.chunk
  BY <1>1, <1>2, <1>3 DEF InfoRight
<1>6. \A b \in Batch : Wanted(b) = Pieces(b)
  BY <1>5 DEF Wanted, Pieces
<1>7. \A b \in Batch : out.splits[b] = Pieces(b)
  BY <1>1, <1>2, <1>3 DEF SplitRight
<1>8. WantedWork = QTiles * Prior(Size)
  <2>. DEFINE f == [b \in Batch |-> Wanted(b)]
  <2>1. IsFiniteSet(Batch)
    BY <1>2, FS_Interval
  <2>2. ASSUME NEW b \in Batch PROVE f[b] \in Int /\ PieceOf[b] \in Int /\ f[b] = PieceOf[b]
    <3>1. Pieces(b) \in Nat /\ PieceOf[b] = Pieces(b)
      BY <1>1, <1>2, <1>4, FirstRight DEF PieceOf
    <3>. QED
      BY <1>6, <3>1
  <2>. HIDE DEF f
  <2>3. Total(f, Batch) = Total(PieceOf, Batch)
    <3>1. (\A b \in Batch : f[b] \in Int /\ PieceOf[b] \in Int) /\ \A b \in Batch : f[b] = PieceOf[b]
      BY <2>2
    <3>. QED
      BY <2>1, <3>1, TotalSame
  <2>4. WantedWork = QTiles * Total(f, Batch)
    BY DEF WantedWork, f
  <2>5. Prior(Size) = Total(PieceOf, Batch)
    BY DEF Prior, Batch
  <2>. QED
    BY <2>3, <2>4, <2>5
<1>. QED
  BY <1>1, <1>4, <1>5, <1>6, <1>7, <1>8

(* Every place before the last piece's has a piece.                        *)
LEMMA PlaceOnto ==
    ASSUME Assumed, ChunkChosen, NEW i \in Nat, i < QTiles * Prior(Size)
    PROVE  \E b \in Batch : \E q \in 0..(QTiles - 1), kv \in 0..(Pieces(b) - 1) : i = PiecePlace(b, q, kv)
<1>1. /\ QTiles \in Nat \ {0} /\ Batch \subseteq Thread /\ Size \in Nat \ {0} /\ Batch = 0..(Size - 1)
      /\ Size <= Tpb /\ Tpb \in Nat
  BY Arguments, ThreadsOfWarps DEF Batch
<1>. DEFINE T == {c \in Batch : i < QTiles * Prior(c + 1)}
<1>2. T \in SUBSET Nat /\ T # {}
  <2>1. Size - 1 \in Batch /\ (Size - 1) + 1 = Size
    BY <1>1
  <2>2. Size - 1 \in T
    <3>1. i < QTiles * Prior((Size - 1) + 1)
      BY <2>1, Zenon
    <3>. QED
      BY <2>1, <3>1
  <2>3. T \subseteq Batch
    OBVIOUS
  <2>. HIDE DEF T
  <2>. QED
    BY <1>1, <2>2, <2>3
<1>3. PICK b \in T : \A c \in T : b <= c
  <2>. HIDE DEF T
  <2>. QED
    BY <1>2, LeastNat
<1>. DEFINE P == Pieces(b)  F == Prior(b)  G == Prior(b + 1)
<1>4. b \in Batch /\ P \in Nat \ {0} /\ F \in Nat /\ G = F + P
  <2>1. b \in Batch /\ b \in Thread /\ b \in 0..Tpb
    BY <1>1, <1>3
  <2>. QED
    BY <2>1, FirstRight
<1>5. i < QTiles * G
  BY <1>3
<1>6. QTiles * F <= i
  <2>1. CASE b = 0
    <3>1. F = 0
      BY <2>1, FirstRight
    <3>. QED
      BY <1>1, <3>1
  <2>2. CASE b # 0
    <3>1. b - 1 \in Batch /\ (b - 1) + 1 = b /\ ~ (b <= b - 1)
      BY <1>1, <1>4, <2>2
    <3>2. b - 1 \notin T
      BY <1>3, <3>1
    <3>3. ~ (i < QTiles * F)
      BY <3>1, <3>2
    <3>4. QTiles * F \in Nat
      BY <1>1, <1>4, Product
    <3>. QED
      BY <3>3, <3>4
  <2>. QED
    BY <2>1, <2>2
<1>. HIDE DEF P, F, G
<1>7. QTiles * G = QTiles * F + QTiles * P /\ QTiles * F \in Nat /\ QTiles * P \in Nat
  <2>1. QTiles * (F + P) = QTiles * F + QTiles * P
    BY <1>1, <1>4
  <2>. QED
    BY <1>1, <1>4, <2>1, Product
<1>. DEFINE a == i - QTiles * F
<1>8. a \in Nat /\ a < QTiles * P /\ i = QTiles * F + a
  <2>. DEFINE x == QTiles * F  d == QTiles * P
  <2>1. x \in Nat /\ d \in Nat /\ x <= i /\ i < x + d
    BY <1>5, <1>6, <1>7
  <2>. HIDE DEF x, d
  <2>2. i - x \in Nat /\ i - x < d /\ i = x + (i - x)
    BY <2>1
  <2>. QED
    BY <2>2 DEF x, d
<1>. HIDE DEF a
<1>. DEFINE q == a \div P  kv == a % P
<1>9. a = q * P + kv /\ kv \in 0..(P - 1) /\ q \in Nat
  BY <1>4, <1>8, Euclid
<1>10. q \in 0..(QTiles - 1)
  BY <1>1, <1>4, <1>8, RowsOf
<1>. HIDE DEF q, kv
<1>11. i = PiecePlace(b, q, kv)
  <2>1. i = QTiles * F + (q * P + kv)
    BY <1>8, <1>9
  <2>2. q * P \in Nat /\ kv \in Nat
    BY <1>4, <1>9, Product
  <2>. QED
    BY <1>7, <2>1, <2>2 DEF PiecePlace, P, F
<1>. QED
  BY <1>4, <1>9, <1>10, <1>11 DEF P

(* What the tensors hold: the list at each place, the first rows, and the  *)
(* first pieces of the rows.                                               *)
LEMMA BuiltTensors ==
    ASSUME ScheduleIInv, Built
    PROVE  /\ \A b \in Batch : \A q \in 0..(QTiles - 1), kv \in 0..(Pieces(b) - 1) :
                 out.list[PiecePlace(b, q, kv)] = [b |-> b, q |-> q, kv |-> kv, mask |-> 1]
           /\ \A n \in 0..Size : out.oIndptr[n] = QTokens * (QTiles * Prior(n))
           /\ \A b \in Batch : \A q \in 0..(req.seqlenQ - 1) :
                 /\ out.merge[b * req.seqlenQ + q] = Prior(b) * req.seqlenQ + q * Pieces(b)
                 /\ out.merge[b * req.seqlenQ + q + 1] = Prior(b) * req.seqlenQ + (q + 1) * Pieces(b)
<1>1. Assumed /\ ChunkChosen /\ WorkListed /\ PointersRight
  BY BuiltPieces DEF ScheduleIInv
<1>2. /\ ScanSteps \in Nat /\ 0 \in Warp /\ \A v \in Warp : warpAt[v] = 8 + ScanSteps
      /\ Tpb \in Nat \ {0} /\ Thread = 0..(Tpb - 1)
      /\ Batch \subseteq Thread /\ Size \in Nat \ {0} /\ Batch = 0..(Size - 1) /\ Size <= Tpb
      /\ \A t \in Thread : WarpOf(t) \in Warp /\ t \in ThreadsOf(WarpOf(t))
      /\ QTiles \in Nat \ {0} /\ req.seqlenQ \in Nat \ {0} /\ QTokens \in Nat
  BY <1>1, ScanRoundsRight, ThreadsOfWarps, Arguments DEF Built, Batch, Thread
<1>3. \A v \in Warp : warpAt[v] >= 6 + ScanSteps /\ warpAt[v] >= 8 + ScanSteps
  BY <1>2
<1>. DEFINE sq == req.seqlenQ
<1>4. ASSUME NEW b \in Batch, NEW q \in 0..(QTiles - 1), NEW kv \in 0..(Pieces(b) - 1)
      PROVE  out.list[PiecePlace(b, q, kv)] = [b |-> b, q |-> q, kv |-> kv, mask |-> 1]
  <2>. DEFINE i == PiecePlace(b, q, kv)
  <2>1. i \in Nat
    BY <1>1, PiecePlaceRight
  <2>2. i % Tpb \in Thread
    <3>. HIDE DEF i
    <3>. QED
      BY <1>2, <2>1
  <2>3. PICK v \in Warp : i % Tpb \in ThreadsOf(v)
    BY <1>2, <2>2
  <2>. QED
    BY <1>1, <1>3, <2>3 DEF WorkListed, PiecePlace
<1>5. /\ out.oIndptr[0] = 0 /\ out.merge[0] = 0
      /\ \A b \in Batch :
          /\ out.oIndptr[b + 1] = QTokens * (QTiles * Prior(b + 1))
          /\ \A q \in 0..(sq - 1) : out.merge[b * sq + q + 1] = Prior(b) * sq + (q + 1) * Pieces(b)
  <2>1. out.oIndptr[0] = 0 /\ out.merge[0] = 0
    BY <1>1, <1>2, <1>3 DEF PointersRight
  <2>2. ASSUME NEW b \in Batch
        PROVE  /\ out.oIndptr[b + 1] = QTokens * (QTiles * Prior(b + 1))
               /\ \A q \in 0..(sq - 1) : out.merge[b * sq + q + 1] = Prior(b) * sq + (q + 1) * Pieces(b)
    <3>1. WarpOf(b) \in Warp /\ b \in ThreadsOf(WarpOf(b)) \cap Batch
      BY <1>2
    <3>. QED
      BY <1>1, <1>3, <3>1 DEF PointersRight
  <2>. QED
    BY <2>1, <2>2
<1>6. Prior(0) = 0
  BY <1>1, FirstRight
<1>7. ASSUME NEW n \in 0..Size PROVE out.oIndptr[n] = QTokens * (QTiles * Prior(n))
  <2>1. CASE n = 0
    <3>1. QTiles * Prior(0) = 0 /\ QTokens * 0 = 0
      BY <1>2, <1>6
    <3>. QED
      BY <1>5, <2>1, <3>1
  <2>2. CASE n # 0
    <3>1. n - 1 \in Batch /\ (n - 1) + 1 = n
      BY <1>2, <2>2
    <3>. QED
      BY <1>5, <3>1
  <2>. QED
    BY <2>1, <2>2
<1>8. ASSUME NEW b \in Batch, NEW q \in 0..(sq - 1)
      PROVE  out.merge[b * sq + q] = Prior(b) * sq + q * Pieces(b)
  <2>1. Pieces(b) \in Nat /\ Prior(b) \in Nat
    <3>1. b \in Thread /\ b \in 0..Tpb
      BY <1>2
    <3>. QED
      BY <1>1, <3>1, FirstRight
  <2>2. CASE q # 0
    <3>1. q - 1 \in 0..(sq - 1) /\ (q - 1) + 1 = q
      BY <1>2, <2>2
    <3>2. b * sq + (q - 1) + 1 = b * sq + q
      <4>1. b * sq \in Nat
        BY <1>2, Product
      <4>. QED
        <5>. DEFINE d == b * sq
        <5>1. d \in Nat /\ q \in Int
          BY <1>2, <4>1
        <5>. HIDE DEF d
        <5>2. d + (q - 1) + 1 = d + q
          BY <5>1
        <5>. QED
          BY <5>2 DEF d
    <3>3. out.merge[b * sq + (q - 1) + 1] = Prior(b) * sq + ((q - 1) + 1) * Pieces(b)
      BY <1>5, <3>1
    <3>. QED
      BY <3>1, <3>2, <3>3
  <2>3. CASE q = 0 /\ b # 0
    <3>. DEFINE c == b - 1
    <3>1. c \in Batch /\ c + 1 = b /\ sq - 1 \in 0..(sq - 1) /\ (sq - 1) + 1 = sq /\ c \in Thread /\ c \in 0..Tpb
      BY <1>2, <2>3
    <3>2. out.merge[c * sq + (sq - 1) + 1] = Prior(c) * sq + ((sq - 1) + 1) * Pieces(c)
      BY <1>5, <3>1
    <3>3. Prior(b) = Prior(c) + Pieces(c) /\ Prior(c) \in Nat /\ Pieces(c) \in Nat
      BY <1>1, <3>1, FirstRight
    <3>4. c * sq + (sq - 1) + 1 = b * sq + q
      <4>1. c \in Nat /\ (c + 1) * sq = c * sq + sq /\ c * sq \in Nat
        BY <1>2, <3>1, Product, SMTT(30)
      <4>. QED
        BY <1>2, <2>3, <3>1, <4>1
    <3>5. Prior(c) * sq + sq * Pieces(c) = Prior(b) * sq + q * Pieces(b)
      <4>. DEFINE x == Prior(c)  y == Pieces(c)  z == Pieces(b)
      <4>1. x \in Nat /\ y \in Nat /\ z \in Nat
        BY <2>1, <3>3
      <4>. HIDE DEF x, y, z
      <4>2. x * sq + sq * y = (x + y) * sq + 0 * z
        BY <1>2, <4>1
      <4>. QED
        BY <2>3, <3>3, <4>2 DEF x, y, z
    <3>. QED
      BY <3>1, <3>2, <3>4, <3>5
  <2>4. CASE q = 0 /\ b = 0
    <3>1. b * sq + q = 0 /\ Prior(b) * sq + q * Pieces(b) = 0
      BY <1>2, <1>6, <2>1, <2>4
    <3>. QED
      BY <1>5, <3>1
  <2>. QED
    BY <2>2, <2>3, <2>4
<1>. QED
  BY <1>4, <1>5, <1>7, <1>8

(* The work list of a schedule that is built is right.                     *)
LEMMA WorkListBuilt == ASSUME ScheduleIInv PROVE WorkListRight
<1>1. SUFFICES ASSUME Built
               PROVE  LET list == [i \in 0..(WantedWork - 1) |-> out.list[i]] IN
                      /\ {list[i] : i \in DOMAIN list} =
                             UNION {{[b |-> b, q |-> q, kv |-> kv, mask |-> 1] :
                                         q \in 0..(QTiles - 1), kv \in 0..(Wanted(b) - 1)} : b \in Batch}
                      /\ out.info.padded >= WantedWork
                      /\ ~ req.graph => out.info.padded = WantedWork
                      /\ out.info.maxSplits = Largest({Wanted(b) : b \in Batch})
                      /\ out.info.rows = QTokens * WantedWork
                      /\ \A b \in Batch :
                          /\ out.splits[b] = Wanted(b)
                          /\ out.oIndptr[b + 1] - out.oIndptr[b] = QTokens * QTiles * Wanted(b)
                          /\ \A q \in 0..(req.seqlenQ - 1) :
                              LET i == b * req.seqlenQ + q IN out.merge[i + 1] - out.merge[i] = Wanted(b)
  BY DEF WorkListRight
<1>. DEFINE sq == req.seqlenQ  N == WantedWork
            list == [i \in 0..(N - 1) |-> out.list[i]]
            piece(b, q, kv) == [b |-> b, q |-> q, kv |-> kv, mask |-> 1]
<1>2. /\ Assumed /\ ChunkChosen /\ N = QTiles * Prior(Size)
      /\ \A b \in Batch : Wanted(b) = Pieces(b) /\ out.splits[b] = Pieces(b)
  BY <1>1, BuiltPieces
<1>3. /\ Size \in Nat \ {0} /\ Batch = 0..(Size - 1) /\ Batch \subseteq Thread /\ Size <= Tpb
      /\ Tpb \in Nat /\ QTiles \in Nat \ {0} /\ sq \in Nat \ {0} /\ QTokens \in Nat
      /\ ScanSteps \in Nat /\ 0 \in Warp /\ warpAt[0] >= 7 + ScanSteps
  <2>1. ScanSteps \in Nat /\ 0 \in Warp
    BY <1>2, ScanRoundsRight, ThreadsOfWarps
  <2>. QED
    BY <1>1, <1>2, <2>1, ThreadsOfWarps, Arguments DEF Batch, Built
<1>4. ASSUME NEW b \in Batch
      PROVE  /\ Pieces(b) \in Nat /\ Prior(b) \in Nat /\ Prior(b + 1) \in Nat /\ Prior(b + 1) = Prior(b) + Pieces(b)
             /\ b \in 0..Size /\ b + 1 \in 0..Size
  <2>1. b \in Thread /\ b \in 0..Tpb /\ b + 1 \in 0..Tpb
    BY <1>3
  <2>. QED
    BY <1>2, <1>3, <2>1, FirstRight
<1>5. /\ \A b \in Batch : \A q \in 0..(QTiles - 1), kv \in 0..(Pieces(b) - 1) :
            out.list[PiecePlace(b, q, kv)] = piece(b, q, kv)
      /\ \A n \in 0..Size : out.oIndptr[n] = QTokens * (QTiles * Prior(n))
      /\ \A b \in Batch : \A q \in 0..(sq - 1) :
            /\ out.merge[b * sq + q] = Prior(b) * sq + q * Pieces(b)
            /\ out.merge[b * sq + q + 1] = Prior(b) * sq + (q + 1) * Pieces(b)
  BY <1>1, BuiltTensors
<1>6. N \in Nat
  <2>1. Prior(Size) \in Nat
    BY <1>2, WorkFits
  <2>. QED
    BY <1>2, <1>3, <2>1, Product
<1>7. {list[i] : i \in DOMAIN list} =
          UNION {{piece(b, q, kv) : q \in 0..(QTiles - 1), kv \in 0..(Wanted(b) - 1)} : b \in Batch}
  <2>1. ASSUME NEW b \in Batch, NEW q \in 0..(QTiles - 1), NEW kv \in 0..(Wanted(b) - 1)
        PROVE  \E i \in DOMAIN list : list[i] = piece(b, q, kv)
    <3>1. kv \in 0..(Pieces(b) - 1)
      BY <1>2
    <3>2. PiecePlace(b, q, kv) \in Nat /\ PiecePlace(b, q, kv) < N
      BY <1>2, <3>1, PiecePlaceRight
    <3>3. PiecePlace(b, q, kv) \in 0..(N - 1)
      BY <1>6, <3>2
    <3>4. out.list[PiecePlace(b, q, kv)] = piece(b, q, kv)
      BY <1>5, <3>1
    <3>. QED
      BY <3>3, <3>4
  <2>2. ASSUME NEW i \in DOMAIN list
        PROVE  \E b \in Batch : \E q \in 0..(QTiles - 1), kv \in 0..(Wanted(b) - 1) : list[i] = piece(b, q, kv)
    <3>1. i \in Nat /\ i < N /\ i \in 0..(N - 1)
      BY <1>6
    <3>2. PICK b \in Batch : \E q \in 0..(QTiles - 1), kv \in 0..(Pieces(b) - 1) : i = PiecePlace(b, q, kv)
      BY <1>2, <3>1, PlaceOnto
    <3>3. PICK q \in 0..(QTiles - 1), kv \in 0..(Pieces(b) - 1) : i = PiecePlace(b, q, kv)
      BY <3>2
    <3>4. out.list[i] = piece(b, q, kv)
      BY <1>5, <3>3
    <3>5. list[i] = out.list[i] /\ kv \in 0..(Wanted(b) - 1)
      BY <1>2, <3>1
    <3>. QED
      BY <3>4, <3>5
  <2>. HIDE DEF list, piece
  <2>. QED
    BY <2>1, <2>2
<1>8. /\ out.info.padded >= N /\ (~ req.graph => out.info.padded = N)
      /\ out.info.maxSplits = Largest({Pieces(b) : b \in Batch})
      /\ out.info.rows = QTokens * N
  BY <1>2, <1>3 DEF ScheduleIInv, InfoRight
<1>9. out.info.maxSplits = Largest({Wanted(b) : b \in Batch})
  <2>1. {Pieces(b) : b \in Batch} = {Wanted(b) : b \in Batch}
    BY <1>2
  <2>. QED
    BY <1>8, <2>1, Zenon
<1>10. ASSUME NEW b \in Batch
       PROVE  out.oIndptr[b + 1] - out.oIndptr[b] = QTokens * QTiles * Wanted(b)
  <2>1. out.oIndptr[b + 1] = QTokens * (QTiles * Prior(b + 1)) /\ out.oIndptr[b] = QTokens * (QTiles * Prior(b))
    BY <1>4, <1>5
  <2>. DEFINE x == Prior(b)  y == Prior(b + 1)  z == Pieces(b)
  <2>2. x \in Nat /\ z \in Nat /\ y = x + z
    BY <1>4
  <2>. HIDE DEF x, y, z
  <2>3. QTokens * (QTiles * (x + z)) - QTokens * (QTiles * x) = QTokens * QTiles * z
    BY <1>3, <2>2
  <2>. QED
    BY <1>2, <2>1, <2>2, <2>3 DEF x, y, z
<1>11. ASSUME NEW b \in Batch, NEW q \in 0..(sq - 1)
       PROVE  out.merge[b * sq + q + 1] - out.merge[b * sq + q] = Wanted(b)
  <2>1. /\ out.merge[b * sq + q] = Prior(b) * sq + q * Pieces(b)
        /\ out.merge[b * sq + q + 1] = Prior(b) * sq + (q + 1) * Pieces(b)
    BY <1>5
  <2>. DEFINE x == Prior(b)  z == Pieces(b)
  <2>2. x \in Nat /\ z \in Nat
    BY <1>4
  <2>. HIDE DEF x, z
  <2>3. (x * sq + (q + 1) * z) - (x * sq + q * z) = z
    BY <1>3, <2>2
  <2>. QED
    BY <1>2, <2>1, <2>3 DEF x, z
<1>. QED
  BY <1>2, <1>7, <1>8, <1>9, <1>10, <1>11

(* The chunk of a schedule that is built is useful.                        *)
LEMMA ChunkBuilt == ASSUME ScheduleIInv PROVE ChunkRight
<1>1. SUFFICES ASSUME Built PROVE Useful(out.info.chunk, out.info.split)
  BY DEF ChunkRight
<1>2. out.info.chunk = sm.chunk /\ out.info.split = sm.split /\ ChunkChosen
  BY <1>1, BuiltPieces
<1>3. ScanSteps \in Nat /\ 0 \in Warp
  BY ScanRoundsRight, ThreadsOfWarps DEF ScheduleIInv
<1>4. Useful(sm.chunk, sm.split)
  BY <1>1, <1>3 DEF ScheduleIInv, ChosenRight, Built
<1>. QED
  BY <1>2, <1>4, Zenon

(* Whatever the call and however the warps interleave: each piece of each  *)
(* request is in the list once, rows and pieces follow one another, and    *)
(* the summary is that of the list.                                        *)
THEOREM WorkListIsRight == ASSUME AttentionAssumption PROVE AttentionSpec => []WorkListRight
BY ScheduleInvariance, WorkListBuilt, PTL

(* Whatever the lengths: the chunk that is chosen is a useful size, the    *)
(* splits are no more than the combine kernel takes, and unless long       *)
(* requests are cut for balance the pieces run at once and no smaller      *)
(* chunk's do.                                                             *)
THEOREM ChunkIsRight == ASSUME AttentionAssumption PROVE AttentionSpec => []ChunkRight
BY ScheduleInvariance, ChunkBuilt, PTL

-----------------------------------------------------------------------------
(***************************************************************************)
(* The outputs.                                                            *)
(***************************************************************************)
\* K pages in P pieces of chunk, and how many each piece has.
CutIn(K, chunk, P, pages, count) ==
    /\ K <= P * chunk /\ (P - 1) * chunk < Larger(1, K)
    /\ \A s \in 1..P : /\ pages[s] = ((s - 1) * chunk)..(Smaller(K, s * chunk) - 1)
                       /\ count[s] = Cardinality(pages[s])

(* Cut into pieces of chunk, the pages of a request are each in one piece. *)
LEMMA PagesWhole ==
    ASSUME NEW K \in Nat, NEW chunk \in Nat \ {0}, NEW P \in Nat \ {0}, NEW pages, NEW f,
           CutIn(K, chunk, P, pages, f)
    PROVE  /\ \A s \in 1..P : \A p \in pages[s] : p \in 0..(K - 1)
           /\ \A p \in 0..(K - 1) : \E s \in 1..P : p \in pages[s]
           /\ Total(f, 1..P) = K
<1>0. /\ K <= P * chunk /\ (P - 1) * chunk < Larger(1, K)
      /\ \A s \in 1..P : /\ pages[s] = ((s - 1) * chunk)..(Smaller(K, s * chunk) - 1)
                         /\ f[s] = Cardinality(pages[s])
  BY DEF CutIn
<1>1. ASSUME NEW s \in 1..P
      PROVE  /\ s * chunk \in Nat /\ (s - 1) * chunk \in Nat /\ s * chunk = (s - 1) * chunk + chunk
             /\ (s - 1) * chunk < Larger(1, K)
  <2>1. s * chunk \in Nat /\ (s - 1) * chunk \in Nat /\ (P - 1) * chunk \in Nat
    BY Product
  <2>2. s * chunk = (s - 1) * chunk + chunk
    OBVIOUS
  <2>3. (s - 1) * chunk <= (P - 1) * chunk
    <3>. DEFINE a == s - 1  b == P - 1
    <3>1. a \in Nat /\ b \in Nat /\ a <= b
      OBVIOUS
    <3>. HIDE DEF a, b
    <3>2. chunk * a <= chunk * b /\ chunk * a = a * chunk /\ chunk * b = b * chunk
      BY <3>1, Product
    <3>. QED
      BY <3>2 DEF a, b
  <2>4. Larger(1, K) \in Nat
    BY DEF Larger
  <2>. DEFINE x == (s - 1) * chunk  y == (P - 1) * chunk
  <2>5. x \in Nat /\ y \in Nat /\ x <= y /\ y < Larger(1, K)
    BY <1>0, <2>1, <2>3
  <2>. HIDE DEF x, y
  <2>6. x < Larger(1, K)
    BY <2>4, <2>5
  <2>. QED
    BY <2>1, <2>2, <2>6 DEF x
<1>2. \A s \in 1..P : \A p \in pages[s] : p \in 0..(K - 1)
  <2>1. ASSUME NEW s \in 1..P, NEW p \in pages[s] PROVE p \in 0..(K - 1)
    <3>. DEFINE x == (s - 1) * chunk  y == s * chunk
    <3>1. x \in Nat /\ y \in Nat /\ p \in x..(Smaller(K, y) - 1)
      BY <1>0, <1>1
    <3>. HIDE DEF x, y
    <3>. QED
      BY <3>1 DEF Smaller
  <2>. QED
    BY <2>1
<1>3. ASSUME NEW p \in 0..(K - 1) PROVE \E s \in 1..P : p \in pages[s]
  <2>. DEFINE kv == p \div chunk  x == kv * chunk
  <2>1. p \in Nat /\ p < P * chunk
    <3>1. P * chunk \in Nat
      BY Product
    <3>. QED
      BY <1>0, <3>1
  <2>2. p = x + (p % chunk) /\ p % chunk \in 0..(chunk - 1) /\ kv \in Nat
    BY <2>1, Euclid
  <2>3. kv \in 0..(P - 1)
    BY <2>1, RowsOf
  <2>. HIDE DEF kv
  <2>4. kv + 1 \in 1..P /\ (kv + 1) - 1 = kv /\ x \in Nat
    BY <2>3, Product
  <2>5. (kv + 1) * chunk = x + chunk
    BY <2>3
  <2>6. pages[kv + 1] = x..(Smaller(K, x + chunk) - 1)
    BY <1>0, <2>4, <2>5
  <2>. HIDE DEF x
  <2>7. p \in x..(Smaller(K, x + chunk) - 1)
    BY <2>1, <2>2, <2>4 DEF Smaller
  <2>. QED
    BY <2>4, <2>6, <2>7
<1>4. ASSUME NEW s \in 1..P
      PROVE  f[s] \in Int /\ f[s] = Smaller(K, s * chunk) - Smaller(K, (s - 1) * chunk)
  <2>. DEFINE x == (s - 1) * chunk  y == s * chunk  z == Smaller(K, y) - 1
  <2>1. x \in Nat /\ y \in Nat /\ y = x + chunk /\ x < Larger(1, K)
    BY <1>1
  <2>2. f[s] = Cardinality(x..z)
    <3>1. f[s] = Cardinality(pages[s]) /\ pages[s] = x..z
      BY <1>0
    <3>. HIDE DEF x, y, z
    <3>. QED
      BY <3>1
  <2>. HIDE DEF x, y
  <2>3. z \in Int /\ x \in Int
    BY <2>1 DEF Smaller
  <2>4. Cardinality(x..z) = IF x > z THEN 0 ELSE z - x + 1
    <3>. HIDE DEF z
    <3>. QED
      BY <2>3, FS_Interval
  <2>5. f[s] \in Int /\ f[s] = Smaller(K, y) - Smaller(K, x)
    <3>. DEFINE m == Smaller(K, y)  l == Smaller(K, x)
    <3>1. m \in Int /\ l \in Int /\ f[s] = IF x > m - 1 THEN 0 ELSE m - 1 - x + 1
      BY <2>1, <2>2, <2>4 DEF Smaller
    <3>2. (x > m - 1 => m = l) /\ (x <= m - 1 => l = x)
      BY <2>1 DEF Smaller, Larger
    <3>. HIDE DEF m, l
    <3>3. f[s] \in Int /\ f[s] = m - l
      BY <2>1, <3>1, <3>2
    <3>. QED
      BY <3>3 DEF m, l
  <2>. QED
    BY <2>5 DEF x, y
<1>. DEFINE U == {n \in Nat : n <= P => Total(f, 1..n) = Smaller(K, n * chunk)}
<1>5. 0 \in U
  <2>1. 1..0 = {} /\ 0 * chunk = 0 /\ Smaller(K, 0) = 0
    BY DEF Smaller
  <2>2. Total(f, {}) = 0
    BY FS_EmptySet, TotalZero
  <2>3. Total(f, 1..0) = 0
    BY <2>1, <2>2, Zenon
  <2>. QED
    BY <2>1, <2>3
<1>6. ASSUME NEW n \in U PROVE n + 1 \in U
  <2>1. SUFFICES ASSUME n + 1 <= P PROVE Total(f, 1..(n + 1)) = Smaller(K, (n + 1) * chunk)
    OBVIOUS
  <2>2. n \in Nat /\ n + 1 \in 1..P /\ (n + 1) - 1 = n /\ Total(f, 1..n) = Smaller(K, n * chunk)
    BY <2>1
  <2>. DEFINE A == 1..n
  <2>3. 1..(n + 1) = A \cup {n + 1} /\ n + 1 \notin A /\ A \subseteq 1..P
    BY <2>2
  <2>4. IsFiniteSet(A) /\ \A s \in A : f[s] \in Int
    <3>1. IsFiniteSet(A)
      BY <2>2, FS_Interval
    <3>2. \A s \in 1..P : f[s] \in Int
      BY <1>4
    <3>. HIDE DEF A
    <3>. QED
      BY <2>3, <3>1, <3>2
  <2>5. f[n + 1] \in Int /\ f[n + 1] = Smaller(K, (n + 1) * chunk) - Smaller(K, n * chunk)
    BY <1>4, <2>2
  <2>6. Total(f, A \cup {n + 1}) = Total(f, A) + f[n + 1]
    <3>. HIDE DEF A
    <3>. QED
      BY <2>3, <2>4, <2>5, TotalAdd
  <2>7. Total(f, 1..(n + 1)) = Total(f, A \cup {n + 1})
    BY <2>3, Zenon
  <2>8. Smaller(K, n * chunk) \in Int /\ Smaller(K, (n + 1) * chunk) \in Int
    <3>1. n * chunk \in Nat /\ (n + 1) * chunk \in Nat
      BY <2>2, Product
    <3>. QED
      BY <3>1 DEF Smaller
  <2>. DEFINE a == Smaller(K, n * chunk)  b == Smaller(K, (n + 1) * chunk)
  <2>9. a \in Int /\ b \in Int /\ Total(f, A) = a /\ f[n + 1] = b - a
    BY <2>2, <2>5, <2>8
  <2>. HIDE DEF a, b, A
  <2>10. Total(f, 1..(n + 1)) = b
    BY <2>6, <2>7, <2>9
  <2>. QED
    BY <2>10 DEF b
<1>7. U = Nat
  <2>. HIDE DEF U
  <2>1. U \in SUBSET Nat
    BY DEF U
  <2>. QED
    BY <1>5, <1>6, <2>1, NatSet
<1>8. Total(f, 1..P) = K
  <2>1. Total(f, 1..P) = Smaller(K, P * chunk)
    BY <1>7
  <2>2. P * chunk \in Nat
    BY Product
  <2>3. Smaller(K, P * chunk) = K
    <3>. DEFINE x == P * chunk
    <3>1. x \in Nat /\ K <= x
      BY <1>0, <2>2
    <3>. HIDE DEF x
    <3>2. Smaller(K, x) = K
      BY <3>1 DEF Smaller
    <3>. QED
      BY <3>2 DEF x
  <2>. QED
    BY <2>1, <2>3
<1>. QED
  BY <1>2, <1>3, <1>8

\* The list is no longer than what there is to do.
Unpadded == Built => out.info.padded = WantedWork

\* What an output row has of a piece of its request.
ValueOf(b, kv) == [b |-> b, pages |-> PagesOfSplit(b, kv)]

(* A call that is launched has a query tile per request, and the pieces of *)
(* the requests follow one another in the list and in the rows.            *)
LEMMA AcceptedRight ==
    ASSUME ScheduleIInv, Built, Accepted, Unpadded
    PROVE  /\ req.seqlenQ = QTokens /\ QTokens \in Nat \ {0} /\ QStride = QTokens /\ req.heads \in Nat \ {0}
           /\ Prior(Size) \in Nat \ {0} /\ out.info.padded = Prior(Size)
           /\ out.info.rows = QTokens * Prior(Size)
           /\ \A b \in Batch :
                /\ Pieces(b) \in Nat \ {0} /\ Prior(b) \in Nat /\ out.splits[b] = Pieces(b)
                /\ out.oIndptr[b] = QTokens * Prior(b)
                /\ \A kv \in 0..(Pieces(b) - 1) :
                     /\ Prior(b) + kv \in 0..(Prior(Size) - 1)
                     /\ out.list[Prior(b) + kv] = [b |-> b, q |-> 0, kv |-> kv, mask |-> 1]
           /\ \A i \in 0..(Prior(Size) - 1) :
                \E b \in Batch : \E kv \in 0..(Pieces(b) - 1) : i = Prior(b) + kv
           /\ ~ out.info.split => Prior(Size) = Size /\ \A b \in Batch : Pieces(b) = 1 /\ Prior(b) = b
<1>1. /\ Assumed /\ ChunkChosen /\ out.info.split = sm.split
      /\ \A b \in Batch : out.splits[b] = Pieces(b)
  BY BuiltPieces
<1>2. req.seqlenQ = QTokens /\ QTokens \in Nat \ {0} /\ req.heads \in Nat \ {0}
  BY <1>1, Arguments DEF Accepted
<1>3. QTiles = 1 /\ QStride = QTokens
  <2>1. CeilDiv(QTokens, QTokens) = 1
    <3>1. QTokens + QTokens - 1 \in Nat /\ 1 * QTokens <= QTokens + QTokens - 1
          /\ QTokens + QTokens - 1 < 1 * QTokens + QTokens
      BY <1>2
    <3>2. (QTokens + QTokens - 1) \div QTokens = 1
      BY <1>2, <3>1, QuotientOf
    <3>. QED
      BY <3>2 DEF CeilDiv
  <2>. QED
    BY <1>2, <2>1 DEF QTiles, QStride
<1>4. /\ Size \in Nat \ {0} /\ Batch = 0..(Size - 1) /\ Batch \subseteq Thread /\ Size <= Tpb
      /\ Tpb \in Nat /\ ScanSteps \in Nat /\ 0 \in Warp /\ warpAt[0] >= 7 + ScanSteps
  <2>1. ScanSteps \in Nat /\ 0 \in Warp
    BY <1>1, ScanRoundsRight, ThreadsOfWarps
  <2>. QED
    BY <1>1, <2>1, ThreadsOfWarps, Arguments DEF Batch, Built
<1>5. ASSUME NEW b \in Batch
      PROVE  /\ Pieces(b) \in Nat \ {0} /\ Prior(b) \in Nat /\ Prior(b) + Pieces(b) <= Prior(Size)
  <2>1. b \in Thread /\ b \in 0..Tpb
    BY <1>4
  <2>. QED
    BY <1>1, <2>1, FirstRight
<1>6. Prior(Size) \in Nat \ {0}
  <2>1. 0 \in Batch /\ Prior(Size) \in Nat
    BY <1>1, <1>4, WorkFits
  <2>. QED
    BY <1>5, <2>1
<1>7. out.info.padded = Prior(Size) /\ out.info.rows = QTokens * Prior(Size)
  <2>1. out.info.padded = QTiles * Prior(Size) /\ out.info.rows = QTokens * (QTiles * Prior(Size))
    BY <1>4, BuiltPieces DEF ScheduleIInv, InfoRight, Unpadded
  <2>2. QTiles * Prior(Size) = Prior(Size)
    BY <1>3, <1>6
  <2>. QED
    BY <2>1, <2>2
<1>8. ASSUME NEW b \in Batch PROVE out.oIndptr[b] = QTokens * Prior(b)
  <2>1. b \in 0..Size
    BY <1>4
  <2>2. out.oIndptr[b] = QTokens * (QTiles * Prior(b))
    BY <2>1, BuiltTensors
  <2>3. QTiles * Prior(b) = Prior(b)
    BY <1>3, <1>5
  <2>. QED
    BY <2>2, <2>3
<1>9. ASSUME NEW b \in Batch, NEW kv \in 0..(Pieces(b) - 1)
      PROVE  PiecePlace(b, 0, kv) = Prior(b) + kv
  <2>1. QTiles * Prior(b) = Prior(b) /\ 0 * Pieces(b) = 0
    BY <1>3, <1>5
  <2>. QED
    BY <1>5, <2>1 DEF PiecePlace
<1>10. ASSUME NEW b \in Batch, NEW kv \in 0..(Pieces(b) - 1)
       PROVE  /\ Prior(b) + kv \in 0..(Prior(Size) - 1)
              /\ out.list[Prior(b) + kv] = [b |-> b, q |-> 0, kv |-> kv, mask |-> 1]
  <2>1. 0 \in 0..(QTiles - 1)
    BY <1>3
  <2>2. out.list[PiecePlace(b, 0, kv)] = [b |-> b, q |-> 0, kv |-> kv, mask |-> 1]
    BY <2>1, BuiltTensors
  <2>. QED
    BY <1>5, <1>6, <1>9, <2>2
<1>11. ASSUME NEW i \in 0..(Prior(Size) - 1)
       PROVE  \E b \in Batch : \E kv \in 0..(Pieces(b) - 1) : i = Prior(b) + kv
  <2>1. i \in Nat /\ i < QTiles * Prior(Size)
    BY <1>3, <1>6
  <2>2. PICK b \in Batch : \E q \in 0..(QTiles - 1), kv \in 0..(Pieces(b) - 1) : i = PiecePlace(b, q, kv)
    BY <1>1, <2>1, PlaceOnto
  <2>3. PICK q \in 0..(QTiles - 1), kv \in 0..(Pieces(b) - 1) : i = PiecePlace(b, q, kv)
    BY <2>2
  <2>4. q = 0
    BY <1>3
  <2>. QED
    BY <1>9, <2>3, <2>4
<1>12. ASSUME ~ out.info.split
       PROVE  Prior(Size) = Size /\ \A b \in Batch : Pieces(b) = 1 /\ Prior(b) = b
  <2>1. \A b \in Batch : Pieces(b) = 1
    BY <1>1, <1>12 DEF Pieces
  <2>2. ASSUME NEW n \in 0..Size PROVE Prior(n) = n
    <3>. DEFINE S == 0..(n - 1)
    <3>1. S \subseteq Batch /\ IsFiniteSet(S) /\ Cardinality(S) = n
      <4>1. n \in Nat /\ 0 \in Int /\ n - 1 \in Int /\ S \subseteq Batch
        BY <1>4
      <4>. QED
        BY <4>1, FS_Interval
    <3>2. \A b \in S : PieceOf[b] = 1
      BY <1>4, <2>1, <3>1 DEF PieceOf
    <3>. HIDE DEF S
    <3>3. Total(PieceOf, S) = n
      BY <3>1, <3>2, TotalOnes
    <3>. QED
      BY <3>3 DEF Prior, S
  <2>3. \A b \in Batch : b \in 0..Size
    BY <1>4
  <2>4. Size \in 0..Size
    BY <1>4
  <2>. QED
    BY <2>1, <2>2, <2>3, <2>4
<1>. QED
  BY <1>1, <1>2, <1>3, <1>5, <1>6, <1>7, <1>8, <1>10, <1>11, <1>12

(* The pieces of a request have its pages once.                            *)
LEMMA ValuesWhole ==
    ASSUME ScheduleIInv, Built, NEW b \in Batch,
           NEW of, DOMAIN of = 1..Pieces(b), \A s \in 1..Pieces(b) : of[s] = ValueOf(b, s - 1)
    PROVE  /\ \A s \in DOMAIN of : of[s].b = b
           /\ UNION {of[s].pages : s \in DOMAIN of} = 0..(KvPages(b) - 1)
           /\ Total([s \in DOMAIN of |-> Cardinality(of[s].pages)], DOMAIN of) = KvPages(b)
<1>. DEFINE K == KvPages(b)  P == Pieces(b)  chunk == sm.chunk
            pages == [s \in 1..P |-> of[s].pages]
            f == [s \in DOMAIN of |-> Cardinality(of[s].pages)]
<1>1. Assumed /\ ChunkChosen /\ out.info.chunk = chunk
  BY BuiltPieces
<1>2. ScanSteps \in Nat /\ 0 \in Warp /\ warpAt[0] >= 3 /\ b \in Thread
  <2>1. ScanSteps \in Nat /\ 0 \in Warp /\ b \in Thread
    BY <1>1, ScanRoundsRight, ThreadsOfWarps
  <2>. QED
    BY <2>1 DEF Built
<1>3. chunk \in Nat \ {0} /\ sm.split \in BOOLEAN /\ Useful(chunk, sm.split)
  BY <1>2 DEF ScheduleIInv, ChosenRight
<1>4. K \in Nat /\ Pages(b) \in Nat \ {0} /\ Pages(b) = Larger(1, K)
  BY <1>1, PagesRight
<1>5. P \in Nat \ {0}
  BY <1>1, <1>2, FirstRight
<1>6. Pages(b) <= P * chunk /\ (P - 1) * chunk < Pages(b)
  <2>1. CASE sm.split
    <3>1. P = CeilDiv(Pages(b), chunk)
      BY <2>1 DEF Pieces
    <3>2. Pages(b) <= P * chunk /\ P * chunk < Pages(b) + chunk
      BY <1>3, <1>4, <3>1, CeilDivRight
    <3>3. (P - 1) * chunk = P * chunk - chunk /\ P * chunk \in Nat
      <4>1. P * chunk \in Nat
        BY <1>3, <1>5, Product
      <4>. HIDE DEF P, chunk
      <4>2. (P - 1) * chunk = P * chunk - chunk
        BY <1>3, <1>5
      <4>. QED
        BY <4>1, <4>2
    <3>. DEFINE x == P * chunk  y == (P - 1) * chunk
    <3>4. x \in Nat /\ y = x - chunk /\ Pages(b) <= x /\ x < Pages(b) + chunk
      BY <3>2, <3>3
    <3>. HIDE DEF x, y
    <3>5. Pages(b) <= x /\ y < Pages(b)
      BY <1>3, <1>4, <3>4
    <3>. QED
      BY <3>5 DEF x, y
  <2>2. CASE ~ sm.split
    <3>1. P = 1 /\ chunk >= Longest
      BY <1>3, <2>2 DEF Pieces, Useful
    <3>2. Longest \in Nat /\ Pages(b) <= Longest
      BY <1>1, CutRight
    <3>3. P * chunk = chunk /\ (P - 1) * chunk = 0
      BY <1>3, <3>1
    <3>. QED
      BY <1>3, <1>4, <3>1, <3>2, <3>3
  <2>. QED
    BY <2>1, <2>2
<1>7. \A s \in 1..P : pages[s] = ((s - 1) * chunk)..(Smaller(K, s * chunk) - 1)
  <2>1. ASSUME NEW s \in 1..P PROVE pages[s] = ((s - 1) * chunk)..(Smaller(K, s * chunk) - 1)
    <3>1. pages[s] = PagesOfSplit(b, s - 1)
      BY DEF ValueOf
    <3>2. (s - 1) + 1 = s
      BY <1>5
    <3>3. PagesOfSplit(b, s - 1) = ((s - 1) * chunk)..(Smaller(K, ((s - 1) + 1) * chunk) - 1)
      BY <1>1 DEF PagesOfSplit
    <3>. HIDE DEF pages, chunk
    <3>. QED
      BY <3>1, <3>2, <3>3
  <2>. QED
    BY <2>1
<1>8. \A s \in 1..P : f[s] = Cardinality(pages[s])
  OBVIOUS
<1>9. K <= P * chunk /\ (P - 1) * chunk < Larger(1, K)
  <2>1. K <= Pages(b)
    BY <1>4 DEF Larger
  <2>2. P * chunk \in Nat
    BY <1>3, <1>5, Product
  <2>. HIDE DEF P, chunk, K
  <2>. QED
    BY <1>4, <1>6, <2>1, <2>2
<1>10. DOMAIN of = 1..P /\ \A s \in DOMAIN of : of[s].b = b /\ of[s].pages = pages[s]
  BY DEF ValueOf
<1>. HIDE DEF K, P, chunk, pages, f
<1>11. /\ \A s \in 1..P : \A p \in pages[s] : p \in 0..(K - 1)
       /\ \A p \in 0..(K - 1) : \E s \in 1..P : p \in pages[s]
       /\ Total(f, 1..P) = K
  <2>1. K \in Nat /\ chunk \in Nat \ {0}
    BY <1>3, <1>4
  <2>2. CutIn(K, chunk, P, pages, f)
    BY <1>7, <1>8, <1>9 DEF CutIn
  <2>. QED
    BY <1>5, <2>1, <2>2, PagesWhole
<1>12. Total(f, DOMAIN of) = K
  <2>1. DOMAIN of = 1..P /\ Total(f, 1..P) = K
    BY <1>10, <1>11
  <2>. QED
    BY <2>1
<1>13. UNION {of[s].pages : s \in DOMAIN of} = 0..(K - 1)
  BY <1>10, <1>11, ZenonT(30)
<1>. QED
  BY <1>10, <1>12, <1>13 DEF K, f

-----------------------------------------------------------------------------
(***************************************************************************)
(* The invariant of a call: a tile whose turn has come is held by a CTA,   *)
(* or its rows are made; a row that is made stays so.                      *)
(***************************************************************************)
Made(i, h) ==
    \A r \in TileRows(QTokens * i) :
        IF out.info.split THEN partial[r][h] = ValueOf(out.list[i].b, out.list[i].kv)
        ELSE o[r][h] = <<ValueOf(out.list[i].b, out.list[i].kv)>>

RowGrid(f, rows) == f = [r \in 0..(rows - 1) |-> [h \in KvHeads |-> f[r][h]]]

Launched == launch \in {"attend", "combine", "done"} => Built /\ Accepted
Outputs ==
    /\ RowGrid(o, Size * req.seqlenQ)
    /\ launch \in {"attend", "combine"} => RowGrid(partial, out.info.rows)

TilesReached ==
    launch = "attend" =>
        /\ tile \in [0..(Resident - 1) -> Nat] /\ next \in Nat /\ \A c \in DOMAIN tile : tile[c] < next
        /\ \A i \in 0..(Prior(Size) - 1), h \in KvHeads :
            LET x == h * Prior(Size) + i
            IN x >= next \/ Made(i, h) \/ \E c \in DOMAIN tile : tile[c] = x

CombineReady ==
    launch = "combine" =>
        out.info.split /\ \A i \in 0..(Prior(Size) - 1), h \in KvHeads : Made(i, h)

Ended ==
    launch = "done" =>
        \A b \in Batch : \A r \in TileRows(QTokens * b), h \in KvHeads :
            /\ DOMAIN o[r][h] = 1..Pieces(b)
            /\ \A s \in 1..Pieces(b) : o[r][h][s] = ValueOf(b, s - 1)

CallIInv == Launched /\ Outputs /\ TilesReached /\ CombineReady /\ Ended

AttentionIInv == ScheduleIInv /\ (Unpadded => CallIInv)

(* What the schedule has fixed.                                            *)
LEMMA ScheduleStill ==
    ASSUME scheduleVars' = scheduleVars
    PROVE  /\ req' = req /\ out' = out /\ Size' = Size /\ Batch' = Batch /\ KvHeads' = KvHeads
           /\ Tiles' = Tiles /\ Resident' = Resident /\ Built' = Built /\ Accepted' = Accepted
           /\ WantedWork' = WantedWork
           /\ \A b : Pieces(b)' = Pieces(b)
           /\ \A n : Prior(n)' = Prior(n)
           /\ \A b, kv : ValueOf(b, kv)' = ValueOf(b, kv)
           /\ \A n : TileRows(n)' = TileRows(n)
<1>1. req' = req /\ warpAt' = warpAt /\ sm' = sm /\ out' = out
  BY DEF scheduleVars
<1>2. /\ Size' = Size /\ Batch' = Batch /\ Warp' = Warp /\ ScanSteps' = ScanSteps /\ PadWork' = PadWork
  BY <1>1, CallKept
<1>3. /\ \A b : Pieces(b)' = Pieces(b)
      /\ \A n : Prior(n)' = Prior(n)
  BY <1>1, PiecesKept
<1>4. KvHeads' = KvHeads /\ Tiles' = Tiles /\ Resident' = Resident /\ \A n : TileRows(n)' = TileRows(n)
  BY <1>1 DEF KvHeads, Tiles, Resident, TileRows
<1>5. Built' = Built /\ Accepted' = Accepted
  BY <1>1, <1>2 DEF Built, Accepted
<1>6. \A b, kv : ValueOf(b, kv)' = ValueOf(b, kv)
  BY <1>1 DEF ValueOf, PagesOfSplit, KvPages
<1>7. WantedWork' = WantedWork
  <2>1. \A b : Wanted(b)' = Wanted(b)
    BY <1>1, CallKept DEF Wanted
  <2>2. QTiles' = QTiles
    BY <1>1, CallKept
  <2>. DEFINE f == [b \in Batch |-> Wanted(b)]
  <2>3. f' = f
    BY <1>2, <2>1
  <2>. HIDE DEF f
  <2>4. Total(f, Batch)' = Total(f, Batch)
    BY <1>2, <2>3
  <2>. QED
    BY <2>2, <2>4 DEF WantedWork, f
<1>. QED
  BY <1>1, <1>2, <1>3, <1>4, <1>5, <1>6, <1>7

(* Tiles have rows of their own.                                           *)
LEMMA RowsApart ==
    ASSUME NEW N \in Nat, NEW QT \in Nat \ {0}, QT = QTokens
    PROVE  /\ \A i \in 0..(N - 1) : TileRows(QT * i) \subseteq 0..(QT * N - 1)
           /\ \A i, j \in Nat : \A r \in TileRows(QT * i) : r \in TileRows(QT * j) => i = j
<1>1. ASSUME NEW i \in Nat, NEW r \in TileRows(QT * i) PROVE r \in Nat /\ r \div QT = i /\ r < i * QT + QT
  <2>. DEFINE x == QT * i
  <2>1. x \in Nat /\ x = i * QT
    BY Product
  <2>2. r \in x..(x + QT - 1)
    BY DEF TileRows
  <2>. HIDE DEF x
  <2>3. r \in Nat /\ x <= r /\ r < x + QT
    BY <2>1, <2>2
  <2>4. r \in Nat /\ i * QT <= r /\ r < i * QT + QT
    BY <2>1, <2>3
  <2>5. r \div QT = i
    BY <2>4, QuotientOf
  <2>. QED
    BY <2>4, <2>5
<1>2. ASSUME NEW i \in 0..(N - 1), NEW r \in TileRows(QT * i) PROVE r \in 0..(QT * N - 1)
  <2>1. i \in Nat /\ i < N
    OBVIOUS
  <2>2. i * QT + QT <= N * QT
    BY <2>1, Groups
  <2>3. N * QT \in Nat /\ QT * N = N * QT /\ i * QT \in Nat
    BY <2>1, Product
  <2>4. r \in Nat /\ r < i * QT + QT
    BY <1>1, <2>1
  <2>. DEFINE y == N * QT  z == i * QT
  <2>5. y \in Nat /\ z \in Nat /\ z + QT <= y /\ r < z + QT
    BY <2>2, <2>3, <2>4
  <2>. HIDE DEF y, z
  <2>6. r \in 0..(y - 1)
    BY <2>4, <2>5
  <2>. QED
    BY <2>3, <2>6 DEF y
<1>3. ASSUME NEW i \in Nat, NEW j \in Nat, NEW r \in TileRows(QT * i), r \in TileRows(QT * j) PROVE i = j
  BY <1>1, <1>3
<1>. QED
  BY <1>2, <1>3

\* What working off the tile of a piece and a head does to the rows.
MakesTile(i, head) ==
    LET rows == TileRows(QTokens * i)
        value == ValueOf(out.list[i].b, out.list[i].kv) IN
    /\ out.info.split =>
          /\ partial' = [row \in DOMAIN partial \cup rows |->
                IF row \in rows THEN [partial[row] EXCEPT ![head] = value] ELSE partial[row]]
          /\ o' = o /\ rows \subseteq 0..(out.info.rows - 1)
    /\ ~ out.info.split =>
          /\ o' = [row \in DOMAIN o |->
                IF row \in rows THEN [o[row] EXCEPT ![head] = <<value>>] ELSE o[row]]
          /\ partial' = partial /\ rows \subseteq 0..(Size * req.seqlenQ - 1)

(* A CTA works off the tile it holds.                                      *)
LEMMA AttendRight ==
    ASSUME AttentionIInv, Unpadded, launch = "attend", NEW c \in DOMAIN tile, Attend(c)
    PROVE  \E i \in 0..(Prior(Size) - 1), head \in KvHeads :
             tile[c] = head * Prior(Size) + i /\ MakesTile(i, head)
<1>. DEFINE N == Prior(Size)
<1>1. /\ ScheduleIInv /\ Built /\ Accepted
      /\ tile \in [0..(Resident - 1) -> Nat]
  BY DEF AttentionIInv, CallIInv, Launched, TilesReached
<1>2. /\ req.seqlenQ = QTokens /\ QTokens \in Nat \ {0} /\ QStride = QTokens /\ req.heads \in Nat \ {0}
      /\ N \in Nat \ {0} /\ out.info.padded = N
      /\ out.info.rows = QTokens * N
      /\ \A b \in Batch :
           /\ Pieces(b) \in Nat \ {0} /\ Prior(b) \in Nat
           /\ out.oIndptr[b] = QTokens * Prior(b)
           /\ \A kv \in 0..(Pieces(b) - 1) :
                out.list[Prior(b) + kv] = [b |-> b, q |-> 0, kv |-> kv, mask |-> 1]
      /\ \A i \in 0..(N - 1) :
           \E b \in Batch : \E kv \in 0..(Pieces(b) - 1) : i = Prior(b) + kv
      /\ ~ out.info.split => N = Size /\ \A b \in Batch : Pieces(b) = 1 /\ Prior(b) = b
  BY <1>1, AcceptedRight
<1>. DEFINE x == tile[c]  i == x % N  head == x \div N
<1>3. x \in Nat /\ x < req.heads * N
  <2>1. x \in Nat /\ x < out.info.padded * req.heads
    BY <1>1 DEF Attend, Tiles
  <2>2. N * req.heads = req.heads * N
    BY <1>2, Product
  <2>. QED
    BY <1>2, <2>1, <2>2
<1>. HIDE DEF N, x
<1>4. x = head * N + i /\ i \in 0..(N - 1)
  BY <1>2, <1>3, Euclid
<1>5. head \in KvHeads
  BY <1>2, <1>3, RowsOf DEF KvHeads
<1>6. PICK b \in Batch : \E kv \in 0..(Pieces(b) - 1) : i = Prior(b) + kv
  BY <1>2, <1>4
<1>7. PICK kv \in 0..(Pieces(b) - 1) : i = Prior(b) + kv
  BY <1>6
<1>. DEFINE piece == out.list[i]
<1>8. piece = [b |-> b, q |-> 0, kv |-> kv, mask |-> 1]
  BY <1>2, <1>7
<1>. DEFINE rows == TileRows(QTokens * i)  value == ValueOf(b, kv)
<1>9. IF out.info.split THEN TileRows(out.oIndptr[b] + kv * QStride + 0 * QTokens) = rows
      ELSE TileRows(b * req.seqlenQ + 0 * QTokens) = rows
  <2>1. b \in Nat /\ kv \in Nat /\ Prior(b) \in Nat /\ QTokens \in Nat
    <3>1. Batch \subseteq Nat
      BY DEF Batch
    <3>. QED
      BY <1>2, <3>1
  <2>2. CASE out.info.split
    <3>1. QTokens * Prior(b) + kv * QTokens + 0 * QTokens = QTokens * (Prior(b) + kv)
      BY <2>1
    <3>. QED
      BY <1>2, <1>7, <2>2, <3>1
  <2>3. CASE ~ out.info.split
    <3>1. i = b
      BY <1>2, <1>7, <2>1, <2>3
    <3>2. b * QTokens + 0 * QTokens = QTokens * b
      BY <2>1
    <3>. QED
      BY <1>2, <2>3, <3>1, <3>2
  <2>. QED
    BY <2>2, <2>3
<1>10. /\ out.info.split =>
            /\ partial' = [row \in DOMAIN partial \cup rows |->
                  IF row \in rows THEN [partial[row] EXCEPT ![head] = value] ELSE partial[row]]
            /\ o' = o
       /\ ~ out.info.split =>
            /\ o' = [row \in DOMAIN o |->
                  IF row \in rows THEN [o[row] EXCEPT ![head] = <<value>>] ELSE o[row]]
            /\ partial' = partial
  <2>. DEFINE all == IF out.info.split THEN TileRows(out.oIndptr[piece.b] + piece.kv * QStride + piece.q * QTokens)
                     ELSE TileRows(piece.b * req.seqlenQ + piece.q * QTokens)
              val == [b |-> piece.b, pages |-> PagesOfSplit(piece.b, piece.kv)]
  <2>1. IF piece.mask = 0 THEN UNCHANGED <<partial, o>>
        ELSE IF out.info.split
        THEN /\ partial' = [row \in DOMAIN partial \cup all |->
                     IF row \in all THEN [partial[row] EXCEPT ![head] = val] ELSE partial[row]]
             /\ UNCHANGED o
        ELSE /\ o' = [row \in DOMAIN o |->
                     IF row \in all THEN [o[row] EXCEPT ![head] = <<val>>] ELSE o[row]]
             /\ UNCHANGED partial
    BY <1>2, ZenonT(30) DEF Attend, x, N
  <2>2. all = rows /\ val = value /\ piece.mask # 0
    <3>1. piece.b = b /\ piece.q = 0 /\ piece.kv = kv /\ piece.mask = 1
      BY <1>8
    <3>2. all = rows
      <4>. HIDE DEF piece, rows
      <4>. QED
        BY <1>9, <3>1
    <3>. HIDE DEF piece, rows, all
    <3>. QED
      BY <3>1, <3>2 DEF ValueOf
  <2>. HIDE DEF all, val, rows, value, piece, head
  <2>. QED
    BY <2>1, <2>2
<1>11. /\ out.info.split => rows \subseteq 0..(out.info.rows - 1)
       /\ ~ out.info.split => rows \subseteq 0..(Size * req.seqlenQ - 1)
  <2>1. rows \subseteq 0..(QTokens * N - 1)
    BY <1>2, <1>4, RowsApart
  <2>2. ~ out.info.split => Size * req.seqlenQ = QTokens * N
    BY <1>2, Product
  <2>. HIDE DEF rows
  <2>. QED
    BY <1>2, <2>1, <2>2
<1>12. value = ValueOf(out.list[i].b, out.list[i].kv)
  BY <1>8
<1>13. MakesTile(i, head)
  <2>. HIDE DEF i, head
  <2>. QED
    BY <1>10, <1>11, <1>12 DEF MakesTile
<1>. HIDE DEF i, head
<1>. QED
  BY <1>4, <1>5, <1>13 DEF x, N

(* Writing one column of some rows of a grid.                              *)
LEMMA GridWritten ==
    ASSUME NEW R, NEW H, NEW f, f = [r \in R |-> [h \in H |-> f[r][h]]],
           NEW rows \in SUBSET R, NEW head \in H, NEW v,
           NEW g, g = [r \in R |-> IF r \in rows THEN [f[r] EXCEPT ![head] = v] ELSE f[r]]
    PROVE  /\ g = [r \in R |-> [h \in H |-> g[r][h]]]
           /\ \A r \in R, h \in H : g[r][h] = IF r \in rows /\ h = head THEN v ELSE f[r][h]
<1>1. ASSUME NEW r \in R
      PROVE  /\ g[r] = [h \in H |-> g[r][h]]
             /\ \A h \in H : g[r][h] = IF r \in rows /\ h = head THEN v ELSE f[r][h]
  <2>1. f[r] = [h \in H |-> f[r][h]]
    OBVIOUS
  <2>2. CASE r \in rows
    <3>1. g[r] = [f[r] EXCEPT ![head] = v]
      BY <2>2
    <3>2. g[r] = [h \in H |-> IF h = head THEN v ELSE f[r][h]]
      BY <2>1, <3>1
    <3>. QED
      BY <2>2, <3>2
  <2>3. CASE r \notin rows
    <3>1. g[r] = f[r]
      BY <2>3
    <3>. QED
      BY <2>1, <2>3, <3>1
  <2>. QED
    BY <2>2, <2>3
<1>2. g = [r \in R |-> [h \in H |-> g[r][h]]]
  BY <1>1
<1>. QED
  BY <1>1, <1>2

(* A row that is made stays made, and those of the tile become so.         *)
LEMMA MadeKept ==
    ASSUME AttentionIInv, Unpadded, launch = "attend", scheduleVars' = scheduleVars,
           NEW i \in 0..(Prior(Size) - 1), NEW head \in KvHeads, MakesTile(i, head)
    PROVE  /\ Outputs'
           /\ Made(i, head)'
           /\ \A j \in 0..(Prior(Size) - 1), h \in KvHeads : Made(j, h) => Made(j, h)'
<1>. DEFINE rows == TileRows(QTokens * i)  value == ValueOf(out.list[i].b, out.list[i].kv)
            P == 0..(out.info.rows - 1)  O == 0..(Size * req.seqlenQ - 1)
<1>1. /\ ScheduleIInv /\ Built /\ Accepted
      /\ o = [r \in O |-> [h \in KvHeads |-> o[r][h]]]
      /\ partial = [r \in P |-> [h \in KvHeads |-> partial[r][h]]]
  BY DEF AttentionIInv, CallIInv, Launched, Outputs, RowGrid
<1>2. QTokens \in Nat \ {0} /\ Prior(Size) \in Nat \ {0} /\ req.seqlenQ = QTokens
      /\ out.info.rows = QTokens * Prior(Size) /\ (~ out.info.split => Prior(Size) = Size)
  BY <1>1, AcceptedRight
<1>3. /\ req' = req /\ out' = out /\ Size' = Size /\ KvHeads' = KvHeads
      /\ \A b, kv : ValueOf(b, kv)' = ValueOf(b, kv)
      /\ \A n : TileRows(n)' = TileRows(n)
  BY ScheduleStill
<1>4. ASSUME NEW j \in 0..(Prior(Size) - 1), NEW r \in TileRows(QTokens * j)
      PROVE  /\ r \in rows => j = i
             /\ out.info.split => r \in P
             /\ ~ out.info.split => r \in O
  <2>1. j \in Nat /\ i \in Nat
    <3>. DEFINE M == Prior(Size)
    <3>1. M \in Nat /\ i \in 0..(M - 1) /\ j \in 0..(M - 1)
      BY <1>2
    <3>. HIDE DEF M
    <3>. QED
      BY <3>1
  <2>2. r \in 0..(QTokens * Prior(Size) - 1)
    <3>. DEFINE M == Prior(Size)
    <3>1. M \in Nat /\ j \in 0..(M - 1) /\ r \in TileRows(QTokens * j)
      BY <1>2
    <3>. HIDE DEF M
    <3>2. r \in 0..(QTokens * M - 1)
      BY <1>2, <3>1, RowsApart
    <3>. QED
      BY <3>2 DEF M
  <2>3. r \in TileRows(QTokens * i) => j = i
    BY <1>2, <2>1, RowsApart
  <2>4. ~ out.info.split => Size * QTokens = QTokens * Prior(Size)
    <3>. DEFINE M == Prior(Size)
    <3>1. M \in Nat /\ (~ out.info.split => M = Size)
      BY <1>2
    <3>2. M * QTokens = QTokens * M
      BY <1>2, <3>1, Product
    <3>. HIDE DEF M
    <3>3. ~ out.info.split => Size * QTokens = QTokens * M
      BY <3>1, <3>2
    <3>. QED
      BY <3>3 DEF M
  <2>5. out.info.split => r \in P
    BY <1>2, <2>2
  <2>6. ~ out.info.split => r \in O
    BY <1>2, <2>2, <2>4
  <2>. QED
    BY <2>3, <2>5, <2>6
<1>5. \A j \in 0..(Prior(Size) - 1), r \in rows : j = i => r \in TileRows(QTokens * j)
  OBVIOUS
<1>. HIDE DEF rows, value, P, O
<1>6. CASE out.info.split
  <2>1. /\ partial' = [row \in DOMAIN partial \cup rows |->
              IF row \in rows THEN [partial[row] EXCEPT ![head] = value] ELSE partial[row]]
        /\ o' = o /\ rows \subseteq P
    BY <1>6 DEF MakesTile, rows, value, P
  <2>2. DOMAIN partial = P /\ P \cup rows = P
    BY <1>1, <2>1
  <2>3. partial' = [row \in P |->
              IF row \in rows THEN [partial[row] EXCEPT ![head] = value] ELSE partial[row]]
    BY <2>1, <2>2
  <2>. DEFINE g == partial'
  <2>4. rows \in SUBSET P /\ g = [row \in P |->
              IF row \in rows THEN [partial[row] EXCEPT ![head] = value] ELSE partial[row]]
    BY <2>1, <2>3
  <2>. HIDE DEF g
  <2>5. /\ g = [r \in P |-> [h \in KvHeads |-> g[r][h]]]
        /\ \A r \in P, h \in KvHeads :
             g[r][h] = IF r \in rows /\ h = head THEN value ELSE partial[r][h]
    BY <1>1, <2>4, GridWritten
  <2>6. Outputs'
    BY <1>1, <1>3, <2>1, <2>5 DEF Outputs, RowGrid, g, P, O
  <2>7. ASSUME NEW j \in 0..(Prior(Size) - 1), NEW h \in KvHeads, Made(j, h) \/ (j = i /\ h = head)
        PROVE  Made(j, h)'
    <3>1. ASSUME NEW r \in TileRows(QTokens * j)
          PROVE  g[r][h] = ValueOf(out.list[j].b, out.list[j].kv)
      <4>1. r \in P /\ (r \in rows => j = i)
        BY <1>4, <1>6
      <4>2. g[r][h] = IF r \in rows /\ h = head THEN value ELSE partial[r][h]
        BY <2>5, <4>1
      <4>3. j = i => r \in rows
        BY DEF rows
      <4>4. j = i => value = ValueOf(out.list[j].b, out.list[j].kv)
        BY DEF value
      <4>5. Made(j, h) => partial[r][h] = ValueOf(out.list[j].b, out.list[j].kv)
        BY <1>6 DEF Made
      <4>. QED
        BY <2>7, <4>1, <4>2, <4>3, <4>4, <4>5
    <3>. QED
      BY <1>3, <1>6, <3>1 DEF Made, g
  <2>. QED
    BY <2>6, <2>7
<1>7. CASE ~ out.info.split
  <2>1. /\ o' = [row \in DOMAIN o |->
              IF row \in rows THEN [o[row] EXCEPT ![head] = <<value>>] ELSE o[row]]
        /\ partial' = partial /\ rows \subseteq O
    BY <1>7 DEF MakesTile, rows, value, O
  <2>2. DOMAIN o = O
    BY <1>1
  <2>. DEFINE g == o'  v == <<value>>
  <2>4. rows \in SUBSET O /\ g = [row \in O |-> IF row \in rows THEN [o[row] EXCEPT ![head] = v] ELSE o[row]]
    BY <2>1, <2>2
  <2>. HIDE DEF g, v
  <2>5. /\ g = [r \in O |-> [h \in KvHeads |-> g[r][h]]]
        /\ \A r \in O, h \in KvHeads : g[r][h] = IF r \in rows /\ h = head THEN v ELSE o[r][h]
    BY <1>1, <2>4, GridWritten
  <2>6. Outputs'
    BY <1>1, <1>3, <2>1, <2>5 DEF Outputs, RowGrid, g, P, O
  <2>7. ASSUME NEW j \in 0..(Prior(Size) - 1), NEW h \in KvHeads, Made(j, h) \/ (j = i /\ h = head)
        PROVE  Made(j, h)'
    <3>1. ASSUME NEW r \in TileRows(QTokens * j)
          PROVE  g[r][h] = <<ValueOf(out.list[j].b, out.list[j].kv)>>
      <4>1. r \in O /\ (r \in rows => j = i)
        BY <1>4, <1>7
      <4>2. g[r][h] = IF r \in rows /\ h = head THEN v ELSE o[r][h]
        BY <2>5, <4>1
      <4>3. j = i => r \in rows
        BY DEF rows
      <4>4. j = i => v = <<ValueOf(out.list[j].b, out.list[j].kv)>>
        BY DEF value, v
      <4>5. Made(j, h) => o[r][h] = <<ValueOf(out.list[j].b, out.list[j].kv)>>
        BY <1>7 DEF Made
      <4>. QED
        BY <2>7, <4>1, <4>2, <4>3, <4>4, <4>5
    <3>. QED
      BY <1>3, <1>7, <3>1 DEF Made, g
  <2>. QED
    BY <2>6, <2>7
<1>. QED
  BY <1>6, <1>7

(* Working off a tile.                                                     *)
LEMMA StepAttend ==
    ASSUME AttentionIInv, Unpadded, NEW c \in DOMAIN tile, Attend(c)
    PROVE  CallIInv'
<1>. DEFINE N == Prior(Size)  R == 0..(Resident - 1)
<1>1. /\ launch = "attend" /\ launch' = launch /\ scheduleVars' = scheduleVars
      /\ tile' = [tile EXCEPT ![c] = next] /\ next' = next + 1
  BY DEF Attend
<1>2. /\ ScheduleIInv /\ Built /\ Accepted
      /\ tile \in [R -> Nat] /\ next \in Nat /\ \A d \in DOMAIN tile : tile[d] < next
      /\ \A j \in 0..(N - 1), h \in KvHeads :
           \/ h * N + j >= next
           \/ Made(j, h)
           \/ \E d \in DOMAIN tile : tile[d] = h * N + j
  BY <1>1 DEF AttentionIInv, CallIInv, Launched, TilesReached
<1>3. N \in Nat \ {0} /\ req.heads \in Nat \ {0}
  BY <1>2, AcceptedRight
<1>4. /\ req' = req /\ out' = out /\ Size' = Size /\ KvHeads' = KvHeads /\ Resident' = Resident
      /\ Built' = Built /\ Accepted' = Accepted /\ N' = N
  BY <1>1, ScheduleStill
<1>5. PICK i \in 0..(N - 1), head \in KvHeads : tile[c] = head * N + i /\ MakesTile(i, head)
  BY <1>1, AttendRight
<1>6. /\ Outputs'
      /\ Made(i, head)'
      /\ \A j \in 0..(N - 1), h \in KvHeads : Made(j, h) => Made(j, h)'
  BY <1>1, <1>5, MadeKept
<1>. HIDE DEF N, R
<1>7. tile' \in [R -> Nat] /\ next' \in Nat /\ DOMAIN tile' = DOMAIN tile
      /\ \A d \in DOMAIN tile' : tile'[d] < next'
  BY <1>1, <1>2
<1>8. ASSUME NEW j \in 0..(N - 1), NEW h \in KvHeads
      PROVE  \/ h * N + j >= next'
             \/ Made(j, h)'
             \/ \E d \in DOMAIN tile' : tile'[d] = h * N + j
  <2>. DEFINE x == h * N + j
  <2>1. h \in Nat /\ j \in Nat /\ x \in Nat
    <3>1. h \in Nat /\ j \in Nat /\ N \in Nat
      BY <1>3 DEF KvHeads
    <3>2. h * N \in Nat
      BY <3>1, Product
    <3>. QED
      BY <3>1, <3>2
  <2>2. CASE Made(j, h)
    BY <1>6, <2>2
  <2>3. CASE x >= next
    <3>. HIDE DEF x
    <3>1. x >= next + 1 \/ x = next
      BY <1>2, <2>1, <2>3
    <3>2. x = next => tile'[c] = x /\ c \in DOMAIN tile'
      BY <1>1, <1>2
    <3>. QED
      BY <1>1, <3>1, <3>2 DEF x
  <2>4. CASE \E d \in DOMAIN tile : tile[d] = x
    <3>1. PICK d \in DOMAIN tile : tile[d] = x
      BY <2>4
    <3>2. CASE d # c
      <4>1. tile'[d] = x /\ d \in DOMAIN tile'
        <5>. HIDE DEF x
        <5>. QED
          BY <1>1, <1>2, <3>1, <3>2
      <4>. QED
        BY <4>1
    <3>3. CASE d = c
      <4>1. x = head * N + i
        BY <1>5, <3>1, <3>3
      <4>2. head \in Nat /\ i \in Nat /\ i < N /\ j < N
        BY <1>3, <1>5 DEF KvHeads
      <4>3. h * N \in Nat /\ head * N \in Nat
        BY <1>3, <2>1, <4>2, Product
      <4>4. h * N <= x /\ x < h * N + N /\ head * N <= x /\ x < head * N + N
        <5>. DEFINE y == h * N  z == head * N
        <5>1. y \in Nat /\ z \in Nat /\ x = y + j /\ x = z + i
          BY <4>1, <4>3
        <5>. HIDE DEF x, y, z
        <5>2. y <= x /\ x < y + N /\ z <= x /\ x < z + N
          BY <1>3, <2>1, <4>2, <5>1
        <5>. QED
          BY <5>2 DEF y, z
      <4>5. x \div N = h /\ x \div N = head
        <5>. HIDE DEF x
        <5>1. x \div N = h
          BY <1>3, <2>1, <4>4, QuotientOf
        <5>2. x \div N = head
          BY <1>3, <2>1, <4>2, <4>4, QuotientOf
        <5>. QED
          BY <5>1, <5>2
      <4>6. h = head
        BY <4>5
      <4>7. j = i
        <5>. DEFINE y == h * N
        <5>1. y \in Nat /\ y + j = y + i
          BY <4>1, <4>3, <4>6
        <5>. HIDE DEF y
        <5>. QED
          BY <2>1, <4>2, <5>1
      <4>. QED
        BY <1>6, <4>6, <4>7
    <3>. QED
      BY <3>2, <3>3
  <2>. QED
    BY <1>2, <2>2, <2>3, <2>4
<1>9. Launched'
  BY <1>1, <1>2, <1>4 DEF Launched
<1>10. TilesReached'
  BY <1>1, <1>4, <1>7, <1>8 DEF TilesReached, N, R
<1>11. CombineReady' /\ Ended'
  BY <1>1 DEF CombineReady, Ended
<1>. QED
  BY <1>6, <1>9, <1>10, <1>11 DEF CallIInv

\* The tile of a piece and a head is one of the grid.
LEMMA TileInGrid ==
    ASSUME NEW N \in Nat \ {0}, NEW heads \in Nat, NEW j \in 0..(N - 1), NEW h \in 0..(heads - 1)
    PROVE  h * N + j \in Nat /\ h * N + j < N * heads
<1>1. h \in Nat /\ j \in Nat /\ j < N /\ h < heads
  OBVIOUS
<1>2. h * N \in Nat /\ heads * N \in Nat /\ heads * N = N * heads
  BY <1>1, Product
<1>3. h * N + N <= heads * N
  BY <1>1, Groups
<1>. DEFINE y == h * N  z == heads * N
<1>4. y \in Nat /\ z \in Nat /\ y + N <= z
  BY <1>2, <1>3
<1>. HIDE DEF y, z
<1>5. y + j \in Nat /\ y + j < z
  BY <1>1, <1>4
<1>. QED
  BY <1>2, <1>5 DEF y, z

(* The call is launched, or it raises.                                     *)
LEMMA StepLaunch ==
    ASSUME AttentionIInv, Unpadded, Launch
    PROVE  CallIInv'
<1>1. /\ launch = "build" /\ Built /\ scheduleVars' = scheduleVars /\ o' = o
      /\ ScheduleIInv /\ Outputs
  BY DEF Launch, AttentionIInv, CallIInv
<1>2. /\ req' = req /\ out' = out /\ Size' = Size /\ KvHeads' = KvHeads /\ Resident' = Resident
      /\ Built' = Built /\ Accepted' = Accepted /\ Prior(Size)' = Prior(Size)
  BY <1>1, ScheduleStill
<1>3. CASE Accepted
  <2>1. /\ launch' = "attend"
        /\ tile' = [c \in 0..(Resident - 1) |-> c] /\ next' = Resident
        /\ partial' = [row \in 0..(out.info.rows - 1) |-> [h \in KvHeads |-> Nothing]]
    BY <1>3 DEF Launch
  <2>. DEFINE N == Prior(Size)
  <2>2. N \in Nat \ {0} /\ req.heads \in Nat \ {0} /\ out.info.padded = N /\ Sms \in Nat \ {0}
    BY <1>1, <1>3, AcceptedRight, Arguments DEF ScheduleIInv
  <2>3. Resident \in Nat
    <3>1. Tiles \in Nat
      BY <2>2, Product DEF Tiles
    <3>. QED
      BY <2>2, <3>1 DEF Resident, Smaller
  <2>. HIDE DEF N
  <2>4. ASSUME NEW j \in 0..(N - 1), NEW h \in KvHeads
        PROVE  h * N + j >= next' \/ \E c \in DOMAIN tile' : tile'[c] = h * N + j
    <3>. DEFINE x == h * N + j
    <3>1. x \in Nat
      BY <2>2, TileInGrid DEF KvHeads
    <3>. HIDE DEF x
    <3>2. x >= Resident \/ x \in 0..(Resident - 1)
      BY <2>3, <3>1
    <3>3. x >= next' \/ (x \in DOMAIN tile' /\ tile'[x] = x)
      BY <2>1, <3>2
    <3>. QED
      BY <3>3 DEF x
  <2>5. /\ tile' \in [0..(Resident - 1) -> Nat] /\ next' \in Nat
        /\ \A c \in DOMAIN tile' : tile'[c] < next'
    BY <2>1, <2>3
  <2>6. TilesReached'
    BY <1>2, <2>4, <2>5 DEF TilesReached, N
  <2>7. Outputs'
    <3>1. RowGrid(o, Size * req.seqlenQ)
      BY <1>1 DEF Outputs
    <3>2. RowGrid(partial', out.info.rows)
      <4>. DEFINE R == 0..(out.info.rows - 1)
      <4>1. partial' = [row \in R |-> [h \in KvHeads |-> Nothing]]
        BY <2>1
      <4>. HIDE DEF R
      <4>2. \A row \in R : \A h \in KvHeads : partial'[row][h] = Nothing
        BY <4>1
      <4>3. partial' = [row \in R |-> [h \in KvHeads |-> partial'[row][h]]]
        BY <4>1, <4>2
      <4>. QED
        BY <4>3 DEF RowGrid, R
    <3>. QED
      BY <1>1, <1>2, <3>1, <3>2 DEF Outputs, RowGrid
  <2>8. Launched'
    BY <1>1, <1>2, <1>3 DEF Launched
  <2>9. CombineReady' /\ Ended'
    BY <2>1 DEF CombineReady, Ended
  <2>. QED
    BY <2>6, <2>7, <2>8, <2>9 DEF CallIInv
<1>4. CASE ~ Accepted
  <2>1. launch' = "raised"
    BY <1>4 DEF Launch
  <2>2. Outputs'
    BY <1>1, <1>2, <2>1 DEF Outputs, RowGrid
  <2>. QED
    BY <2>1, <2>2 DEF CallIInv, Launched, TilesReached, CombineReady, Ended
<1>. QED
  BY <1>3, <1>4

(* The kernel is done when no CTA has a tile left.                         *)
LEMMA StepAttended ==
    ASSUME AttentionIInv, Unpadded, Attended
    PROVE  CallIInv'
<1>. DEFINE N == Prior(Size)
<1>1. /\ launch = "attend" /\ \A c \in DOMAIN tile : tile[c] >= Tiles
      /\ launch' = IF out.info.split THEN "combine" ELSE "done"
      /\ scheduleVars' = scheduleVars /\ partial' = partial /\ o' = o
  BY DEF Attended
<1>2. /\ ScheduleIInv /\ Built /\ Accepted /\ Outputs
      /\ tile \in [0..(Resident - 1) -> Nat] /\ next \in Nat /\ \A d \in DOMAIN tile : tile[d] < next
      /\ \A j \in 0..(N - 1), h \in KvHeads :
           \/ h * N + j >= next
           \/ Made(j, h)
           \/ \E d \in DOMAIN tile : tile[d] = h * N + j
  BY <1>1 DEF AttentionIInv, CallIInv, Launched, TilesReached
<1>3. /\ N \in Nat \ {0} /\ req.heads \in Nat \ {0} /\ out.info.padded = N /\ Sms \in Nat \ {0}
  BY <1>2, AcceptedRight, Arguments DEF ScheduleIInv
<1>4. /\ req' = req /\ out' = out /\ Size' = Size /\ KvHeads' = KvHeads /\ Batch' = Batch
      /\ Built' = Built /\ Accepted' = Accepted /\ N' = N
      /\ \A b : Pieces(b)' = Pieces(b)
      /\ \A b, kv : ValueOf(b, kv)' = ValueOf(b, kv)
      /\ \A n : TileRows(n)' = TileRows(n)
  BY <1>1, ScheduleStill
<1>5. Tiles = N * req.heads /\ Tiles \in Nat \ {0}
  <2>. HIDE DEF N
  <2>1. N * req.heads \in Nat /\ (N # 0 /\ N * req.heads = N * 0 => req.heads = 0) /\ N * 0 = 0
    BY <1>3, Product
  <2>. QED
    BY <1>3, <2>1 DEF Tiles
<1>6. next > Tiles
  <2>1. Resident \in Nat \ {0}
    BY <1>3, <1>5 DEF Resident, Smaller
  <2>2. 0 \in DOMAIN tile /\ tile[0] \in Nat
    BY <1>2, <2>1
  <2>. QED
    BY <1>1, <1>2, <1>5, <2>2
<1>. HIDE DEF N
<1>7. ASSUME NEW j \in 0..(N - 1), NEW h \in KvHeads PROVE Made(j, h)
  <2>. DEFINE x == h * N + j
  <2>1. x \in Nat /\ x < Tiles
    BY <1>3, <1>5, TileInGrid DEF KvHeads
  <2>2. x >= next \/ Made(j, h) \/ \E d \in DOMAIN tile : tile[d] = x
    BY <1>2
  <2>. HIDE DEF x
  <2>3. ~ (x >= next)
    BY <1>2, <1>5, <1>6, <2>1
  <2>4. ~ \E d \in DOMAIN tile : tile[d] = x
    BY <1>1, <1>2, <1>5, <2>1
  <2>. QED
    BY <2>2, <2>3, <2>4
<1>8. Outputs' /\ Launched' /\ TilesReached'
  <2>1. RowGrid(o, Size * req.seqlenQ) /\ RowGrid(partial, out.info.rows)
    BY <1>1, <1>2 DEF Outputs
  <2>. QED
    BY <1>1, <1>2, <1>4, <2>1 DEF Outputs, RowGrid, Launched, TilesReached
<1>9. CASE out.info.split
  <2>1. launch' = "combine"
    BY <1>1, <1>9
  <2>2. ASSUME NEW j \in 0..(N - 1), NEW h \in KvHeads PROVE Made(j, h)'
    BY <1>1, <1>4, <1>7 DEF Made
  <2>3. CombineReady'
    BY <1>4, <1>9, <2>2 DEF CombineReady, N
  <2>4. Ended'
    BY <2>1 DEF Ended
  <2>. QED
    BY <1>8, <2>3, <2>4 DEF CallIInv
<1>10. CASE ~ out.info.split
  <2>1. launch' = "done"
    BY <1>1, <1>10
  <2>2. N = Size /\ \A b \in Batch : Pieces(b) = 1 /\ Prior(b) = b
    BY <1>2, <1>10, AcceptedRight DEF N
  <2>3. ASSUME NEW b \in Batch, NEW r \in TileRows(QTokens * b), NEW h \in KvHeads
        PROVE  /\ DOMAIN o[r][h] = 1..Pieces(b)
               /\ \A s \in 1..Pieces(b) : o[r][h][s] = ValueOf(b, s - 1)
    <3>1. b \in 0..(N - 1) /\ b \in Nat
      BY <2>2, <1>3 DEF Batch
    <3>2. o[r][h] = <<ValueOf(out.list[b].b, out.list[b].kv)>>
      BY <1>7, <1>10, <3>1 DEF Made
    <3>3. out.list[b] = [b |-> b, q |-> 0, kv |-> 0, mask |-> 1]
      <4>1. 0 \in 0..(Pieces(b) - 1) /\ Prior(b) + 0 = b
        BY <2>2, <3>1
      <4>2. out.list[Prior(b) + 0] = [b |-> b, q |-> 0, kv |-> 0, mask |-> 1]
        BY <1>2, <4>1, AcceptedRight
      <4>. QED
        BY <4>1, <4>2
    <3>4. o[r][h] = <<ValueOf(b, 0)>>
      BY <3>2, <3>3
    <3>5. DOMAIN o[r][h] = 1..1 /\ o[r][h][1] = ValueOf(b, 0)
      <4>. DEFINE v == ValueOf(b, 0)
      <4>1. o[r][h] = <<v>>
        BY <3>4
      <4>. HIDE DEF v
      <4>2. DOMAIN o[r][h] = 1..1 /\ o[r][h][1] = v
        BY <4>1
      <4>. QED
        BY <4>2 DEF v
    <3>6. Pieces(b) = 1 /\ \A s \in 1..1 : s = 1 /\ s - 1 = 0
      BY <2>2
    <3>. QED
      BY <3>5, <3>6
  <2>4. Ended'
    BY <1>1, <1>4, <2>3 DEF Ended
  <2>5. CombineReady'
    BY <2>1 DEF CombineReady
  <2>. QED
    BY <1>8, <2>4, <2>5 DEF CallIInv
<1>. QED
  BY <1>9, <1>10

(* The combine kernel reads the rows of the pieces of a request.           *)
LEMMA StepCombine ==
    ASSUME AttentionIInv, Unpadded, Combine
    PROVE  CallIInv'
<1>. DEFINE N == Prior(Size)
            read(row, h) ==
                LET b == row \div req.seqlenQ
                    q == row % req.seqlenQ
                IN [s \in 1..out.splits[b] |-> partial[CombineRow(b, q, s - 1)][h]]
<1>1. /\ launch = "combine" /\ launch' = "done" /\ scheduleVars' = scheduleVars
      /\ o' = [row \in DOMAIN o |-> [h \in KvHeads |-> read(row, h)]]
  BY DEF Combine
<1>2. /\ ScheduleIInv /\ Built /\ Accepted /\ out.info.split
      /\ DOMAIN o = 0..(Size * req.seqlenQ - 1)
      /\ \A j \in 0..(N - 1), h \in KvHeads : Made(j, h)
  <2>1. RowGrid(o, Size * req.seqlenQ)
    BY <1>1 DEF AttentionIInv, CallIInv, Outputs
  <2>2. DOMAIN o = 0..(Size * req.seqlenQ - 1)
    BY <2>1 DEF RowGrid
  <2>. QED
    BY <1>1, <2>2 DEF AttentionIInv, CallIInv, Launched, CombineReady
<1>3. /\ req.seqlenQ = QTokens /\ QTokens \in Nat \ {0} /\ QStride = QTokens
      /\ \A b \in Batch :
           /\ Pieces(b) \in Nat \ {0} /\ Prior(b) \in Nat /\ out.splits[b] = Pieces(b)
           /\ out.oIndptr[b] = QTokens * Prior(b)
           /\ \A kv \in 0..(Pieces(b) - 1) :
                /\ Prior(b) + kv \in 0..(N - 1)
                /\ out.list[Prior(b) + kv] = [b |-> b, q |-> 0, kv |-> kv, mask |-> 1]
  BY <1>2, AcceptedRight
<1>4. /\ req' = req /\ out' = out /\ Size' = Size /\ KvHeads' = KvHeads /\ Batch' = Batch
      /\ Built' = Built /\ Accepted' = Accepted
      /\ \A b : Pieces(b)' = Pieces(b)
      /\ \A b, kv : ValueOf(b, kv)' = ValueOf(b, kv)
      /\ \A n : TileRows(n)' = TileRows(n)
  BY <1>1, ScheduleStill
<1>. HIDE DEF N, read
<1>5. ASSUME NEW b \in Batch, NEW r \in TileRows(QTokens * b), NEW h \in KvHeads
      PROVE  /\ r \in DOMAIN o
             /\ DOMAIN read(r, h) = 1..Pieces(b)
             /\ \A s \in 1..Pieces(b) : read(r, h)[s] = ValueOf(b, s - 1)
  <2>1. b \in Nat /\ b \in 0..(Size - 1) /\ Size \in Nat
    BY <1>2, BuiltPieces, Arguments DEF Batch
  <2>2. r \in 0..(Size * req.seqlenQ - 1)
    <3>1. r \in 0..(QTokens * Size - 1)
      BY <1>3, <2>1, RowsApart
    <3>2. QTokens * Size = Size * QTokens
      BY <1>3, <2>1, Product
    <3>. QED
      BY <1>3, <3>1, <3>2
  <2>. DEFINE q == r - QTokens * b
  <2>3. q \in 0..(QTokens - 1) /\ r \div QTokens = b /\ r % QTokens = q
    <3>. DEFINE x == QTokens * b  y == b * QTokens
    <3>1. x \in Nat /\ x = y /\ r \in x..(x + QTokens - 1)
      BY <1>3, <2>1, Product DEF TileRows
    <3>. HIDE DEF x, y
    <3>2. r \in Nat /\ y <= r /\ r < y + QTokens /\ r - x = r - y /\ r - x \in 0..(QTokens - 1)
      BY <1>3, <3>1
    <3>3. r \in Nat /\ b * QTokens <= r /\ r < b * QTokens + QTokens /\ q = r - b * QTokens
          /\ q \in 0..(QTokens - 1)
      BY <3>2 DEF x, y
    <3>. HIDE DEF q
    <3>4. r \div QTokens = b /\ r % QTokens = r - b * QTokens
      BY <1>3, <2>1, <3>3, QuotientOf
    <3>. QED
      BY <3>3, <3>4
  <2>4. read(r, h) = [s \in 1..Pieces(b) |-> partial[CombineRow(b, q, s - 1)][h]]
    <3>. HIDE DEF q
    <3>. QED
      BY <1>3, <2>3 DEF read
  <2>5. ASSUME NEW s \in 1..Pieces(b) PROVE partial[CombineRow(b, q, s - 1)][h] = ValueOf(b, s - 1)
    <3>. DEFINE kv == s - 1  j == Prior(b) + kv
    <3>1. kv \in 0..(Pieces(b) - 1)
      BY <1>3
    <3>2. j \in 0..(N - 1) /\ out.list[j] = [b |-> b, q |-> 0, kv |-> kv, mask |-> 1]
      BY <1>3, <3>1
    <3>3. CombineRow(b, q, kv) = QTokens * Prior(b) + q + kv * QTokens
      BY <1>3 DEF CombineRow
    <3>4. QTokens * Prior(b) + kv * QTokens = QTokens * j
      <4>1. QTokens \in Nat /\ Prior(b) \in Nat /\ kv \in Nat
        BY <1>3, <3>1
      <4>. HIDE DEF kv
      <4>. QED
        BY <4>1
    <3>5. CombineRow(b, q, kv) \in TileRows(QTokens * j)
      <4>. DEFINE x == QTokens * Prior(b)  y == kv * QTokens  z == QTokens * j
      <4>1. x \in Nat /\ y \in Nat /\ z = x + y
        <5>1. QTokens \in Nat /\ Prior(b) \in Nat /\ kv \in Nat
          BY <1>3, <3>1
        <5>. HIDE DEF kv, j
        <5>2. x \in Nat /\ y \in Nat
          BY <5>1, Product
        <5>. QED
          BY <3>4, <5>2
      <4>2. CombineRow(b, q, kv) = x + q + y
        BY <3>3
      <4>. HIDE DEF x, y, z, q, kv, j
      <4>3. CombineRow(b, q, kv) \in z..(z + QTokens - 1)
        BY <1>3, <2>3, <4>1, <4>2
      <4>. QED
        BY <4>3 DEF TileRows, z
    <3>6. partial[CombineRow(b, q, kv)][h] = ValueOf(out.list[j].b, out.list[j].kv)
      <4>1. Made(j, h)
        BY <1>2, <3>2
      <4>. HIDE DEF j, kv, q
      <4>. QED
        BY <1>2, <3>5, <4>1 DEF Made
    <3>7. out.list[j].b = b /\ out.list[j].kv = kv
      <4>. HIDE DEF j, kv
      <4>. QED
        BY <3>2
    <3>. HIDE DEF j, q
    <3>. QED
      BY <3>6, <3>7
  <2>. HIDE DEF q
  <2>. QED
    BY <1>2, <2>2, <2>4, <2>5
<1>6. Ended'
  <2>1. ASSUME NEW b \in Batch, NEW r \in TileRows(QTokens * b), NEW h \in KvHeads
        PROVE  /\ DOMAIN o'[r][h] = 1..Pieces(b)
               /\ \A s \in 1..Pieces(b) : o'[r][h][s] = ValueOf(b, s - 1)
    <3>1. o'[r][h] = read(r, h)
      BY <1>1, <1>5
    <3>. QED
      BY <1>5, <3>1
  <2>. QED
    BY <1>4, <2>1 DEF Ended
<1>7. Outputs'
  <2>. DEFINE R == DOMAIN o  g == o'
  <2>1. g = [row \in R |-> [h \in KvHeads |-> read(row, h)]]
    BY <1>1
  <2>. HIDE DEF R, g
  <2>2. g = [row \in R |-> [h \in KvHeads |-> g[row][h]]]
    BY <2>1
  <2>3. RowGrid(o', Size * req.seqlenQ)
    BY <1>2, <2>2 DEF RowGrid, R, g
  <2>. QED
    BY <1>1, <1>4, <2>3 DEF Outputs, RowGrid
<1>8. Launched' /\ TilesReached' /\ CombineReady'
  BY <1>1, <1>2, <1>4 DEF Launched, TilesReached, CombineReady
<1>. QED
  BY <1>6, <1>7, <1>8 DEF CallIInv

\* The call stays the same, and a warp that has a step left shows that the
\* schedule was not built.
LEMMA BuildStill == ASSUME ScheduleIInv, BuildNext PROVE req' = req /\ ~ Built
<1>1. PICK w \in Warp : WarpStep(w)
  BY DEF BuildNext
<1>2. req' = req
  BY <1>1 DEF WarpStep, CountPages, ReducePages, Decide, CountSplits, SlotsRead, SlotsAdd, ScanStep,
              ReduceSplits, WritePointers, WriteInfo, WriteList, WarpDoes
<1>3. ScanSteps \in Nat
  BY ScanRoundsRight DEF ScheduleIInv
<1>4. warpAt[w] # 8 + ScanSteps
  BY <1>1, <1>3, SMTT(30) DEF WarpStep, CountPages, ReducePages, Decide, CountSplits, SlotsRead, SlotsAdd, ScanStep,
              ReduceSplits, WritePointers, WriteInfo, WriteList, WarpDoes
<1>. QED
  BY <1>2, <1>4 DEF Built

(* Each step of a call.                                                    *)
LEMMA AttentionStep ==
    ASSUME AttentionIInv, Unpadded, [AttentionNext]_allVars
    PROVE  CallIInv'
<1>1. CallIInv
  BY DEF AttentionIInv
<1>2. CASE Build
  <2>1. launch = "build" /\ launch' = "build" /\ o' = o /\ req' = req
    BY <1>2, BuildStill DEF Build, AttentionIInv
  <2>2. Size' = Size /\ KvHeads' = KvHeads
    BY <2>1, CallKept DEF KvHeads
  <2>. QED
    BY <1>1, <2>1, <2>2 DEF CallIInv, Launched, Outputs, RowGrid, TilesReached, CombineReady, Ended
<1>3. CASE Launch
  BY <1>3, StepLaunch
<1>4. CASE \E c \in DOMAIN tile : Attend(c)
  BY <1>4, StepAttend
<1>5. CASE Attended
  BY <1>5, StepAttended
<1>6. CASE Combine
  BY <1>6, StepCombine
<1>7. CASE UNCHANGED allVars
  <2>1. scheduleVars' = scheduleVars /\ launch' = launch /\ tile' = tile /\ next' = next /\ partial' = partial /\ o' = o
    BY <1>7 DEF allVars
  <2>2. /\ req' = req /\ out' = out /\ Size' = Size /\ Batch' = Batch /\ KvHeads' = KvHeads
        /\ Resident' = Resident /\ Built' = Built /\ Accepted' = Accepted
        /\ \A b : Pieces(b)' = Pieces(b)
        /\ \A n : Prior(n)' = Prior(n)
        /\ \A b, kv : ValueOf(b, kv)' = ValueOf(b, kv)
        /\ \A n : TileRows(n)' = TileRows(n)
    BY <2>1, ScheduleStill
  <2>3. Launched' /\ Outputs'
    BY <1>1, <2>1, <2>2 DEF CallIInv, Launched, Outputs, RowGrid
  <2>4. ASSUME NEW j, NEW h PROVE Made(j, h) => Made(j, h)'
    BY <2>1, <2>2 DEF Made
  <2>5. TilesReached'
    BY <1>1, <2>1, <2>2, <2>4 DEF CallIInv, TilesReached
  <2>6. CombineReady'
    BY <1>1, <2>1, <2>2, <2>4 DEF CallIInv, CombineReady
  <2>7. Ended'
    BY <1>1, <2>1, <2>2 DEF CallIInv, Ended
  <2>. QED
    BY <2>3, <2>5, <2>6, <2>7 DEF CallIInv
<1>. QED
  BY <1>2, <1>3, <1>4, <1>5, <1>6, <1>7 DEF AttentionNext, Stop

\* Nothing is made before the schedule.
LEMMA AttentionStart == ASSUME AttentionInit PROVE CallIInv
<1>1. launch = "build" /\ o = [row \in 0..(Size * req.seqlenQ - 1) |-> [h \in KvHeads |-> <<>>]]
  BY DEF AttentionInit
<1>. DEFINE R == 0..(Size * req.seqlenQ - 1)
<1>2. o = [row \in R |-> [h \in KvHeads |-> <<>>]]
  BY <1>1
<1>. HIDE DEF R
<1>3. o = [row \in R |-> [h \in KvHeads |-> o[row][h]]]
  BY <1>2
<1>4. RowGrid(o, Size * req.seqlenQ)
  BY <1>3 DEF RowGrid, R
<1>. QED
  BY <1>1, <1>4 DEF CallIInv, Launched, Outputs, TilesReached, CombineReady, Ended

(* Every tile of a call is worked off by the CTA that holds it, into rows  *)
(* of its own, and what its rows hold is not lost.                         *)
THEOREM AttentionInvariance == ASSUME AttentionAssumption PROVE AttentionSpec => []AttentionIInv
<1>1. AttentionInit /\ ScheduleIInv => AttentionIInv
  BY AttentionStart DEF AttentionIInv
<1>2. AttentionIInv /\ [AttentionNext]_allVars /\ ScheduleIInv' => AttentionIInv'
  <2>1. SUFFICES ASSUME AttentionIInv, [AttentionNext]_allVars, Unpadded' PROVE CallIInv'
    BY DEF AttentionIInv
  <2>2. CASE Build
    <3>1. Unpadded
      BY <2>1, <2>2, BuildStill DEF Build, AttentionIInv, Unpadded
    <3>. QED
      BY <2>1, <3>1, AttentionStep
  <2>3. CASE ~ Build
    <3>1. scheduleVars' = scheduleVars
      BY <2>1, <2>3 DEF AttentionNext, Launch, Attend, Attended, Combine, Stop, allVars
    <3>2. Built' = Built /\ out' = out /\ WantedWork' = WantedWork
      BY <3>1, ScheduleStill
    <3>3. Unpadded
      BY <2>1, <3>2 DEF Unpadded
    <3>. QED
      BY <2>1, <3>3, AttentionStep
  <2>. QED
    BY <2>2, <2>3
<1>3. AttentionSpec => []ScheduleIInv
  BY ScheduleInvariance
<1>. QED
  BY <1>1, <1>2, <1>3, PTL DEF AttentionSpec

(* The rows that are made are whole.                                       *)
LEMMA OutputsMade == ASSUME AttentionIInv, Unpadded PROVE OutputsWhole
<1>1. SUFFICES ASSUME launch = "done", NEW row \in DOMAIN o, NEW h \in KvHeads
               PROVE  /\ \A s \in DOMAIN o[row][h] : o[row][h][s].b = row \div req.seqlenQ
                      /\ UNION {o[row][h][s].pages : s \in DOMAIN o[row][h]} = 0..(KvPages(row \div req.seqlenQ) - 1)
                      /\ Total([s \in DOMAIN o[row][h] |-> Cardinality(o[row][h][s].pages)], DOMAIN o[row][h])
                           = KvPages(row \div req.seqlenQ)
  BY Zenon DEF OutputsWhole
<1>. DEFINE b == row \div req.seqlenQ  of == o[row][h]
<1>2. /\ ScheduleIInv /\ Built /\ Accepted
      /\ DOMAIN o = 0..(Size * req.seqlenQ - 1)
      /\ \A a \in Batch : \A r \in TileRows(QTokens * a), g \in KvHeads :
           /\ DOMAIN o[r][g] = 1..Pieces(a)
           /\ \A s \in 1..Pieces(a) : o[r][g][s] = ValueOf(a, s - 1)
  <2>1. RowGrid(o, Size * req.seqlenQ)
    BY DEF AttentionIInv, CallIInv, Outputs
  <2>2. DOMAIN o = 0..(Size * req.seqlenQ - 1)
    BY <2>1 DEF RowGrid
  <2>. QED
    BY <1>1, <2>2 DEF AttentionIInv, CallIInv, Launched, Ended
<1>3. req.seqlenQ = QTokens /\ QTokens \in Nat \ {0} /\ Size \in Nat \ {0} /\ Batch = 0..(Size - 1)
  BY <1>2, AcceptedRight, BuiltPieces, Arguments DEF Batch
<1>4. row \in Nat /\ row < Size * QTokens
  <2>1. Size * QTokens \in Nat
    BY <1>3, Product
  <2>. QED
    BY <1>1, <1>2, <1>3, <2>1
<1>5. b \in Batch
  BY <1>1, <1>3, <1>4, RowsOf
<1>6. row \in TileRows(QTokens * b)
  <2>1. row = b * QTokens + (row % QTokens) /\ row % QTokens \in 0..(QTokens - 1) /\ b \in Nat
    BY <1>1, <1>3, <1>4, Euclid
  <2>. DEFINE x == b * QTokens  y == row % QTokens
  <2>2. x \in Nat /\ QTokens * b = x
    BY <1>3, <2>1, Product
  <2>3. row = x + y /\ y \in 0..(QTokens - 1)
    BY <2>1
  <2>. HIDE DEF x, y
  <2>4. row \in x..(x + QTokens - 1)
    BY <1>3, <1>4, <2>2, <2>3
  <2>. QED
    BY <2>2, <2>4 DEF TileRows
<1>7. DOMAIN of = 1..Pieces(b) /\ \A s \in 1..Pieces(b) : of[s] = ValueOf(b, s - 1)
  BY <1>2, <1>5, <1>6
<1>8. /\ \A s \in DOMAIN of : of[s].b = b
      /\ UNION {of[s].pages : s \in DOMAIN of} = 0..(KvPages(b) - 1)
      /\ Total([s \in DOMAIN of |-> Cardinality(of[s].pages)], DOMAIN of) = KvPages(b)
  <2>. HIDE DEF b, of
  <2>. QED
    BY <1>2, <1>5, <1>7, ValuesWhole
<1>. QED
  BY <1>8

(* Every row of the output of a decode call is made, for every head, from  *)
(* every page of its own request once, unless CUDA graphs have the list    *)
(* padded: WorkListIsRight has it exact without them.                      *)
THEOREM OutputsAreWhole ==
    ASSUME AttentionAssumption
    PROVE  AttentionSpec => []((Built => out.info.padded = WantedWork) => OutputsWhole)
<1>1. AttentionIInv => ((Built => out.info.padded = WantedWork) => OutputsWhole)
  BY OutputsMade DEF Unpadded
<1>. QED
  BY <1>1, AttentionInvariance, PTL

(* Where no call is for a CUDA graph, that is every call.                  *)
THEOREM OutputsWithoutGraphs ==
    ASSUME AttentionAssumption, \A r \in Requests : ~ r.graph
    PROVE  AttentionSpec => []OutputsWhole
<1>1. AttentionIInv => OutputsWhole
  <2>1. SUFFICES ASSUME AttentionIInv PROVE OutputsWhole
    OBVIOUS
  <2>2. ScheduleIInv /\ req \in Requests
    BY <2>1 DEF AttentionIInv, ScheduleIInv, Assumed
  <2>3. WorkListRight /\ ~ req.graph
    BY <2>2, WorkListBuilt
  <2>4. Unpadded
    BY <2>3 DEF Unpadded, WorkListRight
  <2>. QED
    BY <2>1, <2>4, OutputsMade
<1>. QED
  BY <1>1, AttentionInvariance, PTL
=============================================================================
