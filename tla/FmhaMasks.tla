----------------------------- MODULE FmhaMasks -----------------------------
(***************************************************************************)
(* The trip counts and masks of the C++ FMHA kernel (fmha_fusion.hpp, and  *)
(* their use in the mainloop): how many KV tiles a query tile meets, which *)
(* of them a softmax warp passes over, masks element by element or takes   *)
(* as they are.                                                            *)
(*                                                                         *)
(* A tile of the kernel is two sub-tiles of M rows by N keys: one above    *)
(* the other (Q-split, the queries of two stages against the same keys) or *)
(* side by side (K-split, one set of queries against the keys of two       *)
(* stages).  KV tiles are worked off from the last to the first.           *)
(***************************************************************************)
EXTENDS Integers, Sequences
LOCAL INSTANCE FiniteSetsExt

CONSTANTS M, N     \* rows and keys of a sub-tile, TileShapeQK

MasksAssumption == M \in Nat \ {0} /\ N \in Nat \ {0}

\* What the kernel is compiled for.  split: "q" or "k";  score: "off", "only"
\* (max scores and no output), "full" (both) or "sparse" (chosen KV blocks);
\* splitKv: KV ranges of the plan;  pack: heads packed into the query rows.
Variants == [split : {"q", "k"}, score : {"off", "only", "full", "sparse"},
             splitKv : BOOLEAN, pack : Nat \ {0}]

\* A work item: its query tile, the lengths of its sequence (of packed rows),
\* qo_offset, the planned KV range, and the KV blocks chosen, -1 where there are
\* fewer than kv_block_num.
WorkItems == [qo : Nat, qlen : Nat, kvlen : Nat, off : Int, begin : Nat, end : Nat, blocks : Seq(Int)]

LOCAL Least(a, b) == IF a <= b THEN a ELSE b
LOCAL Most(a, b) == IF a >= b THEN a ELSE b

\* C++ division, which drops the fraction, and cute's ceil_div made of it.
Quotient(a, b) == IF a >= 0 THEN a \div b ELSE -((-a) \div b)
CeilDiv(a, b) == Quotient(a + b - 1, b)

TileM(v) == IF v.split = "q" THEN 2 * M ELSE M
TileN(v) == IF v.split = "q" THEN N ELSE 2 * N

\* The rows of a stage within the tile, and the keys.
SubRow(v, s) == IF v.split = "q" THEN s * M ELSE 0
SubKey(v, s) == IF v.split = "q" THEN 0 ELSE s * N

QoOffset(x) == IF x.off >= 0 THEN x.off ELSE x.kvlen - x.qlen
LogicalQ(v, row) == Quotient(row, v.pack)

-----------------------------------------------------------------------------
\* The KV tiles that some row before packedEnd may see.
TripTo(v, x, packedEnd) ==
    Least(CeilDiv(x.kvlen, TileN(v)),
          CeilDiv(LogicalQ(v, packedEnd - 1) + 1 + QoOffset(x), TileN(v)))

FullTrip(v, x) ==
    IF v.score = "sparse" THEN CeilDiv(Len(x.blocks) * N, TileN(v))
    ELSE TripTo(v, x, (x.qo + 1) * TileM(v))

\* The KV tiles of this work item are those from Begin to EffectiveEnd.
Begin(v, x) == IF v.splitKv THEN x.begin ELSE 0
EffectiveEnd(v, x) == IF v.splitKv THEN Least(FullTrip(v, x), x.end) ELSE FullTrip(v, x)
Trips(v, x) == Most(0, EffectiveEnd(v, x) - Begin(v, x))

\* Of a stage's own rows.
SubEnd(v, x, s) == x.qo * TileM(v) + SubRow(v, s) + M
SubTrip(v, x, s) == TripTo(v, x, SubEnd(v, x, s))
\* Mutant: the offset of the rows within a KV tile is left out.
SubMaskedAligned(v, x, s) == Least(SubTrip(v, x, s), CeilDiv(M, TileN(v)))

SubMasked(v, x, s) ==
    LET from == LogicalQ(v, SubEnd(v, x, s) - M)
        to   == LogicalQ(v, SubEnd(v, x, s) - 1) + 1
    IN Least(SubTrip(v, x, s), CeilDiv((to - from) + ((from + QoOffset(x)) % TileN(v)), TileN(v)))

\* get_masked_trip_count: those passed over are counted with those masked.
MaskedTrip(v, x, s) == FullTrip(v, x) - (SubTrip(v, x, s) - SubMasked(v, x, s))

\* Blocks that are chosen, and the tiles they fill.
ValidBlocks(x) == Max({0} \cup {i \in DOMAIN x.blocks : x.blocks[i] >= 0})
ValidTiles(v, x) == CeilDiv(ValidBlocks(x) * N, TileN(v))

\* The softmax warps of a stage go through three loops.
SkipCount(v, x, s) ==
    LET end == EffectiveEnd(v, x) IN
    CASE v.score = "sparse" -> Most(0, end - Most(ValidTiles(v, x), Begin(v, x)))
      [] v.score # "sparse" /\ v.splitKv -> Most(0, end - Most(Begin(v, x), SubTrip(v, x, s)))
      [] OTHER -> FullTrip(v, x) - SubTrip(v, x, s)

MaskCount(v, x, s) ==
    LET end == EffectiveEnd(v, x) IN
    CASE v.score = "sparse" -> Most(0, Least(ValidTiles(v, x), end) - Begin(v, x))
      [] v.score # "sparse" /\ v.splitKv ->
           Most(0, Least(end, SubTrip(v, x, s))
                   - Most(Begin(v, x), FullTrip(v, x) - MaskedTrip(v, x, s)))
      [] OTHER -> MaskedTrip(v, x, s) - SkipCount(v, x, s)

PlainCount(v, x, s) ==
    CASE v.score = "sparse" -> 0
      [] v.score # "sparse" /\ v.splitKv ->
           Most(0, Least(EffectiveEnd(v, x), FullTrip(v, x) - MaskedTrip(v, x, s)) - Begin(v, x))
      [] OTHER -> FullTrip(v, x) - MaskedTrip(v, x, s)

Steps(v, x, s) == SkipCount(v, x, s) + MaskCount(v, x, s) + PlainCount(v, x, s)
-----------------------------------------------------------------------------
\* Where the j-th KV tile from the end lies: the first key that is loaded for a
\* stage, and the first key the mask takes it for.  Of chosen blocks, a place
\* without one is loaded from block 0 and lies beyond every query.
Beyond == 1000000
Sub(v, x, s, j) == (EffectiveEnd(v, x) - 1 - j) * (TileN(v) \div N) + SubKey(v, s) \div N

BlockAt(x, i) == IF i < Len(x.blocks) THEN x.blocks[i + 1] ELSE -1
KeyLoaded(v, x, s, j) ==
    IF v.score = "sparse" THEN Most(0, BlockAt(x, Sub(v, x, s, j))) * N ELSE Sub(v, x, s, j) * N
KeyMasked(v, x, s, j) ==
    IF v.score = "sparse"
    THEN IF BlockAt(x, Sub(v, x, s, j)) < 0 THEN Beyond ELSE BlockAt(x, Sub(v, x, s, j)) * N
    ELSE Sub(v, x, s, j) * N

\* sparse_update_cS: the whole of a block is seen by every row of the stage.
Clear(v, x, s, j) ==
    LET bound == LogicalQ(v, x.qo * TileM(v) + SubRow(v, s)) + QoOffset(x)
    IN KeyMasked(v, x, s, j) # Beyond /\ KeyMasked(v, x, s, j) + N <= bound + 1

\* The loop step j of a stage belongs to.  Of chosen blocks, which are sorted,
\* those after the first clear one but the first of all are taken as they are.
Loop(v, x, s, j) ==
    CASE j < SkipCount(v, x, s) -> "skip"
      [] SkipCount(v, x, s) <= j /\ j < SkipCount(v, x, s) + MaskCount(v, x, s) ->
           IF v.score = "sparse" /\ \E i \in (SkipCount(v, x, s) + 1)..j : Clear(v, x, s, i)
           THEN "plain" ELSE "mask"
      [] OTHER -> "plain"

\* apply_mask, and what each loop makes of the scores of one row: the keys left.
Hidden(v, x, row, key) == LogicalQ(v, row) + QoOffset(x) < key \/ key >= x.kvlen
KeysLeft(v, x, s, j, row) ==
    CASE Loop(v, x, s, j) = "skip" -> {}
      [] Loop(v, x, s, j) = "plain" -> {KeyLoaded(v, x, s, j) + c : c \in 0..(N - 1)}
      [] Loop(v, x, s, j) = "mask" ->
           {KeyLoaded(v, x, s, j) + c :
              c \in {d \in 0..(N - 1) : ~Hidden(v, x, row, KeyMasked(v, x, s, j) + d)}}
-----------------------------------------------------------------------------
\* What a row should see: the keys up to its own position, counted from the end
\* of the sequence where no offset is given, of the range or the blocks chosen.
Offset(v, x) == IF x.off >= 0 THEN x.off ELSE x.kvlen - x.qlen \div v.pack
Planned(v, x, tile) == v.splitKv => tile \in x.begin..(x.end - 1)
Seen(v, x, row) ==
    {key \in 0..(x.kvlen - 1) :
        /\ key <= row \div v.pack + Offset(v, x)
        /\ IF v.score = "sparse"
           THEN \E i \in DOMAIN x.blocks :
                   x.blocks[i] = key \div N /\ Planned(v, x, ((i - 1) * N) \div TileN(v))
           ELSE Planned(v, x, key \div TileN(v))}
=============================================================================
