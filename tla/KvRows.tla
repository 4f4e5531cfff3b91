------------------------------- MODULE KvRows -------------------------------
(***************************************************************************)
(* The rows of the reverse index: one per KV block of every sequence, level *)
(* by level (round robin over the batch), and the work list that cuts the   *)
(* queries of every row into chunks.  Sizes as the host computes them.      *)
(***************************************************************************)
EXTENDS Reductions, Sequences

CONSTANT BlkKv     \* tokens of a KV block
ASSUME BlkKvAssumption == BlkKv \in Nat \ {0}

(* cu holds prefix sums: sequence b, from 1, has the tokens from cu[b] to   *)
(* cu[b + 1] - 1, counted over the batch.                                   *)
SeqsOf(cu) == 1..(Len(cu) - 1)
Tokens(cu) == cu[Len(cu)]
LenOf(cu, b) == cu[b + 1] - cu[b]
RowsIn(cu, b) == CeilDiv(LenOf(cu, b), BlkKv)

(* advance_batch_only: the first sequence that ends after token q. *)
BatchOf(cu, q) == CHOOSE b \in SeqsOf(cu) : cu[b] <= q /\ q < cu[b + 1]

HasLevel(cu, b, level) == RowsIn(cu, b) > level

RowsBeforeLevel(cu, level) ==
    Total([b \in SeqsOf(cu) |-> Smaller(RowsIn(cu, b), level)], SeqsOf(cu))

(* The row of block level of sequence b. *)
RowOf(cu, b, level) ==
    RowsBeforeLevel(cu, level) + Cardinality({i \in 1..(b - 1) : HasLevel(cu, i, level)})

(* The same by its definition: existing blocks in the order of their levels *)
(* and, in a level, of their sequences.                                     *)
MostRows(cu) == Largest({RowsIn(cu, b) : b \in SeqsOf(cu)})
Levels(cu) == 0..(MostRows(cu) - 1)
Blocks(cu) == {bl \in SeqsOf(cu) \X Levels(cu) : HasLevel(cu, bl[1], bl[2])}
RowRank(cu, b, level) ==
    Cardinality({bl \in Blocks(cu) : bl[2] < level \/ (bl[2] = level /\ bl[1] < b)})

(* The number of rows the host allots when the caller does not give it. *)
DerivedRows(cu) ==
    IF Tokens(cu) % BlkKv = 0 THEN Tokens(cu) \div BlkKv
    ELSE CeilDiv(Tokens(cu) + (Len(cu) - 1) * (BlkKv - 1), BlkKv)

\* Mutant: the first row of a level is taken for the last one of the level before.
BisectStrict(cu, row) ==
    LET search[range \in Nat \X Nat] ==
          LET lo == range[1]
              hi == range[2]
              mid == (lo + hi) \div 2 IN
          IF lo >= hi THEN lo
          ELSE IF RowsBeforeLevel(cu, mid + 1) < row THEN search[<<mid + 1, hi>>]
          ELSE search[<<lo, mid>>]
    IN search[<<0, MostRows(cu)>>]
(* _decode_sparse_row_linear: the level by bisection between lo and hi, then *)
(* the sequence by its place among those that reach the level.              *)
Bisect(cu, row) ==
    LET search[range \in Nat \X Nat] ==
          LET lo == range[1]
              hi == range[2]
              mid == (lo + hi) \div 2 IN
          IF lo >= hi THEN lo
          ELSE IF RowsBeforeLevel(cu, mid + 1) <= row THEN search[<<mid + 1, hi>>]
          ELSE search[<<lo, mid>>]
    IN search[<<0, MostRows(cu)>>]

Decode(cu, row) ==
    LET level == Bisect(cu, row)
        offset == row - RowsBeforeLevel(cu, level)
        active(b) == Cardinality({i \in 1..(b - 1) : HasLevel(cu, i, level)})
        found == {b \in SeqsOf(cu) : HasLevel(cu, b, level) /\ active(b) = offset}
    IN <<IF found = {} THEN 1 ELSE Smallest(found), level>>

(* flat_schedule_capacity. *)
Capacity(rows, queries, topk, heads, target) ==
    Larger(1, Larger(rows, 0) * Larger(heads, 1)
               + CeilDiv(Larger(Larger(queries, 0) * Larger(topk, 1) * Larger(heads, 1), 1),
                         Larger(target, 1)))

Chunks(count, target) == CeilDiv(count, target)

(* Chunk c of a row with count queries. *)
Item(h, row, c, count, target, b, level) ==
    [head |-> h, row |-> row, begin |-> c * target,
     count |-> Smaller(target, count - c * target), batch |-> b, block |-> level]

(* A work list is right when every query of every row, counted by counts,   *)
(* is in one item, of at most target queries, with the row's coordinates.   *)
Covers(items, counts, target, rowOf) ==
    /\ \A h \in DOMAIN counts : \A r \in DOMAIN counts[h] : \A i \in 0..(counts[h][r] - 1) :
        Cardinality({k \in DOMAIN items :
            /\ items[k].head = h /\ items[k].row = r
            /\ i \in items[k].begin..(items[k].begin + items[k].count - 1)}) = 1
    /\ \A k \in DOMAIN items :
        /\ items[k].count \in 1..target
        /\ items[k].begin + items[k].count <= counts[items[k].head][items[k].row]
        /\ <<items[k].batch, items[k].block>> \in DOMAIN rowOf
        /\ rowOf[<<items[k].batch, items[k].block>>] = items[k].row
=============================================================================
