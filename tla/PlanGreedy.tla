----------------------------- MODULE PlanGreedy -----------------------------
(***************************************************************************)
(* direct_greedy of csrc/include/plan.cuh: the plan with a given number of *)
(* KV splits (num_kv_splits >= 1).                                         *)
(*                                                                         *)
(* One thread block, a thread per SM, goes through all pieces (a row of    *)
(* query tiles, a split of its KV iterations, a head) in batches of equal  *)
(* pieces, and does so twice.  The first pass counts the pieces of an SM,  *)
(* which gives the SM its part of the work list; the second makes the same *)
(* assignments again and writes them there.  In a batch a thread first     *)
(* ranks its SM by the costs of all, then takes the piece of that rank; a  *)
(* barrier divides the two, another one ends the batch.                    *)
(***************************************************************************)
EXTENDS PlanCost, FiniteSetsExt

CONSTANTS
    GivenSms,      \* num_buckets: SMs
    GivenRows,     \* (qo tile, batch) pairs with KV iterations
    GivenHeads,    \* num_heads
    GivenSplits,   \* num_kv_splits, at least 1
    GivenIters     \* the numbers of KV iterations a row may have

ASSUME GivenAssumption ==
    /\ GivenSms \in Nat \ {0} /\ GivenRows \in Nat \ {0} /\ GivenHeads \in Nat \ {0}
    /\ GivenSplits \in Nat \ {0} /\ GivenIters \subseteq Nat \ {0}

Bucket   == 0 .. (GivenSms - 1)
GivenRow == 0 .. (GivenRows - 1)

VARIABLES
    gphase,   \* "pass1", "offsets", "pass2", "ranges" or "done"
    giters,   \* compute_kv_iters of each row
    at,       \* the loops: row, split sp and first head h_off of the batch
    th,       \* per thread: where in the batch, and my_rank
    gcost,    \* sm_cost
    count,    \* sm_task_count
    offset,   \* _work_offsets
    gwork,    \* packed_work_info and the kv_tile and kv_split arrays
    range,    \* packed_work_range
    rows      \* num_kv_splits_per_row

gvars == <<gphase, giters, at, th, gcost, count, offset, gwork, range, rows>>

-----------------------------------------------------------------------------
\* actual_splits of a row, and its ranges of KV iterations.
Splits(r) == Smaller(GivenSplits, Larger(1, giters[r] \div MinItersPerSplit))

ChunkDown(r) == giters[r] \div Splits(r)    \* mutant: rounded down

Chunk(r) == CeilDiv(giters[r], Splits(r))

Begin(r, sp) == sp * Chunk(r)
End(r, sp)   == Smaller(Begin(r, sp) + Chunk(r), giters[r])

PiecesOf    == [r \in GivenRow |-> Splits(r) * GivenHeads]
TotalPieces == Total(PiecesOf, GivenRow)

\* A work item: head h of row r, against the KV iterations of split sp.
Item(r, sp, h) == [row |-> r, head |-> h, sp |-> sp, begin |-> Begin(r, sp), end |-> End(r, sp)]

Looking  == [sm \in Bucket |-> [pc |-> "look", rank |-> 0]]
First    == [row |-> 0, sp |-> 0, head |-> 0]
Zeros    == [sm \in Bucket |-> 0]
Overhead == [sm \in Bucket |-> SMGlobalOverhead]
Unset    == [row |-> GivenRows]

DirectInit ==
    /\ giters \in [GivenRow -> GivenIters]
    /\ gphase = "pass1" /\ at = First /\ th = Looking
    /\ gcost = Overhead /\ count = Zeros /\ offset = Zeros
    /\ gwork = [pos \in 0 .. (TotalPieces - 1) |-> Unset]
    /\ range = [sm \in Bucket |-> <<0, 0>>]
    /\ rows = [r \in GivenRow |-> 1]

-----------------------------------------------------------------------------
InPass == gphase \in {"pass1", "pass2"}

\* The heads of the batch that begins at b, and where the next one begins: the
\* three loops, whose rows end at GivenRows.
CountAt(b) == Smaller(GivenHeads - b.head, GivenSms)

Following(b) ==
    IF b.head + CountAt(b) < GivenHeads THEN [row |-> b.row, sp |-> b.sp, head |-> b.head + CountAt(b)]
    ELSE IF b.sp + 1 < Splits(b.row) THEN [row |-> b.row, sp |-> b.sp + 1, head |-> 0]
    ELSE [row |-> b.row + 1, sp |-> 0, head |-> 0]

\* The thread of sm reads the costs of all SMs.
LookAt(sm) ==
    /\ InPass /\ th[sm].pc = "look"
    /\ th' = [th EXCEPT ![sm] = [pc |-> "ranked", rank |-> Rank(gcost, sm)]]
    /\ UNCHANGED <<gphase, giters, at, gcost, count, offset, gwork, range, rows>>

\* What the batch gives the thread, if its rank is low enough.
TakePiece(sm) ==
    LET pos  == offset[sm] + count[sm]
        item == Item(at.row, at.sp, at.head + th[sm].rank)
    IN IF th[sm].rank < CountAt(at)
       THEN /\ gcost' = [gcost EXCEPT ![sm] = @ + PieceCost(item.end - item.begin)]
            /\ count' = [count EXCEPT ![sm] = @ + 1]
            /\ gwork' = IF gphase = "pass2"
                        THEN [p \in DOMAIN gwork \cup {pos} |-> IF p = pos THEN item ELSE gwork[p]]
                        ELSE gwork
       ELSE UNCHANGED <<gcost, count, gwork>>

\* After the first barrier the thread takes its piece; in pass 2 thread 0 has
\* also written the row's number of splits.
Give(sm) ==
    /\ InPass /\ th[sm].pc = "ranked"
    /\ \A o \in Bucket : th[o].pc # "look"
    /\ TakePiece(sm)
    /\ rows' = IF sm = 0 /\ gphase = "pass2"
               THEN [rows EXCEPT ![at.row] = Splits(at.row)] ELSE rows
    /\ th' = [th EXCEPT ![sm].pc = "gave"]
    /\ UNCHANGED <<gphase, giters, at, offset, range>>

\* The second barrier, and the next turn of the three loops.
NextBatch ==
    /\ InPass /\ \A sm \in Bucket : th[sm].pc = "gave"
    /\ th' = Looking
    /\ IF Following(at).row < GivenRows
       THEN at' = Following(at) /\ UNCHANGED gphase
       ELSE at' = First /\ gphase' = IF gphase = "pass1" THEN "offsets" ELSE "ranges"
    /\ UNCHANGED <<giters, gcost, count, offset, gwork, range, rows>>

\* Thread 0 adds up the counts; counts and costs start afresh.
Offsets ==
    /\ gphase = "offsets"
    /\ offset' = [sm \in Bucket |-> Total(count, 0 .. (sm - 1))]
    /\ count' = Zeros /\ gcost' = Overhead
    /\ gphase' = "pass2"
    /\ UNCHANGED <<giters, at, th, gwork, range, rows>>

WriteRanges ==
    /\ gphase = "ranges"
    /\ range' = [sm \in Bucket |-> <<offset[sm], offset[sm] + count[sm]>>]
    /\ gphase' = "done"
    /\ UNCHANGED <<giters, at, th, gcost, count, offset, gwork, rows>>

DirectStop == gphase = "done" /\ UNCHANGED gvars

DirectThread(sm) == LookAt(sm) \/ Give(sm)

DirectBlock == NextBatch \/ Offsets \/ WriteRanges

DirectNext == (\E sm \in Bucket : DirectThread(sm)) \/ DirectBlock \/ DirectStop

DirectSpec == DirectInit /\ [][DirectNext]_gvars

-----------------------------------------------------------------------------
PosEnd(sm) == IF sm = GivenSms - 1 THEN TotalPieces ELSE offset[sm + 1]

\* The second pass repeats the first: an SM never writes past the part of the
\* work list the first pass counted for it, where the next SM's work begins.
WithinRange ==
    gphase \in {"pass2", "ranges", "done"} => \A sm \in Bucket : offset[sm] + count[sm] <= PosEnd(sm)

ItemsOf(r, h) ==
    {pos \in UNION {range[sm][1] .. (range[sm][2] - 1) : sm \in Bucket} :
        gwork[pos].row = r /\ gwork[pos].head = h}

\* The ranges divide the whole work list among the SMs, and in it each head of
\* each row has every split once, as many as num_kv_splits_per_row says, and
\* every KV iteration in exactly one of them.
ListRight ==
    gphase = "done" =>
        /\ \A sm \in Bucket : range[sm] = <<offset[sm], PosEnd(sm)>>
        /\ \A r \in GivenRow, h \in 0 .. (GivenHeads - 1) :
              LET items == ItemsOf(r, h)
              IN /\ {gwork[pos].sp : pos \in items} = 0 .. (rows[r] - 1)
                 /\ Cardinality(items) = rows[r]
                 /\ \A i \in 0 .. (giters[r] - 1) :
                       Cardinality({pos \in items : gwork[pos].begin <= i /\ i < gwork[pos].end}) = 1

\* A launch with a given number of splits is planned such that the kernels can run
\* it: no SM writes past its own part of the work list, and in the end the list
\* has every KV iteration of every head once.
GivenRunnable == WithinRange /\ ListRight

\* assert tb <= te, from the validation of a plan in api.py: no range of KV
\* iterations that is written ends before it begins.
RangesOrdered ==
    \A pos \in DOMAIN gwork : gwork[pos] # Unset => gwork[pos].begin <= gwork[pos].end

=============================================================================
