--------------------------- MODULE PrepareSchedule ---------------------------
(***************************************************************************)
(* prepare_scheduler.py: the work list of a reverse index that came without *)
(* one, and the split numbers of the edges, by atomics.  A first kernel has *)
(* a warp for every row of a head; its lanes reserve a place in the list    *)
(* for each chunk.  A second one has a CTA for every place; its threads     *)
(* number the edges of a chunk, racing with the CTAs of other rows for the  *)
(* next number of a query.                                                  *)
(***************************************************************************)
EXTENDS KvRows, TLC

CONSTANTS
    TopK, Target,
    Lanes,          \* lanes of a warp
    CtaThreads      \* threads of a CTA of the second kernel

PrepareAssumption == {TopK, Target, Lanes, CtaThreads} \subseteq Nat \ {0}

VARIABLES
    prob,           \* cu_seqlens; row_ptr and q_idx of each head
    stage,          \* "none", "flat", "split", "done"
    chunksOf,       \* flat, per row of a head: the chunks already reserved
    items, workCount,
    numbered,       \* split, per item: its edges already numbered
    slots,          \* qsplit_idx: per edge, the split number
    splitCounts     \* a buffer of the caller: not clear at first

vars == <<prob, stage, chunksOf, items, workCount, numbered, slots, splitCounts>>

Heads == DOMAIN prob.rowPtr
TotalRows(p) == Len(p.rowPtr[0]) - 1
Rows == 0..(TotalRows(prob) - 1)
NumQ == Tokens(prob.cuQ)
RowStart(h, r) == prob.rowPtr[h][r + 1]
CountOf(h, r) == prob.rowPtr[h][r + 2] - prob.rowPtr[h][r + 1]
RowHeads(p) == (DOMAIN p.rowPtr) \X (0..(TotalRows(p) - 1))
Places(p) ==
    0..(Capacity(TotalRows(p), Tokens(p.cuQ), TopK, Cardinality(DOMAIN p.rowPtr), Target) - 1)
Edges(p) == 0..(Tokens(p.cuQ) * TopK - 1)
NoItem == [head |-> 0, row |-> 0, begin |-> 0, count |-> 0, batch |-> 0, block |-> 0]

Init ==
    /\ stage = "none" /\ prob = <<>>
    /\ chunksOf = <<>> /\ items = <<>> /\ workCount = 0
    /\ numbered = <<>> /\ slots = <<>> /\ splitCounts = <<>>

(* A forward call with the index p, which came without a work list. *)
Begin(p) ==
    /\ stage = "none"
    /\ stage' = "flat" /\ prob' = p
    /\ chunksOf' = [rh \in RowHeads(p) |-> {}]
    /\ items' = [k \in Places(p) |-> NoItem]
    /\ workCount' = 0
    /\ numbered' = [k \in Places(p) |-> {}]
    /\ slots' = [h \in DOMAIN p.rowPtr |-> [i \in Edges(p) |-> -1]]
    /\ \E old \in {0, TopK} :
        splitCounts' = [q \in 0..(Tokens(p.cuQ) - 1) |-> [h \in DOMAIN p.rowPtr |-> old]]

(* A lane reserves a place for its next chunk: it takes every Lanes-th.     *)
(* Work beyond the capacity is counted and dropped.                         *)
EmitChunk(h, r, c) ==
    LET bl == Decode(prob.cuK, r) IN
    /\ c \notin chunksOf[<<h, r>>]
    /\ c >= Lanes => c - Lanes \in chunksOf[<<h, r>>]
    /\ chunksOf' = [chunksOf EXCEPT ![<<h, r>>] = @ \cup {c}]
    /\ workCount' = workCount + 1
    /\ items' = IF workCount \in DOMAIN items
                THEN [items EXCEPT ![workCount] =
                        Item(h, r, c, CountOf(h, r), Target, bl[1], bl[2])]
                ELSE items
    /\ UNCHANGED <<prob, stage, numbered, slots, splitCounts>>

FlatDone == \A rh \in RowHeads(prob) :
    chunksOf[rh] = 0..(Chunks(CountOf(rh[1], rh[2]), Target) - 1)

(* split_counts.zero_() between the two kernels. *)
Zero ==
    /\ stage = "flat" /\ FlatDone
    /\ stage' = "split"
    /\ splitCounts' = [q \in DOMAIN splitCounts |-> [h \in Heads |-> 0]]
    /\ UNCHANGED <<prob, chunksOf, items, workCount, numbered, slots>>

(* atomic_add returns the number and leaves the next one. *)
TakeNumber(q, h) == [splitCounts EXCEPT ![q][h] = @ + 1]

(* Query i of chunk k gets the next split number of its query. *)
NumberEdge(k, i) ==
    LET it == items[k]
        edge == RowStart(it.head, it.row) + it.begin + i
        q == prob.cuQ[it.batch] + prob.qIdx[it.head][edge + 1]
        slot == splitCounts[q][it.head] IN
    /\ stage = "split"
    /\ k < workCount /\ i < it.count
    /\ i \notin numbered[k]
    /\ i >= CtaThreads => i - CtaThreads \in numbered[k]
    /\ numbered' = [numbered EXCEPT ![k] = @ \cup {i}]
    /\ splitCounts' = TakeNumber(q, it.head)
    /\ slots' = IF slot < TopK THEN [slots EXCEPT ![it.head][edge] = slot] ELSE slots
    /\ UNCHANGED <<prob, stage, chunksOf, items, workCount>>

SplitDone == \A k \in DOMAIN items : k < workCount => numbered[k] = 0..(items[k].count - 1)

Finish ==
    /\ stage = "split" /\ SplitDone
    /\ stage' = "done"
    /\ UNCHANGED <<prob, chunksOf, items, workCount, numbered, slots, splitCounts>>

Step ==
    \/ stage = "flat" /\ \E rh \in RowHeads(prob) : \E c \in 0..(Chunks(CountOf(rh[1], rh[2]), Target) - 1) :
        EmitChunk(rh[1], rh[2], c)
    \/ Zero
    \/ \E k \in DOMAIN items : \E i \in 0..(items[k].count - 1) : NumberEdge(k, i)
    \/ Finish
-----------------------------------------------------------------------------
(* The edges of a query get different numbers, 0 to n - 1 without a gap,    *)
(* and split_counts is n, in whatever order chunks of different rows run:   *)
(* two edges with one number would write one partial output.                *)
SplitsDense ==
    stage = "done" => \A h \in Heads, q \in 0..(NumQ - 1) :
        LET used == 0..(RowStart(h, TotalRows(prob)) - 1)
            query(edge, r) == prob.cuQ[Decode(prob.cuK, r)[1]] + prob.qIdx[h][edge + 1]
            mine == {edge \in used : \E r \in Rows :
                        /\ edge \in RowStart(h, r)..(RowStart(h, r + 1) - 1)
                        /\ query(edge, r) = q} IN
        /\ {slots[h][edge] : edge \in mine} = 0..(splitCounts[q][h] - 1)
        /\ Cardinality(mine) = splitCounts[q][h]
=============================================================================
