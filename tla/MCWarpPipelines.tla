-------------------------- MODULE MCWarpPipelines --------------------------
(***************************************************************************)
(* WarpPipelines for TLC: two threads on each side of the ring; FMHA CTAs  *)
(* of one to three tiles of at most four KV tiles each, with sub-tiles of  *)
(* four rows and four keys.                                                *)
(***************************************************************************)
EXTENDS WarpPipelines

CONSTANTS p1, p2, c1, c2

TwoProducers == {p1, p2}
TwoConsumers == {c1, c2}

Variant(split, score, splitKv, pack) ==
    [split |-> split, score |-> score, splitKv |-> splitKv, pack |-> pack]
Cta(variant, warps, maxq, tiles) ==
    [v |-> variant, single |-> FALSE, gather |-> FALSE, warps |-> warps, maxq |-> maxq, tiles |-> tiles]
Single(cta) == [cta EXCEPT !.single = TRUE]
Gathered(cta) == [cta EXCEPT !.gather = TRUE]

\* The whole of a sequence whose queries are its last tokens; a planned part of
\* one; some chosen blocks of one.
Dense(qo, qlen, kvlen) ==
    [qo |-> qo, qlen |-> qlen, kvlen |-> kvlen, off |-> kvlen - qlen, begin |-> 0, end |-> 0, blocks |-> <<>>]
Part(item, begin, end) == [item EXCEPT !.begin = begin, !.end = end]
Some(item, blocks) == [item EXCEPT !.blocks = blocks]
At14(item) == [item EXCEPT !.off = 14]
NoKeys == [Dense(0, 8, 8) EXCEPT !.kvlen = 0, !.off = 0]

\* Q-split: a tile without keys between two; a tile past its sequence; scores
\* alone and with an output; chosen blocks, with places left free.
\* K-split: planned parts, one of them empty; three heads packed, whose rows are
\* gathered; chosen blocks by a single softmax warpgroup; two warps to a group.
Ctas ==
    {Cta(Variant("q", "off", FALSE, 1), 1, 8, <<Dense(0, 8, 8), NoKeys, Dense(0, 8, 5)>>),
     Cta(Variant("q", "off", FALSE, 1), 1, 8, <<Dense(1, 7, 11), Dense(0, 7, 11)>>),
     Cta(Variant("q", "only", FALSE, 1), 1, 8, <<Dense(0, 8, 8), Dense(0, 8, 5)>>),
     Cta(Variant("q", "full", FALSE, 1), 1, 8, <<Dense(0, 8, 8), Dense(0, 6, 10)>>),
     Cta(Variant("q", "sparse", FALSE, 1), 1, 8,
         <<Some(Dense(0, 8, 16), <<0, 1, 3>>), Some(Dense(0, 8, 16), <<0, -1, -1>>)>>),
     Cta(Variant("k", "off", TRUE, 1), 1, 4,
         <<Part(Dense(0, 4, 18), 1, 3), Dense(0, 4, 18), Part(Dense(0, 4, 12), 0, 1)>>),
     Gathered(Cta(Variant("k", "full", FALSE, 3), 1, 4, <<At14(Dense(0, 4, 16)), Dense(0, 4, 8)>>)),
     Single(Cta(Variant("k", "sparse", FALSE, 1), 2, 2,
                <<Some(Dense(0, 2, 20), <<1, 4>>), Some(Dense(0, 2, 4), <<0, -1>>)>>)),
     Cta(Variant("k", "full", FALSE, 1), 2, 4, <<Dense(0, 4, 8)>>)}

\* Two Q-split tiles one after the other.
Consecutive == {Cta(Variant("q", "off", FALSE, 1), 1, 8, <<Dense(0, 8, 8), Dense(0, 8, 8)>>)}
=============================================================================
