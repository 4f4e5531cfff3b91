---------------------------- MODULE MCKernelCtas ----------------------------
(***************************************************************************)
(* KernelCtas for TLC: the launches, small.  One of SparseFwd is number of *)
(* groups, Q-load warps, warps of a softmax warpgroup, rows of the query-  *)
(* index ring (the code's 16 would not wrap), and the variant; one of      *)
(* DecodeCta is the warps of a group and the tiles by their pages.         *)
(***************************************************************************)
EXTENDS KernelCtas

Tma(groups, loads, warps, ring) ==
    [groups |-> groups, loads |-> loads, warps |-> warps, ring |-> ring,
     gather4 |-> FALSE, kfp8 |-> FALSE, vfp8 |-> FALSE]

Fp8(groups, loads, warps) == Nvfp4(groups, loads, warps, 8, TRUE)

Split(pages) == [pages |-> pages, mask |-> 1]
Masked == [pages |-> 2, mask |-> 0]
Cta(warps, tiles) == [warps |-> warps, tiles |-> tiles]

\* Three groups: prologue, both slots, a slot used again, drain, with two warps
\* to a warpgroup so that a group's arrivals come apart.  K and V that the
\* softmax warps dequantise.
Interleaved == {Tma(3, 1, 2, 8), Fp8(1, 1, 2)}

\* Nine groups: a ring of eight rows wraps.
Wrapping == {Tma(9, 1, 1, 8)}

\* Four pages, so that O is rescaled and the ring wraps; two tiles, the second
\* with a dummy page; a tile without pages after one with; two warps to a group.
InTurn == {Cta(1, <<Split(4)>>), Cta(1, <<Split(2), Split(1)>>), Cta(1, <<Split(1), Split(0)>>),
           Cta(2, <<Split(0)>>)}

\* Two Q-load warps on one full barrier; gather4 with both operands dequantised;
\* a CTA that no query selected, with all its warps.
Progress == {Tma(3, 2, 1, 8), Fp8(1, 1, 2), Tma(0, 1, 4, 8)}

\* Four pages; a tile without pages and one that is masked, then others.
DecodeProgress == {Cta(1, <<Split(4)>>), Cta(1, <<Split(1), Split(0)>>), Cta(1, <<Masked, Split(1)>>)}

\* Two tiles in turn, and nothing of the prefill kernel.
TwoTiles == {Cta(1, <<Split(2), Split(1)>>)}
NoGroups == {Tma(0, 1, 1, 8)}
=============================================================================
