---------------------------- MODULE SparseIndex ----------------------------
(***************************************************************************)
(* What the sparse forward needs besides q, k and v (interface.py): the    *)
(* reverse index, with a work list and split numbers.  The builder makes   *)
(* them all; a caller that kept only the index, or asked for nothing else, *)
(* has the list and the numbers prepared again before the launch.          *)
(***************************************************************************)
EXTENDS K2qCsr

CONSTANTS Lanes, CtaThreads      \* PrepareSchedule's

VARIABLES index, phase, reserved, list, listed, numbered, slots, counts

prepVars == <<index, phase, reserved, list, listed, numbered, slots, counts>>
indexVars == <<csrVars, prepVars>>

Prep == INSTANCE PrepareSchedule WITH
    prob <- index, stage <- phase, chunksOf <- reserved, items <- list,
    workCount <- listed, splitCounts <- counts

ASSUME IndexAssumption == Prep!PrepareAssumption

(* The tensors of the builder as the later call receives them. *)
BuiltIndex ==
    [cuQ |-> prob.cuQ, cuK |-> prob.cuK,
     rowPtr |-> [h \in Heads |-> [i \in 1..(host.rows + 1) |-> rowPtr[h][i - 1]]],
     qIdx |-> [h \in Heads |-> [i \in 1..(host.numQ * TopK) |-> edges[h][i - 1].q]]]

IndexInit == CsrInit /\ Prep!Init

(* A call without a schedule; the forward needs at least one row. *)
Prepare ==
    /\ stage = "done" /\ ~prob.scheduled /\ host.rows > 0
    /\ Prep!Begin(BuiltIndex)

Ready == stage = "done" /\ (prob.scheduled \/ host.rows = 0 \/ phase = "done")

IndexNext ==
    \/ Builder /\ UNCHANGED prepVars
    \/ (Prepare \/ Prep!Step) /\ UNCHANGED csrVars
    \/ Ready /\ UNCHANGED indexVars

IndexSpec == IndexInit /\ [][IndexNext]_indexVars
-----------------------------------------------------------------------------
(* The edges of a query are numbered 0 to n - 1, by the ballots of the     *)
(* builder and by the atomics that number them again; and the two ways to  *)
(* a schedule agree: the list that warps fill through a counter, decoding  *)
(* each row's block by bisection, holds the items that the builder's scan  *)
(* emits from its row map, each once; and a query has as many splits by    *)
(* the atomics of one as by the ballots of the other.                      *)
SamePlan ==
    /\ SplitsDense /\ Prep!SplitsDense
    /\ phase = "done" =>
        /\ listed = workCount
        /\ {list[k] : k \in DOMAIN list \cap 0..(listed - 1)} = {items[k] : k \in 0..(workCount - 1)}
        /\ counts = splitCounts
=============================================================================
