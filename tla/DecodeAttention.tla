-------------------------- MODULE DecodeAttention --------------------------
(***************************************************************************)
(* A decode call: the schedule (DecodeSchedule), the CTAs of the decode    *)
(* kernel that work it off, and the combine kernel, in stream order.  What *)
(* is computed stands for itself: an output row is the list of the sets of *)
(* KV pages that went into it.  DecodeCta is a CTA in detail.              *)
(***************************************************************************)
EXTENDS DecodeSchedule

CONSTANT Sms    \* CTAs that are resident at once

AttentionAssumption == DecodeAssumption /\ Sms \in Nat \ {0}

VARIABLES
    launch,     \* "build", "attend", "combine", "done" or "raised"
    tile,       \* per resident CTA: the work tile it is at
    next,       \* the first work tile no CTA has begun
    partial,    \* O_partial and LSE_partial
    o           \* the output

allVars == <<scheduleVars, launch, tile, next, partial, o>>

KvHeads == 0..(req.heads - 1)
Nothing == [b |-> -1, pages |-> {}]

AttentionInit ==
    /\ ScheduleInit
    /\ launch = "build" /\ tile = <<>> /\ next = 0 /\ partial = <<>>
    /\ o = [row \in 0..(Size * req.seqlenQ - 1) |-> [h \in KvHeads |-> <<>>]]

Build == launch = "build" /\ BuildNext /\ UNCHANGED <<launch, tile, next, partial, o>>

\* Narrowing the list to a length it does not have raises, and so do a query
\* length that is not one tile and more splits than the combine kernel takes.
Accepted ==
    /\ out.info.padded <= PadWork
    /\ req.seqlenQ = QTokens
    /\ out.info.split => out.info.maxSplits <= CombineMaxSplits

\* A grid of work_idx by head_kv_idx, begun in that order.
Tiles == out.info.padded * req.heads
Resident == Smaller(Sms, Tiles)

Launch ==
    /\ launch = "build" /\ Built
    /\ IF Accepted
       THEN /\ launch' = "attend"
            /\ tile' = [c \in 0..(Resident - 1) |-> c] /\ next' = Resident
            /\ partial' = [row \in 0..(out.info.rows - 1) |-> [h \in KvHeads |-> Nothing]]
       ELSE launch' = "raised" /\ UNCHANGED <<tile, next, partial>>
    /\ UNCHANGED <<scheduleVars, o>>

\* The pages of a split; the last one of a request may be short, and has none
\* where the request has none.
KvPages(b) == CeilDiv(req.seqused[b + 1], PageSize)
PagesOfSplit(b, kv) ==
    (kv * out.info.chunk)..(Smaller(KvPages(b), (kv + 1) * out.info.chunk) - 1)

QStride == CeilDiv(req.seqlenQ, QTokens) * QTokens
TileRows(first) == first..(first + QTokens - 1)

\* A work tile: a KV head of a piece.  A CTA has it from its own launch, or from
\* cancelling the launch of the next that has not begun; the epilogue stores the
\* whole query tile.
Attend(c) ==
    LET piece == out.list[tile[c] % out.info.padded]
        head  == tile[c] \div out.info.padded
        value == [b |-> piece.b, pages |-> PagesOfSplit(piece.b, piece.kv)]
        q     == piece.q * QTokens
        rows  == IF out.info.split THEN TileRows(out.oIndptr[piece.b] + piece.kv * QStride + q)
                 ELSE TileRows(piece.b * req.seqlenQ + q) IN
    /\ launch = "attend" /\ tile[c] < Tiles
    /\ tile' = [tile EXCEPT ![c] = next] /\ next' = next + 1
    /\ IF piece.mask = 0 THEN UNCHANGED <<partial, o>>
       ELSE IF out.info.split
       THEN /\ partial' = [row \in DOMAIN partial \cup rows |->
                    IF row \in rows THEN [partial[row] EXCEPT ![head] = value] ELSE partial[row]]
            /\ UNCHANGED o
       ELSE /\ o' = [row \in DOMAIN o |->
                    IF row \in rows THEN [o[row] EXCEPT ![head] = <<value>>] ELSE o[row]]
            /\ UNCHANGED partial
    /\ UNCHANGED <<scheduleVars, launch>>

Attended ==
    /\ launch = "attend" /\ \A c \in DOMAIN tile : tile[c] >= Tiles
    /\ launch' = IF out.info.split THEN "combine" ELSE "done"
    /\ UNCHANGED <<scheduleVars, tile, next, partial, o>>

CombineRow(b, q, split) == out.oIndptr[b] + q + split * QStride

Combine ==
    /\ launch = "combine"
    /\ o' = [row \in DOMAIN o |-> [h \in KvHeads |->
                LET b == row \div req.seqlenQ
                    q == row % req.seqlenQ
                IN [s \in 1..out.splits[b] |-> partial[CombineRow(b, q, s - 1)][h]]]]
    /\ launch' = "done"
    /\ UNCHANGED <<scheduleVars, tile, next, partial>>

Stop == launch \in {"done", "raised"} /\ UNCHANGED allVars

AttentionNext == Build \/ Launch \/ (\E c \in DOMAIN tile : Attend(c)) \/ Attended \/ Combine \/ Stop

AttentionSpec == AttentionInit /\ [][AttentionNext]_allVars
-----------------------------------------------------------------------------
\* Every row of the output is made, for every head, from every page of its own
\* request once: no page is left out or counted twice by the softmax over the
\* splits, none comes from another request, and nothing is read that no CTA
\* has written.
OutputsWhole ==
    launch = "done" =>
        \A row \in DOMAIN o, h \in KvHeads :
            LET b == row \div req.seqlenQ
                of == o[row][h] IN
            /\ \A s \in DOMAIN of : of[s].b = b
            /\ UNION {of[s].pages : s \in DOMAIN of} = 0..(KvPages(b) - 1)
            /\ Total([s \in DOMAIN of |-> Cardinality(of[s].pages)], DOMAIN of) = KvPages(b)
=============================================================================
