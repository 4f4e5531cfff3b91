--------------------------- MODULE DecodeSchedule ---------------------------
(***************************************************************************)
(* build_decode_schedule.cu: from the lengths of the KV sequences to the   *)
(* work list of the paged decode kernel, in one CTA with a thread per      *)
(* request.  Warp 0 chooses how many pages a piece (a split of a request)  *)
(* has; the threads then number the pieces with a scan and write the list. *)
(* Warps run in any order between two __syncthreads, the lanes of a warp   *)
(* together.  What is read before it is written in shared memory is -1.    *)
(***************************************************************************)
EXTENDS Reductions, Sequences

CONSTANTS
    Requests,          \* the calls: see req
    PageSize,
    QTokens,           \* q_tokens_per_group: query tokens of a tile
    WarpSize, MinWarps,
    MinChunkPages, TinyPages, CombineMaxSplits
\* The code's are 128, 8, 32, 4 warps, and 16, 8 and 256.

\* What the calls satisfy; the composing module assumes it.
DecodeAssumption ==
    /\ {PageSize, QTokens, WarpSize, MinWarps, MinChunkPages, CombineMaxSplits} \subseteq Nat \ {0}
    /\ TinyPages \in Nat
    /\ \A r \in Requests :
        /\ r.seqused \in Seq(Nat) /\ r.seqused # <<>>
        /\ {r.maxLen, r.seqlenQ, r.heads, r.grid} \subseteq Nat \ {0}
        /\ \A b \in DOMAIN r.seqused : r.seqused[b] <= r.maxLen
        /\ r.fixed \in Nat /\ r.disable \in BOOLEAN /\ r.graph \in BOOLEAN

VARIABLES
    req,       \* seqused_k and the arguments: max_seqlen_k, seqlen_q, KV heads,
               \* max_grid_size, fixed_split_size (0: none), disable_split_kv,
               \* enable_cuda_graph
    warpAt,    \* per warp: the steps it has made
    sm,        \* shared memory
    scanned,   \* per thread: what it has read in a round of the scan
    out        \* the tensors that are returned

scheduleVars == <<req, warpAt, sm, scanned, out>>
-----------------------------------------------------------------------------
Size == Len(req.seqused)
Batch == 0..(Size - 1)
QTiles == CeilDiv(req.seqlenQ, QTokens)
Pages(b) == Larger(1, CeilDiv(req.seqused[b + 1], PageSize))

\* MinWarps warps, or as often twice as many as a thread per request needs.
Doublings == Smallest({k \in 0..Size : MinWarps * WarpSize * Doubled[k] >= Size})
CtaWarps == MinWarps * Doubled[Doublings]
Warp == 0..(CtaWarps - 1)
Tpb == CtaWarps * WarpSize                         \* tpb
Thread == 0..(Tpb - 1)
ThreadsOf(w) == (w * WarpSize)..(w * WarpSize + WarpSize - 1)

PadWork == Size * QTiles * Larger(CeilDiv(req.maxLen, PageSize), 1)

\* torch::empty: the tensors hold whatever the memory held before.
ScheduleInit ==
    /\ req \in Requests
    /\ warpAt = [w \in Warp |-> 0]
    /\ sm = [pages |-> [t \in Thread |-> -1], warpMax |-> [w \in Warp |-> -1],
             warpSum |-> [w \in Warp |-> -1], chunk |-> -1, split |-> FALSE,
             splits |-> [t \in Thread |-> -1], slots |-> [t \in Thread |-> -1],
             warpSplits |-> [w \in Warp |-> -1], count |-> -1]
    /\ scanned = [t \in Thread |-> 0]
    /\ \E junk \in {0, 1} :
        out = [list |-> [i \in 0..(PadWork - 1) |-> [b |-> junk, q |-> 0, kv |-> 0, mask |-> junk]],
               splits |-> [b \in Batch |-> junk], oIndptr |-> [b \in 0..Size |-> junk],
               merge |-> [i \in 0..(Size * req.seqlenQ) |-> junk],
               info |-> [split |-> FALSE, chunk |-> junk, padded |-> junk, maxSplits |-> junk,
                         rows |-> junk]]
-----------------------------------------------------------------------------
\* A step of the program by warp w, after __syncthreads: the others have come
\* as far as w has.
Synced(w) == \A v \in Warp : warpAt[v] >= warpAt[w]
WarpDoes(w, n) == warpAt[w] = n /\ Synced(w) /\ warpAt' = [warpAt EXCEPT ![w] = @ + 1] /\ UNCHANGED req

CountPages(w) ==
    /\ WarpDoes(w, 0)
    /\ sm' = [sm EXCEPT !.pages = [t \in Thread |->
                IF t \in ThreadsOf(w) THEN IF t \in Batch THEN Pages(t) ELSE 0 ELSE @[t]]]
    /\ UNCHANGED <<scanned, out>>

\* The pages of the requests a warp reduces.  Mutant: only those of the first
\* warp, as an earlier version did.
PagesOfFirst(w) == {sm.pages[t] : t \in ThreadsOf(0) \cap Batch}
PagesOf(w) == {sm.pages[t] : t \in ThreadsOf(w) \cap Batch}

ReducePages(w) ==
    /\ WarpDoes(w, 1)
    /\ sm' = [sm EXCEPT !.warpMax[w] = Largest(PagesOf(w) \cup {0}),
                        !.warpSum[w] = Total(sm.pages, ThreadsOf(w) \cap Batch)]
    /\ UNCHANGED <<scanned, out>>

BaseWork == Size * QTiles
WorkX(chunk) == QTiles * Total([b \in Batch |-> CeilDiv(sm.pages[b], chunk)], Batch)
MaxPages == Largest({sm.warpMax[w] : w \in Warp})
SumPages == Total(sm.warpSum, Warp)

\* Mutant: a grid that is exactly full is taken for too full.
NoRoomFor(chunk) == WorkX(chunk) * req.heads >= req.grid
TooMany(chunk) == WorkX(chunk) * req.heads > req.grid

\* The least chunk from low to high whose pieces run at once.
Search[range \in (1..MaxPages) \X (1..MaxPages)] ==
    LET low == range[1]  high == range[2]  mid == (low + high) \div 2
    IN IF low >= high THEN low
       ELSE IF TooMany(mid) THEN Search[<<mid + 1, high>>] ELSE Search[<<low, mid>>]

\* Where lengths differ much: a quarter of the average, if that is less.
Balanced(chunk) ==
    LET avg == CeilDiv(SumPages, Size)
        balance == Larger(MinChunkPages, avg \div 4)
    IN IF MaxPages * 2 >= avg * 3 /\ avg >= 4 /\ MaxPages > balance /\ balance < chunk
       THEN balance ELSE chunk

Unsplit == [chunk |-> MaxPages, split |-> FALSE]

Choice ==
    IF req.disable THEN Unsplit
    ELSE IF req.fixed > 0
    THEN [chunk |-> req.fixed, split |-> WorkX(req.fixed) # BaseWork]
    ELSE IF BaseWork * req.heads >= req.grid \/ MaxPages <= TinyPages THEN Unsplit
    ELSE LET found == Balanced(Search[<<Smaller(MinChunkPages, MaxPages), MaxPages>>])
             chunk == Larger(found, CeilDiv(MaxPages, CombineMaxSplits))
         IN IF req.graph \/ WorkX(chunk) # BaseWork THEN [chunk |-> chunk, split |-> TRUE] ELSE Unsplit

Decide(w) ==
    /\ WarpDoes(w, 2)
    /\ sm' = IF w = 0 THEN [sm EXCEPT !.chunk = Choice.chunk, !.split = Choice.split] ELSE sm
    /\ UNCHANGED <<scanned, out>>
-----------------------------------------------------------------------------
\* split_counts, and the pieces of a request where its scan begins.  Up to a
\* warp of requests, warp 0 scans in registers; more are scanned in shared
\* memory.  s_partial_slots is s_work_slots times QTokens throughout.
SplitsOf(t) ==
    IF t \notin Batch THEN 0 ELSE IF sm.split THEN CeilDiv(sm.pages[t], sm.chunk) ELSE 1

Shuffled == Size <= WarpSize
Slots(t) ==
    IF Shuffled THEN Total([u \in 0..t |-> SplitsOf(u) * QTiles], 0..t) ELSE SplitsOf(t) * QTiles

CountSplits(w) ==
    /\ WarpDoes(w, 3)
    /\ sm' = [sm EXCEPT
                !.splits = [t \in Thread |-> IF t \in ThreadsOf(w) THEN SplitsOf(t) ELSE @[t]],
                !.slots = [t \in Thread |-> IF t \in ThreadsOf(w) /\ (t \in Batch \/ ~Shuffled)
                                            THEN Slots(t) ELSE @[t]]]
    /\ out' = [out EXCEPT !.splits = [b \in Batch |-> IF b \in ThreadsOf(w) THEN SplitsOf(b) ELSE @[b]]]
    /\ UNCHANGED scanned

\* Hillis-Steele: a round reads, meets, adds, meets.
ScanSteps == IF Shuffled THEN 0 ELSE 2 * Smallest({k \in Thread : Doubled[k] >= Tpb})

\* Mutant: the barrier between the reads and the additions is missing.
ScanSyncNone(w) == warpAt[w] % 2 = 0 => Synced(w)
ScanSync(w) == Synced(w)

ScanStep(w) ==
    /\ warpAt[w] \in 4..(3 + ScanSteps) /\ ScanSync(w)
    /\ warpAt' = [warpAt EXCEPT ![w] = @ + 1]
    /\ UNCHANGED <<req, out>>

SlotsRead(w) ==
    LET off == Doubled[(warpAt[w] - 4) \div 2] IN
    /\ ScanStep(w) /\ warpAt[w] % 2 = 0
    /\ scanned' = [t \in Thread |-> IF t \in ThreadsOf(w)
                                   THEN IF t >= off THEN sm.slots[t - off] ELSE 0 ELSE scanned[t]]
    /\ UNCHANGED sm

SlotsAdd(w) ==
    /\ ScanStep(w) /\ warpAt[w] % 2 = 1
    /\ sm' = [sm EXCEPT !.slots =
                [t \in Thread |-> IF t \in ThreadsOf(w) THEN @[t] + scanned[t] ELSE @[t]]]
    /\ UNCHANGED scanned
-----------------------------------------------------------------------------
ReduceSplits(w) ==
    /\ WarpDoes(w, 4 + ScanSteps)
    /\ sm' = [sm EXCEPT !.warpSplits[w] = Largest({SplitsOf(t) : t \in ThreadsOf(w)})]
    /\ UNCHANGED <<scanned, out>>

\* The first rows and pieces of each request; the thread of the last request
\* publishes the number of pieces.
WritePointers(w) ==
    LET mine == ThreadsOf(w) \cap Batch
        before(b) == sm.slots[b] \div QTiles - SplitsOf(b)
        merge(b, q) == before(b) * req.seqlenQ + (q + 1) * SplitsOf(b) IN
    /\ WarpDoes(w, 5 + ScanSteps)
    /\ out' = [out EXCEPT
                !.oIndptr = [i \in 0..Size |->
                    IF i = 0 THEN IF w = 0 THEN 0 ELSE @[i]
                    ELSE IF i - 1 \in mine THEN QTokens * sm.slots[i - 1] ELSE @[i]],
                !.merge = [i \in DOMAIN @ |->
                    IF i = 0 THEN IF w = 0 THEN 0 ELSE @[i]
                    ELSE LET b == (i - 1) \div req.seqlenQ
                         IN IF b \in mine THEN merge(b, (i - 1) % req.seqlenQ) ELSE @[i]]]
    /\ sm' = IF Size - 1 \in mine THEN [sm EXCEPT !.count = sm.slots[Size - 1]] ELSE sm
    /\ UNCHANGED scanned

\* With CUDA graphs the list is padded, so that its length stays the same.
WriteInfo(w) ==
    /\ WarpDoes(w, 6 + ScanSteps)
    /\ out' = IF w # 0 THEN out
              ELSE [out EXCEPT !.info =
                    [split |-> sm.split, chunk |-> sm.chunk,
                     padded |-> IF req.graph /\ sm.split
                                THEN Largest({sm.count, 1, req.grid \div req.heads}) ELSE sm.count,
                     maxSplits |-> Largest({sm.warpSplits[v] : v \in Warp} \cup {1}),
                     rows |-> QTokens * sm.slots[Size - 1]]]
    /\ UNCHANGED <<sm, scanned>>

\* The request, query tile and split of place i: the first request whose
\* pieces end beyond i (the search leaves request 0 if there is none).
Before(b) == Total([c \in 0..(b - 1) |-> sm.splits[c] * QTiles], 0..(b - 1))
PieceAt(i) ==
    LET beyond == {c \in Batch : i < Before(c + 1)}
        b == IF beyond = {} THEN 0 ELSE Smallest(beyond)
        within == i - (IF beyond = {} THEN Before(Size) ELSE Before(b))
    IN [b |-> b, q |-> within \div sm.splits[b], kv |-> within % sm.splits[b], mask |-> 1]

WriteList(w) ==
    /\ WarpDoes(w, 7 + ScanSteps)
    /\ out' = [out EXCEPT !.list = [i \in DOMAIN @ |->
                IF i < sm.count /\ i % Tpb \in ThreadsOf(w) THEN PieceAt(i) ELSE @[i]]]
    /\ UNCHANGED <<sm, scanned>>

Built == \A w \in Warp : warpAt[w] = 8 + ScanSteps

WarpStep(w) ==
    \/ CountPages(w) \/ ReducePages(w) \/ Decide(w) \/ CountSplits(w) \/ SlotsRead(w) \/ SlotsAdd(w)
    \/ ReduceSplits(w) \/ WritePointers(w) \/ WriteInfo(w) \/ WriteList(w)

BuildNext == \E w \in Warp : WarpStep(w)
-----------------------------------------------------------------------------
\* The pieces a request must have, from the chunk the kernel reports.
Wanted(b) == IF out.info.split THEN CeilDiv(Pages(b), out.info.chunk) ELSE 1
WantedWork == QTiles * Total([b \in Batch |-> Wanted(b)], Batch)

\* However warps interleave, each piece of each request is in the list once,
\* rows and pieces of the requests follow one another without a gap, and the
\* summary the host sizes its launches and buffers with is that of the list.
WorkListRight ==
    Built =>
        LET list == [i \in 0..(WantedWork - 1) |-> out.list[i]] IN
        /\ {list[i] : i \in DOMAIN list} =
               UNION {{[b |-> b, q |-> q, kv |-> kv, mask |-> 1] :
                           q \in 0..(QTiles - 1), kv \in 0..(Wanted(b) - 1)} : b \in Batch}
        /\ out.info.padded >= WantedWork
        /\ ~ req.graph => out.info.padded = WantedWork
        /\ out.info.maxSplits = Largest({Wanted(b) : b \in Batch})
        /\ out.info.rows = QTokens * WantedWork
        /\ \A b \in Batch :
            /\ out.splits[b] = Wanted(b)
            /\ out.oIndptr[b + 1] - out.oIndptr[b] = QTokens * QTiles * Wanted(b)
            /\ \A q \in 0..(req.seqlenQ - 1) :
                LET i == b * req.seqlenQ + q IN out.merge[i + 1] - out.merge[i] = Wanted(b)

Work(chunk) == QTiles * req.heads * Total([b \in Batch |-> CeilDiv(Pages(b), chunk)], Batch)

Longest == Largest({Pages(b) : b \in Batch})
AllPages == Total([b \in Batch |-> Pages(b)], Batch)
Uneven == 2 * Longest >= 3 * CeilDiv(AllPages, Size)
LeastChunk == Smaller(Longest, Larger(MinChunkPages, CeilDiv(Longest, CombineMaxSplits)))

Useful(chunk, split) ==
    /\ ~ split => chunk >= Longest
    /\ split /\ req.fixed = 0 =>
        /\ LeastChunk <= chunk /\ chunk <= Longest
        /\ Work(chunk) <= req.grid \/ Uneven
        /\ \A c \in LeastChunk..(chunk - 1) : Work(c) > req.grid

\* A chunk that is neither given nor the whole: it is a useful size, no request
\* has more splits than the combine kernel takes, and, unless long requests
\* are being cut for balance, the pieces run at once and no smaller chunk's do.
ChunkRight == Built => Useful(out.info.chunk, out.info.split)

\* "the kernel writes block_valid_mask=0 for slots past work_count"
\* (build_decode_schedule.cu:54): a slot that is handed out and has no piece is
\* marked so.
PaddedSlotsMasked ==
    Built => \A i \in DOMAIN out.list :
        i \in WantedWork..(out.info.padded - 1) => out.list[i].mask = 0
=============================================================================
