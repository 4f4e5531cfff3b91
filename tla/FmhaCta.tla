------------------------------ MODULE FmhaCta ------------------------------
(***************************************************************************)
(* One CTA of the C++ FMHA kernel: the work items the plan gives it, one   *)
(* after the other, each a tile of queries against a range of KV tiles.    *)
(*                                                                         *)
(* The load warp brings Q and, through one ring, K and V; the MMA warp     *)
(* issues S = QK^T and O += PV for two stages in turn, each with an S and  *)
(* an O of its own and a softmax warpgroup.  The correction warpgroup      *)
(* rescales O between two PV, and stages the tile that the epilogue warp   *)
(* stores.  The stages are the upper and lower queries of the tile         *)
(* (Q-split) or two parts of the keys (K-split), merged in the end.  All   *)
(* warps run ahead of one another as far as the mbarriers let them, into   *)
(* the next tile as well.                                                  *)
(*                                                                         *)
(* Step j of a tile is its j-th KV tile from the end.                      *)
(***************************************************************************)
EXTENDS Mbarrier, FmhaMasks, FiniteSets
LOCAL INSTANCE TLC
LOCAL INSTANCE SequencesExt
LOCAL INSTANCE FiniteSetsExt

CONSTANTS
    Launches,   \* the CTAs considered
    MaxCopies   \* bound: TMA copies in flight at once

\* v: what the kernel is compiled for;  single: SingleSoftmaxWarpGroup, where
\* each stage's softmax has half the warps and its half of the tensor-memory
\* lanes, which hold the same queries twice;  gather: packed queries that no TMA
\* box fits (kPackFactor is no power of two);  warps: the warps of the correction
\* group;  maxq: max_qo_len;  tiles: the CTA's work items.
LaunchAssumption ==
  /\ MasksAssumption /\ MaxCopies \in Nat \ {0}
  /\ \A l \in Launches :
        /\ l.v \in Variants /\ l.single \in BOOLEAN /\ l.warps \in Nat \ {0} /\ M % l.warps = 0
        /\ l.single => l.v.split = "k" /\ l.warps % 2 = 0 /\ l.maxq <= M \div 2
        /\ l.gather \in BOOLEAN /\ (l.gather => l.v.pack > 1)
        /\ l.v.splitKv \/ l.v.pack > 1 => l.v.split = "k"
        /\ l.tiles \in Seq(WorkItems) /\ l.tiles # <<>>
        /\ \A i \in DOMAIN l.tiles :
              LET x == l.tiles[i] IN
              /\ x.qlen <= l.maxq /\ (l.v.pack > 1 => x.off >= 0)
              /\ l.v.splitKv \/ x.kvlen = 0 \/ Trips(l.v, x) > 0

VARIABLES
    launch,
    warp,     \* per warp: its tile, where it is in it (pc, j), how often it has
              \* gone through each pipeline (n; the code keeps slot and parity),
              \* the ring slots and the score index it holds, what it has read
    mbar,     \* the mbarriers: <<pipeline, side, slot>>
    tcq,      \* tensor core: operations and commits in flight, in issue order
    tma,      \* TMA copies in flight
    stores,   \* TMA stores that have yet to read shared memory
    smem,     \* shared memory
    tmem,     \* tensor memory
    out,      \* what was stored: <<tile, stage>> to the rows of each lane
    scores    \* the max scores: <<tile, stage, lane, KV sub-tile>> to the step

vars == <<launch, warp, mbar, tcq, tma, stores, smem, tmem, out, scores>>
-----------------------------------------------------------------------------
Stage == 0..1
v == launch.v
Tiles == launch.tiles
QSplit == v.split = "q"
NeedOutput == v.score # "only"
NeedMaxScore == v.score \in {"only", "full"}

KvSlots == IF QSplit THEN 2 ELSE 4      \* StageCountKV, of 16-bit elements
QSlots == IF QSplit THEN 2 ELSE 1       \* StageCountQ, and those of pipeline_epi
SubTiles == IF QSplit THEN 1 ELSE 2     \* kTilesPerMacro

\* A lane: the rows of tensor memory that belong to a correction warp.
Lanes == 0..(launch.warps - 1)
LaneRows == M \div launch.warps
PerStage == IF launch.single THEN launch.warps \div 2 ELSE launch.warps
FirstRow(w) == (w % PerStage) * LaneRows

\* As many softmax warps of a stage as the longest sequence has queries for;
\* the others leave at once.
Active ==
    IF QSplit THEN PerStage
    ELSE Max({1, Min({PerStage, CeilDiv(Min({launch.maxq, TileM(v)}), LaneRows)})})

Load == <<"load", 0>>
Mma == <<"mma", 0>>
Epi == <<"epi", 0>>
SoftWarps == {"soft0", "soft1"} \X (0..(Active - 1))
CorrWarps == {"corr"} \X Lanes
Everyone == {Load, Mma, Epi} \cup SoftWarps \cup CorrWarps
StageOf(who) == IF who[1] = "soft0" THEN 0 ELSE 1
LaneOf(who) == who[2] + (IF launch.single THEN StageOf(who) * PerStage ELSE 0)

\* Which lanes hold S of a stage for rows of the sequence, and which rows.
Holds(w, s) == w % PerStage < Active /\ (launch.single => w \div PerStage = s)
Rows(t, s, w) ==
    LET first == Tiles[t].qo * TileM(v) + SubRow(v, s) + FirstRow(w)
    IN {r \in first..(first + LaneRows - 1) : r < Tiles[t].qlen}

\* is_padding_corr
Padding(t, w) == FirstRow(w) >= Tiles[t].qlen

None == <<"none">>
Bad == <<"bad">>
-----------------------------------------------------------------------------
\* Of a CTA's tiles, some begin past the end of their sequence; some have no KV
\* tile, and only the correction and epilogue warps have to do with them.
Skipped(t) == Tiles[t].qo * TileM(v) >= Tiles[t].qlen
IsEmpty(t) == Tiles[t].kvlen = 0 \/ (v.splitKv /\ Trips(v, Tiles[t]) = 0)
N_(t) == Trips(v, Tiles[t])

\* Mutant: the correction warps pass over a tile without KV like the others.
ConcernsFull(who, t) == ~Skipped(t) /\ (~IsEmpty(t) \/ who = Epi)

Concerns(who, t) == ~Skipped(t) /\ (~IsEmpty(t) \/ who = Epi \/ who \in CorrWarps)

First(who, t) ==
    CASE who \in {Load, Mma} -> "run" [] who \in SoftWarps -> "s" [] who = Epi -> "wait0"
      [] who \in CorrWarps -> IF IsEmpty(t) THEN "zero0" ELSE "c0"

\* The highest KV sub-tile of a stage, where its max scores begin; the correction
\* warps have one index for both stages.
TopScore(who, t) == (EffectiveEnd(v, Tiles[t]) - 1) * SubTiles
                    + (IF who \in SoftWarps /\ ~QSplit THEN StageOf(who) ELSE 0)

\* A warp's next tile after t, 0 when there is none.
NextTile(who, t) == Min({i \in (t + 1)..Len(Tiles) : Concerns(who, i)} \cup {Len(Tiles) + 1})
Begun(who, r, t) ==
    IF t > Len(Tiles) THEN [r EXCEPT !.pc = "done"]
    ELSE [r EXCEPT !.tile = t, !.pc = First(who, t), !.j = 0, !.idx = TopScore(who, t)]
NextBegun(who, r) == Begun(who, r, NextTile(who, r.tile))
-----------------------------------------------------------------------------
\* The order in which the load warp fills the ring and the MMA warp uses it.
Op(op, s, j) == [op |-> op, s |-> s, j |-> j]

Mmas(n) ==
    <<Op("k", 0, 0), Op("k", 1, 0)>>
    \o FlattenSeq([i \in 1..(n - 1) |->
          <<Op("v", 0, i - 1), Op("k", 0, i), Op("v", 1, i - 1), Op("k", 1, i)>>])
    \o <<Op("v", 0, n - 1), Op("v", 1, n - 1)>>

\* Q-split: both Q, then each K and V for both stages.  K-split: Q, then the
\* order in which each is used; where packed rows are gathered by cp.async, Q
\* between the first two K and the wait for it ("w") after them.  V only where
\* there is an output.
OfTile(ops) == SelectSeq(ops, LAMBDA o : o.op = "k" \/ NeedOutput)
Loads(n) ==
    IF QSplit
    THEN <<Op("q", 0, 0), Op("q", 1, 0)>>
         \o OfTile(FlattenSeq([i \in 1..n |-> <<Op("k", 0, i - 1), Op("v", 0, i - 1)>>]))
    ELSE IF launch.gather
         THEN <<Op("k", 0, 0), Op("q", 0, 0), Op("k", 1, 0), Op("w", 0, 0)>>
              \o SubSeq(OfTile(Mmas(n)), 3, Len(OfTile(Mmas(n))))
         ELSE <<Op("q", 0, 0)>> \o OfTile(Mmas(n))
-----------------------------------------------------------------------------
Kinds == {"q", "kv", "kvr", "s0", "s1", "c0", "c1", "o", "e", "sync"}
S(s) == IF s = 0 THEN "s0" ELSE "s1"
C(s) == IF s = 0 THEN "c0" ELSE "c1"

Full(p, i) == <<p, "full", i>>
Empty(p, i) == <<p, "empty", i>>

Init ==
    /\ launch \in Launches
    /\ warp = [who \in Everyone |->
                 NextBegun(who, [tile |-> 0, pc |-> "run", j |-> 0, n |-> [k \in Kinds |-> 0],
                                 slot |-> [k |-> 0, v |-> 0], idx |-> 0, val |-> <<None, None>>])]
    /\ LET bars(p, slots, nfull, nempty) ==
               [b \in {Full(p, i) : i \in slots} |-> NewMbar(nfull)]
               @@ [b \in {Empty(p, i) : i \in slots} |-> NewMbar(nempty)]
           w == launch.warps
       IN mbar = bars("q", 0..(QSlots - 1), 1, 1) @@ bars("kv", 0..(KvSlots - 1), 1, 1)
                 @@ bars("s0", {0}, 1, Active) @@ bars("s1", {0}, 1, Active)
                 @@ bars("c0", {0}, Active, w) @@ bars("c1", {0}, Active, w)
                 @@ [b \in {Full("o", i) : i \in Stage} |-> NewMbar(w)]
                 @@ bars("e", 0..(QSlots - 1), w, 1)
                 @@ [b \in {Full("sync", 0)} |-> NewMbar(w)]
    /\ tcq = <<>> /\ tma = {} /\ stores = {}
    /\ smem = [q |-> [i \in 0..(QSlots - 1) |-> None], kv |-> [i \in 0..(KvSlots - 1) |-> None],
               o |-> [s \in 0..(QSlots - 1) |-> [w \in Lanes |-> None]],
               scratch |-> [w \in Lanes |-> None]]
    /\ tmem = [x \in {"s", "head", "p", "o"} |->
                 [s \in Stage |-> [w \in Lanes |-> IF x = "o" THEN <<>> ELSE None]]]
    /\ out = <<>> /\ scores = <<>>
-----------------------------------------------------------------------------
(***************************************************************************)
(* The completions of mbarriers a warp waits for before its next step:     *)
(* <<barrier, k>> for the k-th completion, counted from 0; a producer's    *)
(* first wait is for the one before.  Only the parity of k is compared.    *)
(***************************************************************************)
Nth(p, side, count, slots) == <<<<p, side, count % slots>>, count \div slots>>
Filled(p, count, slots) == Nth(p, "full", count, slots)
Freed(p, count, slots) == <<Nth(p, "empty", count, slots)[1], count \div slots - 1>>

LoadAt == Loads(N_(warp[Load].tile))[warp[Load].j + 1]
MmaAt == Mmas(N_(warp[Mma].tile))[warp[Mma].j + 1]

LoadAwaits(r) ==
    CASE LoadAt.op = "q" -> {Freed("q", r.n["q"], QSlots)}
      [] LoadAt.op = "w" -> {}
      [] OTHER -> {Freed("kv", r.n["kv"], KvSlots)}

\* Stage 1 of a Q-split uses the K and V that stage 0 waited for.
Waits(op) == (op.op = "v" => NeedOutput) /\ (QSplit => op.s = 0)

\* Mutant: the MMA warp is always PipelineO's producer, whose phase starts at 1.
CorrectedProducer(r) == {<<Full("o", r.n["o"] % 2), r.n["o"] \div 2 - 1>>}

\* A PV waits for O to be rescaled or read, the first of a stage for nothing;
\* where max scores are written, for those of its own step.  PipelineO has one
\* barrier to a slot, called "full" here.
Corrected(r) ==
    IF NeedMaxScore THEN {Filled("o", r.n["o"], 2)}
    ELSE {<<Full("o", r.n["o"] % 2), r.n["o"] \div 2 - 1>>}

MmaAwaits(r) ==
    LET op == MmaAt IN
    (IF op.op = "k" /\ op.j = 0 /\ op.s < QSlots THEN {Filled("q", r.n["q"], QSlots)} ELSE {})
    \cup (IF Waits(op) THEN {Filled("kv", r.n["kv"], KvSlots)} ELSE {})
    \cup (IF op.op = "v" \/ op.j = 0 THEN {Freed(S(op.s), r.n[S(op.s)], 1)} ELSE {})
    \cup (IF op.op = "v" THEN Corrected(r) ELSE {})

SoftAwaits(r, s) ==
    (IF r.pc \in {"s", "fin"} THEN {Filled(S(s), r.n[S(s)], 1)} ELSE {})
    \cup (IF r.pc \in {"s", "fin", "end"} THEN {Freed(C(s), r.n[C(s)], 1)} ELSE {})

CorrAwaits(r) ==
    CASE r.pc \in {"c0", "fin0"} -> {Filled("c0", r.n["c0"], 1)}
      [] r.pc \in {"c1", "fin1"} -> {Filled("c1", r.n["c1"], 1)}
      [] r.pc \in {"give", "stage0", "zero0", "zero1"} -> {Freed("e", r.n["e"], QSlots)}
      [] r.pc \in {"take", "took"} -> {Filled("sync", r.n["sync"], 1)}
      [] r.pc = "stage1" -> {}

\* Mutant: with the first stage the second is taken to be ready.
EpiAwaitsFirst(r) == IF r.pc = "wait0" THEN {Filled("e", r.n["e"], QSlots)} ELSE {}

EpiAwaits(r) == IF r.pc \in {"wait0", "wait1"} THEN {Filled("e", r.n["e"], QSlots)} ELSE {}

Awaits(who) ==
    LET r == warp[who] IN
    IF r.pc = "done" THEN {}
    ELSE CASE who = Load -> LoadAwaits(r) [] who = Mma -> MmaAwaits(r) [] who = Epi -> EpiAwaits(r)
           [] who \in SoftWarps -> SoftAwaits(r, StageOf(who)) [] who \in CorrWarps -> CorrAwaits(r)

At(who, pc) == warp[who].pc = pc /\ \A x \in Awaits(who) : Passed(mbar[x[1]], x[2] % 2)

Arrived(bars) == [b \in DOMAIN mbar |-> IF b \in bars THEN Arrive(mbar[b]) ELSE mbar[b]]
Counted(r, kinds) == [r EXCEPT !.n = [k \in Kinds |-> IF k \in kinds THEN @[k] + 1 ELSE @[k]]]
Goes(who, r) == warp' = [warp EXCEPT ![who] = r]

\* After a step of a warp that goes through a list of n steps.
Onward(who, r, n) == IF r.j + 1 < n THEN [r EXCEPT !.j = @ + 1] ELSE NextBegun(who, r)
-----------------------------------------------------------------------------
(***************************************************************************)
(* Load warp.                                                              *)
(***************************************************************************)
LoadGoes(kinds) ==
    LET r == warp[Load] IN Goes(Load, Onward(Load, Counted(r, kinds), Len(Loads(N_(r.tile)))))

Copy(bar, val) ==
    /\ Cardinality(tma) < MaxCopies
    /\ mbar' = [mbar EXCEPT ![bar] = ArriveExpectTx(@, 1)]
    /\ tma' = tma \cup {[bar |-> bar, val |-> val]}

LoadQ ==
    LET r == warp[Load] IN
    /\ At(Load, "run") /\ LoadAt.op = "q" /\ ~launch.gather
    /\ Copy(Full("q", r.n["q"] % QSlots), <<"q", r.tile, LoadAt.s>>)
    /\ LoadGoes({"q"})
    /\ UNCHANGED <<launch, tcq, stores, smem, tmem, out, scores>>

\* The rows come by cp.async, and the warp itself announces and completes them.
LoadQGather ==
    LET slot == warp[Load].n["q"] % QSlots IN
    /\ At(Load, "run") /\ LoadAt.op = "q" /\ launch.gather
    /\ mbar' = [mbar EXCEPT ![Full("q", slot)] = ArriveExpectTx(@, 1)]
    /\ smem' = [smem EXCEPT !.q[slot] = None]
    /\ LoadGoes({})
    /\ UNCHANGED <<launch, tcq, tma, stores, tmem, out, scores>>

LoadQWait ==
    LET slot == warp[Load].n["q"] % QSlots IN
    /\ At(Load, "run") /\ LoadAt.op = "w"
    /\ mbar' = [mbar EXCEPT ![Full("q", slot)] = CompleteTx(@, 1)]
    /\ smem' = [smem EXCEPT !.q[slot] = <<"q", warp[Load].tile, 0>>]
    /\ LoadGoes({"q"})
    /\ UNCHANGED <<launch, tcq, tma, stores, tmem, out, scores>>

LoadKv ==
    LET r == warp[Load] IN
    /\ At(Load, "run") /\ LoadAt.op \in {"k", "v"}
    /\ Copy(Full("kv", r.n["kv"] % KvSlots), <<LoadAt.op, r.tile, LoadAt.s, LoadAt.j>>)
    /\ LoadGoes({"kv"})
    /\ UNCHANGED <<launch, tcq, stores, smem, tmem, out, scores>>

\* Copies land in any order.
Complete(x) ==
    LET p == x.bar[1] i == x.bar[3] IN
    /\ tma' = tma \ {x}
    /\ mbar' = [mbar EXCEPT ![x.bar] = CompleteTx(@, 1)]
    /\ smem' = IF p = "q" THEN [smem EXCEPT !.q[i] = x.val] ELSE [smem EXCEPT !.kv[i] = x.val]
    /\ UNCHANGED <<launch, warp, tcq, stores, tmem, out, scores>>
-----------------------------------------------------------------------------
(***************************************************************************)
(* MMA warp and tensor core.  Operations are over in the order they were   *)
(* issued in;  then: the barriers of the commits that follow one.          *)
(***************************************************************************)
LastMma == warp[Mma].j + 1 = Len(Mmas(N_(warp[Mma].tile)))
LastOf(op) == op.j + 1 = N_(warp[Mma].tile)

\* The ring slot of an operation: waited for, or the one stage 0 holds.
RingSlot(op) == IF Waits(op) THEN warp[Mma].n["kv"] % KvSlots
                ELSE IF op.op = "k" THEN warp[Mma].slot.k ELSE warp[Mma].slot.v

\* Of a Q-split, stage 1 is the last to use what stage 0 waited for.
Releases(op) == (op.op = "v" => NeedOutput) /\ (QSplit => op.s = 1)
RingRead(op) == IF Releases(op) THEN {Empty("kv", warp[Mma].n["kvr"] % KvSlots)} ELSE {}

MmaGoes(op, kinds) ==
    LET r == Counted(warp[Mma], kinds \cup (IF Waits(op) THEN {"kv"} ELSE {})
                                      \cup (IF Releases(op) THEN {"kvr"} ELSE {}))
    IN Goes(Mma, Onward(Mma, [r EXCEPT !.slot = IF op.op = "k" THEN [@ EXCEPT !.k = RingSlot(op)]
                                                 ELSE [@ EXCEPT !.v = RingSlot(op)]],
                        Len(Mmas(N_(r.tile)))))

Issue(kind, op, then) ==
    tcq' = Append(tcq, [op |-> kind, t |-> warp[Mma].tile, s |-> op.s, j |-> op.j,
                        slot |-> RingSlot(op), then |-> then])

\* The last QK is followed by the release of Q.
MmaQK ==
    LET op == MmaAt IN
    /\ At(Mma, "run") /\ op.op = "k"
    /\ Issue("qk", op, {Full(S(op.s), 0)} \cup RingRead(op)
                       \cup (IF op.s = 1 /\ LastOf(op) THEN {Empty("q", i) : i \in 0..(QSlots - 1)} ELSE {}))
    /\ MmaGoes(op, {S(op.s)} \cup (IF op.j = 0 /\ op.s < QSlots THEN {"q"} ELSE {}))
    /\ UNCHANGED <<launch, mbar, tma, stores, smem, tmem, out, scores>>

\* Without an output the waits remain.  The last PV is followed by the signals
\* for the final call of either softmax.
MmaPV ==
    LET op == MmaAt IN
    /\ At(Mma, "run") /\ op.op = "v"
    /\ Issue(IF NeedOutput THEN "pv" ELSE "none", op,
             RingRead(op) \cup (IF LastMma THEN {Full("s0", 0), Full("s1", 0)} ELSE {}))
    /\ MmaGoes(op, {"o"} \cup (IF LastMma THEN {"s0", "s1"} ELSE {}))
    /\ UNCHANGED <<launch, mbar, tma, stores, smem, tmem, out, scores>>

\* S of a stage's queries and keys, over all that the columns held.
Scored(e) ==
    IF /\ smem.q[IF QSplit THEN e.s ELSE 0] = <<"q", e.t, IF QSplit THEN e.s ELSE 0>>
       /\ smem.kv[e.slot] = <<"k", e.t, IF QSplit THEN 0 ELSE e.s, e.j>>
    THEN <<"s", e.t, e.s, e.j>> ELSE Bad

\* P times V of the same keys, added to O or in its place.
Added(e, p) ==
    IF /\ p = <<"p", e.t, e.s, e.j>>
       /\ smem.kv[e.slot] = <<"v", e.t, IF QSplit THEN 0 ELSE e.s, e.j>>
    THEN <<"pv", e.t, e.j>> ELSE Bad

Issued(e) ==
    CASE e.op = "none" -> tmem
      [] e.op = "qk" -> [x \in DOMAIN tmem |-> IF x = "o" THEN tmem[x] ELSE
                           [tmem[x] EXCEPT ![e.s] = [w \in Lanes |-> Scored(e)]]]
      [] e.op = "pv" -> [tmem EXCEPT !["o"][e.s] = [w \in Lanes |->
                           Append(IF e.j = 0 THEN <<>> ELSE @[w], Added(e, tmem["p"][e.s][w]))]]

TensorCore ==
    /\ tcq # <<>> /\ tcq' = Tail(tcq)
    /\ tmem' = Issued(Head(tcq))
    /\ mbar' = Arrived(Head(tcq).then)
    /\ UNCHANGED <<launch, warp, tma, stores, smem, out, scores>>
-----------------------------------------------------------------------------
(***************************************************************************)
(* Softmax warps.  Mask, exponential and sum are in the value: what a step *)
(* makes of S is KeysLeft, and P has the same name.                        *)
(***************************************************************************)
\* The max score of a lane's rows of the sequence, if it holds any.
ScoreAt(t, s, w, idx, val) ==
    IF ~Holds(w, s) \/ Rows(t, s, w) = {} THEN scores
    ELSE (<<t, IF QSplit THEN s ELSE 0, w % PerStage, idx>> :> val) @@ scores

\* S is read.  Its max goes to the score, or else to the correction warps by the
\* first columns of S.
SoftS(who) ==
    LET r == warp[who] s == StageOf(who) w == LaneOf(who)
        good == tmem["s"][s][w] = <<"s", r.tile, s, r.j>> IN
    /\ At(who, "s")
    /\ IF v.score = "only"
       THEN /\ scores' = ScoreAt(r.tile, s, w, r.idx, IF good THEN <<s, r.j>> ELSE Bad)
            /\ UNCHANGED tmem
       ELSE /\ tmem' = [tmem EXCEPT !["head"][s][w] = IF good THEN <<"st", r.tile, r.j>> ELSE Bad]
            /\ UNCHANGED scores
    /\ mbar' = Arrived({Full(C(s), 0)})
    /\ Goes(who, [Counted(r, {C(s)}) EXCEPT !.pc = "p", !.idx = @ - SubTiles,
                     !.val[1] = IF good THEN <<"p", r.tile, s, r.j>> ELSE Bad])
    /\ UNCHANGED <<launch, tcq, tma, stores, smem, out>>

SoftP(who) ==
    LET r == warp[who] s == StageOf(who) w == LaneOf(who) IN
    /\ At(who, "p")
    /\ tmem' = IF NeedOutput THEN [tmem EXCEPT !["p"][s][w] = r.val[1]] ELSE tmem
    /\ mbar' = Arrived({Empty(S(s), 0)})
    /\ Goes(who, [Counted(r, {S(s)}) EXCEPT !.val[1] = None,
                     !.pc = IF r.j + 1 < Steps(v, Tiles[r.tile], s) THEN "s" ELSE "fin",
                     !.j = IF r.j + 1 < Steps(v, Tiles[r.tile], s) THEN @ + 1 ELSE @])
    /\ UNCHANGED <<launch, tcq, tma, stores, smem, out, scores>>

\* The final maximum and sum, in the columns of a last S that nothing was put in.
SoftFin(who) ==
    LET r == warp[who] s == StageOf(who) w == LaneOf(who) IN
    /\ At(who, "fin")
    /\ tmem' = [tmem EXCEPT !["head"][s][w] = <<"fin", r.tile>>]
    /\ mbar' = Arrived({Full(C(s), 0)})
    /\ Goes(who, [Counted(r, {C(s)}) EXCEPT !.pc = "end"])
    /\ UNCHANGED <<launch, tcq, tma, stores, smem, out, scores>>

SoftEnd(who) ==
    LET r == warp[who] s == StageOf(who) IN
    /\ At(who, "end")
    /\ mbar' = Arrived({Empty(S(s), 0)})
    /\ Goes(who, NextBegun(who, Counted(r, {S(s)})))
    /\ UNCHANGED <<launch, tcq, tma, stores, smem, tmem, out, scores>>
-----------------------------------------------------------------------------
(***************************************************************************)
(* Correction warps.  In step j a warp reads what softmax 0 has to say and *)
(* then softmax 1; the first time there is nothing to rescale.             *)
(***************************************************************************)
Arrival(r, i) == {Full("o", (r.n["o"] + i) % 2)}
Correcting(r, w) == ~Padding(r.tile, w)

Told(r, s, w) == IF tmem["head"][s][w] = <<"st", r.tile, r.j>> THEN <<s, r.j>> ELSE Bad
CorrScore(r, s, w) ==
    scores' = IF v.score = "full" /\ Correcting(r, w)
              THEN ScoreAt(r.tile, s, w, r.idx, Told(r, s, w)) ELSE scores
Rescale(r, s, w) ==
    tmem' = IF r.j > 0 /\ NeedOutput /\ Correcting(r, w)
            THEN [tmem EXCEPT !["o"][s][w] =
                    Append(@, IF Told(r, s, w) = Bad THEN Bad ELSE <<"scale", r.tile, r.j>>)]
            ELSE tmem

\* k_tile_idx, over stage 0 and 1 of a step and on to the step before it.
Indexed(r, w) == NeedMaxScore /\ (r.j = 0 \/ (v.score = "full" /\ Correcting(r, w)))

\* Mutant: of a K-split, both stages' scores go to the same sub-tile.
CorrStage0Same(who) ==
    LET r == warp[who] w == who[2]
        signals == NeedMaxScore \/ r.j > 0
        released == IF r.j = 0 THEN "c0" ELSE "c1" IN
    /\ At(who, "c0")
    /\ CorrScore(r, 0, w) /\ Rescale(r, 0, w)
    /\ mbar' = Arrived({Empty(released, 0)} \cup (IF signals THEN Arrival(r, 0) ELSE {}))
    /\ Goes(who, [Counted(r, {released} \cup (IF signals THEN {"o"} ELSE {})) EXCEPT !.pc = "c1"])
    /\ UNCHANGED <<launch, tcq, tma, stores, smem, out>>

CorrStage0(who) ==
    LET r == warp[who] w == who[2]
        signals == NeedMaxScore \/ r.j > 0
        released == IF r.j = 0 THEN "c0" ELSE "c1" IN
    /\ At(who, "c0")
    /\ CorrScore(r, 0, w) /\ Rescale(r, 0, w)
    /\ mbar' = Arrived({Empty(released, 0)} \cup (IF signals THEN Arrival(r, 0) ELSE {}))
    /\ Goes(who, [Counted(r, {released} \cup (IF signals THEN {"o"} ELSE {}))
                    EXCEPT !.pc = "c1", !.idx = IF Indexed(r, w) /\ ~QSplit THEN @ + 1 ELSE @])
    /\ UNCHANGED <<launch, tcq, tma, stores, smem, out>>

CorrStage1(who) ==
    LET r == warp[who] w == who[2]
        signals == NeedMaxScore \/ r.j > 0
        last == r.j + 1 = N_(r.tile)
        released == (IF r.j > 0 THEN {"c0"} ELSE {}) \cup (IF last THEN {"c1"} ELSE {}) IN
    /\ At(who, "c1")
    /\ CorrScore(r, 1, w) /\ Rescale(r, 1, w)
    /\ mbar' = Arrived({Empty(c, 0) : c \in released} \cup (IF signals THEN Arrival(r, 0) ELSE {}))
    /\ Goes(who, [Counted(r, released \cup (IF signals THEN {"o"} ELSE {}))
                    EXCEPT !.pc = IF last THEN "fin0" ELSE "c0", !.j = IF last THEN @ ELSE @ + 1,
                           !.idx = IF Indexed(r, w) THEN @ - (IF QSplit THEN 1 ELSE 3) ELSE @])
    /\ UNCHANGED <<launch, tcq, tma, stores, smem, out>>

\* The final maximum and sum of a stage are read.
CorrFinal(who, s) ==
    LET r == warp[who] IN
    /\ At(who, IF s = 0 THEN "fin0" ELSE "fin1")
    /\ mbar' = Arrived({Empty(C(s), 0)})
    /\ Goes(who, [Counted(r, {C(s)}) EXCEPT !.val[s + 1] = tmem["head"][s][who[2]],
                     !.pc = CASE QSplit -> IF s = 0 THEN "stage0" ELSE "stage1"
                              [] ~QSplit /\ s = 0 -> "fin1"
                              [] OTHER -> IF launch.single /\ NeedOutput THEN "give" ELSE "stage0"])
    /\ UNCHANGED <<launch, tcq, tma, stores, smem, tmem, out, scores>>

\* Of a single softmax warpgroup, the lanes of stage 0 get what those of stage 1
\* have, by a part of shared memory that the output is staged in afterwards.
CorrGive(who) ==
    LET r == warp[who] w == who[2] IN
    /\ At(who, "give")
    /\ smem' = [smem EXCEPT !.scratch[w] = <<r.val[2], tmem["o"][1][w]>>,
                            !.o[0] = [x \in Lanes |-> Bad]]
    /\ mbar' = Arrived({Full("sync", 0)})
    /\ Goes(who, [r EXCEPT !.pc = "take"])
    /\ UNCHANGED <<launch, tcq, tma, stores, tmem, out, scores>>

CorrTake(who) ==
    LET r == warp[who] w == who[2] IN
    /\ At(who, "take")
    /\ mbar' = Arrived({Full("sync", 0)})
    /\ Goes(who, [Counted(r, {"sync"}) EXCEPT !.pc = "took",
                     !.val[2] = IF w < PerStage THEN smem.scratch[w + PerStage] ELSE Bad])
    /\ UNCHANGED <<launch, tcq, tma, stores, smem, tmem, out, scores>>

\* Both parts of the keys, merged, are staged for the epilogue warp.
CorrMerge(who) ==
    LET r == warp[who] w == who[2] IN
    /\ ~QSplit /\ (At(who, "stage0") \/ At(who, "took"))
    /\ smem' = IF ~NeedOutput THEN smem
               ELSE [smem EXCEPT !.scratch = [x \in Lanes |-> None],
                        !.o[0][w] = <<"rows", <<r.val[1], tmem["o"][0][w]>>,
                                      IF launch.single THEN r.val[2] ELSE <<r.val[2], tmem["o"][1][w]>>>>]
    /\ mbar' = Arrived({Full("e", 0)}
                       \cup (IF NeedMaxScore THEN {} ELSE Arrival(r, 0) \cup Arrival(r, 1)))
    /\ LET c == Counted(r, {"e"} \cup (IF r.pc = "took" THEN {"sync"} ELSE {}))
       IN Goes(who, NextBegun(who, [c EXCEPT !.n["o"] = IF NeedMaxScore THEN @ ELSE @ + 2,
                                             !.val = <<None, None>>]))
    /\ UNCHANGED <<launch, tcq, tma, stores, tmem, out, scores>>

\* Of a Q-split, each stage's own rows.  Only for stage 0 is the slot acquired.
CorrStage(who, s) ==
    LET r == warp[who] w == who[2]
        c == Counted(r, {"e"} \cup (IF NeedMaxScore THEN {} ELSE {"o"})) IN
    /\ QSplit /\ At(who, IF s = 0 THEN "stage0" ELSE "stage1")
    /\ smem' = IF ~NeedOutput THEN smem
               ELSE [smem EXCEPT !.o[s][w] = <<"rows", <<r.val[s + 1], tmem["o"][s][w]>>>>]
    /\ mbar' = Arrived({Full("e", s)} \cup (IF NeedMaxScore THEN {} ELSE Arrival(r, 0)))
    /\ Goes(who, IF s = 0 THEN [c EXCEPT !.pc = "fin1"]
                 ELSE NextBegun(who, [c EXCEPT !.val = <<None, None>>]))
    /\ UNCHANGED <<launch, tcq, tma, stores, tmem, out, scores>>

\* A tile without keys: the rows of both stages are zeroed, then the slot of the
\* second is acquired.
CorrZero(who, s) ==
    LET r == warp[who] w == who[2] IN
    /\ At(who, IF s = 0 THEN "zero0" ELSE "zero1")
    /\ smem' = IF ~NeedOutput \/ s = 1 THEN smem
               ELSE [smem EXCEPT !.o = [i \in DOMAIN @ |-> [@[i] EXCEPT ![w] = <<"zero", r.tile>>]]]
    /\ mbar' = Arrived({Full("e", s)})
    /\ LET c == Counted(r, {"e"})
       IN Goes(who, IF s = 0 /\ QSplit THEN [c EXCEPT !.pc = "zero1"] ELSE NextBegun(who, c))
    /\ UNCHANGED <<launch, tcq, tma, stores, tmem, out, scores>>
-----------------------------------------------------------------------------
(***************************************************************************)
(* Epilogue warp.  A slot is released when its store has read it.  With    *)
(* its last tile the warp frees tensor memory.                             *)
(***************************************************************************)
EpiIssue(s) ==
    LET r == warp[Epi] IN
    /\ At(Epi, IF s = 0 THEN "wait0" ELSE "wait1")
    /\ stores' = IF NeedOutput THEN stores \cup {<<r.tile, s>>} ELSE stores
    /\ Goes(Epi, [Counted(r, {"e"}) EXCEPT !.pc = IF s = 0 /\ QSplit THEN "wait1" ELSE "free0"])
    /\ UNCHANGED <<launch, mbar, tcq, tma, smem, tmem, out, scores>>

EpiRelease(s) ==
    LET r == warp[Epi] IN
    /\ At(Epi, IF s = 0 THEN "free0" ELSE "free1")
    /\ <<r.tile, s>> \notin stores
    /\ mbar' = Arrived({Empty("e", s)})
    /\ Goes(Epi, IF s = 0 /\ QSplit THEN [r EXCEPT !.pc = "free1"] ELSE NextBegun(Epi, r))
    /\ UNCHANGED <<launch, tcq, tma, stores, smem, tmem, out, scores>>

StoreRead(x) ==
    /\ stores' = stores \ {x}
    /\ out' = (x :> smem.o[x[2]]) @@ out
    /\ UNCHANGED <<launch, warp, mbar, tcq, tma, smem, tmem, scores>>

\* Every warp is done, and nothing is in flight.
Finished ==
    /\ \A who \in Everyone : warp[who].pc = "done"
    /\ tcq = <<>> /\ tma = {} /\ stores = {}

Next ==
    \/ LoadQ \/ LoadQGather \/ LoadQWait \/ LoadKv \/ (\E x \in tma : Complete(x))
    \/ MmaQK \/ MmaPV \/ TensorCore
    \/ \E who \in SoftWarps : SoftS(who) \/ SoftP(who) \/ SoftFin(who) \/ SoftEnd(who)
    \/ \E who \in CorrWarps :
          \/ CorrStage0(who) \/ CorrStage1(who) \/ CorrGive(who) \/ CorrTake(who) \/ CorrMerge(who)
          \/ \E s \in Stage : CorrFinal(who, s) \/ CorrStage(who, s) \/ CorrZero(who, s)
    \/ (\E s \in Stage : EpiIssue(s) \/ EpiRelease(s)) \/ (\E x \in stores : StoreRead(x))
    \/ (Finished /\ UNCHANGED vars)

Spec == Init /\ [][Next]_vars
-----------------------------------------------------------------------------
\* Of a tile, each step's product once and in order, rescaled before each but
\* the first by what the softmax of that step found.
Accumulated(t) ==
    FlattenSeq([i \in 1..N_(t) |->
        (IF i = 1 THEN <<>> ELSE <<<<"scale", t, i - 1>>>>) \o <<<<"pv", t, i - 1>>>>])

Staged(t) ==
    LET part == <<<<"fin", t>>, Accumulated(t)>> IN
    IF IsEmpty(t) THEN <<"zero", t>>
    ELSE IF QSplit THEN <<"rows", part>> ELSE <<"rows", part, part>>

\* The steps whose keys make up a row: those of its stage, or of both.
RowSteps(t, s) ==
    {p \in Stage \X (0..(N_(t) - 1)) : QSplit => p[1] = s}

\* Each key a row should see is left to it by one step of its softmax, and no
\* other key by any.
KeysRight(t, s, w) ==
    LET x == Tiles[t] IN
    \A row \in Rows(t, s, w) :
        LET left(p) == KeysLeft(v, x, p[1], p[2], row) IN
        /\ UNION {left(p) : p \in RowSteps(t, s)} = Seen(v, x, row)
        /\ \A p, q \in RowSteps(t, s) : p # q => left(p) \cap left(q) = {}

Lane(t, s) == {w \in 0..(PerStage - 1) : Rows(t, s, w) # {}}
Kept(x, rows) == \A w \in Lane(x[1], x[2]) : rows[w] = Staged(x[1])

\* A step of the correction warps that stages rows, or of a store.
AttendStep ==
    /\ \A w \in Lanes : \A s \in DOMAIN smem.o :
         LET t == warp[<<"corr", w>>].tile IN
         smem'.o[s][w] \notin {smem.o[s][w], Bad} /\ w \in Lane(t, s)
         => smem'.o[s][w] = Staged(t) /\ (IsEmpty(t) \/ KeysRight(t, s, w))
    /\ \A x \in DOMAIN out' \ DOMAIN out : x[2] = 0 => Kept(x, out'[x])

\* However far the load, MMA and softmax warps, the copies and the tensor core
\* have run ahead, also into the next tile: the correction warps stage for a
\* tile its own queries against each of its steps once and no others, every one
\* rescaled by the maximum of its softmax, and each row gets exactly the keys
\* it may see; and the first rows of every tile are stored so.
AttendsRight == [][AttendStep]_vars

\* The rows of both stages are stored as they were staged.
StoredKept == \A x \in DOMAIN out : Kept(x, out[x])

ScoreOk(key, p) ==
    LET t == key[1] x == Tiles[t]
        keys == {k \in 0..(x.kvlen - 1) : k \div N = key[4]} IN
    /\ p # Bad /\ Sub(v, x, p[1], p[2]) = key[4]
    /\ \A row \in Rows(t, key[2], key[3]) : KeysLeft(v, x, p[1], p[2], row) = Seen(v, x, row) \cap keys

ScoreStep ==
    NeedMaxScore =>
    /\ \A key \in DOMAIN scores' :
          key \notin DOMAIN scores \/ scores'[key] # scores[key] => ScoreOk(key, scores'[key])
    /\ LET t == warp[Epi].tile IN
       warp[Epi].pc # "done" /\ ~IsEmpty(t) /\ (warp'[Epi].tile > t \/ warp'[Epi].pc = "done")
       => \A s \in 0..(QSlots - 1) : \A w \in Lane(t, s) :
             \A i \in (Begin(v, Tiles[t]) * SubTiles)..(EffectiveEnd(v, Tiles[t]) * SubTiles - 1) :
                <<t, s, w, i>> \in DOMAIN scores'

\* A row's max score of a KV sub-tile is that of the step which has the keys of
\* this sub-tile, of those the row may see; and when the epilogue warp is
\* through with a tile, the max score of each of its sub-tiles is there.
ScoresRight == [][ScoreStep]_vars

\* A waiter names a completion by its parity alone, so the mbarrier must be at
\* the phase waited for or have just completed it, also when a tile without
\* keys or past the end of its sequence was left out by some warps only.
ParityUnambiguous ==
    \A who \in Everyone : \A x \in Awaits(who) : mbar[x[1]].gen - x[2] \in {0, 1}

\* The epilogue warp, the last to learn of a tile, frees tensor memory without
\* asking: by then nothing reads or writes it any more.
FreedQuiet ==
    warp[Epi].pc = "done" =>
        /\ tcq = <<>> /\ warp[Mma].pc = "done"
        /\ \A who \in SoftWarps : warp[who].pc \in {"end", "done"}
        /\ \A who \in CorrWarps : warp[who].pc = "done"

\* Where no warp can go on and nothing is in flight, the CTA has ended, with
\* every work item stored that is not past its sequence: it never gets stuck.
\* As no step of a CTA can be undone, it comes to that point whatever the order.
NeverStuck ==
    /\ tcq = <<>> /\ tma = {} /\ stores = {}
    /\ \A who \in Everyone :
          warp[who].pc = "done" \/ \E x \in Awaits(who) : ~Passed(mbar[x[1]], x[2] % 2)
    => /\ Finished
       /\ NeedOutput => DOMAIN out = {t \in DOMAIN Tiles : ~Skipped(t)} \X (0..(QSlots - 1))
=============================================================================
