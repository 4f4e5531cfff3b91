----------------------------- MODULE DecodeCta -----------------------------
(***************************************************************************)
(* One CTA of the paged decode kernel (fwd_decode/atten_fwd.py) from the   *)
(* allocation of tensor memory to its release: the work tiles it gets, one *)
(* after the other, each a query tile against the pages of a split.        *)
(*                                                                         *)
(* The load warp brings Q and, through one ring, K and V of the pages; the *)
(* MMA warp issues S = QK^T and O += PV; even pages are the business of    *)
(* softmax warpgroup 0, odd ones of 1, each with an S and an O of its own. *)
(* A correction warp rescales O between two PV, and in the end combines    *)
(* both into the output tile that the epilogue warp stores; the scheduler  *)
(* warp asks the hardware for the next tile.  All of them run ahead of one *)
(* another as far as the mbarriers let them, into the next tile as well.   *)
(*                                                                         *)
(* Page j of a tile is the j-th from its end; Of(t, j) stands for the      *)
(* scores or probabilities of page j of tile t.                            *)
(***************************************************************************)
EXTENDS Mbarrier, Sequences, FiniteSets
LOCAL INSTANCE TLC

CONSTANTS
    Launches,   \* the CTAs considered
    MaxCopies   \* bound: TMA copies in flight at once

\* warps: the warps of a softmax warpgroup and of the correction group;
\* tiles: the tiles the hardware hands out, pages: those of the split, mask:
\* block_valid_mask.
LaunchAssumption ==
  /\ MaxCopies \in Nat \ {0}
  /\ \A l \in Launches :
        /\ l.warps \in Nat \ {0}
        /\ l.tiles \in Seq([pages : Nat, mask : 0..1]) /\ l.tiles # <<>>

VARIABLES
    launch,
    warp,     \* per warp: its tile, where it is in it (pc, j), the waits it has
              \* made of each kind (n; the code keeps their parity), what it holds
    mbar,     \* the mbarriers: <<pipeline, side, slot>>
    tcq,      \* tensor core: operations and commits in flight, in issue order
    tma,      \* TMA copies in flight
    smem,     \* shared memory
    tmem,     \* tensor memory
    torn,     \* something was read from the first columns of an S that is not
              \* what the reader waited for
    out       \* the tiles that were stored

vars == <<launch, warp, mbar, tcq, tma, smem, tmem, torn, out>>
-----------------------------------------------------------------------------
Stage == 0..1                       \* s_stage
KvSlots == 4                        \* kv_stage
Warps == 0..(launch.warps - 1)
Tiles == launch.tiles

\* Pages are worked off in pairs: an odd number has a dummy at the end, which
\* is the last page once more, masked out entirely.
Iters(t) == ((Tiles[t].pages + 1) \div 2) * 2
Page(t, j) == IF j < Tiles[t].pages THEN j ELSE Tiles[t].pages - 1
Dummy(t, j) == j >= Tiles[t].pages

Load == <<"load", 0>>
Mma == <<"mma", 0>>
Epi == <<"epi", 0>>
Clc == <<"clc", 0>>
SoftWarps == {"soft0", "soft1"} \X Warps
CorrWarps == {"corr"} \X Warps
Everyone == {Load, Mma, Epi, Clc} \cup SoftWarps \cup CorrWarps
StageOf(who) == IF who[1] = "soft0" THEN 0 ELSE 1

Bad == <<"bad">>
None == <<"none">>
Zero == <<"zero">>
Of(t, j) == <<"page", t, j>>
-----------------------------------------------------------------------------
\* The orders in which the load warp fills the ring and the MMA warp empties
\* it; where Q is loaded, and a step for it where there are no pages.
K(j) == [op |-> "k", j |-> j]
V(j) == [op |-> "v", j |-> j]
Q == [op |-> "q", j |-> 0]

Middle(n) == [i \in 1..(2 * (n - 2)) |-> IF i % 2 = 1 THEN V(i \div 2) ELSE K(i \div 2 + 1)]
Loads(n) == IF n = 0 THEN <<Q>> ELSE <<K(0), Q, K(1)>> \o Middle(n) \o <<V(n - 2), V(n - 1)>>
Mmas(n) == IF n = 0 THEN <<Q>> ELSE <<K(0), K(1)>> \o Middle(n) \o <<V(n - 2), V(n - 1)>>
-----------------------------------------------------------------------------
Kinds == {"q", "kv", "spo0", "spo1", "st0", "st1", "oa", "epi", "clc"}
Spo(s) == IF s = 0 THEN "spo0" ELSE "spo1"
St(s) == IF s = 0 THEN "st0" ELSE "st1"

Full(p, i) == <<p, "full", i>>
Empty(p, i) == <<p, "empty", i>>

First(who) == CASE who \in {Load, Mma} -> "run" [] who \in SoftWarps -> "s"
                [] who \in CorrWarps -> "page" [] who = Epi -> "wait" [] who = Clc -> "ask"
\* Mutant: the softmax warps publish no sum for a tile without pages.
BeginUnsummed(who, t) ==
    IF Tiles[t].mask = 0 /\ who # Clc THEN "next"
    ELSE IF Iters(t) = 0 /\ who \in SoftWarps THEN "next"
    ELSE IF Iters(t) = 0 /\ who \in CorrWarps THEN "sum"
    ELSE First(who)

\* Where a warp begins a tile; one that is masked is passed over.
Begin(who, t) ==
    IF Tiles[t].mask = 0 /\ who # Clc THEN "next"
    ELSE IF Iters(t) = 0 /\ who \in SoftWarps \cup CorrWarps THEN "sum"
    ELSE First(who)

Init ==
    /\ launch \in Launches
    /\ warp = [who \in Everyone |->
                 [tile |-> 1, pc |-> IF who \in CorrWarps THEN "open" ELSE Begin(who, 1),
                  j |-> 0, n |-> [k \in Kinds |-> 0],
                  val |-> IF who = Load THEN <<0, 0>> ELSE <<None, None>>]]
    /\ LET bars(p, slots, nfull, nempty) ==
               [b \in {Full(p, i) : i \in slots} |-> NewMbar(nfull)]
               @@ [b \in {Empty(p, i) : i \in slots} |-> NewMbar(nempty)]
           w == launch.warps
       IN mbar = bars("q", {0}, 1, 1) @@ bars("kv", 0..(KvSlots - 1), 1, 1)
                 @@ bars("spo", Stage, 1, 2 * w) @@ bars("pl", Stage, w, 1)
                 @@ bars("oa", Stage, 1, w) @@ bars("st", Stage, w, w) @@ bars("epi", {0}, w, 1)
                 @@ bars("clc", Stage, 1, Cardinality(Everyone))
    /\ tcq = <<>> /\ tma = {}
    /\ smem = [q |-> None, kv |-> [i \in 0..(KvSlots - 1) |-> None], o |-> [w \in Warps |-> <<>>],
               clc |-> [i \in Stage |-> 0]]
    /\ tmem = [x \in {"s", "head", "pa", "pb", "o"} |->
                 [s \in Stage |-> [w \in Warps |-> IF x = "o" THEN <<>> ELSE None]]]
    /\ torn = FALSE
    /\ out = <<>>
-----------------------------------------------------------------------------
(***************************************************************************)
(* The completions of mbarriers a warp waits for before its next step:     *)
(* <<barrier, k>> for the k-th completion, counted from 0; a producer's    *)
(* first wait is for the one before.  Only the parity of k is compared.    *)
(***************************************************************************)
Slot(i) == i % KvSlots
Lap(i) == i \div KvSlots

\* Mutant: the load warp fills a slot of the ring without acquiring it.
LoadAwaitsQ(r) ==
    IF r.pc = "run" /\ Loads(Iters(r.tile))[r.j + 1] # Q THEN {}
    ELSE {<<Empty("q", 0), r.n["q"] - 1>>}

LoadAwaits(r) ==
    CASE r.pc = "run" ->
           IF Loads(Iters(r.tile))[r.j + 1] = Q
           THEN {<<Empty("q", 0), r.n["q"] - 1>>}
           ELSE {<<Empty("kv", Slot(r.n["kv"])), Lap(r.n["kv"]) - 1>>}
      [] r.pc = "tail" ->
           {<<Empty("kv", Slot(r.n["kv"] + KvSlots - 1)), Lap(r.n["kv"] + KvSlots - 1) - 1>>,
            <<Empty("q", 0), r.n["q"] - 1>>}

MmaAwaits(r) ==
    LET step == Mmas(Iters(r.tile))[r.j + 1]
        s == step.j % 2 IN
    CASE r.pc = "run" ->
           (IF r.j = 0 THEN {<<Full("q", 0), r.n["q"]>>} ELSE {})
           \cup (IF step = Q THEN {} ELSE {<<Full("kv", Slot(r.n["kv"])), Lap(r.n["kv"])>>})
           \cup (IF step.op = "v" THEN {<<Empty("spo", s), r.n[Spo(s)]>>} ELSE {})
      [] r.pc = "last" -> {<<Full("pl", s), r.n[Spo(s)]>>}
      [] r.pc = "tail" -> {}

SoftAwaits(r, s) ==
    CASE r.pc = "s" -> {<<Full("spo", s), r.n[Spo(s)]>>}
      [] r.pc \in {"p", "sum", "tail"} -> {<<Empty("st", s), r.n[St(s)] - 1>>}
      [] r.pc = "last" -> {}

CorrAwaits(r) ==
    CASE r.pc = "open" -> {}
      [] r.pc = "page" -> {<<Full("st", r.j % 2), r.n[St(r.j % 2)]>>}
      [] r.pc = "sum" ->
           {<<Full("st", s), r.n[St(s)]>> : s \in {r.j % 2}}
           \cup {<<Full("oa", s), r.n["oa"]>> : s \in {x \in Stage : Iters(r.tile) > 0 /\ r.j % 2 = 0}}
      [] r.pc \in {"store", "tail"} -> {<<Empty("epi", 0), r.n["epi"] - 1>>}

ClcAwaits(r) ==
    CASE r.pc = "ask" -> {<<Empty("clc", r.n["clc"] % 2), r.n["clc"] \div 2 - 1>>}
      [] r.pc = "tail" -> {<<Empty("clc", (r.n["clc"] + 1) % 2), (r.n["clc"] + 1) \div 2 - 1>>}

Awaits(who) ==
    LET r == warp[who] IN
    CASE r.pc = "done" -> {}
      [] r.pc = "next" -> {<<Full("clc", r.n["clc"] % 2), r.n["clc"] \div 2>>}
      [] OTHER -> CASE who = Load -> LoadAwaits(r) [] who = Mma -> MmaAwaits(r)
                    [] who \in SoftWarps -> SoftAwaits(r, StageOf(who))
                    [] who \in CorrWarps -> CorrAwaits(r) [] who = Clc -> ClcAwaits(r)
                    [] OTHER -> IF r.pc = "wait" THEN {<<Full("epi", 0), r.n["epi"]>>} ELSE {}

At(who, pc) == warp[who].pc = pc /\ \A x \in Awaits(who) : Passed(mbar[x[1]], x[2] % 2)

Arrived(bars) == [b \in DOMAIN mbar |-> IF b \in bars THEN Arrive(mbar[b]) ELSE mbar[b]]
Counted(r, kinds) == [r EXCEPT !.n = [k \in Kinds |-> IF k \in kinds THEN @[k] + 1 ELSE @[k]]]

\* A warp leaves when what it has signalled has been used.
Left(who) == At(who, "tail")

Goes(who, r) == warp' = [warp EXCEPT ![who] = r]
-----------------------------------------------------------------------------
(***************************************************************************)
(* Load warp.                                                              *)
(***************************************************************************)
LoadAt == Loads(Iters(warp[Load].tile))[warp[Load].j + 1]
\* After a step of a warp that goes through a list of n steps.
Onward(r, n) == IF r.j + 1 < n THEN [r EXCEPT !.j = @ + 1] ELSE [r EXCEPT !.pc = "next"]

Copy(bar, val) ==
    /\ Cardinality(tma) < MaxCopies
    /\ mbar' = [mbar EXCEPT ![bar] = ArriveExpectTx(@, 1)]
    /\ tma' = tma \cup {[bar |-> bar, val |-> val]}

LoadQ ==
    LET r == warp[Load] IN
    /\ At(Load, "run") /\ LoadAt = Q
    /\ Copy(Full("q", 0), <<"q", r.tile>>)
    /\ Goes(Load, Counted(Onward(r, Len(Loads(Iters(r.tile)))), {"q"}))
    /\ UNCHANGED <<launch, tcq, smem, tmem, torn, out>>

\* Mutant: one page is remembered for both stages.
RememberedOne(r, page) == IF LoadAt.op = "k" THEN <<page, page>> ELSE r.val

\* A page of V is that of the K two steps before, remembered per stage
\* (physical_page_v0, physical_page_v1).
Remembered(r, page) ==
    IF LoadAt = K(0) THEN <<page, page>>
    ELSE IF LoadAt.op = "k" THEN [r.val EXCEPT ![(LoadAt.j % 2) + 1] = page] ELSE r.val

LoadKv ==
    LET r == warp[Load]
        page == IF LoadAt.op = "k" THEN Page(r.tile, LoadAt.j) ELSE r.val[(LoadAt.j % 2) + 1] IN
    /\ At(Load, "run") /\ LoadAt # Q
    /\ Copy(Full("kv", Slot(r.n["kv"])), <<LoadAt.op, r.tile, page>>)
    /\ Goes(Load, [Counted(Onward(r, Len(Loads(Iters(r.tile)))), {"kv"})
                   EXCEPT !.val = Remembered(r, page)])
    /\ UNCHANGED <<launch, tcq, smem, tmem, torn, out>>

\* Copies land in any order.
Complete(x) ==
    LET p == x.bar[1] i == x.bar[3] IN
    /\ tma' = tma \ {x}
    /\ mbar' = [mbar EXCEPT ![x.bar] = CompleteTx(@, 1)]
    /\ smem' = CASE p = "q" -> [smem EXCEPT !.q = x.val]
                 [] p = "kv" -> [smem EXCEPT !.kv[i] = x.val]
    /\ UNCHANGED <<launch, warp, tcq, tmem, torn, out>>
-----------------------------------------------------------------------------
(***************************************************************************)
(* MMA warp and tensor core.                                               *)
(***************************************************************************)
MmaAt == Mmas(Iters(warp[Mma].tile))[warp[Mma].j + 1]
MmaOnward(kinds) ==
    Goes(Mma, Counted(Onward([warp[Mma] EXCEPT !.pc = "run"], Len(Mmas(Iters(warp[Mma].tile)))), kinds))

\* Operations are over in the order they were issued in; then: the barriers of
\* the commits that follow one.
Issue(kind, then) ==
    tcq' = Append(tcq, [op |-> kind, t |-> warp[Mma].tile, j |-> MmaAt.j,
                        slot |-> Slot(warp[Mma].n["kv"]), then |-> then])
KvRead == Empty("kv", Slot(warp[Mma].n["kv"]))

\* A tile's wait for Q comes before its first step.
QUsed == IF warp[Mma].j = 0 THEN {"q"} ELSE {}

\* The last QK is followed by the release of Q.
MmaQK ==
    /\ At(Mma, "run") /\ MmaAt.op = "k"
    /\ Issue("qk", {Full("spo", MmaAt.j % 2), KvRead}
                   \cup (IF MmaAt.j = Iters(warp[Mma].tile) - 1 THEN {Empty("q", 0)} ELSE {}))
    /\ MmaOnward({"kv"} \cup QUsed)
    /\ UNCHANGED <<launch, mbar, tma, smem, tmem, torn, out>>

\* Nothing but Q was loaded.
MmaFreeQ ==
    /\ At(Mma, "run") /\ MmaAt = Q
    /\ Issue("none", {Empty("q", 0)})
    /\ MmaOnward(QUsed)
    /\ UNCHANGED <<launch, mbar, tma, smem, tmem, torn, out>>

\* gemm_ptx_partial issues three quarters of PV, waits for the rest of P inside.
MmaPV ==
    /\ At(Mma, "run") /\ MmaAt.op = "v"
    /\ Issue("pva", {})
    /\ Goes(Mma, [warp[Mma] EXCEPT !.pc = "last"])
    /\ UNCHANGED <<launch, mbar, tma, smem, tmem, torn, out>>

MmaPVLast ==
    /\ At(Mma, "last")
    /\ Issue("pvb", {KvRead} \cup (IF MmaAt.j >= Iters(warp[Mma].tile) - 2
                                   THEN {Full("oa", MmaAt.j % 2)} ELSE {}))
    /\ MmaOnward({"kv", Spo(MmaAt.j % 2)})
    /\ UNCHANGED <<launch, mbar, tma, smem, tmem, torn, out>>

\* relinquish_alloc_permit, then tensor memory is freed when the softmax and
\* correction warps have left.
MmaFree ==
    /\ At(Mma, "tail") /\ \A who \in SoftWarps \cup CorrWarps : Left(who)
    /\ Goes(Mma, [warp[Mma] EXCEPT !.pc = "done"])
    /\ UNCHANGED <<launch, mbar, tcq, tma, smem, tmem, torn, out>>

\* S of the tile's queries and a page; its first columns hold what they held.
Scores(e) ==
    LET kv == smem.kv[e.slot] IN
    IF smem.q = <<"q", e.t>> /\ kv[1] = "k" /\ kv[2] = e.t THEN Of(e.t, kv[3]) ELSE Bad

\* Probabilities times V of the same page; those of a dummy page are zero.
Product(p, e) ==
    LET kv == smem.kv[e.slot] IN
    IF kv[1] = "v" /\ kv[2] = e.t /\ (p = Zero \/ p = Of(e.t, kv[3])) THEN p ELSE Bad

\* O of a warp's rows lists what was added and where it was rescaled.
Issued(e) ==
    LET s == e.j % 2 IN
    CASE e.op = "none" -> tmem
      [] e.op = "qk" ->
           [tmem EXCEPT !["s"][s] = [w \in Warps |-> Scores(e)],
                        !["head"][s] = [w \in Warps |-> <<"s", e.t, e.j>>]]
      [] e.op = "pva" ->
           [tmem EXCEPT !["o"][s] = [w \in Warps |->
               (IF e.j < 2 THEN <<>> ELSE @[w]) \o <<Product(tmem["pa"][s][w], e)>>]]
      [] e.op = "pvb" ->
           [tmem EXCEPT !["o"][s] = [w \in Warps |->
               IF @[w][Len(@[w])] = Product(tmem["pb"][s][w], e) THEN @[w] ELSE Append(@[w], Bad)]]

TensorCore ==
    /\ tcq # <<>> /\ tcq' = Tail(tcq)
    /\ tmem' = Issued(Head(tcq))
    /\ mbar' = Arrived(Head(tcq).then)
    /\ UNCHANGED <<launch, warp, tma, smem, torn, out>>
-----------------------------------------------------------------------------
(***************************************************************************)
(* Softmax warps.  j counts the pages of the stage.                        *)
(***************************************************************************)
SoftPage(who) == 2 * warp[who].j + StageOf(who)

\* A warp's rows of S; the mask and the exponential are in the value.
SoftS(who) ==
    LET r == warp[who] s == StageOf(who) w == who[2] IN
    /\ At(who, "s")
    /\ Goes(who, [Counted(r, {Spo(s)}) EXCEPT
            !.pc = "p",
            !.val[1] = IF tmem["s"][s][w] # Of(r.tile, Page(r.tile, SoftPage(who))) THEN Bad
                       ELSE IF Dummy(r.tile, SoftPage(who)) THEN Zero ELSE tmem["s"][s][w]])
    /\ torn' = (torn \/ tmem["head"][s][w] # <<"s", r.tile, SoftPage(who)>>)
    /\ UNCHANGED <<launch, mbar, tcq, tma, smem, tmem, out>>

\* The change of the maximum goes to the first columns of S, for the correction
\* warp; then three quarters of P.
SoftP(who) ==
    LET r == warp[who] s == StageOf(who) w == who[2] IN
    /\ At(who, "p")
    /\ tmem' = [tmem EXCEPT !["head"][s][w] = <<"scale", r.tile, SoftPage(who)>>,
                            !["pa"][s][w] = r.val[1]]
    /\ mbar' = Arrived({Full("st", s), Empty("spo", s)})
    /\ Goes(who, [Counted(r, {St(s)}) EXCEPT !.pc = "last"])
    /\ UNCHANGED <<launch, tcq, tma, smem, torn, out>>

SoftLast(who) ==
    LET r == warp[who] s == StageOf(who) w == who[2] IN
    /\ At(who, "last")
    /\ tmem' = [tmem EXCEPT !["pb"][s][w] = r.val[1]]
    /\ mbar' = Arrived({Full("pl", s)})
    /\ Goes(who, IF SoftPage(who) + 2 < Iters(r.tile)
                 THEN [r EXCEPT !.pc = "s", !.j = @ + 1, !.val[1] = None]
                 ELSE [r EXCEPT !.pc = "sum", !.val[1] = None])
    /\ UNCHANGED <<launch, tcq, tma, smem, torn, out>>

\* Row sum and maximum, in the same columns.
SoftSum(who) ==
    LET r == warp[who] s == StageOf(who) w == who[2] IN
    /\ At(who, "sum")
    /\ tmem' = [tmem EXCEPT !["head"][s][w] = <<"sum", r.tile, 0>>]
    /\ mbar' = Arrived({Full("st", s)})
    /\ Goes(who, [Counted(r, {St(s)}) EXCEPT !.pc = "next"])
    /\ UNCHANGED <<launch, tcq, tma, smem, torn, out>>
-----------------------------------------------------------------------------
(***************************************************************************)
(* Correction warps.                                                       *)
(***************************************************************************)
\* There is nothing to correct for the first PV of either stage.
CorrOpen(who) ==
    /\ At(who, "open")
    /\ mbar' = Arrived({Empty("spo", s) : s \in Stage})
    /\ Goes(who, [warp[who] EXCEPT !.pc = Begin(who, 1)])
    /\ UNCHANGED <<launch, tcq, tma, smem, tmem, torn, out>>

\* Not for a stage's first page: O is rescaled by what the softmax published.
CorrPage(who) ==
    LET r == warp[who] s == r.j % 2 w == who[2]
        mine == tmem["head"][s][w] = <<"scale", r.tile, r.j>> IN
    /\ At(who, "page")
    /\ IF r.j < 2
       THEN mbar' = Arrived({Empty("st", s)}) /\ UNCHANGED <<tmem, torn>>
       ELSE /\ mbar' = Arrived({Empty("st", s), Empty("spo", s)})
            /\ tmem' = [tmem EXCEPT !["o"][s][w] =
                            Append(@, IF mine THEN <<"scale", r.tile, r.j>> ELSE Bad)]
            /\ torn' = (torn \/ ~mine)
    /\ Goes(who, IF r.j + 1 < Iters(r.tile) THEN [Counted(r, {St(s)}) EXCEPT !.j = @ + 1]
                 ELSE [Counted(r, {St(s)}) EXCEPT !.pc = "sum", !.j = 0])
    /\ UNCHANGED <<launch, tcq, tma, smem, out>>

\* The final sums of stage 0, then of stage 1, when both O are complete.
CorrSum(who) ==
    LET r == warp[who] s == r.j w == who[2] IN
    /\ At(who, "sum")
    /\ torn' = (torn \/ tmem["head"][s][w] # <<"sum", r.tile, 0>>)
    /\ mbar' = Arrived({Empty("st", s)})
    /\ Goes(who, IF s = 0 THEN [Counted(r, {St(s)}) EXCEPT !.j = 1]
                 ELSE [Counted(r, {St(s)}) EXCEPT !.pc = "store", !.j = 0])
    /\ UNCHANGED <<launch, tcq, tma, smem, tmem, out>>

\* Both O, scaled, are the output rows; without pages the rows are zero.
CorrStore(who) ==
    LET r == warp[who] w == who[2]
        pages == Iters(r.tile) > 0 IN
    /\ At(who, "store")
    /\ smem' = [smem EXCEPT !.o[w] =
                    IF pages THEN <<r.tile, tmem["o"][0][w], tmem["o"][1][w]>> ELSE <<r.tile>>]
    /\ mbar' = Arrived({Full("epi", 0)} \cup
                       (IF pages THEN {Empty(p, s) : p \in {"spo", "oa"}, s \in Stage} ELSE {}))
    /\ Goes(who, [Counted(r, {"epi"} \cup (IF pages THEN {"oa"} ELSE {})) EXCEPT !.pc = "next"])
    /\ UNCHANGED <<launch, tcq, tma, tmem, torn, out>>
-----------------------------------------------------------------------------
(***************************************************************************)
(* Epilogue and scheduler warps, and how every warp gets its next tile.    *)
(***************************************************************************)
\* The tile is copied out of shared memory (cp_async_bulk_wait_group(0) ends it).
EpiStore ==
    LET r == warp[Epi] IN
    /\ At(Epi, "wait")
    /\ out' = Append(out, [tile |-> r.tile, rows |-> smem.o])
    /\ mbar' = Arrived({Empty("epi", 0)})
    /\ Goes(Epi, [Counted(r, {"epi"}) EXCEPT !.pc = "next"])
    /\ UNCHANGED <<launch, tcq, tma, smem, tmem, torn>>

\* The hardware hands out another tile, or none: 0.  It may take its time, but
\* nobody can tell a late answer from a late query.
ClcAsk ==
    LET r == warp[Clc] slot == r.n["clc"] % 2 IN
    /\ At(Clc, "ask")
    /\ smem' = [smem EXCEPT !.clc[slot] = IF r.tile < Len(Tiles) THEN r.tile + 1 ELSE 0]
    /\ mbar' = Arrived({Full("clc", slot)})
    /\ Goes(Clc, [r EXCEPT !.pc = "next"])
    /\ UNCHANGED <<launch, tcq, tma, tmem, torn, out>>

\* consumer_advance
Advance(who) ==
    LET r == Counted(warp[who], {"clc"})
        slot == warp[who].n["clc"] % 2
        tile == smem.clc[slot] IN
    /\ At(who, "next")
    /\ mbar' = Arrived({Empty("clc", slot)})
    /\ Goes(who, [r EXCEPT !.j = 0, !.tile = tile,
                           !.pc = IF tile = 0 THEN "tail" ELSE Begin(who, tile)])
    /\ UNCHANGED <<launch, tcq, tma, smem, tmem, torn, out>>

\* Every warp has left: nothing is left to wait for.
Finished == \A who \in Everyone : IF who = Mma THEN warp[Mma].pc = "done" ELSE Left(who)

Next ==
    \/ LoadQ \/ LoadKv \/ (\E x \in tma : Complete(x))
    \/ MmaQK \/ MmaFreeQ \/ MmaPV \/ MmaPVLast \/ MmaFree \/ TensorCore
    \/ \E who \in SoftWarps : SoftS(who) \/ SoftP(who) \/ SoftLast(who) \/ SoftSum(who)
    \/ \E who \in CorrWarps : CorrOpen(who) \/ CorrPage(who) \/ CorrSum(who) \/ CorrStore(who)
    \/ EpiStore \/ ClcAsk
    \/ (\E who \in Everyone : Advance(who)) \/ (Finished /\ UNCHANGED vars)

Spec == Init /\ [][Next]_vars
-----------------------------------------------------------------------------
\* The O of a stage when its pages are done: each page of the stage added once,
\* in order, rescaled before each but the first.
RECURSIVE Accumulated(_, _)
Accumulated(t, j) ==
    LET p == IF Dummy(t, j) THEN Zero ELSE Of(t, j)
    IN IF j < 2 THEN <<p>> ELSE Accumulated(t, j - 2) \o <<<<"scale", t, j>>, p>>

Whole(t) ==
    [tile |-> t,
     rows |-> [w \in Warps |-> IF Iters(t) = 0 THEN <<t>>
                               ELSE <<t, Accumulated(t, Iters(t) - 2), Accumulated(t, Iters(t) - 1)>>]]

Unmasked == SelectSeq([t \in DOMAIN Tiles |-> t], LAMBDA t : Tiles[t].mask = 1)

\* Seen from outside the CTA is the step Attend of DecodeAttention, over and
\* over: it stores the tiles it was given, in order, each whole, from its own
\* queries and from each of its own pages once, however far the warps, the
\* copies and the tensor core have run ahead into the next tiles.
ImplementsAttend ==
    [][out' # out =>
        /\ Len(out) < Len(Unmasked)
        /\ out' = Append(out, Whole(Unmasked[Len(out) + 1]))]_vars

\* Where a CTA ends: every tile is stored, and every warp has left.
TilesStored == Finished /\ Len(out) = Len(Unmasked)

\* A waiter names a completion by its parity alone, so the mbarrier must be at
\* the phase waited for or have just completed it: were it two phases ahead,
\* the warp would sleep through its turn or run before it.
ParityUnambiguous ==
    \A who \in Everyone : \A x \in Awaits(who) : mbar[x[1]].gen - x[2] \in {0, 1}

\* "softmax->correction stage-local stats [...] preserving the same
\* first/rescale/final signal sequence" (atten_fwd.py:660-663): what the
\* correction warps read as scale, sum and maximum is what the softmax warps
\* of the stage published for them, and the scores keep these columns as long
\* as a softmax warp has not read them.
StatsKept == ~torn
=============================================================================
