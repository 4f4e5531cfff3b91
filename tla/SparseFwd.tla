----------------------------- MODULE SparseFwd -----------------------------
(***************************************************************************)
(* One CTA of the warp-specialised sparse prefill kernel                   *)
(* (cute/src/sm100/fwd/atten_fwd.py): one KV block against every group of  *)
(* query tokens that selected it.                                          *)
(*                                                                         *)
(* Q-load warps gather the tokens of a group with TMA; the MMA warp issues *)
(* S = QK^T and O = PV on the tensor core; softmax warpgroup `stage' turns *)
(* S into P for the groups of its parity and stores the partial O.  The    *)
(* roles meet only at six two-slot mbarrier pipelines, at the mbarriers of *)
(* K and V, and at named barriers.  The tensor core and the TMA engine run *)
(* behind the warps: an instruction issued is an operation in flight, and  *)
(* tcgen05.commit arrives on an mbarrier when the operations issued before *)
(* it are over.                                                            *)
(*                                                                         *)
(* Tiles are represented by the number of the group they belong to; a      *)
(* result computed from tiles of different groups is Bad.                  *)
(***************************************************************************)
EXTENDS Mbarrier, Sequences, FiniteSets

CONSTANT Launches   \* the CTAs and kernel variants considered

\* groups: num_q_groups, 0 when has_work is false;  loads: Q-load warps;
\* warps: warps of a softmax warpgroup;  ring: qidx_meta_stages, the ring of
\* query indices;  gather4: use_q_gather4, _wg_load_q_gather4 loads Q, else
\* _wg_load_q_tma;  kfp8, vfp8: k_fp8_to_bf16, v_fp8_to_bf16, dequantise in
\* shared memory.
ASSUME LaunchAssumption ==
    /\ Launches \subseteq [groups : Nat, loads : Nat \ {0}, warps : Nat \ {0}, ring : Nat \ {0},
                          gather4 : BOOLEAN, kfp8 : BOOLEAN, vfp8 : BOOLEAN]
    /\ \A l \in Launches : \E k \in 0 .. 8 : l.ring = 2 ^ k

\* The NVFP4 kernel (atten_fwd_nvfp4_kv.py) has the same slots, warps and index
\* ring; the softmax warps always dequantise both operands.
Nvfp4(groups, loads, warps, ring, gather4) ==
    [groups |-> groups, loads |-> loads, warps |-> warps, ring |-> ring,
     gather4 |-> gather4, kfp8 |-> TRUE, vfp8 |-> TRUE]

VARIABLES
    launch,  \* which of the launches this is
    pipes,   \* the full and empty mbarriers of the six pipelines
    kvbar,   \* mbar_k, mbar_v and, for fp8, mbar_k_tma, mbar_v_tma
    named,   \* named barriers: the warps now waiting at each
    ld,      \* Q-load warps
    kvld,    \* the two KV-load warps
    mma,     \* the MMA warp
    soft,    \* the softmax warps of each stage
    tcq,     \* tensor core: operations and commits in flight, in issue order
    tma,     \* TMA copies in flight
    smem,    \* shared memory
    tmem,    \* tensor memory
    out      \* partial O and LSE rows stored, per group and warp

vars == <<launch, pipes, kvbar, named, ld, kvld, mma, soft, tcq, tma, smem, tmem, out>>

NumGroups  == launch.groups
SoftWarps  == launch.warps
\* Mutant: the index ring has as many rows as the Q ring.
MetaStagesFew == 2
MetaStages == launch.ring
Gather4    == launch.gather4
KFp8       == launch.kfp8
VFp8       == launch.vfp8

Stage  == 0 .. 1                     \* q_stage = s_stage = o_stage = 2
Group  == 0 .. (NumGroups - 1)
LoadWarps == launch.loads
Loader == 0 .. (LoadWarps - 1)
Warp   == 0 .. (SoftWarps - 1)
\* The warps that write query indices: warp 0 has enough lanes but for gather4.
MetaWriters == IF Gather4 THEN Loader ELSE {0}

Pipe   == {"q", "s", "p", "pl", "o", "st"}

SlotOf(g)  == g % 2
PhaseOf(g) == (g \div 2) % 2
Other(ph)  == 1 - ph

\* qi_group & (qidx_meta_stages - 1)
MetaSlot(g) == g % MetaStages

None == -1
Bad  == -2

Range(f) == {f[x] : x \in DOMAIN f}

\* The group a value computed from these tiles belongs to.
Combine(tiles) == IF \E g \in tiles : tiles = {g} THEN CHOOSE g \in tiles : TRUE ELSE Bad

Everyone == {<<"mma">>} \cup (Stage \X Warp)     \* users of tmem_alloc_barrier

StageGroups(stage) == (NumGroups + 1 - stage) \div 2   \* num_stage_groups

\* softmax0 dequantises K, softmax1 dequantises V.
Converts(stage) == NumGroups > 0 /\ (IF stage = 0 THEN KFp8 ELSE VFp8)
Operand(stage)  == IF stage = 0 THEN "k" ELSE "v"

PipeInit(nfull, nempty) ==
    [i \in Stage |-> [full |-> NewMbar(nfull), empty |-> NewMbar(nempty)]]

\* One TMA or MMA thread on its side, all the softmax warps on theirs.
PipesInit == [
    q  |-> PipeInit(1, 1),
    s  |-> PipeInit(1, SoftWarps),
    p  |-> PipeInit(SoftWarps, 1),
    pl |-> PipeInit(SoftWarps, 1),
    o  |-> PipeInit(1, SoftWarps),
    st |-> PipeInit(SoftWarps, SoftWarps)]

\* The mbarrier a KV-load warp's TMA signals.
KvTma(x) == IF (x = "k" /\ KFp8) \/ (x = "v" /\ VFp8) THEN <<x, "tma">> ELSE <<x, "ready">>

Init ==
    /\ launch \in Launches
    /\ pipes = PipesInit
    /\ kvbar = [b \in {"k", "v"} \X {"tma", "ready"} |->
                   IF b = KvTma(b[1]) THEN ExpectTx(NewMbar(1), 1) ELSE NewMbar(1)]
    /\ named = [b \in {<<"load">>, <<"tmem">>, <<"kv">>} \cup ({"cvt", "epi"} \X Stage) |-> {}]
    /\ ld    = [w \in Loader |-> [g |-> 0, pc |-> IF NumGroups = 0 THEN "done" ELSE "acquire"]]
    /\ kvld  = [x \in {"k", "v"} |-> IF NumGroups = 0 THEN "done" ELSE "issue"]
    /\ mma   = [g |-> 0, pc |-> "alloc"]
    /\ soft  = [stage \in Stage |-> [w \in Warp |->
                  [it |-> 0, val |-> None, pc |-> IF Converts(stage) THEN "cvt" ELSE "alloc"]]]
    /\ tcq   = <<>>
    /\ tma   = {}
    /\ smem  = [q     |-> [i \in Stage |-> [w \in Loader |-> None]],
                midx  |-> [i \in Stage |-> None],
                meta  |-> [i \in 0 .. (MetaStages - 1) |-> [w \in MetaWriters |-> None]],
                scale |-> [i \in Stage |-> [w \in Warp |-> None]],
                qidx  |-> [i \in Stage |-> None],
                raw   |-> {},                                        \* fp8 tiles loaded
                kv    |-> {}]                                        \* <<operand, part>> ready
    /\ tmem  = [s  |-> [i \in Stage |-> [w \in Warp |-> None]],
                pa |-> [i \in Stage |-> [w \in Warp |-> None]],      \* first 3/4 of P
                pb |-> [i \in Stage |-> [w \in Warp |-> None]],      \* last split of P
                o  |-> [i \in Stage |-> [w \in Warp |-> None]]]
    /\ out   = [g \in Group |-> [w \in Warp |-> None]]

-----------------------------------------------------------------------------
(***************************************************************************)
(* Synchronisation.  A named barrier is the set of warps waiting at it:    *)
(* the last one to arrive empties it, and a warp that arrived goes on when *)
(* it is no longer in the set.                                             *)
(***************************************************************************)
ArriveNamed(nb, b, who, all) ==
    [nb EXCEPT ![b] = IF @ \cup {who} = all THEN {} ELSE @ \cup {who}]

Released(b, who) == who \notin named[b]

Epi(stage) == <<"epi", stage>>
Cvt(stage) == <<"cvt", stage>>

FullPassed(p, g)  == Passed(pipes[p][SlotOf(g)].full, PhaseOf(g))
EmptyPassed(p, g) == Passed(pipes[p][SlotOf(g)].empty, Other(PhaseOf(g)))

\* The operands in shared memory: the parts of K or V the MMA may read.
KvParts(x) == IF KvTma(x) = <<x, "tma">> THEN {x} \X Warp ELSE {<<x, 0>>}

-----------------------------------------------------------------------------
(***************************************************************************)
(* Q-load warps: _wg_load_q_tma and _wg_load_q_gather4.                    *)
(***************************************************************************)
LoadArrive(w) == named' = ArriveNamed(named, <<"load">>, w, Loader)

Indices(g) == Combine(Range(smem.meta[MetaSlot(g)]))

\* Mutant: the slot is loaded again without waiting for the QK that reads it.
LoadAcquireNoWait(w) ==
    /\ ld[w].pc = "acquire"
    /\ pipes' = IF w = 0
                THEN [pipes EXCEPT !["q"][SlotOf(ld[w].g)].full = ArriveExpectTx(@, LoadWarps)]
                ELSE pipes
    /\ LoadArrive(w)
    /\ ld' = [ld EXCEPT ![w].pc = "meta"]
    /\ UNCHANGED <<kvbar, kvld, mma, soft, tcq, tma, smem, tmem, out>>

\* Warp 0 acquires the slot and announces its bytes; all meet.
LoadAcquire(w) ==
    /\ ld[w].pc = "acquire"
    /\ IF w = 0
       THEN /\ EmptyPassed("q", ld[w].g)
            /\ pipes' = [pipes EXCEPT !["q"][SlotOf(ld[w].g)].full = ArriveExpectTx(@, LoadWarps)]
       ELSE UNCHANGED pipes
    /\ LoadArrive(w)
    /\ ld' = [ld EXCEPT ![w].pc = "meta"]
    /\ UNCHANGED <<kvbar, kvld, mma, soft, tcq, tma, smem, tmem, out>>

\* The query indices of the group and, but for gather4, its row coordinates.
LoadMeta(w) ==
    /\ ld[w].pc = "meta" /\ Released(<<"load">>, w)
    /\ LET g == ld[w].g IN
       smem' = [smem EXCEPT
           !.meta[MetaSlot(g)] = [x \in MetaWriters |-> IF x = w THEN g ELSE @[x]],
           !.midx[SlotOf(g)] = IF w = 0 /\ ~Gather4 THEN g ELSE @]
    /\ LoadArrive(w)
    /\ ld' = [ld EXCEPT ![w].pc = "copy"]
    /\ UNCHANGED <<pipes, kvbar, kvld, mma, soft, tcq, tma, tmem, out>>

NextGroup(w, g) ==
    [g  |-> g + 1,
     pc |-> IF g + 1 < NumGroups THEN "acquire" ELSE IF w = 0 THEN "tail" ELSE "done"]

\* Each warp issues the TMA copies of its tokens; gather4 has them meet again.
LoadCopy(w) ==
    /\ ld[w].pc = "copy" /\ Released(<<"load">>, w)
    /\ LET g == ld[w].g IN
       tma' = tma \cup {[dst |-> "q", slot |-> SlotOf(g), part |-> w,
                         g |-> IF Gather4 THEN Indices(g) ELSE smem.midx[SlotOf(g)]]}
    /\ IF Gather4
       THEN LoadArrive(w) /\ ld' = [ld EXCEPT ![w].pc = "join"]
       ELSE UNCHANGED named /\ ld' = [ld EXCEPT ![w] = NextGroup(w, @.g)]
    /\ UNCHANGED <<pipes, kvbar, kvld, mma, soft, tcq, smem, tmem, out>>

LoadJoin(w) ==
    /\ ld[w].pc = "join" /\ Released(<<"load">>, w)
    /\ ld' = [ld EXCEPT ![w] = NextGroup(w, @.g)]
    /\ UNCHANGED <<pipes, kvbar, named, kvld, mma, soft, tcq, tma, smem, tmem, out>>

\* Warp 0 acquires one slot more before it leaves.
LoadTail(w) ==
    /\ ld[w].pc = "tail"
    /\ EmptyPassed("q", NumGroups)
    /\ pipes' = [pipes EXCEPT !["q"][SlotOf(NumGroups)].full = ArriveExpectTx(@, LoadWarps)]
    /\ ld' = [ld EXCEPT ![w].pc = "done"]
    /\ UNCHANGED <<kvbar, named, kvld, mma, soft, tcq, tma, smem, tmem, out>>

(***************************************************************************)
(* KV-load warps: one copy each, then an arrival on its mbarrier.  When an *)
(* operand is fp8 the two warps meet before they leave.                    *)
(***************************************************************************)
KvIssue(x) ==
    /\ kvld[x] = "issue"
    /\ tma' = tma \cup {[dst |-> x]}
    /\ kvld' = [kvld EXCEPT ![x] = "arrive"]
    /\ UNCHANGED <<pipes, kvbar, named, ld, mma, soft, tcq, smem, tmem, out>>

KvArrive(x) ==
    /\ kvld[x] = "arrive"
    /\ kvbar' = [kvbar EXCEPT ![KvTma(x)] = Arrive(@)]
    /\ IF KFp8 \/ VFp8
       THEN /\ named' = ArriveNamed(named, <<"kv">>, x, {"k", "v"})
            /\ kvld' = [kvld EXCEPT ![x] = "meet"]
       ELSE UNCHANGED named /\ kvld' = [kvld EXCEPT ![x] = "done"]
    /\ UNCHANGED <<pipes, ld, mma, soft, tcq, tma, smem, tmem, out>>

KvMeet(x) ==
    /\ kvld[x] = "meet" /\ Released(<<"kv">>, x)
    /\ kvld' = [kvld EXCEPT ![x] = "done"]
    /\ UNCHANGED <<pipes, kvbar, named, ld, mma, soft, tcq, tma, smem, tmem, out>>

\* The TMA engine: a copy lands, whichever it is, and its bytes are counted.
TmaComplete(t) ==
    /\ t \in tma /\ tma' = tma \ {t}
    /\ IF t.dst = "q"
       THEN /\ smem' = [smem EXCEPT !.q[t.slot][t.part] = t.g]
            /\ pipes' = [pipes EXCEPT !["q"][t.slot].full = CompleteTx(@, 1)]
            /\ UNCHANGED kvbar
       ELSE /\ smem' = IF KvTma(t.dst) = <<t.dst, "tma">>
                       THEN [smem EXCEPT !.raw = @ \cup {t.dst}]
                       ELSE [smem EXCEPT !.kv = @ \cup {<<t.dst, 0>>}]
            /\ kvbar' = [kvbar EXCEPT ![KvTma(t.dst)] = CompleteTx(@, 1)]
            /\ UNCHANGED pipes
    /\ UNCHANGED <<named, ld, kvld, mma, soft, tcq, tmem, out>>

-----------------------------------------------------------------------------
(***************************************************************************)
(* The MMA warp: _wg_mma_issue.  It issues                                 *)
(*   QK0 QK1 PV0 QK2 PV1 QK3 ... PV(N-2) PV(N-1)                           *)
(* and each PV in two halves, the second after the last split of P.        *)
(***************************************************************************)
Op(kind, g) == [op |-> kind, g |-> g]
Commit(p, side, g) == [op |-> "commit", pipe |-> p, side |-> side, slot |-> SlotOf(g)]

MmaAt(pc, g) == mma' = [pc |-> pc, g |-> g]

\* tmem.allocate, wait_for_alloc
MmaAlloc ==
    /\ mma.pc = "alloc"
    /\ named' = ArriveNamed(named, <<"tmem">>, <<"mma">>, Everyone)
    /\ MmaAt(IF NumGroups > 0 THEN "qk" ELSE "fin", 0)
    /\ UNCHANGED <<pipes, kvbar, ld, kvld, soft, tcq, tma, smem, tmem, out>>

\* The waits before the first QK and before the first PV.
KReady == Released(<<"tmem">>, <<"mma">>) /\ Passed(kvbar[<<"k", "ready">>], 0)
VReady == Passed(kvbar[<<"v", "ready">>], 0)

\* The prologue issues two QK; later QK(g) is followed by PV(g-1).
AfterQK(g) ==
    CASE g = 0 /\ NumGroups > 1 -> MmaAt("qk", 1)
      [] g < 2 /\ ~(g = 0 /\ NumGroups > 1) -> MmaAt("pv", 0)
      [] g >= 2 -> MmaAt("pv", g - 1)

\* Mutant: S is overwritten without waiting for the softmax warps' release.
MmaQKNoAcquire ==
    /\ mma.pc = "qk"
    /\ KReady /\ FullPassed("q", mma.g)
    /\ tcq' = tcq \o <<Op("qk", mma.g), Commit("s", "full", mma.g), Commit("q", "empty", mma.g)>>
    /\ AfterQK(mma.g)
    /\ UNCHANGED <<pipes, kvbar, named, ld, kvld, soft, tma, smem, tmem, out>>

MmaQK ==
    /\ mma.pc = "qk"
    /\ KReady /\ FullPassed("q", mma.g) /\ EmptyPassed("s", mma.g)
    /\ tcq' = tcq \o <<Op("qk", mma.g), Commit("s", "full", mma.g), Commit("q", "empty", mma.g)>>
    /\ AfterQK(mma.g)
    /\ UNCHANGED <<pipes, kvbar, named, ld, kvld, soft, tma, smem, tmem, out>>

MmaPV ==
    /\ mma.pc = "pv"
    /\ VReady /\ FullPassed("p", mma.g) /\ EmptyPassed("o", mma.g)
    /\ tcq' = Append(tcq, Op("pva", mma.g))
    /\ MmaAt("pvLast", mma.g)
    /\ UNCHANGED <<pipes, kvbar, named, ld, kvld, soft, tma, smem, tmem, out>>

\* PV(g) is followed by QK(g+2), then by the drain.
AfterPV(g) ==
    CASE g + 2 < NumGroups -> MmaAt("qk", g + 2)
      [] g + 2 = NumGroups -> MmaAt("pv", g + 1)
      [] g + 2 > NumGroups -> MmaAt("fin", g)

\* Mutant: the last part of P is not waited for.
MmaPVLastNoWait ==
    /\ mma.pc = "pvLast"
    /\ tcq' = tcq \o <<Op("pvb", mma.g), Commit("o", "full", mma.g),
                       Commit("pl", "empty", mma.g), Commit("p", "empty", mma.g)>>
    /\ AfterPV(mma.g)
    /\ UNCHANGED <<pipes, kvbar, named, ld, kvld, soft, tma, smem, tmem, out>>

\* The wait on p_lastsplit inside gemm_ptx_partial.
MmaPVLast ==
    /\ mma.pc = "pvLast"
    /\ FullPassed("pl", mma.g)
    /\ tcq' = tcq \o <<Op("pvb", mma.g), Commit("o", "full", mma.g),
                       Commit("pl", "empty", mma.g), Commit("p", "empty", mma.g)>>
    /\ AfterPV(mma.g)
    /\ UNCHANGED <<pipes, kvbar, named, ld, kvld, soft, tma, smem, tmem, out>>

\* Mutant: the MMA warp arrives, and frees without waiting for the others.
MmaFinishNoWait ==
    /\ mma.pc = "fin" /\ Released(<<"tmem">>, <<"mma">>)
    /\ named' = ArriveNamed(named, <<"tmem">>, <<"mma">>, Everyone)
    /\ MmaAt("done", mma.g)
    /\ UNCHANGED <<pipes, kvbar, ld, kvld, soft, tcq, tma, smem, tmem, out>>

\* relinquish_alloc_permit, tmem_alloc_barrier.arrive_and_wait, free.
MmaFinish ==
    /\ mma.pc = "fin" /\ Released(<<"tmem">>, <<"mma">>)
    /\ named' = ArriveNamed(named, <<"tmem">>, <<"mma">>, Everyone)
    /\ MmaAt("free", mma.g)
    /\ UNCHANGED <<pipes, kvbar, ld, kvld, soft, tcq, tma, smem, tmem, out>>

MmaFree ==
    /\ mma.pc = "free" /\ Released(<<"tmem">>, <<"mma">>)
    /\ MmaAt("done", mma.g)
    /\ UNCHANGED <<pipes, kvbar, named, ld, kvld, soft, tcq, tma, smem, tmem, out>>

-----------------------------------------------------------------------------
(***************************************************************************)
(* The tensor core executes operations in issue order.  A commit arrives   *)
(* on its mbarrier some time after the operations issued before it.        *)
(***************************************************************************)
DropAt(q, i) == SubSeq(q, 1, i - 1) \o SubSeq(q, i + 1, Len(q))

IsCommit(e) == e.op = "commit"

OpEffect(e) ==
    LET i == SlotOf(e.g) IN
    CASE e.op = "qk" ->
           LET v == IF KvParts("k") \subseteq smem.kv THEN Combine(Range(smem.q[i])) ELSE Bad
           IN [tmem EXCEPT !.s[i]  = [w \in Warp |-> v],
                           !.pa[i] = [w \in Warp |-> Bad],
                           !.pb[i] = [w \in Warp |-> Bad]]
      [] e.op = "pva" ->
           [tmem EXCEPT !.o[i] = [w \in Warp |->
              IF KvParts("v") \subseteq smem.kv THEN tmem.pa[i][w] ELSE Bad]]
      [] e.op = "pvb" ->
           [tmem EXCEPT !.o[i] = [w \in Warp |-> Combine({tmem.o[i][w], tmem.pb[i][w]})]]

TcExecute ==
    \E i \in DOMAIN tcq :
        /\ ~IsCommit(tcq[i]) /\ \A j \in 1 .. (i - 1) : IsCommit(tcq[j])
        /\ tmem' = OpEffect(tcq[i])
        /\ tcq' = DropAt(tcq, i)
        /\ UNCHANGED <<pipes, kvbar, named, ld, kvld, mma, soft, tma, smem, out>>

TcCommit ==
    \E i \in DOMAIN tcq :
        /\ \A j \in 1 .. i : IsCommit(tcq[j])
        /\ pipes' = IF tcq[i].side = "full"
                    THEN [pipes EXCEPT ![tcq[i].pipe][tcq[i].slot].full = Arrive(@)]
                    ELSE [pipes EXCEPT ![tcq[i].pipe][tcq[i].slot].empty = Arrive(@)]
        /\ tcq' = DropAt(tcq, i)
        /\ UNCHANGED <<kvbar, named, ld, kvld, mma, soft, tma, smem, tmem, out>>

-----------------------------------------------------------------------------
(***************************************************************************)
(* Softmax warp w of warpgroup `stage': _wg_softmax, with _softmax_step    *)
(* and _epilogue_step inlined.  Iteration it handles group 2*it + stage.   *)
(***************************************************************************)
G(stage, w) == 2 * soft[stage][w].it + stage

SoftAt(stage, w, pc) == soft' = [soft EXCEPT ![stage][w].pc = pc]

EpiArrive(stage, w) == named' = ArriveNamed(named, Epi(stage), w, Warp)

\* _wg_convert_fp8_kv_to_bf16_smem: every warp dequantises its part ...
SoftConvert(stage, w) ==
    /\ soft[stage][w].pc = "cvt"
    /\ Passed(kvbar[<<Operand(stage), "tma">>], 0)
    /\ smem' = IF Operand(stage) \in smem.raw
               THEN [smem EXCEPT !.kv = @ \cup {<<Operand(stage), w>>}] ELSE smem
    /\ named' = ArriveNamed(named, Cvt(stage), w, Warp)
    /\ SoftAt(stage, w, "cvtDone")
    /\ UNCHANGED <<pipes, kvbar, ld, kvld, mma, tcq, tma, tmem, out>>

\* ... and when all have, warp 0 tells the MMA warp.
SoftConverted(stage, w) ==
    /\ soft[stage][w].pc = "cvtDone" /\ Released(Cvt(stage), w)
    /\ kvbar' = IF w = 0 THEN [kvbar EXCEPT ![<<Operand(stage), "ready">>] = Arrive(@)] ELSE kvbar
    /\ SoftAt(stage, w, "alloc")
    /\ UNCHANGED <<pipes, named, ld, kvld, mma, tcq, tma, smem, tmem, out>>

\* tmem.wait_for_alloc
SoftAlloc(stage, w) ==
    /\ soft[stage][w].pc = "alloc"
    /\ named' = ArriveNamed(named, <<"tmem">>, <<stage, w>>, Everyone)
    /\ SoftAt(stage, w, "waitS")
    /\ UNCHANGED <<pipes, kvbar, ld, kvld, mma, tcq, tma, smem, tmem, out>>

InLoop(stage, w) == soft[stage][w].it < StageGroups(stage)

\* Wait for S, then S to registers; the causal mask also reads the query
\* index of the row.
SoftReadS(stage, w) ==
    /\ soft[stage][w].pc = "waitS" /\ InLoop(stage, w) /\ Released(<<"tmem">>, <<stage, w>>)
    /\ FullPassed("s", G(stage, w))
    /\ soft' = [soft EXCEPT ![stage][w].pc = "acquireP",
                            ![stage][w].val = Combine({tmem.s[stage][w], Indices(G(stage, w))})]
    /\ UNCHANGED <<pipes, kvbar, named, ld, kvld, mma, tcq, tma, smem, tmem, out>>

\* P overlays S, when PV no longer reads it.  Three quarters of it are
\* committed early.
SoftWriteP(stage, w) ==
    /\ soft[stage][w].pc = "acquireP"
    /\ EmptyPassed("pl", G(stage, w)) /\ EmptyPassed("p", G(stage, w))
    /\ tmem' = [tmem EXCEPT !.pa[stage][w] = soft[stage][w].val, !.s[stage][w] = Bad]
    /\ pipes' = [pipes EXCEPT !["p"][stage].full = Arrive(@)]
    /\ SoftAt(stage, w, "writePLast")
    /\ UNCHANGED <<kvbar, named, ld, kvld, mma, tcq, tma, smem, out>>

SoftWritePLast(stage, w) ==
    /\ soft[stage][w].pc = "writePLast"
    /\ tmem' = [tmem EXCEPT !.pb[stage][w] = soft[stage][w].val]
    /\ pipes' = [pipes EXCEPT !["pl"][stage].full = Arrive(@)]
    /\ SoftAt(stage, w, "acquireStats")
    /\ UNCHANGED <<kvbar, named, ld, kvld, mma, tcq, tma, smem, out>>

\* Row sum and row maximum; only now is S released.  The warps meet.
SoftStats(stage, w) ==
    /\ soft[stage][w].pc = "acquireStats"
    /\ EmptyPassed("st", G(stage, w))
    /\ smem' = [smem EXCEPT !.scale[stage][w] = soft[stage][w].val]
    /\ pipes' = [pipes EXCEPT !["s"][stage].empty = Arrive(@)]
    /\ EpiArrive(stage, w)
    /\ SoftAt(stage, w, "waitO")
    /\ UNCHANGED <<kvbar, ld, kvld, mma, tcq, tma, tmem, out>>

\* Wait for O.  The first threads, all of warp 0, decode the query and split indices.
EpiIndex(stage, w) ==
    /\ soft[stage][w].pc = "waitO" /\ Released(Epi(stage), w)
    /\ FullPassed("o", G(stage, w))
    /\ smem' = IF w = 0
               THEN [smem EXCEPT !.qidx[stage] = Indices(G(stage, w))] ELSE smem
    /\ EpiArrive(stage, w)
    /\ SoftAt(stage, w, "store")
    /\ UNCHANGED <<pipes, kvbar, ld, kvld, mma, tcq, tma, tmem, out>>

\* O from tensor memory, normalised by the rows' statistics, to the rows the
\* indices name; then the LSE.
EpiStore(stage, w) ==
    /\ soft[stage][w].pc = "store" /\ Released(Epi(stage), w)
    /\ out' = [out EXCEPT ![G(stage, w)][w] =
                 Combine({tmem.o[stage][w], smem.qidx[stage]} \cup Range(smem.scale[stage]))]
    /\ EpiArrive(stage, w)
    /\ SoftAt(stage, w, "release")
    /\ UNCHANGED <<pipes, kvbar, ld, kvld, mma, tcq, tma, smem, tmem>>

\* Mutant: the epilogue forgets to release the statistics.
EpiReleaseOnlyO(stage, w) ==
    /\ soft[stage][w].pc = "release" /\ Released(Epi(stage), w)
    /\ pipes' = [pipes EXCEPT !["o"][stage].empty = Arrive(@)]
    /\ soft' = [soft EXCEPT ![stage][w] = [it |-> @.it + 1, val |-> None, pc |-> "waitS"]]
    /\ UNCHANGED <<kvbar, named, ld, kvld, mma, tcq, tma, smem, tmem, out>>

EpiRelease(stage, w) ==
    /\ soft[stage][w].pc = "release" /\ Released(Epi(stage), w)
    /\ pipes' = [pipes EXCEPT !["st"][stage].empty = Arrive(@), !["o"][stage].empty = Arrive(@)]
    /\ soft' = [soft EXCEPT ![stage][w] = [it |-> @.it + 1, val |-> None, pc |-> "waitS"]]
    /\ UNCHANGED <<kvbar, named, ld, kvld, mma, tcq, tma, smem, tmem, out>>

\* tmem_alloc_barrier.arrive: the warp does not wait.
SoftLeave(stage, w) ==
    /\ soft[stage][w].pc = "waitS" /\ ~InLoop(stage, w) /\ Released(<<"tmem">>, <<stage, w>>)
    /\ named' = ArriveNamed(named, <<"tmem">>, <<stage, w>>, Everyone)
    /\ SoftAt(stage, w, "done")
    /\ UNCHANGED <<pipes, kvbar, ld, kvld, mma, tcq, tma, smem, tmem, out>>

-----------------------------------------------------------------------------
LoaderStep(w) ==
    \/ LoadAcquire(w) \/ LoadMeta(w) \/ LoadCopy(w) \/ LoadJoin(w) \/ LoadTail(w)

KvStep(x) == KvIssue(x) \/ KvArrive(x) \/ KvMeet(x)

MmaStep ==
    \/ MmaAlloc \/ MmaQK \/ MmaPV \/ MmaPVLast
    \/ MmaFinish \/ MmaFree

SoftStep(stage, w) ==
    \/ SoftConvert(stage, w) \/ SoftConverted(stage, w) \/ SoftAlloc(stage, w)
    \/ SoftReadS(stage, w) \/ SoftWriteP(stage, w) \/ SoftWritePLast(stage, w)
    \/ SoftStats(stage, w)
    \/ EpiIndex(stage, w) \/ EpiStore(stage, w) \/ EpiRelease(stage, w)
    \/ SoftLeave(stage, w)

AllDone ==
    /\ \A w \in Loader : ld[w].pc = "done"
    /\ \A x \in {"k", "v"} : kvld[x] = "done"
    /\ mma.pc = "done"
    /\ \A stage \in Stage, w \in Warp : soft[stage][w].pc = "done"
    /\ tcq = <<>> /\ tma = {}

\* The CTA exits: the only way to stop.
Stop == AllDone /\ UNCHANGED vars

CtaNext ==
    \/ \E w \in Loader : LoaderStep(w)
    \/ \E x \in {"k", "v"} : KvStep(x)
    \/ \E t \in tma : TmaComplete(t)
    \/ MmaStep
    \/ TcExecute
    \/ TcCommit
    \/ \E stage \in Stage, w \in Warp : SoftStep(stage, w)
    \/ Stop

Next == CtaNext /\ UNCHANGED launch

Spec == Init /\ [][Next]_vars

-----------------------------------------------------------------------------
Tile == Group \cup {None, Bad}

\* Whatever was stored for a group was computed from that group's queries,
\* its own S, P, O, statistics and indices, whole: no tile of an earlier or a
\* later group, and none half written, has slipped in anywhere on the way.
OutputsRight ==
    \A g \in Group, w \in Warp : out[g][w] \in {None, g}

-----------------------------------------------------------------------------
(***************************************************************************)
(* What is being accessed.  A tensor operation, a copy or a warp between   *)
(* two synchronisations has a set of regions it reads and one it writes;   *)
(* P lies in the upper half of its S tile.                                 *)
(***************************************************************************)
Rows(name, i) == {<<name, i, w>> : w \in Warp}
STile(i, w) == {<<"sLow", i, w>>, <<"pa", i, w>>, <<"pb", i, w>>}

OpReads(e) ==
    CASE e.op = "qk"  -> {<<"q", SlotOf(e.g), w>> : w \in Loader} \cup Rows("k", 0)
      [] e.op = "pva" -> Rows("pa", SlotOf(e.g)) \cup Rows("v", 0)
      [] e.op = "pvb" -> Rows("pb", SlotOf(e.g)) \cup Rows("v", 0)

OpWrites(e) ==
    IF e.op = "qk" THEN UNION {STile(SlotOf(e.g), w) : w \in Warp} ELSE Rows("o", SlotOf(e.g))

MetaRow(g) == {<<"meta", MetaSlot(g), w>> : w \in MetaWriters}

InFlight == {tcq[i] : i \in {j \in DOMAIN tcq : ~IsCommit(tcq[j])}}

\* The operations of the tensor core run in order: they are one actor.
TensorAccess == [who    |-> <<"tensor">>,
                 reads  |-> UNION {OpReads(e) : e \in InFlight},
                 writes |-> UNION {OpWrites(e) : e \in InFlight}]

TmaAccess(t) ==
    [who    |-> <<"tma", t>>, reads |-> {},
     writes |-> IF t.dst = "q" THEN {<<"q", t.slot, t.part>>}
                ELSE IF KvTma(t.dst) = <<t.dst, "tma">> THEN {<<"raw", t.dst>>}
                ELSE Rows(t.dst, 0)]

LoaderAccess(w) ==
    LET go   == Released(<<"load">>, w)
        g    == ld[w].g
    IN [who    |-> <<"load", w>>,
        reads  |-> IF ld[w].pc = "copy" /\ go
                   THEN IF Gather4 THEN MetaRow(g) ELSE {<<"midx", SlotOf(g)>>} ELSE {},
        writes |-> IF ld[w].pc = "meta" /\ go
                   THEN {x \in MetaRow(g) : x[3] = w}
                          \cup (IF w = 0 /\ ~Gather4 THEN {<<"midx", SlotOf(g)>>} ELSE {})
                   ELSE {}]

\* A warp accesses memory from the moment its wait is over.
SoftAccess(i, w) ==
    LET pc   == soft[i][w].pc
        g    == G(i, w)
        x    == Operand(i)
        meta == MetaRow(g)
        reading == pc = "waitS" /\ InLoop(i, w) /\ Released(<<"tmem">>, <<i, w>>) /\ FullPassed("s", g)
        writing == pc = "acquireP" /\ EmptyPassed("pl", g) /\ EmptyPassed("p", g)
        indexing == pc = "waitO" /\ w = 0 /\ Released(Epi(i), w) /\ FullPassed("o", g)
        storing == pc = "store" /\ Released(Epi(i), w)
        converting == pc = "cvt" /\ Passed(kvbar[<<x, "tma">>], 0)
    IN [who    |-> <<"soft", i, w>>,
        reads  |->
          CASE reading    -> STile(i, w) \cup meta
            [] indexing   -> meta
            [] storing    -> {<<"o", i, w>>, <<"qidx", i>>} \cup Rows("scale", i)
            [] converting -> {<<"raw", x>>}
            [] OTHER      -> {},
        writes |->
          CASE writing    -> {<<"pa", i, w>>}
            [] pc = "writePLast" -> {<<"pb", i, w>>}
            [] pc = "acquireStats" /\ EmptyPassed("st", g) -> {<<"scale", i, w>>}
            [] indexing   -> {<<"qidx", i>>}
            [] converting -> {<<x, 0, w>>}
            [] OTHER      -> {}]

Accesses ==
    {TensorAccess} \cup {TmaAccess(t) : t \in tma}
        \cup {LoaderAccess(w) : w \in Loader}
        \cup {SoftAccess(i, w) : i \in Stage, w \in Warp}

\* Nothing is written while someone else reads or writes it: not the Q slot a
\* QK in flight is reading, not the S tile of warps still in their softmax, not
\* the P a PV in flight is reading, not the O or the statistics being stored.
RaceFree ==
    LET all == Accesses
    IN \A a \in all : a.writes # {} =>
          \A b \in all \ {a} : a.writes \cap (b.reads \cup b.writes) = {}

\* Tensor memory is freed when no operation on it is left in flight and every
\* softmax warp has read its last row.
FreedQuiet ==
    mma.pc = "done" =>
        /\ InFlight = {}
        /\ \A i \in Stage, w \in Warp : soft[i][w].pc = "done"

-----------------------------------------------------------------------------
\* Who waits for which phase: <<pipe, side, group>>.
Waits ==
    {<<"q", "empty", ld[0].g>> : w \in {x \in {0} : ld[x].pc \in {"acquire", "tail"}}}
    \cup (CASE mma.pc = "qk" -> {<<"q", "full", mma.g>>, <<"s", "empty", mma.g>>}
            [] mma.pc = "pv" -> {<<"p", "full", mma.g>>, <<"o", "empty", mma.g>>}
            [] mma.pc = "pvLast" -> {<<"pl", "full", mma.g>>}
            [] OTHER -> {})
    \cup UNION {
         LET g == G(i, w) pc == soft[i][w].pc IN
         CASE pc = "waitS" /\ InLoop(i, w) -> {<<"s", "full", g>>}
           [] pc = "acquireP" -> {<<"p", "empty", g>>, <<"pl", "empty", g>>}
           [] pc = "acquireStats" -> {<<"st", "empty", g>>}
           [] pc = "waitO" -> {<<"o", "full", g>>}
           [] OTHER -> {} : i \in Stage, w \in Warp}

\* A waiter names the phase it waits for by its parity alone.  It is the phase
\* now running or the one just over, for every wait of every role: were a
\* barrier to get two phases ahead, a warp would sleep through its turn.
ParityUnambiguous ==
    \A x \in Waits :
        LET bar == pipes[x[1]][SlotOf(x[3])]
            lap == x[3] \div 2
        IN IF x[2] = "full" THEN bar.full.gen - lap \in {0, 1}
                            ELSE lap - bar.empty.gen \in {0, 1}

(***************************************************************************)
(* Each slot of each pipeline is a channel with room for one tile; n is    *)
(* the number of tiles that pass through it.                               *)
(***************************************************************************)
SlotChannel(n, p, i) == INSTANCE RingChannel WITH
    Stages <- 1, Producers <- {"full"}, Consumers <- {"empty"}, Items <- n,
    sent <- [x \in {"full"} |-> pipes[p][i].full.gen],
    rcvd <- [x \in {"empty"} |-> pipes[p][i].empty.gen]

TileCounts == {(l.groups + 1 - i) \div 2 : l \in Launches, i \in Stage}

\* The roles use every slot as a one-place channel: the producer's phase and
\* the consumers' alternate, group after group, however the warps, the copies
\* and the tensor core interleave.  (The full side of the statistics pipeline
\* is never signalled: the epilogue barrier stands for it.)
SlotsAlternate ==
    /\ \A n \in TileCounts, i \in Stage :
          n = StageGroups(i) => \A p \in Pipe \ {"st"} : SlotChannel(n, p, i)!ChInit
    /\ [][\A i \in Stage, p \in Pipe \ {"st"} :
            \/ UNCHANGED pipes[p][i]
            \/ \E n \in TileCounts :
                  /\ n = StageGroups(i)
                  /\ SlotChannel(n, p, i)!ChNext \/ UNCHANGED SlotChannel(n, p, i)!chVars]_pipes

\* The CTA stores every row of every group, and everyone leaves.
AllStored ==
    <>(AllDone /\ \A g \in Group, w \in Warp : out[g][w] = g)
=============================================================================
