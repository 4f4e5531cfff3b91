# TLA+ models of msa-120

msa-120 computes block-sparse attention on NVIDIA SM100 and SM120 GPUs. What is hard in it is not
the arithmetic but who does what when: the warps of a thread block play different roles, run ahead of
each other and of the tensor core, and only mbarriers and named barriers keep them apart; the
work of a call is laid out beforehand by kernels whose threads race with atomics; and the kernels
themselves come from caches on disk that several processes fill. These models say how each of
these stays right under every interleaving, and where it does not; TLC checks them on small instances, TLAPS proves
the parts that carry the rest for every size.

Contents: [the system](#1-the-system) - [the modules](#2-the-modules) - [the
runs](#3-the-runs) - [fairness](#4-fairness) - [the proofs](#5-the-proofs) -
[findings](#6-where-the-code-disagrees-with-itself) - [what is left out](#7-what-is-not-modelled).
Paths are relative to `src/python/fmha_sm100/` unless they say otherwise.

## 1. The system

There are two ways through the library. The C++ one: `api.py` plans with `plan_kernel`, the FMHA kernel works the plan
off, a reduction combines the splits; its kernels come from the JIT cache. The CuTe one, `cute/interface.py`: for a sparse prefill the reverse
index of the selection is built (and scheduled), then the prefill kernel runs a CTA for every item of the work list;
for paged decode a schedule kernel cuts the requests into splits, the decode kernel attends, a combine kernel adds up. Its
kernels come from the AOT cache.

| Component | State it keeps | Operations | What is hard |
|---|---|---|---|
| Warp pipelines, `cute/src/common/pipeline.py` | two mbarriers a slot; an index and a phase bit in each thread | acquire, commit, wait, release | a phase is named by one bit, so nobody may be two phases away |
| Prefill kernel, `cute/src/sm100/fwd/atten_fwd.py` | Q, K, V, query indices and statistics in shared memory; S, P, O in tensor memory; six pipelines | load Q (TMA or gather4), load K and V, dequantise fp8, QK, softmax, PV, epilogue | seven roles and two engines in a cycle of waits; P overlays S; query indices are read long after they were loaded; tensor memory is freed by one warp while another may still read it |
| Decode kernel, `cute/src/sm100/fwd_decode/atten_fwd.py` | one KV ring for K and V, S and O per stage, nine pipelines, a tile after the other | load, QK, softmax, PV, correction, epilogue, ask for a tile | every role runs into the next tile on its own; tiles have any number of pages, or none; sums lie where the next scores will |
| C++ FMHA kernel, `csrc/include/sm100_fmha_fwd_*`, `fmha_fusion.hpp` | Q, a ring for K and V, two staged output tiles in shared memory; S and O per stage in tensor memory; ten kinds of pipeline barriers | load, QK and PV for two stages in turn, softmax, correction, store, across the tiles of a plan | every warp runs into the next tile on its own; masked and skipped KV tiles must be skipped alike by all; one slot guards two output buffers |
| Planner, adaptive, `csrc/include/plan.cuh` | task arrays and costs per SM, a sub-id counter per tile | greedy, linear fill, eight rebalancing rounds, write | threads move and split tasks at the same time, claim sub ids with an atomic and take claims back |
| Planner, given splits, `direct_greedy` | cost, count and offset per SM, the work list | two passes over the pieces in batches | every thread ranks its SM by costs that others change; pass 2 must repeat pass 1 |
| k2q CSR builder, `cute/src/sm100/build_k2q_csr/` | histograms and cursors, two 16-bit counters a word; row pointers | map rows, histogram, two prefix sums, scatter | counters side by side in a word; the order of atomics; sizes the host derives |
| Prefill scheduler, `cute/src/sm100/prepare_scheduler.py` | work list, its count, a counter per query | reserve and write chunks, number edges | a capacity tested on writing but not on counting; CTAs of different rows number the edges of one query |
| Decode schedule, `cute/src/sm100/fwd_decode/build_decode_schedule/` | split size, prefix sums, work list | choose the pages of a split, scan, scatter | a bisection and three exceptions; a scan between barriers; padding for CUDA graphs |
| JIT cache, `jit.py`, `src/scripts/warmup_fmha_sm100.py` | a directory per variant, loaded modules | render, build with ninja, load, warm up | threads behind a lock, processes behind none, kills, commands that fail |
| AOT cache, `cute/src/common/aot_cache.py` | object files by name and hash | export, rename, load | no lock at all |
| Host API, prefill combine, softmax, top-k, SM120 and serving | section 7 | | |

How they interact: the planner writes `packed_work_range`, `packed_work_info` and
`num_kv_splits_per_row`, and the attention and reduction kernels read them with no check of their own. The CSR and the
work list decide which CTAs of the prefill kernel exist and which queries they gather; split numbers say where each stores its partial
output. The decode schedule does the same for decode. Inside a kernel the roles share memory that only the pipelines
protect. What makes each part right:

* pipelines: an item is read whole, never written while it is read, and comes through;
* kernels: what is stored was computed from its own tiles, all of them, once; nobody touches
  memory another is using; the CTA finishes;
* planners: every KV iteration of every tile is computed once, on one SM, inside that SM's range,
  with sub ids the combine kernel will look for; costs are exact, so the comparison of plans is;
* index and schedules: a row holds its queries once and in order, the edges of a query are numbered 0, 1, ..., a piece of a request is in the list once;
* caches: a file that is opened is complete, and what has been built is not built again.

`PROJECT.json` lists the hazards of the code, at the line where each bites, with the property that
would catch it, and gives for every definition the lines it translates.

## 2. The modules

```
Mbarrier                     the hardware object: arrivals, transaction bytes, phase
  MbarPipeline               pipeline.py          implements  RingChannel
    MbarPipelineProofs
    WarpPipelines            the ring, or a CTA of the C++ FMHA kernel
  FmhaCta                    a CTA of the C++ FMHA kernel
  SparseFwd                  a prefill CTA        slots implement RingChannel
    KernelCtas               a prefill CTA or a decode CTA
  DecodeCta                  a decode CTA         implements  "attend one tile after the other"
FmhaMasks                    fmha_fusion.hpp: trip counts and masks (used by FmhaCta)
Reductions                   sums, least and greatest elements, ranks, quotients
  ReductionLemmas            what they are
  PlanCost                   the planner's cost model
    PlanRebalance            plan_kernel, adaptive
    PlanGreedy               direct_greedy
    PlanKernel               either mode          implements  one of the two
      PlanKernelProofs       of both planners, and of a launch
  DecodeSchedule             build_decode_schedule.cu
    DecodeAttention          schedule, attend, combine
      DecodeAttentionProofs
  KvRows                     rows and chunks, by formula and by definition
    K2qCsr                   build_k2q_csr.cu and its host
      K2qCsrProofs
      SparseIndex            the index, with a schedule made at once or again
        CuteInterface        a sparse or a decode call
          CuteInterfaceProofs  of SparseIndex, and of a call
    PrepareSchedule          prepare_scheduler.py
ArtifactStore                what a cache on disk promises
  JitCache                   jit.py               implements  ArtifactStore
    JitCacheProofs
  AotCache                   aot_cache.py         implements  ArtifactStore
    AotCacheProofs
  KernelCaches               both caches
    HostCalls                a cache, or a call of CuteInterface
```

An indented module extends or instantiates the one above it (`PlanKernel` both planners, `CuteInterface` also `DecodeAttention`, `HostCalls` also `CuteInterface`).
`WarpPipelines`, `KernelCtas`, `PlanKernel`, `KernelCaches`, `CuteInterface` and `HostCalls`
compose by choice: the two parts share no state in the code (a CTA runs one kernel, a launch plans in one mode, a call goes one way, the caches
have different files), so a behaviour moves one part and leaves the other as it was. For `PlanKernel` and `CuteInterface` that is a theorem
(`Launches`, `CallsApart`). `SparseIndex` and
`DecodeAttention` compose in sequence: the later kernels read what the earlier ones wrote.
`MC*` modules only give constants their values.

### Pipelines and CTAs

`Mbarrier` is external to the repository: a phase counter `gen` (the hardware keeps its parity),
the arrivals still expected, and the transaction bytes, counted in copies. `Passed(b, parity)` is
the only thing a wait sees.

`MbarPipeline` is `pipeline.py`. A thread has a `PipelineState`: how many items it has handled, its
slot, its lap; the phase bit is a function of the lap, opposite for the two sides
(`make_pipeline_state`). `ProducerAcquire`, `ProducerCommit`, `ConsumerWait` and `ConsumerRelease` are the
four `_w_index_phase` operations; `WritePart` stands for what a kernel does between acquire and
commit. Every thread of a group arrives, and every producer writes its own part of the item.

`SparseFwd` is one CTA of the prefill kernel. Its variables are the pipelines' mbarriers (`pipes`, `kvbar`), the named
barriers (`named`: the warps waiting now; a barrier that fills up empties), one program counter per
warp and role, what is in flight (`tcq`: tensor operations and commits in issue order; `tma`: copies),
and shared and tensor memory, whose regions hold the number of the group they belong to. A result computed from
tiles of different groups is `Bad`, so a race or a wrong order that matters is visible in `out`. The actions follow
the source between synchronisations:

| Role | Code | Actions |
|---|---|---|
| Q load | `_wg_load_q_tma`, `_wg_load_q_gather4` | `LoadAcquire` `LoadMeta` `LoadCopy` `LoadJoin` `LoadTail` |
| K, V load | `_wg_load_kv`, `_wg_load_kv_maybe_cast` | `KvIssue` `KvArrive` `KvMeet` |
| MMA | `_wg_mma_issue` | `MmaAlloc` `MmaQK` `MmaPV` `MmaPVLast` `MmaFinish` `MmaFree` |
| softmax and epilogue | `_wg_softmax`, `_softmax_step`, `_epilogue_step` | `SoftConvert` `SoftConverted` `SoftAlloc` `SoftReadS` `SoftWriteP` `SoftWritePLast` `SoftStats` `EpiIndex` `EpiStore` `EpiRelease` `SoftLeave` |
| engines | PTX | `TmaComplete` `TcExecute` `TcCommit` |

Tensor operations execute in issue order. A commit may arrive any time after the operations issued
before it, and commits may overtake each other. PV is two operations, `pva` and `pvb`: the code waits for the last part of P in
the middle of the instruction sequence (`gemm_ptx_partial`). P lies over the upper half of S, which `STile` says. The NVFP4 kernel
(`fwd/atten_fwd_nvfp4_kv.py`) has the same roles, pipelines, waits and barriers as the launch of `SparseFwd` in which the softmax warps
dequantise both operands (`Nvfp4`); how a tile is unpacked is its own, and is not modelled.

`DecodeCta` is one CTA of the decode kernel across the tiles it is handed. Its pipelines are kept as the counts of waits each warp has made
(`n`; the code keeps their parity), so that "two phases apart" can be said. Page `j` of a tile is the `j`-th from its end: the
code works from the last page to the first, in pairs, with a dummy page if their number is odd. `Of(t, j)` stands for what was computed from page
`j` of tile `t`, and an O is the sequence of pages added to it; `torn` records that somebody read scores or sums which were not those it waited for.
Tensor memory is allocated before the modelled part begins, the scheduler's answer is there when it is asked for, and an operation ends together
with its commits; the order of what is issued is kept. `DecodeImplementsAttend` says what all this implements: tiles
stored in the order they were handed out, each from its own query and all its pages.

`FmhaCta` is one CTA of the C++ FMHA kernel across its work items. Warps are `load`, `mma`, `epi`, and a model lane for each warp of the softmax and
correction groups; `n` counts how often a warp went through each pipeline, as in `DecodeCta`. The two stages are the upper and lower queries of the tile
(Q-split) or two halves of a macro KV tile (K-split, merged by the correction warps). What a row's accumulator holds is the list of steps added to it,
so that a lost, doubled or foreign KV tile is visible when the tile is staged. `FmhaMasks` computes the trip counts and which steps a softmax warp passes over, masks or
takes whole, for causal tiles, packed heads, planned ranges and chosen blocks; `KeysRight` compares them, element by element, with the mask by its definition.
`AttendsRight` and `ScoresRight` speak of the steps at which a tile is staged and a maximum is written.

### Planners

`PlanRebalance` is `plan_kernel` with `num_kv_splits < 0`. The phases that thread 0 runs, or that all threads run in
lock-step between barriers, are one action per batch or piece. In phase 2 each thread is on its own:
it is paired (`RoundStart`), then moves a task, or claims a sub id and splits (`ClaimSplit`, then `SplitTask` or
`UndoClaim`), or leaves. Pairs are disjoint, so threads meet only at the sub-id counters, and those are
read, claimed and undone in separate steps. `Candidates` allows every set of tasks that reads of the counters
at different moments could have found splittable. A task array is a set; where the code takes the first of equally good tasks, the model takes any.
Float factors of the cost model (1.02, 0.8, 0.99) are integer fractions.

`PlanGreedy` is `direct_greedy`: a thread looks (computes its rank) and gives (takes the piece and adds its
cost) on its own; `NextBatch` is the barrier, and `Following` the three loops. Both passes are the same actions, told apart by `gphase`.

### Index and schedules

`KvRows` has the arithmetic that three kernels repeat (rows by level, chunks, capacities), each beside its definition. `K2qCsr` runs the five
kernels one after the other; inside one, CTAs, warps between two barriers and the threads of a scan go in any order, the lanes of a warp together.
A packed counter is `CursorBits` wide and carries into its neighbour. The increments of a scatter step are a set with an order on it (`LaneOrder`). `CsrRight` compares the result with the index by its definition, a sort.
`PrepareSchedule` makes the list and the split numbers again with atomics, for callers that kept only the index: its places come in any order,
so `SamePlan` compares what matters, the items as a set and the numbers as a numbering.

`DecodeSchedule` is the one CTA that cuts requests into pieces: warps in any order between two barriers, and shared memory that is `-1` where
nothing was written. `ChunkRight` states what the bisection is for, without bisecting. `DecodeAttention` continues with the tiles the
resident CTAs take up in order, and with the rows combine reads: an output row is the list of sets of pages that went into it.

### Caches

`JitCache` keeps a state for every file: none, part (being written, or left so), bad (made from such), whole. `as` and `ld` replace their output,
so a path names what its last writer opened. A deployment says which threads live in which process, whether the warm-up ran, and how
many commands fail and processes are killed. `AotCache` is a smaller protocol without a lock: export to a name with the pid, rename, and compile again if
loading fails. Both implement `ArtifactStore`, an append-only store of which only published entries are opened.

Operators whose comment begins with "Mutant" are deliberate mistakes in the definition that follows them.
`PROJECT.json` names, for every property of every run, the one that must break it.

## 3. The runs

| Run | Instance | Shows |
|---|---|---|
| `pipeline` | ring: 2 slots, 2 producers, 2 consumers, 5 items, fair; FMHA: nine launches of one to three tiles, sub-tiles of 4 rows by 4 keys | ring: items whole, no write under a read, parities unambiguous, `IInv`, refinement of `RingChannel`, every item delivered. FMHA: each tile from its own queries and the keys its mask leaves, once; max scores; parities; freed memory; nobody stuck |
| `fmha_store` | two Q-split tiles in turn | **violation** of `StoredKept` |
| `ctas` | prefill: 3 groups with 2 warps a warpgroup, and with dequantised K and V; decode: 4 pages, 2 tiles, a tile without pages, 2 warps a group | prefill outputs, races, freed memory, parities, slots as one-place channels; decode tiles right and in order, parities; nobody stuck |
| `ctas_end` | 2 Q-load warps, fp8, a CTA with no groups and all its warps; decode tiles with pages, without, masked; fair | every CTA stores everything and ends |
| `plan` | adaptive: 6 SMs, 4 tiles (fill) and 3 rows of 2 heads (rounds), 1 to 200 iterations, 3 splits; given: 3 SMs, 3 rows of 4 heads, 2 splits; fair | `PlanIInv` (with the fill inside its arrays), coverage, sub ids, exact cost, work only goes downhill, the plans of both modes runnable, the kernel ends |
| `host_calls` | JIT: 2 and 3 threads of a process with a failure and a kill; warm-up, then one or two processes. AOT: 3 processes, a failure, 2 kills. Sparse calls: 21 problems with up to 6 queries, 2 heads, 3 sequences. Decode calls: 18 with up to 5 requests | `IInv` (AOT), `JitIInv`, what is opened is whole, nothing warmed is built again, both caches are the store, every JIT call ends; index right, edges numbered, schedules agree, list and chunk right, outputs whole |
| `plan_tasks_overflow` | 4 SMs of 4 places, 8 tiles | **violation** of `TasksFit` |
| `plan_reversed_range` | 1 tile of 29 iterations, 7 splits | **violation** of `RangesOrdered` |
| `jit_cache_two` | 2 processes, empty cache, one variant | **violation** of `BuiltWhenReturned` |
| `k2q_rows` | lengths 3 and 1, blocks of 2, `total_rows` left out | **violation** of `EveryChoiceKept` |
| `decode_graph` | CUDA graphs, grids larger than the pieces | **violation** of `PaddedSlotsMasked` |
| `decode_stats` | 2 tiles in turn | **violation** of `StatsKept` |

Why the bounds are enough:

* *Pipeline.* Going a third time round a two-slot ring is the least in which a parity comes back to its first value
  with something to confuse it with; two threads a side let a barrier be half arrived. The proofs remove the bounds.
* *C++ FMHA.* The launches have each form of a tile after the other: without keys, past its sequence, empty part of a plan, causal with a ragged end, packed heads, chosen
  blocks with places left free, scores without output; both splits and the single softmax warpgroup. Two tiles make every warp run into the next, a third follows one that some warps pass over.
  Four rows by four keys put the causal diagonal, a sequence's end and the boundary between two halves inside a sub-tile. `MaxCopies = 2` lets two copies complete in either order.
* *Prefill.* A group touches slot `g % 2` and the loop has a prologue (first two QK), a steady state (PV(g-2) and QK(g))
  and a drain (last PVs). Three groups go through all of them, and one slot is used twice. Two warps
  let the arrivals of a warpgroup come apart; the code has four, which run the same statements, and
  the CTA without groups has four. The code's index ring has 16 rows (`qidx_meta_stages`): the load may be six groups ahead of the slowest
  epilogue, so 8 is the smallest power of two that holds and 9 groups the fewest that wrap. That launch (`Wrapping` in
  `MCKernelCtas`, half a million states) is more than a run has time for beside the others; it holds when checked by itself, and a ring of 4 rows fails in it. In the run the
  ring does not wrap: there a ring as short as the Q ring's, a mutant, overwrites indices that the epilogue has not stored yet. So the run shows that a ring too short is caught, not that 16 rows are enough.
* *What the mutants taught.* Some waits of the prefill kernel are doubled by others. Without the acquire of S before QK,
  or with O given back by a single warp, no memory is touched wrongly, because QK(g) is issued after PV(g-2), and that after every
  warp's last part of P. Only `SlotsAlternate` and `ParityUnambiguous` notice. What nothing doubles is the wait for the last part of P, the acquire of
  Q, the conversion of every part of an fp8 tile, the depth of the index ring and the last meeting before tensor memory is
  freed, and these are the mutants of the other properties.
* *Decode CTA.* Four pages use both stages twice (a rescale each) and wrap the KV ring of four; two tiles let every role run into the next;
  a tile of one page has the dummy, one without pages skips most signals and must skip the same everywhere. `MaxCopies = 1`
  bounds the TMA copies in flight: copies of a ring complete on mbarriers of their own and their order shows nowhere else.
* *Planner.* The numbers of iterations are chosen on both sides of each threshold: one iteration, just over
  two minimum pieces (9), and long enough that several SMs split the same tile. Three splits make the sub ids
  run out, so `UndoClaim` fires. `MaxRounds` is the code's 8. `MaxTasks` is scaled from 96 to 3 so that
  the fill meets full SMs; `FillAssumption` keeps the proportion under which the fill cannot run out of
  places altogether (its `break` is dead code there: at most 0.8 tiles an SM in at most 64 pieces is 51 of 96 places).
  Tiles of a row share their iterations, as in `enumerate_unsplit_tiles`.
* *Index.* Counters of two bits are full at three entries and carry at four, so six queries that choose the two rows of one word reach the last value a
  unit can hold and no more; the code's 16 bits are reached at 65536, and a unit's queries are fewer. Two warps, three threads of a scan over more rows, an empty sequence and an odd row make
  every boundary of the kernels lie inside an instance.
* *Decode schedule.* Warps of two lanes, so that three requests already need the scan in shared memory; pages of two tokens; the calls are chosen to take each
  branch of the choice (found, balanced, three exceptions, given, disabled) and each rejection.
* *Caches.* Two processes are the least that can disagree, three threads the least in which one waits for a lock while another fails.
  A kill can come between any two steps.
* *Deadlock* is checked in every run. The caches may all have been left by their processes, or these killed, so `HostNext` lets them be; a call of the interface has such a step only when it is over.

## 4. Fairness

* `WarpPipelines` (the ring), `PlanKernel`, `KernelCaches` and `HostCalls` (the JIT cache): weak fairness on the step of each thread, never on a single operation. A CTA
  that is resident keeps all its warps, and the hardware scheduler gives each ready warp its turn; a waiting warp polls, so it needs no more
  than that. Threads of a process that is not killed run, and commands end. In `PlanKernel` the block's own steps (what thread 0 or all threads in lock-step do) are one more thread.
* `KernelCtas` (in `ctas_end`): weak fairness on the whole next-state relation, which is less: as long as some warp, copy or tensor operation can go
  on, one does. It is enough because no behaviour of a CTA goes on for ever, and it says that CTAs cannot deadlock however
  unevenly they are scheduled. For the C++ FMHA kernel the same is said without fairness: where nothing is in flight and every warp waits or is done, everything has been stored (`CtaNeverStuck`).

Safety does not depend on any of it.

## 5. The proofs

`MbarPipelineProofs` proves for all `Stages`, `Producers`, `Consumers` and `Items`:

| Theorem | States |
|---|---|
| `Invariance` | `Spec => []IInv` |
| `TypeCorrect` | `Spec => []TypeOK` |
| `WholeItems` | `Spec => []ReadsWholeItem` |
| `NoRace` | `Spec => []NoWriteUnderRead` |
| `OnePhaseApart` | `Spec => []ParityUnambiguous` |
| `Implementation` | `Spec => ImplementsChannel` |

Assumptions: at least one slot; finite, non-empty groups of threads; a natural number of items
(`StagesAssumption`, `GroupsAssumption`, `ItemsAssumption`).

The properties are not inductive: they speak of one agent and one slot, while what protects a slot is
the count of everybody's visits, which nobody stores. `IInv` makes it explicit. `Visits(st, s)` is how often an agent has
finished with slot `s`, from its lap and index alone. `BarriersCount` says each mbarrier is exactly the count of
its group's visits: everyone has made `gen` or `gen + 1` of them, and the arrivals pending are those that have made `gen`.
`Alternation` bounds the visits of one side by the phase of the other side's barrier; `InsidePhase` says that the phase
one has waited for lasts until one arrives; `Ordinal` ties the item number to lap and index, and
`Contents` the buffer to the visits. The lemma about one arrival (`ArriveCounts`: a barrier that counts visits still does after one more) carries
the four actions; the parity read by a wait is resolved to a phase because `Alternation` leaves only two candidates of different parity.
Each of the five actions has its lemma, with a step for each part of `IInv`.

`PlanKernelProofs` proves of the adaptive planner (`PlanRebalance`), for all SMs, shapes, iteration counts, split limits and numbers of rounds:

| Theorem | States |
|---|---|
| `Invariance` | `Spec => []PlanIInv` |
| `Coverage` | `Spec => []EachIterationOnce` |
| `SubIdsDense` | `Spec => []SubIds` |
| `Costing` | `Spec => []CostExact` |
| `Runnable` | `Spec => []PlanRunnable` |
| `Downhill` | `Spec => NeverWorse` |
| `FillWithin` | `Spec => []FillFits` |

Assumptions: `PlanAssumption` (positive sizes, some iteration count), and for `FillFits` the proportion of `FillAssumption`.
Coverage is not inductive: a thread that splits relies on nobody else having the task it holds, and greedy and fill are in the middle of a tile. `Handed(u)` and
`Numbers(u)` say how many iterations and sub ids of a tile have been given out in any phase; then *every task lies in what was handed out* (`InTile`), *no two share an iteration or an
id* (`Apart`), *nothing handed out is missing* (`AllThere`). `Claimed` gives a claimed id to one thread and says that the shared counter is ahead only by
claims that came too late, which makes `UndoClaim` harmless though other threads claim between the two atomics. `Paired` says what a thread of a round has for itself: its two SMs, which are no other thread's, and a part
small enough that the giver stays the dearer. `Written` ties the plan to the phase that wrote it, `CostExact` is the ledger. `FillFits` justifies that the fill's way out for a tile without
room is not modelled: it runs only with fewer than 0.8 tiles an SM, so all pieces together are fewer than the places of all SMs (`TooFewToFill`). Each action has a lemma (`StepMoveTask`, `StepClaimSplit`, `StepSplitTask`, ...).

It proves of `direct_greedy` (`PlanGreedy`), for all SMs, rows, heads, splits and iteration counts (`GivenAssumption`):

| Theorem | States |
|---|---|
| `GivenInvariance` | `DirectSpec => []GivenIInv` |
| `GivenRuns` | `DirectSpec => []GivenRunnable` |

What makes this planner right is no fact about one state: the second pass must repeat the first, whose counts became the offsets. So the invariant says that *there is a trace* `t`, the SMs' costs and counts at
the start of each batch (`Told`): in pass 1 it ends with the present batch, in pass 2 it is complete and the present costs and counts are found in it. A turn of the trace is `After`, a function of the costs and the batch alone, so
both passes make the same turns. In between, `Accounts` follows each thread through its batch: none reads a cost after another has changed one (`Gate`, the barrier), so its rank is that of the batch's start, and ranks are a
permutation (`Ranks`), so each head goes to one SM. `WorkList` says the filled positions hold the pieces handed out, each once; the sum of the counts before a batch is the number of pieces before it (`PiecesBefore`), which
at the end is the length of the list. `GivenIInv` quantifies over traces, so it is no invariant of a run; with the trace computed it was checked by TLC on three SMs, two rows of four heads and two splits.

It proves of a launch:

| Theorem | States |
|---|---|
| `Launches` | `KernelSpec => (Spec /\ []GivenOff) \/ (DirectSpec /\ []AdaptiveOff)` |
| `EveryPlanRuns` | `KernelSpec => [](PlanRunnable /\ GivenRunnable)` |
| `PlanningRight` | `KernelSpec => [](EachIterationOnce /\ SubIds /\ CostExact) /\ NeverWorse` |

The first is a refinement, and with it what is proved of the two planners holds of `plan_kernel`, which is the specification of the run `plan`.

`DecodeAttentionProofs` proves for all batches and lengths of requests, numbers of warps and of heads, sizes of pages, tiles, grids and GPUs:

| Theorem | States |
|---|---|
| `ScheduleInvariance` | `AttentionSpec => []ScheduleIInv` |
| `WorkListIsRight` | `AttentionSpec => []WorkListRight` |
| `ChunkIsRight` | `AttentionSpec => []ChunkRight` |
| `AttentionInvariance` | `AttentionSpec => []AttentionIInv` |
| `OutputsAreWhole` | `AttentionSpec => []((Built => out.info.padded = WantedWork) => OutputsWhole)` |
| `OutputsWithoutGraphs` | `AttentionSpec => []OutputsWhole`, if no call has `graph` |

They assume `AttentionAssumption`: positive sizes, and lengths below the maximum the caller gives. `ScheduleIInv` says what each warp has written by the step it has come to, and that warps are at most a step apart (`StepApart`). Its core is
`ScannedRight`: after a round at offset *d*, slot *t* holds the pieces of the last *d* requests up to *t* (`Span`), and between the two barriers of a round what a thread has read is the span before that (`ScanRound`, `StepSlotsRead`, `StepSlotsAdd`); with
the barrier left out the read is of a neighbour in either round, which is the mutant of `WorkListRight`. `WorkFits` bounds the list by what the host allotted. `ChosenRight` needs that the bisection, a recursive
function, keeps "below, too many; at the end, not too many" (`SearchRight`, an induction on the length of the range), that larger chunks make no more pieces, and the exceptions of the code one by one. `PlaceOnto` and `PieceRight` say that places of
the list and (request, query tile, split) correspond one to one, by quotients within a request and by least request beyond the place.

`AttentionIInv` adds the call: a tile whose turn has come is held by a CTA, or its rows are made (`TilesReached`), and rows of different tiles are disjoint (`RowsApart`), so what is made stays so (`MadeKept`). When the CTAs have run out every tile is made, combine finds for each
row of the output the rows of all splits of its request (`StepCombine`), and these have its pages once (`PagesWhole`, a telescoping sum). The hypothesis of `OutputsAreWhole` is the boundary of a finding: with CUDA graphs a list may be longer than
its pieces, and what a CTA does for such a place is whatever memory held. Without CUDA graphs `WorkListRight` gives the hypothesis (`OutputsWithoutGraphs`).

`K2qCsrProofs` proves for all batches, selections, block sizes, grids, warps and numbers of scan threads:

| Theorem | States |
|---|---|
| `CsrInvariance` | `CsrSpec => []CsrIInv` |
| `ScheduleIsRight` | `CsrSpec => []ScheduleRight` |
| `IndexIsRight` | `CsrSpec => []CsrRight` |
| `SplitsAreDense` | `CsrSpec => []SplitsDense` |
| `DerivedRowsEnough` | `Cardinality(Blocks(cu)) <= DerivedRows(cu)` for a total that is no multiple of the block |

They assume `CsrAssumption` (positive sizes) and that every problem is a `SafeProblem`: both `cu_seqlens` are prefix sums of as many sequences, `max_seqlen_k` bounds the lengths, a query chooses a block once, there is a row for every block (without it, the
finding of `k2q_rows`; `DerivedRowsEnough` says that this asks nothing of a call without `total_rows` whose total is no multiple of the block), and no warp has as many queries as a packed counter counts. TLC evaluates `SafeProblem` on the inputs of `host_calls` (`InputsAreSafe`); in one of them, `NoneToSpare`, the derived rows are exactly enough.
Every kernel counts what the one before it counted, by another partition of the queries: per warp and row, per row, per thread of the scan, per tile, and again by the cursors of the scatter. `CsrIInv` states each against one function of the input,
`Ahead(h, r, q)`, the queries before `q` that chose row `r`: a tile holds a difference of two values of it (`TileRight`), a row's sum the tiles of the CTAs that have come (`HeadsSummed`, in any order, since a sum over a set of CTAs does not know it), the scan after a
round at offset *d* the rows of *d* threads (`Reach`, as in the decode schedule's scan), PT's tile the row's start plus what is ahead of the warp, and a cursor the entries its warp has passed (`ScatteredTo`). The packed words are a lemma of their own: two
counters below `HalfRange` in one word stay apart while no more is added than fits (`Half`, `Bump`), which is what `SafeProblem`'s last conjunct is for. Then an entry's place is `PlaceOf`, a function of query and slot, injective because `Ahead` grows
with every query of the row; so no order of the warps makes two entries meet, and `EdgesRight` lasts. That the places fill the row is a count (`SameCount`): as many entries as places, each at one. In the same way `RowOf`, by levels, is the rank
of a block in the definition's order (`RowsNumbered`, `Ranks`).

`CuteInterfaceProofs` proves of a sparse call, for the same constants and any number of lanes and threads:

| Theorem | States |
|---|---|
| `IndexInvariance` | `IndexSpec => []IndexIInv` |
| `SamePlanRight` | `IndexSpec => []SamePlan` |

They assume that every problem is a `SafeProblem` and has a head (`q2k # <<>>`): the second schedule reads the first head's row pointers to decode rows.
The two schedules are made by different means: the builder's by a prefix sum over rows, in order; the one of `prepare_scheduler.py` by atomics, in any order. `IndexIInv` carries what the builder left (`CsrIInv`, `Lent`), then
says of the second schedule that the list holds the chunks reserved so far, each once, and as many as are reserved (`FlatRight`), and that the edges of a query that have a number have all the numbers below its count (`NumberedRight`, `DenseSoFar`).
When nothing is left to reserve, the reserved chunks are all (`AllChunksRight`), so both lists have the same members and length, and the capacity is never exceeded. Threads of different chunks never have the same edge (`EdgesApart`), every edge is a thread's (`EdgesAll`), and an
edge is one of its query's, at most `TopK` (`MineRight`), so `counts` ends as the builder's `splitCounts` though the numbers differ. A warp finds its row by bisection over levels: `DecodeRight` says it finds the block with the number that the builder gave it
(`BisectRight`, an induction on the length of the range, as for the decode schedule).

It proves of a call of the interface, the specification of the runs on `MCCuteInterface`:

| Theorem | States |
|---|---|
| `CallsApart` | `CallSpec => IndexSpec /\ AttentionSpec` |
| `CallsAreRight` | `CallSpec => [](CsrRight /\ ScheduleRight /\ SamePlan) /\ [](WorkListRight /\ ChunkRight) /\ []((Built => out.info.padded = WantedWork) => OutputsWhole)` |

so that what is proved of the two components holds of every call.

`ReductionLemmas` holds what these proofs need of the operators: least and greatest elements, `Rank` (`RankRight`, `Places`), the sum `Total` and how it changes with one argument (`TotalRemove`, `TotalAdd`, `TotalUnion`, `Running`), quotients.
`Total` is defined by a recursive function on finite sets, and the library's induction theorems take an operator and cannot be used; instead an induction is the least element of the set of sizes at which
a claim fails (`LeastNat`, `NatSet`, `SubsetInduction`), which is first-order.

`AotCacheProofs` proves for all `Keys`, threads and processes, and any number of failures and crashes:

| Theorem | States |
|---|---|
| `Invariance` | `AotSpec => []IInv` |
| `NeverTorn` | `AotSpec => []PublishedWhole` |
| `Implementation` | `AotSpec => ImplementsStore` |

They assume `OneThreadEach`: a process compiles in one thread. The temporary name ends in the pid, so this is exactly what keeps two
writers from one file, and without it the theorem is false: two threads of a process can export to the same name and rename a file the
other is writing. `ExportOwned`, the heart of `IInv`, ties a temporary file to the one thread that may have it open,
at every label of that thread, and says that what is about to be renamed is whole; `NothingHidden` says nobody writes a file that has its final name, so `PublishedWhole` lasts and a published kernel stays published.
Each action has a step, with the lemmas `FilesKept` (nothing of the files moves) and `OthersKept` (one temporary file does).

`JitCacheProofs` proves for all variants, modules, threads and processes, and any number of commands that fail and processes killed:

| Theorem | States |
|---|---|
| `Invariance` | `Spec => []JitIInv` |
| `LoadsOnlyWhole` | `Spec => []LoadsWhole` |
| `WarmedNotBuilt` | `Spec => NoBuildOfWarmed` |
| `Implementation` | `Spec => JitImplementsStore` |

They assume `Assumed`: the constants are well-formed, and every deployment is one process with its locks, or any processes on a cache that a warm-up without failures has filled (`SafeDeployment`). Other deployments are
the finding of `jit_cache_two`, so no weaker assumption will do. In `JitIInv`, `Locked` makes whoever is inside a call the owner of the artifact's lock; `BuildSound` says a builder's next input is there, whole; `PartKnown` that a library which is not whole
is being linked or was cut off; `WarmFirst`, `CombinedKnown` and `FilledFirst` say what the warm-up leaves behind and what a process that has looked knows of it. The lemma `Exclusive` puts the two kinds of deployment together: nobody else works on what a thread builds, because of
the lock in one process, and because nobody builds on a filled cache.

Model-checked only:

* `SparseFwd`, `DecodeCta` and `FmhaCta`: what one warp relies on there is the history of five or more others. That the slots of `SparseFwd` behave as the
  proved channel is checked (`SlotsAlternate`).
* Liveness (`RingDelivers`, `PrefillEnds`, `DecodeEnds`, `KernelEnds`, `CallsEnd`) and whatever needs `ENABLED`, which are out of the prover's reach.

## 6. Where the code disagrees with itself

* **A reversed range** (`plan.cuh:282`). `direct_greedy` does not clamp the beginning of a split. With 29 iterations and
  `num_kv_splits = 7` the chunk is 5 and split 6 is `[30, 29)`; it also has a negative cost. `api.py:349` asserts
  `tb <= te` for every item of a plan and `tests/integration/test_plan_correctness.py:89` counts `rb >= re` as an
  error. Equal bounds (an empty split) occur in more cases.
* **More tasks than places** (`plan.cuh:511`). The greedy phase calls `add_task` without the test against
  `MAX_TASKS_PER_SM` that the fill makes at line 565. Unequal tiles do it: 112 tiles of 400 iterations and 3984 of one iteration are 4096
  tiles, the number `api.py:638` still plans adaptively, and leave more than 96 tasks on each of the other 36 of 148 SMs. The run shows it at a
  smaller scale (four SMs of four places). In the model `tasks` is a set without a limit, so the other
  properties are about plans that fit.
* **A library half linked** (`jit.py:280`). A variant counts as built when its file exists, and the linker writes to that
  path. One process may open what another is still linking, or what was made from sources a third is rendering. `jit.py:291` calls `_compile_only`
  safe to call from subprocesses. After the warm-up script it cannot happen, as the run `host_calls` shows and `LoadsOnlyWhole` proves.
* **A block without a row** (`sm100/prepare_k2q_csr.py:123`). Without `total_rows`, and if the total length is a multiple of the block, the
  builder allots total / block rows. Lengths 3 and 1 with blocks of 2 need three rows and get two: the third block's queries are dropped.
  With any other total the derived rows are enough for every batch (`DerivedRowsEnough`). `sparse_index_utils.py:369` says the number is derived from the lengths.
* **A list padded with nothing** (`build_decode_schedule.cu:442`). For CUDA graphs the list is as long as the grid, but its tail, the
  valid mask included, is memory nobody wrote. The comment at line 53 says the kernel writes `block_valid_mask=0` there.
* **A tile stored over the last one** (`sm100_fmha_fwd_mainloop_tma_warpspecialized.hpp:2120`). In the Q-split variants the correction warps acquire the epilogue's slot for
  stage 0 only, and the epilogue warp gives it back when the store of stage 1 may still be reading shared memory. The next tile's second half can be written over the last one's. The comment at line 358 chooses the
  pipeline so that nothing is overwritten before the consumer reads it.
* **Sums under scores** (`fwd_decode/atten_fwd.py:1253`). A stage's row sums lie in the first columns of its S until the correction warps read them, which
  they do only after both O are final. What keeps the next QK off them is a wait that only the next PV makes.
  The comment at line 660 says the statistics pipelines keep the signal sequence of the barrier they replaced.

Each is what the source allows; none was reproduced on a device. The last two need a particular timing of warps and of the copy engine, which the models take as possible because no barrier excludes it.

## 7. What is not modelled

* The numbers: scores, masks, running maximum and log-sum-exp, dequantisation. A tile is the identity of what it was computed from.
  In the prefill kernel this hides no control: a CTA has one KV block, so there is no running rescale, and no branch of the roles that
  synchronises depends on a score. In the decode kernel the rescale is an exchange of signals that happens for every page but the first, and is modelled so.
* The grid: CTAs share nothing but read-only inputs and disjoint outputs; programmatic
  dependent launch and the early exit of prefill CTAs with no valid work item are outside `SparseFwd`. The decode kernel's cluster launch control answers at once.
* `PipelineTmaAsync` and `PipelineTmaUmma` with `extra_tx_count`, which these kernels do not call. The full side of the
  prefill kernel's statistics pipeline is created but never signalled; the epilogue's named barrier stands for it.
* Planner: `compute_kv_iters` (its results are inputs; the trip counts of the kernel itself are in `FmhaMasks`); `sort_unsplit_descending`, `phase1_proportional_fill` and the sequential
  `phase2_rebalance`, which nothing calls; overflow of the 8- and 16-bit task fields, out of reach of the host's limits.
* Between the kernels of a sparse call: that the index gets ready is covered by the deadlock check alone.
* Host API (`api.py`) and the launches of `cute/interface.py`: argument checks, allocation and straight-line calls. Workspaces that plans
  share are a hazard in the list without a property: nothing in `src/` runs two plans on two streams.
* C++ FMHA kernel: the numbers of pipeline stages are those of 16-bit elements; FP8, duplicated Q and the log-sum-exp output are left out. `LaunchAssumption` leaves out
  a tile of a launch without planned splits that meets no KV tile although its sequence has keys, and packed heads with fewer keys than queries (`off >= 0`). CUTLASS's pipelines are external and modelled as the mbarriers they wrap.
* Prefill combine and the reduction after a plan with splits: weighted sums over rows which `SamePlan` and `PlanRunnable` say exist.
* Top-k selection and the FP4 indexer: numeric kernels. NVFP4: how tiles and scales are unpacked.
* JIT cache: time stamps, the warm-up's object files, `--clear`, and its comparison of the top-k sources with their copies.
* SM120 kernels and the serving integrations (`src/nvfp4_serving`, patched copies of modules of other projects): ports and glue that call the above.
  CUTLASS and the PTX objects are external, and modelled from how the kernels use them.

Most of the repository's lines are in these last groups and inside the arithmetic of the kernels, so the models cover a small share of the lines: where threads,
warps, kernels or processes wait for one another.
