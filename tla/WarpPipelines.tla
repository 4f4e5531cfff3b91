--------------------------- MODULE WarpPipelines ---------------------------
(***************************************************************************)
(* Warps behind mbarriers in the two halves of the package: the ring of    *)
(* common/pipeline.py that the CuTe kernels are made of (MbarPipeline),    *)
(* and a CTA of the C++ FMHA kernel over CUTLASS's pipelines (FmhaCta).    *)
(* They use the same hardware barrier and share nothing, so a behaviour is *)
(* one of either; the other's variables stay as they were.                 *)
(***************************************************************************)
EXTENDS MbarPipeline

CONSTANTS M, N, Launches, MaxCopies      \* FmhaCta's

VARIABLES
    running,      \* "ring" or "fmha"
    launch, warp, mbar, tcq, tma, stores, smem, tmem, out, scores

fmhaVars == <<launch, warp, mbar, tcq, tma, stores, smem, tmem, out, scores>>
allVars == <<running, vars, fmhaVars>>

Fmha == INSTANCE FmhaCta

ASSUME LaunchesAssumption == Fmha!LaunchAssumption

PipelinesInit ==
    /\ Init
    /\ \/ /\ running = "ring"
          /\ launch = {} /\ warp = {} /\ mbar = {} /\ tcq = <<>> /\ tma = {} /\ stores = {}
          /\ smem = {} /\ tmem = {} /\ out = {} /\ scores = {}
       \/ running = "fmha" /\ Fmha!Init

RingStep(A) == running = "ring" /\ A /\ UNCHANGED <<running, fmhaVars>>
FmhaStep == running = "fmha" /\ Fmha!Next /\ UNCHANGED <<running, vars>>

PipelinesNext == RingStep(Next) \/ FmhaStep

\* Every thread keeps running: the warp scheduler is fair to resident warps.
PipelinesSpec ==
    /\ PipelinesInit /\ [][PipelinesNext]_allVars
    /\ \A p \in Producers : WF_allVars(RingStep(ProducerStep(p)))
    /\ \A c \in Consumers : WF_allVars(RingStep(ConsumerStep(c)))
-----------------------------------------------------------------------------
\* Every producer and every consumer of the ring gets through all the items.
RingDelivers == <>(running = "ring" => Finished)

\* The properties of FmhaCta.  Each tile that is staged for the epilogue warp has
\* its own queries against its own keys, each step once, however far the warps
\* have run ahead.
AttendsRight == [][running = "fmha" => Fmha!AttendStep]_fmhaVars

\* What is stored is what was staged: the pipeline from the correction to the
\* epilogue warps is chosen such that nothing is overwritten "before consumer
\* reads it" (mainloop:361).
StoredKept == running = "fmha" => Fmha!StoredKept

\* Max scores are those of the KV sub-tile they are written for, and all there.
ScoresRight == [][running = "fmha" => Fmha!ScoreStep]_fmhaVars

\* A warp of a CTA is never two phases from a barrier it waits on.
CtaParityUnambiguous == running = "fmha" => Fmha!ParityUnambiguous

\* Tensor memory is freed when nothing uses it any more.
FreedQuiet == running = "fmha" => Fmha!FreedQuiet

\* A CTA never gets stuck, and ends with every tile stored.
CtaNeverStuck == running = "fmha" => Fmha!NeverStuck
=============================================================================
