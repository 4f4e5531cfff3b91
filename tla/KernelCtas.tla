----------------------------- MODULE KernelCtas -----------------------------
(***************************************************************************)
(* A CTA of the prefill kernel (SparseFwd) or of the paged decode kernel   *)
(* (DecodeCta).  CTAs share no memory but what they read, and an SM gives  *)
(* each its own barriers, shared and tensor memory, so a behaviour is that *)
(* of one of them, and the other has not been launched.                    *)
(***************************************************************************)
EXTENDS SparseFwd

CONSTANTS DecodeLaunches, MaxCopies    \* DecodeCta's

VARIABLES
    kernel,    \* the kernel of this CTA, "prefill" or "decode"
    dlaunch, warp, mbar, dtcq, dtma, dsmem, dtmem, torn, dout

decodeVars == <<dlaunch, warp, mbar, dtcq, dtma, dsmem, dtmem, torn, dout>>
ctaVars == <<kernel, vars, decodeVars>>

Decode == INSTANCE DecodeCta WITH
    Launches <- DecodeLaunches, launch <- dlaunch, tcq <- dtcq, tma <- dtma,
    smem <- dsmem, tmem <- dtmem, out <- dout

ASSUME DecodeLaunchAssumption == Decode!LaunchAssumption

\* Next to a decode CTA, the prefill variables are those of a CTA at its start;
\* next to a prefill CTA there is no decode launch.
CtasInit ==
    /\ Init
    /\ \/ /\ kernel = "prefill"
          /\ dlaunch = {} /\ warp = {} /\ mbar = {} /\ dtcq = {} /\ dtma = {}
          /\ dsmem = {} /\ dtmem = {} /\ torn = {} /\ dout = {}
       \/ /\ kernel = "decode" /\ Decode!Init
          /\ launch = CHOOSE l \in Launches : TRUE

CtasNext ==
    /\ UNCHANGED kernel
    /\ \/ kernel = "prefill" /\ Next /\ UNCHANGED decodeVars
       \/ kernel = "decode" /\ Decode!Next /\ UNCHANGED vars

CtasSpec == CtasInit /\ [][CtasNext]_ctaVars

\* A CTA whose barriers and operations allow a step takes one: its warps are
\* scheduled, and what it has issued is done.  Which of them goes on is left
\* open, and no step can be taken for ever.
CtasFairSpec == CtasSpec /\ WF_ctaVars(CtasNext)
-----------------------------------------------------------------------------
\* Every group that the prefill CTA was launched for is stored, and the CTA
\* ends.
PrefillEnds == kernel = "prefill" => AllStored

\* Every tile the hardware hands to the decode CTA is stored, and the CTA ends.
DecodeEnds == <>(kernel = "decode" => Decode!TilesStored)

\* What the decode CTA stores is the tiles it was given, in order and whole.
DecodeImplementsAttend == Decode!ImplementsAttend

\* In neither CTA is a phase that a warp awaits two completions away.
ParitiesUnambiguous == ParityUnambiguous /\ (kernel = "decode" => Decode!ParityUnambiguous)

\* "softmax->correction stage-local stats [...] preserving the same
\* first/rescale/final signal sequence" (fwd_decode/atten_fwd.py:660-663).
StatsKept == kernel = "decode" => Decode!StatsKept
=============================================================================
