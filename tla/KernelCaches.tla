---------------------------- MODULE KernelCaches ----------------------------
(***************************************************************************)
(* The two caches of compiled kernels a process uses: JitCache for the     *)
(* CUDA C++ kernels, AotCache for the CuTe ones.  They share no state, no  *)
(* lock and no file, so a behaviour moves one of them and leaves the other *)
(* as it was: what holds of either holds of a process that uses both.      *)
(***************************************************************************)
EXTENDS JitCache, AotCache

VARIABLE moving    \* the cache this behaviour is about, "jit" or "aot"

ASSUME DeploymentsAssumption == JitAssumption

CachesInit ==
    /\ Init /\ AotInit
    /\ moving \in {"jit", "aot"}
    /\ moving = "aot" => use = CHOOSE d \in Deployments : TRUE

CachesNext ==
    /\ UNCHANGED moving
    /\ \/ moving = "aot" /\ AotNext /\ UNCHANGED vars
       \/ moving = "jit" /\ Next /\ UNCHANGED aotVars

\* Threads go on while nobody kills them, and commands end.
CachesSpec ==
    /\ CachesInit /\ [][CachesNext]_<<moving, vars, aotVars>>
    /\ \A t \in Threads :
          WF_<<moving, vars, aotVars>>(moving = "jit" /\ Step(t) /\ UNCHANGED <<moving, use, aotVars>>)
=============================================================================
