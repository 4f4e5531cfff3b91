----------------------------- MODULE HostCalls -----------------------------
(***************************************************************************)
(* What a process of the host does before the kernels run: it takes them   *)
(* from its caches (KernelCaches), and calls the interface that builds     *)
(* their index or work list on the device (CuteInterface).  The first has  *)
(* files and locks, the second tensors, and nothing of the one is read by  *)
(* the other, so a behaviour is about one of them.                         *)
(***************************************************************************)
EXTENDS KernelCaches, CuteInterface

VARIABLE about      \* "caches" or "call"

cacheVars == <<moving, vars, aotVars>>
hostVars == <<about, cacheVars, callVars>>

HostInit ==
    /\ about \in {"caches", "call"}
    /\ CachesInit /\ CallInit
    /\ about = "caches" => call = "decode" /\ req = (CHOOSE r \in Requests : TRUE) /\ out.info.chunk = 0
    /\ about = "call" =>
          moving = "aot" /\ \A t \in Workers : kernel[t] = CHOOSE k \in Keys : TRUE

\* A process may also leave its caches alone.
HostNext ==
    /\ UNCHANGED about
    /\ \/ about = "caches" /\ (CachesNext \/ UNCHANGED cacheVars) /\ UNCHANGED callVars
       \/ about = "call" /\ CallNext /\ UNCHANGED cacheVars

\* Threads go on while nobody kills them, and commands end.
HostSpec ==
    /\ HostInit /\ [][HostNext]_hostVars
    /\ \A t \in Threads :
          WF_hostVars(moving = "jit" /\ Step(t) /\ UNCHANGED <<about, moving, use, aotVars, callVars>>)
=============================================================================
