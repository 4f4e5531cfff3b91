--------------------------- MODULE ArtifactStore ---------------------------
(***************************************************************************)
(* What a kernel cache on disk promises the processes that share it: an    *)
(* artifact is published whole, once and for all, and a process opens only *)
(* what has been published.  A process that dies forgets what it opened.   *)
(***************************************************************************)
CONSTANTS Artifacts, Processes

VARIABLES
    published,   \* artifacts that are on disk, complete
    opened       \* per process: the artifacts it has opened from disk

storeVars == <<published, opened>>

StoreInit ==
    /\ published \in SUBSET Artifacts
    /\ opened = [p \in Processes |-> {}]

Publish(some) ==
    /\ published' = published \cup some
    /\ UNCHANGED opened

Open(p, a) ==
    /\ a \in published
    /\ opened' = [opened EXCEPT ![p] = @ \cup {a}]
    /\ UNCHANGED published

Forget(p) ==
    /\ opened' = [opened EXCEPT ![p] = {}]
    /\ UNCHANGED published

StoreNext ==
    \/ \E some \in SUBSET Artifacts : Publish(some)
    \/ \E p \in Processes : Forget(p) \/ \E a \in Artifacts : Open(p, a)

StoreSpec == StoreInit /\ [][StoreNext]_storeVars
=============================================================================
