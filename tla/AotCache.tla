------------------------------ MODULE AotCache ------------------------------
(***************************************************************************)
(* The cache of compiled CuTe kernels (aot_cache.py and the callers in     *)
(* interface.py, combine.py and prepare_scheduler.py).  There is no lock:  *)
(* a process exports a kernel to a temporary file with its pid in the name *)
(* and renames it; whoever cannot load a file compiles the kernel again.   *)
(* An open file is followed through a rename: a file is a record of who    *)
(* is still writing it and whether a dead process left it unfinished.      *)
(***************************************************************************)
EXTENDS Naturals

CONSTANTS
    Keys,          \* kernels: the arguments a kernel is compiled for
    Workers,       \* threads that launch kernels
    ProcOf,        \* the process of a thread
    MaxFails,      \* bound: exports that fail
    MaxCrashes     \* bound: processes killed

ASSUME AotAssumption ==
    /\ ProcOf \in [Workers -> {ProcOf[t] : t \in Workers}]
    /\ MaxFails \in Nat /\ MaxCrashes \in Nat

Pids == {ProcOf[t] : t \in Workers}

VARIABLES
    final,    \* per kernel: the file name_hash.o
    tmp,      \* per process and kernel: the file name_hash.o.tmp.pid
    cache,    \* per process: the kernels in _compile_cache
    held,     \* per process: the kernels in _loaded_modules
    doing,    \* per thread: where it is
    kernel,   \* per thread: the kernel it needs
    failed, killed

aotVars == <<final, tmp, cache, held, doing, kernel, failed, killed>>

File == [state : {"none", "there", "torn"}, writers : SUBSET Workers]
NoFile == [state |-> "none", writers |-> {}]
Opened(f, t) == [state |-> "there", writers |-> f.writers \cup {t}]
Whole(f) == f.state = "there" /\ f.writers = {}

AotInit ==
    /\ final = [k \in Keys |-> NoFile]
    /\ tmp = [p \in Pids |-> [k \in Keys |-> NoFile]]
    /\ cache = [p \in Pids |-> {}] /\ held = cache
    /\ doing = [t \in Workers |-> "idle"]
    /\ kernel \in [Workers -> Keys]
    /\ failed = 0 /\ killed = 0
-----------------------------------------------------------------------------
Turn(t, label) == doing' = [doing EXCEPT ![t] = label]

(* A launch whose kernel is not in _compile_cache. *)
FirstLaunch(t, k) ==
    /\ doing[t] = "idle"
    /\ k \notin cache[ProcOf[t]]
    /\ kernel' = [kernel EXCEPT ![t] = k]
    /\ Turn(t, "isfile")
    /\ UNCHANGED <<final, tmp, cache, held, failed, killed>>

IsFile(t) ==
    /\ doing[t] = "isfile"
    /\ Turn(t, IF final[kernel[t]] # NoFile THEN "load" ELSE "compile")
    /\ UNCHANGED <<final, tmp, cache, held, kernel, failed, killed>>

(* A file that is not whole does not load: the exception is a miss.        *)
TryLoad(t) ==
    LET p == ProcOf[t]
        k == kernel[t] IN
    /\ doing[t] = "load"
    /\ \/ /\ k \in held[p] \/ Whole(final[k])
          /\ held' = [held EXCEPT ![p] = @ \cup {k}]
          /\ cache' = [cache EXCEPT ![p] = @ \cup {k}]
          /\ Turn(t, "idle")
       \/ /\ k \notin held[p] /\ ~ Whole(final[k])
          /\ Turn(t, "compile")
          /\ UNCHANGED <<cache, held>>
    /\ UNCHANGED <<final, tmp, kernel, failed, killed>>

(* The kernel is in the table before it is saved. *)
Compile(t) ==
    /\ doing[t] = "compile"
    /\ cache' = [cache EXCEPT ![ProcOf[t]] = @ \cup {kernel[t]}]
    /\ Turn(t, "export")
    /\ UNCHANGED <<final, tmp, held, kernel, failed, killed>>

\* Mutant: the kernel is exported to its final name.
ExportBeginInPlace(t) ==
    /\ doing[t] = "export"
    /\ final' = [final EXCEPT ![kernel[t]] = Opened(@, t)]
    /\ Turn(t, "exporting")
    /\ UNCHANGED <<tmp, cache, held, kernel, failed, killed>>

(* The temporary file is opened and truncated. *)
ExportBegin(t) ==
    /\ doing[t] = "export"
    /\ tmp' = [tmp EXCEPT ![ProcOf[t]][kernel[t]] = Opened(@, t)]
    /\ Turn(t, "exporting")
    /\ UNCHANGED <<final, cache, held, kernel, failed, killed>>

(* A file without t as a writer: t is through with it. *)
Closed(f, t) == [state |-> f.state, writers |-> f.writers \ {t}]

CloseAll(t) ==
    /\ tmp' = [p \in Pids |-> [k \in Keys |-> Closed(tmp[p][k], t)]]
    /\ final' = [k \in Keys |-> Closed(final[k], t)]

ExportEnd(t) ==
    /\ doing[t] = "exporting"
    /\ CloseAll(t)
    /\ Turn(t, "replace")
    /\ UNCHANGED <<cache, held, kernel, failed, killed>>

(* The files a dead thread was writing stay as they are. *)
Abandoned(f, dead) ==
    [state |-> IF f.writers \cap dead # {} THEN "torn" ELSE f.state, writers |-> f.writers \ dead]

(* The export raises; the temporary file is removed if it is there. *)
ExportFails(t) ==
    /\ doing[t] = "exporting"
    /\ failed < MaxFails
    /\ failed' = failed + 1
    /\ tmp' = [tmp EXCEPT ![ProcOf[t]][kernel[t]] = NoFile]
    /\ final' = [k \in Keys |-> IF t \in final[k].writers
                              THEN Abandoned(final[k], {t}) ELSE final[k]]
    /\ Turn(t, "idle")
    /\ UNCHANGED <<cache, held, kernel, killed>>

(* os.replace; without the temporary file it raises, and is caught. *)
Replace(t) ==
    LET f == tmp[ProcOf[t]][kernel[t]] IN
    /\ doing[t] = "replace"
    /\ \/ /\ f # NoFile
          /\ final' = [final EXCEPT ![kernel[t]] = f]
          /\ tmp' = [tmp EXCEPT ![ProcOf[t]][kernel[t]] = NoFile]
       \/ f = NoFile /\ UNCHANGED <<final, tmp>>
    /\ Turn(t, "idle")
    /\ UNCHANGED <<cache, held, kernel, failed, killed>>

Kill(p) ==
    LET dead == {t \in Workers : ProcOf[t] = p} IN
    /\ killed < MaxCrashes
    /\ killed' = killed + 1
    /\ tmp' = [tmp EXCEPT ![p] = [k \in Keys |-> Abandoned(@[k], dead)]]
    /\ final' = [k \in Keys |-> Abandoned(final[k], dead)]
    /\ doing' = [t \in Workers |-> IF t \in dead THEN "idle" ELSE doing[t]]
    /\ cache' = [cache EXCEPT ![p] = {}]
    /\ held' = [held EXCEPT ![p] = {}]
    /\ UNCHANGED <<kernel, failed>>
-----------------------------------------------------------------------------
AotStep(t) ==
    \/ IsFile(t) \/ TryLoad(t) \/ Compile(t)
    \/ ExportBegin(t) \/ ExportEnd(t) \/ ExportFails(t) \/ Replace(t)

AotNext ==
    \/ \E t \in Workers : AotStep(t) \/ \E k \in Keys : FirstLaunch(t, k)
    \/ \E p \in Pids : Kill(p)

AotSpec == AotInit /\ [][AotNext]_aotVars
-----------------------------------------------------------------------------
AotLabels == {"idle", "isfile", "load", "compile", "export", "exporting", "replace"}

(* Every variable has its type. *)
AotTypeOK ==
    /\ final \in [Keys -> File]
    /\ tmp \in [Pids -> [Keys -> File]]
    /\ cache \in [Pids -> SUBSET Keys]
    /\ held \in [Pids -> SUBSET Keys]
    /\ doing \in [Workers -> AotLabels]
    /\ kernel \in [Workers -> Keys]
    /\ failed \in Nat /\ killed \in Nat

(* A process of one thread: its temporary files are its own. *)
OneThreadEach == \A t, u \in Workers : ProcOf[t] = ProcOf[u] => t = u

(* Only the thread that is exporting a kernel writes its temporary file,   *)
(* and what is about to be renamed is whole.                               *)
ExportOwned ==
    \A t \in Workers, k \in Keys :
        LET f == tmp[ProcOf[t]][k] IN
        /\ f.writers = IF doing[t] = "exporting" /\ kernel[t] = k THEN {t} ELSE {}
        /\ doing[t] = "exporting" /\ kernel[t] = k => f.state = "there"
        /\ doing[t] = "replace" /\ kernel[t] = k => Whole(f)

(* No file is ever visible under its final name that is not whole          *)
(* (aot_cache.py:61-66), although there is no lock and a process may be    *)
(* killed while it writes.                                                 *)
PublishedWhole == \A k \in Keys : final[k] # NoFile => Whole(final[k])

(* Nobody writes a file under its final name: what is renamed is closed. *)
NothingHidden == \A k \in Keys : final[k].writers = {}

(* The inductive invariant. *)
IInv == AotTypeOK /\ ExportOwned /\ PublishedWhole /\ NothingHidden

(* The cache as the abstract store: a published kernel stays published.    *)
AotStore == INSTANCE ArtifactStore WITH
    Artifacts <- Keys,
    Processes <- Pids,
    published <- {k \in Keys : Whole(final[k])},
    opened <- held

ImplementsStore == AotStore!StoreSpec
=============================================================================
