------------------------------ MODULE JitCache ------------------------------
(***************************************************************************)
(* The JIT cache (jit.py): threads of several processes ask for kernels;   *)
(* one that is not on disk is rendered, compiled and linked by ninja in a  *)
(* directory all processes share.  The locks are threading.Lock objects,   *)
(* so they order the threads of one process and nobody else.  A process    *)
(* may be killed between any two steps, with the commands it started.      *)
(*                                                                         *)
(* A file is "none", "part" (being written, or left so), "bad" (complete,  *)
(* made from input that was not) or "whole".  as and ld replace their      *)
(* output, so a path names what its last writer opened: field by.          *)
(***************************************************************************)
EXTENDS Naturals, FiniteSets

CONSTANTS
    Variants,      \* attention kernels: one lock, all_variants.so may hold them
    Modules,       \* plan, sparse_topk, reduction: a lock and a directory each
    Threads, Processes,
    Nobody,
    Deployments
\* A deployment: the threads that call and their processes (proc), what they
\* ask for (asked), whether warmup_fmha_sm100.py runs before the first call
\* (warm) and the sets of variants it may be asked for (presets), and two
\* bounds: commands that fail, processes killed.

All == "all_variants"    \* warmup_fmha_sm100.py's name for all_variants.so

JitAssumption ==
    /\ Variants \cap Modules = {} /\ All \notin Variants \cup Modules
    /\ Nobody \notin Threads
    /\ \A d \in Deployments :
        /\ DOMAIN d.proc \subseteq Threads
        /\ \A t \in DOMAIN d.proc : d.proc[t] \in Processes
        /\ d.asked \subseteq Variants \cup Modules
        /\ d.warm \in BOOLEAN /\ d.presets \subseteq SUBSET Variants
        /\ d.fails \in Nat /\ d.crashes \in Nat

Artifacts == Variants \cup Modules
Outputs == Modules \cup {All}     \* of the warm-up
States == {"none", "part", "bad", "whole"}
Files == [state : States, by : Threads \cup {Nobody}]

VARIABLES
    use,        \* which of the deployments this is
    src,        \* per artifact: the rendered or copied sources and headers
    ninja,      \* per artifact: build.ninja
    obj, so,    \* per artifact: the object files, the shared library
    allSo,      \* all_variants.so and the variants linked into it
    pc, want,   \* per thread: where it is, the artifact it asked for
    sound,      \* per thread: its command has read only whole input
    owner,      \* per process and lock: the thread that holds it
    loaded,     \* per process: _loaded, and the modules that are not None
    checked,    \* per process: _all_module_checked
    allHas,     \* per process: the variants of _all_module
    warm,       \* the warm-up: phase, outputs still to link
    fails, crashes,
    torn        \* outputs whose link was cut off by a crash

files == <<src, ninja, obj, so, allSo>>
heap == <<owner, loaded, checked, allHas>>
faults == <<fails, crashes, torn>>
vars == <<use, files, pc, want, sound, heap, warm, faults>>

Home == use.proc

(* FMHAVariantManager has one lock for all its variants. *)
LockOf(a) == IF a \in Variants THEN Variants ELSE {a}
Locks == {LockOf(a) : a \in Artifacts}

Absent == [state |-> "none", by |-> Nobody]

Init ==
    /\ use \in Deployments
    /\ src = [a \in Artifacts |-> "none"] /\ ninja = src
    /\ obj = [a \in Artifacts |-> Absent] /\ so = obj
    /\ allSo = [state |-> "none", has |-> {}]
    /\ pc = [t \in Threads |-> "idle"]
    /\ want = [t \in Threads |-> Nobody]
    /\ sound = [t \in Threads |-> TRUE]
    /\ owner = [p \in Processes |-> [l \in Locks |-> Nobody]]
    /\ loaded = [p \in Processes |-> {}]
    /\ checked = [p \in Processes |-> FALSE]
    /\ allHas = [p \in Processes |-> {}]
    /\ warm = [phase |-> IF use.warm THEN "start" ELSE "over", todo |-> {}, linking |-> {}]
    /\ fails = 0 /\ crashes = 0 /\ torn = {}
-----------------------------------------------------------------------------
Goto(t, label) == pc' = [pc EXCEPT ![t] = label]

Unlock(t) == owner' = [owner EXCEPT ![Home[t]][LockOf(want[t])] = Nobody]

(* The with block ends, by a return or by an exception. *)
Leave(t) == Goto(t, "idle") /\ Unlock(t) /\ want' = [want EXCEPT ![t] = Nobody]

(* A call: what is loaded is returned without the lock. *)
Call(t, a) ==
    /\ warm.phase = "over"
    /\ t \in DOMAIN Home /\ a \in use.asked
    /\ pc[t] = "idle"
    /\ a \notin loaded[Home[t]]
    /\ want' = [want EXCEPT ![t] = a]
    /\ Goto(t, "lock")
    /\ UNCHANGED <<files, sound, heap, warm, faults>>

\* Mutant: the table is read and the build started without the lock.
AcquireUnlocked(t) ==
    /\ pc[t] = "lock"
    /\ Goto(t, IF want[t] \in Variants THEN "all" ELSE "exists")
    /\ UNCHANGED <<files, want, sound, heap, warm, faults>>

(* The lock is taken and the table read again. *)
Acquire(t) ==
    LET p == Home[t]
        l == LockOf(want[t]) IN
    /\ pc[t] = "lock"
    /\ owner[p][l] = Nobody
    /\ \/ /\ want[t] \in loaded[p]
          /\ Goto(t, "idle")
          /\ want' = [want EXCEPT ![t] = Nobody]
          /\ UNCHANGED owner
       \/ /\ want[t] \notin loaded[p]
          /\ Goto(t, IF want[t] \in Variants THEN "all" ELSE "exists")
          /\ owner' = [owner EXCEPT ![p][l] = t]
          /\ UNCHANGED want
    /\ UNCHANGED <<files, sound, loaded, checked, allHas, warm, faults>>

(* _ensure_all_module marks the file as checked before it opens it: an     *)
(* exception of load_module reaches one caller, and no other one tries.    *)
EnsureAll(t) ==
    LET p == Home[t] IN
    /\ pc[t] = "all"
    /\ ~ checked[p]
    /\ checked' = [checked EXCEPT ![p] = TRUE]
    /\ \/ allSo.state = "none" /\ UNCHANGED <<pc, want, owner, allHas>>
       \/ /\ allSo.state = "whole"
          /\ allHas' = [allHas EXCEPT ![p] = allSo.has]
          /\ UNCHANGED <<pc, want, owner>>
       \/ allSo.state = "part" /\ Leave(t) /\ UNCHANGED allHas
    /\ UNCHANGED <<files, sound, loaded, warm, faults>>

\* Mutant: a variant's own library is tried before the combined one.
LookUpUncached(t) ==
    /\ pc[t] = "all"
    /\ checked[Home[t]]
    /\ Goto(t, "exists")
    /\ UNCHANGED <<files, want, sound, heap, warm, faults>>

(* getattr on the combined module, else the file of the variant. *)
LookUp(t) ==
    LET p == Home[t] IN
    /\ pc[t] = "all"
    /\ checked[p]
    /\ \/ /\ want[t] \in allHas[p]
          /\ loaded' = [loaded EXCEPT ![p] = @ \cup {want[t]}]
          /\ Leave(t)
       \/ /\ want[t] \notin allHas[p]
          /\ Goto(t, "exists")
          /\ UNCHANGED <<want, owner, loaded>>
    /\ UNCHANGED <<files, sound, checked, allHas, warm, faults>>

\* Mutant: what is on disk is built again.
ExistsNot(t) ==
    /\ pc[t] = "exists"
    /\ Goto(t, "render")
    /\ UNCHANGED <<files, want, sound, heap, warm, faults>>

(* so_path.exists(): a file of that name is taken for a built one. *)
Exists(t) ==
    /\ pc[t] = "exists"
    /\ Goto(t, IF so[want[t]].state = "none" THEN "render" ELSE "load")
    /\ UNCHANGED <<files, want, sound, heap, warm, faults>>

Others(t, label) == {u \in Threads \ {t} : pc[u] = label /\ want[u] = want[t]}

(* write_text and copy2 truncate the file first. *)
RenderBegin(t) ==
    /\ pc[t] = "render"
    /\ src' = [src EXCEPT ![want[t]] = "part"]
    /\ Goto(t, "rendering")
    /\ UNCHANGED <<ninja, obj, so, allSo, want, sound, heap, warm, faults>>

RenderEnd(t) ==
    /\ pc[t] = "rendering"
    /\ src' = [src EXCEPT ![want[t]] = IF Others(t, "rendering") = {} THEN "whole" ELSE "part"]
    /\ Goto(t, "manifest")
    /\ UNCHANGED <<ninja, obj, so, allSo, want, sound, heap, warm, faults>>

ManifestBegin(t) ==
    /\ pc[t] = "manifest"
    /\ ninja' = [ninja EXCEPT ![want[t]] = "part"]
    /\ Goto(t, "manifesting")
    /\ UNCHANGED <<src, obj, so, allSo, want, sound, heap, warm, faults>>

ManifestEnd(t) ==
    /\ pc[t] = "manifesting"
    /\ ninja' = [ninja EXCEPT ![want[t]] = IF Others(t, "manifesting") = {} THEN "whole" ELSE "part"]
    /\ Goto(t, "ninja")
    /\ UNCHANGED <<src, obj, so, allSo, want, sound, heap, warm, faults>>
-----------------------------------------------------------------------------
(* ninja reads build.ninja.  A truncated one is an error, or names nothing *)
(* to do; outputs that are up to date (their times are not modelled) may   *)
(* be left alone; otherwise it compiles.                                   *)
NinjaStart(t) ==
    LET a == want[t] IN
    /\ pc[t] = "ninja"
    /\ \/ /\ ninja[a] = "part"
          /\ Leave(t)
          /\ UNCHANGED <<obj, sound>>
       \/ /\ ninja[a] = "part" \/ {so[a].state, obj[a].state} \subseteq {"bad", "whole"}
          /\ Goto(t, "load")
          /\ UNCHANGED <<obj, want, owner, sound>>
       \/ /\ ninja[a] = "whole"
          /\ obj' = [obj EXCEPT ![a] = [state |-> "part", by |-> t]]
          /\ sound' = [sound EXCEPT ![t] = src[a] = "whole"]
          /\ Goto(t, "compiling")
          /\ UNCHANGED <<want, owner>>
    /\ UNCHANGED <<src, ninja, so, allSo, loaded, checked, allHas, warm, faults>>

Finished(f, t, ok) ==
    IF f.by = t THEN [f EXCEPT !.state = IF ok THEN "whole" ELSE "bad"] ELSE f

CompileEnd(t) ==
    LET ok == sound[t] /\ src[want[t]] = "whole" IN
    /\ pc[t] = "compiling"
    /\ obj' = [obj EXCEPT ![want[t]] = Finished(@, t, ok)]
    /\ Goto(t, "link")
    /\ UNCHANGED <<src, ninja, so, allSo, want, sound, heap, warm, faults>>

(* The library is linked at the path that Exists looks at. *)
LinkBegin(t) ==
    LET a == want[t] IN
    /\ pc[t] = "link"
    /\ sound' = [sound EXCEPT ![t] = obj[a].state = "whole"]
    /\ so' = [so EXCEPT ![a] = [state |-> "part", by |-> t]]
    /\ Goto(t, "linking")
    /\ UNCHANGED <<src, ninja, obj, allSo, want, heap, warm, faults>>

LinkEnd(t) ==
    /\ pc[t] = "linking"
    /\ so' = [so EXCEPT ![want[t]] = Finished(@, t, sound[t])]
    /\ torn' = IF so[want[t]].by = t THEN torn \ {want[t]} ELSE torn
    /\ sound' = [sound EXCEPT ![t] = TRUE]
    /\ Goto(t, "load")
    /\ UNCHANGED <<src, ninja, obj, allSo, want, heap, warm, fails, crashes>>

\* Mutant: the exception leaves the lock taken.
BuildFailsKeepsLock(t) ==
    /\ fails < use.fails
    /\ pc[t] \in {"compiling", "linking"}
    /\ fails' = fails + 1
    /\ Goto(t, "idle")
    /\ want' = [want EXCEPT ![t] = Nobody]
    /\ UNCHANGED <<files, sound, heap, warm, crashes, torn>>

\* Mutant: a failed command leaves what it has written.
BuildFailsKeepsOutput(t) ==
    /\ fails < use.fails
    /\ pc[t] \in {"compiling", "linking"}
    /\ fails' = fails + 1
    /\ sound' = [sound EXCEPT ![t] = TRUE]
    /\ Leave(t)
    /\ UNCHANGED <<files, loaded, checked, allHas, warm, crashes, torn>>

(* A command fails and removes its output; _run_ninja raises. *)
Removed(f, t) == IF f.by = t THEN Absent ELSE f

BuildFails(t) ==
    LET a == want[t] IN
    /\ fails < use.fails
    /\ fails' = fails + 1
    /\ \/ /\ pc[t] = "compiling"
          /\ obj' = [obj EXCEPT ![a] = Removed(@, t)]
          /\ UNCHANGED so
       \/ /\ pc[t] = "linking"
          /\ so' = [so EXCEPT ![a] = Removed(@, t)]
          /\ UNCHANGED obj
    /\ sound' = [sound EXCEPT ![t] = TRUE]
    /\ Leave(t)
    /\ UNCHANGED <<src, ninja, allSo, loaded, checked, allHas, warm, crashes, torn>>

(* load_module and getattr raise unless the file is whole. *)
Load(t) ==
    LET p == Home[t] IN
    /\ pc[t] = "load"
    /\ loaded' = IF so[want[t]].state = "whole"
                 THEN [loaded EXCEPT ![p] = @ \cup {want[t]}] ELSE loaded
    /\ Leave(t)
    /\ UNCHANGED <<files, sound, checked, allHas, warm, faults>>

(* A process and the commands it runs are killed; the disk stays. *)
Crash(p) ==
    LET dead == {t \in DOMAIN Home : Home[t] = p} IN
    /\ crashes < use.crashes
    /\ \E t \in dead : pc[t] # "idle"
    /\ crashes' = crashes + 1
    /\ torn' = torn \cup {a \in Artifacts : so[a].state = "part" /\ so[a].by \in dead}
    /\ pc' = [t \in Threads |-> IF t \in dead THEN "idle" ELSE pc[t]]
    /\ owner' = [owner EXCEPT ![p] = [l \in Locks |-> Nobody]]
    /\ loaded' = [loaded EXCEPT ![p] = {}]
    /\ checked' = [checked EXCEPT ![p] = FALSE]
    /\ allHas' = [allHas EXCEPT ![p] = {}]
    /\ want' = [t \in Threads |-> IF t \in dead THEN Nobody ELSE want[t]]
    /\ sound' = [t \in Threads |-> t \in dead \/ sound[t]]
    /\ UNCHANGED <<files, warm, fails>>
-----------------------------------------------------------------------------
(* The warm-up builds in a directory of its own and links straight to the  *)
(* paths the callers look at: the variants that have no library of their   *)
(* own into all_variants.so, each missing module into its own file.        *)
WarmPlan(preset) ==
    LET missing == {a \in preset \cup Modules : so[a].state = "none"} IN
    /\ warm.phase = "start"
    /\ allSo' = [allSo EXCEPT !.has = missing \cap Variants]
    /\ warm' = [phase |-> "build", linking |-> {},
                todo |-> (missing \cap Modules) \cup
                         (IF missing \cap Variants = {} THEN {} ELSE {All})]
    /\ UNCHANGED <<src, ninja, obj, so, pc, want, sound, heap, faults>>

WarmSet(x, state) ==
    IF x = All
    THEN /\ allSo' = [allSo EXCEPT !.state = state]
         /\ UNCHANGED so
    ELSE /\ so' = [so EXCEPT ![x] = [state |-> state, by |-> Nobody]]
         /\ UNCHANGED allSo

WarmLinkBegin(x) ==
    /\ warm.phase = "build"
    /\ x \in warm.todo
    /\ warm' = [warm EXCEPT !.todo = @ \ {x}, !.linking = @ \cup {x}]
    /\ WarmSet(x, "part")
    /\ UNCHANGED <<src, ninja, obj, pc, want, sound, heap, faults>>

WarmLinkEnd(x) ==
    /\ x \in warm.linking
    /\ warm' = [warm EXCEPT !.linking = @ \ {x}]
    /\ WarmSet(x, "whole")
    /\ UNCHANGED <<src, ninja, obj, pc, want, sound, heap, faults>>

(* Done; or a command failed: ninja lets the others finish, main exits.    *)
WarmOver ==
    /\ warm.phase = "build"
    /\ warm.linking = {}
    /\ IF warm.todo = {} THEN UNCHANGED fails ELSE fails < use.fails /\ fails' = fails + 1
    /\ warm' = [warm EXCEPT !.phase = "over"]
    /\ UNCHANGED <<files, pc, want, sound, heap, crashes, torn>>
-----------------------------------------------------------------------------
Step(t) ==
    \/ Acquire(t) \/ EnsureAll(t) \/ LookUp(t) \/ Exists(t)
    \/ RenderBegin(t) \/ RenderEnd(t) \/ ManifestBegin(t) \/ ManifestEnd(t)
    \/ NinjaStart(t) \/ CompileEnd(t) \/ LinkBegin(t) \/ LinkEnd(t) \/ Load(t)

WarmStep ==
    \/ \E preset \in use.presets : WarmPlan(preset)
    \/ \E x \in Outputs : WarmLinkBegin(x) \/ WarmLinkEnd(x)
    \/ WarmOver

Next ==
    /\ UNCHANGED use
    /\ \/ \E t \in Threads : Step(t) \/ BuildFails(t) \/ \E a \in Artifacts : Call(t, a)
       \/ \E p \in Processes : Crash(p)
       \/ WarmStep

Spec == Init /\ [][Next]_vars
-----------------------------------------------------------------------------
Labels == {"idle", "lock", "all", "exists", "render", "rendering", "manifest",
           "manifesting", "ninja", "compiling", "link", "linking", "load"}

(* Every variable has its type. *)
TypeOK ==
    /\ use \in Deployments
    /\ src \in [Artifacts -> States] /\ ninja \in [Artifacts -> States]
    /\ obj \in [Artifacts -> Files] /\ so \in [Artifacts -> Files]
    /\ allSo \in [state : States, has : SUBSET Variants]
    /\ pc \in [Threads -> Labels] /\ want \in [Threads -> Artifacts \cup {Nobody}]
    /\ sound \in [Threads -> BOOLEAN]
    /\ owner \in [Processes -> [Locks -> Threads \cup {Nobody}]]
    /\ loaded \in [Processes -> SUBSET Artifacts]
    /\ checked \in [Processes -> BOOLEAN]
    /\ allHas \in [Processes -> SUBSET Variants]
    /\ warm \in [phase : {"start", "build", "over"}, todo : SUBSET Outputs, linking : SUBSET Outputs]
    /\ fails \in 0..use.fails /\ crashes \in 0..use.crashes
    /\ torn \subseteq Artifacts

(* A thread about to open a library finds it whole, whatever the other     *)
(* threads and earlier processes did (jit.py:280-285), with one exception: *)
(* a library whose link was cut off by a crash stays on disk, is taken for *)
(* a built one and fails every later call.                                 *)
LoadsWhole ==
    \A t \in Threads : pc[t] = "load" =>
        so[want[t]].state = "whole" \/ want[t] \in torn

(* The same without the exception: what "Safe to call from subprocesses"   *)
(* (jit.py:291) promises of _compile_only to the caller that loads next.   *)
BuiltWhenReturned ==
    \A t \in Threads : pc[t] = "load" => so[want[t]].state = "whole"

(* What the warm-up has linked is never built by a call: that would put    *)
(* several servers back into the race the warm-up is there to prevent.     *)
Warmed == IF allSo.state = "whole" THEN allSo.has ELSE {}

NoBuildOfWarmed ==
    [][\A t \in Threads : pc[t] # "render" /\ pc'[t] = "render" => want[t] \notin Warmed]_vars

-----------------------------------------------------------------------------
(***************************************************************************)
(* The inductive invariant.  It holds of the deployments in which nothing  *)
(* can go wrong between processes: all the threads are of one process, or  *)
(* a warm-up in which no command fails has linked all that is asked for.   *)
(***************************************************************************)
OneProcess(d) == \A t, u \in DOMAIN d.proc : d.proc[t] = d.proc[u]
Filled(d) == d.warm /\ d.fails = 0 /\ \A preset \in d.presets : d.asked \cap Variants \subseteq preset
SafeDeployment(d) == OneProcess(d) \/ Filled(d)

Building == {"render", "rendering", "manifest", "manifesting", "ninja", "compiling", "link", "linking"}
Inside == Labels \ {"idle", "lock"}

\* A lock is held by the thread that is inside it, and by no other.
Locked ==
    /\ \A t \in Threads : pc[t] # "idle" => t \in DOMAIN Home /\ want[t] \in use.asked
    /\ \A t \in Threads : pc[t] \in Inside => owner[Home[t]][LockOf(want[t])] = t
    /\ \A p \in Processes, l \in Locks, t \in Threads :
          owner[p][l] = t => pc[t] \in Inside /\ Home[t] = p /\ LockOf(want[t]) = l

\* Whoever builds has the input of its next command on disk, whole, and no
\* library is there until it links.
HasInput(t) ==
    /\ pc[t] \in Building \ {"linking"} => so[want[t]].state = "none"
    /\ pc[t] \in {"manifest", "manifesting", "ninja", "compiling"} => src[want[t]] = "whole"
    /\ pc[t] = "ninja" => ninja[want[t]] = "whole"
    /\ pc[t] = "compiling" => sound[t] /\ obj[want[t]] = [state |-> "part", by |-> t]
    /\ pc[t] = "link" => obj[want[t]].state = "whole"
    /\ pc[t] = "linking" => sound[t] /\ so[want[t]] = [state |-> "part", by |-> t]

BuildSound == \A t \in Threads : HasInput(t)

\* A library that is not whole is being linked, or was when its linker was killed.
PartKnown ==
    \A a \in Artifacts :
        /\ so[a].state # "bad"
        /\ so[a].state = "part" =>
              \/ a \in torn \cup warm.linking
              \/ \E t \in Threads : pc[t] = "linking" /\ want[t] = a

\* Calls come after the warm-up, which links only what is not there.
WarmFirst ==
    /\ warm.phase # "over" =>
          /\ \A t \in Threads : pc[t] = "idle"
          /\ \A p \in Processes : ~ checked[p]
    /\ warm.phase = "start" =>
          /\ \A a \in Artifacts : so[a].state = "none"
          /\ allSo.state = "none"
    /\ warm.phase = "build" =>
          /\ \A a \in Modules : a \in warm.todo => so[a].state = "none"
          /\ \A a \in Modules : a \in warm.linking => so[a].state = "part"
          /\ All \in warm.todo => allSo.state = "none"
          /\ All \in warm.linking => allSo.state = "part"
    /\ warm.phase # "build" => warm.linking = {}

\* A process that has looked knows what all_variants.so has, and builds none of it.
CombinedKnown ==
    /\ \A p \in Processes : allHas[p] = IF checked[p] THEN Warmed ELSE {}
    /\ \A t \in Threads : pc[t] = "exists" => want[t] \notin Warmed

\* A filled cache has everything that is asked for, and nobody builds.
FilledFirst ==
    Filled(use) =>
        /\ warm.phase # "start" =>
              /\ \A a \in Modules : a \in warm.todo \cup warm.linking \/ so[a].state = "whole"
              /\ \A a \in use.asked \cap Variants :
                    a \in allSo.has /\ (All \in warm.todo \cup warm.linking \/ allSo.state = "whole")
        /\ warm.phase = "over" => warm.todo = {}
        /\ \A t \in Threads : pc[t] \notin Building

JitIInv ==
    /\ TypeOK /\ SafeDeployment(use)
    /\ Locked /\ BuildSound /\ PartKnown /\ WarmFirst /\ CombinedKnown /\ FilledFirst
    /\ LoadsWhole
-----------------------------------------------------------------------------
(* The cache as the abstract store: a library is published when it is      *)
(* whole, alone or in all_variants.so, and opened when it is in the table. *)
Store == INSTANCE ArtifactStore WITH
    published <- {a \in Artifacts : so[a].state = "whole"} \cup Warmed,
    opened <- loaded

JitImplementsStore == Store!StoreSpec

(* Every call ends, by a return or an exception: an exception in a builder *)
(* gives its lock back, and no thread waits for ever (jit.py:261, 354).    *)
(* Where a kill has left a library cut off, callers that try it over and   *)
(* over may keep the lock from another: threading.Lock is not fair.        *)
CallsEnd == \A t \in Threads : pc[t] # "idle" ~> pc[t] = "idle" \/ torn # {}
=============================================================================
