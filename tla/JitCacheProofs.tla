--------------------------- MODULE JitCacheProofs ---------------------------
(***************************************************************************)
(* The JIT cache is right for any number of threads, variants, modules,    *)
(* failed commands and kills, in the deployments the package is meant for: *)
(* one process behind its locks, or any number of processes on a cache     *)
(* that a warm-up without failures has filled.                             *)
(***************************************************************************)
EXTENDS JitCache, TLAPS

\* What the theorems assume of the constants: JitCache's own assumption, and
\* that every deployment is of one of the two kinds.
Assumed == JitAssumption /\ \A d \in Deployments : SafeDeployment(d)

(* Every artifact has one of the locks. *)
LEMMA LockType == ASSUME NEW a \in Artifacts PROVE LockOf(a) \in Locks
BY DEF Locks

\* What the type invariant says of a thread that is in a call.
LEMMA InCall ==
    ASSUME JitAssumption, JitIInv, NEW t \in Threads, pc[t] # "idle"
    PROVE  /\ t \in DOMAIN Home /\ Home[t] \in Processes
           /\ want[t] \in Artifacts /\ want[t] \in use.asked
           /\ LockOf(want[t]) \in Locks
           /\ warm.phase = "over" /\ warm.linking = {}
           /\ Nobody \notin Threads
<1>1. t \in DOMAIN Home /\ want[t] \in use.asked
  BY DEF JitIInv, Locked
<1>2. Home[t] \in Processes /\ use.asked \subseteq Artifacts
  BY <1>1 DEF JitIInv, TypeOK, JitAssumption, Home, Artifacts
<1>3. warm.phase = "over"
  BY DEF JitIInv, WarmFirst
<1>. QED
  BY <1>1, <1>2, <1>3, LockType DEF JitIInv, WarmFirst, JitAssumption

\* Nobody else works on an artifact while a thread builds it: in one process
\* the lock sees to it, and on a filled cache nobody builds.
LEMMA Exclusive ==
    ASSUME JitAssumption, JitIInv, NEW t \in Threads, NEW u \in Threads,
           pc[t] \in Building, pc[u] \in Inside, want[u] = want[t]
    PROVE  u = t
<1>1. ~ Filled(use)
  BY DEF JitIInv, FilledFirst
<1>2. OneProcess(use)
  BY <1>1 DEF JitIInv, SafeDeployment
<1>3. pc[t] \in Inside /\ pc[t] # "idle" /\ pc[u] # "idle"
  BY DEF Building, Inside, Labels
<1>4. Home[t] = Home[u]
  BY <1>2, <1>3, InCall DEF OneProcess, Home
<1>5. owner[Home[t]][LockOf(want[t])] = t /\ owner[Home[u]][LockOf(want[u])] = u
  BY <1>3 DEF JitIInv, Locked
<1>. QED
  BY <1>4, <1>5

(* The initial state satisfies the invariant. *)
LEMMA Start == ASSUME Assumed, Init PROVE JitIInv
<1>. USE DEF Assumed, Init
<1>1. TypeOK
  BY DEF TypeOK, JitAssumption, Absent, States, Files, Labels
<1>2. SafeDeployment(use)
  OBVIOUS
<1>3. Locked
  BY DEF Locked, Inside, Labels, JitAssumption
<1>4. BuildSound /\ PartKnown /\ WarmFirst
  BY DEF BuildSound, HasInput, PartKnown, WarmFirst, Absent, Building
<1>5. CombinedKnown /\ FilledFirst /\ LoadsWhole
  BY DEF CombinedKnown, Warmed, FilledFirst, Filled, LoadsWhole, Building
<1>. QED
  BY <1>1, <1>2, <1>3, <1>4, <1>5 DEF JitIInv

\* What the end of the with block does: the thread is idle and its lock free.
LEMMA LeaveEffect ==
    ASSUME JitAssumption, JitIInv, NEW t \in Threads, pc[t] # "idle", Leave(t)
    PROVE  /\ pc' \in [Threads -> Labels]
           /\ want' \in [Threads -> Artifacts \cup {Nobody}]
           /\ owner' \in [Processes -> [Locks -> Threads \cup {Nobody}]]
           /\ pc'[t] = "idle"
           /\ \A u \in Threads : u # t => pc'[u] = pc[u] /\ want'[u] = want[u]
           /\ \A p \in Processes, l \in Locks :
                 owner'[p][l] = IF p = Home[t] /\ l = LockOf(want[t]) THEN Nobody ELSE owner[p][l]
<1>1. Home[t] \in Processes /\ LockOf(want[t]) \in Locks
  BY InCall
<1>. QED
  BY <1>1 DEF JitIInv, TypeOK, Leave, Goto, Unlock, Labels

\* What a step of thread t leaves alone: the other threads, the other
\* artifacts, the warm-up; and all files, unless it is building.
LEMMA OneMoves ==
    ASSUME JitAssumption, JitIInv, NEW t \in Threads, Step(t) \/ BuildFails(t)
    PROVE  /\ pc[t] # "idle"
           /\ UNCHANGED <<allSo, warm>>
           /\ \A u \in Threads : u # t =>
                 pc'[u] = pc[u] /\ want'[u] = want[u] /\ sound'[u] = sound[u]
           /\ \A a \in Artifacts : a # want[t] =>
                 /\ src'[a] = src[a] /\ ninja'[a] = ninja[a]
                 /\ obj'[a] = obj[a] /\ so'[a] = so[a]
                 /\ a \in torn => a \in torn'
           /\ pc[t] \in {"lock", "all", "exists", "load"} => UNCHANGED <<files, torn>>
<1>. USE DEF JitIInv, TypeOK, files, heap, faults, Goto, Leave, Unlock
<1>1. CASE Acquire(t)
  BY <1>1 DEF Acquire
<1>2. CASE EnsureAll(t)
  BY <1>2 DEF EnsureAll
<1>3. CASE LookUp(t)
  BY <1>3 DEF LookUp
<1>4. CASE Exists(t)
  BY <1>4 DEF Exists
<1>5. CASE RenderBegin(t) \/ RenderEnd(t)
  BY <1>5 DEF RenderBegin, RenderEnd
<1>6. CASE ManifestBegin(t) \/ ManifestEnd(t)
  BY <1>6 DEF ManifestBegin, ManifestEnd
<1>7. CASE NinjaStart(t)
  BY <1>7 DEF NinjaStart
<1>8. CASE CompileEnd(t)
  BY <1>8 DEF CompileEnd
<1>9. CASE LinkBegin(t)
  BY <1>9 DEF LinkBegin
<1>10. CASE LinkEnd(t)
  BY <1>10 DEF LinkEnd
<1>11. CASE Load(t)
  BY <1>11 DEF Load
<1>12. CASE BuildFails(t)
  BY <1>12 DEF BuildFails
<1>. QED
  BY <1>1, <1>2, <1>3, <1>4, <1>5, <1>6, <1>7, <1>8, <1>9, <1>10, <1>11, <1>12 DEF Step

(* Every step keeps the types: of the files, *)
LEMMA FileTypes ==
    ASSUME JitAssumption, JitIInv, Next
    PROVE  /\ src' \in [Artifacts -> States] /\ ninja' \in [Artifacts -> States]
           /\ obj' \in [Artifacts -> Files] /\ so' \in [Artifacts -> Files]
           /\ allSo' \in [state : States, has : SUBSET Variants]
<1>. DEFINE Goal == /\ src' \in [Artifacts -> States] /\ ninja' \in [Artifacts -> States]
                    /\ obj' \in [Artifacts -> Files] /\ so' \in [Artifacts -> Files]
                    /\ allSo' \in [state : States, has : SUBSET Variants]
<1>1. /\ src \in [Artifacts -> States] /\ ninja \in [Artifacts -> States]
      /\ obj \in [Artifacts -> Files] /\ so \in [Artifacts -> Files]
      /\ allSo \in [state : States, has : SUBSET Variants]
  BY DEF JitIInv, TypeOK
<1>2. ASSUME NEW t \in Threads, NEW a \in Artifacts
      PROVE  /\ [state |-> "part", by |-> t] \in Files /\ Absent \in Files
             /\ \A ok \in BOOLEAN : Finished(obj[a], t, ok) \in Files /\ Finished(so[a], t, ok) \in Files
             /\ Removed(obj[a], t) \in Files /\ Removed(so[a], t) \in Files
  BY <1>1 DEF Files, States, Finished, Removed, Absent
<1>3. ASSUME NEW t \in Threads, Step(t) \/ BuildFails(t)
      PROVE  Goal
  <2>1. CASE Acquire(t) \/ EnsureAll(t) \/ LookUp(t) \/ Exists(t) \/ Load(t)
    BY <2>1, <1>1 DEF Acquire, EnsureAll, LookUp, Exists, Load, files
  <2>2. CASE RenderBegin(t) \/ RenderEnd(t) \/ ManifestBegin(t) \/ ManifestEnd(t)
    BY <2>2, <1>1 DEF RenderBegin, RenderEnd, ManifestBegin, ManifestEnd, States
  <2>3. CASE NinjaStart(t)
    BY <2>3, <1>1, <1>2 DEF NinjaStart
  <2>4. CASE CompileEnd(t)
    BY <2>4, <1>1, <1>2 DEF CompileEnd
  <2>5. CASE LinkBegin(t)
    <3>1. so' \in [Artifacts -> Files]
      BY <2>5, <1>1, <1>2 DEF LinkBegin
    <3>. QED
      BY <2>5, <3>1, <1>1 DEF LinkBegin
  <2>6. CASE LinkEnd(t)
    <3>1. sound[t] \in BOOLEAN
      BY DEF JitIInv, TypeOK
    <3>. QED
      BY <2>6, <3>1, <1>1, <1>2 DEF LinkEnd
  <2>7. CASE BuildFails(t)
    <3>0. want[t] \in Artifacts
      BY <2>7, OneMoves, InCall
    <3>1. Removed(obj[want[t]], t) \in Files /\ Removed(so[want[t]], t) \in Files
      BY <3>0, <1>2
    <3>2. /\ obj' = obj \/ obj' = [obj EXCEPT ![want[t]] = Removed(obj[want[t]], t)]
          /\ so' = so \/ so' = [so EXCEPT ![want[t]] = Removed(so[want[t]], t)]
          /\ UNCHANGED <<src, ninja, allSo>>
      BY <2>7 DEF BuildFails
    <3>. QED
      BY <3>0, <3>1, <3>2, <1>1
  <2>. QED
    BY <1>3, <2>1, <2>2, <2>3, <2>4, <2>5, <2>6, <2>7 DEF Step
<1>4. ASSUME NEW t \in Threads, NEW a \in Artifacts, Call(t, a) PROVE Goal
  BY <1>4, <1>1 DEF Call, files
<1>5. ASSUME NEW p \in Processes, Crash(p) PROVE Goal
  BY <1>5, <1>1 DEF Crash, files
<1>6. ASSUME NEW preset \in use.presets, WarmPlan(preset) PROVE Goal
  BY <1>6, <1>1 DEF WarmPlan
<1>7. ASSUME NEW x \in Outputs, NEW state \in {"part", "whole"}, WarmSet(x, state),
             UNCHANGED <<src, ninja, obj>>
      PROVE  Goal
  <2>1. [state |-> state, by |-> Nobody] \in Files /\ state \in States
    BY DEF Files, States
  <2>. QED
    BY <2>1, <1>7, <1>1 DEF WarmSet, Outputs
<1>8. CASE WarmOver
  BY <1>8, <1>1 DEF WarmOver, files
<1>. QED
  BY <1>3, <1>4, <1>5, <1>6, <1>7, <1>8 DEF Next, WarmStep, WarmLinkBegin, WarmLinkEnd

(* of the threads, *)
LEMMA ThreadTypes ==
    ASSUME JitAssumption, JitIInv, Next
    PROVE  /\ pc' \in [Threads -> Labels] /\ want' \in [Threads -> Artifacts \cup {Nobody}]
           /\ sound' \in [Threads -> BOOLEAN]
<1>. DEFINE Goal == /\ pc' \in [Threads -> Labels]
                    /\ want' \in [Threads -> Artifacts \cup {Nobody}]
                    /\ sound' \in [Threads -> BOOLEAN]
<1>1. /\ pc \in [Threads -> Labels] /\ want \in [Threads -> Artifacts \cup {Nobody}]
      /\ sound \in [Threads -> BOOLEAN]
  BY DEF JitIInv, TypeOK
<1>2. ASSUME NEW t \in Threads, NEW label \in Labels, Goto(t, label) PROVE pc' \in [Threads -> Labels]
  BY <1>1, <1>2 DEF Goto
<1>3. ASSUME NEW t \in Threads, Step(t) \/ BuildFails(t)
      PROVE  Goal
  <2>1. CASE Acquire(t) \/ Exists(t)
    BY <2>1, <1>1 DEF Acquire, Exists, Goto, Labels
  <2>2. CASE EnsureAll(t) \/ LookUp(t) \/ Load(t)
    BY <2>2, <1>1 DEF EnsureAll, LookUp, Load, Leave, Goto, Labels
  <2>3. CASE RenderBegin(t) \/ RenderEnd(t) \/ ManifestBegin(t) \/ ManifestEnd(t)
    BY <2>3, <1>1 DEF RenderBegin, RenderEnd, ManifestBegin, ManifestEnd, Goto, Labels
  <2>4. CASE NinjaStart(t)
    BY <2>4, <1>1 DEF NinjaStart, Leave, Goto, Labels
  <2>5. CASE CompileEnd(t) \/ LinkBegin(t) \/ LinkEnd(t)
    BY <2>5, <1>1 DEF CompileEnd, LinkBegin, LinkEnd, Goto, Labels
  <2>6. CASE BuildFails(t)
    BY <2>6, <1>1 DEF BuildFails, Leave, Goto, Labels
  <2>. QED
    BY <1>3, <2>1, <2>2, <2>3, <2>4, <2>5, <2>6 DEF Step
<1>4. ASSUME NEW t \in Threads, NEW a \in Artifacts, Call(t, a) PROVE Goal
  BY <1>4, <1>1 DEF Call, Goto, Labels
<1>5. ASSUME NEW p \in Processes, Crash(p) PROVE Goal
  BY <1>5, <1>1 DEF Crash, Labels
<1>6. CASE WarmStep
  BY <1>6, <1>1 DEF WarmStep, WarmPlan, WarmLinkBegin, WarmLinkEnd, WarmOver
<1>. QED
  BY <1>3, <1>4, <1>5, <1>6 DEF Next

(* of the locks and of what processes have loaded, *)
LEMMA HeapTypes ==
    ASSUME JitAssumption, JitIInv, Next
    PROVE  /\ owner' \in [Processes -> [Locks -> Threads \cup {Nobody}]]
           /\ loaded' \in [Processes -> SUBSET Artifacts]
           /\ checked' \in [Processes -> BOOLEAN]
           /\ allHas' \in [Processes -> SUBSET Variants]
<1>. DEFINE Goal == /\ owner' \in [Processes -> [Locks -> Threads \cup {Nobody}]]
                    /\ loaded' \in [Processes -> SUBSET Artifacts]
                    /\ checked' \in [Processes -> BOOLEAN]
                    /\ allHas' \in [Processes -> SUBSET Variants]
<1>1. /\ owner \in [Processes -> [Locks -> Threads \cup {Nobody}]]
      /\ loaded \in [Processes -> SUBSET Artifacts]
      /\ checked \in [Processes -> BOOLEAN]
      /\ allHas \in [Processes -> SUBSET Variants]
      /\ allSo.has \in SUBSET Variants
  BY DEF JitIInv, TypeOK
<1>2. ASSUME NEW t \in Threads, Step(t) \/ BuildFails(t)
      PROVE  Goal
  <2>1. Home[t] \in Processes /\ LockOf(want[t]) \in Locks /\ want[t] \in Artifacts
    BY <1>2, OneMoves, InCall
  <2>2. Leave(t) => owner' \in [Processes -> [Locks -> Threads \cup {Nobody}]]
    BY <1>2, OneMoves, LeaveEffect
  <2>3. CASE Acquire(t)
    BY <2>1, <2>3, <1>1 DEF Acquire
  <2>4. CASE EnsureAll(t)
    BY <2>1, <2>2, <2>4, <1>1 DEF EnsureAll
  <2>5. CASE LookUp(t)
    BY <2>1, <2>2, <2>5, <1>1 DEF LookUp
  <2>6. CASE Load(t)
    BY <2>1, <2>2, <2>6, <1>1 DEF Load
  <2>7. CASE NinjaStart(t) \/ BuildFails(t)
    BY <2>2, <2>7, <1>1 DEF NinjaStart, BuildFails, heap
  <2>8. CASE \/ Exists(t) \/ RenderBegin(t) \/ RenderEnd(t) \/ ManifestBegin(t) \/ ManifestEnd(t)
             \/ CompileEnd(t) \/ LinkBegin(t) \/ LinkEnd(t)
    BY <2>8, <1>1 DEF Exists, RenderBegin, RenderEnd, ManifestBegin, ManifestEnd, CompileEnd,
                      LinkBegin, LinkEnd, heap
  <2>. QED
    BY <1>2, <2>3, <2>4, <2>5, <2>6, <2>7, <2>8 DEF Step
<1>3. ASSUME NEW t \in Threads, NEW a \in Artifacts, Call(t, a) PROVE Goal
  BY <1>3, <1>1 DEF Call, heap
<1>4. ASSUME NEW p \in Processes, Crash(p) PROVE Goal
  BY <1>4, <1>1 DEF Crash
<1>5. CASE WarmStep
  BY <1>5, <1>1 DEF WarmStep, WarmPlan, WarmLinkBegin, WarmLinkEnd, WarmOver, heap
<1>. QED
  BY <1>2, <1>3, <1>4, <1>5 DEF Next

(* and of the warm-up and the counters. *)
LEMMA TypeKept ==
    ASSUME JitAssumption, JitIInv, Next
    PROVE  TypeOK'
<1>. DEFINE Goal == /\ warm' \in [phase : {"start", "build", "over"}, todo : SUBSET Outputs,
                                  linking : SUBSET Outputs]
                    /\ fails' \in 0..use.fails /\ crashes' \in 0..use.crashes
                    /\ torn' \subseteq Artifacts
<1>1. /\ warm \in [phase : {"start", "build", "over"}, todo : SUBSET Outputs, linking : SUBSET Outputs]
      /\ fails \in 0..use.fails /\ crashes \in 0..use.crashes /\ torn \subseteq Artifacts
      /\ use.fails \in Nat /\ use.crashes \in Nat /\ use \in Deployments
  BY DEF JitIInv, TypeOK, JitAssumption
<1>2. ASSUME NEW t \in Threads, Step(t) PROVE Goal
  BY <1>2, <1>1 DEF Step, Acquire, EnsureAll, LookUp, Exists, RenderBegin, RenderEnd, ManifestBegin,
     ManifestEnd, NinjaStart, CompileEnd, LinkBegin, LinkEnd, Load, faults
<1>3. ASSUME NEW t \in Threads, BuildFails(t) PROVE Goal
  BY <1>3, <1>1 DEF BuildFails
<1>4. ASSUME NEW t \in Threads, NEW a \in Artifacts, Call(t, a) PROVE Goal
  BY <1>4, <1>1 DEF Call, faults
<1>5. ASSUME NEW p \in Processes, Crash(p) PROVE Goal
  BY <1>5, <1>1 DEF Crash
<1>6. ASSUME NEW preset \in use.presets, WarmPlan(preset) PROVE Goal
  BY <1>6, <1>1 DEF WarmPlan, faults, Outputs
<1>7. ASSUME NEW x \in Outputs, WarmLinkBegin(x) \/ WarmLinkEnd(x) PROVE Goal
  <2>1. UNCHANGED <<fails, crashes, torn>>
    BY <1>7 DEF WarmLinkBegin, WarmLinkEnd, faults
  <2>2. warm' \in [phase : {"start", "build", "over"}, todo : SUBSET Outputs, linking : SUBSET Outputs]
    BY <1>7, <1>1, ZenonT(30) DEF WarmLinkBegin, WarmLinkEnd
  <2>. QED
    BY <2>1, <2>2, <1>1
<1>8. ASSUME WarmOver PROVE Goal
  <2>1. fails' \in 0..use.fails /\ UNCHANGED <<crashes, torn>>
    BY <1>8, <1>1 DEF WarmOver
  <2>2. warm' \in [phase : {"start", "build", "over"}, todo : SUBSET Outputs, linking : SUBSET Outputs]
    BY <1>8, <1>1 DEF WarmOver
  <2>. QED
    BY <2>1, <2>2, <1>1
<1>. HIDE DEF Goal
<1>9. Goal
  BY <1>2, <1>3, <1>4, <1>5, <1>6, <1>7, <1>8 DEF Next, WarmStep
<1>. USE DEF Goal
<1>. QED
  BY <1>1, <1>9, FileTypes, ThreadTypes, HeapTypes DEF Next, TypeOK

\* Seen from the locks a step is one of four: a thread that has the lock goes
\* on or leaves, one that has not takes it or finds its artifact loaded.
LEMMA Shape ==
    ASSUME JitAssumption, JitIInv, NEW t \in Threads, Step(t) \/ BuildFails(t)
    PROVE  \/ pc[t] \in Inside /\ pc'[t] \in Inside /\ UNCHANGED <<want, owner>>
           \/ pc[t] \in Inside /\ Leave(t)
           \/ pc[t] = "lock" /\ pc'[t] = "idle" /\ UNCHANGED owner
           \/ /\ pc[t] = "lock" /\ pc'[t] \in Inside /\ UNCHANGED want
              /\ owner[Home[t]][LockOf(want[t])] = Nobody
              /\ owner' = [owner EXCEPT ![Home[t]][LockOf(want[t])] = t]
<1>1. pc \in [Threads -> Labels]
  BY DEF JitIInv, TypeOK
<1>. USE <1>1 DEF Inside, Labels
<1>2. CASE Acquire(t)
  BY <1>2 DEF Acquire, Goto
<1>3. CASE EnsureAll(t) \/ LookUp(t) \/ Load(t)
  BY <1>3 DEF EnsureAll, LookUp, Load, Goto
<1>4. CASE Exists(t) \/ RenderBegin(t) \/ RenderEnd(t) \/ ManifestBegin(t) \/ ManifestEnd(t)
  BY <1>4 DEF Exists, RenderBegin, RenderEnd, ManifestBegin, ManifestEnd, Goto, heap
<1>5. CASE NinjaStart(t) \/ BuildFails(t)
  BY <1>5 DEF NinjaStart, BuildFails, Goto
<1>6. CASE CompileEnd(t) \/ LinkBegin(t) \/ LinkEnd(t)
  BY <1>6 DEF CompileEnd, LinkBegin, LinkEnd, Goto, heap
<1>. QED
  BY <1>2, <1>3, <1>4, <1>5, <1>6 DEF Step

(* A lock is held by the thread inside it after every step.                *)
LEMMA LockedKept ==
    ASSUME JitAssumption, JitIInv, Next
    PROVE  Locked'
<1>. USE DEF Locked
<1>1. /\ pc \in [Threads -> Labels]
      /\ owner \in [Processes -> [Locks -> Threads \cup {Nobody}]]
      /\ Locked /\ Nobody \notin Threads
      /\ use' = use /\ Home' = Home
      /\ "idle" \notin Inside /\ "lock" \notin Inside
  BY DEF JitIInv, TypeOK, JitAssumption, Next, Home, Inside
<1>2. ASSUME NEW t \in Threads, Step(t) \/ BuildFails(t)
      PROVE  Locked'
  <2>1. /\ pc[t] # "idle" /\ t \in DOMAIN Home /\ want[t] \in use.asked
        /\ Home[t] \in Processes /\ LockOf(want[t]) \in Locks
        /\ \A u \in Threads : u # t => pc'[u] = pc[u] /\ want'[u] = want[u]
    BY <1>2, OneMoves, InCall
  <2>2. CASE pc[t] \in Inside /\ pc'[t] \in Inside /\ UNCHANGED <<want, owner>>
    <3>1. \A u \in Threads : (pc'[u] \in Inside <=> pc[u] \in Inside) /\ (pc'[u] = "idle" <=> pc[u] = "idle")
      BY <1>1, <2>1, <2>2
    <3>. QED
      BY <1>1, <2>2, <3>1
  <2>3. CASE pc[t] \in Inside /\ Leave(t)
    <3>1. /\ pc'[t] = "idle"
          /\ \A p \in Processes, l \in Locks :
                owner'[p][l] = IF p = Home[t] /\ l = LockOf(want[t]) THEN Nobody ELSE owner[p][l]
      BY <2>1, <2>3, LeaveEffect
    <3>2. owner[Home[t]][LockOf(want[t])] = t
      BY <1>1, <2>3
    <3>3. ASSUME NEW u \in Threads, pc'[u] \in Inside
          PROVE  owner'[Home'[u]][LockOf(want'[u])] = u
      <4>1. u # t /\ pc[u] \in Inside /\ pc[u] # "idle"
        BY <1>1, <2>1, <3>1, <3>3
      <4>2. Home[u] \in Processes /\ LockOf(want[u]) \in Locks
        BY <4>1, InCall
      <4>3. owner[Home[u]][LockOf(want[u])] = u
        BY <1>1, <4>1
      <4>. QED
        BY <1>1, <2>1, <3>1, <3>2, <4>1, <4>2, <4>3
    <3>4. ASSUME NEW p \in Processes, NEW l \in Locks, NEW u \in Threads, owner'[p][l] = u
          PROVE  pc'[u] \in Inside /\ Home'[u] = p /\ LockOf(want'[u]) = l
      <4>1. owner[p][l] = u /\ ~ (p = Home[t] /\ l = LockOf(want[t]))
        BY <1>1, <3>1, <3>4
      <4>2. pc[u] \in Inside /\ Home[u] = p /\ LockOf(want[u]) = l
        BY <1>1, <4>1
      <4>. QED
        BY <1>1, <2>1, <4>1, <4>2
    <3>. QED
      BY <1>1, <2>1, <3>1, <3>3, <3>4
  <2>4. CASE pc[t] = "lock" /\ pc'[t] = "idle" /\ UNCHANGED owner
    BY <1>1, <2>1, <2>4
  <2>5. CASE /\ pc[t] = "lock" /\ pc'[t] \in Inside /\ UNCHANGED want
             /\ owner[Home[t]][LockOf(want[t])] = Nobody
             /\ owner' = [owner EXCEPT ![Home[t]][LockOf(want[t])] = t]
    <3>1. \A p \in Processes, l \in Locks :
             owner'[p][l] = IF p = Home[t] /\ l = LockOf(want[t]) THEN t ELSE owner[p][l]
      BY <1>1, <2>1, <2>5
    <3>2. ASSUME NEW u \in Threads, pc'[u] \in Inside
          PROVE  owner'[Home'[u]][LockOf(want'[u])] = u
      <4>1. CASE u = t
        BY <1>1, <2>1, <2>5, <3>1, <4>1
      <4>2. CASE u # t
        <5>1. pc[u] \in Inside /\ pc[u] # "idle"
          BY <1>1, <2>1, <3>2, <4>2
        <5>2. Home[u] \in Processes /\ LockOf(want[u]) \in Locks
          BY <5>1, InCall
        <5>3. owner[Home[u]][LockOf(want[u])] = u
          BY <1>1, <5>1
        <5>. QED
          BY <1>1, <2>1, <2>5, <3>1, <4>2, <5>2, <5>3
      <4>. QED
        BY <4>1, <4>2
    <3>3. ASSUME NEW p \in Processes, NEW l \in Locks, NEW u \in Threads, owner'[p][l] = u
          PROVE  pc'[u] \in Inside /\ Home'[u] = p /\ LockOf(want'[u]) = l
      BY <1>1, <2>1, <2>5, <3>1, <3>3
    <3>. QED
      BY <1>1, <2>1, <2>5, <3>2, <3>3
  <2>. QED
    BY <1>2, <2>2, <2>3, <2>4, <2>5, Shape
<1>3. ASSUME NEW t \in Threads, NEW a \in Artifacts, Call(t, a)
      PROVE  Locked'
  <2>1. want \in [Threads -> Artifacts \cup {Nobody}]
    BY DEF JitIInv, TypeOK
  <2>2. /\ pc[t] = "idle" /\ pc'[t] = "lock" /\ want'[t] = a /\ UNCHANGED owner
        /\ t \in DOMAIN Home /\ a \in use.asked
        /\ \A u \in Threads : u # t => pc'[u] = pc[u] /\ want'[u] = want[u]
    BY <1>1, <1>3, <2>1 DEF Call, Goto, heap
  <2>. QED
    BY <1>1, <2>2
<1>4. ASSUME NEW p \in Processes, Crash(p)
      PROVE  Locked'
  <2>1. /\ \A u \in Threads : u \in DOMAIN Home /\ Home[u] = p => pc'[u] = "idle"
        /\ \A u \in Threads : ~ (u \in DOMAIN Home /\ Home[u] = p) =>
              pc'[u] = pc[u] /\ want'[u] = want[u]
        /\ \A q \in Processes, l \in Locks :
              owner'[q][l] = IF q = p THEN Nobody ELSE owner[q][l]
    BY <1>1, <1>4 DEF Crash
  <2>2. ASSUME NEW u \in Threads, pc[u] \in Inside
        PROVE  u \in DOMAIN Home /\ Home[u] \in Processes /\ LockOf(want[u]) \in Locks
    BY <1>1, <2>2, InCall
  <2>. QED
    BY <1>1, <2>1, <2>2
<1>5. ASSUME WarmStep
      PROVE  Locked'
  <2>1. UNCHANGED <<pc, want, owner>>
    BY <1>5 DEF WarmStep, WarmPlan, WarmLinkBegin, WarmLinkEnd, WarmOver, heap
  <2>. QED
    BY <1>1, <2>1
<1>. QED
  BY <1>2, <1>3, <1>4, <1>5 DEF Next

\* The warm-up moves only while nobody is in a call.
LEMMA WarmAlone ==
    ASSUME JitAssumption, JitIInv, WarmStep
    PROVE  /\ warm.phase # "over" /\ \A t \in Threads : pc[t] = "idle"
           /\ UNCHANGED <<src, ninja, obj, pc, want, sound, heap, crashes, torn>>
<1>1. UNCHANGED <<src, ninja, obj, pc, want, sound, heap, crashes, torn>>
  BY DEF WarmStep, WarmPlan, WarmLinkBegin, WarmLinkEnd, WarmOver, files, faults
<1>2. warm.phase # "over"
  BY DEF JitIInv, WarmFirst, WarmStep, WarmPlan, WarmLinkBegin, WarmLinkEnd, WarmOver
<1>. QED
  BY <1>1, <1>2 DEF JitIInv, WarmFirst

\* What a step of t does to what another thread is building: nothing.
LEMMA OthersBuild ==
    ASSUME JitAssumption, JitIInv, NEW t \in Threads, Step(t) \/ BuildFails(t),
           NEW u \in Threads, u # t, pc[u] \in Building
    PROVE  /\ pc'[u] = pc[u] /\ want'[u] = want[u] /\ sound'[u] = sound[u]
           /\ src'[want[u]] = src[want[u]] /\ ninja'[want[u]] = ninja[want[u]]
           /\ obj'[want[u]] = obj[want[u]] /\ so'[want[u]] = so[want[u]]
<1>1. pc[u] # "idle" /\ want[u] \in Artifacts
  BY InCall DEF Building
<1>2. CASE pc[t] \in Inside
  <2>1. want[u] # want[t]
    BY <1>2, Exclusive
  <2>. QED
    BY <1>1, <2>1, OneMoves
<1>3. CASE pc[t] \notin Inside
  <2>1. pc[t] = "lock"
    BY <1>3, OneMoves DEF JitIInv, TypeOK, Inside, Labels
  <2>. QED
    BY <2>1, OneMoves DEF files
<1>. QED
  BY <1>2, <1>3

(* Every step leaves each builder with whole input.                        *)
LEMMA BuildKept ==
    ASSUME JitAssumption, JitIInv, Next
    PROVE  BuildSound'
<1>1. BuildSound /\ pc \in [Threads -> Labels] /\ sound \in [Threads -> BOOLEAN]
      /\ want \in [Threads -> Artifacts \cup {Nobody}]
  BY DEF JitIInv, TypeOK
<1>2. ASSUME NEW t \in Threads, Step(t) \/ BuildFails(t)
      PROVE  BuildSound'
  <2>1. ASSUME NEW u \in Threads, u # t
        PROVE  HasInput(u)'
    <3>1. CASE pc[u] \in Building
      BY <1>1, <1>2, <2>1, <3>1, OthersBuild DEF BuildSound, HasInput
    <3>2. CASE pc[u] \notin Building
      BY <1>2, <2>1, <3>2, OneMoves DEF HasInput, Building
    <3>. QED
      BY <3>1, <3>2
  <2>2. /\ want[t] \in Artifacts /\ HasInput(t) /\ pc[t] # "idle"
        /\ src \in [Artifacts -> States] /\ ninja \in [Artifacts -> States]
        /\ obj \in [Artifacts -> Files] /\ so \in [Artifacts -> Files]
    BY <1>1, <1>2, OneMoves, InCall DEF BuildSound, JitIInv, TypeOK
  <2>3. Leave(t) => pc'[t] = "idle"
    BY <2>2, LeaveEffect
  <2>4. pc[t] \in Building => \A u \in Threads : pc[u] \in Building /\ want[u] = want[t] => u = t
    BY Exclusive DEF Building, Inside, Labels
  <2>5. HasInput(t)'
    <3>. USE <1>1, <2>2, <2>3 DEF HasInput, Building
    <3>1. CASE Acquire(t)
      BY <3>1 DEF Acquire, Goto
    <3>2. CASE EnsureAll(t) \/ LookUp(t) \/ Load(t)
      BY <3>2 DEF EnsureAll, LookUp, Load, Goto
    <3>3. CASE Exists(t)
      BY <3>3 DEF Exists, Goto, files
    <3>4. CASE RenderBegin(t)
      BY <3>4 DEF RenderBegin, Goto
    <3>5. CASE RenderEnd(t)
      BY <2>4, <3>5 DEF RenderEnd, Others, Goto
    <3>6. CASE ManifestBegin(t)
      BY <3>6 DEF ManifestBegin, Goto
    <3>7. CASE ManifestEnd(t)
      BY <2>4, <3>7 DEF ManifestEnd, Others, Goto
    <3>8. CASE NinjaStart(t)
      BY <3>8 DEF NinjaStart, Goto, Files
    <3>9. CASE CompileEnd(t)
      BY <3>9 DEF CompileEnd, Finished, Goto, Files
    <3>10. CASE LinkBegin(t)
      BY <3>10 DEF LinkBegin, Goto, Files
    <3>11. CASE LinkEnd(t)
      BY <3>11 DEF LinkEnd, Goto
    <3>12. CASE BuildFails(t)
      BY <3>12 DEF BuildFails
    <3>. QED
      BY <1>2, <3>1, <3>2, <3>3, <3>4, <3>5, <3>6, <3>7, <3>8, <3>9, <3>10, <3>11, <3>12 DEF Step
  <2>. QED
    BY <2>1, <2>5 DEF BuildSound
<1>3. ASSUME NEW t \in Threads, NEW a \in Artifacts, Call(t, a)
      PROVE  BuildSound'
  BY <1>1, <1>3, ZenonT(30) DEF Call, Goto, BuildSound, HasInput, Building, files
<1>4. ASSUME NEW p \in Processes, Crash(p)
      PROVE  BuildSound'
  BY <1>1, <1>4 DEF Crash, BuildSound, HasInput, Building, files
<1>5. ASSUME WarmStep
      PROVE  BuildSound'
  BY <1>5, WarmAlone DEF BuildSound, HasInput, Building
<1>. QED
  BY <1>2, <1>3, <1>4, <1>5 DEF Next

(* Every step accounts for the libraries that are not whole.               *)
LEMMA PartKept ==
    ASSUME JitAssumption, JitIInv, Next
    PROVE  PartKnown'
<1>1. /\ PartKnown /\ BuildSound /\ pc \in [Threads -> Labels]
      /\ want \in [Threads -> Artifacts \cup {Nobody}] /\ so \in [Artifacts -> Files]
  BY DEF JitIInv, TypeOK
<1>2. ASSUME NEW t \in Threads, Step(t) \/ BuildFails(t)
      PROVE  PartKnown'
  <2>1. /\ pc[t] # "idle" /\ want[t] \in Artifacts /\ HasInput(t) /\ UNCHANGED warm
        /\ \A u \in Threads : u # t => pc'[u] = pc[u] /\ want'[u] = want[u]
        /\ \A a \in Artifacts : a # want[t] => so'[a] = so[a] /\ (a \in torn => a \in torn')
    BY <1>1, <1>2, OneMoves, InCall DEF BuildSound
  <2>2. ASSUME NEW a \in Artifacts, a # want[t]
        PROVE  /\ so'[a].state # "bad"
               /\ so'[a].state = "part" => \/ a \in torn' \cup warm'.linking
                                          \/ \E u \in Threads : pc'[u] = "linking" /\ want'[u] = a
    BY <1>1, <2>1, <2>2 DEF PartKnown
  <2>3. LET a == want[t]
        IN  /\ so'[a].state # "bad"
            /\ so'[a].state = "part" => \/ a \in torn' \cup warm'.linking
                                       \/ \E u \in Threads : pc'[u] = "linking" /\ want'[u] = a
    <3>1. CASE LinkBegin(t)
      BY <1>1, <2>1, <3>1 DEF LinkBegin, Goto, Files
    <3>2. CASE LinkEnd(t)
      BY <1>1, <2>1, <3>2 DEF LinkEnd, Finished, Files, HasInput
    <3>3. CASE BuildFails(t) /\ pc[t] = "linking"
      BY <1>1, <2>1, <3>3 DEF BuildFails, Removed, Absent, HasInput
    <3>4. CASE pc[t] # "linking" /\ UNCHANGED <<so, torn>>
      BY <1>1, <2>1, <3>4 DEF PartKnown
    <3>. QED
      BY <1>2, <3>1, <3>2, <3>3, <3>4 DEF Step, Acquire, EnsureAll, LookUp, Exists, RenderBegin,
         RenderEnd, ManifestBegin, ManifestEnd, NinjaStart, CompileEnd, LinkEnd, Load, BuildFails,
         files, faults
  <2>. QED
    BY <2>2, <2>3 DEF PartKnown
<1>3. ASSUME NEW t \in Threads, NEW a \in Artifacts, Call(t, a)
      PROVE  PartKnown'
  BY <1>1, <1>3 DEF Call, Goto, PartKnown, files, faults
<1>4. ASSUME NEW p \in Processes, Crash(p)
      PROVE  PartKnown'
  <2>1. SUFFICES ASSUME NEW a \in Artifacts, so[a].state = "part", a \notin torn', a \notin warm.linking
                 PROVE  \E u \in Threads : pc'[u] = "linking" /\ want'[u] = a
    BY <1>1, <1>4 DEF Crash, PartKnown, files
  <2>2. PICK u \in Threads : pc[u] = "linking" /\ want[u] = a
    BY <1>1, <1>4, <2>1 DEF Crash, PartKnown
  <2>3. so[a].by = u
    <3>1. HasInput(u)
      BY <1>1 DEF BuildSound
    <3>2. so[a] = [state |-> "part", by |-> u]
      BY <2>2, <3>1 DEF HasInput
    <3>. QED
      BY <3>2
  <2>4. u \notin {t \in DOMAIN Home : Home[t] = p}
    BY <1>4, <2>1, <2>3 DEF Crash
  <2>. QED
    BY <1>1, <1>4, <2>2, <2>4 DEF Crash
<1>5. ASSUME NEW preset \in use.presets, WarmPlan(preset)
      PROVE  PartKnown'
  BY <1>1, <1>5 DEF WarmPlan, PartKnown, JitIInv, WarmFirst
<1>6. ASSUME NEW x \in Outputs, WarmLinkBegin(x)
      PROVE  PartKnown'
  BY <1>1, <1>6 DEF WarmLinkBegin, WarmSet, PartKnown, faults
<1>7. ASSUME NEW x \in Outputs, WarmLinkEnd(x)
      PROVE  PartKnown'
  <2>1. All \notin Artifacts /\ warm.linking \subseteq Outputs
    BY DEF JitAssumption, Artifacts, JitIInv, TypeOK
  <2>2. UNCHANGED <<pc, want, torn>> /\ warm'.linking = warm.linking \ {x}
    BY <1>7 DEF WarmLinkEnd, faults, JitIInv, TypeOK
  <2>3. \A a \in Artifacts : so'[a] = IF a = x THEN [state |-> "whole", by |-> Nobody] ELSE so[a]
    BY <1>1, <1>7, <2>1 DEF WarmLinkEnd, WarmSet
  <2>. QED
    BY <1>1, <2>1, <2>2, <2>3 DEF PartKnown
<1>8. ASSUME WarmOver
      PROVE  PartKnown'
  BY <1>1, <1>8 DEF WarmOver, PartKnown, files
<1>. QED
  BY <1>2, <1>3, <1>4, <1>5, <1>6, <1>7, <1>8 DEF Next, WarmStep

(* Who is about to load finds the library whole, or cut off by a kill.     *)
LEMMA LoadsKept ==
    ASSUME JitAssumption, JitIInv, Next
    PROVE  LoadsWhole'
<1>1. /\ LoadsWhole /\ PartKnown /\ BuildSound /\ pc \in [Threads -> Labels]
      /\ want \in [Threads -> Artifacts \cup {Nobody}] /\ so \in [Artifacts -> Files]
  BY DEF JitIInv, TypeOK
<1>2. ASSUME NEW t \in Threads, Step(t) \/ BuildFails(t)
      PROVE  LoadsWhole'
  <2>1. /\ pc[t] # "idle" /\ want[t] \in Artifacts /\ HasInput(t) /\ warm.linking = {}
        /\ \A u \in Threads : u # t => pc'[u] = pc[u] /\ want'[u] = want[u]
    BY <1>1, <1>2, OneMoves, InCall DEF BuildSound
  <2>2. ASSUME NEW u \in Threads, u # t, pc'[u] = "load"
        PROVE  so'[want'[u]].state = "whole" \/ want'[u] \in torn'
    <3>1. pc[u] = "load" /\ want[u] \in Artifacts /\ pc[u] \in Inside
      BY <2>1, <2>2, InCall DEF Inside, Labels
    <3>2. CASE pc[t] \in Building
      <4>1. want[u] # want[t]
        BY <2>2, <3>1, <3>2, Exclusive
      <4>. QED
        BY <1>1, <1>2, <2>1, <2>2, <3>1, <4>1, OneMoves DEF LoadsWhole
    <3>3. CASE pc[t] \notin Building
      <4>1. pc[t] \in {"lock", "all", "exists", "load"}
        BY <1>1, <2>1, <3>3 DEF Building, Labels
      <4>. QED
        BY <1>1, <1>2, <2>1, <2>2, <3>1, <4>1, OneMoves DEF LoadsWhole, files
    <3>. QED
      BY <3>2, <3>3
  <2>3. ASSUME pc'[t] = "load"
        PROVE  so'[want'[t]].state = "whole" \/ want'[t] \in torn'
    <3>1. CASE Exists(t)
      <4>1. so[want[t]].state # "none" /\ UNCHANGED <<want, so, torn>>
        BY <1>1, <2>3, <3>1 DEF Exists, Goto, files, faults
      <4>2. ~ \E u \in Threads : pc[u] = "linking" /\ want[u] = want[t]
        BY <3>1, Exclusive DEF Exists, Building, Inside, Labels
      <4>. QED
        BY <1>1, <2>1, <4>1, <4>2 DEF PartKnown, Files, States
    <3>2. CASE NinjaStart(t)
      BY <1>1, <2>1, <2>3, <3>2 DEF NinjaStart, HasInput, Building, Goto, Leave
    <3>3. CASE LinkEnd(t)
      BY <1>1, <2>1, <2>3, <3>3 DEF LinkEnd, HasInput, Finished, Files
    <3>4. CASE Leave(t)
      BY <2>1, <2>3, <3>4, LeaveEffect
    <3>. QED
      BY <1>1, <1>2, <2>3, <3>1, <3>2, <3>3, <3>4 DEF Step, Acquire, EnsureAll, LookUp, RenderBegin,
         RenderEnd, ManifestBegin, ManifestEnd, CompileEnd, LinkBegin, Load, BuildFails, Goto
  <2>. QED
    BY <2>2, <2>3 DEF LoadsWhole
<1>3. ASSUME NEW t \in Threads, NEW a \in Artifacts, Call(t, a)
      PROVE  LoadsWhole'
  BY <1>1, <1>3 DEF Call, Goto, LoadsWhole, files, faults
<1>4. ASSUME NEW p \in Processes, Crash(p)
      PROVE  LoadsWhole'
  BY <1>1, <1>4 DEF Crash, LoadsWhole, files
<1>5. ASSUME WarmStep
      PROVE  LoadsWhole'
  BY <1>5, WarmAlone DEF LoadsWhole
<1>. QED
  BY <1>2, <1>3, <1>4, <1>5 DEF Next

(* The warm-up links what is not there, before the first call.             *)
LEMMA WarmKept ==
    ASSUME JitAssumption, JitIInv, Next
    PROVE  WarmFirst'
<1>1. /\ WarmFirst /\ so \in [Artifacts -> Files] /\ allSo \in [state : States, has : SUBSET Variants]
      /\ warm \in [phase : {"start", "build", "over"}, todo : SUBSET Outputs, linking : SUBSET Outputs]
      /\ All \notin Artifacts /\ Modules \subseteq Artifacts
  BY DEF JitIInv, TypeOK, JitAssumption, Artifacts
<1>2. ASSUME NEW t \in Threads, Step(t) \/ BuildFails(t)
      PROVE  WarmFirst'
  BY <1>2, OneMoves, InCall DEF WarmFirst
<1>3. ASSUME NEW t \in Threads, NEW a \in Artifacts, Call(t, a)
      PROVE  WarmFirst'
  BY <1>1, <1>3 DEF Call, WarmFirst
<1>4. ASSUME NEW p \in Processes, Crash(p)
      PROVE  WarmFirst'
  <2>1. PICK t \in DOMAIN Home : Home[t] = p /\ pc[t] # "idle"
    BY <1>4 DEF Crash
  <2>2. t \in Threads
    BY DEF JitIInv, TypeOK, JitAssumption, Home
  <2>3. warm.phase = "over" /\ warm' = warm
    BY <1>1, <1>4, <2>1, <2>2 DEF Crash, WarmFirst
  <2>. QED
    BY <1>1, <2>3 DEF WarmFirst
<1>5. ASSUME NEW preset \in use.presets, WarmPlan(preset)
      PROVE  WarmFirst'
  BY <1>1, <1>5 DEF WarmPlan, WarmFirst, heap
<1>6. ASSUME NEW x \in Outputs, WarmLinkBegin(x)
      PROVE  WarmFirst'
  <2>1. /\ warm.phase = "build" /\ warm'.phase = "build" /\ x \in warm.todo
        /\ warm'.todo = warm.todo \ {x} /\ warm'.linking = warm.linking \cup {x}
        /\ UNCHANGED <<pc, checked>>
    BY <1>1, <1>6 DEF WarmLinkBegin, heap
  <2>2. /\ \A a \in Artifacts : so'[a] = IF a = x THEN [state |-> "part", by |-> Nobody] ELSE so[a]
        /\ allSo'.state = IF x = All THEN "part" ELSE allSo.state
    BY <1>1, <1>6 DEF WarmLinkBegin, WarmSet
  <2>. QED
    BY <1>1, <2>1, <2>2 DEF WarmFirst
<1>7. ASSUME NEW x \in Outputs, WarmLinkEnd(x)
      PROVE  WarmFirst'
  <2>1. /\ warm.phase = "build" /\ warm'.phase = "build" /\ x \in warm.linking
        /\ warm'.todo = warm.todo /\ warm'.linking = warm.linking \ {x}
        /\ UNCHANGED <<pc, checked>>
    BY <1>1, <1>7 DEF WarmLinkEnd, WarmFirst, heap
  <2>2. /\ \A a \in Artifacts : so'[a] = IF a = x THEN [state |-> "whole", by |-> Nobody] ELSE so[a]
        /\ allSo'.state = IF x = All THEN "whole" ELSE allSo.state
    BY <1>1, <1>7 DEF WarmLinkEnd, WarmSet
  <2>3. x \in Modules => x \notin warm.todo
    BY <1>1, <2>1 DEF WarmFirst
  <2>4. x = All => All \notin warm.todo
    BY <1>1, <2>1 DEF WarmFirst
  <2>. QED
    BY <1>1, <2>1, <2>2, <2>3, <2>4 DEF WarmFirst, Outputs
<1>8. ASSUME WarmOver
      PROVE  WarmFirst'
  BY <1>1, <1>8 DEF WarmOver, WarmFirst
<1>. QED
  BY <1>2, <1>3, <1>4, <1>5, <1>6, <1>7, <1>8 DEF Next, WarmStep

(* What a process knows of all_variants.so stays what is in it.            *)
LEMMA CombinedKept ==
    ASSUME JitAssumption, JitIInv, Next
    PROVE  CombinedKnown'
<1>1. /\ CombinedKnown /\ allHas \in [Processes -> SUBSET Variants]
      /\ checked \in [Processes -> BOOLEAN] /\ pc \in [Threads -> Labels]
      /\ want \in [Threads -> Artifacts \cup {Nobody}]
  BY DEF JitIInv, TypeOK
<1>2. ASSUME NEW t \in Threads, Step(t) \/ BuildFails(t)
      PROVE  CombinedKnown'
  <2>1. /\ Warmed' = Warmed /\ want[t] \in Artifacts /\ Home[t] \in Processes /\ want[t] \in use.asked
        /\ pc[t] # "idle" /\ \A u \in Threads : u # t => pc'[u] = pc[u] /\ want'[u] = want[u]
    BY <1>2, OneMoves, InCall DEF Warmed
  <2>2. \A p \in Processes : allHas'[p] = IF checked'[p] THEN Warmed ELSE {}
    <3>1. CASE EnsureAll(t)
      BY <1>1, <2>1, <3>1 DEF EnsureAll, CombinedKnown, Warmed, JitIInv, TypeOK, States
    <3>2. CASE UNCHANGED <<checked, allHas>>
      BY <1>1, <3>2 DEF CombinedKnown
    <3>. QED
      BY <1>2, <3>1, <3>2 DEF Step, Acquire, LookUp, Exists, RenderBegin, RenderEnd, ManifestBegin,
         ManifestEnd, NinjaStart, CompileEnd, LinkBegin, LinkEnd, Load, BuildFails, heap
  <2>3. pc'[t] = "exists" => want'[t] \notin Warmed
    <3>1. CASE Acquire(t)
      BY <1>1, <2>1, <3>1 DEF Acquire, Goto, Warmed, JitIInv, TypeOK, JitAssumption
    <3>2. CASE EnsureAll(t)
      BY <1>1, <2>1, <3>2, LeaveEffect DEF EnsureAll
    <3>3. CASE LookUp(t)
      BY <1>1, <2>1, <3>3, LeaveEffect DEF LookUp, CombinedKnown
    <3>4. CASE pc'[t] # "exists"
      BY <3>4
    <3>5. CASE NinjaStart(t) \/ BuildFails(t) \/ Load(t)
      BY <1>1, <2>1, <3>5, LeaveEffect DEF NinjaStart, BuildFails, Load, Goto
    <3>. QED
      BY <1>1, <1>2, <3>1, <3>2, <3>3, <3>4, <3>5 DEF Step, Exists, RenderBegin, RenderEnd, ManifestBegin,
         ManifestEnd, CompileEnd, LinkBegin, LinkEnd, Goto
  <2>. QED
    BY <1>1, <2>1, <2>2, <2>3 DEF CombinedKnown
<1>3. ASSUME NEW t \in Threads, NEW a \in Artifacts, Call(t, a)
      PROVE  CombinedKnown'
  BY <1>1, <1>3 DEF Call, Goto, CombinedKnown, Warmed, files, heap
<1>4. ASSUME NEW p \in Processes, Crash(p)
      PROVE  CombinedKnown'
  BY <1>1, <1>4 DEF Crash, CombinedKnown, Warmed, files
<1>5. ASSUME WarmStep
      PROVE  CombinedKnown'
  BY <1>1, <1>5, WarmAlone DEF CombinedKnown, JitIInv, WarmFirst, heap
<1>. QED
  BY <1>2, <1>3, <1>4, <1>5 DEF Next

(* A filled cache stays filled.                                            *)
LEMMA FilledKept ==
    ASSUME JitAssumption, JitIInv, Next
    PROVE  FilledFirst'
<1>. SUFFICES ASSUME Filled(use), use' = use
              PROVE  FilledFirst'
  BY DEF FilledFirst, Next
<1>1. /\ FilledFirst /\ so \in [Artifacts -> Files] /\ allSo \in [state : States, has : SUBSET Variants]
      /\ warm \in [phase : {"start", "build", "over"}, todo : SUBSET Outputs, linking : SUBSET Outputs]
      /\ All \notin Artifacts /\ Modules \subseteq Artifacts /\ pc \in [Threads -> Labels]
      /\ fails \in Nat /\ use.fails = 0 /\ use.asked \subseteq Artifacts
      /\ \A preset \in use.presets : use.asked \cap Variants \subseteq preset
      /\ \A t \in Threads : pc[t] \notin Building
      /\ want \in [Threads -> Artifacts \cup {Nobody}]
  BY DEF JitIInv, TypeOK, JitAssumption, Artifacts, Filled, FilledFirst
<1>2. ASSUME NEW t \in Threads, Step(t) \/ BuildFails(t)
      PROVE  FilledFirst'
  <2>1. /\ pc[t] # "idle" /\ want[t] \in use.asked /\ want[t] \in Artifacts /\ warm.phase = "over"
        /\ warm.linking = {} /\ UNCHANGED <<allSo, warm>>
        /\ \A u \in Threads : u # t => pc'[u] = pc[u]
    BY <1>2, OneMoves, InCall
  <2>2. pc[t] \in {"lock", "all", "exists", "load"}
    BY <1>1, <2>1 DEF Building, Labels
  <2>3. UNCHANGED so
    BY <1>2, <2>2, OneMoves DEF files
  <2>4. pc'[t] \notin Building
    <3>1. CASE Exists(t)
      <4>1. want[t] \notin Warmed
        BY <3>1 DEF JitIInv, CombinedKnown, Exists
      <4>2. want[t] \in Modules
        BY <1>1, <2>1, <4>1 DEF FilledFirst, Warmed, Artifacts, Outputs
      <4>3. so[want[t]].state = "whole"
        BY <1>1, <2>1, <4>2 DEF FilledFirst
      <4>. QED
        BY <1>1, <3>1, <4>3 DEF Exists, Goto, Building
    <3>2. CASE ~ Exists(t)
      BY <1>1, <1>2, <2>1, <2>2, <3>2, LeaveEffect DEF Step, Acquire, EnsureAll, LookUp, RenderBegin,
         RenderEnd, ManifestBegin, ManifestEnd, NinjaStart, CompileEnd, LinkBegin, LinkEnd, Load,
         BuildFails, Goto, Building
    <3>. QED
      BY <3>1, <3>2
  <2>. QED
    BY <1>1, <2>1, <2>3, <2>4 DEF FilledFirst
<1>3. ASSUME NEW t \in Threads, NEW a \in Artifacts, Call(t, a)
      PROVE  FilledFirst'
  BY <1>1, <1>3 DEF Call, Goto, FilledFirst, Building, files
<1>4. ASSUME NEW p \in Processes, Crash(p)
      PROVE  FilledFirst'
  BY <1>1, <1>4 DEF Crash, FilledFirst, Building, files
<1>5. ASSUME NEW preset \in use.presets, WarmPlan(preset)
      PROVE  FilledFirst'
  <2>1. \A a \in Artifacts : so[a].state = "none"
    BY <1>5 DEF JitIInv, WarmFirst, WarmPlan
  <2>2. Modules \subseteq warm'.todo /\ warm'.phase = "build" /\ UNCHANGED <<so, pc>>
    BY <1>1, <1>5, <2>1 DEF WarmPlan
  <2>3. preset \cap Variants # {} => All \in warm'.todo
    BY <1>1, <1>5, <2>1 DEF WarmPlan, Artifacts
  <2>4. preset \cap Variants \subseteq allSo'.has
    BY <1>1, <1>5, <2>1 DEF WarmPlan, Artifacts
  <2>. QED
    BY <1>1, <2>2, <2>3, <2>4 DEF FilledFirst
<1>6. ASSUME NEW x \in Outputs, NEW state \in {"part", "whole"},
             (WarmLinkBegin(x) /\ state = "part") \/ (WarmLinkEnd(x) /\ state = "whole")
      PROVE  FilledFirst'
  <2>1. /\ \A a \in Artifacts : so'[a] = IF a = x THEN [state |-> state, by |-> Nobody] ELSE so[a]
        /\ allSo'.state = IF x = All THEN state ELSE allSo.state
        /\ allSo'.has = allSo.has
    BY <1>1, <1>6 DEF WarmLinkBegin, WarmLinkEnd, WarmSet
  <2>2. /\ warm.phase = "build" /\ warm'.phase = "build" /\ UNCHANGED pc
        /\ \A y \in warm.todo \cup warm.linking :
              y \in warm'.todo \cup warm'.linking \/ (y = x /\ state = "whole")
    <3>1. CASE WarmLinkBegin(x) /\ state = "part"
      BY <1>1, <3>1 DEF WarmLinkBegin, JitIInv, TypeOK
    <3>2. CASE WarmLinkEnd(x) /\ state = "whole"
      BY <1>1, <3>2 DEF WarmLinkEnd, JitIInv, TypeOK, WarmFirst
    <3>. QED
      BY <1>6, <3>1, <3>2
  <2>3. x \notin {a \in Modules : so[a].state = "whole"} /\ ~ (x = All /\ allSo.state = "whole")
    BY <1>1, <1>6, <2>2 DEF WarmLinkBegin, WarmLinkEnd, JitIInv, WarmFirst
  <2>. QED
    BY <1>1, <2>1, <2>2, <2>3 DEF FilledFirst, Outputs
<1>7. ASSUME WarmOver
      PROVE  FilledFirst'
  BY <1>1, <1>7 DEF WarmOver, FilledFirst, files
<1>8. ASSUME NEW x \in Outputs, WarmLinkBegin(x) \/ WarmLinkEnd(x)
      PROVE  FilledFirst'
  <2>1. CASE WarmLinkBegin(x)
    BY <1>6, <1>8, <2>1
  <2>2. CASE WarmLinkEnd(x)
    BY <1>6, <1>8, <2>2
  <2>. QED
    BY <1>8, <2>1, <2>2
<1>. QED
  BY <1>2, <1>3, <1>4, <1>5, <1>7, <1>8 DEF Next, WarmStep

(* Every step, and every stuttering step, keeps the invariant.             *)
LEMMA StepKeeps ==
    ASSUME JitAssumption, JitIInv, [Next]_vars
    PROVE  JitIInv'
<1>1. CASE Next
  <2>1. SafeDeployment(use)'
    BY <1>1 DEF Next, JitIInv
  <2>. QED
    BY <1>1, <2>1, TypeKept, LockedKept, BuildKept, PartKept, WarmKept, CombinedKept, FilledKept,
       LoadsKept DEF JitIInv
<1>2. CASE UNCHANGED vars
  BY <1>2 DEF vars, files, heap, faults, JitIInv, TypeOK, Locked, Home, BuildSound, HasInput, PartKnown,
     WarmFirst, CombinedKnown, Warmed, FilledFirst, LoadsWhole
<1>. QED
  BY <1>1, <1>2

(* The invariant holds of any number of threads, processes, variants,      *)
(* modules, failed commands and kills (jit.py:229-362).                    *)
THEOREM Invariance == ASSUME Assumed PROVE Spec => []JitIInv
<1>1. Init => JitIInv
  BY Start
<1>2. JitIInv /\ [Next]_vars => JitIInv'
  BY StepKeeps DEF Assumed
<1>. QED
  BY <1>1, <1>2, PTL DEF Spec

(* Nobody opens a library that is being written: it is whole, or its link  *)
(* was cut off by a kill (jit.py:280-285).                                 *)
THEOREM LoadsOnlyWhole == ASSUME Assumed PROVE Spec => []LoadsWhole
<1>1. JitIInv => LoadsWhole
  BY DEF JitIInv
<1>. QED
  BY <1>1, Invariance, PTL

(* What the warm-up has linked is never built by a call                    *)
(* (warmup_fmha_sm100.py, jit.py:244-282).                                 *)
THEOREM WarmedNotBuilt == ASSUME Assumed PROVE Spec => NoBuildOfWarmed
<1>1. ASSUME JitIInv, [Next]_vars
      PROVE  [\A t \in Threads : pc[t] # "render" /\ pc'[t] = "render" => want[t] \notin Warmed]_vars
  <2>1. SUFFICES ASSUME Next, NEW t \in Threads, pc[t] # "render", pc'[t] = "render"
                 PROVE  want[t] \notin Warmed
    BY <1>1
  <2>2. pc \in [Threads -> Labels]
    BY <1>1 DEF JitIInv, TypeOK
  <2>3. pc[t] = "exists"
    <3>1. ASSUME NEW u \in Threads, Step(u) \/ BuildFails(u), u # t PROVE FALSE
      BY <1>1, <2>1, <3>1, OneMoves DEF Assumed
    <3>2. ASSUME Step(t) \/ BuildFails(t) PROVE pc[t] = "exists"
      BY <1>1, <2>1, <2>2, <3>2, OneMoves, LeaveEffect DEF Assumed, Step, Acquire, EnsureAll, LookUp, Exists,
         RenderBegin, RenderEnd, ManifestBegin, ManifestEnd, NinjaStart, CompileEnd, LinkBegin, LinkEnd,
         Load, BuildFails, Goto
    <3>3. ASSUME NEW u \in Threads, NEW a \in Artifacts, Call(u, a) PROVE FALSE
      BY <2>1, <2>2, <3>3 DEF Call, Goto
    <3>4. ASSUME NEW p \in Processes, Crash(p) PROVE FALSE
      BY <2>1, <2>2, <3>4 DEF Crash
    <3>5. ASSUME WarmStep PROVE FALSE
      BY <1>1, <2>1, <3>5, WarmAlone DEF Assumed
    <3>. QED
      BY <2>1, <3>1, <3>2, <3>3, <3>4, <3>5 DEF Next
  <2>. QED
    BY <1>1, <2>3 DEF JitIInv, CombinedKnown
<1>. QED
  BY <1>1, Invariance, PTL DEF Spec, NoBuildOfWarmed

(* The cache starts as the store does. *)
LEMMA StoreStart == ASSUME JitAssumption, Init PROVE Store!StoreInit
BY DEF Init, Store!StoreInit, Warmed, Absent, JitAssumption, Artifacts

(* A step of the cache is a step of the store, or none of its business. *)
LEMMA StoreStep == ASSUME JitAssumption, JitIInv, [Next]_vars PROVE [Store!StoreNext]_(Store!storeVars)
<1>. DEFINE published == {a \in Artifacts : so[a].state = "whole"} \cup Warmed
<1>1. /\ so \in [Artifacts -> Files] /\ loaded \in [Processes -> SUBSET Artifacts]
      /\ allSo \in [state : States, has : SUBSET Variants] /\ published \subseteq Artifacts
      /\ want \in [Threads -> Artifacts \cup {Nobody}]
  BY DEF JitIInv, TypeOK, Warmed, Artifacts
<1>2. ASSUME published \subseteq published', published' \subseteq Artifacts, UNCHANGED loaded
      PROVE  [Store!StoreNext]_(Store!storeVars)
  <2>1. \E some \in SUBSET Artifacts : Store!Publish(some)
    <3>1. PICK some \in SUBSET Artifacts : some = published'
      BY <1>2
    <3>2. Store!Publish(some)
      BY <1>2, <3>1 DEF Store!Publish
    <3>. QED
      BY <3>2
  <2>. QED
    BY <2>1 DEF Store!StoreNext
<1>3. ASSUME NEW t \in Threads, Step(t) \/ BuildFails(t)
      PROVE  [Store!StoreNext]_(Store!storeVars)
  <2>1. /\ pc[t] # "idle" /\ want[t] \in Artifacts /\ Home[t] \in Processes
        /\ UNCHANGED allSo /\ Warmed' = Warmed
        /\ \A a \in Artifacts : a # want[t] => so'[a] = so[a]
    BY <1>3, OneMoves, InCall DEF Warmed
  <2>2. CASE LookUp(t) \/ Load(t)
    <3>1. UNCHANGED so
      BY <2>2 DEF LookUp, Load, files
    <3>2. published' = published
      BY <2>1, <3>1
    <3>3. \/ UNCHANGED loaded
          \/ want[t] \in published /\ loaded' = [loaded EXCEPT ![Home[t]] = @ \cup {want[t]}]
      BY <2>1, <2>2 DEF LookUp, Load, JitIInv, CombinedKnown
    <3>4. ASSUME want[t] \in published, loaded' = [loaded EXCEPT ![Home[t]] = @ \cup {want[t]}]
          PROVE  Store!Open(Home[t], want[t])
      BY <3>2, <3>4 DEF Store!Open
    <3>. QED
      BY <1>1, <1>2, <2>1, <3>2, <3>3, <3>4 DEF Store!StoreNext
  <2>3. CASE ~ (LookUp(t) \/ Load(t))
    <3>1. UNCHANGED loaded
      BY <1>3, <2>3 DEF Step, Acquire, EnsureAll, Exists, RenderBegin, RenderEnd, ManifestBegin, ManifestEnd,
         NinjaStart, CompileEnd, LinkBegin, LinkEnd, BuildFails, heap
    <3>2. HasInput(t)
      BY DEF JitIInv, BuildSound
    <3>3. so[want[t]].state = "whole" => so'[want[t]].state = "whole"
      BY <1>1, <1>3, <2>1, <2>3, <3>2 DEF HasInput, Building, Step, Acquire, EnsureAll, Exists, RenderBegin,
         RenderEnd, ManifestBegin, ManifestEnd, NinjaStart, CompileEnd, LinkBegin, LinkEnd, BuildFails,
         files, Finished, Files, Removed
    <3>4. published \subseteq published' /\ published' \subseteq Artifacts
      BY <1>1, <2>1, <3>3
    <3>. QED
      BY <1>2, <3>1, <3>4
  <2>. QED
    BY <2>2, <2>3
<1>4. ASSUME NEW t \in Threads, NEW a \in Artifacts, Call(t, a)
      PROVE  [Store!StoreNext]_(Store!storeVars)
  BY <1>1, <1>2, <1>4 DEF Call, files, heap, Warmed
<1>5. ASSUME NEW p \in Processes, Crash(p)
      PROVE  [Store!StoreNext]_(Store!storeVars)
  <2>1. published' = published /\ loaded' = [loaded EXCEPT ![p] = {}]
    BY <1>5 DEF Crash, files, Warmed
  <2>2. Store!Forget(p)
    BY <2>1 DEF Store!Forget
  <2>. QED
    BY <2>2 DEF Store!StoreNext
<1>6. ASSUME Next, WarmStep
      PROVE  [Store!StoreNext]_(Store!storeVars)
  <2>1. UNCHANGED loaded
    BY <1>6, WarmAlone DEF heap
  <2>2. published \subseteq published'
    <3>1. ASSUME NEW preset \in use.presets, WarmPlan(preset) PROVE published \subseteq published'
      BY <1>1, <3>1 DEF WarmPlan, JitIInv, WarmFirst, Warmed
    <3>2. ASSUME NEW x \in Outputs, WarmLinkBegin(x) PROVE published \subseteq published'
      BY <1>1, <3>2 DEF WarmLinkBegin, WarmSet, JitIInv, WarmFirst, Warmed, Outputs
    <3>3. ASSUME NEW x \in Outputs, WarmLinkEnd(x) PROVE published \subseteq published'
      BY <1>1, <3>3 DEF WarmLinkEnd, WarmSet, Warmed, Outputs
    <3>4. ASSUME WarmOver PROVE published \subseteq published'
      BY <3>4 DEF WarmOver, files, Warmed
    <3>. QED
      BY <1>6, <3>1, <3>2, <3>3, <3>4 DEF WarmStep
  <2>3. so' \in [Artifacts -> Files] /\ allSo' \in [state : States, has : SUBSET Variants]
    BY <1>6, FileTypes
  <2>4. published' \subseteq Artifacts
    BY <2>3 DEF Warmed, Artifacts
  <2>. QED
    BY <1>2, <2>1, <2>2, <2>4
<1>7. CASE UNCHANGED vars
  BY <1>7 DEF vars, files, heap, Warmed, Store!storeVars
<1>. QED
  BY <1>3, <1>4, <1>5, <1>6, <1>7 DEF Next

(* The cache implements the append-only store of whole libraries: every    *)
(* step publishes some, opens one that is published, forgets what a killed *)
(* process had open, or is none of the store's business (jit.py:244-285).  *)
THEOREM Implementation == ASSUME Assumed PROVE Spec => JitImplementsStore
<1>1. Init => Store!StoreInit
  BY StoreStart DEF Assumed
<1>2. JitIInv /\ [Next]_vars => [Store!StoreNext]_(Store!storeVars)
  BY StoreStep DEF Assumed
<1>. QED
  BY <1>1, <1>2, Invariance, PTL DEF Spec, JitImplementsStore, Store!StoreSpec

=============================================================================
