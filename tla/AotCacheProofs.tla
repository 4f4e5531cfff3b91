--------------------------- MODULE AotCacheProofs ---------------------------
(***************************************************************************)
(* The AOT cache without a lock is right for any number of processes,      *)
(* kernels, failed exports and crashes, as long as a process compiles in   *)
(* one thread: the pid in the temporary name then separates the writers.   *)
(***************************************************************************)
EXTENDS AotCache, TLAPS

LEMMA ProcType == ProcOf \in [Workers -> Pids]
BY AotAssumption DEF Pids

(* Every file the actions make is a file. *)
LEMMA Made ==
    ASSUME NEW f \in File, NEW t \in Workers, NEW dead \in SUBSET Workers
    PROVE  /\ NoFile \in File
           /\ Opened(f, t) \in File
           /\ Closed(f, t) \in File
           /\ Abandoned(f, dead) \in File
BY DEF File, NoFile, Opened, Closed, Abandoned

(* The initial state satisfies the invariant: no file is there. *)
THEOREM Start == AotInit => IInv
<1> SUFFICES ASSUME AotInit PROVE IInv
    OBVIOUS
<1> USE ProcType DEF AotInit
<1>1. NoFile \in File /\ NoFile.writers = {} 
    BY DEF NoFile, File
<1>2. AotTypeOK
    BY <1>1, AotAssumption DEF AotTypeOK, AotLabels
<1>3. ExportOwned
    BY <1>1 DEF ExportOwned
<1>4. PublishedWhole /\ NothingHidden
    BY <1>1 DEF PublishedWhole, NothingHidden
<1> QED
    BY <1>2, <1>3, <1>4 DEF IInv

(* Steps of thread t that leave the files alone: ExportOwned looks only at *)
(* whether t was and is exporting or about to rename.                      *)
LEMMA FilesKept ==
    ASSUME IInv, NEW t \in Workers, NEW k \in Keys, NEW from, NEW to,
           UNCHANGED <<final, tmp>>, doing[t] = from, doing' = [doing EXCEPT ![t] = to],
           kernel' = [kernel EXCEPT ![t] = k], k = kernel[t] \/ from = "idle",
           from \notin {"exporting", "replace"}, to \notin {"exporting", "replace"}
    PROVE  ExportOwned' /\ PublishedWhole'
<1> USE DEF IInv, AotTypeOK
<1>1. ExportOwned'
    <2> SUFFICES ASSUME NEW u \in Workers, NEW l \in Keys
                 PROVE  /\ tmp'[ProcOf[u]][l].writers =
                             IF doing'[u] = "exporting" /\ kernel'[u] = l THEN {u} ELSE {}
                        /\ doing'[u] = "exporting" /\ kernel'[u] = l => tmp'[ProcOf[u]][l].state = "there"
                        /\ doing'[u] = "replace" /\ kernel'[u] = l => Whole(tmp'[ProcOf[u]][l])
        BY DEF ExportOwned, Whole
    <2>1. CASE u = t
        BY <2>1 DEF ExportOwned
    <2>2. CASE u # t
        BY <2>2 DEF ExportOwned
    <2> QED
        BY <2>1, <2>2
<1>2. PublishedWhole'
    BY DEF PublishedWhole, Whole
<1> QED
    BY <1>1, <1>2

(* With one thread a process, t's temporary files are no other thread's.   *)
LEMMA OthersKept ==
    ASSUME OneThreadEach, IInv, NEW t \in Workers, NEW f \in File,
           tmp' = [tmp EXCEPT ![ProcOf[t]][kernel[t]] = f],
           kernel' = kernel, NEW to, doing' = [doing EXCEPT ![t] = to],
           f.writers = IF to = "exporting" THEN {t} ELSE {},
           to = "exporting" => f.state = "there",
           to = "replace" => Whole(f)
    PROVE  ExportOwned'
<1> USE ProcType DEF IInv, AotTypeOK
<1> SUFFICES ASSUME NEW u \in Workers, NEW l \in Keys
             PROVE  /\ tmp'[ProcOf[u]][l].writers =
                         IF doing'[u] = "exporting" /\ kernel'[u] = l THEN {u} ELSE {}
                    /\ doing'[u] = "exporting" /\ kernel'[u] = l => tmp'[ProcOf[u]][l].state = "there"
                    /\ doing'[u] = "replace" /\ kernel'[u] = l => Whole(tmp'[ProcOf[u]][l])
    BY DEF ExportOwned, Whole
<1>1. CASE u # t
    <2>1. ProcOf[u] # ProcOf[t]
        BY <1>1 DEF OneThreadEach
    <2> QED
        BY <1>1, <2>1 DEF ExportOwned
<1>2. CASE u = t /\ l # kernel[t]
    BY <1>2 DEF ExportOwned
<1>3. CASE u = t /\ l = kernel[t]
    BY <1>3
<1> QED
    BY <1>1, <1>2, <1>3

(* Closing t's file closes the only one it has: the one it is exporting.   *)
LEMMA Close ==
    ASSUME OneThreadEach, IInv, NEW t \in Workers, doing[t] = "exporting", CloseAll(t)
    PROVE  /\ final' = final
           /\ tmp' = [tmp EXCEPT ![ProcOf[t]][kernel[t]] = Closed(@, t)]
<1> USE ProcType DEF IInv, AotTypeOK
<1>1. final' = final
    <2>1. ASSUME NEW k \in Keys PROVE final[k].writers = {} /\ Closed(final[k], t) = final[k]
        <3>1. final[k] \in File
            OBVIOUS
        <3>2. final[k].writers = {}
            BY DEF NothingHidden
        <3> QED
            BY <3>1, <3>2 DEF Closed, File
    <2> QED
        BY <2>1 DEF CloseAll
<1>2. ASSUME NEW p \in Pids, NEW k \in Keys, ~ (p = ProcOf[t] /\ k = kernel[t])
      PROVE  Closed(tmp[p][k], t) = tmp[p][k]
    <2>1. tmp[p][k] \in File
        OBVIOUS
    <2>2. t \notin tmp[p][k].writers
        <3>1. PICK u \in Workers : p = ProcOf[u]
            BY DEF Pids
        <3>2. tmp[p][k].writers = IF doing[u] = "exporting" /\ kernel[u] = k THEN {u} ELSE {}
            BY <3>1 DEF ExportOwned
        <3> QED
            BY <3>1, <3>2, <1>2
    <2> QED
        BY <2>1, <2>2 DEF Closed, File
<1>3. tmp' = [tmp EXCEPT ![ProcOf[t]][kernel[t]] = Closed(@, t)]
    <2> DEFINE row(p) == [k \in Keys |-> Closed(tmp[p][k], t)]
    <2>1. ASSUME NEW p \in Pids, p # ProcOf[t] PROVE row(p) = tmp[p]
        BY <1>2, <2>1
    <2>2. row(ProcOf[t]) = [tmp[ProcOf[t]] EXCEPT ![kernel[t]] = Closed(@, t)]
        BY <1>2
    <2>3. tmp' = [p \in Pids |-> row(p)]
        BY DEF CloseAll
    <2> HIDE DEF row
    <2> QED
        BY <2>1, <2>2, <2>3
<1> QED
    BY <1>1, <1>3

(* Every step keeps the invariant.                                         *)
LEMMA StepKeeps == ASSUME OneThreadEach, IInv, [AotNext]_aotVars PROVE IInv'
<1> USE ProcType DEF AotLabels
<1>t. AotTypeOK
    BY DEF IInv
<1>o. ExportOwned
    BY DEF IInv
<1>n. PublishedWhole /\ NothingHidden
    BY DEF IInv
<1>w. ASSUME NEW t \in Workers
      PROVE  /\ ProcOf[t] \in Pids /\ kernel[t] \in Keys
             /\ tmp[ProcOf[t]][kernel[t]] \in File
             /\ tmp[ProcOf[t]][kernel[t]].writers = IF doing[t] = "exporting" THEN {t} ELSE {}
             /\ doing[t] = "exporting" => tmp[ProcOf[t]][kernel[t]].state = "there"
             /\ doing[t] = "replace" => Whole(tmp[ProcOf[t]][kernel[t]])
    <2>1. ProcOf[t] \in Pids /\ kernel[t] \in Keys
        BY <1>t DEF AotTypeOK
    <2>2. tmp[ProcOf[t]][kernel[t]] \in File
        BY <1>t, <2>1 DEF AotTypeOK
    <2> QED
        BY <1>o, <2>1, <2>2 DEF ExportOwned
<1>2. ASSUME NEW t \in Workers, NEW k \in Keys, FirstLaunch(t, k) PROVE IInv'
    <2>1. AotTypeOK'
        BY <1>t, <1>2 DEF FirstLaunch, Turn, AotTypeOK
    <2>2. ExportOwned' /\ PublishedWhole'
        BY <1>t, <1>o, <1>n, <1>2, FilesKept DEF FirstLaunch, Turn, IInv
    <2>3. NothingHidden'
        BY <1>n, <1>2 DEF FirstLaunch, NothingHidden
    <2> QED
        BY <2>1, <2>2, <2>3 DEF IInv
<1>3. ASSUME NEW t \in Workers, IsFile(t) \/ TryLoad(t) \/ Compile(t) PROVE IInv'
    <2>1. AotTypeOK'
        <3>1. CASE IsFile(t)
            BY <1>t, <3>1 DEF IsFile, Turn, AotTypeOK
        <3>2. CASE TryLoad(t)
            <4>1. UNCHANGED <<final, tmp, kernel, failed, killed>>
                BY <3>2 DEF TryLoad
            <4>2. cache' \in [Pids -> SUBSET Keys] /\ held' \in [Pids -> SUBSET Keys]
                <5>1. \/ UNCHANGED <<cache, held>>
                      \/ /\ held' = [held EXCEPT ![ProcOf[t]] = @ \cup {kernel[t]}]
                         /\ cache' = [cache EXCEPT ![ProcOf[t]] = @ \cup {kernel[t]}]
                    BY <3>2 DEF TryLoad
                <5>2. ProcOf[t] \in Pids /\ kernel[t] \in Keys
                    BY <1>w
                <5>3. cache \in [Pids -> SUBSET Keys] /\ held \in [Pids -> SUBSET Keys]
                    BY <1>t DEF AotTypeOK
                <5>4. CASE UNCHANGED <<cache, held>>
                    BY <5>3, <5>4
                <5>5. CASE /\ held' = [held EXCEPT ![ProcOf[t]] = @ \cup {kernel[t]}]
                           /\ cache' = [cache EXCEPT ![ProcOf[t]] = @ \cup {kernel[t]}]
                    BY <5>2, <5>3, <5>5
                <5> QED
                    BY <5>1, <5>4, <5>5
            <4>3. doing' = [doing EXCEPT ![t] = "idle"] \/ doing' = [doing EXCEPT ![t] = "compile"]
                BY <3>2 DEF TryLoad, Turn
            <4> QED
                BY <1>t, <4>1, <4>2, <4>3 DEF AotTypeOK
        <3>3. CASE Compile(t)
            BY <1>t, <3>3 DEF Compile, Turn, AotTypeOK
        <3> QED
            BY <1>3, <3>1, <3>2, <3>3
    <2>2. PICK to \in {"idle", "load", "compile", "export"} : doing' = [doing EXCEPT ![t] = to]
        BY <1>3 DEF IsFile, TryLoad, Compile, Turn
    <2>3. UNCHANGED <<final, tmp, kernel>> /\ doing[t] \notin {"exporting", "replace"}
        BY <1>3 DEF IsFile, TryLoad, Compile
    <2>4. kernel[t] \in Keys /\ kernel' = [kernel EXCEPT ![t] = kernel[t]]
        BY <1>t, <2>3 DEF AotTypeOK
    <2>5. ExportOwned' /\ PublishedWhole'
        BY <1>t, <1>o, <1>n, <2>2, <2>3, <2>4, FilesKept DEF IInv
    <2>6. NothingHidden'
        BY <1>n, <2>3 DEF NothingHidden
    <2> QED
        BY <2>1, <2>5, <2>6 DEF IInv
<1>4. ASSUME NEW t \in Workers, ExportBegin(t) PROVE IInv'
    <2> DEFINE f == Opened(tmp[ProcOf[t]][kernel[t]], t)
    <2>1. f \in File /\ f.writers = {t} /\ f.state = "there"
        <3>1. tmp[ProcOf[t]][kernel[t]].writers = {}
            BY <1>t, <1>o, <1>4 DEF ExportOwned, ExportBegin, AotTypeOK
        <3> QED
            BY <3>1 DEF File, Opened
    <2>2. tmp' = [tmp EXCEPT ![ProcOf[t]][kernel[t]] = f] /\ UNCHANGED <<final, kernel>>
        BY <1>4 DEF ExportBegin
    <2>3. doing' = [doing EXCEPT ![t] = "exporting"]
        BY <1>4 DEF ExportBegin, Turn
    <2>4. AotTypeOK'
        BY <1>t, <1>4, <2>1, <2>2, <2>3 DEF AotTypeOK, ExportBegin
    <2>5. ExportOwned'
        <3> HIDE DEF f
        <3> QED
            BY <1>t, <1>o, <1>n, <2>1, <2>2, <2>3, OthersKept DEF IInv
    <2>6. PublishedWhole' /\ NothingHidden'
        BY <1>n, <2>2 DEF PublishedWhole, NothingHidden, Whole
    <2> QED
        BY <2>4, <2>5, <2>6 DEF IInv
<1>5. ASSUME NEW t \in Workers, ExportEnd(t) PROVE IInv'
    <2> DEFINE f == Closed(tmp[ProcOf[t]][kernel[t]], t)
    <2>1. /\ final' = final
          /\ tmp' = [tmp EXCEPT ![ProcOf[t]][kernel[t]] = f]
        BY <1>5, Close DEF ExportEnd
    <2>2. tmp[ProcOf[t]][kernel[t]] \in File /\ tmp[ProcOf[t]][kernel[t]].writers = {t}
        BY <1>w, <1>5 DEF ExportEnd
    <2>3. tmp[ProcOf[t]][kernel[t]].state = "there"
        BY <1>w, <1>5 DEF ExportEnd
    <2>4. f \in File /\ f.writers = {} /\ Whole(f)
        BY <2>2, <2>3 DEF File, Closed, Whole
    <2>5. doing' = [doing EXCEPT ![t] = "replace"] /\ kernel' = kernel
        BY <1>5 DEF ExportEnd, Turn
    <2>6. AotTypeOK'
        BY <1>t, <1>5, <2>1, <2>4, <2>5 DEF AotTypeOK, ExportEnd
    <2>7. ExportOwned'
        <3> HIDE DEF f
        <3> QED
            BY <1>t, <1>o, <1>n, <2>1, <2>4, <2>5, OthersKept DEF IInv
    <2>8. PublishedWhole' /\ NothingHidden'
        BY <1>n, <2>1 DEF PublishedWhole, NothingHidden, Whole
    <2> QED
        BY <2>6, <2>7, <2>8 DEF IInv
<1>6. ASSUME NEW t \in Workers, ExportFails(t) PROVE IInv'
    <2>1. NoFile \in File /\ NoFile.writers = {}
        BY DEF NoFile, File
    <2>2. final' = final
        BY <1>t, <1>n, <1>6 DEF ExportFails, NothingHidden, AotTypeOK
    <2>3. /\ tmp' = [tmp EXCEPT ![ProcOf[t]][kernel[t]] = NoFile]
          /\ doing' = [doing EXCEPT ![t] = "idle"] /\ kernel' = kernel
        BY <1>6 DEF ExportFails, Turn
    <2>4. AotTypeOK'
        <3>1. UNCHANGED <<cache, held, killed>> /\ failed' = failed + 1
            BY <1>6 DEF ExportFails
        <3> QED
            BY <1>t, <1>w, <2>1, <2>2, <2>3, <3>1 DEF AotTypeOK
    <2>5. ExportOwned'
        BY <1>t, <1>o, <1>n, <2>1, <2>3, OthersKept DEF IInv
    <2>6. PublishedWhole' /\ NothingHidden'
        BY <1>n, <2>2 DEF PublishedWhole, NothingHidden, Whole
    <2> QED
        BY <2>4, <2>5, <2>6 DEF IInv
<1>7. ASSUME NEW t \in Workers, Replace(t) PROVE IInv'
    <2> DEFINE f == tmp[ProcOf[t]][kernel[t]]
    <2>1. f \in File /\ Whole(f) /\ kernel[t] \in Keys
        BY <1>w, <1>7 DEF Replace
    <2>2. NoFile \in File /\ NoFile.writers = {}
        BY DEF NoFile, File
    <2>3. /\ final' = [final EXCEPT ![kernel[t]] = f]
          /\ tmp' = [tmp EXCEPT ![ProcOf[t]][kernel[t]] = NoFile]
          /\ doing' = [doing EXCEPT ![t] = "idle"] /\ kernel' = kernel
        BY <1>7, <2>1 DEF Replace, Turn, Whole, NoFile
    <2>4. AotTypeOK'
        BY <1>t, <1>7, <2>1, <2>2, <2>3 DEF AotTypeOK, Replace
    <2>5. ExportOwned'
        BY <1>t, <1>o, <1>n, <2>2, <2>3, OthersKept DEF IInv
    <2>6. PublishedWhole' /\ NothingHidden'
        BY <1>t, <1>n, <2>1, <2>3 DEF PublishedWhole, NothingHidden, Whole, AotTypeOK
    <2> QED
        BY <2>4, <2>5, <2>6 DEF IInv
<1>8. ASSUME NEW p \in Pids, Kill(p) PROVE IInv'
    <2> DEFINE dead == {t \in Workers : ProcOf[t] = p}
    <2>1. final' = final
        <3>1. ASSUME NEW k \in Keys PROVE Abandoned(final[k], dead) = final[k]
            BY <1>t, <1>n DEF Abandoned, NothingHidden, AotTypeOK, File
        <3> QED
            BY <1>t, <1>8, <3>1 DEF Kill, AotTypeOK
    <2>2. tmp' = [tmp EXCEPT ![p] = [k \in Keys |-> Abandoned(tmp[p][k], dead)]]
        BY <1>t, <1>8 DEF Kill, AotTypeOK
    <2>3. doing' = [t \in Workers |-> IF t \in dead THEN "idle" ELSE doing[t]] /\ kernel' = kernel
        BY <1>8 DEF Kill
    <2>4. ASSUME NEW k \in Keys PROVE Abandoned(tmp[p][k], dead) \in File
        <3>1. tmp[p][k] \in File
            BY <1>t DEF AotTypeOK
        <3>2. dead \in SUBSET Workers
            OBVIOUS
        <3> QED
            BY <3>1, <3>2 DEF Abandoned, File
    <2>5. AotTypeOK'
        <3>1. /\ cache' = [cache EXCEPT ![p] = {}] /\ held' = [held EXCEPT ![p] = {}]
              /\ failed' = failed /\ killed' = killed + 1
            BY <1>8 DEF Kill
        <3>2. tmp' \in [Pids -> [Keys -> File]]
            BY <1>t, <2>2, <2>4 DEF AotTypeOK
        <3>3. doing' \in [Workers -> AotLabels]
            BY <1>t, <2>3 DEF AotTypeOK
        <3>4. cache' \in [Pids -> SUBSET Keys] /\ held' \in [Pids -> SUBSET Keys]
            BY <1>t, <3>1 DEF AotTypeOK
        <3>5. final' \in [Keys -> File] /\ kernel' \in [Workers -> Keys] /\ failed' \in Nat /\ killed' \in Nat
            BY <1>t, <2>1, <2>3, <3>1 DEF AotTypeOK
        <3> QED
            BY <3>2, <3>3, <3>4, <3>5 DEF AotTypeOK
    <2>6. ExportOwned'
        <3> SUFFICES ASSUME NEW u \in Workers, NEW l \in Keys
                     PROVE  /\ tmp'[ProcOf[u]][l].writers =
                                 IF doing'[u] = "exporting" /\ kernel'[u] = l THEN {u} ELSE {}
                            /\ doing'[u] = "exporting" /\ kernel'[u] = l => tmp'[ProcOf[u]][l].state = "there"
                            /\ doing'[u] = "replace" /\ kernel'[u] = l => Whole(tmp'[ProcOf[u]][l])
            BY DEF ExportOwned, Whole
        <3>1. CASE u \in dead
            <4>1. tmp'[ProcOf[u]][l] = Abandoned(tmp[p][l], dead)
                BY <1>t, <2>2, <3>1 DEF AotTypeOK
            <4>2. tmp[p][l] \in File /\ tmp[p][l].writers \subseteq {u}
                <5>1. tmp[p][l] \in File
                    BY <1>t DEF AotTypeOK
                <5>2. tmp[ProcOf[u]][l].writers \subseteq {u}
                    BY <1>o DEF ExportOwned
                <5> QED
                    BY <3>1, <5>1, <5>2
            <4>3. Abandoned(tmp[p][l], dead).writers = {}
                BY <3>1, <4>2 DEF Abandoned, File
            <4> QED
                BY <2>3, <3>1, <4>1, <4>3
        <3>2. CASE u \notin dead
            BY <1>t, <1>o, <2>2, <2>3, <3>2 DEF ExportOwned, AotTypeOK
        <3> QED
            BY <3>1, <3>2
    <2>7. PublishedWhole' /\ NothingHidden'
        BY <1>n, <2>1 DEF PublishedWhole, NothingHidden, Whole
    <2> QED
        BY <2>5, <2>6, <2>7 DEF IInv
<1>9. CASE UNCHANGED aotVars
    <2>1. AotTypeOK'
        BY <1>t, <1>9 DEF aotVars, AotTypeOK
    <2>2. ExportOwned'
        BY <1>o, <1>9 DEF aotVars, ExportOwned, Whole
    <2>3. PublishedWhole' /\ NothingHidden'
        BY <1>n, <1>9 DEF aotVars, PublishedWhole, NothingHidden, Whole
    <2> QED
        BY <2>1, <2>2, <2>3 DEF IInv
<1> QED
    BY <1>2, <1>3, <1>4, <1>5, <1>6, <1>7, <1>8, <1>9 DEF AotNext, AotStep

(* The inductive invariant holds of any number of one-threaded processes.  *)
THEOREM Invariance == ASSUME OneThreadEach PROVE AotSpec => []IInv
<1>1. AotInit => IInv
    BY Start
<1>2. IInv /\ [AotNext]_aotVars => IInv'
    BY StepKeeps
<1> QED
    BY <1>1, <1>2, PTL DEF AotSpec

(* No kernel is visible under its final name before it is whole            *)
(* (aot_cache.py:61-66), without a lock and with crashes.                  *)
THEOREM NeverTorn == ASSUME OneThreadEach PROVE AotSpec => []PublishedWhole
<1>1. IInv => PublishedWhole
    BY DEF IInv
<1> QED
    BY <1>1, Invariance, PTL

(* The cache implements the abstract store: every step publishes, opens,   *)
(* forgets or changes nothing of it, and what was published stays so.      *)
THEOREM Implementation == ASSUME OneThreadEach PROVE AotSpec => ImplementsStore
<1> USE ProcType
<1>1. AotInit => AotStore!StoreInit
    <2> SUFFICES ASSUME AotInit PROVE AotStore!StoreInit
        OBVIOUS
    <2> QED
        BY DEF AotInit, AotStore!StoreInit
<1>2. IInv /\ [AotNext]_aotVars => [AotStore!StoreNext]_(AotStore!storeVars)
    <2> SUFFICES ASSUME IInv, [AotNext]_aotVars PROVE [AotStore!StoreNext]_(AotStore!storeVars)
        OBVIOUS
    <2> DEFINE whole == {k \in Keys : Whole(final[k])}
    <2>t. AotTypeOK /\ PublishedWhole /\ NothingHidden
        BY DEF IInv
    <2>1. ASSUME UNCHANGED <<final, held>> PROVE UNCHANGED AotStore!storeVars
        BY <2>1 DEF AotStore!storeVars, Whole
    <2>2. ASSUME NEW t \in Workers, TryLoad(t) PROVE [AotStore!StoreNext]_(AotStore!storeVars)
        <3>1. final' = final /\ kernel[t] \in Keys /\ ProcOf[t] \in Pids
            BY <2>t, <2>2 DEF TryLoad, AotTypeOK
        <3>2. CASE Whole(final[kernel[t]]) /\ held' = [held EXCEPT ![ProcOf[t]] = @ \cup {kernel[t]}]
            <4>1. AotStore!Open(ProcOf[t], kernel[t])
                BY <3>1, <3>2 DEF AotStore!Open, Whole
            <4> QED
                BY <3>1, <4>1 DEF AotStore!StoreNext
        <3>3. CASE kernel[t] \in held[ProcOf[t]]
            <4>1. held' = held
                <5>1. held[ProcOf[t]] \cup {kernel[t]} = held[ProcOf[t]]
                    BY <3>3
                <5>2. held' = held \/ held' = [held EXCEPT ![ProcOf[t]] = held[ProcOf[t]] \cup {kernel[t]}]
                    BY <2>2 DEF TryLoad
                <5>3. held \in [Pids -> SUBSET Keys]
                    BY <2>t DEF AotTypeOK
                <5> QED
                    BY <3>1, <5>1, <5>2, <5>3
            <4> QED
                BY <2>1, <3>1, <4>1
        <3>4. CASE held' = held
            BY <2>1, <3>1, <3>4
        <3> QED
            BY <2>2, <3>2, <3>3, <3>4 DEF TryLoad
    <2>3. ASSUME NEW t \in Workers, Replace(t) PROVE [AotStore!StoreNext]_(AotStore!storeVars)
        <3> DEFINE k == kernel[t]
                   f == tmp[ProcOf[t]][k]
        <3>1. Whole(f) /\ k \in Keys
            BY <2>t, <2>3 DEF IInv, ExportOwned, Replace, AotTypeOK
        <3>2. final' = [final EXCEPT ![k] = f] /\ held' = held
            BY <2>3, <3>1 DEF Replace, Whole, NoFile
        <3>3. {l \in Keys : Whole(final[l])}' = whole \cup {k}
            BY <2>t, <3>1, <3>2 DEF AotTypeOK, Whole
        <3>4. AotStore!Publish({k})
            BY <3>2, <3>3 DEF AotStore!Publish
        <3> QED
            BY <3>1, <3>4 DEF AotStore!StoreNext
    <2>4. ASSUME NEW p \in Pids, Kill(p) PROVE [AotStore!StoreNext]_(AotStore!storeVars)
        <3>1. final' = final
            <4> DEFINE dead == {t \in Workers : ProcOf[t] = p}
            <4>1. ASSUME NEW k \in Keys PROVE Abandoned(final[k], dead) = final[k]
                BY <2>t DEF Abandoned, NothingHidden, AotTypeOK, File
            <4> QED
                BY <2>t, <2>4, <4>1 DEF Kill, AotTypeOK
        <3>2. held' = [held EXCEPT ![p] = {}]
            BY <2>4 DEF Kill
        <3>3. AotStore!Forget(p)
            BY <3>1, <3>2 DEF AotStore!Forget, Whole
        <3> QED
            BY <3>3 DEF AotStore!StoreNext
    <2>5. ASSUME NEW t \in Workers, ExportEnd(t) PROVE UNCHANGED <<final, held>>
        BY <2>5, Close DEF ExportEnd
    <2>6. ASSUME NEW t \in Workers, ExportFails(t) PROVE UNCHANGED <<final, held>>
        BY <2>t, <2>6 DEF ExportFails, NothingHidden, AotTypeOK
    <2>7. ASSUME NEW t \in Workers, IsFile(t) \/ Compile(t) \/ ExportBegin(t) \/ \E k \in Keys : FirstLaunch(t, k)
          PROVE  UNCHANGED <<final, held>>
        BY <2>7 DEF IsFile, Compile, ExportBegin, FirstLaunch
    <2>8. CASE UNCHANGED aotVars
        BY <2>1, <2>8 DEF aotVars
    <2> QED
        BY <2>1, <2>2, <2>3, <2>4, <2>5, <2>6, <2>7, <2>8 DEF AotNext, AotStep
<1> QED
    BY <1>1, <1>2, Invariance, PTL DEF AotSpec, ImplementsStore, AotStore!StoreSpec
=============================================================================
