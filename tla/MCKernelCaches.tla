--------------------------- MODULE MCKernelCaches ---------------------------
(***************************************************************************)
(* KernelCaches for TLC.  JIT: two variants, one module, up to three       *)
(* threads.  AOT: three processes of one thread that want one kernel; one  *)
(* export may fail and two processes may be killed.                        *)
(***************************************************************************)
EXTENDS KernelCaches, TLC
CONSTANTS v1, v2, plan, t1, t2, t3, p1, p2, p3, k1

Alone == (t1 :> p1) @@ (t2 :> p2) @@ (t3 :> p3)

InOne(threads) == [t \in threads |-> p1]
InTwo == (t1 :> p1) @@ (t3 :> p2)

Cold(proc, asked, failing, kills) ==
    [proc |-> proc, asked |-> asked, warm |-> FALSE, presets |-> {},
     fails |-> failing, crashes |-> kills]
Warm(proc, presets, failing) ==
    [proc |-> proc, asked |-> {v1, v2, plan}, warm |-> TRUE, presets |-> presets,
     fails |-> failing, crashes |-> 0]

\* Two threads of a process that may be killed once and start again; three that
\* share the lock of two variants; a warm-up of any preset, then one process;
\* two servers on a cache that the full warm-up has filled.
Safe == {Cold(InOne({t1, t2}), {v1, plan}, 1, 1),
         Cold(InOne({t1, t2, t3}), {v1, v2}, 1, 0),
         Warm(InOne({t1, t2}), SUBSET Variants, 1),
         Warm(InTwo, {Variants}, 0)}

\* Two processes ask for one variant that is not on disk.
Racing == {Cold(InTwo, {v1}, 0, 0)}
=============================================================================
