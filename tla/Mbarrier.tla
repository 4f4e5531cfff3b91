------------------------------ MODULE Mbarrier ------------------------------
(***************************************************************************)
(* The mbarrier object every pipeline of the CuTe-DSL kernels is built on. *)
(*                                                                         *)
(* An mbarrier counts down the arrivals (and the bytes of TMA traffic)     *)
(* still missing from its current phase.  When nothing is missing the      *)
(* phase completes and the next one starts with the full count again.      *)
(* Hardware keeps one bit of the phase number: a waiter names a parity and *)
(* passes when the current phase has the other one.  `gen' is the whole    *)
(* phase number; only gen % 2 is ever read by an operation.                *)
(***************************************************************************)
EXTENDS Integers

Mbars == [gen : Nat, pend : Nat, tx : Int, count : Nat]

\* cute.arch.mbarrier_init(ptr, count)
NewMbar(count) == [gen |-> 0, pend |-> count, tx |-> 0, count |-> count]

\* A phase with nothing missing completes and the next one starts.
Settle(b) ==
    IF b.pend = 0 /\ b.tx = 0
    THEN [b EXCEPT !.gen = @ + 1, !.pend = b.count]
    ELSE b

\* sync_object.arrive: one arrival.
Arrive(b) == Settle([b EXCEPT !.pend = @ - 1])

\* Bytes announced before they are moved, and bytes a TMA copy has moved.
ExpectTx(b, n) == [b EXCEPT !.tx = @ + n]
ArriveExpectTx(b, n) == Settle([b EXCEPT !.pend = @ - 1, !.tx = @ + n])
CompleteTx(b, n) == Settle([b EXCEPT !.tx = @ - n])

\* sync_object.wait(index, phase): the phase of the given parity is over.
Passed(b, parity) == b.gen % 2 # parity

=============================================================================
