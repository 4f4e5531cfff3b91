--------------------------- MODULE CuteInterface ---------------------------
(***************************************************************************)
(* The two calls of the CuTe interface (interface.py) that build what a    *)
(* kernel is driven by on the device: the sparse forward with its reverse  *)
(* index (SparseIndex), and paged decode with its work list                *)
(* (DecodeAttention).  A behaviour is one call of one of them; the other's *)
(* tensors stay as they were.                                              *)
(***************************************************************************)
EXTENDS SparseIndex, DecodeAttention

ASSUME RequestsAssumption == AttentionAssumption

VARIABLE call      \* "sparse" or "decode"

callVars == <<call, indexVars, allVars>>

CallInit ==
    /\ IndexInit /\ AttentionInit
    /\ \/ call = "sparse" /\ req = (CHOOSE r \in Requests : TRUE) /\ out.info.chunk = 0
       \/ call = "decode" /\ prob = CHOOSE p \in Problems : TRUE

CallNext ==
    /\ UNCHANGED call
    /\ \/ call = "sparse" /\ IndexNext /\ UNCHANGED allVars
       \/ call = "decode" /\ AttentionNext /\ UNCHANGED indexVars

CallSpec == CallInit /\ [][CallNext]_callVars
=============================================================================
