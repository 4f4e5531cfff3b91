-------------------------- MODULE MCPlanRebalance --------------------------
(* PlanRebalance for TLC: eight tiles of one head. *)
EXTENDS PlanRebalance

EightTiles == {<<8, 1>>}
=============================================================================
