---------------------------- MODULE MCPlanGreedy ----------------------------
(* PlanGreedy for TLC. *)
EXTENDS PlanGreedy
=============================================================================
