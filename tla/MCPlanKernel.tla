---------------------------- MODULE MCPlanKernel ----------------------------
(***************************************************************************)
(* PlanKernel for TLC.  On six SMs, four tiles of one head are few enough  *)
(* for the linear fill, which cuts them past full SMs and past the last    *)
(* one; three rows of two heads go to the rounds, where threads race for   *)
(* the last sub id.                                                        *)
(***************************************************************************)
EXTENDS PlanKernel

FillAndRounds == {<<4, 1>>, <<3, 2>>}
=============================================================================
