---------------------------- MODULE MCHostCalls ----------------------------
(* HostCalls for TLC: the deployments of the one and the calls of the other. *)
EXTENDS HostCalls, MCKernelCaches, MCCuteInterface
=============================================================================
