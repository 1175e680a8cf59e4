-------------------------- MODULE MCPodRefinement ---------------------------
(* PodRefinement on small instances, for TLC.                              *)
EXTENDS MCPodLifecycle, PodRefinement
=============================================================================
