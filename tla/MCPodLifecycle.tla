--------------------------- MODULE MCPodLifecycle ---------------------------
(* PodLifecycle on small instances, for TLC.                               *)
EXTENDS PodLifecycle, TLC

(* Pod names are at most 30 characters; these differ within the first 28.  *)
MCTgName == [p \in Pods |-> p]

Symmetry == Permutations(Call)
=============================================================================
