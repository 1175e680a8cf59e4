---------------------------- MODULE MCIdleReaper ----------------------------
(* IdleReaper on small instances, for TLC.                                 *)
EXTENDS IdleReaper, TLC

MCTgName == [p \in Pods |-> p]

Symmetry == Permutations(Call \ ReaperCalls) \cup Permutations(ReaperCalls)
=============================================================================
