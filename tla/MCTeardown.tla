----------------------------- MODULE MCTeardown -----------------------------
(* Teardown on small instances, for TLC.                                   *)
EXTENDS Teardown, TLC

Symmetry == Permutations(Pods)
=============================================================================
