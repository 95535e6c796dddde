---------------------------- MODULE MCPromotion ----------------------------
(* Instances of Promotion for TLC: interchangeable commits, versions and     *)
(* runs in the run that checks no liveness.                                  *)
EXTENDS Promotion, TLC

Symmetry == Permutations(Commit) \cup Permutations(Version) \cup Permutations(Run)
=============================================================================
