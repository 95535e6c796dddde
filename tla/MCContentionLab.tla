-------------------------- MODULE MCContentionLab --------------------------
(* Instances of ContentionLab for TLC; no symmetry, the run checks liveness.  *)
EXTENDS ContentionLab
=============================================================================
