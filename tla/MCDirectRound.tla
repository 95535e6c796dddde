--------------------------- MODULE MCDirectRound ---------------------------
(* Instances of DirectRound for TLC; no symmetry, the run checks liveness.   *)
EXTENDS DirectRound
=============================================================================
