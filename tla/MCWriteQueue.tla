---------------------------- MODULE MCWriteQueue ----------------------------
(* Instances of WriteQueue for TLC; the calls are not declared symmetric, for *)
(* the same run checks liveness.                                              *)
EXTENDS WriteQueue
=============================================================================
