--------------------------- MODULE MCApplication ---------------------------
(* Instances of Application for TLC.                                         *)
EXTENDS Application, TLC

Symmetry == Permutations(Caller)
=============================================================================
