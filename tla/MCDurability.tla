---------------------------- MODULE MCDurability ----------------------------
(* Instances of Durability for TLC.                                          *)
EXTENDS Durability
=============================================================================
