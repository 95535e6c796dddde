----------------------------- MODULE DurableLog -----------------------------
(***************************************************************************)
(* What a deployment promises about committed increments: a log that grows *)
(* at its end, of which a prefix is stable.  The prefix never shrinks, and *)
(* a loss takes the log back to it: increments are neither reordered, nor  *)
(* replaced, nor lost from the middle.                                     *)
(***************************************************************************)
EXTENDS Integers, Sequences

CONSTANT Id   \* names of increments

VARIABLES log,     \* the committed increments, oldest first
          stable   \* how many of them survive the loss of the pod

vars == <<log, stable>>

Init == log = <<>> /\ stable = 0

Commit == \E id \in Id : log' = Append(log, id) /\ UNCHANGED stable

Stabilize == stable' \in stable + 1 .. Len(log) /\ UNCHANGED log

Lose == log' = SubSeq(log, 1, stable) /\ UNCHANGED stable

Next == Commit \/ Stabilize \/ Lose

Spec == Init /\ [][Next]_vars
=============================================================================
