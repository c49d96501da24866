----------------------------- MODULE MCAiQueue -----------------------------
(* Instances of AiQueue small enough for TLC. *)
EXTENDS AiQueue, TLC

Symmetry == Permutations(Videos)
=============================================================================
