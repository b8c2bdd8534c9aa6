------------------------------ MODULE MCSMTask ------------------------------
(* Instances of SMTask for TLC. *)
EXTENDS SMTask, TLC

Symmetry == Permutations(Task \ {InitTask})
=============================================================================
