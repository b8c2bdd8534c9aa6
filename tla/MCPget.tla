------------------------------- MODULE MCPget -------------------------------
(* Instances of Pget for TLC. *)
EXTENDS Pget
=============================================================================
