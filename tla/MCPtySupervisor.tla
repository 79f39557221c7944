-------------------------- MODULE MCPtySupervisor --------------------------
(* A small instance of PtySupervisor for TLC. *)
EXTENDS PtySupervisor, TLC

Symmetry == Permutations(Incarnations) \cup Permutations(Keys)
=============================================================================
