--------------------------- MODULE MCAgentActions ---------------------------
(* A small instance of AgentActions for TLC. *)
EXTENDS AgentActions, TLC

Symmetry == Permutations(Callers) \cup Permutations(Bodies)
=============================================================================
