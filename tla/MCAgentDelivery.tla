-------------------------- MODULE MCAgentDelivery --------------------------
(* A small instance of AgentDelivery for TLC. *)
EXTENDS AgentDelivery, TLC

Symmetry == Permutations(Callers) \cup Permutations(Bodies)
=============================================================================
