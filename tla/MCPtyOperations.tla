-------------------------- MODULE MCPtyOperations --------------------------
(* Small instances of PtyOperations for TLC. *)
EXTENDS PtyOperations, TLC

Symmetry == Permutations(Callers) \cup Permutations(Inodes) \cup Permutations(Ops) \cup Permutations(Keys)
=============================================================================
