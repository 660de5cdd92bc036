---------------------------- MODULE MCToolAction ----------------------------
(* Proposers, deciders and connections are interchangeable.                *)
EXTENDS ToolAction, TLC

Symmetry ==
  Permutations(Proposer) \cup Permutations(Decider) \cup Permutations(Connection)
=============================================================================
