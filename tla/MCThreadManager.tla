-------------------------- MODULE MCThreadManager --------------------------
(* Instances of ThreadManager for TLC. *)
EXTENDS ThreadManager, TLC

MCTimeouts == {-1, 1}

Symmetry == Permutations(Workers) \cup Permutations(Controllers)
=============================================================================
