-------------------------- MODULE MCExecutionQueue --------------------------
(* Instances of ExecutionQueue for TLC. *)
EXTENDS ExecutionQueue, TLC
Symmetry == Permutations(Callers) \cup Permutations(Workers)
=============================================================================
