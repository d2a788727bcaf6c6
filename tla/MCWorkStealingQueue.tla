------------------------ MODULE MCWorkStealingQueue ------------------------
(* Instances of WorkStealingQueue for TLC. *)
EXTENDS WorkStealingQueue, TLC
Symmetry == Permutations(Thieves)
============================================================================
