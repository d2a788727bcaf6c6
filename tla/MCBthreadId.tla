---------------------------- MODULE MCBthreadId ----------------------------
(* Instances of BthreadId for TLC. *)
EXTENDS BthreadId, TLC
Symmetry == Permutations(Procs)
=============================================================================
