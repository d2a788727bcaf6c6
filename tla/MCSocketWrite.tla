--------------------------- MODULE MCSocketWrite ---------------------------
(* Instances of SocketWrite for TLC. *)
EXTENDS SocketWrite, TLC
Symmetry == Permutations(Writers) \cup Permutations(Keepers)
============================================================================
