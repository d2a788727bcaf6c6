--------------------------- MODULE MCVersionedRef ---------------------------
(* Instances of VersionedRef for TLC. *)
EXTENDS VersionedRef, TLC
Symmetry == Permutations(Users)
=============================================================================
