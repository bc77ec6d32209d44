-------------------------------- MODULE MCGC --------------------------------
(* Instances of GC for TLC. *)
EXTENDS GC, TLC

Symmetry == Permutations(Objects)
=============================================================================
