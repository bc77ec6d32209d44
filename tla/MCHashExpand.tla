---------------------------- MODULE MCHashExpand ----------------------------
(* An instance of HashExpand for TLC. *)
EXTENDS HashExpand, TLC

CONSTANTS k1, k2, k3

(* From one bin to two to four: k1 and k2 are parted by the second         *)
(* expansion, k3 by the first.                                             *)
Hashes == [x \in Keys |-> CASE x = k1 -> 1 [] x = k2 -> 3 [] x = k3 -> 2]

(* Values are only compared and copied. *)
Symmetry == Permutations(Values)
=============================================================================
