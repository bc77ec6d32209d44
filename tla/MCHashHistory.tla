--------------------------- MODULE MCHashHistory ---------------------------
(* Instances of HashHistory for TLC. *)
EXTENDS HashHistory

CONSTANTS t1, t2, k1, k2

OneBin == [k \in Keys |-> 0]

(* Each key is left to one thread. *)
OneWriter == [k \in Keys |-> IF k = k2 THEN {t2} ELSE {t1}]
=============================================================================
