---------------------------- MODULE MCHashTable ----------------------------
(* Instances of HashTable for TLC. *)
EXTENDS HashTable, TLC

CONSTANTS t1, t2, k1, k2

(* All keys hash to one bin. *)
OneBin == [k \in Keys |-> 0]

(* Any thread modifies any key, or each key is left to one thread. *)
AnyWriter == [k \in Keys |-> Threads]
OneWriter == [k \in Keys |-> IF k = k2 THEN {t2} ELSE {t1}]

(* No step reads ret: the invariants of a run that leaves it out of the    *)
(* states' identity are not affected.                                      *)
NoRet == <<key, val, count, tree, pc, call, loc>>

Symmetry == Permutations(Threads) \union Permutations(Data)
=============================================================================
