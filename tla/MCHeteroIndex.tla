--------------------------- MODULE MCHeteroIndex ---------------------------
(* Instances of HeteroIndex for TLC. *)
EXTENDS HeteroIndex

CONSTANT special

(* Nodes of three, four and five children stand for 4, 16 and 48; a node   *)
(* shrinks when it has one child less than the smaller type can hold.      *)
Caps == <<3, 4, 5>>
Lows == <<0, 2, 3, 4>>

(* Keys of eight bytes that differ in three of them.  A byte over 127 is   *)
(* negative to a NODE16.                                                   *)
KeyOf(a, b, c) == <<a, 5, 5, b, 5, c, 5, 5>>

OnMedium(type) ==
  IF type = SSD_TYPE
  THEN {KeyOf(200, 1, 1), KeyOf(200, 2, 1), KeyOf(2, 1, 1), KeyOf(4, 1, 1), KeyOf(130, 1, 1)}
  ELSE {KeyOf(200, 1, 2), KeyOf(200, 2, 2), KeyOf(1, 1, 1)}

EightKeys == OnMedium(SSD_TYPE) \union OnMedium(MEM_TYPE)
ByMedium == [k \in Keys |-> {type \in {MEM_TYPE, SSD_TYPE} : k \in OnMedium(type)}]
SumOfBytes == [k \in Keys |-> FoldLeft(LAMBDA h, c : h + c, 0, k)]

(* The keys that make a tree of three levels and then an expansion, those  *)
(* that make a node of five children, or two keys beside a special one.    *)
Deep == EightKeys \ {KeyOf(130, 1, 1)}
Wide == EightKeys \ {KeyOf(200, 2, 1), KeyOf(200, 2, 2)}
DeepWideOrSpecial == {Deep, Wide, {KeyOf(200, 1, 2), KeyOf(2, 1, 1), special}}

(* Two values for one key tell an old value from a new one. *)
OneTwo == [k \in Keys \union SpecialKeys |-> IF k = KeyOf(200, 1, 2) THEN {1, 2} ELSE {1}]
=============================================================================
