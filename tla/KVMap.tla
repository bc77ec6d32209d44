------------------------------- MODULE KVMap -------------------------------
(***************************************************************************)
(* What the bin table of src/src/hash.h promises the threads that call it: *)
(* a map in which every modifying call takes effect at one instant and is  *)
(* answered with the code that this instant justifies.  A call is pending  *)
(* from Invoke until Take.  HASH_BIN_FULL is the one refusal the map       *)
(* itself cannot explain: an insertion of an absent key may always meet    *)
(* it.  Queries leave the map alone; what they may answer is the subject   *)
(* of HashHistory.                                                         *)
(***************************************************************************)
CONSTANTS Clients,  \* threads
          Keys,     \* keys, the two special keys excluded
          Values,   \* values a call may carry
          Ops,      \* operations: the modes of hash_modify and hash_search, NOCHECK
          Absent,   \* what the map holds for a key that is not stored
          NoValue,  \* the value of a call that carries none
          NoCall    \* the call of a client that has none pending

VARIABLES map,   \* key -> value or Absent
          call,  \* client -> its pending call [op, k, v], or NoCall
          code   \* client -> answer of its last call, "PENDING" while one is pending

vars == <<map, call, code>>

Inserting == {"INSERT", "STRICT_INSERT", "NOCHECK"}

Calls == [op : Ops, k : Keys, v : Values \union {NoValue}]

Init == /\ map = [k \in Keys |-> Absent]
        /\ call = [c \in Clients |-> NoCall]
        /\ code = [c \in Clients |-> "NONE"]

Invoke(c) == /\ code[c] # "PENDING"
             /\ \E r \in Calls : call' = [call EXCEPT ![c] = r]
             /\ code' = [code EXCEPT ![c] = "PENDING"]
             /\ UNCHANGED map

(* The pending call of c takes effect with the answer a and leaves m. *)
Effect(c, a, m) == /\ map' = m
                   /\ code' = [code EXCEPT ![c] = a]

Put(k, v) == [map EXCEPT ![k] = v]

Take(c) ==
  LET op   == call[c].op
      k    == call[c].k
      here == map[k] # Absent
  IN /\ code[c] = "PENDING"
     /\ call' = [call EXCEPT ![c] = NoCall]
     /\ \/ /\ op \in {"INSERT", "STRICT_UPDATE"} /\ here
           /\ Effect(c, "SUCCESS", Put(k, call[c].v))
        \/ /\ op \in Inserting /\ ~here
           /\ \/ Effect(c, "SUCCESS", Put(k, call[c].v))
              \/ Effect(c, "HASH_BIN_FULL", map)
        \/ /\ op = "STRICT_INSERT" /\ here
           /\ Effect(c, "ELEMENT_ALREADY_EXISTS", map)
        \/ /\ op = "STRICT_UPDATE" /\ ~here
           /\ Effect(c, "ELEMENT_NOT_FOUND", map)
        \/ /\ op = "HASH_DELETE" /\ here
           /\ Effect(c, "FOUND", Put(k, Absent))
        \/ /\ op = "HASH_DELETE" /\ ~here
           /\ Effect(c, "MISSED", map)
        \/ /\ op = "HASH_QUERY"
           /\ \E a \in {"FOUND", "MISSED"} : Effect(c, a, map)

Next == \E c \in Clients : Invoke(c) \/ Take(c)

Spec == Init /\ [][Next]_vars
=============================================================================
