----------------------------- MODULE HashHistory -----------------------------
(***************************************************************************)
(* The table of HashTable with a history variable: what the table held for *)
(* a key while a query for it was running.  It lets the answers of         *)
(* hash_search (src/src/hash.c 172-193) be judged.                         *)
(***************************************************************************)
EXTENDS HashTable

VARIABLE seen   \* thread -> what the table held for its key since its query began

hvars == <<vars, seen>>

Querying(t) == pc[t] \in {"scan", "q_val", "q_check"} /\ call[t].op = "HASH_QUERY"

HInit == Init /\ seen = [t \in Threads |-> {}]

Observe == seen' = [t \in Threads |-> IF Querying(t)' THEN seen[t] \union {Lookup(call[t].k)'}
                                                      ELSE {}]

HNext == (\E t \in Threads : Begin(t) \/ Step(t)) /\ Observe

HSpec == HInit /\ [][HNext]_hvars
-----------------------------------------------------------------------------
QueryReturns(t) == Querying(t) /\ pc'[t] = "idle"

(* hash_search answers MISSED only if the key was out of the table at some *)
(* time during the query, and FOUND only with a value the key had during   *)
(* the query, unless the key was removed during it (hash.c:182-183: the    *)
(* second look at the key does not notice a removal and a return).         *)
QuerySound ==
  [][\A t \in Threads : QueryReturns(t) =>
        \/ Absent \in seen[t]
        \/ ret'[t] = "FOUND" /\ loc[t].res \in seen[t]]_hvars
=============================================================================
