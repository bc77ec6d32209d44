-------------------------------- MODULE FIFO --------------------------------
(***************************************************************************)
(* What queue.h promises to index_compact, which visits the nodes of the   *)
(* tree in the order in which it pushed them: an unbounded first-in        *)
(* first-out queue.                                                        *)
(***************************************************************************)
EXTENDS Integers, Sequences

CONSTANTS Pointers, NULL

VARIABLES items,
          got,    \* what queue_front or queue_pop answered last
          call,   \* the last call
          turn    \* flips with every call, so that no call looks like none

vars == <<items, got, call, turn>>

Init == items = <<>> /\ got = NULL /\ call = <<>> /\ turn = 0

First == IF items = <<>> THEN NULL ELSE Head(items)

Calls(c) == call' = c /\ turn' = 1 - turn

Push(d) == items' = Append(items, d) /\ got' = got /\ Calls(<<"push", d>>)

Front == items' = items /\ got' = First /\ Calls(<<"front">>)

Pop == /\ items' = IF items = <<>> THEN items ELSE Tail(items)
       /\ got' = First
       /\ Calls(<<"pop">>)

Next == (\E d \in Pointers : Push(d)) \/ Front \/ Pop

Spec == Init /\ [][Next]_vars
=============================================================================
