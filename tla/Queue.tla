------------------------------- MODULE Queue -------------------------------
(***************************************************************************)
(* The growing ring of src/src/queue.c.  The queue is the struct: front is *)
(* the place of the oldest pointer, back the place of the next one, and    *)
(* one place of data always stays free, so that front = back means empty.  *)
(***************************************************************************)
EXTENDS Integers, Sequences

CONSTANTS Pointers,   \* what is pushed
          NULL,
          InitSize,   \* the size given to queue_construct
          MaxSize     \* bound on the size

(* queue_construct(0) is left out: the first push would write past data. *)
ASSUME SizeAssumption == InitSize \in Nat \ {0} /\ MaxSize \in Nat /\ NULL \notin Pointers

VARIABLES q,     \* the queue
          got,   \* what queue_front or queue_pop answered last
          call,  \* history: the last call
          turn   \* history: flips with every call

vars == <<q, got, call, turn>>

Calls(c) == call' = c /\ turn' = 1 - turn

(* calloc fills data with NULL. *)
queue_construct(size) ==
  [size |-> size, front |-> 0, back |-> 0, data |-> [i \in 0 .. size - 1 |-> NULL]]

queue_empty == q.back = q.front

(* A mistake to catch: the ring that is full with front at 0 is forgotten. *)
MFull == q.back + 1 = q.front

queue_full == q.back + 1 = q.front \/ (q.back = q.size - 1 /\ q.front = 0)

(* A mistake to catch: what has wrapped around is not copied. *)
MExpand ==
  [size |-> 2 * q.size, front |-> 0, back |-> q.size - 1,
   data |-> [i \in 0 .. 2 * q.size - 1 |-> IF i < q.size - q.front THEN q.data[q.front + i] ELSE NULL]]

(* The places from front on are copied first, then those that wrapped. *)
queue_expand ==
  [size |-> 2 * q.size, front |-> 0, back |-> q.size - 1,
   data |-> [i \in 0 .. 2 * q.size - 1 |->
               IF i < q.size - q.front THEN q.data[q.front + i]
               ELSE IF q.front > q.back /\ i < q.size - q.front + q.back
               THEN q.data[i - (q.size - q.front)]
               ELSE NULL]]

(* A mistake to catch: the end of the ring is noticed one place too late. *)
MAfter(i, size) == IF i = size THEN 0 ELSE i + 1

(* The place after i in a ring. *)
After(i, size) == IF i + 1 = size THEN 0 ELSE i + 1

Store(r, d) == [size |-> r.size, front |-> r.front, back |-> After(r.back, r.size),
                data |-> [r.data EXCEPT ![r.back] = d]]

queue_push(d) == /\ queue_full => 2 * q.size <= MaxSize
                 /\ q' = Store(IF queue_full THEN queue_expand ELSE q, d)
                 /\ UNCHANGED got /\ Calls(<<"push", d>>)

First == IF queue_empty THEN NULL ELSE q.data[q.front]

queue_front == got' = First /\ UNCHANGED q /\ Calls(<<"front">>)

queue_pop == /\ got' = First
             /\ q' = IF queue_empty THEN q ELSE [q EXCEPT !.front = After(q.front, q.size)]
             /\ Calls(<<"pop">>)

Init == q = queue_construct(InitSize) /\ got = NULL /\ call = <<>> /\ turn = 0

Next == (\E d \in Pointers : queue_push(d)) \/ queue_front \/ queue_pop

Spec == Init /\ [][Next]_vars
-----------------------------------------------------------------------------
(* The places of the ring are the memory that was allocated, through every *)
(* expansion and every turn of front and back (queue.c:32, 34, 47, 64).    *)
TypeOK ==
  /\ q.size \in Nat \ {0}
  /\ q = [size |-> q.size, front |-> q.front, back |-> q.back, data |-> q.data]
  /\ q.front \in 0 .. q.size - 1 /\ q.back \in 0 .. q.size - 1
  /\ q.data \in [0 .. q.size - 1 -> Pointers \union {NULL}]
  /\ got \in Pointers \union {NULL}

(* The pointers in the queue, oldest first. *)
Count == IF q.front <= q.back THEN q.back - q.front ELSE q.back + q.size - q.front
Place(i) == IF q.front + i < q.size THEN q.front + i ELSE q.front + i - q.size
Contents == [i \in 1 .. Count |-> q.data[Place(i - 1)]]

F == INSTANCE FIFO WITH items <- Contents

(* The ring is a first-in first-out queue: no pointer is lost, repeated or *)
(* moved out of order when the ring turns, fills up or is copied to twice  *)
(* its size, and index_compact meets every node once (queue.c:30-68).      *)
ImplementsFIFO == F!Spec
=============================================================================
