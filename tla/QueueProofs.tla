---------------------------- MODULE QueueProofs ----------------------------
(* The ring of src/src/queue.c is a first-in first-out queue, for every    *)
(* initial size and every sequence of calls.                               *)
EXTENDS Queue, SequenceTheorems, TLAPS

(* Well-formed rings, and the pointers a ring holds. *)
Ring(r) ==
  /\ r.size \in Nat \ {0}
  /\ r = [size |-> r.size, front |-> r.front, back |-> r.back, data |-> r.data]
  /\ r.front \in 0 .. r.size - 1 /\ r.back \in 0 .. r.size - 1
  /\ r.data \in [0 .. r.size - 1 -> Pointers \union {NULL}]

CountOf(r) == IF r.front <= r.back THEN r.back - r.front ELSE r.back + r.size - r.front
PlaceOf(r, i) == IF r.front + i < r.size THEN r.front + i ELSE r.front + i - r.size
Holds(r) == [i \in 1 .. CountOf(r) |-> r.data[PlaceOf(r, i - 1)]]

(* The contents of a queue are those of its ring. *)
LEMMA ContentsHeld == Contents = Holds(q)
  BY DEF Contents, Holds, Count, CountOf, Place, PlaceOf

(* A new ring is well formed and holds nothing (queue.c:6-15). *)
LEMMA Constructed == Ring(queue_construct(InitSize)) /\ Holds(queue_construct(InitSize)) = <<>>
<1> DEFINE r == queue_construct(InitSize)
<1>1. Ring(r)
  BY SizeAssumption DEF Ring, queue_construct
<1>2. CountOf(r) = 0
  BY SizeAssumption DEF CountOf, queue_construct
<1>3. Holds(r) = <<>>
  BY <1>2 DEF Holds
<1> QED BY <1>1, <1>3

(* A ring holds a sequence of its pointers. *)
LEMMA HoldsSeq ==
  ASSUME NEW r, Ring(r)
  PROVE /\ CountOf(r) \in Nat
        /\ Holds(r) \in Seq(Pointers \union {NULL})
        /\ Len(Holds(r)) = CountOf(r)
        /\ DOMAIN Holds(r) = 1 .. CountOf(r)
        /\ \A i \in 0 .. CountOf(r) - 1 : PlaceOf(r, i) \in 0 .. r.size - 1
<1>1. CountOf(r) \in Nat
  BY DEF CountOf, Ring
<1>2. \A i \in 0 .. CountOf(r) - 1 : PlaceOf(r, i) \in 0 .. r.size - 1
  BY DEF PlaceOf, CountOf, Ring
<1>3. \A i \in 1 .. CountOf(r) : r.data[PlaceOf(r, i - 1)] \in Pointers \union {NULL}
  <2> TAKE i \in 1 .. CountOf(r)
  <2>1. i - 1 \in 0 .. CountOf(r) - 1
    BY <1>1
  <2>2. PlaceOf(r, i - 1) \in 0 .. r.size - 1
    BY <1>2, <2>1
  <2> QED BY <2>2 DEF Ring
<1>4. Holds(r) \in [1 .. CountOf(r) -> Pointers \union {NULL}]
  BY <1>3 DEF Holds
<1> QED BY <1>1, <1>2, <1>4

(* queue_expand keeps what the ring holds and leaves a place free          *)
(* (queue.c:30-41).                                                        *)
LEMMA Expanded ==
  ASSUME Ring(q), queue_full
  PROVE /\ Ring(queue_expand) /\ Holds(queue_expand) = Holds(q)
        /\ queue_expand.front = 0 /\ queue_expand.back < queue_expand.size - 1
<1> DEFINE r == queue_expand
<1>1. /\ r.size = 2 * q.size /\ r.front = 0 /\ r.back = q.size - 1
      /\ r.data = [i \in 0 .. 2 * q.size - 1 |->
               IF i < q.size - q.front THEN q.data[q.front + i]
               ELSE IF q.front > q.back /\ i < q.size - q.front + q.back
               THEN q.data[i - (q.size - q.front)]
               ELSE NULL]
  BY DEF queue_expand
<1>2. /\ q.size \in Nat \ {0} /\ q.front \in 0 .. q.size - 1 /\ q.back \in 0 .. q.size - 1
      /\ q.data \in [0 .. q.size - 1 -> Pointers \union {NULL}]
  BY DEF Ring
<1>3. r.data \in [0 .. r.size - 1 -> Pointers \union {NULL}]
  <2> SUFFICES ASSUME NEW i \in 0 .. 2 * q.size - 1
               PROVE (IF i < q.size - q.front THEN q.data[q.front + i]
                      ELSE IF q.front > q.back /\ i < q.size - q.front + q.back
                      THEN q.data[i - (q.size - q.front)]
                      ELSE NULL) \in Pointers \union {NULL}
    BY <1>1
  <2>1. i < q.size - q.front => q.front + i \in 0 .. q.size - 1
    BY <1>2
  <2>2. ~(i < q.size - q.front) /\ q.front > q.back /\ i < q.size - q.front + q.back
          => i - (q.size - q.front) \in 0 .. q.size - 1
    BY <1>2
  <2> QED BY <1>2, <2>1, <2>2
<1>4. Ring(r)
  <2>1. r = [size |-> r.size, front |-> r.front, back |-> r.back, data |-> r.data]
    BY DEF queue_expand
  <2>2. r.size \in Nat \ {0} /\ r.front \in 0 .. r.size - 1 /\ r.back \in 0 .. r.size - 1
    BY <1>1, <1>2
  <2> QED BY <1>3, <2>1, <2>2 DEF Ring
<1>5. CountOf(q) = q.size - 1 /\ CountOf(r) = q.size - 1
  <2>1. CountOf(q) = q.size - 1
    BY <1>2 DEF queue_full, CountOf
  <2>2. r.front = 0 /\ r.back = q.size - 1
    BY <1>1
  <2>3. CountOf(r) = r.back - r.front
    BY <1>2, <2>2 DEF CountOf
  <2> QED BY <1>2, <2>1, <2>2, <2>3
<1>6. \A i \in 1 .. q.size - 1 : r.data[PlaceOf(r, i - 1)] = q.data[PlaceOf(q, i - 1)]
  <2> TAKE i \in 1 .. q.size - 1
  <2>1. PlaceOf(r, i - 1) = i - 1 /\ i - 1 \in 0 .. 2 * q.size - 1
    BY <1>1, <1>2 DEF PlaceOf
  <2>2. CASE i - 1 < q.size - q.front
    <3>1. PlaceOf(q, i - 1) = q.front + (i - 1)
      BY <1>2, <2>2 DEF PlaceOf
    <3> QED BY <1>1, <2>1, <2>2, <3>1
  <2>3. CASE ~(i - 1 < q.size - q.front)
    <3>1. PlaceOf(q, i - 1) = (i - 1) - (q.size - q.front)
      BY <1>2, <2>3 DEF PlaceOf
    <3>2. q.front > q.back /\ i - 1 < q.size - q.front + q.back
      BY <1>2, <2>3 DEF queue_full
    <3> QED BY <1>1, <2>1, <2>3, <3>1, <3>2
  <2> QED BY <2>2, <2>3
<1>7. Holds(r) = Holds(q)
  BY <1>5, <1>6 DEF Holds
<1> QED BY <1>1, <1>2, <1>4, <1>7

(* In a ring with a free place, Store adds a pointer at the end            *)
(* (queue.c:47-49).                                                        *)
LEMMA Stored ==
  ASSUME NEW r, Ring(r), NEW d \in Pointers,
         ~(r.back + 1 = r.front \/ (r.back = r.size - 1 /\ r.front = 0))
  PROVE Ring(Store(r, d)) /\ Holds(Store(r, d)) = Append(Holds(r), d)
<1> DEFINE s == Store(r, d)
<1>1. /\ r.size \in Nat \ {0} /\ r.front \in 0 .. r.size - 1 /\ r.back \in 0 .. r.size - 1
      /\ r.data \in [0 .. r.size - 1 -> Pointers \union {NULL}]
      /\ r = [size |-> r.size, front |-> r.front, back |-> r.back, data |-> r.data]
  BY DEF Ring
<1>2. /\ s.size = r.size /\ s.front = r.front /\ s.back = After(r.back, r.size)
      /\ s.data = [r.data EXCEPT ![r.back] = d]
      /\ s = [size |-> s.size, front |-> s.front, back |-> s.back, data |-> s.data]
  <2>1. s = [size |-> r.size, front |-> r.front, back |-> After(r.back, r.size),
             data |-> [r.data EXCEPT ![r.back] = d]]
    BY DEF Store
  <2> QED BY <2>1
<1>3. After(r.back, r.size) \in 0 .. r.size - 1
  BY <1>1 DEF After
<1>4. s.data \in [0 .. s.size - 1 -> Pointers \union {NULL}]
  BY <1>1, <1>2
<1>5. Ring(s)
  BY <1>1, <1>2, <1>3, <1>4 DEF Ring
<1>6. CountOf(s) = CountOf(r) + 1 /\ PlaceOf(r, CountOf(r)) = r.back
  <2>1. /\ r.size \in Nat \ {0} /\ r.front \in 0 .. r.size - 1 /\ r.back \in 0 .. r.size - 1
        /\ s.size = r.size /\ s.front = r.front
        /\ s.back = IF r.back + 1 = r.size THEN 0 ELSE r.back + 1
    BY <1>1, <1>2 DEF After
  <2>2. PlaceOf(r, CountOf(r)) = r.back
    BY <2>1 DEF CountOf, PlaceOf
  <2>3. CountOf(s) = CountOf(r) + 1
    BY <2>1 DEF CountOf
  <2> QED BY <2>2, <2>3
<1>7. \A i \in 1 .. CountOf(r) : PlaceOf(r, i - 1) # r.back
  BY <1>1 DEF CountOf, PlaceOf
<1>8. /\ Holds(r) \in Seq(Pointers \union {NULL}) /\ Len(Holds(r)) = CountOf(r)
      /\ Holds(s) \in Seq(Pointers \union {NULL}) /\ Len(Holds(s)) = CountOf(r) + 1
      /\ DOMAIN Holds(s) = 1 .. CountOf(r) + 1 /\ CountOf(r) \in Nat
  BY <1>5, <1>6, HoldsSeq
<1>9. \A i \in 1 .. CountOf(r) + 1 :
         Holds(s)[i] = IF i = CountOf(r) + 1 THEN d ELSE Holds(r)[i]
  <2> TAKE i \in 1 .. CountOf(r) + 1
  <2>1. CountOf(r) \in Nat
    BY HoldsSeq
  <2>2. PlaceOf(s, i - 1) = PlaceOf(r, i - 1) /\ Holds(s)[i] = s.data[PlaceOf(s, i - 1)]
    BY <1>2, <1>6 DEF PlaceOf, Holds
  <2>3. CASE i = CountOf(r) + 1
    <3>1. PlaceOf(s, i - 1) = r.back
      BY <1>6, <2>1, <2>2, <2>3
    <3> QED BY <1>1, <1>2, <2>2, <2>3, <3>1
  <2>4. CASE i # CountOf(r) + 1
    <3>1. i \in 1 .. CountOf(r) /\ i - 1 \in 0 .. CountOf(r) - 1
      BY <2>1, <2>4
    <3>2. PlaceOf(r, i - 1) # r.back /\ PlaceOf(r, i - 1) \in 0 .. r.size - 1
      BY <1>7, <3>1, HoldsSeq
    <3>3. s.data[PlaceOf(s, i - 1)] = r.data[PlaceOf(r, i - 1)]
      BY <1>1, <1>2, <2>2, <3>2
    <3> QED BY <2>2, <2>4, <3>1, <3>3 DEF Holds
  <2> QED BY <2>3, <2>4
<1>10. Holds(s) = Append(Holds(r), d)
  <2> DEFINE S == Pointers \union {NULL}
             t == Append(Holds(r), d)
  <2>1. /\ t \in Seq(S) /\ Len(t) = CountOf(r) + 1
        /\ \A i \in 1 .. CountOf(r) : t[i] = Holds(r)[i]
        /\ t[CountOf(r) + 1] = d
    BY <1>8, AppendProperties
  <2>2. \A i \in 1 .. Len(Holds(s)) : Holds(s)[i] = t[i]
    BY <1>8, <1>9, <2>1
  <2> HIDE DEF t
  <2> QED BY <1>8, <2>1, <2>2, SeqEqual
<1> QED BY <1>5, <1>10

(* A pop takes the oldest pointer away (queue.c:60-68). *)
LEMMA Popped ==
  ASSUME NEW r, Ring(r), r.back # r.front
  PROVE LET s == [r EXCEPT !.front = After(r.front, r.size)]
        IN /\ Ring(s) /\ Holds(s) = Tail(Holds(r))
           /\ Holds(r) # <<>> /\ Head(Holds(r)) = r.data[r.front]
<1> DEFINE s == [r EXCEPT !.front = After(r.front, r.size)]
<1>1. /\ r.size \in Nat \ {0} /\ r.front \in 0 .. r.size - 1 /\ r.back \in 0 .. r.size - 1
      /\ r.data \in [0 .. r.size - 1 -> Pointers \union {NULL}]
      /\ r = [size |-> r.size, front |-> r.front, back |-> r.back, data |-> r.data]
  BY DEF Ring
<1>2. /\ s.size = r.size /\ s.back = r.back /\ s.data = r.data
      /\ s.front = After(r.front, r.size)
      /\ s = [size |-> s.size, front |-> s.front, back |-> s.back, data |-> s.data]
  BY <1>1
<1>3. After(r.front, r.size) \in 0 .. r.size - 1
  BY <1>1 DEF After
<1>4. Ring(s)
  BY <1>1, <1>2, <1>3 DEF Ring
<1>5. CountOf(r) \in Nat \ {0} /\ CountOf(s) = CountOf(r) - 1 /\ PlaceOf(r, 0) = r.front
  BY <1>1, <1>2 DEF CountOf, PlaceOf, After
<1>6. /\ Holds(r) \in Seq(Pointers \union {NULL}) /\ Len(Holds(r)) = CountOf(r)
  BY HoldsSeq
<1>7. Holds(r) # <<>> /\ Head(Holds(r)) = r.data[r.front]
  <2>1. Holds(r)[1] = r.data[r.front]
    BY <1>5 DEF Holds
  <2> QED BY <1>5, <1>6, <2>1
<1>8. /\ Holds(s) \in Seq(Pointers \union {NULL}) /\ Len(Holds(s)) = CountOf(r) - 1
  BY <1>4, <1>5, HoldsSeq
<1>9. \A i \in 1 .. CountOf(r) - 1 : Holds(s)[i] = Holds(r)[i + 1]
  <2> TAKE i \in 1 .. CountOf(r) - 1
  <2>1. PlaceOf(s, i - 1) = PlaceOf(r, i)
    <3>1. /\ r.size \in Nat \ {0} /\ r.front \in 0 .. r.size - 1 /\ s.size = r.size
          /\ s.front = IF r.front + 1 = r.size THEN 0 ELSE r.front + 1
      BY <1>1, <1>2 DEF After
    <3>2. i \in 1 .. r.size - 1
      BY <1>1 DEF CountOf
    <3> HIDE DEF s
    <3> QED BY <3>1, <3>2 DEF PlaceOf
  <2>2. i + 1 \in 1 .. CountOf(r) /\ (i + 1) - 1 = i
    BY <1>5
  <2>3. Holds(r)[i + 1] = r.data[PlaceOf(r, (i + 1) - 1)]
    BY <2>2 DEF Holds
  <2>4. Holds(s)[i] = s.data[PlaceOf(s, i - 1)]
    BY <1>5 DEF Holds
  <2> QED BY <1>2, <2>1, <2>2, <2>3, <2>4
<1>10. Holds(s) = Tail(Holds(r))
  <2> DEFINE S == Pointers \union {NULL}
             t == Tail(Holds(r))
  <2>1. /\ t \in Seq(S) /\ Len(t) = CountOf(r) - 1
        /\ \A i \in 1 .. Len(t) : t[i] = Holds(r)[i + 1]
    BY <1>6, <1>7, HeadTailProperties
  <2>2. \A i \in 1 .. Len(Holds(s)) : Holds(s)[i] = t[i]
    BY <1>8, <1>9, <2>1
  <2>3. Len(Holds(s)) = Len(t)
    BY <1>8, <2>1
  <2>4. Holds(s) = t
    <3> HIDE DEF s, t
    <3> QED BY <1>8, <2>1, <2>2, <2>3, SeqEqual
  <2> QED BY <2>4
<1> QED BY <1>4, <1>7, <1>10

(* An empty ring holds nothing. *)
LEMMA EmptyHolds == ASSUME NEW r, Ring(r), r.back = r.front PROVE Holds(r) = <<>>
<1>1. CountOf(r) = 0
  BY DEF CountOf, Ring
<1> QED BY <1>1 DEF Holds
-----------------------------------------------------------------------------
LEMMA TypeIsRing == TypeOK <=> Ring(q) /\ got \in Pointers \union {NULL}
  BY DEF TypeOK, Ring

(* What queue_front and queue_pop answer is the oldest pointer. *)
LEMMA FirstHeld == ASSUME TypeOK PROVE First = F!First /\ First \in Pointers \union {NULL}
<1>1. Ring(q)
  BY TypeIsRing
<1>2. CASE queue_empty
  <2>1. Contents = <<>>
    BY <1>1, <1>2, ContentsHeld, EmptyHolds DEF queue_empty
  <2> QED BY <1>2, <2>1 DEF First, F!First
<1>3. CASE ~queue_empty
  <2>1. Contents # <<>> /\ Head(Contents) = q.data[q.front]
    BY <1>1, <1>3, ContentsHeld, Popped DEF queue_empty
  <2>2. q.data[q.front] \in Pointers \union {NULL}
    BY <1>1 DEF Ring
  <2> QED BY <1>3, <2>1, <2>2 DEF First, F!First
<1> QED BY <1>2, <1>3

(* A push keeps the ring well formed and appends, whether or not the ring  *)
(* had to grow.                                                            *)
LEMMA PushStep ==
  ASSUME TypeOK, NEW d \in Pointers, queue_push(d)
  PROVE TypeOK' /\ F!Push(d)
<1>1. Ring(q) /\ got \in Pointers \union {NULL}
  BY TypeIsRing
<1>2. Ring(q') /\ Holds(q') = Append(Holds(q), d)
  <2>1. CASE queue_full
    <3>1. /\ Ring(queue_expand) /\ Holds(queue_expand) = Holds(q)
          /\ queue_expand.front = 0 /\ queue_expand.back < queue_expand.size - 1
      BY <1>1, <2>1, Expanded
    <3>2. ~(queue_expand.back + 1 = queue_expand.front
              \/ (queue_expand.back = queue_expand.size - 1 /\ queue_expand.front = 0))
      BY <3>1 DEF Ring
    <3>3. q' = Store(queue_expand, d)
      BY <2>1 DEF queue_push
    <3> QED BY <3>1, <3>2, <3>3, Stored
  <2>2. CASE ~queue_full
    <3>1. q' = Store(q, d)
      BY <2>2 DEF queue_push
    <3> QED BY <1>1, <2>2, <3>1, Stored DEF queue_full
  <2> QED BY <2>1, <2>2
<1>3. Contents' = Append(Contents, d)
  <2>1. Contents' = Holds(q')
    BY ContentsHeld DEF Contents, Holds, Count, CountOf, Place, PlaceOf
  <2> QED BY <1>2, <2>1, ContentsHeld
<1>4. got' = got
  BY DEF queue_push
<1>5. TypeOK'
  BY <1>1, <1>2, <1>4 DEF TypeOK, Ring
<1> QED BY <1>3, <1>4, <1>5 DEF F!Push, F!Calls, Calls, queue_push

LEMMA FrontStep == ASSUME TypeOK, queue_front PROVE TypeOK' /\ F!Front
<1>1. Contents' = Contents
  BY DEF queue_front, Contents, Count, Place
<1>2. got' = First /\ q' = q
  BY DEF queue_front
<1>3. TypeOK'
  BY <1>2, FirstHeld DEF TypeOK
<1> QED BY <1>1, <1>2, <1>3, FirstHeld DEF F!Front, F!Calls, Calls, queue_front

LEMMA PopStep == ASSUME TypeOK, queue_pop PROVE TypeOK' /\ F!Pop
<1>1. Ring(q)
  BY TypeIsRing
<1>2. got' = F!First /\ got' \in Pointers \union {NULL}
  BY FirstHeld DEF queue_pop
<1>3. Contents' = Holds(q')
  BY DEF Contents, Holds, Count, CountOf, Place, PlaceOf
<1>4. CASE queue_empty
  <2>1. q' = q
    BY <1>4 DEF queue_pop
  <2>2. Contents = <<>> /\ Contents' = Contents
    BY <1>1, <1>3, <1>4, <2>1, ContentsHeld, EmptyHolds DEF queue_empty
  <2>3. TypeOK'
    BY <1>2, <2>1 DEF TypeOK
  <2> QED BY <1>2, <2>2, <2>3 DEF F!Pop, F!Calls, Calls, queue_pop
<1>5. CASE ~queue_empty
  <2>1. q' = [q EXCEPT !.front = After(q.front, q.size)]
    BY <1>5 DEF queue_pop
  <2>2. Ring(q') /\ Contents' = Tail(Contents) /\ Contents # <<>>
    BY <1>1, <1>3, <1>5, <2>1, ContentsHeld, Popped DEF queue_empty
  <2>3. TypeOK'
    BY <1>2, <2>2 DEF TypeOK, Ring
  <2> QED BY <1>2, <2>2, <2>3 DEF F!Pop, F!Calls, Calls, queue_pop
<1> QED BY <1>4, <1>5

(* The first step of the ring is a first state of the queue. *)
LEMMA InitStep == Init => TypeOK /\ F!Init
<1> SUFFICES ASSUME Init PROVE TypeOK /\ F!Init
  OBVIOUS
<1>1. q = queue_construct(InitSize) /\ got = NULL /\ call = <<>> /\ turn = 0
  BY DEF Init
<1>2. Ring(q) /\ Holds(q) = <<>>
  BY <1>1, Constructed
<1> QED BY <1>1, <1>2, ContentsHeld, TypeIsRing DEF F!Init

(* Every step of the ring is a step of the queue, or none. *)
LEMMA NextStep == TypeOK /\ [Next]_vars => TypeOK' /\ [F!Next]_F!vars
<1> SUFFICES ASSUME TypeOK, [Next]_vars PROVE TypeOK' /\ [F!Next]_F!vars
  OBVIOUS
<1>1. ASSUME NEW d \in Pointers, queue_push(d) PROVE TypeOK' /\ F!Next
  BY <1>1, PushStep DEF F!Next
<1>2. CASE queue_front
  BY <1>2, FrontStep DEF F!Next
<1>3. CASE queue_pop
  BY <1>3, PopStep DEF F!Next
<1>4. CASE UNCHANGED vars
  <2>1. q' = q /\ got' = got /\ call' = call /\ turn' = turn
    BY <1>4 DEF vars
  <2>2. Contents' = Contents
    BY <2>1 DEF Contents, Count, Place
  <2> QED BY <2>1, <2>2 DEF TypeOK, F!vars
<1> QED BY <1>1, <1>2, <1>3, <1>4 DEF Next

(* The ring stays within the memory allocated for it, for every initial    *)
(* size: no call reads or writes past data (queue.c:30-68).                *)
THEOREM RingInBounds == Spec => []TypeOK
<1>1. Init => TypeOK
  BY InitStep
<1>2. TypeOK /\ [Next]_vars => TypeOK'
  BY NextStep
<1> QED BY <1>1, <1>2, PTL DEF Spec

(* The growing ring implements the unbounded queue, for every initial      *)
(* size, every set of pointers and every number of expansions: nothing is  *)
(* lost, repeated or reordered (queue.c:30-68).                            *)
THEOREM QueueIsFIFO == Spec => ImplementsFIFO
<1>1. Init => F!Init
  BY InitStep
<1>2. TypeOK /\ [Next]_vars => [F!Next]_F!vars
  BY NextStep
<1> QED BY <1>1, <1>2, RingInBounds, PTL DEF Spec, ImplementsFIFO, F!Spec
=============================================================================
