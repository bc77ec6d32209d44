--------------------------- MODULE HashTableProofs ---------------------------
(***************************************************************************)
(* Proofs about HashTable, for any number of threads, keys, bins and       *)
(* entries per bin.                                                        *)
(***************************************************************************)
EXTENDS HashTable, FiniteSetTheorems, TLAPS

(* The words of the table and the thread variables have their types in the *)
(* table hash_construct returns.                                           *)
LEMMA TypeInit == Init => TypeOK
<1> SUFFICES ASSUME Init PROVE TypeOK
  OBVIOUS
<1>1. Fresh \in Locals
  BY BinAssumption DEF Fresh, Locals, Pos, NONE, Words
<1>2. TableOK
  BY CountAssumption DEF Init, TableOK, Words
<1>3. \A t \in Threads : ThreadOK(t)
  BY DEF Init, ThreadOK
<1> QED
  BY <1>1, <1>2, <1>3 DEF Init, TypeOK, Codes, Labels

(* The entry a thread is at is an entry of the table. *)
LEMMA SlotType ==
  ASSUME NEW t \in Threads, call[t] \in Calls, loc[t].j \in Pos
  PROVE  Slot(t) \in Slots
BY BinAssumption DEF Slot, Slots, Calls

(* A return leaves the returning thread idle and well-typed, and the       *)
(* others alone.                                                           *)
LEMMA ReturnType ==
  ASSUME TypeOK, NEW t \in Threads, NEW r \in Codes, Return(t, r), TableOK'
  PROVE  TypeOK'
<1>1. Fresh \in Locals
  BY BinAssumption DEF Fresh, Locals, Pos, NONE, Words
<1>2. \A u \in Threads : ThreadOK(u)'
  BY DEF TypeOK, ThreadOK, Return, Goto
<1> QED
  BY <1>1, <1>2 DEF TypeOK, Return, Goto, Labels

(* A step inside a call keeps the types if the new label belongs to the    *)
(* operation and the new locals are well-typed.                            *)
LEMMA ContinueType ==
  ASSUME TypeOK, NEW t \in Threads, NEW l \in Labels, Continue(t, l), TableOK',
         call[t] \in Calls, call[t].op \in OpsAt(l),
         NEW m \in Locals, loc' = [loc EXCEPT ![t] = m],
         m.i_min # NONE => call[t].op = "UPDATE",
         l \in Loops \/ m.j \in Pos
  PROVE  TypeOK'
<1>1. call[t].op \notin SearchOps => call[t].v \in {call[t].k} \X Data
  <2>1. call[t] # NoCall
    BY DEF Calls, NoCall
  <2> QED BY <2>1 DEF TypeOK, ThreadOK
<1>2. ASSUME NEW u \in Threads PROVE ThreadOK(u)'
  <2>1. CASE u = t
    <3>1. pc'[t] = l /\ call'[t] = call[t] /\ loc'[t] = m
      BY DEF TypeOK, Continue, Goto
    <3> QED BY <1>1, <2>1, <3>1 DEF ThreadOK
  <2>2. CASE u # t
    BY <2>2 DEF TypeOK, ThreadOK, Continue, Goto
  <2> QED BY <2>1, <2>2
<1> QED
  BY <1>2 DEF TypeOK, Continue, Goto

(* A step that moves the control of t but not its locals. *)
LEMMA StayType ==
  ASSUME TypeOK, NEW t \in Threads, NEW l \in Labels, Continue(t, l), TableOK',
         UNCHANGED loc, call[t] \in Calls, call[t].op \in OpsAt(l),
         l \in Loops \/ loc[t].j \in Pos
  PROVE  TypeOK'
<1>1. loc[t] \in Locals /\ loc' = [loc EXCEPT ![t] = loc[t]]
  BY DEF TypeOK
<1>2. loc[t].i_min # NONE => call[t].op = "UPDATE"
  BY DEF TypeOK, ThreadOK, Calls, NoCall
<1> QED
  BY <1>1, <1>2, ContinueType

(* A step that moves t to entry n of the bin. *)
LEMMA MoveType ==
  ASSUME TypeOK, NEW t \in Threads, NEW l \in Labels, Continue(t, l), TableOK',
         NEW n \in 0 .. BIN_CAPACITY, MoveTo(t, n),
         call[t] \in Calls, call[t].op \in OpsAt(l), l \in Loops \/ n \in Pos
  PROVE  TypeOK'
<1> DEFINE m == [loc[t] EXCEPT !.j = n]
<1>1. m \in Locals /\ m.j = n /\ m.i_min = loc[t].i_min
  BY DEF TypeOK, Locals
<1>2. loc' = [loc EXCEPT ![t] = m]
  BY DEF TypeOK, MoveTo
<1>3. loc[t].i_min # NONE => call[t].op = "UPDATE"
  BY DEF TypeOK, ThreadOK, Calls, NoCall
<1> HIDE DEF m
<1> QED
  BY <1>1, <1>2, <1>3, ContinueType

(* The locals of a thread as SMT wants them. *)
LEMMA LocalType ==
  ASSUME TypeOK, NEW t \in Threads
  PROVE  /\ loc[t] \in Locals
         /\ loc[t].j \in 0 .. BIN_CAPACITY
         /\ loc[t].available \in Pos \union {NONE}
         /\ loc[t].i_min \in Pos \union {NONE}
         /\ loc[t].key_lru \in Words
         /\ loc[t].res \in Values \union {Zero}
BY DEF TypeOK, Locals

(* A thread that is not idle is in a call of an operation with its label. *)
LEMMA CallType ==
  ASSUME TypeOK, NEW t \in Threads, pc[t] # "idle"
  PROVE  /\ call[t] \in Calls /\ call[t].k \in Keys /\ call[t].v \in Values \union {Zero}
         /\ call[t].op \in OpsAt(pc[t])
         /\ call[t].op \notin SearchOps => call[t].v \in {call[t].k} \X Data
         /\ pc[t] \in Loops \/ loc[t].j \in Pos
         /\ loc[t].j \in Pos => Slot(t) \in Slots
         /\ loc[t].i_min # NONE => call[t].op = "UPDATE"
<1>1. ThreadOK(t)
  BY DEF TypeOK
<1>2. call[t] \in Calls /\ call[t].k \in Keys /\ call[t].v \in Values \union {Zero}
  BY <1>1 DEF ThreadOK, Calls
<1> QED
  BY <1>1, <1>2, SlotType DEF ThreadOK

(* The scan of hash_modify keeps the types. *)
LEMMA ModifyType ==
  ASSUME TypeOK, NEW t \in Threads, Modify(t)
  PROVE  TypeOK'
<1>1. pc[t] \in {"m_scan", "m_store"} /\ pc[t] # "idle"
  BY DEF Modify, ModifyHit, ModifyPass, InplaceStore, ModifyEnd
<1>2. /\ call[t] \in Calls /\ call[t].op \in ModifyOps
      /\ call[t].v \in Values \union {Zero}
      /\ loc[t].j \in Pos => Slot(t) \in Slots
      /\ pc[t] = "m_store" => loc[t].j \in Pos
      /\ loc[t].i_min # NONE => call[t].op = "UPDATE"
  BY <1>1, CallType DEF OpsAt, Loops
<1>3. UNCHANGED table => TableOK'
  BY DEF TableOK, table, TypeOK
<1>4. CASE ModifyHit(t)
  <2>1. CASE Return(t, "ELEMENT_ALREADY_EXISTS")
    BY <1>3, <1>4, <2>1, ReturnType DEF ModifyHit, Codes
  <2>2. CASE call[t].op # "STRICT_INSERT" /\ Continue(t, "m_store") /\ UNCHANGED loc
    BY <1>1, <1>2, <1>3, <1>4, <2>2, StayType DEF ModifyHit, Labels, OpsAt, ModifyOps
  <2> QED BY <1>4, <2>1, <2>2 DEF ModifyHit
<1>5. CASE ModifyPass(t)
  <2> DEFINE w == key[Slot(t)]
             avail == IF w = EMPTY_FLAG /\ loc[t].available = NONE
                      THEN loc[t].j ELSE loc[t].available
             next == [loc[t] EXCEPT !.j = @ + 1, !.available = avail]
             sink == [next EXCEPT !.i_min = loc[t].j, !.key_lru = w]
  <2>1. loc[t].j \in Pos /\ w \in Words /\ avail \in Pos \union {NONE}
    BY <1>2, <1>5, LocalType DEF ModifyPass, TypeOK, TableOK
  <2>2. next \in Locals /\ next.i_min = loc[t].i_min
    <3>1. loc[t].j + 1 \in 0 .. BIN_CAPACITY
      BY <2>1, BinAssumption DEF Pos
    <3> HIDE DEF avail
    <3> QED BY <2>1, <3>1, LocalType DEF Locals
  <2>3. sink \in Locals
    BY <2>1, <2>2 DEF Locals
  <2>4. /\ Continue(t, "m_scan") /\ UNCHANGED table
        /\ \/ loc' = [loc EXCEPT ![t] = next]
           \/ call[t].op = "UPDATE" /\ loc' = [loc EXCEPT ![t] = sink]
    BY <1>5 DEF ModifyPass
  <2> HIDE DEF next, sink
  <2> QED
    BY <1>2, <1>3, <2>2, <2>3, <2>4, ContinueType DEF Labels, OpsAt, Loops
<1>6. CASE InplaceStore(t)
  <2>1. TableOK'
    BY <1>2, <1>6 DEF InplaceStore, SetVal, TypeOK, TableOK
  <2> QED BY <1>6, <2>1, ReturnType DEF InplaceStore, Codes
<1>7. CASE ModifyEnd(t)
  <2>1. CASE \E r \in Codes : Return(t, r)
    BY <1>3, <1>7, <2>1, ReturnType DEF ModifyEnd
  <2>2. CASE /\ call[t].op # "STRICT_UPDATE" /\ loc[t].available # NONE
             /\ Continue(t, "cas") /\ MoveTo(t, loc[t].available)
    BY <1>2, <1>3, <1>7, <2>2, LocalType, MoveType, BinAssumption
       DEF ModifyEnd, Labels, OpsAt, Loops, Pos, ModifyOps, PublishOps
  <2>3. CASE /\ loc[t].i_min # NONE
             /\ Continue(t, "s_claim") /\ MoveTo(t, loc[t].i_min)
    BY <1>2, <1>3, <1>7, <2>3, LocalType, MoveType, BinAssumption
       DEF ModifyEnd, Labels, OpsAt, Pos
  <2> QED BY <1>7, <2>1, <2>2, <2>3 DEF ModifyEnd, Codes
<1> QED
  BY <1>4, <1>5, <1>6, <1>7 DEF Modify

(* The publication loop keeps the types. *)
LEMMA PublishType ==
  ASSUME TypeOK, NEW t \in Threads, Publish(t)
  PROVE  TypeOK'
<1> USE DEF Labels, Codes
<1>1. pc[t] \in {"cas", "p_val", "p_key", "p_cnt"} /\ pc[t] # "idle"
  BY DEF Publish, Claim, ClaimMiss, ClaimFail, PutValue, PutKey, PutCount
<1>2. /\ call[t] \in Calls /\ call[t].op \in PublishOps
      /\ call[t].k \in Words /\ call[t].v \in Values \union {Zero}
      /\ loc[t].j \in Pos => Slot(t) \in Slots
      /\ pc[t] # "cas" => loc[t].j \in Pos
  BY <1>1, CallType DEF OpsAt, Loops, Words
<1>3. UNCHANGED table => TableOK'
  BY DEF TableOK, table, TypeOK
<1>4. CASE Claim(t)
  <2>1. TableOK'
    BY <1>2, <1>4 DEF Claim, SetKey, TypeOK, TableOK, Words
  <2> QED BY <1>2, <1>4, <2>1, StayType DEF Claim, OpsAt
<1>5. CASE ClaimMiss(t)
  <2>1. loc[t].j + 1 \in 0 .. BIN_CAPACITY
    BY <1>5, BinAssumption DEF ClaimMiss, Pos
  <2> QED BY <1>2, <1>3, <1>5, <2>1, MoveType DEF ClaimMiss, OpsAt, Loops
<1>6. CASE ClaimFail(t)
  BY <1>3, <1>6, ReturnType DEF ClaimFail
<1>7. CASE PutValue(t)
  <2>1. TableOK'
    BY <1>2, <1>7 DEF PutValue, SetVal, TypeOK, TableOK
  <2> QED BY <1>2, <1>7, <2>1, StayType DEF PutValue, OpsAt
<1>8. CASE PutKey(t)
  <2>1. TableOK'
    BY <1>2, <1>8 DEF PutKey, SetKey, TypeOK, TableOK
  <2> QED BY <1>2, <1>8, <2>1, StayType DEF PutKey, OpsAt
<1>9. CASE PutCount(t)
  <2>1. TableOK'
    BY <1>9, CountAssumption DEF PutCount, TypeOK, TableOK
  <2> QED BY <1>9, <2>1, ReturnType DEF PutCount
<1> QED
  BY <1>4, <1>5, <1>6, <1>7, <1>8, <1>9 DEF Publish

(* The steps of SINK keep the types. *)
LEMMA SinkType ==
  ASSUME TypeOK, NEW t \in Threads, Sink(t)
  PROVE  TypeOK'
<1> USE DEF Labels, Codes
<1>1. pc[t] \in {"s_claim", "s_swap", "s_key", "s_del", "s_ins"} /\ pc[t] # "idle"
  BY DEF Sink, SinkClaim, SinkSwap, SinkKey, SinkDelete, SinkInsert
<1>2. /\ call[t] \in Calls /\ call[t].op = "UPDATE"
      /\ call[t].k \in Words /\ call[t].v \in Values \union {Zero}
      /\ Slot(t) \in Slots /\ loc[t].j \in Pos
      /\ val[Slot(t)] \in Values \union {Zero}
  BY <1>1, CallType DEF OpsAt, Loops, Words, TypeOK, TableOK
<1>3. UNCHANGED table => TableOK'
  BY DEF TableOK, table, TypeOK
<1>4. CASE SinkClaim(t)
  <2>1. TableOK'
    BY <1>2, <1>4 DEF SinkClaim, SetKey, TypeOK, TableOK, Words
  <2> QED BY <1>2, <1>4, <2>1, StayType, ReturnType DEF SinkClaim, OpsAt
<1>5. CASE SinkSwap(t)
  <2> DEFINE m == [loc[t] EXCEPT !.res = val[Slot(t)]]
  <2>1. TableOK'
    BY <1>2, <1>5 DEF SinkSwap, SetVal, TypeOK, TableOK
  <2>2. m \in Locals /\ m.j = loc[t].j
    BY <1>2, LocalType DEF Locals
  <2>3. loc' = [loc EXCEPT ![t] = m]
    BY <1>5 DEF SinkSwap, TypeOK
  <2> HIDE DEF m
  <2> QED BY <1>2, <1>5, <2>1, <2>2, <2>3, ContinueType DEF SinkSwap, OpsAt
<1>6. CASE SinkKey(t)
  <2>1. TableOK'
    BY <1>2, <1>6 DEF SinkKey, SetKey, TypeOK, TableOK
  <2> QED BY <1>2, <1>6, <2>1, StayType, ReturnType DEF SinkKey, OpsAt
<1>7. CASE SinkDelete(t)
  <2>1. TableOK'
    BY <1>2, <1>7 DEF SinkDelete, TypeOK, TableOK
  <2> QED BY <1>2, <1>7, <2>1, StayType DEF SinkDelete, OpsAt
<1>8. CASE SinkInsert(t)
  <2>1. TableOK'
    BY <1>8, LocalType DEF SinkInsert, TypeOK, TableOK
  <2> QED BY <1>8, <2>1, ReturnType DEF SinkInsert
<1> QED
  BY <1>4, <1>5, <1>6, <1>7, <1>8 DEF Sink

(* hash_search keeps the types. *)
LEMMA SearchType ==
  ASSUME TypeOK, NEW t \in Threads, Search(t)
  PROVE  TypeOK'
<1> USE DEF Labels, Codes
<1>1. pc[t] \in {"scan", "q_val", "q_check", "d_cas", "d_cnt"} /\ pc[t] # "idle"
  BY DEF Search, SearchHit, SearchPass, SearchEnd, QueryValue, QueryCheck, DeleteCas, DeleteCount
<1>2. /\ call[t] \in Calls /\ call[t].op \in OpsAt(pc[t]) /\ call[t].op \in SearchOps
      /\ loc[t].j \in Pos => Slot(t) \in Slots /\ val[Slot(t)] \in Values \union {Zero}
      /\ pc[t] # "scan" => loc[t].j \in Pos
  BY <1>1, CallType DEF OpsAt, Loops, SearchOps, TypeOK, TableOK
<1>3. UNCHANGED table => TableOK'
  BY DEF TableOK, table, TypeOK
<1>4. CASE SearchHit(t)
  BY <1>2, <1>3, <1>4, StayType DEF SearchHit, OpsAt, SearchOps
<1>5. CASE SearchPass(t)
  <2>1. loc[t].j + 1 \in 0 .. BIN_CAPACITY
    BY <1>5, BinAssumption DEF SearchPass, Pos
  <2> QED BY <1>2, <1>3, <1>5, <2>1, MoveType DEF SearchPass, OpsAt, Loops
<1>6. CASE SearchEnd(t)
  BY <1>3, <1>6, ReturnType DEF SearchEnd
<1>7. CASE QueryValue(t)
  <2> DEFINE m == [loc[t] EXCEPT !.res = val[Slot(t)]]
  <2>1. m \in Locals /\ m.j = loc[t].j /\ m.i_min = loc[t].i_min
    BY <1>2, <1>7, LocalType DEF Locals, QueryValue
  <2>2. loc' = [loc EXCEPT ![t] = m]
    BY <1>7 DEF QueryValue, TypeOK
  <2>3. loc[t].i_min # NONE => call[t].op = "UPDATE"
    BY <1>1, CallType
  <2>4. /\ Continue(t, "q_check") /\ TableOK' /\ pc[t] = "q_val"
        /\ call[t].op \in OpsAt("q_check") /\ "q_check" \in Labels /\ m.j \in Pos
    BY <1>2, <1>3, <1>7, <2>1 DEF QueryValue, OpsAt, Labels
  <2> HIDE DEF m
  <2> QED BY <1>2, <2>1, <2>2, <2>3, <2>4, ContinueType
<1>8. CASE QueryCheck(t)
  BY <1>3, <1>8, ReturnType DEF QueryCheck
<1>9. CASE DeleteCas(t)
  <2>1. TableOK'
    BY <1>2, <1>9 DEF DeleteCas, SetKey, TypeOK, TableOK, Words
  <2> QED BY <1>2, <1>9, <2>1, StayType, ReturnType DEF DeleteCas, OpsAt
<1>10. CASE DeleteCount(t)
  <2>1. TableOK'
    BY <1>10, CountAssumption DEF DeleteCount, TypeOK, TableOK
  <2> QED BY <1>10, <2>1, ReturnType DEF DeleteCount
<1> QED
  BY <1>4, <1>5, <1>6, <1>7, <1>8, <1>9, <1>10 DEF Search

(* Entering a call keeps the types. *)
LEMMA EnterType ==
  ASSUME TypeOK, NEW t \in Threads, NEW op, NEW k \in Keys, NEW v \in Values \union {Zero},
         NEW l \in Loops, op \in OpsAt(l), op \notin SearchOps => v \in {k} \X Data,
         Enter(t, op, k, v, l)
  PROVE  TypeOK'
<1> DEFINE r == [op |-> op, k |-> k, v |-> v]
<1>1. /\ r \in Calls /\ r.op = op /\ r.k = k /\ r.v = v /\ l \in Labels
      /\ loc[t].i_min = NONE
  BY DEF Enter, Calls, Loops, Labels, TypeOK, ThreadOK, Fresh, OpsAt
<1>2. pc'[t] = l /\ call'[t] = r /\ loc' = loc
  BY DEF TypeOK, Enter, Goto
<1> HIDE DEF r
<1>3. ASSUME NEW u \in Threads PROVE ThreadOK(u)'
  <2>1. CASE u = t
    BY <1>1, <1>2, <2>1 DEF ThreadOK
  <2>2. CASE u # t
    <3>1. pc'[u] = pc[u] /\ call'[u] = call[u] /\ loc'[u] = loc[u]
      BY <2>2 DEF TypeOK, Enter, Goto
    <3> QED BY <3>1 DEF TypeOK, ThreadOK
  <2> QED BY <2>1, <2>2
<1> QED
  BY <1>1, <1>3 DEF TypeOK, TableOK, Enter, Goto, table, r, Codes

(* Every call of the table is entered with well-typed arguments. *)
LEMMA BeginType ==
  ASSUME TypeOK, NEW t \in Threads, Begin(t)
  PROVE  TypeOK'
<1> USE DEF Loops, OpsAt, ModifyOps, PublishOps, SearchOps, Values
<1>1. CASE CallModify(t)
  BY <1>1, EnterType DEF CallModify
<1>2. CASE CallNocheck(t)
  BY <1>2, EnterType DEF CallNocheck
<1>3. CASE CallSearch(t)
  BY <1>3, EnterType DEF CallSearch
<1> QED
  BY <1>1, <1>2, <1>3 DEF Begin

(* TypeOK is inductive. *)
LEMMA TypeStep == TypeOK /\ [Next]_vars => TypeOK'
<1> SUFFICES ASSUME TypeOK, [Next]_vars PROVE TypeOK'
  OBVIOUS
<1>1. CASE UNCHANGED vars
  BY <1>1 DEF vars, TypeOK, TableOK, ThreadOK
<1>2. CASE Next
  BY <1>2, BeginType, ModifyType, PublishType, SinkType, SearchType DEF Next, Step
<1> QED
  BY <1>1, <1>2

(* Whatever the threads do, the table and their locals keep their types,   *)
(* and a thread never indexes data[] past BIN_CAPACITY (hash.c:88-193).    *)
THEOREM Typed == Spec => []TypeOK
  BY TypeInit, TypeStep, PTL DEF Spec
-----------------------------------------------------------------------------
(* The table without SINK: the modes that hash_insert and hash_update and  *)
(* so hetero.c use (hash.h:45-46).                                         *)
NoSink == "UPDATE" \notin Ops

(* A step of t leaves the other threads where they are. *)
LEMMA Frame ==
  ASSUME TypeOK, NEW t \in Threads, Begin(t) \/ Step(t), NEW u \in Threads, u # t
  PROVE  pc'[u] = pc[u] /\ call'[u] = call[u] /\ loc'[u] = loc[u] /\ ret'[u] = ret[u]
<1> USE DEF TypeOK
<1>1. CASE \E op, k, v, l : Enter(t, op, k, v, l)
  BY <1>1 DEF Enter, Goto
<1>2. CASE Modify(t)
  BY <1>2 DEF Modify, ModifyHit, ModifyPass, InplaceStore, ModifyEnd, Return, Continue, Goto, MoveTo
<1>3. CASE Publish(t)
  BY <1>3 DEF Publish, Claim, ClaimMiss, ClaimFail, PutValue, PutKey, PutCount,
              Return, Continue, Goto, MoveTo
<1>4. CASE Sink(t)
  BY <1>4 DEF Sink, SinkClaim, SinkSwap, SinkKey, SinkDelete, SinkInsert, Return, Continue, Goto
<1>5. CASE Search(t)
  BY <1>5 DEF Search, SearchHit, SearchPass, SearchEnd, QueryValue, QueryCheck,
              DeleteCas, DeleteCount, Return, Continue, Goto, MoveTo
<1> QED
  BY <1>1, <1>2, <1>3, <1>4, <1>5 DEF Begin, Step, CallModify, CallNocheck, CallSearch

(* Without UPDATE no thread is ever in SINK. *)
LEMMA NeverSinks ==
  ASSUME TypeOK, NoSink, NEW t \in Threads
  PROVE  /\ ~Sink(t)
         /\ Owns(t) <=> pc[t] \in {"p_val", "p_key"}
<1>1. pc[t] \notin {"s_claim", "s_swap", "s_key", "s_del", "s_ins"}
  <2> SUFFICES ASSUME pc[t] \in {"s_claim", "s_swap", "s_key", "s_del", "s_ins"} PROVE FALSE
    OBVIOUS
  <2>1. call[t] \in Calls /\ call[t].op = "UPDATE"
    BY CallType DEF OpsAt
  <2> QED BY <2>1 DEF Calls, NoSink
<1> QED
  BY <1>1 DEF Sink, SinkClaim, SinkSwap, SinkKey, SinkDelete, SinkInsert, Owns

(* A step that changes no key and no owner's position. *)
LEMMA ClaimsKept ==
  ASSUME ExclusiveClaim, UNCHANGED key,
         \A u \in Threads : (Owns(u)' <=> Owns(u)) /\ (Owns(u) => Slot(u)' = Slot(u))
  PROVE  ExclusiveClaim'
<1>1. \A u \in Threads : Owns(u)' => key'[Slot(u)'] = OCCUPIED_FLAG
  BY DEF ExclusiveClaim
<1>2. \A u, w \in Threads : Owns(u)' /\ Owns(w)' /\ u # w => Slot(u)' # Slot(w)'
  BY DEF ExclusiveClaim
<1>3. ASSUME NEW s \in Slots, key'[s] = OCCUPIED_FLAG
      PROVE  \E u \in Threads : Owns(u)' /\ Slot(u)' = s
  BY <1>3 DEF ExclusiveClaim
<1> QED
  BY <1>1, <1>2, <1>3 DEF ExclusiveClaim

(* Without SINK, the owners of marked entries stay apart. *)
LEMMA ExclusiveStep ==
  ASSUME NoSink, TypeOK, TypeOK', ExclusiveClaim, [Next]_vars
  PROVE  ExclusiveClaim'
<1>1. CASE UNCHANGED vars
  BY <1>1 DEF vars, ExclusiveClaim, Owns, Slot
<1>2. ASSUME NEW t \in Threads, Begin(t) \/ Step(t) PROVE ExclusiveClaim'
  <2>1. \A u \in Threads : u # t =>
          /\ pc'[u] = pc[u] /\ Slot(u)' = Slot(u) /\ (Owns(u)' <=> Owns(u))
    BY <1>2, Frame DEF Slot, Owns
  <2>2. pc[t] # "idle" => /\ loc[t].j \in Pos => Slot(t) \in Slots
                          /\ pc[t] \notin Loops => loc[t].j \in Pos
                          /\ call[t].k \in Keys
    BY CallType
  <2>3. key \in [Slots -> Words] /\ pc \in [Threads -> Labels]
    BY DEF TypeOK, TableOK
  <2>4. CASE Claim(t)
    <3>1. /\ Slot(t) \in Slots /\ key[Slot(t)] = EMPTY_FLAG
          /\ key' = [key EXCEPT ![Slot(t)] = OCCUPIED_FLAG]
          /\ Slot(t)' = Slot(t) /\ Owns(t)'
      BY <2>2, <2>3, <2>4 DEF Claim, SetKey, Continue, Goto, Slot, Owns
    <3>2. \A u \in Threads : u # t /\ Owns(u) => Slot(u) # Slot(t)
      BY <3>1, FlagAssumption DEF ExclusiveClaim
    <3>3. \A u \in Threads : Owns(u)' => key'[Slot(u)'] = OCCUPIED_FLAG
      BY <2>1, <2>3, <3>1, <3>2 DEF ExclusiveClaim
    <3>4. \A u, w \in Threads : Owns(u)' /\ Owns(w)' /\ u # w => Slot(u)' # Slot(w)'
      BY <2>1, <3>1, <3>2 DEF ExclusiveClaim
    <3>5. ASSUME NEW s \in Slots, key'[s] = OCCUPIED_FLAG
          PROVE  \E u \in Threads : Owns(u)' /\ Slot(u)' = s
      <4>1. CASE s = Slot(t)
        BY <3>1, <4>1
      <4>2. CASE s # Slot(t)
        <5>1. PICK u \in Threads : Owns(u) /\ Slot(u) = s
          BY <2>3, <3>1, <3>5, <4>2 DEF ExclusiveClaim
        <5> QED BY <2>1, <3>1, <4>2, <5>1
      <4> QED BY <4>1, <4>2
    <3> QED BY <3>3, <3>4, <3>5 DEF ExclusiveClaim
  <2>5. CASE PutKey(t)
    <3>1. /\ Slot(t) \in Slots /\ Owns(t) /\ call[t].k # OCCUPIED_FLAG
          /\ key' = [key EXCEPT ![Slot(t)] = call[t].k]
          /\ ~Owns(t)'
      BY <2>2, <2>3, <2>5, FlagAssumption DEF PutKey, SetKey, Continue, Goto, Owns, Loops
    <3>2. \A u \in Threads : u # t /\ Owns(u) => Slot(u) # Slot(t)
      BY <3>1 DEF ExclusiveClaim
    <3>3. \A u \in Threads : Owns(u)' => key'[Slot(u)'] = OCCUPIED_FLAG
      BY <2>1, <2>3, <3>1, <3>2 DEF ExclusiveClaim
    <3>4. \A u, w \in Threads : Owns(u)' /\ Owns(w)' /\ u # w => Slot(u)' # Slot(w)'
      BY <2>1, <3>1 DEF ExclusiveClaim
    <3>5. ASSUME NEW s \in Slots, key'[s] = OCCUPIED_FLAG
          PROVE  \E u \in Threads : Owns(u)' /\ Slot(u)' = s
      <4>1. s # Slot(t) /\ key[s] = OCCUPIED_FLAG
        BY <2>3, <3>1, <3>5
      <4>2. PICK u \in Threads : Owns(u) /\ Slot(u) = s
        BY <4>1 DEF ExclusiveClaim
      <4> QED BY <2>1, <4>1, <4>2
    <3> QED BY <3>3, <3>4, <3>5 DEF ExclusiveClaim
  <2>6. CASE DeleteCas(t) /\ key[Slot(t)] = call[t].k
    <3>1. /\ Slot(t) \in Slots /\ key[Slot(t)] # OCCUPIED_FLAG
          /\ key' = [key EXCEPT ![Slot(t)] = EMPTY_FLAG]
          /\ ~Owns(t) /\ ~Owns(t)'
      BY <2>2, <2>3, <2>6, FlagAssumption DEF DeleteCas, SetKey, Continue, Goto, Owns, Loops
    <3>2. \A u \in Threads : Owns(u)' => key'[Slot(u)'] = OCCUPIED_FLAG
      BY <2>1, <2>3, <3>1 DEF ExclusiveClaim
    <3>3. \A u, w \in Threads : Owns(u)' /\ Owns(w)' /\ u # w => Slot(u)' # Slot(w)'
      BY <2>1, <3>1 DEF ExclusiveClaim
    <3>4. ASSUME NEW s \in Slots, key'[s] = OCCUPIED_FLAG
          PROVE  \E u \in Threads : Owns(u)' /\ Slot(u)' = s
      <4>1. key[s] = OCCUPIED_FLAG
        BY <2>3, <3>1, <3>4, FlagAssumption
      <4>2. PICK u \in Threads : Owns(u) /\ Slot(u) = s
        BY <4>1 DEF ExclusiveClaim
      <4> QED BY <2>1, <3>1, <4>2
    <3> QED BY <3>2, <3>3, <3>4 DEF ExclusiveClaim
  <2>7. CASE PutValue(t)
    <3>1. UNCHANGED key /\ Owns(t) /\ Owns(t)' /\ Slot(t)' = Slot(t)
      BY <2>3, <2>7 DEF PutValue, Continue, Goto, Owns, Slot
    <3> QED BY <2>1, <3>1, ClaimsKept
  <2>8. CASE /\ UNCHANGED key
             /\ ~Owns(t) /\ ~Owns(t)'
    BY <2>1, <2>8, ClaimsKept
  <2>9. CASE Begin(t)
    <3>1. UNCHANGED key /\ ~Owns(t) /\ ~Owns(t)'
      BY <2>3, <2>9 DEF Begin, CallModify, CallNocheck, CallSearch, Enter, Goto, Owns, table
    <3> QED BY <2>8, <3>1
  <2>10. CASE Modify(t)
    <3>1. UNCHANGED key /\ ~Owns(t) /\ ~Owns(t)'
      <4>1. CASE ModifyEnd(t)
        BY <2>3, <4>1 DEF ModifyEnd, Return, Continue, Goto, Owns, table
      <4>2. CASE ModifyHit(t) \/ ModifyPass(t) \/ InplaceStore(t)
        BY <2>3, <4>2 DEF ModifyHit, ModifyPass, InplaceStore, Return, Continue, Goto, Owns, table
      <4> QED BY <2>10, <4>1, <4>2 DEF Modify
    <3> QED BY <2>8, <3>1
  <2>11. CASE ClaimMiss(t) \/ ClaimFail(t) \/ PutCount(t)
    <3>1. UNCHANGED key /\ ~Owns(t) /\ ~Owns(t)'
      BY <2>3, <2>11 DEF ClaimMiss, ClaimFail, PutCount, Return, Continue, Goto, Owns, table
    <3> QED BY <2>8, <3>1
  <2>12. CASE \/ SearchHit(t) \/ SearchPass(t) \/ SearchEnd(t) \/ QueryValue(t)
              \/ QueryCheck(t) \/ DeleteCount(t)
              \/ DeleteCas(t) /\ key[Slot(t)] # call[t].k
    <3>1. UNCHANGED key /\ ~Owns(t) /\ ~Owns(t)'
      BY <2>3, <2>12 DEF SearchHit, SearchPass, SearchEnd, QueryValue, QueryCheck, DeleteCount,
                         DeleteCas, Return, Continue, Goto, Owns, table
    <3> QED BY <2>8, <3>1
  <2> QED
    BY <1>2, <2>4, <2>5, <2>6, <2>7, <2>9, <2>10, <2>11, <2>12, NeverSinks
       DEF Step, Publish, Search
<1> QED
  BY <1>1, <1>2 DEF Next

(* Without SINK an OCCUPIED_FLAG has exactly one owner, whatever threads   *)
(* and keys there are and however many threads modify the same key: the    *)
(* value and key stores after the compare-and-swap of hash.c:131 and :162  *)
(* never race.                                                             *)
THEOREM Exclusive == ASSUME NoSink PROVE Spec => []ExclusiveClaim
<1>1. Init => ExclusiveClaim
  BY FlagAssumption DEF Init, ExclusiveClaim, Owns
<1>2. TypeOK /\ TypeOK' /\ ExclusiveClaim /\ [Next]_vars => ExclusiveClaim'
  BY ExclusiveStep
<1> QED
  BY <1>1, <1>2, Typed, PTL DEF Spec
-----------------------------------------------------------------------------
(* hash_sys.count.  The entries that hold a key, and the threads that have *)
(* yet to count what they published or removed.                            *)
Stored  == {s \in Slots : key[s] \in Keys}
Adding  == {t \in Threads : pc[t] = "p_cnt"}
Undoing == {t \in Threads : pc[t] = "d_cnt"}

(* What % gives for a divisor above 0. *)
LEMMA ModDef ==
  ASSUME NEW n \in Nat \ {0}, NEW a \in Int
  PROVE  a % n \in 0 .. n - 1 /\ a \div n \in Int /\ a = n * (a \div n) + (a % n)
OBVIOUS

LEMMA ModUnique ==
  ASSUME NEW n \in Nat \ {0}, NEW q \in Int, NEW r \in 0 .. n - 1
  PROVE  (n * q + r) % n = r
OBVIOUS

(* Steps of a counter that wraps add up as if it did not. *)
LEMMA ModShift ==
  ASSUME NEW n \in Nat \ {0}, NEW a \in Int, NEW d \in Int
  PROVE  ((a % n) + d) % n = (a + d) % n
<1> DEFINE x == (a % n) + d
           q == (a \div n) + (x \div n)
<1>1. a % n \in Int /\ a \div n \in Int /\ a = n * (a \div n) + (a % n)
  BY ModDef
<1>2. x % n \in 0 .. n - 1 /\ x \div n \in Int /\ x = n * (x \div n) + (x % n)
  BY <1>1, ModDef
<1>3. q \in Int /\ n * q = n * (a \div n) + n * (x \div n)
  BY <1>1, <1>2
<1>4. a + d = n * q + (x % n)
  BY <1>1, <1>2, <1>3
<1> HIDE DEF q
<1> QED
  BY <1>2, <1>3, <1>4, ModUnique

(* The three sets are finite, before and after a step. *)
LEMMA TallyFinite ==
  /\ IsFiniteSet(Stored) /\ IsFiniteSet(Adding) /\ IsFiniteSet(Undoing)
  /\ Cardinality(Stored) \in Nat /\ Cardinality(Adding) \in Nat /\ Cardinality(Undoing) \in Nat
<1>1. IsFiniteSet(Slots)
  <2>1. IsFiniteSet(Pos)
    BY BinAssumption, FS_Interval DEF Pos
  <2> QED BY <2>1, FiniteAssumption, FS_Product DEF Slots
<1>2. IsFiniteSet(Stored) /\ IsFiniteSet(Adding) /\ IsFiniteSet(Undoing)
  <2>1. Stored \in SUBSET Slots /\ Adding \in SUBSET Threads /\ Undoing \in SUBSET Threads
    BY DEF Stored, Adding, Undoing
  <2> QED BY <1>1, <2>1, FiniteAssumption, FS_Subset
<1> QED
  BY <1>2, FS_CardinalityType

(* CountExact in terms of the three sets. *)
LEMMA CountTally ==
  CountExact <=> count = (Cardinality(Stored) - Cardinality(Adding) + Cardinality(Undoing)) % CountMod
BY DEF CountExact, Stored, Adding, Undoing

(* A step that leaves count and the three sets alone. *)
LEMMA CountKept ==
  ASSUME CountExact, count' = count, Stored' = Stored, Adding' = Adding, Undoing' = Undoing
  PROVE  CountExact'
BY DEF CountExact, Stored, Adding, Undoing

(* The steps of t that change neither a published key nor its counting.    *)
LEMMA CountQuiet ==
  ASSUME TypeOK, CountExact, NEW t \in Threads, Begin(t) \/ Step(t), UNCHANGED <<key, count>>,
         pc[t] \notin {"p_cnt", "d_cnt"}, pc'[t] \notin {"p_cnt", "d_cnt"}
  PROVE  CountExact'
<1>1. \A u \in Threads : u # t => pc'[u] = pc[u]
  BY Frame
<1>2. Stored' = Stored /\ Adding' = Adding /\ Undoing' = Undoing
  BY <1>1 DEF Stored, Adding, Undoing
<1> QED
  BY <1>2, CountKept

(* Publishing a key and removing one change the entries that hold a key    *)
(* and the threads that have yet to count, by one each.                    *)
LEMMA CountPublish ==
  ASSUME TypeOK, ExclusiveClaim, CountExact, NEW t \in Threads, PutKey(t)
  PROVE  CountExact'
<1>1. pc[t] = "p_key" /\ pc'[t] = "p_cnt" /\ Step(t) /\ count' = count
  BY DEF PutKey, Continue, Goto, TypeOK, Step, Publish
<1>2. Slot(t) \in Slots /\ call[t].k \in Keys /\ key[Slot(t)] = OCCUPIED_FLAG
  BY <1>1, CallType DEF ExclusiveClaim, Owns, Loops
<1>3. \A u \in Threads : u # t => pc'[u] = pc[u]
  BY <1>1, Frame
<1>4. key' = [key EXCEPT ![Slot(t)] = call[t].k] /\ key \in [Slots -> Words]
  BY DEF PutKey, SetKey, TypeOK, TableOK
<1>5. Stored' = Stored \union {Slot(t)} /\ Slot(t) \notin Stored
  BY <1>2, <1>4, FlagAssumption DEF Stored
<1>6. Adding' = Adding \union {t} /\ t \notin Adding /\ Undoing' = Undoing
  BY <1>1, <1>3 DEF Adding, Undoing
<1>7. /\ Cardinality(Stored') = Cardinality(Stored) + 1
      /\ Cardinality(Adding') = Cardinality(Adding) + 1
  BY <1>5, <1>6, TallyFinite, FS_AddElement
<1>8. Cardinality(Stored)' - Cardinality(Adding)' + Cardinality(Undoing)'
        = Cardinality(Stored) - Cardinality(Adding) + Cardinality(Undoing)
  BY <1>6, <1>7, TallyFinite
<1>9. count = (Cardinality(Stored) - Cardinality(Adding) + Cardinality(Undoing)) % CountMod
  BY CountTally
<1> QED
  BY <1>1, <1>8, <1>9 DEF CountExact, Stored, Adding, Undoing

LEMMA CountRemove ==
  ASSUME TypeOK, CountExact, NEW t \in Threads, DeleteCas(t), key[Slot(t)] = call[t].k
  PROVE  CountExact'
<1>1. pc[t] = "d_cas" /\ pc'[t] = "d_cnt" /\ Step(t) /\ count' = count
  BY DEF DeleteCas, Continue, Goto, TypeOK, Step, Search
<1>2. Slot(t) \in Slots /\ call[t].k \in Keys
  BY <1>1, CallType DEF Loops
<1>3. \A u \in Threads : u # t => pc'[u] = pc[u]
  BY <1>1, Frame
<1>4. key' = [key EXCEPT ![Slot(t)] = EMPTY_FLAG] /\ key \in [Slots -> Words]
  BY DEF DeleteCas, SetKey, TypeOK, TableOK
<1>5. Stored' = Stored \ {Slot(t)} /\ Slot(t) \in Stored
  BY <1>2, <1>4, FlagAssumption DEF Stored
<1>6. Undoing' = Undoing \union {t} /\ t \notin Undoing /\ Adding' = Adding
  BY <1>1, <1>3 DEF Adding, Undoing
<1>7. /\ Cardinality(Stored') = Cardinality(Stored) - 1
      /\ Cardinality(Undoing') = Cardinality(Undoing) + 1
  BY <1>5, <1>6, TallyFinite, FS_AddElement, FS_RemoveElement
<1>8. Cardinality(Stored)' - Cardinality(Adding)' + Cardinality(Undoing)'
        = Cardinality(Stored) - Cardinality(Adding) + Cardinality(Undoing)
  BY <1>6, <1>7, TallyFinite
<1>9. count = (Cardinality(Stored) - Cardinality(Adding) + Cardinality(Undoing)) % CountMod
  BY CountTally
<1> QED
  BY <1>1, <1>8, <1>9 DEF CountExact, Stored, Adding, Undoing

(* The fetch-and-add that follows takes the thread off again. *)
LEMMA CountCounts ==
  ASSUME TypeOK, CountExact, NEW t \in Threads, PutCount(t) \/ DeleteCount(t)
  PROVE  CountExact'
<1> DEFINE n == Cardinality(Stored) - Cardinality(Adding) + Cardinality(Undoing)
<1>1. Step(t) /\ key' = key /\ pc'[t] = "idle"
  BY DEF PutCount, DeleteCount, Return, Goto, TypeOK, Step, Publish, Search
<1>2. \A u \in Threads : u # t => pc'[u] = pc[u]
  BY <1>1, Frame
<1>3. count = n % CountMod /\ n \in Int /\ Stored' = Stored
  BY <1>1, CountTally, TallyFinite DEF Stored
<1>4. CASE PutCount(t)
  <2>1. Adding' = Adding \ {t} /\ t \in Adding /\ Undoing' = Undoing
    BY <1>1, <1>2, <1>4 DEF PutCount, Adding, Undoing
  <2>2. Cardinality(Adding') = Cardinality(Adding) - 1
    BY <2>1, TallyFinite, FS_RemoveElement
  <2>3. Cardinality(Stored)' - Cardinality(Adding)' + Cardinality(Undoing)' = n + 1
    BY <1>3, <2>1, <2>2, TallyFinite
  <2>4. count' = (n + 1) % CountMod
    BY <1>3, <1>4, ModShift, CountAssumption DEF PutCount
  <2> QED BY <2>3, <2>4 DEF CountExact, Stored, Adding, Undoing
<1>5. CASE DeleteCount(t)
  <2>1. Undoing' = Undoing \ {t} /\ t \in Undoing /\ Adding' = Adding
    BY <1>1, <1>2, <1>5 DEF DeleteCount, Adding, Undoing
  <2>2. Cardinality(Undoing') = Cardinality(Undoing) - 1
    BY <2>1, TallyFinite, FS_RemoveElement
  <2>3. Cardinality(Stored)' - Cardinality(Adding)' + Cardinality(Undoing)' = n - 1
    BY <1>3, <2>1, <2>2, TallyFinite
  <2>4. count' = (n - 1) % CountMod
    <3>1. count' = ((n % CountMod) - 1) % CountMod
      BY <1>3, <1>5 DEF DeleteCount
    <3>2. ((n % CountMod) + (-1)) % CountMod = (n + (-1)) % CountMod
      BY <1>3, ModShift, CountAssumption
    <3>3. (n % CountMod) + (-1) = (n % CountMod) - 1 /\ n + (-1) = n - 1
      BY <1>3, ModDef, CountAssumption
    <3> QED BY <3>1, <3>2, <3>3
  <2> QED BY <2>3, <2>4 DEF CountExact, Stored, Adding, Undoing
<1> QED
  BY <1>4, <1>5

(* CountExact is kept by every step of a table without SINK. *)
LEMMA CountStep ==
  ASSUME NoSink, TypeOK, ExclusiveClaim, CountExact, [Next]_vars
  PROVE  CountExact'
<1>1. CASE UNCHANGED vars
  BY <1>1 DEF vars, CountExact
<1>2. ASSUME NEW t \in Threads, Begin(t) \/ Step(t) PROVE CountExact'
  <2> USE DEF TypeOK, Continue, Return, Goto, table
  <2>1. ASSUME UNCHANGED <<key, count>>, pc[t] \notin {"p_cnt", "d_cnt"},
               pc'[t] \notin {"p_cnt", "d_cnt"}
        PROVE  CountExact'
    BY <1>2, <2>1, CountQuiet
  <2>2. CASE Begin(t)
    BY <2>1, <2>2 DEF Begin, CallModify, CallNocheck, CallSearch, Enter
  <2>3. CASE Modify(t)
    <3>1. CASE ModifyEnd(t)
      BY <2>1, <3>1 DEF ModifyEnd
    <3>2. CASE ModifyHit(t) \/ ModifyPass(t) \/ InplaceStore(t)
      BY <2>1, <3>2 DEF ModifyHit, ModifyPass, InplaceStore
    <3> QED BY <2>3, <3>1, <3>2 DEF Modify
  <2>4. CASE Claim(t)
    <3>1. /\ pc[t] = "cas" /\ pc'[t] = "p_val" /\ count' = count
          /\ key' = [key EXCEPT ![Slot(t)] = OCCUPIED_FLAG] /\ key[Slot(t)] = EMPTY_FLAG
          /\ key \in [Slots -> Words]
      BY <2>4 DEF Claim, SetKey, TableOK
    <3>2. Stored' = Stored
      BY <3>1, FlagAssumption DEF Stored
    <3>3. \A u \in Threads : u # t => pc'[u] = pc[u]
      BY <1>2, Frame
    <3>4. Adding' = Adding /\ Undoing' = Undoing
      BY <3>1, <3>3 DEF Adding, Undoing
    <3> QED BY <3>1, <3>2, <3>4, CountKept
  <2>5. CASE ClaimMiss(t) \/ ClaimFail(t) \/ PutValue(t)
    BY <2>1, <2>5 DEF ClaimMiss, ClaimFail, PutValue
  <2>6. CASE PutKey(t)
    BY <2>6, CountPublish
  <2>7. CASE PutCount(t) \/ DeleteCount(t)
    BY <2>7, CountCounts
  <2>8. CASE \/ SearchHit(t) \/ SearchPass(t) \/ SearchEnd(t) \/ QueryValue(t) \/ QueryCheck(t)
             \/ DeleteCas(t) /\ key[Slot(t)] # call[t].k
    BY <2>1, <2>8 DEF SearchHit, SearchPass, SearchEnd, QueryValue, QueryCheck, DeleteCas
  <2>9. CASE DeleteCas(t) /\ key[Slot(t)] = call[t].k
    BY <2>9, CountRemove
  <2> QED
    BY <1>2, <2>2, <2>3, <2>4, <2>5, <2>6, <2>7, <2>8, <2>9, NeverSinks
       DEF Step, Publish, Search
<1> QED
  BY <1>1, <1>2 DEF Next

(* Without SINK hash_sys.count is the number of published keys, but for    *)
(* the threads between a publication or a removal and its counting, and    *)
(* modulo the width of the counter: for any finite number of threads and   *)
(* bins, any capacity, and however many threads modify the same key        *)
(* (hash.c:134, :165 and :186).                                            *)
THEOREM Counted == ASSUME NoSink PROVE Spec => []CountExact
<1>1. Init => CountExact
  <2> SUFFICES ASSUME Init PROVE CountExact
    OBVIOUS
  <2>1. Stored = {} /\ Adding = {} /\ Undoing = {}
    BY FlagAssumption DEF Init, Stored, Adding, Undoing
  <2>2. Cardinality(Stored) - Cardinality(Adding) + Cardinality(Undoing) = 0
    BY <2>1, FS_EmptySet
  <2>3. count = 0 % CountMod
    BY CountAssumption DEF Init
  <2> QED BY <2>2, <2>3, CountTally
<1>2. TypeOK /\ ExclusiveClaim /\ CountExact /\ [Next]_vars => CountExact'
  BY CountStep
<1> QED
  BY <1>1, <1>2, Typed, Exclusive, PTL DEF Spec
=============================================================================
