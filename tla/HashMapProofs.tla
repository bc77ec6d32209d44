---------------------------- MODULE HashMapProofs ----------------------------
(***************************************************************************)
(* When every key is modified by one thread at a time, and without SINK,   *)
(* the table of HashTable implements the map of KVMap, and a query answers *)
(* what the table held for its key while it was running.                   *)
(***************************************************************************)
EXTENDS HashHistory, HashTableProofs

SingleWriter == \A k \in Keys : \A t, u \in Writers[k] : t = u

(* The inductive invariant: UniqueKey and ValueOfKey hold because of what  *)
(* each writer knows of the entries it has read, and that stays true       *)
(* because no other thread touches its key or an entry it owns.            *)
MapInv == /\ TypeOK /\ ExclusiveClaim
          /\ UniqueKey /\ ValueOfKey /\ InItsBin /\ WriterKnows

(* The empty table satisfies the parts of MapInv. *)
LEMMA MapInit == Init => UniqueKey /\ ValueOfKey /\ InItsBin /\ WriterKnows
BY FlagAssumption DEF Init, UniqueKey, ValueOfKey, InItsBin, WriterKnows

(* The other threads keep what they know if the step neither puts nor      *)
(* removes their key and leaves the values of their entries alone.         *)
LEMMA KnowsKept ==
  ASSUME MapInv, NEW t \in Threads, Begin(t) \/ Step(t),
         NEW u \in Threads, u # t, pc[u] # "idle",
         call[u].op # "HASH_QUERY" =>
            \A s \in Slots : key'[s] = call[u].k <=> key[s] = call[u].k,
         pc[u] = "p_key" => val'[Slot(u)] = val[Slot(u)]
  PROVE  Knows(u)'
<1>1. pc'[u] = pc[u] /\ call'[u] = call[u] /\ loc'[u] = loc[u] /\ Slot(u)' = Slot(u)
  BY Frame DEF MapInv, Slot
<1>2. Knows(u)
  BY DEF MapInv, WriterKnows
<1>3. /\ call[u].k \in Keys /\ HashIdx[call[u].k] \in Bins
      /\ call[u].op \in OpsAt(pc[u])
      /\ loc[u].j \in Pos => Slot(u) \in Slots
      /\ pc[u] \in Loops \/ loc[u].j \in Pos
  BY CallType, BinAssumption DEF MapInv
<1>4. \A p \in Pos : <<HashIdx[call[u].k], p>> \in Slots
  BY <1>3 DEF Slots
<1>5. pc[u] \in {"m_scan", "m_store", "cas", "p_val", "p_key", "d_cas"}
        => call[u].op # "HASH_QUERY"
  BY <1>3 DEF OpsAt, ModifyOps, PublishOps
<1>6. pc[u] \in {"m_store", "d_cas"} => Slot(u) \in Slots
  BY <1>3 DEF Loops
<1> QED
  BY <1>1, <1>2, <1>4, <1>5, <1>6 DEF Knows

(* A step that changes no key and no value needs only an argument about    *)
(* the thread that takes it.                                               *)
LEMMA QuietStep ==
  ASSUME MapInv, NEW t \in Threads, Begin(t) \/ Step(t), UNCHANGED <<key, val>>,
         pc'[t] # "idle" => Knows(t)'
  PROVE  UniqueKey' /\ ValueOfKey' /\ InItsBin' /\ WriterKnows'
<1>1. UniqueKey' /\ ValueOfKey' /\ InItsBin'
  BY DEF MapInv, UniqueKey, ValueOfKey, InItsBin
<1>2. \A u \in Threads : u # t /\ pc'[u] # "idle" => Knows(u)'
  BY KnowsKept, Frame DEF MapInv
<1> QED
  BY <1>1, <1>2 DEF WriterKnows

(* Two threads that are both in modifying calls modify different keys. *)
LEMMA OtherKey ==
  ASSUME SingleWriter, MapInv, NEW t \in Threads, NEW u \in Threads, u # t,
         pc[t] # "idle", pc[u] # "idle",
         call[t].op # "HASH_QUERY", call[u].op # "HASH_QUERY"
  PROVE  call[t].k # call[u].k
<1>1. Knows(t) /\ Knows(u) /\ call[t].k \in Keys
  BY CallType DEF MapInv, WriterKnows
<1> QED
  BY <1>1 DEF Knows, SingleWriter

(* What a thread in a call, its entry and its knowledge look like. *)
LEMMA InCall ==
  ASSUME MapInv, NEW t \in Threads, pc[t] # "idle"
  PROVE  /\ Knows(t) /\ ThreadOK(t)
         /\ call[t].k \in Keys /\ call[t].op \in OpsAt(pc[t])
         /\ call[t] \in Calls /\ call[t].op \in Ops
         /\ loc[t].j \in 0 .. BIN_CAPACITY
         /\ loc[t].j \in Pos => Slot(t) \in Slots
         /\ pc[t] \in Loops \/ loc[t].j \in Pos
         /\ key \in [Slots -> Words] /\ val \in [Slots -> Values \union {Zero}]
         /\ pc \in [Threads -> Labels] /\ call \in [Threads -> Calls \union {NoCall}]
         /\ loc \in [Threads -> Locals]
<1>1. call[t].op \in Ops
  BY CallType DEF MapInv, Calls
<1> QED
  BY <1>1, CallType, LocalType DEF MapInv, WriterKnows, TypeOK, TableOK

(* A thread that enters a call knows nothing that could be wrong. *)
LEMMA BeginKnows ==
  ASSUME MapInv, NEW t \in Threads, Begin(t)
  PROVE  UNCHANGED <<key, val>> /\ Knows(t)'
<1>1. /\ pc \in [Threads -> Labels] /\ call \in [Threads -> Calls \union {NoCall}]
      /\ \A p \in Pos : ~(p < 0)
  BY DEF MapInv, TypeOK, Pos
<1>2. ASSUME NEW op, NEW k \in Keys, NEW v, NEW l, Enter(t, op, k, v, l)
      PROVE  /\ UNCHANGED <<key, val>> /\ loc'[t].j = 0
             /\ pc'[t] = l /\ call'[t].op = op /\ call'[t].k = k
  <2>1. loc'[t].j = 0
    <3>1. loc[t] = Fresh
      BY <1>2 DEF Enter, MapInv, TypeOK, ThreadOK, OpsAt
    <3> QED BY <1>2, <3>1 DEF Enter, Fresh
  <2> QED BY <1>1, <1>2, <2>1 DEF Enter, Goto, table
<1>3. CASE CallModify(t)
  <2>1. PICK op \in ModifyOps, k \in Keys, d \in Data :
           t \in Writers[k] /\ Enter(t, op, k, <<k, d>>, "m_scan")
    BY <1>3 DEF CallModify
  <2>2. /\ UNCHANGED <<key, val>> /\ loc'[t].j = 0
        /\ pc'[t] = "m_scan" /\ call'[t].op = op /\ call'[t].k = k
    BY <1>2, <2>1
  <2> QED BY <1>1, <2>1, <2>2 DEF Knows
<1>4. CASE CallNocheck(t)
  <2>1. PICK k \in Keys, d \in Data :
           /\ t \in Writers[k]
           /\ \A s \in Slots : key[s] # k
           /\ Enter(t, "NOCHECK", k, <<k, d>>, "cas")
    BY <1>4 DEF CallNocheck
  <2>2. /\ UNCHANGED <<key, val>> /\ loc'[t].j = 0
        /\ pc'[t] = "cas" /\ call'[t].op = "NOCHECK" /\ call'[t].k = k
    BY <1>2, <2>1
  <2> QED BY <1>1, <2>1, <2>2 DEF Knows
<1>5. CASE CallSearch(t)
  <2>1. PICK op \in SearchOps, k \in Keys :
           /\ op = "HASH_DELETE" => t \in Writers[k]
           /\ Enter(t, op, k, Zero, "scan")
    BY <1>5 DEF CallSearch
  <2>2. /\ UNCHANGED <<key, val>> /\ loc'[t].j = 0
        /\ pc'[t] = "scan" /\ call'[t].op = op /\ call'[t].k = k
    BY <1>2, <2>1
  <2> QED BY <1>1, <2>1, <2>2 DEF Knows, SearchOps
<1> QED
  BY <1>3, <1>4, <1>5 DEF Begin

(* A writer that has passed every entry of the bin knows that its key is   *)
(* nowhere in the table.                                                   *)
LEMMA PassedAll ==
  ASSUME MapInv, NEW t \in Threads, loc[t].j = BIN_CAPACITY,
         pc[t] = "m_scan" \/ (pc[t] = "scan" /\ call[t].op = "HASH_DELETE")
  PROVE  \A s \in Slots : key[s] # call[t].k
<1> DEFINE k == call[t].k
<1>1. Knows(t) /\ k \in Keys
  BY InCall
<1>2. \A q \in Pos : key[<<HashIdx[k], q>>] # k
  BY <1>1, BinAssumption DEF Knows, Pos
<1> SUFFICES ASSUME NEW s \in Slots PROVE key[s] # k
  OBVIOUS
<1>3. PICK b \in Bins, q \in Pos : s = <<b, q>>
  BY DEF Slots
<1>4. key[s] = k => b = HashIdx[k]
  BY <1>1, <1>3 DEF MapInv, InItsBin
<1> QED
  BY <1>2, <1>3, <1>4

(* The steps of the scans change no entry, and the thread learns from what *)
(* it has just read.                                                       *)
LEMMA ScanKnows ==
  ASSUME NoSink, MapInv, NEW t \in Threads,
         \/ ModifyHit(t) \/ ModifyPass(t) \/ ModifyEnd(t) \/ ClaimMiss(t)
         \/ ClaimFail(t) \/ PutCount(t) \/ SearchHit(t) \/ SearchPass(t) \/ SearchEnd(t)
         \/ QueryValue(t) \/ QueryCheck(t) \/ DeleteCount(t)
  PROVE  UNCHANGED <<key, val>> /\ (pc'[t] # "idle" => Knows(t)')
<1> DEFINE k == call[t].k
<1> USE DEF table
<1>1. pc[t] # "idle" /\ pc \in [Threads -> Labels]
  BY DEF ModifyHit, ModifyPass, ModifyEnd, ClaimMiss, ClaimFail, PutCount, SearchHit,
         SearchPass, SearchEnd, QueryValue, QueryCheck, DeleteCount, MapInv, TypeOK
<1>2. /\ Knows(t) /\ k \in Keys /\ call[t].op \in OpsAt(pc[t]) /\ call[t].op \in Ops
      /\ loc \in [Threads -> Locals] /\ loc[t].j \in 0 .. BIN_CAPACITY
      /\ Slot(t) = <<HashIdx[k], loc[t].j>>
  BY <1>1, InCall DEF Slot
<1>3. ASSUME NEW r, Return(t, r) PROVE pc'[t] = "idle"
  BY <1>1, <1>3 DEF Return, Goto
<1>4. CASE ClaimFail(t) \/ PutCount(t) \/ SearchEnd(t) \/ QueryCheck(t) \/ DeleteCount(t)
  BY <1>3, <1>4 DEF ClaimFail, PutCount, SearchEnd, QueryCheck, DeleteCount
<1>5. CASE ModifyHit(t)
  <2>1. CASE Return(t, "ELEMENT_ALREADY_EXISTS")
    BY <1>3, <1>5, <2>1 DEF ModifyHit
  <2>2. CASE Continue(t, "m_store") /\ UNCHANGED loc
    BY <1>1, <1>2, <1>5, <2>2 DEF ModifyHit, Continue, Goto, Knows, Slot, OpsAt, ModifyOps
  <2> QED BY <1>5, <2>1, <2>2 DEF ModifyHit
<1>6. CASE ModifyPass(t)
  <2>1. /\ pc'[t] = "m_scan" /\ call' = call /\ UNCHANGED <<key, val>>
        /\ pc[t] = "m_scan" /\ key[<<HashIdx[k], loc[t].j>>] # k
    BY <1>1, <1>2, <1>6 DEF ModifyPass, Continue, Goto
  <2>2. loc'[t].j = loc[t].j + 1
    BY <1>2, <1>6 DEF ModifyPass, Locals
  <2>3. \A q \in Pos : q < loc[t].j + 1 => q < loc[t].j \/ q = loc[t].j
    BY <1>2, BinAssumption DEF Pos
  <2>4. \A q \in Pos : q < loc'[t].j => key[<<HashIdx[k], q>>] # k
    BY <1>2, <2>1, <2>2, <2>3 DEF Knows
  <2> QED BY <1>2, <2>1, <2>4 DEF Knows, OpsAt, ModifyOps
<1>7. CASE ModifyEnd(t)
  <2>1. CASE \E r : Return(t, r)
    BY <1>3, <1>7, <2>1 DEF ModifyEnd
  <2>2. CASE Continue(t, "cas")
    <3>1. pc[t] = "m_scan" /\ loc[t].j = BIN_CAPACITY /\ UNCHANGED <<key, val>>
      BY <1>7 DEF ModifyEnd
    <3>2. \A s \in Slots : key[s] # k
      BY <3>1, PassedAll
    <3> QED BY <1>1, <1>2, <2>2, <3>1, <3>2 DEF Continue, Goto, Knows, OpsAt, ModifyOps
  <2>3. CASE loc[t].i_min # NONE
    BY <1>1, <1>2, <2>3, CallType DEF NoSink, MapInv
  <2> QED BY <1>7, <2>1, <2>2, <2>3 DEF ModifyEnd
<1>8. CASE ClaimMiss(t)
  BY <1>1, <1>2, <1>8 DEF ClaimMiss, Continue, Goto, Knows
<1>9. CASE SearchHit(t)
  BY <1>1, <1>2, <1>9 DEF SearchHit, Continue, Goto, Knows, Slot
<1>10. CASE SearchPass(t)
  <2>1. /\ pc'[t] = "scan" /\ call' = call /\ UNCHANGED <<key, val>>
        /\ pc[t] = "scan" /\ key[<<HashIdx[k], loc[t].j>>] # k
    BY <1>1, <1>2, <1>10 DEF SearchPass, Continue, Goto
  <2>2. loc'[t].j = loc[t].j + 1
    BY <1>2, <1>10 DEF SearchPass, MoveTo, Locals
  <2>3. \A q \in Pos : q < loc[t].j + 1 => q < loc[t].j \/ q = loc[t].j
    BY <1>2, BinAssumption DEF Pos
  <2>4. call[t].op = "HASH_DELETE" =>
           \A q \in Pos : q < loc'[t].j => key[<<HashIdx[k], q>>] # k
    BY <1>2, <2>1, <2>2, <2>3 DEF Knows
  <2> QED BY <1>2, <2>1, <2>4 DEF Knows
<1>11. CASE QueryValue(t)
  BY <1>1, <1>2, <1>11 DEF QueryValue, Continue, Goto, Knows
<1> QED
  BY <1>4, <1>5, <1>6, <1>7, <1>8, <1>9, <1>10, <1>11

(* The stores into an entry. *)

(* An in-place store keeps the parts of MapInv: the entry still has the key. *)
LEMMA InplaceKnows ==
  ASSUME SingleWriter, MapInv, NEW t \in Threads, InplaceStore(t)
  PROVE  UniqueKey' /\ ValueOfKey' /\ InItsBin' /\ WriterKnows'
<1>1. pc[t] = "m_store" /\ pc[t] # "idle" /\ Step(t)
  BY DEF InplaceStore, Step, Modify
<1>2. /\ Slot(t) \in Slots /\ key[Slot(t)] = call[t].k /\ call[t].k \in Keys
      /\ call[t].v \in {call[t].k} \X Data
      /\ val \in [Slots -> Values \union {Zero}] /\ pc \in [Threads -> Labels]
  <2>1. call[t].op \notin SearchOps
    BY <1>1, InCall DEF OpsAt, ModifyOps, SearchOps
  <2> QED BY <1>1, <2>1, InCall, CallType DEF Knows, Loops, MapInv
<1>3. key' = key /\ val' = [val EXCEPT ![Slot(t)] = call[t].v] /\ pc'[t] = "idle"
  BY <1>2 DEF InplaceStore, SetVal, Return, Goto
<1>4. UniqueKey' /\ InItsBin'
  BY <1>3 DEF MapInv, UniqueKey, InItsBin
<1>5. ValueOfKey'
  BY <1>2, <1>3 DEF MapInv, ValueOfKey
<1>6. ASSUME NEW u \in Threads, u # t, pc'[u] # "idle" PROVE Knows(u)'
  <2>1. pc[u] # "idle"
    BY <1>1, <1>6, Frame DEF MapInv
  <2>2. pc[u] = "p_key" => val'[Slot(u)] = val[Slot(u)]
    <3>1. pc[u] = "p_key" => key[Slot(u)] = OCCUPIED_FLAG /\ Slot(u) \in Slots
      BY <2>1, InCall DEF MapInv, ExclusiveClaim, Owns, Loops
    <3> QED BY <1>2, <1>3, <3>1, FlagAssumption
  <2> QED BY <1>1, <1>3, <1>6, <2>1, <2>2, KnowsKept
<1> QED
  BY <1>3, <1>4, <1>5, <1>6 DEF WriterKnows

(* The value stored in a claimed entry disturbs no published entry. *)
LEMMA PutValueKnows ==
  ASSUME MapInv, NEW t \in Threads, PutValue(t)
  PROVE  UniqueKey' /\ ValueOfKey' /\ InItsBin' /\ WriterKnows'
<1>1. pc[t] = "p_val" /\ pc[t] # "idle" /\ Step(t)
  BY DEF PutValue, Step, Publish
<1>2. /\ Slot(t) \in Slots /\ key[Slot(t)] = OCCUPIED_FLAG /\ Knows(t)
      /\ val \in [Slots -> Values \union {Zero}] /\ pc \in [Threads -> Labels]
      /\ call[t].op \in PublishOps
  BY <1>1, InCall DEF MapInv, ExclusiveClaim, Owns, Loops, OpsAt
<1>3. /\ key' = key /\ val' = [val EXCEPT ![Slot(t)] = call[t].v] /\ pc'[t] = "p_key"
      /\ call' = call /\ Slot(t)' = Slot(t)
  BY <1>2 DEF PutValue, SetVal, Continue, Goto, Slot
<1>4. UniqueKey' /\ InItsBin'
  BY <1>3 DEF MapInv, UniqueKey, InItsBin
<1>5. ValueOfKey'
  BY <1>2, <1>3, FlagAssumption DEF MapInv, ValueOfKey
<1>6. ASSUME NEW u \in Threads, u # t, pc'[u] # "idle" PROVE Knows(u)'
  <2>1. pc[u] # "idle"
    BY <1>1, <1>6, Frame DEF MapInv
  <2>2. pc[u] = "p_key" => Slot(u) # Slot(t) /\ Slot(u) \in Slots
    BY <1>1, <1>6, <2>1, InCall DEF MapInv, ExclusiveClaim, Owns, Loops
  <2> QED BY <1>1, <1>2, <1>3, <1>6, <2>1, <2>2, KnowsKept
<1>7. Knows(t)'
  BY <1>1, <1>2, <1>3 DEF Knows, PublishOps
<1> QED
  BY <1>4, <1>5, <1>6, <1>7 DEF WriterKnows

(* The steps that change a key.  Another writer's key is neither put nor   *)
(* removed by them.                                                        *)

(* Claiming an empty entry keeps the parts of MapInv. *)
LEMMA ClaimKnows ==
  ASSUME MapInv, NEW t \in Threads, Claim(t)
  PROVE  UniqueKey' /\ ValueOfKey' /\ InItsBin' /\ WriterKnows'
<1>1. pc[t] = "cas" /\ pc[t] # "idle" /\ Step(t)
  BY DEF Claim, Step, Publish
<1>2. /\ Slot(t) \in Slots /\ key[Slot(t)] = EMPTY_FLAG /\ Knows(t)
      /\ key \in [Slots -> Words] /\ pc \in [Threads -> Labels] /\ call[t].k \in Keys
      /\ call[t].op \in PublishOps
  BY <1>1, InCall DEF Claim, OpsAt
<1>3. /\ key' = [key EXCEPT ![Slot(t)] = OCCUPIED_FLAG] /\ val' = val
      /\ pc'[t] = "p_val" /\ call' = call /\ Slot(t)' = Slot(t)
  BY <1>2 DEF Claim, SetKey, Continue, Goto, Slot
<1>4. \A k \in Keys : \A s \in Slots : key'[s] = k <=> key[s] = k
  BY <1>2, <1>3, FlagAssumption
<1>5. UniqueKey' /\ ValueOfKey' /\ InItsBin'
  BY <1>3, <1>4 DEF MapInv, UniqueKey, ValueOfKey, InItsBin
<1>6. ASSUME NEW u \in Threads, u # t, pc'[u] # "idle" PROVE Knows(u)'
  <2>1. pc[u] # "idle" /\ call[u].k \in Keys
    BY <1>1, <1>6, Frame, InCall DEF MapInv
  <2> QED BY <1>1, <1>3, <1>4, <1>6, <2>1, KnowsKept
<1>7. Knows(t)'
  BY <1>1, <1>2, <1>3, <1>4 DEF Knows, PublishOps
<1> QED
  BY <1>5, <1>6, <1>7 DEF WriterKnows

(* Publishing the key keeps it unique: no other thread writes that key. *)
LEMMA PutKeyKnows ==
  ASSUME SingleWriter, MapInv, NEW t \in Threads, PutKey(t)
  PROVE  UniqueKey' /\ ValueOfKey' /\ InItsBin' /\ WriterKnows'
<1> DEFINE k == call[t].k
<1>1. pc[t] = "p_key" /\ pc[t] # "idle" /\ Step(t)
  BY DEF PutKey, Step, Publish
<1>2. /\ Slot(t) \in Slots /\ key[Slot(t)] = OCCUPIED_FLAG /\ Knows(t)
      /\ key \in [Slots -> Words] /\ pc \in [Threads -> Labels] /\ k \in Keys
      /\ call[t].op \in PublishOps
  BY <1>1, InCall DEF MapInv, ExclusiveClaim, Owns, Loops, OpsAt
<1>3. /\ key' = [key EXCEPT ![Slot(t)] = k] /\ val' = val
      /\ pc'[t] = "p_cnt" /\ call' = call /\ Slot(t)' = Slot(t)
  BY <1>2 DEF PutKey, SetKey, Continue, Goto, Slot
<1>4. /\ \A s \in Slots : key[s] # k
      /\ val[Slot(t)] \in {k} \X Data
      /\ Slot(t)[1] = HashIdx[k]
  <2>1. call[t].op \notin SearchOps
    BY <1>2 DEF PublishOps, SearchOps
  <2>2. call[t].v \in {k} \X Data
    BY <1>1, <2>1, CallType DEF MapInv
  <2> QED BY <1>1, <1>2, <2>2 DEF Knows, Slot
<1>5. \A s \in Slots : key'[s] = IF s = Slot(t) THEN k ELSE key[s]
  BY <1>2, <1>3
<1>6. UniqueKey'
  BY <1>4, <1>5 DEF MapInv, UniqueKey
<1>7. ValueOfKey' /\ InItsBin'
  BY <1>3, <1>4, <1>5 DEF MapInv, ValueOfKey, InItsBin
<1>8. ASSUME NEW u \in Threads, u # t, pc'[u] # "idle" PROVE Knows(u)'
  <2>1. pc[u] # "idle" /\ call[u].k \in Keys
    BY <1>1, <1>8, Frame, InCall DEF MapInv
  <2>2. call[t].op # "HASH_QUERY"
    BY <1>2 DEF PublishOps
  <2>3. call[u].op # "HASH_QUERY" =>
           \A s \in Slots : key'[s] = call[u].k <=> key[s] = call[u].k
    BY <1>1, <1>2, <1>5, <1>8, <2>1, <2>2, OtherKey, FlagAssumption
  <2> QED BY <1>1, <1>3, <1>8, <2>1, <2>3, KnowsKept
<1>9. Knows(t)'
  BY <1>1, <1>2, <1>3 DEF Knows, PublishOps
<1> QED
  BY <1>6, <1>7, <1>8, <1>9 DEF WriterKnows

(* Removing the key keeps the parts of MapInv. *)
LEMMA DeleteKnows ==
  ASSUME SingleWriter, MapInv, NEW t \in Threads, DeleteCas(t)
  PROVE  UniqueKey' /\ ValueOfKey' /\ InItsBin' /\ WriterKnows'
<1> DEFINE k == call[t].k
<1>1. pc[t] = "d_cas" /\ pc[t] # "idle" /\ Step(t)
  BY DEF DeleteCas, Step, Search
<1>2. /\ Slot(t) \in Slots /\ key[Slot(t)] = k /\ Knows(t)
      /\ key \in [Slots -> Words] /\ pc \in [Threads -> Labels] /\ k \in Keys
      /\ call[t].op = "HASH_DELETE"
  BY <1>1, InCall DEF Loops, OpsAt, Knows
<1>3. /\ key' = [key EXCEPT ![Slot(t)] = EMPTY_FLAG] /\ val' = val
      /\ pc'[t] = "d_cnt" /\ call' = call
  BY <1>2 DEF DeleteCas, SetKey, Continue, Goto
<1>4. \A s \in Slots : key'[s] = IF s = Slot(t) THEN EMPTY_FLAG ELSE key[s]
  BY <1>2, <1>3
<1>5. UniqueKey' /\ ValueOfKey' /\ InItsBin'
  BY <1>3, <1>4, FlagAssumption DEF MapInv, UniqueKey, ValueOfKey, InItsBin
<1>6. ASSUME NEW u \in Threads, u # t, pc'[u] # "idle" PROVE Knows(u)'
  <2>1. pc[u] # "idle" /\ call[u].k \in Keys
    BY <1>1, <1>6, Frame, InCall DEF MapInv
  <2>2. call[u].op # "HASH_QUERY" =>
           \A s \in Slots : key'[s] = call[u].k <=> key[s] = call[u].k
    BY <1>1, <1>2, <1>4, <1>6, <2>1, OtherKey, FlagAssumption
  <2> QED BY <1>1, <1>3, <1>6, <2>1, <2>2, KnowsKept
<1>7. Knows(t)'
  BY <1>1, <1>2, <1>3 DEF Knows
<1> QED
  BY <1>5, <1>6, <1>7 DEF WriterKnows

(* MapInv is inductive for single writers without SINK. *)
LEMMA MapStep ==
  ASSUME NoSink, SingleWriter, MapInv, [Next]_vars
  PROVE  MapInv'
<1>1. TypeOK' /\ ExclusiveClaim'
  BY TypeStep, ExclusiveStep DEF MapInv
<1>2. UniqueKey' /\ ValueOfKey' /\ InItsBin' /\ WriterKnows'
  <2>1. CASE UNCHANGED vars
    BY <2>1 DEF vars, MapInv, UniqueKey, ValueOfKey, InItsBin, WriterKnows, Knows, Slot
  <2>2. ASSUME NEW t \in Threads, Begin(t) \/ Step(t)
        PROVE  UniqueKey' /\ ValueOfKey' /\ InItsBin' /\ WriterKnows'
    <3>1. CASE Begin(t)
      BY <3>1, BeginKnows, QuietStep
    <3>2. CASE \/ InplaceStore(t) \/ PutValue(t) \/ Claim(t) \/ PutKey(t) \/ DeleteCas(t)
      BY <3>2, InplaceKnows, PutValueKnows, ClaimKnows, PutKeyKnows, DeleteKnows
    <3>3. CASE Step(t) /\ ~(\/ InplaceStore(t) \/ PutValue(t) \/ Claim(t)
                            \/ PutKey(t) \/ DeleteCas(t))
      <4>1. ~Sink(t)
        BY NeverSinks DEF MapInv
      <4>2. UNCHANGED <<key, val>> /\ (pc'[t] # "idle" => Knows(t)')
        BY <3>3, <4>1, ScanKnows DEF Step, Modify, Publish, Search
      <4> QED BY <3>3, <4>2, QuietStep
    <3> QED BY <2>2, <3>1, <3>2, <3>3
  <2> QED BY <2>1, <2>2 DEF Next
<1> QED
  BY <1>1, <1>2 DEF MapInv

(* MapInv is an invariant for single writers without SINK. *)
LEMMA MapInvariant == ASSUME NoSink, SingleWriter PROVE Spec => []MapInv
<1>1. Init => MapInv
  <2>1. Init => ExclusiveClaim
    BY FlagAssumption DEF Init, ExclusiveClaim, Owns
  <2> QED BY <2>1, TypeInit, MapInit DEF MapInv
<1>2. MapInv /\ [Next]_vars => MapInv'
  BY MapStep
<1> QED
  BY <1>1, <1>2, PTL DEF Spec

(* With one writer per key and without SINK a key is in one entry at most, *)
(* in every table and with any number of threads: hash.c:131 never adds a  *)
(* second copy.                                                            *)
THEOREM OneCopy == ASSUME NoSink, SingleWriter PROVE Spec => []UniqueKey
<1>1. MapInv => UniqueKey
  BY DEF MapInv
<1> QED
  BY <1>1, MapInvariant, PTL

(* Under the same discipline a published entry holds a value that was      *)
(* stored for its key: the store of hash.c:105, which looks at no key,     *)
(* never overwrites the value of another.                                  *)
THEOREM OwnValue == ASSUME NoSink, SingleWriter PROVE Spec => []ValueOfKey
<1>1. MapInv => ValueOfKey
  BY DEF MapInv
<1> QED
  BY <1>1, MapInvariant, PTL

(* Under the same discipline what a thread has read of its key stays true  *)
(* until it acts on it, although it holds no lock: the entries its scan    *)
(* has passed, the entry it hit, the absence that hash.c:122 relies on and *)
(* the value in the entry it claimed.                                      *)
THEOREM StillKnown == ASSUME NoSink, SingleWriter PROVE Spec => []WriterKnows
<1>1. MapInv => WriterKnows
  BY DEF MapInv
<1> QED
  BY <1>1, MapInvariant, PTL
-----------------------------------------------------------------------------
(* The map that keys K and values V show. *)
Shown(K, V, k) == IF \E s \in Slots : K[s] = k
                  THEN V[CHOOSE s \in Slots : K[s] = k] ELSE Absent

(* Lookup is what key and val show, before and after a step. *)
LEMMA LookupShown == \A k : /\ Lookup(k) = Shown(key, val, k)
                            /\ Lookup(k)' = Shown(key', val', k)
BY DEF Lookup, Shown

(* A key in exactly one entry shows the value of that entry. *)
LEMMA ShownAt ==
  ASSUME NEW K, NEW V, NEW k, NEW s \in Slots, K[s] = k, \A r \in Slots : K[r] = k => r = s
  PROVE  Shown(K, V, k) = V[s]
<1>1. (CHOOSE r \in Slots : K[r] = k) = s
  OBVIOUS
<1> QED
  BY <1>1 DEF Shown

(* A key in no entry shows Absent. *)
LEMMA ShownNone ==
  ASSUME NEW K, NEW V, NEW k, \A s \in Slots : K[s] # k
  PROVE  Shown(K, V, k) = Absent
BY DEF Shown

(* A key that stays in its entry with its value, or stays out, shows the   *)
(* same.                                                                   *)
LEMMA ShownSame ==
  ASSUME MapInv, MapInv', NEW k \in Keys,
         \A s \in Slots : key'[s] = k <=> key[s] = k,
         \A s \in Slots : key[s] = k => val'[s] = val[s]
  PROVE  Lookup(k)' = Lookup(k)
<1>1. CASE \E s \in Slots : key[s] = k
  <2>1. PICK s \in Slots : key[s] = k
    BY <1>1
  <2>2. Shown(key, val, k) = val[s]
    BY <2>1, ShownAt DEF MapInv, UniqueKey
  <2>3. Shown(key', val', k) = val'[s]
    BY <2>1, ShownAt DEF MapInv, UniqueKey
  <2> QED BY <2>1, <2>2, <2>3, LookupShown
<1>2. CASE \A s \in Slots : key[s] # k
  <2>1. Shown(key, val, k) = Absent
    BY <1>2, ShownNone
  <2>2. Shown(key', val', k) = Absent
    BY <1>2, ShownNone
  <2> QED BY <2>1, <2>2, LookupShown
<1> QED
  BY <1>1, <1>2

(* A key that is in the table shows its value, which is not Absent. *)
LEMMA Here ==
  ASSUME MapInv, NEW k \in Keys, NEW s \in Slots, key[s] = k
  PROVE  Lookup(k) # Absent
<1>1. \A r \in Slots : key[r] = k => r = s
  BY DEF MapInv, UniqueKey
<1>2. Shown(key, val, k) = val[s]
  BY <1>1, ShownAt
<1>3. val[s] \in Keys \X Data
  BY DEF MapInv, ValueOfKey
<1> QED
  BY <1>2, <1>3, LookupShown, ValueAssumption

(* The abstract state: what Map reads off the table. *)
AMap  == [k \in Keys |-> Lookup(k)]
ACall == [t \in Threads |-> IF Answer(t) = "PENDING" THEN call[t] ELSE NoCall]
ACode == [t \in Threads |-> Answer(t)]

(* The entry s of k is written, and no other key shows differently. *)
LEMMA ShownPut ==
  ASSUME MapInv', NEW k \in Keys, NEW s \in Slots, key'[s] = k,
         \A x \in Keys : x # k => Lookup(x)' = Lookup(x)
  PROVE  AMap' = [AMap EXCEPT ![k] = val'[s]]
<1>1. \A r \in Slots : key'[r] = k => r = s
  BY DEF MapInv, UniqueKey
<1>2. Shown(key', val', k) = val'[s]
  BY <1>1, ShownAt
<1>3. Lookup(k)' = val'[s]
  BY <1>2, LookupShown
<1> QED
  BY <1>3 DEF AMap

(* The key k is gone, and no other key shows differently. *)
LEMMA ShownGone ==
  ASSUME NEW k \in Keys, \A s \in Slots : key'[s] # k,
         \A x \in Keys : x # k => Lookup(x)' = Lookup(x)
  PROVE  AMap' = [AMap EXCEPT ![k] = Absent]
<1>1. Shown(key', val', k) = Absent
  BY ShownNone
<1>2. Lookup(k)' = Absent
  BY <1>1, LookupShown
<1> QED
  BY <1>2 DEF AMap

(* A step of t leaves the calls and answers of the others alone. *)
LEMMA OthersAnswer ==
  ASSUME MapInv, NEW t \in Threads, Begin(t) \/ Step(t), NEW u \in Threads, u # t
  PROVE  Answer(u)' = Answer(u) /\ call'[u] = call[u]
BY Frame DEF Answer, MapInv

(* A step that neither shows in the map nor answers the call of t. *)
LEMMA AbstractStutter ==
  ASSUME MapInv, NEW t \in Threads, Begin(t) \/ Step(t),
         \A k \in Keys : Lookup(k)' = Lookup(k),
         Answer(t)' = Answer(t), Answer(t) = "PENDING" => call'[t] = call[t]
  PROVE  UNCHANGED Map!vars
<1>1. \A u \in Threads : Answer(u)' = Answer(u)
  BY OthersAnswer
<1>2. \A u \in Threads : Answer(u) = "PENDING" => call'[u] = call[u]
  BY OthersAnswer
<1>3. AMap' = AMap
  BY DEF AMap
<1>4. ACall' = ACall
  BY <1>1, <1>2 DEF ACall
<1>5. ACode' = ACode
  BY <1>1 DEF ACode
<1> QED
  BY <1>3, <1>4, <1>5 DEF Map!vars, AMap, ACall, ACode

(* A step that answers the call of t with a and changes the map to m. *)
LEMMA AbstractEffect ==
  ASSUME MapInv, NEW t \in Threads, Begin(t) \/ Step(t), NEW a,
         Answer(t) = "PENDING", Answer(t)' = a, a # "PENDING"
  PROVE  /\ ACode[t] = "PENDING" /\ ACall[t] = call[t]
         /\ ACall' = [ACall EXCEPT ![t] = NoCall]
         /\ ACode' = [ACode EXCEPT ![t] = a]
<1>1. \A u \in Threads \ {t} : Answer(u)' = Answer(u) /\ call'[u] = call[u]
  BY OthersAnswer
<1>2. ACall' = [ACall EXCEPT ![t] = NoCall]
  BY <1>1 DEF ACall
<1>3. ACode' = [ACode EXCEPT ![t] = a]
  BY <1>1 DEF ACode
<1> QED
  BY <1>2, <1>3 DEF ACall, ACode

(* Take, with the answer and the map it leaves as they are read off the    *)
(* table.                                                                  *)
LEMMA AbstractTake ==
  ASSUME NEW t \in Threads, NEW a,
         ACode[t] = "PENDING", ACall' = [ACall EXCEPT ![t] = NoCall],
         ACode' = [ACode EXCEPT ![t] = a],
         NEW r, ACall[t] = r,
         \/ /\ r.op \in {"INSERT", "STRICT_UPDATE"} /\ AMap[r.k] # Absent
            /\ a = "SUCCESS" /\ AMap' = [AMap EXCEPT ![r.k] = r.v]
         \/ /\ r.op \in {"INSERT", "STRICT_INSERT", "NOCHECK"} /\ AMap[r.k] = Absent
            /\ \/ a = "SUCCESS" /\ AMap' = [AMap EXCEPT ![r.k] = r.v]
               \/ a = "HASH_BIN_FULL" /\ AMap' = AMap
         \/ /\ r.op = "STRICT_INSERT" /\ AMap[r.k] # Absent
            /\ a = "ELEMENT_ALREADY_EXISTS" /\ AMap' = AMap
         \/ /\ r.op = "STRICT_UPDATE" /\ AMap[r.k] = Absent
            /\ a = "ELEMENT_NOT_FOUND" /\ AMap' = AMap
         \/ /\ r.op = "HASH_DELETE" /\ AMap[r.k] # Absent
            /\ a = "FOUND" /\ AMap' = [AMap EXCEPT ![r.k] = Absent]
         \/ /\ r.op = "HASH_DELETE" /\ AMap[r.k] = Absent
            /\ a = "MISSED" /\ AMap' = AMap
         \/ /\ r.op = "HASH_QUERY"
            /\ a \in {"FOUND", "MISSED"} /\ AMap' = AMap
  PROVE  Map!Next
<1>1. Map!Take(t)
  BY DEF Map!Take, Map!Effect, Map!Put, Map!Inserting, AMap, ACall, ACode
<1> QED
  BY <1>1 DEF Map!Next

(* A thread that answers with a while no entry changes. *)
LEMMA QuietAnswer ==
  ASSUME MapInv, MapInv', NEW t \in Threads, Step(t), NEW a \in Codes, Return(t, a),
         UNCHANGED <<key, val>>, pc[t] \notin {"idle", "p_cnt", "d_cnt"}
  PROVE  /\ ACode[t] = "PENDING" /\ ACall[t] = call[t]
         /\ ACall' = [ACall EXCEPT ![t] = NoCall]
         /\ ACode' = [ACode EXCEPT ![t] = a]
         /\ AMap' = AMap
<1>1. Answer(t) = "PENDING" /\ a # "PENDING"
  BY DEF Answer, Codes
<1>2. Answer(t)' = a
  BY DEF Return, Goto, Answer, MapInv, TypeOK
<1>3. \A k \in Keys : Lookup(k)' = Lookup(k)
  BY ShownSame
<1>4. AMap' = AMap
  BY <1>3 DEF AMap
<1> QED
  BY <1>1, <1>2, <1>4, AbstractEffect

(* A thread that goes on inside its call while no key shows differently. *)
LEMMA QuietGoesOn ==
  ASSUME MapInv, NEW t \in Threads, Step(t), NEW l, Continue(t, l),
         pc[t] \notin {"idle", "p_cnt", "d_cnt"}, l \notin {"idle", "p_cnt", "d_cnt"},
         \A k \in Keys : Lookup(k)' = Lookup(k)
  PROVE  UNCHANGED Map!vars
<1>1. Answer(t) = "PENDING" /\ Answer(t)' = "PENDING" /\ call'[t] = call[t]
  BY DEF Answer, Continue, Goto, MapInv, TypeOK
<1> QED
  BY <1>1, AbstractStutter

(* Entering a call is an Invoke of KVMap. *)
LEMMA InvokeStep ==
  ASSUME MapInv, MapInv', NEW t \in Threads, Begin(t)
  PROVE  Map!Next
<1>1. ASSUME NEW op, NEW k \in Keys, NEW v \in Values \union {Zero}, NEW l \in Loops,
             Enter(t, op, k, v, l)
      PROVE  Map!Next
  <2> DEFINE r == [op |-> op, k |-> k, v |-> v]
  <2>1. /\ pc[t] = "idle" /\ pc'[t] = l /\ call'[t] = r /\ r \in Calls
        /\ UNCHANGED <<key, val>>
    BY <1>1 DEF Enter, Goto, MapInv, TypeOK, Calls, table
  <2> HIDE DEF r
  <2>2. Answer(t) # "PENDING" /\ Answer(t)' = "PENDING"
    BY <2>1 DEF Answer, Loops, MapInv, TypeOK, Codes
  <2>3. \A u \in Threads \ {t} : Answer(u)' = Answer(u) /\ call'[u] = call[u]
    BY OthersAnswer
  <2>4. ACall' = [ACall EXCEPT ![t] = r]
    BY <2>1, <2>2, <2>3 DEF ACall
  <2>5. ACode' = [ACode EXCEPT ![t] = "PENDING"]
    BY <2>2, <2>3 DEF ACode
  <2>6. AMap' = AMap
    <3>1. \A x \in Keys : Lookup(x)' = Lookup(x)
      BY <2>1, ShownSame
    <3> QED BY <3>1 DEF AMap
  <2>7. ACode[t] # "PENDING"
    BY <2>2 DEF ACode
  <2>8. Map!Invoke(t)
    BY <2>1, <2>4, <2>5, <2>6, <2>7 DEF Map!Invoke, Map!Calls, Calls, AMap, ACall, ACode
  <2> QED BY <2>8 DEF Map!Next
<1> QED
  BY <1>1 DEF Begin, CallModify, CallNocheck, CallSearch, Loops, Values

(* A step of hash_modify's scan is an effect of KVMap or invisible. *)
LEMMA ModifyTakes ==
  ASSUME NoSink, MapInv, MapInv', NEW t \in Threads, Modify(t)
  PROVE  Map!Next \/ UNCHANGED Map!vars
<1> DEFINE k == call[t].k
<1>1. pc[t] \in {"m_scan", "m_store"} /\ Step(t)
  BY DEF Modify, ModifyHit, ModifyPass, InplaceStore, ModifyEnd, Step
<1>2. /\ Knows(t) /\ k \in Keys /\ call[t].op \in OpsAt(pc[t]) /\ call[t].op # "UPDATE"
      /\ loc[t].j \in Pos => Slot(t) \in Slots
      /\ pc[t] = "m_store" => loc[t].j \in Pos
      /\ val \in [Slots -> Values \union {Zero}]
  BY <1>1, InCall DEF NoSink, Loops
<1>3. UNCHANGED table => \A x \in Keys : Lookup(x)' = Lookup(x)
  BY ShownSame DEF table
<1>4. CASE ModifyHit(t)
  <2>1. AMap[k] # Absent
    BY <1>2, <1>4, Here DEF ModifyHit, AMap
  <2>2. CASE call[t].op = "STRICT_INSERT" /\ Return(t, "ELEMENT_ALREADY_EXISTS")
    BY <1>1, <1>4, <2>1, <2>2, QuietAnswer, AbstractTake DEF ModifyHit, table, Codes
  <2>3. CASE Continue(t, "m_store")
    BY <1>1, <1>3, <1>4, <2>3, QuietGoesOn DEF ModifyHit
  <2> QED BY <1>4, <2>2, <2>3 DEF ModifyHit
<1>5. CASE ModifyPass(t)
  BY <1>1, <1>3, <1>5, QuietGoesOn DEF ModifyPass
<1>6. CASE InplaceStore(t)
  <2>1. /\ pc[t] = "m_store" /\ key' = key /\ val' = [val EXCEPT ![Slot(t)] = call[t].v]
        /\ Return(t, "SUCCESS") /\ Slot(t) \in Slots /\ key[Slot(t)] = k
    BY <1>2, <1>6 DEF InplaceStore, SetVal, Knows
  <2>3. val'[Slot(t)] = call[t].v
    BY <1>2, <2>1
  <2>4. \A x \in Keys : x # k => Lookup(x)' = Lookup(x)
    BY <1>2, <2>1, ShownSame
  <2>5. AMap' = [AMap EXCEPT ![k] = call[t].v]
    BY <1>2, <2>1, <2>3, <2>4, ShownPut
  <2>6. AMap[k] # Absent
    BY <1>2, <2>1, Here DEF AMap
  <2>7. Answer(t) = "PENDING" /\ Answer(t)' = "SUCCESS"
    BY <2>1 DEF Answer, Return, Goto, MapInv, TypeOK
  <2>8. call[t].op \in {"INSERT", "STRICT_UPDATE"}
    BY <1>2, <2>1 DEF OpsAt, ModifyOps
  <2> QED BY <1>1, <2>5, <2>6, <2>7, <2>8, AbstractEffect, AbstractTake
<1>7. CASE ModifyEnd(t)
  <2>1. pc[t] = "m_scan" /\ loc[t].j = BIN_CAPACITY /\ UNCHANGED table
    BY <1>7 DEF ModifyEnd
  <2>2. AMap[k] = Absent
    <3>1. \A s \in Slots : key[s] # k
      BY <2>1, PassedAll
    <3>2. Shown(key, val, k) = Absent
      BY <3>1, ShownNone
    <3> QED BY <1>2, <3>2, LookupShown DEF AMap
  <2>3. CASE call[t].op = "STRICT_UPDATE" /\ Return(t, "ELEMENT_NOT_FOUND")
    BY <1>1, <2>1, <2>2, <2>3, QuietAnswer, AbstractTake DEF table, Codes
  <2>4. CASE call[t].op # "STRICT_UPDATE" /\ Return(t, "HASH_BIN_FULL")
    <3>1. call[t].op \in {"INSERT", "STRICT_INSERT", "NOCHECK"}
      BY <1>2, <2>1, <2>4 DEF OpsAt, ModifyOps
    <3> QED BY <1>1, <2>1, <2>2, <2>4, <3>1, QuietAnswer, AbstractTake DEF table, Codes
  <2>5. CASE Continue(t, "cas") \/ Continue(t, "s_claim")
    BY <1>1, <1>3, <2>1, <2>5, QuietGoesOn
  <2> QED BY <1>7, <2>3, <2>4, <2>5 DEF ModifyEnd
<1> QED
  BY <1>4, <1>5, <1>6, <1>7 DEF Modify

(* A step of the publication loop is an effect of KVMap or invisible. *)
LEMMA PublishTakes ==
  ASSUME NoSink, SingleWriter, MapInv, MapInv', NEW t \in Threads, Publish(t)
  PROVE  Map!Next \/ UNCHANGED Map!vars
<1> DEFINE k == call[t].k
<1>1. pc[t] \in {"cas", "p_val", "p_key", "p_cnt"} /\ pc[t] # "idle" /\ Step(t)
  BY DEF Publish, Claim, ClaimMiss, ClaimFail, PutValue, PutKey, PutCount, Step
<1>2. /\ Knows(t) /\ k \in Keys /\ call[t].op \in {"INSERT", "STRICT_INSERT", "NOCHECK"}
      /\ loc[t].j \in Pos => Slot(t) \in Slots
      /\ pc[t] # "cas" => loc[t].j \in Pos
      /\ key \in [Slots -> Words] /\ val \in [Slots -> Values \union {Zero}]
  BY <1>1, InCall DEF NoSink, Loops, OpsAt, PublishOps
<1>3. UNCHANGED table => \A x \in Keys : Lookup(x)' = Lookup(x)
  BY ShownSame DEF table
<1>4. pc[t] # "p_cnt" => AMap[k] = Absent
  <2>1. pc[t] # "p_cnt" => \A s \in Slots : key[s] # k
    BY <1>1, <1>2 DEF Knows
  <2>2. pc[t] # "p_cnt" => Shown(key, val, k) = Absent
    BY <2>1, ShownNone
  <2> QED BY <1>2, <2>2, LookupShown DEF AMap
<1>5. CASE Claim(t)
  <2>1. /\ Slot(t) \in Slots /\ key[Slot(t)] = EMPTY_FLAG /\ val' = val
        /\ key' = [key EXCEPT ![Slot(t)] = OCCUPIED_FLAG]
    BY <1>2, <1>5 DEF Claim, SetKey
  <2>2. \A x \in Keys : Lookup(x)' = Lookup(x)
    BY <1>2, <2>1, ShownSame, FlagAssumption
  <2> QED BY <1>1, <1>5, <2>2, QuietGoesOn DEF Claim
<1>6. CASE ClaimMiss(t)
  BY <1>1, <1>3, <1>6, QuietGoesOn DEF ClaimMiss
<1>7. CASE ClaimFail(t)
  BY <1>1, <1>2, <1>4, <1>7, QuietAnswer, AbstractTake DEF ClaimFail, table, Codes
<1>8. CASE PutValue(t)
  <2>1. /\ Slot(t) \in Slots /\ key[Slot(t)] = OCCUPIED_FLAG /\ key' = key
        /\ val' = [val EXCEPT ![Slot(t)] = call[t].v]
    BY <1>2, <1>8 DEF PutValue, SetVal, MapInv, ExclusiveClaim, Owns
  <2>2. \A x \in Keys : Lookup(x)' = Lookup(x)
    BY <1>2, <2>1, ShownSame, FlagAssumption
  <2> QED BY <1>1, <1>8, <2>2, QuietGoesOn DEF PutValue
<1>9. CASE PutKey(t)
  <2>1. /\ Slot(t) \in Slots /\ key[Slot(t)] = OCCUPIED_FLAG /\ val' = val
        /\ key' = [key EXCEPT ![Slot(t)] = k] /\ pc[t] = "p_key"
        /\ val[Slot(t)] = call[t].v
    BY <1>2, <1>9 DEF PutKey, SetKey, MapInv, ExclusiveClaim, Owns, Knows
  <2>2. \A x \in Keys : x # k => Lookup(x)' = Lookup(x)
    BY <1>2, <2>1, ShownSame, FlagAssumption
  <2>3. AMap' = [AMap EXCEPT ![k] = call[t].v]
    BY <1>2, <2>1, <2>2, ShownPut
  <2>4. Answer(t) = "PENDING" /\ Answer(t)' = "SUCCESS"
    BY <1>9 DEF PutKey, Answer, Continue, Goto, MapInv, TypeOK
  <2> QED BY <1>1, <1>2, <1>4, <2>1, <2>3, <2>4, AbstractEffect, AbstractTake
<1>10. CASE PutCount(t)
  <2>1. Answer(t) = "SUCCESS" /\ Answer(t)' = "SUCCESS"
    BY <1>10 DEF PutCount, Answer, Return, Goto, MapInv, TypeOK
  <2>2. \A x \in Keys : Lookup(x)' = Lookup(x)
    BY <1>10, ShownSame DEF PutCount
  <2> QED BY <1>1, <2>1, <2>2, AbstractStutter
<1> QED
  BY <1>5, <1>6, <1>7, <1>8, <1>9, <1>10 DEF Publish

(* A step of hash_search is an effect of KVMap or invisible. *)
LEMMA SearchTakes ==
  ASSUME MapInv, MapInv', NEW t \in Threads, Search(t)
  PROVE  Map!Next \/ UNCHANGED Map!vars
<1> DEFINE k == call[t].k
<1>1. pc[t] \in {"scan", "q_val", "q_check", "d_cas", "d_cnt"} /\ pc[t] # "idle" /\ Step(t)
  BY DEF Search, SearchHit, SearchPass, SearchEnd, QueryValue, QueryCheck, DeleteCas,
         DeleteCount, Step
<1>2. /\ Knows(t) /\ k \in Keys /\ call[t].op \in OpsAt(pc[t])
      /\ loc[t].j \in Pos => Slot(t) \in Slots
      /\ pc[t] # "scan" => loc[t].j \in Pos
      /\ key \in [Slots -> Words]
  BY <1>1, InCall DEF Loops
<1>3. UNCHANGED table => \A x \in Keys : Lookup(x)' = Lookup(x)
  BY ShownSame DEF table
<1>4. CASE SearchHit(t)
  BY <1>1, <1>3, <1>4, QuietGoesOn DEF SearchHit
<1>5. CASE SearchPass(t)
  BY <1>1, <1>3, <1>5, QuietGoesOn DEF SearchPass
<1>6. CASE SearchEnd(t)
  <2>1. call[t].op = "HASH_DELETE" => AMap[k] = Absent
    <3>1. call[t].op = "HASH_DELETE" => \A s \in Slots : key[s] # k
      BY <1>6, PassedAll DEF SearchEnd
    <3>2. call[t].op = "HASH_DELETE" => Shown(key, val, k) = Absent
      BY <3>1, ShownNone
    <3> QED BY <1>2, <3>2, LookupShown DEF AMap
  <2>2. call[t].op \in {"HASH_QUERY", "HASH_DELETE"}
    BY <1>2, <1>6 DEF SearchEnd, OpsAt, SearchOps
  <2> QED BY <1>1, <1>6, <2>1, <2>2, QuietAnswer, AbstractTake DEF SearchEnd, table, Codes
<1>7. CASE QueryValue(t)
  BY <1>1, <1>3, <1>7, QuietGoesOn DEF QueryValue
<1>8. CASE QueryCheck(t)
  <2>1. call[t].op = "HASH_QUERY" /\ pc[t] = "q_check"
    BY <1>2, <1>8 DEF QueryCheck, OpsAt
  <2>2. PICK a \in {"FOUND", "MISSED"} : Return(t, a) /\ UNCHANGED table
    BY <1>8 DEF QueryCheck
  <2> QED BY <1>1, <2>1, <2>2, QuietAnswer, AbstractTake DEF table, Codes
<1>9. CASE DeleteCas(t)
  <2>1. /\ Slot(t) \in Slots /\ key[Slot(t)] = k /\ pc[t] = "d_cas"
        /\ call[t].op = "HASH_DELETE"
    BY <1>2, <1>9 DEF DeleteCas, Knows, OpsAt
  <2>2. /\ val' = val /\ key' = [key EXCEPT ![Slot(t)] = EMPTY_FLAG]
        /\ Continue(t, "d_cnt")
    BY <1>9, <2>1 DEF DeleteCas, SetKey
  <2>3. \A s \in Slots : key'[s] # k
    BY <1>2, <2>1, <2>2, FlagAssumption DEF MapInv, UniqueKey
  <2>4. \A x \in Keys : x # k => Lookup(x)' = Lookup(x)
    BY <1>2, <2>1, <2>2, ShownSame, FlagAssumption
  <2>5. AMap' = [AMap EXCEPT ![k] = Absent]
    BY <1>2, <2>3, <2>4, ShownGone
  <2>6. AMap[k] # Absent
    BY <1>2, <2>1, Here DEF AMap
  <2>7. Answer(t) = "PENDING" /\ Answer(t)' = "FOUND"
    BY <2>1, <2>2 DEF Answer, Continue, Goto, MapInv, TypeOK
  <2> QED BY <1>1, <2>1, <2>5, <2>6, <2>7, AbstractEffect, AbstractTake
<1>10. CASE DeleteCount(t)
  <2>1. Answer(t) = "FOUND" /\ Answer(t)' = "FOUND"
    BY <1>10 DEF DeleteCount, Answer, Return, Goto, MapInv, TypeOK
  <2>2. \A x \in Keys : Lookup(x)' = Lookup(x)
    BY <1>10, ShownSame DEF DeleteCount
  <2> QED BY <1>1, <2>1, <2>2, AbstractStutter
<1> QED
  BY <1>4, <1>5, <1>6, <1>7, <1>8, <1>9, <1>10 DEF Search

(* With one writer per key and without SINK the table implements the map:  *)
(* every modifying call takes effect at one instant, at its store or       *)
(* compare-and-swap on the key or the value (hash.c:105, :133, :164, :185) *)
(* or, refused, at the load that decides it, with the right code.          *)
THEOREM Implements == ASSUME NoSink, SingleWriter PROVE Spec => ImplementsMap
<1>1. Init => Map!Init
  <2> SUFFICES ASSUME Init PROVE Map!Init
    OBVIOUS
  <2>1. \A k \in Keys : Lookup(k) = Absent
    BY FlagAssumption DEF Init, Lookup
  <2>2. \A t \in Threads : Answer(t) = "NONE"
    BY DEF Init, Answer
  <2> QED BY <2>1, <2>2 DEF Map!Init
<1>2. MapInv /\ MapInv' /\ [Next]_vars => [Map!Next]_(Map!vars)
  <2> SUFFICES ASSUME MapInv, MapInv', [Next]_vars PROVE Map!Next \/ UNCHANGED Map!vars
    OBVIOUS
  <2>1. CASE UNCHANGED vars
    BY <2>1 DEF vars, Map!vars, Lookup, Answer
  <2>2. ASSUME NEW t \in Threads, Begin(t) \/ Step(t)
        PROVE  Map!Next \/ UNCHANGED Map!vars
    <3>1. ~Sink(t)
      BY NeverSinks DEF MapInv
    <3> QED BY <2>2, <3>1, InvokeStep, ModifyTakes, PublishTakes, SearchTakes DEF Step
  <2> QED BY <2>1, <2>2 DEF Next
<1> QED
  BY <1>1, <1>2, MapInvariant, PTL DEF Spec, ImplementsMap, Map!Spec
-----------------------------------------------------------------------------
(***************************************************************************)
(* The answers of hash_search.  A query reads one entry after the other    *)
(* and then an entry's value and its key again, without a lock.  As long   *)
(* as the key is never out of the table it stays in one entry, because     *)
(* only a removal and an insertion move it; so what the query has read of  *)
(* the keys is still true, unless the key was out.                         *)
(***************************************************************************)

(* What a running query has seen of its key, if the key was never out. *)
Followed(t) ==
  LET k == call[t].k
  IN /\ pc[t] = "scan" => \A p \in Pos : p < loc[t].j => key[<<HashIdx[k], p>>] # k
     /\ pc[t] \in {"q_val", "q_check"} => key[Slot(t)] = k
     /\ pc[t] = "q_check" => loc[t].res \in seen[t]

QueryInv == \A t \in Threads : Querying(t) =>
              /\ Lookup(call[t].k) \in seen[t]
              /\ Absent \in seen[t] \/ Followed(t)

(* A step changes the key of one entry at most. *)
LEMMA OneEntry ==
  ASSUME MapInv, NoSink, NEW u \in Threads, Begin(u) \/ Step(u)
  PROVE  \E s : \A r \in Slots : r # s => key'[r] = key[r]
<1> USE DEF table
<1>1. key \in [Slots -> Words] /\ ~Sink(u)
  BY NeverSinks DEF MapInv, TypeOK, TableOK
<1>2. CASE \E w : SetKey(u, w)
  BY <1>1, <1>2 DEF SetKey
<1>3. CASE key' = key
  BY <1>3
<1>4. CASE Begin(u)
  BY <1>3, <1>4 DEF Begin, CallModify, CallNocheck, CallSearch, Enter
<1>5. CASE Modify(u)
  BY <1>3, <1>5 DEF Modify, ModifyHit, ModifyPass, InplaceStore, ModifyEnd
<1>6. CASE Publish(u)
  BY <1>2, <1>3, <1>6 DEF Publish, Claim, ClaimMiss, ClaimFail, PutValue, PutKey, PutCount
<1>7. CASE Search(u)
  BY <1>2, <1>3, <1>7 DEF Search, SearchHit, SearchPass, SearchEnd, QueryValue, QueryCheck,
                          DeleteCas, DeleteCount
<1> QED
  BY <1>1, <1>4, <1>5, <1>6, <1>7 DEF Step

(* What the map shows in terms of the entries, before and after a step. *)
LEMMA LookupAt ==
  ASSUME MapInv, NEW k \in Keys
  PROVE  /\ \A s \in Slots : key[s] = k => Lookup(k) = val[s]
         /\ Lookup(k) # Absent => \E s \in Slots : key[s] = k
<1>1. ASSUME NEW s \in Slots, key[s] = k PROVE Shown(key, val, k) = val[s]
  <2>1. \A r \in Slots : key[r] = k => r = s
    BY <1>1 DEF MapInv, UniqueKey
  <2> QED BY <1>1, <2>1, ShownAt
<1> QED
  BY <1>1, LookupShown DEF Lookup

LEMMA GoneAfter ==
  ASSUME NEW k \in Keys, Lookup(k)' # Absent
  PROVE  \E s \in Slots : key'[s] = k
BY DEF Lookup

(* A key that is in the table before and after a step is in the same entry. *)
LEMMA SameEntry ==
  ASSUME MapInv, MapInv', NoSink, NEW u \in Threads, Begin(u) \/ Step(u), NEW k \in Keys,
         Lookup(k) # Absent, Lookup(k)' # Absent
  PROVE  \A s \in Slots : key'[s] = k <=> key[s] = k
<1>1. PICK s \in Slots : key[s] = k
  BY LookupAt
<1>2. PICK r \in Slots : key'[r] = k
  BY GoneAfter
<1>3. PICK c : \A x \in Slots : x # c => key'[x] = key[x]
  BY OneEntry
<1>4. r = s
  <2>1. CASE s # c
    BY <1>1, <1>2, <1>3, <2>1 DEF MapInv, UniqueKey
  <2>2. CASE r # c
    BY <1>1, <1>2, <1>3, <2>2 DEF MapInv, UniqueKey
  <2> QED BY <2>1, <2>2
<1> QED
  BY <1>1, <1>2, <1>4 DEF MapInv, UniqueKey

(* The history of a query grows by what the table now holds. *)
LEMMA Observed ==
  ASSUME Observe, NEW t \in Threads, Querying(t)'
  PROVE  seen'[t] = seen[t] \union {Lookup(call[t].k)'}
BY DEF Observe

(* A step of another thread does not disturb what a query has seen. *)
LEMMA OtherFollowed ==
  ASSUME MapInv, MapInv', NoSink, QueryInv, Observe, NEW u \in Threads, Begin(u) \/ Step(u),
         NEW t \in Threads, t # u, Querying(t)'
  PROVE  Absent \in seen'[t] \/ Followed(t)'
<1>1. pc'[t] = pc[t] /\ call'[t] = call[t] /\ loc'[t] = loc[t] /\ Slot(t)' = Slot(t)
  BY Frame DEF MapInv, Slot
<1>2. Querying(t) /\ pc[t] # "idle"
  BY <1>1 DEF Querying
<1>3. PICK k \in Keys : k = call[t].k
  BY <1>2, InCall
<1>4. /\ pc[t] \in {"q_val", "q_check"} => Slot(t) \in Slots
      /\ \A p \in Pos : <<HashIdx[k], p>> \in Slots
  BY <1>2, InCall, BinAssumption DEF Loops, Slots
<1>5. seen'[t] = seen[t] \union {Lookup(k)'} /\ Lookup(k) \in seen[t]
  BY <1>1, <1>2, <1>3, Observed DEF QueryInv, Lookup
<1>6. SUFFICES ASSUME Absent \notin seen'[t] PROVE Followed(t)'
  OBVIOUS
<1>7. Followed(t) /\ Lookup(k) # Absent /\ Lookup(k)' # Absent
  BY <1>2, <1>5, <1>6 DEF QueryInv
<1>8. \A s \in Slots : key'[s] = k <=> key[s] = k
  BY <1>7, SameEntry
<1> QED
  BY <1>1, <1>3, <1>4, <1>5, <1>7, <1>8 DEF Followed

(* A thread that is in a query after a step of its own was in it before,   *)
(* or began it with that step.                                             *)
LEMMA OwnQuery ==
  ASSUME MapInv, NEW t \in Threads, Step(t), Querying(t)'
  PROVE  Querying(t) /\ call'[t] = call[t] /\ (SearchHit(t) \/ SearchPass(t) \/ QueryValue(t))
<1> USE DEF Step, Modify, Publish, Sink, Search, ModifyHit, ModifyPass, InplaceStore,
            ModifyEnd, Claim, ClaimMiss, ClaimFail, PutValue, PutKey, PutCount, SinkClaim,
            SinkSwap, SinkKey, SinkDelete, SinkInsert, SearchHit, SearchPass, SearchEnd,
            QueryValue, QueryCheck, DeleteCas, DeleteCount
<1>1. pc[t] # "idle"
  OBVIOUS
<1>2. (\E l : Continue(t, l)) \/ (\E r : Return(t, r))
  OBVIOUS
<1>3. pc'[t] \in {"scan", "q_val", "q_check"} /\ call'[t].op = "HASH_QUERY"
  BY DEF Querying
<1>4. call'[t] = call[t]
  BY <1>2, <1>3 DEF Continue, Return, Goto, MapInv, TypeOK
<1>5. call[t].op \in OpsAt(pc[t]) /\ call[t].op = "HASH_QUERY"
  BY <1>1, <1>3, <1>4, CallType DEF MapInv
<1>6. pc[t] \in {"scan", "q_val", "q_check"}
  BY <1>5 DEF OpsAt, ModifyOps, PublishOps, SearchOps
<1>7. ~SearchEnd(t) /\ ~QueryCheck(t)
  BY <1>3 DEF Return, Goto, MapInv, TypeOK
<1> QED
  BY <1>4, <1>5, <1>6, <1>7 DEF Querying

(* A step of the query itself. *)
LEMMA OwnFollowed ==
  ASSUME MapInv, QueryInv, Observe, NEW t \in Threads, Begin(t) \/ Step(t), Querying(t)'
  PROVE  Absent \in seen'[t] \/ Followed(t)'
<1> USE DEF MapInv, TypeOK
<1>1. CASE Begin(t)
  <2>1. loc'[t].j = 0 /\ pc'[t] = "scan"
    BY <1>1 DEF Begin, CallModify, CallNocheck, CallSearch, Enter, Goto, ThreadOK, Fresh, Calls,
                OpsAt, table, Querying
  <2>2. \A p \in Pos : ~(p < 0)
    BY DEF Pos
  <2> QED BY <2>1, <2>2 DEF Followed
<1>2. CASE Step(t)
  <2>1. Querying(t) /\ call'[t] = call[t] /\ (SearchHit(t) \/ SearchPass(t) \/ QueryValue(t))
    BY <1>2, OwnQuery
  <2>2. UNCHANGED <<key, val>> /\ pc[t] # "idle"
    BY <2>1 DEF SearchHit, SearchPass, QueryValue, table, Querying
  <2>3. PICK k \in Keys : k = call[t].k
    BY <2>2, InCall
  <2>4. /\ seen'[t] = seen[t] \union {Lookup(k)'} /\ Lookup(k) \in seen[t]
        /\ Absent \in seen[t] \/ Followed(t)
    BY <2>1, <2>3, Observed DEF QueryInv, Lookup
  <2>5. SUFFICES ASSUME Absent \notin seen'[t], Followed(t) PROVE Followed(t)'
    BY <2>4
  <2>6. loc[t].j \in 0 .. BIN_CAPACITY /\ (pc[t] = "q_val" => Slot(t) \in Slots)
    BY <2>2, InCall DEF Loops
  <2>7. CASE SearchHit(t)
    <3>1. /\ pc'[t] = "q_val" /\ loc'[t] = loc[t] /\ key[Slot(t)] = k /\ Slot(t)' = Slot(t)
      BY <2>1, <2>3, <2>7 DEF SearchHit, Continue, Goto, Querying, Slot
    <3> QED BY <2>1, <2>2, <2>3, <3>1 DEF Followed
  <2>8. CASE SearchPass(t)
    <3>1. /\ pc[t] = "scan" /\ pc'[t] = "scan" /\ loc'[t].j = loc[t].j + 1 /\ loc[t].j \in Pos
          /\ key[<<HashIdx[k], loc[t].j>>] # k
      BY <2>3, <2>8 DEF SearchPass, Continue, Goto, MoveTo, Slot, Locals
    <3>2. \A p \in Pos : p < loc[t].j + 1 => p < loc[t].j \/ p = loc[t].j
      BY <2>6 DEF Pos
    <3> QED BY <2>1, <2>2, <2>3, <2>5, <3>1, <3>2 DEF Followed
  <2>9. CASE QueryValue(t)
    <3>1. /\ pc[t] = "q_val" /\ pc'[t] = "q_check" /\ loc'[t].res = val[Slot(t)]
          /\ loc'[t].j = loc[t].j /\ Slot(t)' = Slot(t)
      BY <2>1, <2>9 DEF QueryValue, Continue, Goto, Slot, Locals
    <3>2. key[Slot(t)] = k /\ Lookup(k) = val[Slot(t)]
      BY <2>3, <2>5, <2>6, <3>1, LookupAt DEF Followed
    <3> QED BY <2>1, <2>2, <2>3, <2>4, <3>1, <3>2 DEF Followed
  <2> QED BY <2>1, <2>7, <2>8, <2>9
<1> QED
  BY <1>1, <1>2

(* QueryInv is kept by every step. *)
LEMMA QueryStep ==
  ASSUME MapInv, MapInv', NoSink, QueryInv, [HNext]_hvars
  PROVE  QueryInv'
<1>1. CASE UNCHANGED hvars
  BY <1>1 DEF hvars, vars, QueryInv, Querying, Followed, Lookup, Slot
<1>2. CASE HNext
  <2>1. PICK u \in Threads : Begin(u) \/ Step(u)
    BY <1>2 DEF HNext
  <2>2. Observe
    BY <1>2 DEF HNext
  <2>3. ASSUME NEW t \in Threads, Querying(t)'
        PROVE  Lookup(call[t].k)' \in seen'[t] /\ (Absent \in seen'[t] \/ Followed(t)')
    <3>1. Lookup(call[t].k)' \in seen'[t]
      BY <2>2, <2>3, Observed
    <3> QED BY <2>1, <2>2, <2>3, <3>1, OtherFollowed, OwnFollowed
  <2> QED BY <2>3 DEF QueryInv
<1> QED
  BY <1>1, <1>2

(* A query that returns is answered in keeping with its history. *)
LEMMA SoundStep ==
  ASSUME MapInv, QueryInv, HNext, NEW t \in Threads, QueryReturns(t)
  PROVE  \/ Absent \in seen[t]
         \/ ret'[t] = "FOUND" /\ loc[t].res \in seen[t]
<1> USE DEF MapInv, TypeOK
<1>1. Querying(t) /\ pc[t] # "idle" /\ pc'[t] = "idle"
  BY DEF QueryReturns, Querying
<1>2. Step(t)
  <2>1. PICK u \in Threads : Begin(u) \/ Step(u)
    BY DEF HNext
  <2>2. u = t
    BY <1>1, <2>1, Frame
  <2>3. ~Begin(t)
    BY <1>1 DEF Begin, CallModify, CallNocheck, CallSearch, Enter
  <2> QED BY <2>1, <2>2, <2>3
<1>3. SearchEnd(t) \/ QueryCheck(t)
  <2>1. SearchEnd(t) \/ QueryCheck(t) \/ SearchHit(t) \/ SearchPass(t) \/ QueryValue(t)
    BY <1>1, <1>2 DEF Querying, Step, Modify, Publish, Sink, Search, ModifyHit, ModifyPass,
         InplaceStore, ModifyEnd, Claim, ClaimMiss, ClaimFail, PutValue, PutKey, PutCount,
         SinkClaim, SinkSwap, SinkKey, SinkDelete, SinkInsert, DeleteCas, DeleteCount
  <2> QED BY <1>1, <2>1 DEF SearchHit, SearchPass, QueryValue, Continue, Goto
<1>4. PICK k \in Keys : k = call[t].k
  BY <1>1, InCall
<1>5. Lookup(k) \in seen[t] /\ (Absent \in seen[t] \/ Followed(t))
  BY <1>1, <1>4 DEF QueryInv
<1>6. SUFFICES ASSUME Absent \notin seen[t], Followed(t)
               PROVE  ret'[t] = "FOUND" /\ loc[t].res \in seen[t]
  BY <1>5
<1>7. CASE SearchEnd(t)
  <2>1. PICK s \in Slots : key[s] = k
    BY <1>5, <1>6, LookupAt
  <2>2. s[1] = HashIdx[k] /\ s[2] \in Pos /\ s = <<s[1], s[2]>>
    BY <2>1 DEF InItsBin, Slots
  <2>3. s[2] < loc[t].j /\ pc[t] = "scan"
    BY <1>7, <2>2, BinAssumption DEF SearchEnd, Pos
  <2> QED BY <1>4, <1>6, <2>1, <2>2, <2>3 DEF Followed
<1>8. CASE QueryCheck(t)
  <2>1. pc[t] = "q_check" /\ key[Slot(t)] = call[t].k
    BY <1>6, <1>8 DEF QueryCheck, Followed
  <2> QED BY <1>6, <1>8, <2>1 DEF QueryCheck, Return, Followed
<1> QED
  BY <1>3, <1>7, <1>8

(* The history changes nothing: a behaviour of HSpec is one of Spec. *)
LEMMA HistoryOnly == HSpec => Spec
<1>1. HInit => Init
  BY DEF HInit
<1>2. [HNext]_hvars => [Next]_vars
  BY DEF HNext, Next, hvars
<1> QED
  BY <1>1, <1>2, PTL DEF HSpec, Spec

(* A query answers MISSED only if its key was out of the table at some     *)
(* time while it ran, and FOUND only with a value that the key had while   *)
(* it ran, unless the key was removed meanwhile (hash.c:172-193): with one *)
(* writer per key and without SINK, for any number of threads that query,  *)
(* any keys, bins and capacity.                                            *)
THEOREM QueriesSound == ASSUME NoSink, SingleWriter PROVE HSpec => QuerySound
<1>1. HSpec => []MapInv
  BY HistoryOnly, MapInvariant, PTL
<1>2. HInit => QueryInv
  BY DEF HInit, Init, QueryInv, Querying
<1>3. MapInv /\ MapInv' /\ QueryInv /\ [HNext]_hvars => QueryInv'
  BY QueryStep
<1>4. MapInv /\ QueryInv /\ [HNext]_hvars =>
        [\A t \in Threads : QueryReturns(t) =>
            \/ Absent \in seen[t]
            \/ ret'[t] = "FOUND" /\ loc[t].res \in seen[t]]_hvars
  BY SoundStep
<1> QED
  BY <1>1, <1>2, <1>3, <1>4, PTL DEF HSpec, QuerySound
=============================================================================
