------------------------------ MODULE HashTable ------------------------------
(***************************************************************************)
(* The concurrent bin table of src/src/hash.c.  Threads share the entries  *)
(* of a bin and meet only in C11 atomics, so every atomic load, store,     *)
(* exchange, compare-and-swap or fetch-and-add on an entry or on count is  *)
(* one step; what a thread does between two of them is local to it.        *)
(*                                                                         *)
(* A value names the key it was stored for, so that a value that ends up   *)
(* under another key is visible.  The count-min sketch only selects which  *)
(* entry an UPDATE may sink: that selection is free here (the estimate is  *)
(* taken of the entry's value and, for a value below 2, converts a number  *)
(* that no int holds).  The ART behind the table is the map its interface  *)
(* promises (art.h), changed in one step.                                  *)
(***************************************************************************)
EXTENDS Integers, FiniteSets

CONSTANTS Threads,       \* threads that call the table
          Keys,          \* keys, the two special keys excluded
          Data,          \* what a value carries besides the key it is for
          Bins,          \* bin numbers 0 .. size-1 of hash_sys.entries
          HashIdx,       \* HASH_IDX: the bin of each key
          BIN_CAPACITY,  \* entries of a bin
          Ops,           \* operations the threads call
          Writers,       \* key -> the threads that may modify it
          CountMod,      \* 2^64: hash_sys.count is a uint64_t
          EMPTY_FLAG, OCCUPIED_FLAG,  \* the special keys
          Absent,        \* no value: the ART does not hold the key
          Zero           \* the word calloc leaves in a value

AllOps == {"UPDATE", "INSERT", "STRICT_UPDATE", "STRICT_INSERT",
           "NOCHECK", "HASH_QUERY", "HASH_DELETE"}

ASSUME BinAssumption == /\ BIN_CAPACITY \in Nat \ {0}
                        /\ HashIdx \in [Keys -> Bins]
ASSUME FlagAssumption == /\ EMPTY_FLAG \notin Keys
                         /\ OCCUPIED_FLAG \notin Keys
                         /\ EMPTY_FLAG # OCCUPIED_FLAG
ASSUME CallAssumption == /\ Ops \subseteq AllOps
                         /\ Writers \in [Keys -> SUBSET Threads]
ASSUME CountAssumption == CountMod \in Nat \ {0}
ASSUME FiniteAssumption == IsFiniteSet(Threads) /\ IsFiniteSet(Bins)
ASSUME ValueAssumption == /\ Absent \notin Keys \X Data
                          /\ Zero \notin Keys \X Data

VARIABLES key,    \* slot -> data[j].key
          val,    \* slot -> data[j].value
          count,  \* hash_sys.count
          tree,   \* key word -> value in the ART, or Absent
          pc,     \* thread -> next atomic step
          call,   \* thread -> the call it is in, or NoCall
          loc,    \* thread -> locals of that call
          ret     \* thread -> what its last call returned, "NONE" during a call

vars == <<key, val, count, tree, pc, call, loc, ret>>
table == <<key, val, count, tree>>
-----------------------------------------------------------------------------
NONE == -1

Pos     == 0 .. (BIN_CAPACITY - 1)
Slots   == Bins \X Pos
Words   == Keys \union {EMPTY_FLAG, OCCUPIED_FLAG}
Values  == Keys \X Data
NoCall  == [op |-> "NONE"]

ModifyOps == {"UPDATE", "INSERT", "STRICT_UPDATE", "STRICT_INSERT"}
SearchOps == {"HASH_QUERY", "HASH_DELETE"}
PublishOps == {"UPDATE", "INSERT", "STRICT_INSERT", "NOCHECK"}

Calls == [op : Ops, k : Keys, v : Values \union {Zero}]

Fresh == [j |-> 0, available |-> NONE, i_min |-> NONE,
          key_lru |-> EMPTY_FLAG, res |-> Zero]

(* The entry that thread t looks at: data[j] of the bin of its key. *)
Slot(t) == <<HashIdx[call[t].k], loc[t].j>>

(* hash_construct: calloc'ed entries, so every key is EMPTY_FLAG. *)
Init == /\ key = [s \in Slots |-> EMPTY_FLAG]
        /\ val = [s \in Slots |-> Zero]
        /\ count = 0
        /\ tree = [w \in Words |-> Absent]
        /\ pc = [t \in Threads |-> "idle"]
        /\ call = [t \in Threads |-> NoCall]
        /\ loc = [t \in Threads |-> Fresh]
        /\ ret = [t \in Threads |-> "NONE"]

Goto(t, l) == pc' = [pc EXCEPT ![t] = l]

(* A step that only moves the control of t. *)
Continue(t, l) == Goto(t, l) /\ UNCHANGED <<call, ret>>

Return(t, r) == /\ Goto(t, "idle")
                /\ call' = [call EXCEPT ![t] = NoCall]
                /\ loc' = [loc EXCEPT ![t] = Fresh]
                /\ ret' = [ret EXCEPT ![t] = r]

(* The locals of t with j = n. *)
MoveTo(t, n) == loc' = [loc EXCEPT ![t].j = n]

SetKey(t, w) == key' = [key EXCEPT ![Slot(t)] = w]
SetVal(t, v) == val' = [val EXCEPT ![Slot(t)] = v]
-----------------------------------------------------------------------------
(* Entering a call.  hash_insert_nocheck is for a key that its caller      *)
(* knows is not in the table (it was found in the ART).                    *)
Enter(t, op, k, v, l) ==
  /\ pc[t] = "idle"
  /\ op \in Ops
  /\ call' = [call EXCEPT ![t] = [op |-> op, k |-> k, v |-> v]]
  /\ ret' = [ret EXCEPT ![t] = "NONE"]
  /\ Goto(t, l)
  /\ UNCHANGED <<table, loc>>

CallModify(t) == \E op \in ModifyOps, k \in Keys, d \in Data :
  t \in Writers[k] /\ Enter(t, op, k, <<k, d>>, "m_scan")

CallNocheck(t) == \E k \in Keys, d \in Data :
  /\ t \in Writers[k]
  /\ \A s \in Slots : key[s] # k
  /\ Enter(t, "NOCHECK", k, <<k, d>>, "cas")

CallSearch(t) == \E op \in SearchOps, k \in Keys :
  /\ op = "HASH_DELETE" => t \in Writers[k]
  /\ Enter(t, op, k, Zero, "scan")
-----------------------------------------------------------------------------
(* hash_modify, the scan of the bin. *)

(* The key is there: STRICT_INSERT refuses, the others will store in place. *)
ModifyHit(t) ==
  /\ pc[t] = "m_scan" /\ loc[t].j \in Pos
  /\ key[Slot(t)] = call[t].k
  /\ \/ /\ call[t].op = "STRICT_INSERT"
        /\ Return(t, "ELEMENT_ALREADY_EXISTS")
     \/ /\ call[t].op # "STRICT_INSERT"
        /\ Continue(t, "m_store") /\ UNCHANGED loc
  /\ UNCHANGED table

(* Another word is there: remember the first EMPTY_FLAG and, in UPDATE mode *)
(* and before any EMPTY_FLAG, possibly an entry that is less frequent.      *)
ModifyPass(t) ==
  LET l    == loc[t]
      w    == key[Slot(t)]
      avail == IF w = EMPTY_FLAG /\ l.available = NONE THEN l.j ELSE l.available
      next == [l EXCEPT !.j = @ + 1, !.available = avail]
  IN /\ pc[t] = "m_scan" /\ l.j \in Pos
     /\ w # call[t].k
     /\ \/ loc' = [loc EXCEPT ![t] = next]
        \/ /\ call[t].op = "UPDATE" /\ avail = NONE /\ l.i_min = NONE
           /\ loc' = [loc EXCEPT ![t] = [next EXCEPT !.i_min = l.j, !.key_lru = w]]
     /\ Continue(t, "m_scan")
     /\ UNCHANGED table

(* The store of an in-place update: the key is not looked at again. *)
InplaceStore(t) ==
  /\ pc[t] = "m_store"
  /\ SetVal(t, call[t].v)
  /\ Return(t, "SUCCESS")
  /\ UNCHANGED <<key, count, tree>>

(* A mistake to catch: the scan ends at the first empty entry. *)
ModifyEndAtEmpty(t) ==
  LET l == loc[t]
  IN /\ pc[t] = "m_scan" /\ l.available # NONE
     /\ Continue(t, "cas") /\ MoveTo(t, l.available)
     /\ UNCHANGED table

(* The end of the scan: the key was not seen in the bin. *)
ModifyEnd(t) ==
  LET l == loc[t]
  IN /\ pc[t] = "m_scan" /\ l.j = BIN_CAPACITY
     /\ \/ /\ call[t].op = "STRICT_UPDATE"
           /\ Return(t, "ELEMENT_NOT_FOUND")
        \/ /\ call[t].op # "STRICT_UPDATE"
           /\ l.available = NONE /\ l.i_min = NONE
           /\ Return(t, "HASH_BIN_FULL")
        \/ /\ call[t].op # "STRICT_UPDATE" /\ l.available # NONE
           /\ Continue(t, "cas") /\ MoveTo(t, l.available)
        \/ /\ call[t].op # "STRICT_UPDATE" /\ l.available = NONE /\ l.i_min # NONE
           /\ Continue(t, "s_claim") /\ MoveTo(t, l.i_min)
     /\ UNCHANGED table
-----------------------------------------------------------------------------
(* Publication in an empty entry: the loop hash_modify and                 *)
(* hash_insert_nocheck share.                                              *)

(* Mistakes to catch: the entry is marked with a plain store; the key is   *)
(* stored before the value; a lost race is retried at the same entry; a    *)
(* full bin is reported as success.                                        *)
ClaimBlindly(t) ==
  /\ pc[t] = "cas" /\ loc[t].j \in Pos
  /\ key[Slot(t)] \notin Keys
  /\ SetKey(t, OCCUPIED_FLAG)
  /\ Continue(t, "p_val")
  /\ UNCHANGED <<val, count, tree, loc>>

ClaimWithKey(t) ==
  /\ pc[t] = "cas" /\ loc[t].j \in Pos
  /\ key[Slot(t)] = EMPTY_FLAG
  /\ SetKey(t, call[t].k)
  /\ Continue(t, "p_val")
  /\ UNCHANGED <<val, count, tree, loc>>

ClaimSpins(t) ==
  /\ pc[t] = "cas" /\ loc[t].j \in Pos
  /\ key[Slot(t)] # EMPTY_FLAG
  /\ Continue(t, "cas")
  /\ UNCHANGED <<table, loc>>

ClaimFailSilently(t) ==
  /\ pc[t] = "cas" /\ loc[t].j = BIN_CAPACITY
  /\ Return(t, "SUCCESS")
  /\ UNCHANGED table

Claim(t) ==
  /\ pc[t] = "cas" /\ loc[t].j \in Pos
  /\ key[Slot(t)] = EMPTY_FLAG
  /\ SetKey(t, OCCUPIED_FLAG)
  /\ Continue(t, "p_val")
  /\ UNCHANGED <<val, count, tree, loc>>

ClaimMiss(t) ==
  /\ pc[t] = "cas" /\ loc[t].j \in Pos
  /\ key[Slot(t)] # EMPTY_FLAG
  /\ MoveTo(t, loc[t].j + 1)
  /\ Continue(t, "cas")
  /\ UNCHANGED table

ClaimFail(t) ==
  /\ pc[t] = "cas" /\ loc[t].j = BIN_CAPACITY
  /\ Return(t, "HASH_BIN_FULL")
  /\ UNCHANGED table

PutValue(t) ==
  /\ pc[t] = "p_val"
  /\ SetVal(t, call[t].v)
  /\ Continue(t, "p_key")
  /\ UNCHANGED <<key, count, tree, loc>>

PutKey(t) ==
  /\ pc[t] = "p_key"
  /\ SetKey(t, call[t].k)
  /\ Continue(t, "p_cnt")
  /\ UNCHANGED <<val, count, tree, loc>>

PutCount(t) ==
  /\ pc[t] = "p_cnt"
  /\ count' = (count + 1) % CountMod
  /\ Return(t, "SUCCESS")
  /\ UNCHANGED <<key, val, tree>>
-----------------------------------------------------------------------------
(* SINK: an UPDATE takes the entry of key_lru and moves key_lru to the ART. *)

SinkClaim(t) ==
  /\ pc[t] = "s_claim"
  /\ \/ /\ key[Slot(t)] = loc[t].key_lru
        /\ SetKey(t, OCCUPIED_FLAG)
        /\ Continue(t, "s_swap") /\ UNCHANGED loc
     \/ /\ key[Slot(t)] # loc[t].key_lru
        /\ Return(t, "HASH_BIN_FULL")
        /\ UNCHANGED key
  /\ UNCHANGED <<val, count, tree>>

SinkSwap(t) ==
  /\ pc[t] = "s_swap"
  /\ loc' = [loc EXCEPT ![t].res = val[Slot(t)]]
  /\ SetVal(t, call[t].v)
  /\ Continue(t, "s_key")
  /\ UNCHANGED <<key, count, tree>>

SinkKey(t) ==
  /\ pc[t] = "s_key"
  /\ \/ /\ key[Slot(t)] = OCCUPIED_FLAG
        /\ SetKey(t, call[t].k)
        /\ Continue(t, "s_del") /\ UNCHANGED loc
     \/ /\ key[Slot(t)] # OCCUPIED_FLAG
        /\ Return(t, "ERROR")
        /\ UNCHANGED key
  /\ UNCHANGED <<val, count, tree>>

(* art_delete(key) *)
SinkDelete(t) ==
  /\ pc[t] = "s_del"
  /\ tree' = [tree EXCEPT ![call[t].k] = Absent]
  /\ Continue(t, "s_ins")
  /\ UNCHANGED <<key, val, count, loc>>

(* art_insert_no_replace(key_lru, its value) *)
SinkInsert(t) ==
  /\ pc[t] = "s_ins"
  /\ tree' = [tree EXCEPT ![loc[t].key_lru] = IF @ = Absent THEN loc[t].res ELSE @]
  /\ Return(t, "SUCCESS")
  /\ UNCHANGED <<key, val, count>>
-----------------------------------------------------------------------------
(* hash_search *)

SearchHit(t) ==
  /\ pc[t] = "scan" /\ loc[t].j \in Pos
  /\ key[Slot(t)] = call[t].k
  /\ Continue(t, IF call[t].op = "HASH_QUERY" THEN "q_val" ELSE "d_cas")
  /\ UNCHANGED <<table, loc>>

SearchPass(t) ==
  /\ pc[t] = "scan" /\ loc[t].j \in Pos
  /\ key[Slot(t)] # call[t].k
  /\ MoveTo(t, loc[t].j + 1)
  /\ Continue(t, "scan")
  /\ UNCHANGED table

(* A mistake to catch: the last entry of the bin is not searched. *)
SearchEndShort(t) ==
  /\ pc[t] = "scan" /\ loc[t].j = BIN_CAPACITY - 1
  /\ Return(t, "MISSED")
  /\ UNCHANGED table

SearchEnd(t) ==
  /\ pc[t] = "scan" /\ loc[t].j = BIN_CAPACITY
  /\ Return(t, "MISSED")
  /\ UNCHANGED table

QueryValue(t) ==
  /\ pc[t] = "q_val"
  /\ loc' = [loc EXCEPT ![t].res = val[Slot(t)]]
  /\ Continue(t, "q_check")
  /\ UNCHANGED table

(* The second look at the key; *query_result is already written. *)
QueryCheck(t) ==
  /\ pc[t] = "q_check"
  /\ Return(t, IF key[Slot(t)] = call[t].k THEN "FOUND" ELSE "MISSED")
  /\ UNCHANGED table

DeleteCas(t) ==
  /\ pc[t] = "d_cas"
  /\ \/ /\ key[Slot(t)] = call[t].k
        /\ SetKey(t, EMPTY_FLAG)
        /\ Continue(t, "d_cnt") /\ UNCHANGED loc
     \/ /\ key[Slot(t)] # call[t].k
        /\ Return(t, "MISSED")
        /\ UNCHANGED key
  /\ UNCHANGED <<val, count, tree>>

(* Mistakes to catch: a removal is not counted; count is a signed number. *)
DeleteUncounted(t) ==
  /\ pc[t] = "d_cnt"
  /\ Return(t, "FOUND")
  /\ UNCHANGED table

DeleteCountSigned(t) ==
  /\ pc[t] = "d_cnt"
  /\ count' = count - 1
  /\ Return(t, "FOUND")
  /\ UNCHANGED <<key, val, tree>>

DeleteCount(t) ==
  /\ pc[t] = "d_cnt"
  /\ count' = (count - 1) % CountMod
  /\ Return(t, "FOUND")
  /\ UNCHANGED <<key, val, tree>>
-----------------------------------------------------------------------------
Modify(t)  == ModifyHit(t) \/ ModifyPass(t) \/ InplaceStore(t) \/ ModifyEnd(t)
Publish(t) == Claim(t) \/ ClaimMiss(t) \/ ClaimFail(t)
                \/ PutValue(t) \/ PutKey(t) \/ PutCount(t)
Sink(t)    == SinkClaim(t) \/ SinkSwap(t) \/ SinkKey(t)
                \/ SinkDelete(t) \/ SinkInsert(t)
Search(t)  == SearchHit(t) \/ SearchPass(t) \/ SearchEnd(t) \/ QueryValue(t)
                \/ QueryCheck(t) \/ DeleteCas(t) \/ DeleteCount(t)

Step(t) == Modify(t) \/ Publish(t) \/ Sink(t) \/ Search(t)
Begin(t) == CallModify(t) \/ CallNocheck(t) \/ CallSearch(t)

Next == \E t \in Threads : Begin(t) \/ Step(t)

Spec == Init /\ [][Next]_vars

(* A thread inside a call keeps being scheduled; nothing makes it call. *)
FairSpec == Spec /\ \A t \in Threads : WF_vars(Step(t))
-----------------------------------------------------------------------------
Codes == {"NONE", "SUCCESS", "HASH_BIN_FULL", "ELEMENT_NOT_FOUND",
          "ELEMENT_ALREADY_EXISTS", "FOUND", "MISSED", "ERROR"}

(* The operations that have a step at label l. *)
OpsAt(l) ==
  CASE l = "m_scan"                             -> ModifyOps
    [] l = "m_store"                            -> ModifyOps \ {"STRICT_INSERT"}
    [] l \in {"cas", "p_val", "p_key", "p_cnt"} -> PublishOps
    [] l \in {"s_claim", "s_swap", "s_key", "s_del", "s_ins"} -> {"UPDATE"}
    [] l = "scan"                               -> SearchOps
    [] l \in {"q_val", "q_check"}               -> {"HASH_QUERY"}
    [] l \in {"d_cas", "d_cnt"}                 -> {"HASH_DELETE"}
    [] OTHER                                    -> {}

Labels == {"idle", "m_scan", "m_store", "cas", "p_val", "p_key", "p_cnt", "s_claim",
           "s_swap", "s_key", "s_del", "s_ins", "scan", "q_val", "q_check", "d_cas", "d_cnt"}

(* The labels of loops: elsewhere a thread is at an entry of the bin. *)
Loops == {"m_scan", "cas", "scan"}

TableOK ==
  /\ key \in [Slots -> Words]
  /\ val \in [Slots -> Values \union {Zero}]
  /\ count \in 0 .. (CountMod - 1)
  /\ tree \in [Words -> Values \union {Absent, Zero}]

Locals == [j : 0 .. BIN_CAPACITY, available : Pos \union {NONE},
           i_min : Pos \union {NONE}, key_lru : Words, res : Values \union {Zero}]

ThreadOK(t) ==
  \/ pc[t] = "idle" /\ call[t] = NoCall /\ loc[t] = Fresh
  \/ /\ call[t] \in Calls
     /\ call[t].op \in OpsAt(pc[t])
     /\ call[t].op \notin SearchOps => call[t].v \in {call[t].k} \X Data
     /\ loc[t].i_min # NONE => call[t].op = "UPDATE"
     /\ pc[t] \in Loops \/ loc[t].j \in Pos

(* Every word has its type, a thread is at a step of the operation it      *)
(* called and, outside the loops, at an entry inside the bin (hash.c: an   *)
(* index of data[] is below BIN_CAPACITY).                                 *)
TypeOK ==
  /\ TableOK
  /\ pc \in [Threads -> Labels]
  /\ call \in [Threads -> Calls \union {NoCall}]
  /\ loc \in [Threads -> Locals]
  /\ ret \in [Threads -> Codes]
  /\ \A t \in Threads : ThreadOK(t)

(* A thread between its winning compare-and-swap and the store of its key. *)
Owns(t) == pc[t] \in {"p_val", "p_key", "s_swap", "s_key"}

(* An entry marked OCCUPIED_FLAG has one owner, which will publish it, and *)
(* an owner's entry stays marked until then (hash.c:131 and :162, the      *)
(* compare-and-swap that makes the stores after it exclusive).  With SINK  *)
(* this is lost: OCCUPIED_FLAG itself can be the key_lru of hash.c:139.    *)
ExclusiveClaim ==
  /\ \A t \in Threads : Owns(t) => key[Slot(t)] = OCCUPIED_FLAG
  /\ \A t, u \in Threads : Owns(t) /\ Owns(u) /\ t # u => Slot(t) # Slot(u)
  /\ \A s \in Slots : key[s] = OCCUPIED_FLAG => \E t \in Threads : Owns(t) /\ Slot(t) = s

(* count is the number of published keys, but for the threads that are     *)
(* between publishing or removing a key and counting it (hash.c:134, :165  *)
(* and :186).  It is taken modulo 2^64: a delete may count before the      *)
(* insert it undoes, and the counter then wraps for a while.               *)
CountExact ==
  LET stored  == {s \in Slots : key[s] \in Keys}
      adding  == {t \in Threads : pc[t] = "p_cnt"}
      undoing == {t \in Threads : pc[t] = "d_cnt"}
  IN count = (Cardinality(stored) - Cardinality(adding) + Cardinality(undoing)) % CountMod

(* A key is in one entry of its bin at most, so that a search that stops   *)
(* at the first match (hash.c:180) and an update in place see the same.    *)
UniqueKey == \A s, r \in Slots : key[s] \in Keys /\ key[s] = key[r] => s = r

(* A published entry holds a value that was passed in for its key: the     *)
(* value is stored before the key (hash.c:132-133), and an in-place store  *)
(* (hash.c:105) never lands in an entry that has changed hands.            *)
ValueOfKey == \A s \in Slots : key[s] \in Keys => val[s] \in {key[s]} \X Data

(* What a thread that is alone in modifying its key has learnt from its    *)
(* loads and can rely on, although it holds no lock: entries it has passed *)
(* stay free of its key, an entry it has hit keeps it, and the value it    *)
(* stored in a claimed entry is still there when it publishes the key      *)
(* (hash.c:99-137, 160-168 and 179-191).                                   *)
Knows(t) ==
  LET k == call[t].k
      passed == \/ pc[t] = "m_scan"
                \/ pc[t] = "scan" /\ call[t].op = "HASH_DELETE"
  IN /\ call[t].op # "HASH_QUERY" => t \in Writers[k]
     /\ passed => \A p \in Pos : p < loc[t].j => key[<<HashIdx[k], p>>] # k
     /\ pc[t] \in {"m_store", "d_cas"} => key[Slot(t)] = k
     /\ pc[t] \in {"cas", "p_val", "p_key"} => \A s \in Slots : key[s] # k
     /\ pc[t] = "p_key" => val[Slot(t)] = call[t].v

WriterKnows == \A t \in Threads : pc[t] # "idle" => Knows(t)

(* A key is stored in the bin it hashes to (hash.c:92 and :158). *)
InItsBin == \A s \in Slots : key[s] \in Keys => s[1] = HashIdx[key[s]]

(* The comment at hash.c:122: a thread that is past its scan and about to  *)
(* insert knows that its key is not in the table.                          *)
AbsentAfterScan ==
  \A t \in Threads : pc[t] \in {"cas", "p_val", "p_key"}
                       => \A s \in Slots : key[s] # call[t].k

(* Every call returns: the scans and the compare-and-swap loops of hash.c  *)
(* are bounded whatever the other threads do.                              *)
Termination == \A t \in Threads : pc[t] # "idle" ~> pc[t] = "idle"
-----------------------------------------------------------------------------
(* What the table shows as a map: the value in the entry of k. *)
Lookup(k) == IF \E s \in Slots : key[s] = k
             THEN val[CHOOSE s \in Slots : key[s] = k]
             ELSE Absent

(* A call takes effect when its key is published or removed, even though   *)
(* the thread still has to adjust count.                                   *)
Answer(t) == CASE pc[t] = "idle"  -> ret[t]
               [] pc[t] = "p_cnt" -> "SUCCESS"
               [] pc[t] = "d_cnt" -> "FOUND"
               [] OTHER           -> "PENDING"

Map == INSTANCE KVMap WITH
         Clients <- Threads, NoValue <- Zero,
         map  <- [k \in Keys |-> Lookup(k)],
         call <- [t \in Threads |-> IF Answer(t) = "PENDING" THEN call[t] ELSE NoCall],
         code <- [t \in Threads |-> Answer(t)]

(* With one writer per key the table is the map of KVMap: every modifying  *)
(* call takes effect at one instant between its start and its return, and  *)
(* its code is right for that instant (hash.c:88-193).                     *)
ImplementsMap == Map!Spec
=============================================================================
