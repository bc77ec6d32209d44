----------------------------- MODULE HashExpand -----------------------------
(***************************************************************************)
(* The expansion of the hash table in src/src/hash.c: hash_expand_copy and *)
(* hash_expand_reinsert, one entry at a time, and the calls that change    *)
(* the table between two expansions or, from other threads, during one.    *)
(* Those calls are whole here; HashTable has their atomic steps.  A table  *)
(* is the struct hash_sys; an entry is a bin and a place in it.            *)
(***************************************************************************)
EXTENDS Integers, FiniteSets

CONSTANTS Keys, Values,
          EMPTY_FLAG,     \* the key of an entry that is free
          Absent,         \* the value of a key that is not stored, and the 0 of calloc
          NULL,
          HashOf,         \* HashOf[x]: MurmurHash3_x64_64 of key x
          BIN_CAPACITY,
          InitSize,       \* bins at first
          MaxSize         \* bound on the bins

ASSUME KeyAssumption == /\ EMPTY_FLAG \notin Keys /\ Absent \notin Values
                        /\ \A x \in Keys : HashOf[x] \in Nat

ASSUME BinAssumption == BIN_CAPACITY \in Nat \ {0}

(* hash.h:13: the size "must be power of 2"; the masks of hash.c:7-9 are   *)
(* remainders then.                                                        *)
ASSUME PowerAssumption == /\ InitSize \in Nat \ {0} /\ MaxSize \in Nat
                          /\ \E n \in 0 .. InitSize : 2 ^ n = InitSize

VARIABLES hash,     \* the table that the index points to
          new_h,    \* the table being filled, or NULL
          pc,       \* what the expanding thread does
          i, j, k,  \* the locals of its loops
          want,     \* history: the value that the calls left each key with
          raced     \* history: a call changed the table during an expansion

vars == <<hash, new_h, pc, i, j, k, want, raced>>
locals == <<i, j, k>>

Pos == 0 .. BIN_CAPACITY - 1
Slots(size) == (0 .. size - 1) \X Pos

hash_construct(size) ==
  [size |-> size, count |-> 0,
   key |-> [s \in Slots(size) |-> EMPTY_FLAG], val |-> [s \in Slots(size) |-> Absent]]

HASH_IDX(h, x) == HashOf[x] % h.size

(* A mistake to catch: the level is asked of the new table. *)
LevelOfNew(h, x) == (HashOf[x] \div (2 * h.size)) % 2

(* The bit of the hash by which bin b is split over b and size + b. *)
HASH_LEVEL(h, x) == (HashOf[x] \div h.size) % 2

(* The places of word w in the bin where x belongs, and the first entry of those. *)
Places(h, x, w) == {p \in Pos : h.key[<<HASH_IDX(h, x), p>>] = w}

First(P) == CHOOSE p \in P : \A q \in P : p <= q

Slot(h, x, w) == <<HASH_IDX(h, x), First(Places(h, x, w))>>

(* Key x and value v in entry s of table h, and n more keys. *)
Put(h, s, x, v, n) ==
  [size |-> h.size, count |-> h.count + n,
   key |-> [h.key EXCEPT ![s] = x], val |-> [h.val EXCEPT ![s] = v]]

(* What hash_insert_nocheck_nosafe leaves; HASH_BIN_FULL is ignored by its caller. *)
hash_insert_nocheck_nosafe(h, x, v) ==
  IF Places(h, x, EMPTY_FLAG) = {} THEN h
  ELSE Put(h, Slot(h, x, EMPTY_FLAG), x, v, 1)
-----------------------------------------------------------------------------
(* Calls, from any thread.  They work on the table that the pointer shows. *)
(* A count below 0, which only a race can bring about, stands for the      *)
(* unsigned one that wrapped.                                              *)
Changes(x, w) == /\ want' = [want EXCEPT ![x] = w]
                 /\ raced' = (raced \/ pc # "idle")
                 /\ UNCHANGED <<new_h, pc, locals>>

(* hash_modify finds the key, in every mode but STRICT_INSERT ... *)
UpdateInPlace(x, v) ==
  /\ Places(hash, x, x) # {}
  /\ hash' = Put(hash, Slot(hash, x, x), x, v, 0)
  /\ Changes(x, v)

(* ... or, in every mode but STRICT_UPDATE, takes the first free entry. *)
InsertNew(x, v) ==
  /\ Places(hash, x, x) = {} /\ Places(hash, x, EMPTY_FLAG) # {}
  /\ hash' = Put(hash, Slot(hash, x, EMPTY_FLAG), x, v, 1)
  /\ Changes(x, v)

hash_delete(x) ==
  /\ Places(hash, x, x) # {}
  /\ hash' = Put(hash, Slot(hash, x, x), EMPTY_FLAG, hash.val[Slot(hash, x, x)], -1)
  /\ Changes(x, Absent)
-----------------------------------------------------------------------------
(* The expanding thread. *)

(* The bins of table h, copied to the lower half of one of twice the size. *)
Doubled(h) ==
  [size |-> 2 * h.size, count |-> 0,
   key |-> [s \in Slots(2 * h.size) |-> IF s[1] < h.size THEN h.key[s] ELSE EMPTY_FLAG],
   val |-> [s \in Slots(2 * h.size) |-> IF s[1] < h.size THEN h.val[s] ELSE Absent]]

hash_expand(how) ==
  /\ pc = "idle" /\ 2 * hash.size <= MaxSize
  /\ pc' = how
  /\ new_h' = IF how = "copy" THEN Doubled(hash) ELSE hash_construct(2 * hash.size)
  /\ i' = 0 /\ j' = 0 /\ k' = 0
  /\ UNCHANGED <<hash, want, raced>>

(* A mistake to catch: the inner loop runs up to BIN_CAPACITY. *)
LoopToCapacity(moved) ==
  /\ j' = IF j = BIN_CAPACITY THEN 0 ELSE j + 1
  /\ i' = IF j = BIN_CAPACITY THEN i + 1 ELSE i
  /\ k' = IF j = BIN_CAPACITY THEN 0 ELSE moved

(* A mistake to catch: the place in the upper bin goes on from bin to bin. *)
KeepPlace(moved) ==
  /\ j' = IF j + 1 = BIN_CAPACITY THEN 0 ELSE j + 1
  /\ i' = IF j + 1 = BIN_CAPACITY THEN i + 1 ELSE i
  /\ k' = moved

(* To the next entry, or to the next bin, where k is 0 again. *)
NextEntry(moved) ==
  /\ j' = IF j + 1 = BIN_CAPACITY THEN 0 ELSE j + 1
  /\ i' = IF j + 1 = BIN_CAPACITY THEN i + 1 ELSE i
  /\ k' = IF j + 1 = BIN_CAPACITY THEN 0 ELSE moved

AtEntry(how) == /\ pc = how /\ i < hash.size
                /\ UNCHANGED <<hash, pc, want, raced>>

Moves(x) == x # EMPTY_FLAG /\ HASH_LEVEL(hash, x) = 1

(* hash_expand_copy: an entry stays, or moves to the upper half and leaves *)
(* its value behind.                                                       *)
CopyStay == /\ AtEntry("copy") /\ ~Moves(new_h.key[<<i, j>>])
            /\ NextEntry(k)
            /\ UNCHANGED new_h

CopyMove == /\ AtEntry("copy") /\ Moves(new_h.key[<<i, j>>])
            /\ new_h' = Put(Put(new_h, <<i + hash.size, k>>, new_h.key[<<i, j>>], new_h.val[<<i, j>>], 0),
                            <<i, j>>, EMPTY_FLAG, new_h.val[<<i, j>>], 0)
            /\ NextEntry(k + 1)

(* A mistake to catch: the new table keeps the count it was made with. *)
CopyNoCount == /\ pc = "copy" /\ i = hash.size
               /\ pc' = "publish"
               /\ UNCHANGED <<hash, new_h, locals, want, raced>>

CopyCount == /\ pc = "copy" /\ i = hash.size
             /\ new_h' = [size |-> new_h.size, count |-> hash.count, key |-> new_h.key, val |-> new_h.val]
             /\ pc' = "publish"
             /\ UNCHANGED <<hash, locals, want, raced>>

(* hash_expand_reinsert. *)
ReinsertSkip == /\ AtEntry("reinsert") /\ hash.key[<<i, j>>] = EMPTY_FLAG
                /\ NextEntry(0)
                /\ UNCHANGED new_h

Reinsert == /\ AtEntry("reinsert") /\ hash.key[<<i, j>>] # EMPTY_FLAG
            /\ new_h' = hash_insert_nocheck_nosafe(new_h, hash.key[<<i, j>>], hash.val[<<i, j>>])
            /\ NextEntry(0)

(* The index gets the new table; the old one is freed. *)
Publish == /\ pc = "publish" \/ (pc = "reinsert" /\ i = hash.size)
           /\ hash' = new_h /\ new_h' = NULL /\ pc' = "idle"
           /\ UNCHANGED <<locals, want, raced>>

Expand == \/ \E how \in {"copy", "reinsert"} : hash_expand(how)
          \/ CopyStay \/ CopyMove \/ CopyCount \/ ReinsertSkip \/ Reinsert \/ Publish

Call == \E x \in Keys : \/ \E v \in Values : UpdateInPlace(x, v) \/ InsertNew(x, v)
                        \/ hash_delete(x)

Init == /\ hash = hash_construct(InitSize) /\ new_h = NULL
        /\ pc = "idle" /\ i = 0 /\ j = 0 /\ k = 0
        /\ want = [x \in Keys |-> Absent] /\ raced = FALSE

Next == Expand \/ Call

Spec == Init /\ [][Next]_vars
-----------------------------------------------------------------------------
Tables(size) == [size : {size}, count : Int, key : [Slots(size) -> Keys \union {EMPTY_FLAG}],
                 val : [Slots(size) -> Values \union {Absent}]]

TypeOK ==
  /\ hash.size \in Nat \ {0} /\ hash \in Tables(hash.size)
  /\ IF pc = "idle" THEN new_h = NULL ELSE new_h \in Tables(2 * hash.size)
  /\ pc \in {"idle", "copy", "reinsert", "publish"}
  /\ i \in 0 .. hash.size /\ j \in Pos /\ k \in 0 .. BIN_CAPACITY
  /\ want \in [Keys -> Values \union {Absent}] /\ raced \in BOOLEAN

(* What hash_search finds under x. *)
Lookup(h, x) == IF Places(h, x, x) = {} THEN Absent
                ELSE h.val[Slot(h, x, x)]

(* After any number of expansions of either kind, whatever was inserted,   *)
(* updated and deleted between them, a search finds every key with the     *)
(* value last stored, and no other key, unless a call changed the table    *)
(* while it was being expanded (hash.c:51-86).                             *)
ExpansionKeeps == ~raced => \A x \in Keys : Lookup(hash, x) = want[x]

(* An entry that is moved or inserted again has a free place in the bin it *)
(* goes to: hash_expand_copy does not test k (hash.c:60), and              *)
(* hash_expand_reinsert ignores HASH_BIN_FULL (hash.c:79).  This holds     *)
(* also when calls change the old table between two entries.               *)
RoomAtTarget ==
  /\ pc = "copy" /\ i < hash.size /\ Moves(new_h.key[<<i, j>>]) =>
       k \in Pos /\ new_h.key[<<i + hash.size, k>>] = EMPTY_FLAG
  /\ pc = "reinsert" /\ i < hash.size /\ hash.key[<<i, j>>] # EMPTY_FLAG =>
       Places(new_h, hash.key[<<i, j>>], EMPTY_FLAG) # {}

Occupied(h) == {s \in Slots(h.size) : h.key[s] # EMPTY_FLAG}

(* The count, copied by one function and counted anew by the other, is the *)
(* number of keys in the table (hash.c:22, 67).                            *)
CountKept == ~raced => hash.count = Cardinality(Occupied(hash))
=============================================================================
