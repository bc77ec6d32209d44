------------------------------ MODULE SeqIndex ------------------------------
(***************************************************************************)
(* The sequential variant of the index, src/sequential, as it is built: no *)
(* count-min sketch (USE_CM is off), so that no key is moved by SINK or    *)
(* FLOAT, and a hash_expand that always reinserts.  Its radix tree is that *)
(* of src/src without the atomic stores, and its index_sys has the parts   *)
(* that HeteroIndex describes; the functions that differ are here.         *)
(***************************************************************************)
EXTENDS HeteroIndex

HASH_BIN_FULL == 2
ELEMENT_NOT_FOUND == 1

(* hash_modify with INSERT or STRICT_UPDATE. *)
seq_hash_modify(x, e, mode) ==
  LET i == HASH_IDX(x, e.key)
      available == FirstFree(x.bins[i])
  IN IF InHash(x, e.key) # 0 THEN [code |-> 0, x |-> HashStore(x, e)]
     ELSE IF mode = "STRICT_UPDATE" THEN [code |-> ELEMENT_NOT_FOUND, x |-> x]
     ELSE IF available = 0 THEN [code |-> HASH_BIN_FULL, x |-> x]
     ELSE [code |-> 0, x |-> [x EXCEPT !.bins[i][available] = e, !.count = @ + 1]]

(* The address of an entry is compared with EMPTY_FLAG, not its key: no    *)
(* place is ever found.                                                    *)
seq_hash_insert_nocheck(x, e) == [code |-> HASH_BIN_FULL, x |-> x]

seq_hash_search(x, k, mode) ==
  IF InHash(x, k) = 0 THEN [found |-> FALSE, x |-> x]
  ELSE IF mode = "HASH_QUERY"
  THEN [found |-> TRUE, x |-> x, val |-> x.bins[HASH_IDX(x, k)][InHash(x, k)].val]
  ELSE [found |-> TRUE, x |-> HashRemove(x, k)]

(* The key stays out of a full bin without a word. *)
hash_insert_nocheck_nosafe(x, e) ==
  LET i == HASH_IDX(x, e.key)
      j == FirstFree(x.bins[i])
  IN IF j = 0 THEN x ELSE [x EXCEPT !.bins[i][j] = e, !.count = @ + 1]

(* hash_construct of twice the size, and its count *)
Doubled(x) == [x EXCEPT !.bins = [i \in 1 .. 2 * Len(@) |-> [j \in 1 .. BIN_CAPACITY |-> EMPTY]],
                        !.count = 0]

seq_hash_expand_reinsert(x) ==
  FoldLeft(LAMBDA y, e : IF e = EMPTY THEN y ELSE hash_insert_nocheck_nosafe(y, e),
           Doubled(x), FlattenSeq(x.bins))

SeqLoadBelow(x, num, den) == x.count * BIN_CAPACITY * den < num * Len(x.bins)
-----------------------------------------------------------------------------
(* The tree. *)

seq_recursive_insert(x, e, type) == Insert(x.root, e, type = MEM_TYPE, FALSE, 0)

(* The index after recursive_insert and recursive_delete returned r. *)
seq_art_insert_no_replace(x, r) == Grown(x, r)

seq_recursive_delete(x, k) == Delete(x.root, k, 0)

seq_art_delete(x, r) == Shrunk(x, r)

seq_art_search(x, k) == Locate(x.root, k, 0, <<>>)

(* A mistake to catch: a buffered key is not updated. *)
MSeqArtUpdate(x, e, at) ==
  IF at.where = "leaf" THEN [x EXCEPT !.root = PutNode(@, at.path, Leaf(e))] ELSE x

(* A key is updated where it is. *)
seq_art_update(x, e, at) ==
  IF at.where = "none" THEN x
  ELSE IF at.where = "leaf" THEN [x EXCEPT !.root = PutNode(@, at.path, Leaf(e))]
  ELSE [x EXCEPT !.root = PutBuffer(@, at.path, at.at, e)]
-----------------------------------------------------------------------------
(* index_compact.  A key goes to a shallower buffer, or stays when the     *)
(* insertion meets the key itself.                                         *)
SeqLift(x, path, i, r) ==
  IF r.old = "found" THEN x ELSE Emptied(seq_art_insert_no_replace(x, r), path, i)

SeqCompactEntry(s, path, i, num, den) ==
  LET b   == NodeAt(s.x.root, path).buffer[i]
      try == s.failed < 3 /\ SeqLoadBelow(s.x, num, den)
      r   == seq_hash_insert_nocheck(s.x, b)
  IN IF b = EMPTY THEN s
     ELSE IF try /\ r.code = 0 THEN [s EXCEPT !.x = Emptied(r.x, path, i), !.failed = 0]
     ELSE [s EXCEPT !.x = SeqLift(@, path, i, seq_recursive_insert(@, b, MEM_TYPE)),
                    !.failed = IF try THEN @ + 1 ELSE @]

SeqCompactNode(s, path, num, den) ==
  IF s.done THEN s
  ELSE IF path = DANGLING THEN ReadFreed(s)
  ELSE NodeDone(FoldLeft(LAMBDA u, i : SeqCompactEntry(u, path, i, num, den), s,
                         [i \in 1 .. BUF_LEN |-> i]))

seq_index_compact(x, num, den) ==
  Note(FoldLeft(LAMBDA u, path : SeqCompactNode(u, path, num, den),
                [x |-> x, failed |-> 0, done |-> FALSE], InnerNodes(x.root)).x,
       "null_root", x.root = NULL)

seq_index_expand(x) == seq_index_compact(seq_hash_expand_reinsert(x), 8, 10)
-----------------------------------------------------------------------------
(* A full bin makes the table grow when the tree has MAX_TREE_HASH_RATIO   *)
(* times as many keys as the table has places.                             *)
SeqTreeLarge(x) == Len(x.bins) * BIN_CAPACITY * MAX_TREE_HASH_RATIO < x.size

SeqTreeInsert(x, r) ==
  [code |-> IF r.old = "found" THEN 1 ELSE 0, x |-> seq_art_insert_no_replace(x, r)]

RECURSIVE seq_index_insert(_, _, _)
seq_index_insert(x, e, type) ==
  LET r == seq_hash_modify(x, e, "INSERT")
  IN IF type = MEM_TYPE /\ r.code = 0 THEN r
     ELSE IF type = MEM_TYPE /\ SeqTreeLarge(x)
     THEN seq_index_insert(seq_index_compact(seq_hash_expand_reinsert(x), 9, 10), e, type)
     ELSE SeqTreeInsert(x, seq_recursive_insert(x, e, type))

seq_index_query(x, k, at) ==
  LET r == seq_hash_search(x, k, "HASH_QUERY")
  IN IF r.found THEN [code |-> 0, val |-> r.val]
     ELSE IF at.where # "none" THEN [code |-> 0, val |-> at.e.val]
     ELSE [code |-> 1, val |-> NULL]

(* As in HeteroIndex, a leaf with value 0 counts as not found. *)
seq_index_update(x, e, at) ==
  LET r == seq_hash_modify(x, e, "STRICT_UPDATE")
      missed == at.where = "none" \/ (at.where = "leaf" /\ at.e.val = 0)
  IN IF r.code # ELEMENT_NOT_FOUND THEN r
     ELSE [code |-> IF missed THEN 1 ELSE 0, x |-> seq_art_update(x, e, at)]

SeqRefilled(x) ==
  IF SeqLoadBelow(x, 6, 10) /\ x.buffer_count * 16 > x.size
  THEN seq_index_compact(x, 875, 1000) ELSE x

seq_index_delete(x, k, d) ==
  LET r == seq_hash_search(x, k, "HASH_DELETE")
  IN IF r.found THEN SeqRefilled(r.x) ELSE seq_art_delete(x, d)

SeqDeleteCode(x, k, d) ==
  IF seq_hash_search(x, k, "HASH_QUERY").found \/ d.found THEN 0 ELSE 1
-----------------------------------------------------------------------------
SeqInsertKey(k, v, type) == Inserts(k, v, seq_index_insert(ix, Entry(k, v), type))

SeqUpdateKey(k, v) ==
  /\ Becomes(seq_index_update(ix, Entry(k, v), seq_art_search(ix, k)).x)
  /\ last' = IF last[k] = NULL THEN last ELSE [last EXCEPT ![k] = v]

SeqDeleteKey(k) == /\ Becomes(seq_index_delete(ix, k, seq_recursive_delete(ix, k)))
                   /\ last' = [last EXCEPT ![k] = NULL]

SeqExpandIndex == /\ Becomes(seq_index_expand(ix))
                  /\ UNCHANGED last

SeqNext ==
  \/ \E k \in Keys :
       \/ \E v \in Values[k], type \in Types[k] : SeqInsertKey(k, v, type)
       \/ \E v \in Values[k] : SeqUpdateKey(k, v)
       \/ SeqDeleteKey(k)
  \/ \E k \in SpecialKeys :
       \/ \E v \in Values[k] : StoreSpecial(k, v)
       \/ DeleteSpecial(k)
  \/ SeqExpandIndex

SeqSpec == Init /\ [][SeqNext]_vars
-----------------------------------------------------------------------------
(* In the sequential variant too, query, update and delete agree with what *)
(* was stored: a query finds the last value, delete succeeds for exactly   *)
(* the keys that are there, and the update of such a key succeeds and is   *)
(* what the next query finds, in the table, a buffer or a leaf, after any  *)
(* expansion and compaction (src/sequential/hetero.c:63-127).              *)
SeqUpdates(k, r, v) ==
  r.code = 0 /\ seq_index_query(r.x, k, seq_art_search(r.x, k)).val = v

SeqConsistent ==
  \A k \in Keys :
     LET at     == seq_art_search(ix, k)
         stored == last[k] # NULL
     IN /\ seq_index_query(ix, k, at) = [code |-> IF stored THEN 0 ELSE 1, val |-> last[k]]
        /\ SeqDeleteCode(ix, k, seq_recursive_delete(ix, k)) = 0 <=> stored
        /\ stored => \A v \in Values[k] : SeqUpdates(k, seq_index_update(ix, Entry(k, v), at), v)
=============================================================================
