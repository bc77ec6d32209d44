---------------------------- MODULE HeteroIndex ----------------------------
(***************************************************************************)
(* The index of src/src/hetero.c, used by one thread: a hash table over an *)
(* adaptive radix tree, with FLOAT (art_float), compaction and expansion.  *)
(* An index_sys is a record; a function of the code that changes the index *)
(* returns the new record here, with what else the code returns.  Bins and *)
(* buffers keep the place of every entry.  The estimates of the count-min  *)
(* sketch are free: any comparison of two of them may come out either way. *)
(***************************************************************************)
EXTENDS ART, FiniteSets

CONSTANTS Keys, SpecialKeys,
          Values,               \* Values[k]: what is stored under k
          Types,                \* Types[k]: the storage types it is inserted with
          HashOf,               \* HashOf[k]: the hash that selects the bin
          BIN_CAPACITY,
          MAX_TREE_HASH_RATIO,
          INIT_SIZE, MaxSize,   \* bins at first; bound on the bins
          Together,             \* bound: the sets of keys that may be in the index at once
          Avoid                 \* the faults that the callers stay clear of

MEM_TYPE == "mem"
SSD_TYPE == "ssd"

(* What can go wrong in a step.  The first fault ends the run.             *)
(*   misplaced:   a key in the buffer of a node whose prefix it lacks      *)
(*   clashed:     two children of a node with the same byte                *)
(*   redescended: a key inserted again below a prefix it has already passed*)
(*   doubled:     a second copy of a key                                   *)
(*   null_root:   compaction of an index whose tree is empty               *)
(*   dangling:    compaction of a freed node behind the children of another*)
Faults == {"misplaced", "clashed", "redescended", "doubled", "null_root", "dangling"}

ASSUME Scale == /\ BIN_CAPACITY \in Nat \ {0} /\ INIT_SIZE \in Nat \ {0}
                /\ Avoid \subseteq Faults
                /\ \A k \in Keys : Len(k) = KEY_LEN /\ HashOf[k] \in Nat

VARIABLES ix,    \* the index_sys, and the history variable faults
          last   \* history: the value last stored under each key, or NULL

vars == <<ix, last>>
-----------------------------------------------------------------------------
(* The hash table: hash_modify, hash_insert_nocheck and hash_search run    *)
(* without interference.                                                   *)

HASH_IDX(x, k) == (HashOf[k] % Len(x.bins)) + 1

InHash(x, k) == PlaceOf(k, x.bins[HASH_IDX(x, k)])

FirstFree(entries) == SelectInSeq(entries, LAMBDA b : b = EMPTY)

hash_insert_nocheck(x, e) ==
  LET i == HASH_IDX(x, e.key)
      j == FirstFree(x.bins[i])
  IN IF j = 0 THEN [ok |-> FALSE, x |-> x]
     ELSE [ok |-> TRUE, x |-> [x EXCEPT !.bins[i][j] = e, !.count = @ + 1]]

HashStore(x, e) == [x EXCEPT !.bins[HASH_IDX(x, e.key)][InHash(x, e.key)] = e]

hash_insert(x, e) ==
  IF InHash(x, e.key) # 0 THEN [ok |-> TRUE, x |-> HashStore(x, e)] ELSE hash_insert_nocheck(x, e)

HashRemove(x, k) ==
  [x EXCEPT !.bins[HASH_IDX(x, k)][InHash(x, k)] = EMPTY, !.count = @ - 1]

(* load_factor(hash) < num / den *)
LoadBelow(x, num, den) == x.count * BIN_CAPACITY * den < num * Len(x.bins)

(* hash_expand_copy and hash_expand_reinsert: bin i is split over bins i   *)
(* and size + i.  The first leaves the entries that stay where they are.   *)
Level(x, k) == (HashOf[k] \div Len(x.bins)) % 2

Packed(entries) == entries \o [j \in 1 .. BIN_CAPACITY - Len(entries) |-> EMPTY]

hash_expand(x, how) ==
  LET on(b, l)   == SelectSeq(b, LAMBDA e : e # EMPTY /\ Level(x, e.key) = l)
      left(b, e) == Append(b, IF e # EMPTY /\ Level(x, e.key) = 1 THEN EMPTY ELSE e)
      low(b)     == IF how = "copy" THEN FoldLeft(left, <<>>, b) ELSE Packed(on(b, 0))
  IN [x EXCEPT !.bins = [i \in DOMAIN @ |-> low(@[i])]
                          \o [i \in DOMAIN @ |-> Packed(on(@[i], 1))]]
-----------------------------------------------------------------------------
(* The tree. *)

Note(x, fault, happened) == IF happened THEN [x EXCEPT !.faults = @ \union {fault}] ELSE x

(* The index after recursive_insert and recursive_delete returned r. *)
Grown(x, r) ==
  Note([x EXCEPT !.root = r.n,
                 !.buffer_count = IF r.old = "buffer" THEN @ + 1 ELSE @,
                 !.size = IF r.old = "found" THEN @ ELSE @ + 1],
       "misplaced", r.misplaced)

(* A mistake to catch: the tag with the buffered keys is ignored. *)
MShrunk(x, r) ==
  Note([x EXCEPT !.root = r.n, !.size = IF r.found THEN @ - 1 ELSE @], "clashed", r.clashed)

Shrunk(x, r) ==
  Note([x EXCEPT !.root = r.n,
                 !.buffer_count = @ - r.cnt,
                 !.size = IF r.found THEN @ - 1 ELSE @],
       "clashed", r.clashed)

art_insert_no_replace(x, e, type) == Insert(x.root, e, type = MEM_TYPE, FALSE, 0)

(* art_insert: a key that is there gets the new value.  The index itself   *)
(* does not call it.                                                       *)
art_insert(x, e, type) == Insert(x.root, e, type = MEM_TYPE, TRUE, 0)

art_delete(x, k) == Delete(x.root, k, 0)

(* art_float: what can become of an index in which key e.key was found at  *)
(* at, in a buffer, when e is to be stored.  A place of the parent's       *)
(* buffer before the first free one may hold the key to be pushed out.     *)
PutHere(x, at, e) == [x EXCEPT !.root = PutBuffer(@, at.path, at.at, e)]

FloatRoot(x, at, e) ==
  IF FirstFree(x.bins[HASH_IDX(x, e.key)]) = 0 THEN PutHere(x, at, e)
  ELSE [hash_insert_nocheck(x, e).x EXCEPT !.root = PutBuffer(@, at.path, at.at, EMPTY),
                                           !.buffer_count = @ - 1, !.size = @ - 1]

(* key takes place j of the parent's buffer and leaves lru, or nothing, in its own. *)
FloatTo(x, at, e, j, lru) ==
  [PutHere(x, at, lru) EXCEPT !.root = PutBuffer(@, Front(at.path), j, e)]

(* The key that was pushed out, lru, is inserted again from the parent on. *)
Reinserted(x, path, r) ==
  [x EXCEPT !.root = PutResult(@, path, r).n,
            !.buffer_count = IF r.old = "buffer" THEN @ ELSE @ - 1,
            !.faults = IF r.misplaced THEN @ \union {"misplaced"} ELSE @]

FloatReinsert(x, path, lru, depth_parent) ==
  LET parent == NodeAt(x.root, path)
  IN IF parent.partial = <<>> THEN Reinserted(x, path, Insert(parent, lru, TRUE, FALSE, depth_parent))
     ELSE Note(Reinserted(x, path,
                          [Insert(parent, lru, TRUE, FALSE, depth_parent) EXCEPT !.misplaced = FALSE]),
               "redescended", FirstFree(parent.buffer) = 0)

art_float(x, at, e) ==
  LET path   == Front(at.path)
      buffer == NodeAt(x.root, path).buffer
      depth_parent == at.depth - Len(NodeAt(x.root, at.path).partial) - 1
      free   == FirstFree(buffer)
      below(k) == SubSeq(k, depth_parent + 1, at.depth)
      push(j)  == IF below(buffer[j].key) = below(e.key)
                  THEN FloatTo(x, at, e, j, buffer[j])
                  ELSE FloatReinsert(FloatTo(x, at, e, j, EMPTY), path, buffer[j], depth_parent)
  IN IF at.path = <<>> THEN {FloatRoot(x, at, e)}
     ELSE {push(j) : j \in {i \in 1 .. BUF_LEN : free = 0 \/ i < free}}
            \union {IF free = 0 THEN PutHere(x, at, e) ELSE FloatTo(x, at, e, free, EMPTY)}
-----------------------------------------------------------------------------
(* index_compact: buffered keys go to the table while it takes them, else  *)
(* to a shallower buffer.  s is the index with the locals of the loop.     *)
Emptied(x, path, i) ==
  [x EXCEPT !.root = PutBuffer(@, path, i, EMPTY), !.buffer_count = @ - 1, !.size = @ - 1]

Lift(s, path, i, r) ==
  [s EXCEPT !.x = IF r.old = "found" THEN @ ELSE Emptied(Grown(@, r), path, i)]

CompactEntry(s, path, i, num, den) ==
  LET b   == NodeAt(s.x.root, path).buffer[i]
      try == s.failed < 3 /\ LoadBelow(s.x, num, den)
  IN IF b = EMPTY THEN s
     ELSE IF try /\ FirstFree(s.x.bins[HASH_IDX(s.x, b.key)]) # 0
     THEN [s EXCEPT !.x = Emptied(hash_insert_nocheck(@, b).x, path, i), !.failed = 0]
     ELSE Lift([s EXCEPT !.failed = IF try THEN @ + 1 ELSE @], path, i,
               art_insert_no_replace(s.x, b, MEM_TYPE))

(* The walk ends after a node when no key is buffered any more. *)
NodeDone(s) == [s EXCEPT !.done = s.x.buffer_count = 0]

(* A freed node is read: there is no saying what comes of it. *)
ReadFreed(s) == [s EXCEPT !.x = Note(@, "dangling", TRUE), !.done = TRUE]

CompactNode(s, path, num, den) ==
  IF s.done THEN s
  ELSE IF path = DANGLING THEN ReadFreed(s)
  ELSE NodeDone(FoldLeft(LAMBDA u, i : CompactEntry(u, path, i, num, den), s,
                         [i \in 1 .. BUF_LEN |-> i]))

index_compact(x, num, den) ==
  Note(FoldLeft(LAMBDA u, path : CompactNode(u, path, num, den),
                [x |-> x, failed |-> 0, done |-> FALSE], InnerNodes(x.root)).x,
       "null_root", x.root = NULL)

index_expand(x, how) == index_compact(hash_expand(x, how), 8, 10)
-----------------------------------------------------------------------------
(* The operations: the code they return, and the index after them.         *)

(* An insert with MEM_TYPE goes to the tree when the table is full, unless *)
(* that has too few keys and is expanded first.  With more than MaxSize    *)
(* bins it is not; Becomes leaves that case out.                           *)
RECURSIVE index_insert(_, _, _, _)
index_insert(x, e, type, how) ==
  IF type = MEM_TYPE /\ hash_insert(x, e).ok
  THEN [code |-> 0, x |-> hash_insert(x, e).x]
  ELSE IF type = MEM_TYPE /\ x.count * MAX_TREE_HASH_RATIO < x.size /\ Len(x.bins) <= MaxSize
  THEN index_insert(index_expand(x, how), e, type, how)
  ELSE LET r == art_insert_no_replace(x, e, type)
       IN [code |-> IF r.old = "found" THEN 1 ELSE 0, x |-> Grown(x, r)]

(* index_query: the answer; and the index, which FLOAT may have changed.   *)
Answer(x, k, at) ==
  IF InHash(x, k) # 0 THEN [code |-> 0, val |-> x.bins[HASH_IDX(x, k)][InHash(x, k)].val]
  ELSE IF at.where = "none" THEN [code |-> 1, val |-> NULL]
  ELSE [code |-> 0, val |-> at.e.val]

index_query(x, k, at) ==
  IF InHash(x, k) = 0 /\ at.where = "buffer" THEN art_float(x, at, at.e) ELSE {x}

(* art_update answers with the old value of a leaf; 0 means not found. *)
UpdateCode(x, k, at) ==
  IF InHash(x, k) # 0 \/ at.where = "buffer" \/ (at.where = "leaf" /\ at.e.val # 0) THEN 0 ELSE 1

index_update(x, e, at) ==
  IF InHash(x, e.key) # 0 THEN {HashStore(x, e)}
  ELSE IF at.where = "none" THEN {x}
  ELSE IF at.where = "leaf" THEN {[x EXCEPT !.root = PutNode(@, at.path, Leaf(e))]}
  ELSE art_float(x, at, e)

(* A mistake to catch: what the tree returns for a buffered key is taken   *)
(* for a failure.                                                          *)
MDeleteCode(x, k, r) == IF InHash(x, k) # 0 \/ (r.found /\ r.cnt = 0) THEN 0 ELSE 1

DeleteCode(x, k, r) == IF InHash(x, k) # 0 \/ r.found THEN 0 ELSE 1

Refilled(x) ==
  IF LoadBelow(x, 6, 10) /\ x.buffer_count # 0 THEN index_compact(x, 875, 1000) ELSE x

index_delete(x, k, r) ==
  IF InHash(x, k) # 0 THEN Refilled(HashRemove(x, k)) ELSE Shrunk(x, r)

index_size(x) == x.count + x.size + Cardinality({k \in SpecialKeys : x.special[k] # NULL})
-----------------------------------------------------------------------------
index_construct ==
  [bins |-> [i \in 1 .. INIT_SIZE |-> [j \in 1 .. BIN_CAPACITY |-> EMPTY]], count |-> 0,
   root |-> NULL, size |-> 0, buffer_count |-> 0,
   special |-> [k \in SpecialKeys |-> NULL], faults |-> {}]

Init == /\ ix = index_construct
        /\ last = [k \in Keys \union SpecialKeys |-> NULL]

(* The index becomes x, within the bounds. *)
Becomes(x) == /\ ix.faults = {} /\ x.faults \intersect Avoid = {}
              /\ Len(x.bins) <= MaxSize
              /\ ix' = x

(* Whether k may be stored, within the bounds. *)
Room(k) == \E keys \in Together : {k} \union {j \in DOMAIN last : last[j] # NULL} \subseteq keys

Copies(x, k) ==
  LET has(entries) == Len(SelectSeq(entries, LAMBDA e : e # EMPTY /\ e.key = k))
  IN has(FlattenSeq(x.bins)) + has(Entries(x.root))

Inserts(k, v, r) == /\ Room(k)
                    /\ Becomes(Note(r.x, "doubled", Copies(r.x, k) > 1))
                    /\ last' = IF r.code = 0 THEN [last EXCEPT ![k] = v] ELSE last

(* How the table may be expanded; an insert with SSD_TYPE never does it. *)
Expansions(type) == IF type = MEM_TYPE THEN {"copy", "reinsert"} ELSE {"copy"}

InsertKey(k, v, type, how) == Inserts(k, v, index_insert(ix, Entry(k, v), type, how))

Where(k) == Locate(ix.root, k, 0, <<>>)

QueryKey(k) == /\ \E x \in index_query(ix, k, Where(k)) : Becomes(x)
               /\ UNCHANGED last

UpdateKey(k, v) == /\ \E x \in index_update(ix, Entry(k, v), Where(k)) : Becomes(x)
                   /\ last' = IF last[k] = NULL THEN last ELSE [last EXCEPT ![k] = v]

DeleteKey(k) == /\ Becomes(index_delete(ix, k, art_delete(ix, k)))
                /\ last' = [last EXCEPT ![k] = NULL]

ExpandIndex(how) == /\ Becomes(index_expand(ix, how))
                    /\ UNCHANGED last

(* Special keys are kept aside.  Insert and update both store; delete      *)
(* clears has_special_key.                                                 *)
StoreSpecial(k, v) == /\ Room(k)
                      /\ Becomes([ix EXCEPT !.special[k] = v])
                      /\ last' = [last EXCEPT ![k] = v]

DeleteSpecial(k) == /\ Becomes([ix EXCEPT !.special[k] = NULL])
                    /\ last' = [last EXCEPT ![k] = NULL]

Next ==
  \/ \E k \in Keys :
       \/ \E v \in Values[k], type \in Types[k] : \E how \in Expansions(type) :
            InsertKey(k, v, type, how)
       \/ QueryKey(k)
       \/ \E v \in Values[k] : UpdateKey(k, v)
       \/ DeleteKey(k)
  \/ \E k \in SpecialKeys :
       \/ \E v \in Values[k] : StoreSpecial(k, v)
       \/ DeleteSpecial(k)
  \/ \E how \in Expansions(MEM_TYPE) : ExpandIndex(how)

Spec == Init /\ [][Next]_vars
-----------------------------------------------------------------------------
(* A query finds the value last stored under each key, wherever the key    *)
(* is, and whatever FLOAT, compaction and expansion did to it; it finds    *)
(* nothing for a key that is not stored (hetero.c:55-68).                  *)
LookupLast ==
  \A k \in Keys : Answer(ix, k, Where(k)) =
                     [code |-> IF last[k] = NULL THEN 1 ELSE 0, val |-> last[k]]

(* The other operations agree with queries on which keys are there: delete *)
(* succeeds for exactly those, update fails for none of them, and insert   *)
(* refuses no other (hetero.c:52, 79, 91).                                 *)
OperationsAgree ==
  \A k \in Keys :
     /\ DeleteCode(ix, k, art_delete(ix, k)) = 0 <=> last[k] # NULL
     /\ IF last[k] # NULL THEN UpdateCode(ix, k, Where(k)) = 0
        ELSE \A type \in Types[k], v \in Values[k] :
               art_insert_no_replace(ix, Entry(k, v), type).old # "found"

(* The tree keeps its shape through growth, shrinking, splits and joins:   *)
(* no node is left with one child or with more or fewer than its type is   *)
(* for, no child is doubled, no key is below or in a node whose bytes it   *)
(* does not have (art.c:636-666, 781-809, 914-955).                        *)
TreeShaped == ix.root # NULL => Shaped(ix.root, <<>>)

(* The counters that steer expansion and compaction, and that index_size   *)
(* adds up, are exact through FLOAT, compaction, expansion and removals    *)
(* that turn buffered keys into leaves (hetero.c:93, 126-127, 143, 163).   *)
CountersExact ==
  /\ ix.size = Len(Entries(ix.root))
  /\ ix.buffer_count = Len(Entries(ix.root)) - Len(Iter(ix.root))
  /\ index_size(ix) = Cardinality({k \in DOMAIN last : last[k] # NULL})

(* Iteration leaves no leaf out, whatever growth, shrinking, splits and    *)
(* removals did to the nodes and to the order of their children: it visits *)
(* exactly the keys that a search finds in a leaf, each once; minimum and  *)
(* maximum are its ends; and with a prefix, every key that begins with it  *)
(* is visited, once, even where the walk reads past the end of the prefix  *)
(* (art.c:455-513, 1044-1160).  It may visit other keys as well.           *)
KeyPrefixes == {SubSeq(k, 1, i) : k \in Keys, i \in 1 .. KEY_LEN}

Beginning(leaves, p) == SelectSeq(leaves, LAMBDA e : IsPrefix(p, e.key))

IterationIs(leaves) ==
  /\ \A k \in Keys : Len(Beginning(leaves, k)) = IF Where(k).where = "leaf" THEN 1 ELSE 0
  /\ ix.root # NULL => minimum(ix.root).e = leaves[1] /\ maximum(ix.root).e = Last(leaves)
  /\ \A p \in KeyPrefixes : \A visited \in IterPrefix(ix.root, p, 0) :
       Beginning(visited, p) = Beginning(leaves, p)


(* On every tree that the index makes, art_insert gives the key its new    *)
(* value, whether it was in a leaf, in a buffer or not there, leaves every *)
(* other key as it was, keeps no second copy and keeps the shape in which  *)
(* all of them are found.  A key is inserted with the type it had before;  *)
(* SSD_TYPE would pass over a buffer with the key (art.c:718-769, 826-835).*)
NewValue == 0   \* one that is stored nowhere

Replaces(k, old, r) ==
  /\ ToSet(Entries(r.n)) = {e \in ToSet(Entries(ix.root)) : e.key # k} \union {Entry(k, NewValue)}
  /\ Shaped(r.n, <<>>)
  /\ r.old = "found" <=> old.where # "none"

ReplaceStores ==
  \A k \in Keys : \A type \in Types[k] :
     Replaces(k, Where(k), art_insert(ix, Entry(k, NewValue), type))
=============================================================================
