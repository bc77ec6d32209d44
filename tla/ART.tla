-------------------------------- MODULE ART --------------------------------
(***************************************************************************)
(* The adaptive radix tree of src/src/art.c, as values: a tree is NULL, a  *)
(* leaf, or an inner node with a compressed prefix (partial), children,    *)
(* the slots behind them (rest) and a buffer of BUF_LEN entries.  A function*)
(* of the code that writes through a node reference returns the new node   *)
(* here.  Keys are sequences of KEY_LEN bytes; depths count from 0, so     *)
(* that key[depth] of the code is k[d + 1].  MAX_PREFIX_LEN is KEY_LEN, so *)
(* a prefix is always stored in full.  The four node types hold the same   *)
(* map from bytes to children; they differ in the order of the children,   *)
(* in when they grow and shrink, in the slots that keep an old pointer,    *)
(* and in what NODE4 does on a removal.                                    *)
(***************************************************************************)
EXTENDS Integers, SequencesExt

CONSTANTS KEY_LEN, BUF_LEN,
          Cap,    \* Cap[t]: children a node of type t holds, for t < 4 (4, 16, 48)
          Low,    \* Low[t]: children at which type t shrinks, for t > 1 (3, 12, 37)
          NULL,   \* no node
          EMPTY   \* an entry with EMPTY_FLAG as its key

NODE4 == 1
NODE16 == 2
NODE256 == 4

Entry(k, v) == [key |-> k, val |-> v]
Leaf(e) == [kind |-> "leaf", e |-> e]
IsLeaf(n) == n.kind = "leaf"

NoBuffer == [i \in 1 .. BUF_LEN |-> EMPTY]

(* A NODE4 or NODE16 has Cap[type] slots for children.  One behind the     *)
(* children holds <<>> (no pointer, or one to a leaf, which is tagged), or *)
(* the bytes that lead from the node to the inner node it still points to, *)
(* or DANGLING when that node has been freed.                              *)
DANGLING == <<-1>>

NoPointers(k) == [i \in 1 .. k |-> <<>>]

(* alloc_node(NODE4) *)
NewNode(partial, buffer) ==
  [kind |-> "node", type |-> NODE4, partial |-> partial, kids |-> <<>>,
   rest |-> NoPointers(Cap[NODE4]), buffer |-> buffer]

(* The place of key k in a sequence of entries, or 0. *)
PlaceOf(k, entries) == SelectInSeq(entries, LAMBDA e : e # EMPTY /\ e.key = k)

(* find_child: the place of the child for byte c, or 0. *)
FindChild(n, c) == SelectInSeq(n.kids, LAMBDA x : x.c = c)

(* add_child: a child goes before the first greater byte; a full node is   *)
(* replaced by one of the next type.  NODE16 compares bytes as signed      *)
(* numbers (_mm_cmplt_epi8); NODE48 and NODE256 are indexed by the byte.   *)
Rank(type, c) == IF type = NODE16 /\ c > 127 THEN c - 256 ELSE c

Placed(type, kids, kid) ==
  LET at == SelectInSeq(kids, LAMBDA x : Rank(type, kid.c) < Rank(type, x.c))
  IN InsertAt(kids, IF at = 0 THEN Len(kids) + 1 ELSE at, kid)

Full(n) == n.type < NODE256 /\ Len(n.kids) = Cap[n.type]

Grow(n) ==
  IF n.type = NODE4 THEN [n EXCEPT !.type = NODE16, !.rest = NoPointers(Cap[NODE16] - Cap[NODE4])]
  ELSE [n EXCEPT !.type = @ + 1, !.kids = SortSeq(@, LAMBDA x, y : x.c < y.c)]

AddChild(n, c, m) ==
  LET to == IF Full(n) THEN Grow(n) ELSE n
  IN [to EXCEPT !.kids = Placed(to.type, @, [c |-> c, n |-> m]),
                !.rest = IF @ = <<>> THEN @ ELSE Tail(@)]

(* check_prefix and prefix_mismatch: bytes of the prefix that k has at d. *)
Agree(n, k, d) ==
  LET differ == {i \in DOMAIN n.partial : d + i > Len(k) \/ n.partial[i] # k[d + i]}
  IN IF differ = {} THEN Len(n.partial) ELSE Min(differ) - 1

Matches(n, k, d) == Agree(n, k, d) = Len(n.partial)
-----------------------------------------------------------------------------
(* What a change at the node that the bytes at lead to does to the slots   *)
(* behind children.  Growth and shrinking replace the node, a split puts   *)
(* it below byte c of a new one, and a join frees it in favour of its only *)
(* child.                                                                  *)
Change(how, c) == [at |-> <<>>, how |-> how, c |-> c]
Kept == Change("kept", 0)

Moved(slot, ch) ==
  LET below == SubSeq(slot, Len(ch.at) + 1, Len(slot))
  IN IF ch.how = "kept" \/ ~IsPrefix(ch.at, slot) THEN slot
     ELSE IF ch.how = "split" THEN ch.at \o <<ch.c>> \o below
     ELSE IF below = <<>> THEN DANGLING
     ELSE IF ch.how = "joined" THEN ch.at \o Tail(below)
     ELSE slot

(* A result below child number kid, as a result of the node. *)
Above(n, kid, r) ==
  LET ch == [r.change EXCEPT !.at = <<n.kids[kid].c>> \o @]
  IN [r EXCEPT !.change = ch,
               !.n = [n EXCEPT !.kids[kid].n = r.n,
                               !.rest = [i \in DOMAIN @ |-> Moved(@[i], ch)]]]
-----------------------------------------------------------------------------
(* recursive_insert, with replace for art_insert and without for           *)
(* art_insert_no_replace and art_float.  The result has the new node and   *)
(* the change to it, whether the key was found, put in a buffer, or put in *)
(* a new leaf, and whether it was put in the buffer of a node whose prefix *)
(* it lacks.                                                               *)

Inserted(n, old) == [n |-> n, change |-> Kept, old |-> old, misplaced |-> FALSE]

(* Two leaves under a new NODE4, p bytes below depth d. *)
longest_common_prefix(k1, k2, d) ==
  Min({p \in 0 .. KEY_LEN - d : d + p = KEY_LEN \/ k1[d + p + 1] # k2[d + p + 1]})

Branch(l, new, d, p) ==
  AddChild(AddChild(NewNode(SubSeq(new.e.key, d + 1, d + p), NoBuffer), l.e.key[d + p + 1], l),
           new.e.key[d + p + 1], new)

SplitLeaf(l, new, d) == Branch(l, new, d, longest_common_prefix(l.e.key, new.e.key, d))

(* A node whose prefix is left after p bytes goes under a new NODE4, which *)
(* takes over its buffer.                                                  *)
SplitPrefix(n, new, d, p) ==
  LET top  == NewNode(SubSeq(n.partial, 1, p), n.buffer)
      down == [n EXCEPT !.partial = SubSeq(@, p + 2, Len(@)), !.buffer = NoBuffer]
  IN [Inserted(AddChild(AddChild(top, n.partial[p + 1], down), new.e.key[d + p + 1], new), "new")
        EXCEPT !.change = Change("split", n.partial[p + 1])]

InsertChild(n, c, new) ==
  [Inserted(AddChild(n, c, new), "new") EXCEPT !.change = IF Full(n) THEN Change("replaced", 0) ELSE @]

(* A mistake to catch: a free place of a buffer is taken by a key that may *)
(* be further down.                                                        *)
MFreePlace(n, mem, replace) ==
  IF mem THEN SelectLastInSeq(n.buffer, LAMBDA b : b = EMPTY) ELSE 0

(* The place of the buffer for a new key, or 0. *)
FreePlace(n, mem, replace) ==
  IF mem /\ ~replace THEN SelectLastInSeq(n.buffer, LAMBDA b : b = EMPTY) ELSE 0

RECURSIVE Insert(_, _, _, _, _)
Insert(n, e, mem, replace, d) ==
  LET at   == PlaceOf(e.key, n.buffer)
      free == FreePlace(n, mem, replace)
      same == Agree(n, e.key, d)
      below == d + Len(n.partial)
      kid  == FindChild(n, e.key[below + 1])
  IN IF n = NULL THEN Inserted(Leaf(e), "new")
     ELSE IF IsLeaf(n)
     THEN IF n.e.key = e.key THEN Inserted(IF replace THEN Leaf(e) ELSE n, "found")
          ELSE Inserted(SplitLeaf(n, Leaf(e), d), "new")
     ELSE IF mem /\ at # 0
     THEN Inserted(IF replace THEN [n EXCEPT !.buffer[at] = e] ELSE n, "found")
     ELSE IF free # 0
     THEN [Inserted([n EXCEPT !.buffer[free] = e], "buffer")
             EXCEPT !.misplaced = same < Len(n.partial)]
     ELSE IF same < Len(n.partial) THEN SplitPrefix(n, Leaf(e), d, same)
     ELSE IF kid = 0 THEN InsertChild(n, e.key[below + 1], Leaf(e))
     ELSE Above(n, kid, Insert(n.kids[kid].n, e, mem, replace, below + 1))
-----------------------------------------------------------------------------
(* remove_child.  The result has the new node and the change to it, the    *)
(* number of buffered keys that became leaves, and whether two children    *)
(* now have the same byte.                                                 *)

Removed(n, change) == [n |-> n, change |-> change, cnt |-> 0, clashed |-> FALSE]

(* A NODE4 turns buffered keys into leaves while it has room for them. *)
Spill(n, d) ==
  LET step(r, i) ==
        LET b == r.n.buffer[i]
            c == b.key[d + 1]
        IN IF b = EMPTY \/ Len(r.n.kids) = Cap[NODE4] THEN r
           ELSE [r EXCEPT !.n = [AddChild(@, c, Leaf(b)) EXCEPT !.buffer[i] = EMPTY],
                          !.cnt = @ + 1,
                          !.clashed = @ \/ FindChild(r.n, c) # 0]
  IN FoldLeft(step, Removed(n, Kept), [i \in 1 .. BUF_LEN |-> i])

(* Two mistakes to catch: the byte of the child is left out of the joined  *)
(* prefix; a NODE4 with one child stays.                                   *)
MCollapseNoByte(n) ==
  LET only == n.kids[1]
  IN IF Len(n.kids) # 1 THEN n
     ELSE IF IsLeaf(only.n) THEN only.n
     ELSE [only.n EXCEPT !.partial = n.partial \o @]

MCollapseNever(n) == n

(* A NODE4 with one child gives way to it. *)
Collapse(n) ==
  LET only == n.kids[1]
  IN IF Len(n.kids) # 1 THEN n
     ELSE IF IsLeaf(only.n) THEN only.n
     ELSE [only.n EXCEPT !.partial = n.partial \o <<only.c>> \o @]

Settle(less, s) ==
  IF s.cnt > 0 THEN s
  ELSE Removed(Collapse(less), IF Len(less.kids) = 1 THEN Change("joined", 0) ELSE Kept)

(* The children behind the removed one move up; the slot of the last keeps *)
(* its pointer.                                                            *)
Without(n, kid) ==
  LET l == Last(n.kids)
  IN [n EXCEPT !.kids = RemoveAt(@, kid),
               !.rest = IF n.type > NODE16 THEN @ ELSE <<IF IsLeaf(l.n) THEN <<>> ELSE <<l.c>>>> \o @]

(* A NODE4 takes over the first Cap[NODE4] slots of a NODE16. *)
Shrink(n) ==
  [n EXCEPT !.type = @ - 1,
            !.rest = CASE n.type = NODE16 -> SubSeq(@, 1, Cap[NODE4] - Len(n.kids))
                       [] n.type = NODE16 + 1 -> NoPointers(Cap[NODE16] - Len(n.kids))
                       [] OTHER -> @]

RemoveChild(n, kid, d) ==
  LET less == Without(n, kid)
  IN IF n.type = NODE4 THEN Settle(less, Spill(less, d))
     ELSE IF Len(less.kids) = Low[n.type] THEN Removed(Shrink(less), Change("replaced", 0))
     ELSE Removed(less, Kept)

(* recursive_delete.  cnt is what art_delete subtracts from buffer_count. *)
Found(r, found) == [n |-> r.n, change |-> r.change, cnt |-> r.cnt, clashed |-> r.clashed, found |-> found]
NotDeleted(n) == Found(Removed(n, Kept), FALSE)
Deleted(r) == Found(r, TRUE)

RECURSIVE Delete(_, _, _)
Delete(n, k, d) ==
  LET at    == PlaceOf(k, n.buffer)
      below == d + Len(n.partial)
      kid   == FindChild(n, k[below + 1])
      child == n.kids[kid].n
  IN IF n = NULL THEN NotDeleted(n)
     ELSE IF IsLeaf(n)
     THEN IF n.e.key = k THEN Deleted(Removed(NULL, Kept)) ELSE NotDeleted(n)
     ELSE IF ~Matches(n, k, d) THEN NotDeleted(n)
     ELSE IF at # 0
     THEN Deleted([Removed([n EXCEPT !.buffer[at] = EMPTY], Kept) EXCEPT !.cnt = 1])
     ELSE IF kid = 0 THEN NotDeleted(n)
     ELSE IF IsLeaf(child)
     THEN IF child.e.key = k THEN Deleted(RemoveChild(n, kid, below)) ELSE NotDeleted(n)
     ELSE Above(n, kid, Delete(child, k, below + 1))
-----------------------------------------------------------------------------
(* The walk of art_search and art_update: where the key is, if anywhere,   *)
(* with the path of children from the root and the depth below the prefix. *)
Missed == [where |-> "none"]

RECURSIVE Locate(_, _, _, _)
Locate(n, k, d, path) ==
  LET at    == PlaceOf(k, n.buffer)
      below == d + Len(n.partial)
      kid   == FindChild(n, k[below + 1])
  IN IF n = NULL THEN Missed
     ELSE IF IsLeaf(n)
     THEN IF n.e.key = k THEN [where |-> "leaf", path |-> path, e |-> n.e] ELSE Missed
     ELSE IF ~Matches(n, k, d) THEN Missed
     ELSE IF at # 0
     THEN [where |-> "buffer", path |-> path, at |-> at, depth |-> below, e |-> n.buffer[at]]
     ELSE IF kid = 0 THEN Missed
     ELSE Locate(n.kids[kid].n, k, below + 1, Append(path, kid))

(* The node at a path, and the tree with another node there. *)
RECURSIVE NodeAt(_, _)
NodeAt(n, path) == IF path = <<>> THEN n ELSE NodeAt(n.kids[Head(path)].n, Tail(path))

RECURSIVE PutNode(_, _, _)
PutNode(n, path, m) ==
  IF path = <<>> THEN m ELSE [n EXCEPT !.kids[Head(path)].n = PutNode(@, Tail(path), m)]

(* The tree with the result of a function for the node at a path. *)
RECURSIVE PutResult(_, _, _)
PutResult(n, path, r) ==
  IF path = <<>> THEN r
  ELSE Above(n, Head(path), PutResult(n.kids[Head(path)].n, Tail(path), r))

(* The tree with another entry in a buffer. *)
PutBuffer(n, path, at, e) == PutNode(n, path, [NodeAt(n, path) EXCEPT !.buffer[at] = e])

(* The path that the bytes of a slot lead along. *)
RECURSIVE Follow(_, _)
Follow(n, slot) ==
  LET kid == FindChild(n, Head(slot))
  IN IF slot = <<>> THEN <<>> ELSE <<kid>> \o Follow(n.kids[kid].n, Tail(slot))

(* The inner nodes in the order in which a queue visits them: every slot   *)
(* of a node with a pointer to an inner node is pushed, those behind the   *)
(* children too.  A freed node ends the list, as nothing is known of it.   *)
Pushed(n, path) ==
  LET kids  == SelectSeq([i \in DOMAIN n.kids |-> i], LAMBDA i : ~IsLeaf(n.kids[i].n))
      slots == SelectSeq(n.rest, LAMBDA slot : slot # <<>>)
  IN [j \in DOMAIN kids |-> Append(path, kids[j])]
       \o [j \in DOMAIN slots |-> IF slots[j] = DANGLING THEN DANGLING
                                  ELSE path \o Follow(n, slots[j])]

RECURSIVE Visit(_, _)
Visit(n, queue) ==
  LET path == Head(queue)
  IN IF queue = <<>> THEN <<>>
     ELSE IF path = DANGLING THEN <<path>>
     ELSE <<path>> \o Visit(n, Tail(queue) \o Pushed(NodeAt(n, path), path))

InnerNodes(n) == IF n = NULL \/ IsLeaf(n) THEN <<>> ELSE Visit(n, <<<<>>>>)
-----------------------------------------------------------------------------
(* minimum and maximum: the first and the last leaf. *)
RECURSIVE minimum(_)
minimum(n) == IF n = NULL \/ IsLeaf(n) THEN n ELSE minimum(n.kids[1].n)

RECURSIVE maximum(_)
maximum(n) == IF n = NULL \/ IsLeaf(n) THEN n ELSE maximum(Last(n.kids).n)

(* recursive_iter: the leaves in the order in which the callback is given  *)
(* them, as long as it returns 0.  Buffers are passed over.                *)
RECURSIVE Iter(_)
Iter(n) ==
  IF n = NULL THEN <<>>
  ELSE IF IsLeaf(n) THEN <<n.e>>
  ELSE FlattenSeq([i \in DOMAIN n.kids |-> Iter(n.kids[i].n)])

(* art_iter_prefix: the leaves that the callback may be given for prefix p.*)
(* A node whose own prefix leaves p after the first byte does not end the  *)
(* walk, which goes on below it; past the end of p it reads a byte that is *)
(* not in p, any byte.                                                     *)
leaf_prefix_matches(l, p) == IsPrefix(p, l.e.key)


IterBelow(n, p) == IF leaf_prefix_matches(minimum(n), p) THEN Iter(n) ELSE <<>>

(* The children that find_child may return for p[d], the byte at depth d. *)
NextKids(n, p, d) ==
  IF d < Len(p) THEN {i \in DOMAIN n.kids : n.kids[i].c = p[d + 1]} ELSE DOMAIN n.kids

RECURSIVE IterPrefix(_, _, _)
IterPrefix(n, p, d) ==
  LET same == Agree(n, p, d)
      kids == NextKids(n, p, d + Len(n.partial))
  IN IF n = NULL THEN {<<>>}
     ELSE IF IsLeaf(n) \/ d = Len(p) THEN {IterBelow(n, p)}
     ELSE IF n.partial # <<>> /\ same = 0 THEN {<<>>}
     ELSE IF n.partial # <<>> /\ d + same = Len(p) THEN {Iter(n)}
     ELSE UNION {IterPrefix(n.kids[i].n, p, d + Len(n.partial) + 1) : i \in kids}
            \union (IF d + Len(n.partial) < Len(p) /\ kids # {} THEN {} ELSE {<<>>})
-----------------------------------------------------------------------------
(* For the properties: all entries of a tree. *)
RECURSIVE Entries(_)
Entries(n) ==
  IF n = NULL THEN <<>>
  ELSE IF IsLeaf(n) THEN <<n.e>>
  ELSE SelectSeq(n.buffer, LAMBDA b : b # EMPTY)
         \o FlattenSeq([i \in DOMAIN n.kids |-> Entries(n.kids[i].n)])

(* The shape of a tree that is reached along the bytes p: nodes have two   *)
(* children or more, as many as their type allows, no two with the same    *)
(* byte, and every key below a node begins with the bytes that lead there. *)
RECURSIVE Shaped(_, _)
Shaped(n, p) ==
  LET kids == n.kids
      q    == p \o n.partial
  IN IF IsLeaf(n) THEN IsPrefix(p, n.e.key)
     ELSE /\ Len(kids) >= 2
          /\ n.type < NODE256 => Len(kids) <= Cap[n.type]
          /\ n.type > NODE4 => Len(kids) > Low[n.type]
          /\ \A i, j \in DOMAIN kids : i # j => kids[i].c # kids[j].c
          /\ \A i \in 1 .. BUF_LEN : n.buffer[i] # EMPTY => IsPrefix(q, n.buffer[i].key)
          /\ \A i \in DOMAIN kids : Shaped(kids[i].n, Append(q, kids[i].c))
=============================================================================
