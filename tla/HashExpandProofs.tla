-------------------------- MODULE HashExpandProofs --------------------------
(***************************************************************************)
(* Proofs about HashExpand, for any keys, values and hashes, any capacity  *)
(* of the bins, and any number of expansions of either kind.               *)
(***************************************************************************)
EXTENDS HashExpand, FiniteSetTheorems, TLAPS

(* The entries of the old table that the loops have not reached.           *)
Todo(s) == s[1] \in 0 .. hash.size - 1 /\ (s[1] > i \/ (s[1] = i /\ s[2] >= j))

(* Every key is in the bin where a search looks for it; during a copy,     *)
(* those that were not reached yet are where the smaller table has them.   *)
InItsBin(h) == \A s \in Slots(h.size) : h.key[s] # EMPTY_FLAG => s[1] = HASH_IDX(h, h.key[s])

InEitherBin == \A s \in Slots(new_h.size) : new_h.key[s] # EMPTY_FLAG =>
                 \/ s[1] = HASH_IDX(new_h, new_h.key[s])
                 \/ Todo(s) /\ s[1] = HASH_IDX(hash, new_h.key[s])

Free(b, p) == new_h.key[<<b, p>>] = EMPTY_FLAG

(* The places that the loops count on are free. *)
UpperFree ==
  /\ k <= j
  /\ \A b \in 0 .. hash.size - 1, p \in Pos : b > i \/ (b = i /\ p >= k) => Free(b + hash.size, p)

AboveFree ==
  \A b \in 0 .. hash.size - 1, p \in Pos : b > i \/ (b = i /\ p >= j) =>
    Free(b, p) /\ Free(b + hash.size, p)

Layout == /\ InItsBin(hash)
          /\ pc = "copy" => InEitherBin /\ UpperFree
          /\ pc = "publish" => InItsBin(new_h)
          /\ pc = "reinsert" => InItsBin(new_h) /\ AboveFree

(* No key is there twice, and the keys and values are those of the calls.  *)
Unique(h) == \A s, r \in Slots(h.size) : h.key[s] = h.key[r] /\ h.key[s] # EMPTY_FLAG => s = r

Has(h, x) == \E s \in Slots(h.size) : h.key[s] = x

OwnValues(h) == \A s \in Slots(h.size) : h.key[s] # EMPTY_FLAG =>
                want[h.key[s]] # Absent /\ h.val[s] = want[h.key[s]]

Holds(h) == Unique(h) /\ OwnValues(h) /\ \A x \in Keys : want[x] # Absent => Has(h, x)

(* The table that is filled by reinsertion has the keys of the entries     *)
(* that were passed.                                                       *)
Passed ==
  /\ Unique(new_h) /\ OwnValues(new_h)
  /\ \A x \in Keys : Has(new_h, x) <=> \E r \in Slots(hash.size) : ~Todo(r) /\ hash.key[r] = x

Counted(h) == h.count = Cardinality(Occupied(h))

Content == ~raced =>
  /\ Holds(hash) /\ Counted(hash)
  /\ pc = "copy" => Holds(new_h) /\ hash.count = Cardinality(Occupied(new_h))
  /\ pc = "publish" => Holds(new_h) /\ Counted(new_h)
  /\ pc = "reinsert" => Passed /\ Counted(new_h)

ExpandInv == TypeOK /\ Layout /\ Content
-----------------------------------------------------------------------------
(* Arithmetic and places. *)

(* A bin of the table of twice the size: the bin of the smaller table, in  *)
(* the lower or the upper half.                                            *)
LEMMA Halves ==
  ASSUME NEW x \in Keys, NEW n \in Nat \ {0}
  PROVE  /\ HashOf[x] % n \in 0 .. n - 1 /\ (HashOf[x] \div n) % 2 \in {0, 1}
         /\ (HashOf[x] \div n) % 2 = 0 => HashOf[x] % (2 * n) = HashOf[x] % n
         /\ (HashOf[x] \div n) % 2 = 1 => HashOf[x] % (2 * n) = (HashOf[x] % n) + n
<1> DEFINE h == HashOf[x]
           q == h \div n
           r == h % n
           d == q \div 2
           b == q % 2
<1>1. h \in Nat
  BY KeyAssumption
<1> HIDE DEF h
<1>2. q \in Nat /\ r \in 0 .. n - 1 /\ h = n * q + r
  BY <1>1
<1> HIDE DEF q, r
<1>3. d \in Nat /\ b \in {0, 1} /\ q = 2 * d + b
  BY <1>2
<1> HIDE DEF d, b
<1> DEFINE m == 2 * n
           c == n * b + r
<1>4. h = m * d + c
  BY <1>2, <1>3
<1>5. m \in Nat \ {0} /\ c \in 0 .. m - 1
  BY <1>2, <1>3
<1>6. (b = 0 => c = r) /\ (b = 1 => c = r + n)
  BY <1>2
<1> HIDE DEF m, c
<1>7. \A u \in Nat \ {0} : \A e \in Nat, v \in 0 .. u - 1 : (u * e + v) % u = v
  OBVIOUS
<1>8. h % m = c
  BY <1>3, <1>4, <1>5, <1>7, Zenon
<1> QED
  BY <1>2, <1>3, <1>6, <1>8 DEF h, q, r, d, b, m

(* The first place of some. *)
LEMMA FirstPlace ==
  ASSUME NEW P \in SUBSET Pos, P # {}
  PROVE  First(P) \in P /\ \A q \in P : First(P) <= q
<1> DEFINE R == OpToRel(<, Nat)
<1>1. IsWellFoundedOn(R, Nat)
  BY NatLessThanWellFounded
<1>2. \A m, n \in Nat : m < n => <<m, n>> \in R
  BY DEF OpToRel
<1> HIDE DEF R
<1>3. P \subseteq Nat
  BY BinAssumption DEF Pos
<1>4. PICK n \in P : \A m \in P : ~(<<m, n>> \in R)
  BY <1>1, <1>3, WFMin
<1>5. n \in Nat /\ \A m \in P : m \in Nat /\ ~(m < n)
  BY <1>2, <1>3, <1>4, Zenon
<1>6. \A m \in P : n <= m
  BY <1>5
<1> QED
  BY <1>6 DEF First

LEMMA PlacesIn == \A h, x, w : Places(h, x, w) \in SUBSET Pos
  BY DEF Places

(* The bin of a key, and the entry that a call finds or takes there. *)
LEMMA Target ==
  ASSUME NEW n \in Nat \ {0}, NEW h \in Tables(n), NEW x \in Keys, NEW w, Places(h, x, w) # {}
  PROVE  /\ Slot(h, x, w) \in Slots(n) /\ Slot(h, x, w)[1] = HASH_IDX(h, x) /\ h.key[Slot(h, x, w)] = w
         /\ \A p \in Pos : h.key[<<HASH_IDX(h, x), p>>] = w => Slot(h, x, w)[2] <= p
<1>1. HASH_IDX(h, x) \in 0 .. n - 1
  BY Halves DEF HASH_IDX, Tables
<1>2. /\ First(Places(h, x, w)) \in Places(h, x, w)
      /\ \A q \in Places(h, x, w) : First(Places(h, x, w)) <= q
  BY FirstPlace, PlacesIn
<1> QED
  BY <1>1, <1>2 DEF Places, Slots, Slot

LEMMA SlotsFinite == ASSUME NEW n \in Nat PROVE IsFiniteSet(Slots(n))
<1>1. IsFiniteSet(0 .. n - 1) /\ IsFiniteSet(Pos)
  BY FS_Interval, BinAssumption DEF Pos
<1> QED
  BY <1>1, FS_Product DEF Slots

LEMMA OccupiedFinite ==
  ASSUME NEW h, h.size \in Nat
  PROVE  IsFiniteSet(Occupied(h)) /\ Cardinality(Occupied(h)) \in Nat
<1>1. IsFiniteSet(Slots(h.size)) /\ Occupied(h) \subseteq Slots(h.size)
  BY SlotsFinite DEF Occupied
<1> QED
  BY <1>1, FS_Subset, FS_CardinalityType
-----------------------------------------------------------------------------
(* Table g is table h with key x and value v in entry s, and count c. *)
Written(g, h, n, s, x, v, c) ==
  /\ g \in Tables(n) /\ g.count = c
  /\ \A r \in Slots(n) : /\ g.key[r] = IF r = s THEN x ELSE h.key[r]
                         /\ g.val[r] = IF r = s THEN v ELSE h.val[r]

LEMMA TableFields ==
  ASSUME NEW n, NEW h \in Tables(n)
  PROVE  /\ h.size = n /\ h.count \in Int
         /\ h.key \in [Slots(n) -> Keys \union {EMPTY_FLAG}]
         /\ h.val \in [Slots(n) -> Values \union {Absent}]
  BY DEF Tables

LEMMA PutWritten ==
  ASSUME NEW n, NEW h \in Tables(n), NEW s \in Slots(n), NEW x \in Keys \union {EMPTY_FLAG},
         NEW v \in Values \union {Absent}, NEW c \in Int
  PROVE  Written(Put(h, s, x, v, c), h, n, s, x, v, h.count + c)
<1>1. /\ h.size = n /\ h.count \in Int
      /\ h.key \in [Slots(n) -> Keys \union {EMPTY_FLAG}]
      /\ h.val \in [Slots(n) -> Values \union {Absent}]
  BY TableFields
<1> QED
  BY <1>1 DEF Put, Tables, Written

(* What becomes of the number of keys. *)
LEMMA WrittenCount ==
  ASSUME NEW n \in Nat, NEW h \in Tables(n), NEW s \in Slots(n), NEW x, NEW v, NEW c, NEW g,
         Written(g, h, n, s, x, v, c)
  PROVE  /\ Cardinality(Occupied(h)) \in Nat
         /\ (x = EMPTY_FLAG <=> h.key[s] = EMPTY_FLAG) =>
              Cardinality(Occupied(g)) = Cardinality(Occupied(h))
         /\ x # EMPTY_FLAG /\ h.key[s] = EMPTY_FLAG =>
              Cardinality(Occupied(g)) = Cardinality(Occupied(h)) + 1
         /\ x = EMPTY_FLAG /\ h.key[s] # EMPTY_FLAG =>
              Cardinality(Occupied(g)) = Cardinality(Occupied(h)) - 1
<1>1. h.size = n /\ g.size = n
  BY TableFields DEF Written
<1>2. IsFiniteSet(Occupied(h)) /\ Cardinality(Occupied(h)) \in Nat
  BY <1>1, OccupiedFinite
<1>3. (x = EMPTY_FLAG <=> h.key[s] = EMPTY_FLAG) => Occupied(g) = Occupied(h)
  BY <1>1 DEF Written, Occupied
<1>4. x # EMPTY_FLAG /\ h.key[s] = EMPTY_FLAG => Occupied(g) = Occupied(h) \union {s} /\ s \notin Occupied(h)
  BY <1>1 DEF Written, Occupied
<1>5. x = EMPTY_FLAG /\ h.key[s] # EMPTY_FLAG => Occupied(g) = Occupied(h) \ {s} /\ s \in Occupied(h)
  BY <1>1 DEF Written, Occupied
<1> QED
  BY <1>2, <1>3, <1>4, <1>5, FS_AddElement, FS_RemoveElement

LEMMA WrittenBin ==
  ASSUME NEW n, NEW h \in Tables(n), NEW s \in Slots(n), NEW x, NEW v, NEW c, NEW g,
         Written(g, h, n, s, x, v, c), InItsBin(h), x # EMPTY_FLAG => s[1] = HASH_IDX(h, x)
  PROVE  InItsBin(g)
<1>1. h.size = n /\ g.size = n
  BY TableFields DEF Written
<1>2. \A y : HASH_IDX(g, y) = HASH_IDX(h, y)
  BY <1>1 DEF HASH_IDX
<1> QED
  BY <1>1, <1>2 DEF Written, InItsBin
-----------------------------------------------------------------------------
(* The calls. *)

(* Each of them writes one entry, in the bin of its key: it replaces the   *)
(* value, or takes a free entry for a key that is in none, or frees it.    *)
Replaces(s, x, v) ==
  /\ hash.key[s] = x /\ v \in Values
  /\ Written(hash', hash, hash.size, s, x, v, hash.count) /\ Changes(x, v)

Adds(s, x, v) ==
  /\ hash.key[s] = EMPTY_FLAG /\ Places(hash, x, x) = {} /\ v \in Values
  /\ Written(hash', hash, hash.size, s, x, v, hash.count + 1) /\ Changes(x, v)

Removes(s, x, v) ==
  /\ hash.key[s] = x /\ v \in Values \union {Absent}
  /\ Written(hash', hash, hash.size, s, EMPTY_FLAG, v, hash.count - 1) /\ Changes(x, Absent)

LEMMA CallEffect ==
  ASSUME TypeOK, Call
  PROVE  \E x \in Keys, s \in Slots(hash.size), v \in Values \union {Absent} :
           /\ s[1] = HASH_IDX(hash, x)
           /\ Replaces(s, x, v) \/ Adds(s, x, v) \/ Removes(s, x, v)
<1> DEFINE n == hash.size
<1>1. n \in Nat \ {0} /\ hash \in Tables(n) /\ hash.count \in Int
  BY TableFields DEF TypeOK
<1>2. PICK x \in Keys : (\E v \in Values : UpdateInPlace(x, v) \/ InsertNew(x, v)) \/ hash_delete(x)
  BY DEF Call
<1> DEFINE s == Slot(hash, x, x)
           e == Slot(hash, x, EMPTY_FLAG)
<1>3. Places(hash, x, x) # {} => s \in Slots(n) /\ s[1] = HASH_IDX(hash, x) /\ hash.key[s] = x
  BY <1>1, Target
<1>4. Places(hash, x, EMPTY_FLAG) # {} => e \in Slots(n) /\ e[1] = HASH_IDX(hash, x) /\ hash.key[e] = EMPTY_FLAG
  BY <1>1, Target
<1>5. ASSUME NEW v \in Values, UpdateInPlace(x, v) PROVE s \in Slots(n) /\ Replaces(s, x, v)
  <2>1. s \in Slots(n) /\ hash.key[s] = x /\ hash' = Put(hash, s, x, v, 0) /\ Changes(x, v)
    BY <1>3, <1>5 DEF UpdateInPlace
  <2> HIDE DEF n, s
  <2>2. Written(Put(hash, s, x, v, 0), hash, n, s, x, v, hash.count + 0)
    BY <1>1, <2>1, PutWritten
  <2>3. hash.count + 0 = hash.count
    BY <1>1
  <2> QED BY <2>1, <2>2, <2>3, Zenon DEF Replaces, n
<1>6. ASSUME NEW v \in Values, InsertNew(x, v) PROVE e \in Slots(n) /\ Adds(e, x, v)
  <2>1. /\ e \in Slots(n) /\ hash.key[e] = EMPTY_FLAG /\ hash' = Put(hash, e, x, v, 1) /\ Changes(x, v)
        /\ Places(hash, x, x) = {}
    BY <1>4, <1>6 DEF InsertNew
  <2> HIDE DEF n, e
  <2>2. Written(Put(hash, e, x, v, 1), hash, n, e, x, v, hash.count + 1)
    BY <1>1, <2>1, PutWritten
  <2> QED BY <2>1, <2>2, Zenon DEF Adds, n
<1>7. ASSUME hash_delete(x) PROVE s \in Slots(n) /\ Removes(s, x, hash.val[s])
  <2>1. /\ s \in Slots(n) /\ hash.key[s] = x /\ Changes(x, Absent)
        /\ hash' = Put(hash, s, EMPTY_FLAG, hash.val[s], -1)
    BY <1>3, <1>7 DEF hash_delete
  <2>2. hash.val[s] \in Values \union {Absent}
    BY <1>1, <2>1, TableFields
  <2> DEFINE m == -1
             v == hash.val[s]
  <2>3. m \in Int /\ hash.count + m = hash.count - 1
    BY <1>1
  <2>4. hash' = Put(hash, s, EMPTY_FLAG, v, m)
    BY <2>1
  <2> HIDE DEF n, s, m, v
  <2>5. Written(Put(hash, s, EMPTY_FLAG, v, m), hash, n, s, EMPTY_FLAG, v, hash.count + m)
    BY <1>1, <2>1, <2>2, <2>3, PutWritten DEF v
  <2> QED BY <2>1, <2>2, <2>3, <2>4, <2>5, Zenon DEF Removes, n, v
<1>8. CASE hash_delete(x)
  <2>1. Places(hash, x, x) # {} /\ s \in Slots(n) /\ Removes(s, x, hash.val[s])
    BY <1>7, <1>8 DEF hash_delete
  <2>2. s[1] = HASH_IDX(hash, x) /\ hash.val[s] \in Values \union {Absent}
    BY <1>3, <2>1 DEF Removes
  <2> HIDE DEF s
  <2> QED BY <2>1, <2>2
<1>9. CASE \E v \in Values : UpdateInPlace(x, v)
  BY <1>3, <1>5, <1>9 DEF UpdateInPlace
<1>10. CASE \E v \in Values : InsertNew(x, v)
  BY <1>4, <1>6, <1>10 DEF InsertNew
<1> QED
  BY <1>2, <1>8, <1>9, <1>10

(* A key that no search would find is nowhere. *)
LEMMA Nowhere ==
  ASSUME NEW n \in Nat \ {0}, NEW h \in Tables(n), InItsBin(h), NEW x \in Keys, Places(h, x, x) = {}
  PROVE  ~Has(h, x)
<1>1. h.size = n
  BY TableFields
<1>2. ASSUME NEW s \in Slots(n), h.key[s] = x PROVE FALSE
  <2>1. s[1] = HASH_IDX(h, x) /\ s = <<s[1], s[2]>> /\ s[2] \in Pos
    BY <1>1, <1>2, KeyAssumption DEF InItsBin, Slots
  <2> QED BY <1>2, <2>1 DEF Places
<1> QED
  BY <1>1, <1>2 DEF Has

LEMMA CallLayout ==
  ASSUME TypeOK, Layout, Call
  PROVE  TypeOK' /\ Layout' /\ UNCHANGED <<new_h, pc, locals>> /\ hash'.size = hash.size
<1>1. hash.size \in Nat \ {0} /\ hash \in Tables(hash.size) /\ InItsBin(hash)
  BY DEF TypeOK, Layout
<1>2. PICK x \in Keys, s \in Slots(hash.size), v \in Values \union {Absent} :
        /\ s[1] = HASH_IDX(hash, x)
        /\ Replaces(s, x, v) \/ Adds(s, x, v) \/ Removes(s, x, v)
  BY CallEffect
<1>3. \E y \in {x, EMPTY_FLAG} : \E c : Written(hash', hash, hash.size, s, y, v, c)
  BY <1>2 DEF Replaces, Adds, Removes
<1>4. \E w \in Values \union {Absent} : Changes(x, w)
  BY <1>2 DEF Replaces, Adds, Removes
<1>5. hash' \in Tables(hash.size) /\ hash'.size = hash.size
  BY <1>3, TableFields DEF Written
<1>6. InItsBin(hash')
  BY <1>1, <1>2, <1>3, WrittenBin
<1>7. /\ UNCHANGED <<new_h, pc, i, j, k>> /\ raced' = (raced \/ pc # "idle")
      /\ want' \in [Keys -> Values \union {Absent}]
  BY <1>4 DEF Changes, TypeOK, locals
<1>8. TypeOK'
  BY <1>5, <1>7 DEF TypeOK
<1>9. Layout'
  <2>1. \A y : HASH_IDX(hash', y) = HASH_IDX(hash, y)
    BY <1>5 DEF HASH_IDX
  <2>2. (\A s_1 : Todo(s_1)' <=> Todo(s_1)) /\ (\A b, p : Free(b, p)' <=> Free(b, p))
    BY <1>5, <1>7 DEF Todo, Free
  <2>3. InEitherBin => InEitherBin'
    BY <1>7, <2>1, <2>2 DEF InEitherBin
  <2>4. (UpperFree => UpperFree') /\ (AboveFree => AboveFree')
    BY <1>5, <1>7, <2>2 DEF UpperFree, AboveFree
  <2>5. InItsBin(new_h) => InItsBin(new_h)'
    BY <1>7 DEF InItsBin
  <2>6. InItsBin(hash)'
    BY <1>6
  <2> QED BY <1>7, <2>3, <2>4, <2>5, <2>6 DEF Layout
<1> QED
  BY <1>5, <1>7, <1>8, <1>9 DEF locals

LEMMA CallContent ==
  ASSUME ExpandInv, Call
  PROVE  Content'
<1> DEFINE n == hash.size
<1>1. n \in Nat \ {0} /\ hash \in Tables(n) /\ InItsBin(hash)
  BY DEF ExpandInv, TypeOK, Layout
<1>2. PICK x \in Keys, s \in Slots(n), v \in Values \union {Absent} :
        /\ s[1] = HASH_IDX(hash, x)
        /\ Replaces(s, x, v) \/ Adds(s, x, v) \/ Removes(s, x, v)
  BY CallEffect DEF ExpandInv
<1> SUFFICES ASSUME ~raced'
             PROVE  Holds(hash)' /\ Counted(hash)' /\ pc' = "idle"
  BY DEF Content
<1>3. ~raced /\ pc = "idle" /\ pc' = "idle"
  BY <1>2 DEF Replaces, Adds, Removes, Changes, ExpandInv, TypeOK
<1>4. /\ Unique(hash) /\ OwnValues(hash) /\ Counted(hash)
      /\ \A y \in Keys : want[y] # Absent => Has(hash, y)
  BY <1>3 DEF ExpandInv, Content, Holds
<1>5. hash'.size = n /\ want \in [Keys -> Values \union {Absent}] /\ x # EMPTY_FLAG /\ Absent \notin Values
  BY CallLayout, KeyAssumption DEF ExpandInv, TypeOK
<1>6. \A r \in Slots(n) : hash.key[r] # EMPTY_FLAG => hash.key[r] \in Keys
  BY <1>1, TableFields
<1>7. hash.size = n
  OBVIOUS
<1> HIDE DEF n
<1>8. CASE Replaces(s, x, v)
  <2>1. /\ Written(hash', hash, n, s, x, v, hash.count) /\ hash.key[s] = x /\ v \in Values
        /\ want' = [want EXCEPT ![x] = v]
    BY <1>8 DEF Replaces, Changes, n
  <2>2. \A r \in Slots(n) : hash'.key[r] = hash.key[r]
    BY <2>1 DEF Written
  <2>3. \A r \in Slots(n) : r # s => hash'.val[r] = hash.val[r] /\ hash.key[r] # x
    BY <1>4, <1>5, <1>7, <2>1 DEF Written, Unique
  <2>4. Unique(hash)'
    BY <1>4, <1>5, <1>7, <2>2 DEF Unique
  <2>5. hash'.val[s] = v /\ want'[x] = v /\ \A y \in Keys : y # x => want'[y] = want[y]
    BY <1>5, <2>1 DEF Written
  <2>6. OwnValues(hash)'
    BY <1>4, <1>5, <1>6, <1>7, <2>1, <2>2, <2>3, <2>5 DEF OwnValues
  <2>7. \A y \in Keys : want'[y] # Absent => Has(hash, y)'
    <3>1. \A y : Has(hash, y)' <=> Has(hash, y)
      BY <1>5, <1>7, <2>2 DEF Has
    <3>2. Has(hash, x)
      BY <1>7, <2>1 DEF Has
    <3> QED BY <1>4, <2>5, <3>1, <3>2
  <2>8. Counted(hash)'
    <3>1. Cardinality(Occupied(hash')) = Cardinality(Occupied(hash))
      BY <1>1, <1>5, <2>1, WrittenCount
    <3> QED BY <1>4, <2>1, <3>1 DEF Counted, Written
  <2> QED BY <1>3, <2>4, <2>6, <2>7, <2>8 DEF Holds
<1>9. CASE Adds(s, x, v)
  <2>1. /\ Written(hash', hash, n, s, x, v, hash.count + 1) /\ hash.key[s] = EMPTY_FLAG /\ v \in Values
        /\ want' = [want EXCEPT ![x] = v]
    BY <1>9 DEF Adds, Changes, n
  <2>2. \A r \in Slots(n) : hash.key[r] # x
    <3>1. ~Has(hash, x)
      BY <1>1, <1>9, Nowhere DEF Adds
    <3> QED BY <1>7, <3>1 DEF Has
  <2>3. \A r \in Slots(n) : r # s => hash'.key[r] = hash.key[r] /\ hash'.val[r] = hash.val[r]
    BY <2>1 DEF Written
  <2>4. hash'.key[s] = x /\ hash'.val[s] = v
    BY <2>1 DEF Written
  <2>5. Unique(hash)'
    BY <1>4, <1>5, <1>7, <2>2, <2>3, <2>4 DEF Unique
  <2>6. want'[x] = v /\ \A y \in Keys : y # x => want'[y] = want[y]
    BY <1>5, <2>1
  <2>7. OwnValues(hash)'
    BY <1>4, <1>5, <1>6, <1>7, <2>1, <2>2, <2>3, <2>4, <2>6 DEF OwnValues
  <2>8. \A y \in Keys : want'[y] # Absent => Has(hash, y)'
    <3>1. \A y \in Keys : Has(hash, y) => Has(hash, y)'
      BY <1>5, <1>7, <2>1, <2>3, KeyAssumption DEF Has
    <3>2. Has(hash, x)'
      BY <1>5, <1>7, <2>4 DEF Has
    <3> QED BY <1>4, <2>6, <3>1, <3>2
  <2>9. Counted(hash)'
    <3>1. Cardinality(Occupied(hash')) = Cardinality(Occupied(hash)) + 1
      BY <1>1, <1>5, <2>1, WrittenCount
    <3> QED BY <1>4, <2>1, <3>1 DEF Counted, Written
  <2> QED BY <1>3, <2>5, <2>7, <2>8, <2>9 DEF Holds
<1>10. CASE Removes(s, x, v)
  <2>1. /\ Written(hash', hash, n, s, EMPTY_FLAG, v, hash.count - 1) /\ hash.key[s] = x
        /\ want' = [want EXCEPT ![x] = Absent]
    BY <1>10 DEF Removes, Changes, n
  <2>2. \A r \in Slots(n) : r # s => hash'.key[r] = hash.key[r] /\ hash'.val[r] = hash.val[r] /\ hash.key[r] # x
    BY <1>4, <1>5, <1>7, <2>1 DEF Written, Unique
  <2>3. hash'.key[s] = EMPTY_FLAG
    BY <2>1 DEF Written
  <2>4. Unique(hash)'
    BY <1>4, <1>5, <1>7, <2>2, <2>3 DEF Unique
  <2>5. want'[x] = Absent /\ \A y \in Keys : y # x => want'[y] = want[y]
    BY <1>5, <2>1
  <2>6. OwnValues(hash)'
    BY <1>4, <1>5, <1>6, <1>7, <2>2, <2>3, <2>5 DEF OwnValues
  <2>7. \A y \in Keys : want'[y] # Absent => Has(hash, y)'
    <3>1. \A y \in Keys : y # x /\ Has(hash, y) => Has(hash, y)'
      BY <1>5, <1>7, <2>1, <2>2 DEF Has
    <3> QED BY <1>4, <2>5, <3>1
  <2>8. Counted(hash)'
    <3>1. Cardinality(Occupied(hash')) = Cardinality(Occupied(hash)) - 1
      BY <1>1, <1>5, <2>1, WrittenCount
    <3> QED BY <1>4, <2>1, <3>1 DEF Counted, Written
  <2> QED BY <1>3, <2>4, <2>6, <2>7, <2>8 DEF Holds
<1> QED
  BY <1>2, <1>8, <1>9, <1>10
-----------------------------------------------------------------------------
(* The loops. *)

(* A step of a loop passes the entry it is at, and no other. *)
LEMMA Advance ==
  ASSUME TypeOK, i < hash.size, hash' = hash, NEW m \in 0 .. BIN_CAPACITY, NextEntry(m), m <= j + 1
  PROVE  /\ i' \in 0 .. hash.size /\ j' \in Pos /\ k' \in 0 .. BIN_CAPACITY /\ k' <= j'
         /\ <<i, j>> \in Slots(hash.size) /\ <<i, j>> \in Slots(2 * hash.size)
         /\ \A s \in Slots(2 * hash.size) : Todo(s)' <=> Todo(s) /\ s # <<i, j>>
         /\ \A b, p \in Nat : p \in Pos /\ (b > i' \/ (b = i' /\ p >= k')) => b > i \/ (b = i /\ p >= m)
         /\ \A b, p \in Nat : p \in Pos /\ (b > i' \/ (b = i' /\ p >= j')) => b > i \/ (b = i /\ p >= j + 1)
<1>1. /\ hash.size \in Nat \ {0} /\ i \in 0 .. hash.size - 1 /\ j \in 0 .. BIN_CAPACITY - 1
      /\ BIN_CAPACITY \in Nat \ {0}
  BY BinAssumption DEF TypeOK, Pos
<1>2. CASE j + 1 = BIN_CAPACITY
  <2>1. j' = 0 /\ i' = i + 1 /\ k' = 0
    BY <1>2 DEF NextEntry
  <2>2. ASSUME NEW s \in Slots(2 * hash.size) PROVE Todo(s)' <=> Todo(s) /\ s # <<i, j>>
    <3>1. s = <<s[1], s[2]>> /\ s[1] \in Nat /\ s[2] \in Nat /\ s[2] <= j
      BY <1>1, <1>2 DEF Slots, Pos
    <3> QED BY <1>1, <2>1, <3>1 DEF Todo
  <2> QED BY <1>1, <1>2, <2>1, <2>2 DEF Slots, Pos
<1>3. CASE j + 1 # BIN_CAPACITY
  <2>1. j' = j + 1 /\ i' = i /\ k' = m
    BY <1>3 DEF NextEntry
  <2>2. ASSUME NEW s \in Slots(2 * hash.size) PROVE Todo(s)' <=> Todo(s) /\ s # <<i, j>>
    <3>1. s = <<s[1], s[2]>> /\ s[1] \in Nat /\ s[2] \in Nat
      BY <1>1 DEF Slots, Pos
    <3> QED BY <1>1, <2>1, <3>1 DEF Todo
  <2> QED BY <1>1, <1>3, <2>1, <2>2 DEF Slots, Pos
<1> QED
  BY <1>2, <1>3

(* The bins of a key in the two tables. *)
LEMMA TwoTables ==
  ASSUME TypeOK, pc # "idle", NEW x \in Keys
  PROVE  /\ HASH_IDX(hash, x) \in 0 .. hash.size - 1 /\ HASH_LEVEL(hash, x) \in {0, 1}
         /\ HASH_LEVEL(hash, x) = 0 => HASH_IDX(new_h, x) = HASH_IDX(hash, x)
         /\ HASH_LEVEL(hash, x) = 1 => HASH_IDX(new_h, x) = HASH_IDX(hash, x) + hash.size
<1>1. hash.size \in Nat \ {0} /\ new_h.size = 2 * hash.size
  BY TableFields DEF TypeOK
<1> QED
  BY <1>1, Halves DEF HASH_IDX, HASH_LEVEL

(* The start of an expansion. *)
LEMMA StartInv ==
  ASSUME ExpandInv, NEW how \in {"copy", "reinsert"}, hash_expand(how)
  PROVE  ExpandInv'
<1> DEFINE n == hash.size
<1>1. /\ n \in Nat \ {0} /\ hash \in Tables(n) /\ hash' = hash /\ want' = want /\ raced' = raced
      /\ pc = "idle" /\ pc' = how /\ i' = 0 /\ j' = 0 /\ k' = 0
  BY DEF ExpandInv, TypeOK, hash_expand
<1>2. /\ hash.key \in [Slots(n) -> Keys \union {EMPTY_FLAG}] /\ hash.val \in [Slots(n) -> Values \union {Absent}]
      /\ hash.size = n
  BY <1>1, TableFields
<1>3. 0 \in Pos /\ 0 \in 0 .. BIN_CAPACITY
  BY BinAssumption DEF Pos
<1>4. \A s \in Slots(2 * n) : /\ s[1] < n => s \in Slots(n)
                              /\ s \in Slots(n) <=> s[1] < n
                              /\ Todo(s)' <=> s[1] < n
                              /\ s[1] \in Nat /\ s[2] \in Nat
  BY <1>1, BinAssumption DEF Slots, Todo, Pos
<1>5. Slots(n) \subseteq Slots(2 * n)
  BY <1>1 DEF Slots
<1>6. InItsBin(hash) /\ InItsBin(hash)'
  BY <1>1 DEF ExpandInv, Layout
<1>7. ~raced => Holds(hash) /\ Holds(hash)' /\ Counted(hash) /\ Counted(hash)'
  BY <1>1 DEF ExpandInv, Content, Holds, Unique, OwnValues, Has, Counted, Occupied
<1>8. CASE how = "copy"
  <2>1. /\ new_h' \in Tables(2 * n) /\ new_h'.size = 2 * n
        /\ \A s \in Slots(2 * n) :
             /\ new_h'.key[s] = IF s[1] < n THEN hash.key[s] ELSE EMPTY_FLAG
             /\ new_h'.val[s] = IF s[1] < n THEN hash.val[s] ELSE Absent
    BY <1>1, <1>2, <1>4, <1>8 DEF hash_expand, Doubled, Tables
  <2> HIDE DEF n
  <2>2. InEitherBin'
    <3>1. \A s \in Slots(2 * n) : new_h'.key[s] # EMPTY_FLAG =>
            Todo(s)' /\ s[1] = HASH_IDX(hash', new_h'.key[s])
      BY <1>1, <1>2, <1>4, <1>6, <2>1 DEF InItsBin
    <3> QED BY <2>1, <3>1 DEF InEitherBin
  <2>3. UpperFree'
    <3>1. \A b \in 0 .. n - 1, p \in Pos : <<b + n, p>> \in Slots(2 * n) /\ ~(b + n < n)
      BY <1>1 DEF Slots
    <3>2. \A b \in 0 .. n - 1, p \in Pos : new_h'.key[<<b + n, p>>] = EMPTY_FLAG
      BY <2>1, <3>1
    <3> QED BY <1>1, <1>2, <3>2 DEF UpperFree, Free
  <2>4. ASSUME ~raced PROVE Holds(new_h)' /\ hash'.count = Cardinality(Occupied(new_h'))
    <3>1. \A s \in Slots(2 * n) : new_h'.key[s] # EMPTY_FLAG =>
            s \in Slots(n) /\ new_h'.key[s] = hash.key[s] /\ new_h'.val[s] = hash.val[s]
      BY <1>4, <2>1
    <3>2. \A s \in Slots(n) : s \in Slots(2 * n) /\ new_h'.key[s] = hash.key[s]
      BY <1>4, <1>5, <2>1
    <3>3. Unique(new_h)'
      BY <1>2, <1>7, <2>1, <2>4, <3>1, Zenon DEF Unique, Holds
    <3>4. OwnValues(new_h)'
      BY <1>1, <1>2, <1>7, <2>1, <2>4, <3>1 DEF OwnValues, Holds
    <3>5. \A x \in Keys : Has(hash, x) => Has(new_h, x)'
      BY <1>2, <2>1, <3>2 DEF Has
    <3>6. Occupied(new_h') = Occupied(hash)
      BY <1>2, <2>1, <3>1, <3>2 DEF Occupied
    <3>7. Cardinality(Occupied(new_h')) = hash.count
      BY <1>7, <2>4, <3>6 DEF Counted
    <3>8. \A x \in Keys : want'[x] # Absent => Has(new_h, x)'
      BY <1>1, <1>7, <2>4, <3>5 DEF Holds
    <3> QED BY <1>1, <3>3, <3>4, <3>7, <3>8 DEF Holds
  <2>5. TypeOK'
    BY <1>1, <1>3, <1>8, <2>1 DEF TypeOK, ExpandInv, n
  <2>6. Layout'
    BY <1>1, <1>6, <1>8, <2>2, <2>3 DEF Layout
  <2>7. Content'
    BY <1>1, <1>7, <1>8, <2>4 DEF Content
  <2> QED BY <2>5, <2>6, <2>7 DEF ExpandInv
<1>9. CASE how = "reinsert"
  <2>1. /\ new_h' \in Tables(2 * n) /\ new_h'.size = 2 * n /\ new_h'.count = 0
        /\ \A s \in Slots(2 * n) : new_h'.key[s] = EMPTY_FLAG
    BY <1>1, <1>9 DEF hash_expand, hash_construct, Tables
  <2> HIDE DEF n
  <2>2. InItsBin(new_h)'
    BY <2>1 DEF InItsBin
  <2>3. AboveFree'
    <3>1. \A b \in 0 .. n - 1, p \in Pos : <<b, p>> \in Slots(2 * n) /\ <<b + n, p>> \in Slots(2 * n)
      BY <1>1 DEF Slots
    <3>2. \A b \in 0 .. n - 1, p \in Pos :
            new_h'.key[<<b, p>>] = EMPTY_FLAG /\ new_h'.key[<<b + n, p>>] = EMPTY_FLAG
      BY <2>1, <3>1
    <3> QED BY <1>1, <1>2, <3>2 DEF AboveFree, Free
  <2>4. Passed' /\ Counted(new_h)'
    <3>1. Unique(new_h)' /\ OwnValues(new_h)' /\ \A x \in Keys : ~Has(new_h, x)'
      BY <2>1, KeyAssumption DEF Unique, OwnValues, Has
    <3>2. \A s \in Slots(n) : Todo(s)'
      BY <1>4, <1>5
    <3>3. Occupied(new_h') = {}
      BY <2>1 DEF Occupied
    <3>4. Counted(new_h)'
      BY <2>1, <3>3, FS_EmptySet DEF Counted
    <3> QED BY <1>1, <1>2, <3>1, <3>2, <3>4 DEF Passed
  <2>5. TypeOK'
    BY <1>1, <1>3, <1>9, <2>1 DEF TypeOK, ExpandInv, n
  <2>6. Layout'
    BY <1>1, <1>6, <1>9, <2>2, <2>3 DEF Layout
  <2>7. Content'
    BY <1>1, <1>7, <1>9, <2>4 DEF Content
  <2> QED BY <2>5, <2>6, <2>7 DEF ExpandInv
<1> QED
  BY <1>8, <1>9

(* What does not change at an entry. *)
LEMMA AtEntryFacts ==
  ASSUME ExpandInv, NEW how \in {"copy", "reinsert"}, AtEntry(how)
  PROVE  /\ pc = how /\ pc' = how /\ hash' = hash /\ want' = want /\ raced' = raced
         /\ hash.size \in Nat \ {0} /\ hash \in Tables(hash.size) /\ new_h \in Tables(2 * hash.size)
         /\ new_h.size = 2 * hash.size
         /\ i < hash.size /\ i \in 0 .. hash.size - 1 /\ j \in Pos /\ j \in Nat /\ j + 1 \in 0 .. BIN_CAPACITY
         /\ InItsBin(hash) /\ InItsBin(hash)'
         /\ ~raced => Holds(hash) /\ Holds(hash)' /\ Counted(hash) /\ Counted(hash)'
<1>1. /\ pc = how /\ pc' = how /\ hash' = hash /\ want' = want /\ raced' = raced /\ i < hash.size
  BY DEF AtEntry
<1>2. /\ hash.size \in Nat \ {0} /\ hash \in Tables(hash.size) /\ new_h \in Tables(2 * hash.size)
      /\ i \in 0 .. hash.size - 1 /\ j \in Pos
  BY <1>1 DEF ExpandInv, TypeOK
<1>3. j \in Nat /\ j + 1 \in 0 .. BIN_CAPACITY
  BY <1>2, BinAssumption DEF Pos
<1>4. InItsBin(hash) /\ InItsBin(hash)'
  BY <1>1 DEF ExpandInv, Layout
<1>5. ~raced => Holds(hash) /\ Holds(hash)' /\ Counted(hash) /\ Counted(hash)'
  BY <1>1 DEF ExpandInv, Content, Holds, Unique, OwnValues, Has, Counted, Occupied
<1> QED
  BY <1>1, <1>2, <1>3, <1>4, <1>5, TableFields

LEMMA CopyStayInv ==
  ASSUME ExpandInv, CopyStay
  PROVE  ExpandInv'
<1>1. /\ pc = "copy" /\ pc' = "copy" /\ hash' = hash /\ want' = want /\ raced' = raced
      /\ hash.size \in Nat \ {0} /\ new_h \in Tables(2 * hash.size) /\ new_h.size = 2 * hash.size
      /\ i < hash.size /\ j \in Nat
      /\ InItsBin(hash)' /\ (~raced => Holds(hash)' /\ Counted(hash)')
  BY AtEntryFacts DEF CopyStay
<1>2. new_h' = new_h /\ NextEntry(k) /\ ~Moves(new_h.key[<<i, j>>])
  BY DEF CopyStay
<1>3. TypeOK /\ k \in 0 .. BIN_CAPACITY /\ InEitherBin /\ UpperFree
  BY <1>1 DEF ExpandInv, TypeOK, Layout
<1>4. k <= j + 1
  BY <1>1, <1>3 DEF UpperFree
<1>5. /\ i' \in 0 .. hash.size /\ j' \in Pos /\ k' \in 0 .. BIN_CAPACITY /\ k' <= j'
      /\ <<i, j>> \in Slots(2 * hash.size)
      /\ \A s \in Slots(2 * hash.size) : Todo(s)' <=> Todo(s) /\ s # <<i, j>>
      /\ \A b, p \in Nat : p \in Pos /\ (b > i' \/ (b = i' /\ p >= k')) => b > i \/ (b = i /\ p >= k)
  BY <1>1, <1>2, <1>3, <1>4, Advance
<1>6. TypeOK'
  BY <1>1, <1>2, <1>3, <1>5 DEF TypeOK
<1>7. InEitherBin'
  <2> SUFFICES ASSUME NEW s \in Slots(2 * hash.size), new_h.key[s] # EMPTY_FLAG
               PROVE  \/ s[1] = HASH_IDX(new_h, new_h.key[s])
                      \/ Todo(s)' /\ s[1] = HASH_IDX(hash, new_h.key[s])
    BY <1>1, <1>2 DEF InEitherBin
  <2>1. \/ s[1] = HASH_IDX(new_h, new_h.key[s])
        \/ Todo(s) /\ s[1] = HASH_IDX(hash, new_h.key[s])
    BY <1>1, <1>3 DEF InEitherBin
  <2>2. CASE s = <<i, j>>
    <3> DEFINE x == new_h.key[s]
    <3>1. x \in Keys
      BY <1>1, TableFields
    <3>2. HASH_LEVEL(hash, x) # 1
      BY <1>2, <2>2 DEF Moves
    <3> HIDE DEF x
    <3>3. HASH_IDX(new_h, x) = HASH_IDX(hash, x)
      BY <1>1, <1>3, <3>1, <3>2, TwoTables
    <3> QED BY <2>1, <3>3 DEF x
  <2>3. CASE s # <<i, j>>
    BY <1>5, <2>1, <2>3
  <2> QED BY <2>2, <2>3
<1>8. UpperFree'
  <2>1. Pos \subseteq Nat
    BY BinAssumption DEF Pos
  <2>2. ASSUME NEW b \in 0 .. hash.size - 1, NEW p \in Pos, b > i' \/ (b = i' /\ p >= k')
        PROVE  new_h.key[<<b + hash.size, p>>] = EMPTY_FLAG
    <3>1. b \in Nat /\ p \in Nat
      BY <1>1, <2>1
    <3>2. b > i \/ (b = i /\ p >= k)
      BY <1>5, <2>2, <3>1
    <3> QED BY <1>3, <3>2 DEF UpperFree, Free
  <2> QED BY <1>1, <1>2, <1>5, <2>2 DEF UpperFree, Free
<1>9. Layout'
  BY <1>1, <1>7, <1>8 DEF Layout
<1>10. Content'
  <2>1. ~raced => Holds(new_h)' /\ hash'.count = Cardinality(Occupied(new_h'))
    <3>1. ~raced => Holds(new_h) /\ hash.count = Cardinality(Occupied(new_h))
      BY <1>1 DEF ExpandInv, Content
    <3> QED BY <1>1, <1>2, <3>1 DEF Holds, Unique, OwnValues, Has
  <2> QED BY <1>1, <2>1 DEF Content
<1> QED
  BY <1>6, <1>9, <1>10 DEF ExpandInv

(* An entry moves to the upper half: its key is nowhere in between.        *)
LEMMA CopyMoveFacts ==
  ASSUME ExpandInv, CopyMove
  PROVE  LET from == <<i, j>>
             to   == <<i + hash.size, k>>
             x    == new_h.key[from]
         IN /\ x \in Keys /\ from \in Slots(2 * hash.size) /\ to \in Slots(2 * hash.size) /\ from # to
            /\ to[1] = HASH_IDX(new_h, x) /\ new_h.key[to] = EMPTY_FLAG /\ k \in Pos /\ k <= j
            /\ new_h' \in Tables(2 * hash.size)
            /\ Cardinality(Occupied(new_h')) = Cardinality(Occupied(new_h))
            /\ \A s \in Slots(2 * hash.size) :
                 /\ new_h'.key[s] = IF s = from THEN EMPTY_FLAG ELSE IF s = to THEN x ELSE new_h.key[s]
                 /\ new_h'.val[s] = IF s = to THEN new_h.val[from] ELSE new_h.val[s]
<1> DEFINE n    == hash.size
           from == <<i, j>>
           to   == <<i + n, k>>
           x    == new_h.key[from]
           v    == new_h.val[from]
           g    == Put(new_h, to, x, v, 0)
<1>1. /\ pc = "copy" /\ n \in Nat \ {0} /\ new_h \in Tables(2 * n) /\ new_h.size = 2 * n
      /\ i \in 0 .. n - 1 /\ j \in Pos /\ j \in Nat /\ j + 1 \in 0 .. BIN_CAPACITY
  BY AtEntryFacts DEF CopyMove
<1>2. TypeOK /\ InEitherBin /\ UpperFree /\ k \in Nat
  BY <1>1 DEF ExpandInv, TypeOK, Layout
<1>3. k <= j /\ k \in Pos
  <2>1. k <= j
    BY <1>2 DEF UpperFree
  <2>2. j \in 0 .. BIN_CAPACITY - 1 /\ BIN_CAPACITY \in Nat
    BY <1>1, BinAssumption DEF Pos
  <2> QED BY <1>2, <2>1, <2>2 DEF Pos
<1>4. from \in Slots(2 * n) /\ to \in Slots(2 * n) /\ from # to
  BY <1>1, <1>3 DEF Slots
<1>5. x # EMPTY_FLAG /\ HASH_LEVEL(hash, x) = 1 /\ new_h' = Put(g, from, EMPTY_FLAG, v, 0)
  BY DEF CopyMove, Moves
<1>6. x \in Keys /\ v \in Values \union {Absent}
  BY <1>1, <1>4, <1>5, TableFields
<1>7. to[1] = HASH_IDX(new_h, x)
  <2>1. HASH_IDX(new_h, x) = HASH_IDX(hash, x) + n /\ HASH_IDX(hash, x) \in Nat
    BY <1>1, <1>2, <1>5, <1>6, TwoTables
  <2>2. i = HASH_IDX(new_h, x) \/ i = HASH_IDX(hash, x)
    BY <1>1, <1>2, <1>4, <1>5 DEF InEitherBin
  <2> QED BY <1>1, <2>1, <2>2
<1>8. new_h.key[to] = EMPTY_FLAG
  BY <1>1, <1>2, <1>3 DEF UpperFree, Free
<1> HIDE DEF n, from, to, x, v
<1>9. Written(g, new_h, 2 * n, to, x, v, new_h.count + 0)
  BY <1>1, <1>4, <1>6, PutWritten DEF g
<1> HIDE DEF g
<1>10. g \in Tables(2 * n) /\ Written(new_h', g, 2 * n, from, EMPTY_FLAG, v, g.count + 0)
  <2>1. g \in Tables(2 * n)
    BY <1>9, Zenon DEF Written
  <2>2. Written(Put(g, from, EMPTY_FLAG, v, 0), g, 2 * n, from, EMPTY_FLAG, v, g.count + 0)
    BY <1>4, <1>6, <2>1, PutWritten
  <2> QED BY <1>5, <2>1, <2>2, Zenon
<1>11. g.key[from] = x
  BY <1>4, <1>9 DEF Written, x
<1>12. Cardinality(Occupied(new_h')) = Cardinality(Occupied(new_h))
  <2>1. Cardinality(Occupied(new_h)) \in Nat /\ Cardinality(Occupied(g)) = Cardinality(Occupied(new_h)) + 1
    BY <1>1, <1>4, <1>5, <1>8, <1>9, WrittenCount
  <2>2. Cardinality(Occupied(new_h')) = Cardinality(Occupied(g)) - 1
    BY <1>1, <1>4, <1>5, <1>10, <1>11, WrittenCount
  <2> QED BY <2>1, <2>2
<1>13. ASSUME NEW s \in Slots(2 * n)
       PROVE  /\ new_h'.key[s] = IF s = from THEN EMPTY_FLAG ELSE IF s = to THEN x ELSE new_h.key[s]
              /\ new_h'.val[s] = IF s = to THEN new_h.val[from] ELSE new_h.val[s]
  BY <1>4, <1>9, <1>10, <1>13 DEF Written, v
<1>14. new_h' \in Tables(2 * n)
  BY <1>10 DEF Written
<1> QED
  BY <1>3, <1>4, <1>6, <1>7, <1>8, <1>12, <1>13, <1>14 DEF n, from, to, x

LEMMA CopyMoveInv ==
  ASSUME ExpandInv, CopyMove
  PROVE  ExpandInv'
<1> DEFINE n    == hash.size
           from == <<i, j>>
           to   == <<i + n, k>>
           x    == new_h.key[from]
<1>1. /\ pc = "copy" /\ pc' = "copy" /\ hash' = hash /\ want' = want /\ raced' = raced
      /\ n \in Nat \ {0} /\ new_h \in Tables(2 * n) /\ new_h.size = 2 * n
      /\ i < n /\ i \in 0 .. n - 1 /\ j \in Nat /\ j + 1 \in 0 .. BIN_CAPACITY
      /\ InItsBin(hash)' /\ (~raced => Holds(hash)' /\ Counted(hash)')
  BY AtEntryFacts DEF CopyMove
<1>2. /\ x \in Keys /\ from \in Slots(2 * n) /\ to \in Slots(2 * n) /\ from # to
      /\ to[1] = HASH_IDX(new_h, x) /\ new_h.key[to] = EMPTY_FLAG /\ k \in Pos /\ k <= j
      /\ new_h' \in Tables(2 * n)
      /\ Cardinality(Occupied(new_h')) = Cardinality(Occupied(new_h))
      /\ \A s \in Slots(2 * n) :
           /\ new_h'.key[s] = IF s = from THEN EMPTY_FLAG ELSE IF s = to THEN x ELSE new_h.key[s]
           /\ new_h'.val[s] = IF s = to THEN new_h.val[from] ELSE new_h.val[s]
  BY CopyMoveFacts
<1>3. TypeOK /\ InEitherBin /\ UpperFree /\ NextEntry(k + 1)
  BY <1>1 DEF ExpandInv, Layout, CopyMove
<1>4. k \in Nat /\ k + 1 \in 0 .. BIN_CAPACITY /\ k + 1 <= j + 1
  BY <1>1, <1>2, BinAssumption DEF Pos
<1>5. /\ i' \in 0 .. n /\ j' \in Pos /\ k' \in 0 .. BIN_CAPACITY /\ k' <= j'
      /\ \A s \in Slots(2 * n) : Todo(s)' <=> Todo(s) /\ s # from
      /\ \A b, p \in Nat : p \in Pos /\ (b > i' \/ (b = i' /\ p >= k')) => b > i \/ (b = i /\ p >= k + 1)
  BY <1>1, <1>3, <1>4, Advance
<1>6. new_h'.size = 2 * n /\ \A y : HASH_IDX(new_h', y) = HASH_IDX(new_h, y)
  BY <1>1, <1>2, TableFields DEF HASH_IDX
<1>7. TypeOK'
  BY <1>1, <1>2, <1>3, <1>5 DEF TypeOK
<1>8. UpperFree'
  <2>1. Pos \subseteq Nat
    BY BinAssumption DEF Pos
  <2>2. ASSUME NEW b \in 0 .. n - 1, NEW p \in Pos, b > i' \/ (b = i' /\ p >= k')
        PROVE  new_h'.key[<<b + n, p>>] = EMPTY_FLAG
    <3>1. b \in Nat /\ p \in Nat
      BY <1>1, <2>1
    <3>2. b > i \/ (b = i /\ p >= k + 1)
      BY <1>5, <2>2, <3>1
    <3>3. b > i \/ (b = i /\ p >= k)
      BY <1>4, <3>1, <3>2
    <3>4. new_h.key[<<b + n, p>>] = EMPTY_FLAG
      BY <1>3, <3>3 DEF UpperFree, Free
    <3>5. <<b + n, p>> \in Slots(2 * n) /\ <<b + n, p>> # to
      BY <1>1, <1>4, <3>1, <3>2 DEF Slots
    <3> QED BY <1>2, <3>4, <3>5
  <2> QED BY <1>1, <1>5, <2>2 DEF UpperFree, Free
<1>9. \A s \in Slots(2 * n) : new_h.key[s] # EMPTY_FLAG =>
        s[1] = HASH_IDX(new_h, new_h.key[s]) \/ (Todo(s) /\ s[1] = HASH_IDX(hash, new_h.key[s]))
  BY <1>1, <1>3 DEF InEitherBin
<1>10. ~raced => Unique(new_h) /\ OwnValues(new_h) /\ hash.count = Cardinality(Occupied(new_h))
                 /\ \A y \in Keys : want[y] # Absent => Has(new_h, y)
  BY <1>1 DEF ExpandInv, Content, Holds
<1>11. new_h.key[from] = x /\ x # EMPTY_FLAG
  BY <1>2, KeyAssumption
<1> HIDE DEF n, from, to, x
<1>12. InEitherBin'
  <2>1. ASSUME NEW s \in Slots(2 * n), new_h'.key[s] # EMPTY_FLAG
        PROVE  \/ s[1] = HASH_IDX(new_h, new_h'.key[s])
               \/ Todo(s)' /\ s[1] = HASH_IDX(hash, new_h'.key[s])
    BY <1>2, <1>5, <1>9, <2>1
  <2> QED BY <1>1, <1>6, <2>1 DEF InEitherBin
<1>13. Layout'
  BY <1>1, <1>8, <1>12 DEF Layout
<1>14. ASSUME ~raced PROVE Holds(new_h)' /\ hash'.count = Cardinality(Occupied(new_h'))
  <2>1. \A s, r \in Slots(2 * n) : new_h.key[s] = new_h.key[r] /\ new_h.key[s] # EMPTY_FLAG => s = r
    BY <1>1, <1>10, <1>14 DEF Unique
  <2>2. ASSUME NEW s \in Slots(2 * n), NEW r \in Slots(2 * n), new_h'.key[s] = new_h'.key[r],
               new_h'.key[s] # EMPTY_FLAG
        PROVE  s = r
    BY <1>2, <1>11, <2>1, <2>2
  <2>3. ASSUME NEW s \in Slots(2 * n), new_h'.key[s] # EMPTY_FLAG
        PROVE  want[new_h'.key[s]] # Absent /\ new_h'.val[s] = want[new_h'.key[s]]
    <3>1. \A r \in Slots(2 * n) : new_h.key[r] # EMPTY_FLAG =>
            want[new_h.key[r]] # Absent /\ new_h.val[r] = want[new_h.key[r]]
      BY <1>1, <1>10, <1>14 DEF OwnValues
    <3> QED BY <1>2, <1>11, <2>3, <3>1
  <2>4. ASSUME NEW y \in Keys, want[y] # Absent PROVE \E s \in Slots(2 * n) : new_h'.key[s] = y
    <3>1. PICK r \in Slots(2 * n) : new_h.key[r] = y
      BY <1>1, <1>10, <1>14, <2>4 DEF Has
    <3>2. CASE r = from
      BY <1>2, <1>11, <3>1, <3>2
    <3>3. CASE r # from
      <4>1. r # to
        BY <1>2, <3>1, KeyAssumption
      <4> QED BY <1>2, <3>1, <3>3, <4>1
    <3> QED BY <3>2, <3>3
  <2>5. Unique(new_h)' /\ OwnValues(new_h)'
    BY <1>1, <1>6, <2>2, <2>3 DEF Unique, OwnValues
  <2>6. \A y \in Keys : want'[y] # Absent => Has(new_h, y)'
    BY <1>1, <1>6, <2>4 DEF Has
  <2> QED BY <1>1, <1>2, <1>10, <1>14, <2>5, <2>6 DEF Holds
<1>15. Content'
  BY <1>1, <1>14 DEF Content
<1> QED
  BY <1>7, <1>13, <1>15 DEF ExpandInv

(* After the last bin nothing is left to do. *)
LEMMA CopyCountInv ==
  ASSUME ExpandInv, CopyCount
  PROVE  ExpandInv'
<1>1. /\ pc = "copy" /\ pc' = "publish" /\ hash' = hash /\ want' = want /\ raced' = raced
      /\ UNCHANGED <<i, j, k>> /\ i = hash.size
  BY DEF CopyCount, locals
<1>2. TypeOK /\ hash.size \in Nat \ {0} /\ hash \in Tables(hash.size) /\ new_h \in Tables(2 * hash.size)
  BY <1>1 DEF ExpandInv, TypeOK
<1>3. /\ new_h.size = 2 * hash.size /\ hash.count \in Int
      /\ new_h.key \in [Slots(2 * hash.size) -> Keys \union {EMPTY_FLAG}]
      /\ new_h.val \in [Slots(2 * hash.size) -> Values \union {Absent}]
  BY <1>2, TableFields
<1>4. /\ new_h' \in Tables(2 * hash.size) /\ new_h'.size = new_h.size /\ new_h'.key = new_h.key
      /\ new_h'.val = new_h.val /\ new_h'.count = hash.count
  BY <1>3 DEF CopyCount, Tables
<1>5. TypeOK'
  BY <1>1, <1>2, <1>4 DEF TypeOK
<1>6. Layout'
  <2>1. \A s \in Slots(2 * hash.size) : ~Todo(s)
    BY <1>1, <1>2 DEF Todo
  <2>2. InItsBin(new_h)'
    BY <1>1, <1>3, <1>4, <2>1 DEF ExpandInv, Layout, InEitherBin, InItsBin, HASH_IDX
  <2>3. InItsBin(hash)'
    BY <1>1 DEF ExpandInv, Layout
  <2> QED BY <1>1, <2>2, <2>3 DEF Layout
<1>7. Content'
  <2>1. ~raced => /\ Holds(hash) /\ Counted(hash) /\ Holds(new_h)
                  /\ hash.count = Cardinality(Occupied(new_h))
    BY <1>1 DEF ExpandInv, Content
  <2>2. (Holds(hash) => Holds(hash)') /\ (Counted(hash) => Counted(hash)')
    BY <1>1 DEF Holds, Unique, OwnValues, Has, Counted, Occupied
  <2>3. Holds(new_h) => Holds(new_h)'
    BY <1>1, <1>4 DEF Holds, Unique, OwnValues, Has
  <2>4. Occupied(new_h') = Occupied(new_h)
    BY <1>4 DEF Occupied
  <2> QED BY <1>1, <1>4, <2>1, <2>2, <2>3, <2>4 DEF Content, Counted
<1> QED
  BY <1>5, <1>6, <1>7 DEF ExpandInv

LEMMA ReinsertSkipInv ==
  ASSUME ExpandInv, ReinsertSkip
  PROVE  ExpandInv'
<1>1. /\ pc = "reinsert" /\ pc' = "reinsert" /\ hash' = hash /\ want' = want /\ raced' = raced
      /\ hash.size \in Nat \ {0} /\ new_h \in Tables(2 * hash.size) /\ new_h.size = 2 * hash.size
      /\ i < hash.size /\ j \in Nat
      /\ InItsBin(hash)' /\ (~raced => Holds(hash)' /\ Counted(hash)')
  BY AtEntryFacts DEF ReinsertSkip
<1>2. new_h' = new_h /\ NextEntry(0) /\ hash.key[<<i, j>>] = EMPTY_FLAG
  BY DEF ReinsertSkip
<1>3. TypeOK /\ InItsBin(new_h) /\ AboveFree
  BY <1>1 DEF ExpandInv, Layout
<1>4. 0 \in 0 .. BIN_CAPACITY /\ 0 <= j + 1 /\ Pos \subseteq Nat
  BY <1>1, BinAssumption DEF Pos
<1>5. /\ i' \in 0 .. hash.size /\ j' \in Pos /\ k' \in 0 .. BIN_CAPACITY
      /\ \A s \in Slots(2 * hash.size) : Todo(s)' <=> Todo(s) /\ s # <<i, j>>
      /\ \A b, p \in Nat : p \in Pos /\ (b > i' \/ (b = i' /\ p >= j')) => b > i \/ (b = i /\ p >= j + 1)
  BY <1>1, <1>2, <1>3, <1>4, Advance
<1>6. TypeOK'
  BY <1>1, <1>2, <1>3, <1>5 DEF TypeOK
<1>7. AboveFree'
  <2>1. ASSUME NEW b \in 0 .. hash.size - 1, NEW p \in Pos, b > i' \/ (b = i' /\ p >= j')
        PROVE  new_h.key[<<b, p>>] = EMPTY_FLAG /\ new_h.key[<<b + hash.size, p>>] = EMPTY_FLAG
    <3>1. b \in Nat /\ p \in Nat
      BY <1>1, <1>4
    <3>2. b > i \/ (b = i /\ p >= j + 1)
      BY <1>5, <2>1, <3>1
    <3>3. b > i \/ (b = i /\ p >= j)
      BY <1>1, <3>1, <3>2
    <3> QED BY <1>3, <3>3 DEF AboveFree, Free
  <2> QED BY <1>1, <1>2, <2>1 DEF AboveFree, Free
<1>8. InItsBin(new_h)'
  BY <1>2, <1>3 DEF InItsBin
<1>9. Layout'
  BY <1>1, <1>7, <1>8 DEF Layout
<1>10. Content'
  <2>1. ASSUME ~raced PROVE Passed' /\ Counted(new_h)'
    <3>1. Passed /\ Counted(new_h)
      BY <1>1, <2>1 DEF ExpandInv, Content
    <3>2. Unique(new_h)' /\ OwnValues(new_h)' /\ Counted(new_h)' /\ \A x : Has(new_h, x)' <=> Has(new_h, x)
      BY <1>1, <1>2, <3>1 DEF Passed, Unique, OwnValues, Has, Counted, Occupied
    <3>3. Slots(hash.size) \subseteq Slots(2 * hash.size)
      BY <1>1 DEF Slots
    <3>4. \A x \in Keys : (\E r \in Slots(hash.size) : ~Todo(r)' /\ hash.key[r] = x)
                            <=> (\E r \in Slots(hash.size) : ~Todo(r) /\ hash.key[r] = x)
      BY <1>2, <1>5, <3>3, KeyAssumption
    <3> QED BY <1>1, <3>1, <3>2, <3>4 DEF Passed
  <2> QED BY <1>1, <2>1 DEF Content
<1> QED
  BY <1>6, <1>9, <1>10 DEF ExpandInv

(* The key of an entry has a place in the bin of the new table that it     *)
(* belongs to, and the first of them is not above the entry's own place.   *)
LEMMA ReinsertRoom ==
  ASSUME TypeOK, Layout, pc = "reinsert", i < hash.size, hash.key[<<i, j>>] # EMPTY_FLAG
  PROVE  LET x == hash.key[<<i, j>>]
             e == Slot(new_h, x, EMPTY_FLAG)
         IN /\ x \in Keys /\ <<i, j>> \in Slots(hash.size) /\ Places(new_h, x, EMPTY_FLAG) # {}
            /\ e \in Slots(2 * hash.size) /\ e[1] = HASH_IDX(new_h, x) /\ new_h.key[e] = EMPTY_FLAG
            /\ e[1] \in {i, i + hash.size} /\ e[2] \in Nat /\ e[2] <= j
<1> DEFINE x == hash.key[<<i, j>>]
           e == Slot(new_h, x, EMPTY_FLAG)
<1>1. /\ hash.size \in Nat \ {0} /\ hash \in Tables(hash.size) /\ new_h \in Tables(2 * hash.size)
      /\ i \in 0 .. hash.size - 1 /\ j \in Pos /\ j \in Nat /\ 2 * hash.size \in Nat \ {0}
  BY BinAssumption DEF TypeOK, Pos
<1>2. <<i, j>> \in Slots(hash.size)
  BY <1>1 DEF Slots
<1>3. x \in Keys
  BY <1>1, <1>2, TableFields
<1>4. i = HASH_IDX(hash, x)
  BY <1>2 DEF Layout, InItsBin
<1>5. HASH_IDX(new_h, x) \in {i, i + hash.size}
  BY <1>3, <1>4, TwoTables
<1>6. new_h.key[<<HASH_IDX(new_h, x), j>>] = EMPTY_FLAG
  <2>1. Free(i, j) /\ Free(i + hash.size, j)
    BY <1>1 DEF Layout, AboveFree
  <2> QED BY <1>5, <2>1 DEF Free
<1>7. Places(new_h, x, EMPTY_FLAG) # {}
  BY <1>1, <1>6 DEF Places
<1> HIDE DEF x
<1>8. /\ e \in Slots(2 * hash.size) /\ e[1] = HASH_IDX(new_h, x) /\ new_h.key[e] = EMPTY_FLAG
      /\ e[2] <= j
  BY <1>1, <1>3, <1>6, <1>7, Target
<1>9. e[2] \in Nat
  <2> HIDE DEF e
  <2> QED BY <1>8, BinAssumption DEF Slots, Pos
<1> QED
  BY <1>2, <1>3, <1>5, <1>7, <1>8, <1>9 DEF x

LEMMA ReinsertInv ==
  ASSUME ExpandInv, Reinsert
  PROVE  ExpandInv'
<1> DEFINE n  == hash.size
           at == <<i, j>>
           x  == hash.key[at]
           v  == hash.val[at]
           e  == Slot(new_h, x, EMPTY_FLAG)
<1>1. /\ pc = "reinsert" /\ pc' = "reinsert" /\ hash' = hash /\ want' = want /\ raced' = raced
      /\ n \in Nat \ {0} /\ hash \in Tables(n) /\ new_h \in Tables(2 * n) /\ new_h.size = 2 * n
      /\ i < n /\ i \in 0 .. n - 1 /\ j \in Nat
      /\ InItsBin(hash)' /\ (~raced => Holds(hash) /\ Holds(hash)' /\ Counted(hash)')
  BY AtEntryFacts DEF Reinsert
<1>2. /\ TypeOK /\ Layout /\ InItsBin(new_h) /\ AboveFree /\ NextEntry(0) /\ x # EMPTY_FLAG
      /\ new_h' = hash_insert_nocheck_nosafe(new_h, x, v)
  BY <1>1 DEF ExpandInv, Layout, Reinsert
<1>3. /\ x \in Keys /\ at \in Slots(n) /\ Places(new_h, x, EMPTY_FLAG) # {}
      /\ e \in Slots(2 * n) /\ e[1] = HASH_IDX(new_h, x) /\ new_h.key[e] = EMPTY_FLAG
      /\ e[1] \in {i, i + n} /\ e[2] \in Nat /\ e[2] <= j
  BY <1>1, <1>2, ReinsertRoom
<1>4. new_h' = Put(new_h, e, x, v, 1) /\ v \in Values \union {Absent}
  BY <1>1, <1>2, <1>3, TableFields DEF hash_insert_nocheck_nosafe
<1>5. 0 \in 0 .. BIN_CAPACITY /\ 0 <= j + 1 /\ Pos \subseteq Nat
  BY <1>1, BinAssumption DEF Pos
<1>6. /\ i' \in 0 .. n /\ j' \in Pos /\ k' \in 0 .. BIN_CAPACITY
      /\ \A s \in Slots(2 * n) : Todo(s)' <=> Todo(s) /\ s # at
      /\ \A b, p \in Nat : p \in Pos /\ (b > i' \/ (b = i' /\ p >= j')) => b > i \/ (b = i /\ p >= j + 1)
  BY <1>1, <1>2, <1>5, Advance
<1>7. Todo(at)
  BY <1>1 DEF Todo
<1> HIDE DEF e, x, v
<1>8. Written(new_h', new_h, 2 * n, e, x, v, new_h.count + 1)
  BY <1>1, <1>3, <1>4, PutWritten
<1>9. new_h' \in Tables(2 * n) /\ new_h'.size = 2 * n
  BY <1>8, TableFields DEF Written
<1>10. TypeOK'
  BY <1>1, <1>2, <1>6, <1>9 DEF TypeOK
<1>11. InItsBin(new_h)'
  BY <1>1, <1>2, <1>3, <1>8, WrittenBin
<1>12. AboveFree'
  <2>1. ASSUME NEW b \in 0 .. n - 1, NEW p \in Pos, b > i' \/ (b = i' /\ p >= j')
        PROVE  new_h'.key[<<b, p>>] = EMPTY_FLAG /\ new_h'.key[<<b + n, p>>] = EMPTY_FLAG
    <3>1. b \in Nat /\ p \in Nat
      BY <1>1, <1>5
    <3>2. b > i \/ (b = i /\ p >= j + 1)
      BY <1>6, <2>1, <3>1
    <3>3. b > i \/ (b = i /\ p >= j)
      BY <1>1, <3>1, <3>2
    <3>4. new_h.key[<<b, p>>] = EMPTY_FLAG /\ new_h.key[<<b + n, p>>] = EMPTY_FLAG
      BY <1>2, <3>3 DEF AboveFree, Free
    <3>5. <<b, p>> \in Slots(2 * n) /\ <<b + n, p>> \in Slots(2 * n)
      BY <1>1 DEF Slots
    <3>6. ~(b = e[1] /\ p = e[2]) /\ ~(b + n = e[1] /\ p = e[2])
      BY <1>1, <1>3, <3>1, <3>2
    <3>7. <<b, p>> # e /\ <<b + n, p>> # e
      BY <3>6
    <3> QED BY <1>8, <3>4, <3>5, <3>7 DEF Written
  <2> QED BY <1>1, <2>1 DEF AboveFree, Free
<1>13. Layout'
  BY <1>1, <1>11, <1>12 DEF Layout
<1>14. x = hash.key[at] /\ v = hash.val[at] /\ hash.size = n
  BY DEF x, v
<1> HIDE DEF n, at
<1>15. ASSUME ~raced PROVE Passed' /\ Counted(new_h)'
  <2>1. /\ Passed /\ Counted(new_h) /\ Unique(hash) /\ OwnValues(hash)
    BY <1>1, <1>15 DEF ExpandInv, Content, Holds
  <2>2. ~Has(new_h, x)
    <3>1. ASSUME NEW r \in Slots(n), hash.key[r] = x PROVE Todo(r)
      <4>1. r = at
        BY <1>2, <1>3, <1>14, <2>1, <3>1 DEF Unique
      <4> QED BY <1>7, <4>1
    <3> QED BY <1>3, <1>14, <2>1, <3>1 DEF Passed
  <2>3. \A s \in Slots(2 * n) : new_h.key[s] # x
    BY <1>1, <2>2 DEF Has
  <2>4. \A s \in Slots(2 * n) : /\ new_h'.key[s] = IF s = e THEN x ELSE new_h.key[s]
                                /\ new_h'.val[s] = IF s = e THEN v ELSE new_h.val[s]
    BY <1>8 DEF Written
  <2>5. Unique(new_h)'
    <3>1. \A s, r \in Slots(2 * n) : new_h.key[s] = new_h.key[r] /\ new_h.key[s] # EMPTY_FLAG => s = r
      BY <1>1, <2>1 DEF Passed, Unique
    <3>2. ASSUME NEW s \in Slots(2 * n), NEW r \in Slots(2 * n), new_h'.key[s] = new_h'.key[r],
                 new_h'.key[s] # EMPTY_FLAG
          PROVE  s = r
      BY <2>3, <2>4, <3>1, <3>2
    <3> QED BY <1>9, <3>2 DEF Unique
  <2>6. OwnValues(new_h)'
    <3>1. want[x] # Absent /\ v = want[x]
      BY <1>2, <1>3, <1>14, <2>1 DEF OwnValues
    <3>2. \A s \in Slots(2 * n) : new_h.key[s] # EMPTY_FLAG =>
            want[new_h.key[s]] # Absent /\ new_h.val[s] = want[new_h.key[s]]
      BY <1>1, <2>1 DEF Passed, OwnValues
    <3>3. ASSUME NEW s \in Slots(2 * n), new_h'.key[s] # EMPTY_FLAG
          PROVE  want[new_h'.key[s]] # Absent /\ new_h'.val[s] = want[new_h'.key[s]]
      BY <2>4, <3>1, <3>2, <3>3
    <3> QED BY <1>1, <1>9, <3>3 DEF OwnValues
  <2>7. \A y \in Keys : Has(new_h, y)' <=> Has(new_h, y) \/ y = x
    <3>1. ASSUME NEW y \in Keys PROVE (\E s \in Slots(2 * n) : new_h'.key[s] = y)
                                       <=> (\E s \in Slots(2 * n) : new_h.key[s] = y) \/ y = x
      BY <1>3, <2>4, KeyAssumption
    <3> QED BY <1>1, <1>9, <3>1 DEF Has
  <2>8. ASSUME NEW y \in Keys
        PROVE  (\E r \in Slots(n) : ~Todo(r)' /\ hash.key[r] = y)
                 <=> (\E r \in Slots(n) : ~Todo(r) /\ hash.key[r] = y) \/ y = x
    <3>1. Slots(n) \subseteq Slots(2 * n)
      BY <1>1 DEF Slots
    <3>2. \A r \in Slots(n) : ~Todo(r)' <=> ~Todo(r) \/ r = at
      BY <1>6, <3>1
    <3> QED BY <1>3, <1>14, <3>2
  <2>9. Passed'
    <3>1. \A y \in Keys : Has(new_h, y) <=> \E r \in Slots(n) : ~Todo(r) /\ hash.key[r] = y
      BY <1>14, <2>1 DEF Passed
    <3>2. \A y \in Keys : Has(new_h, y)' <=> \E r \in Slots(n) : ~Todo(r)' /\ hash.key[r] = y
      BY <2>7, <2>8, <3>1, Zenon
    <3> QED BY <1>1, <1>14, <2>5, <2>6, <3>2 DEF Passed
  <2>10. Counted(new_h)'
    <3>1. Cardinality(Occupied(new_h')) = Cardinality(Occupied(new_h)) + 1
      BY <1>1, <1>2, <1>3, <1>8, WrittenCount
    <3> QED BY <1>8, <2>1, <3>1 DEF Counted, Written
  <2> QED BY <2>9, <2>10
<1>16. Content'
  BY <1>1, <1>15 DEF Content
<1> QED
  BY <1>10, <1>13, <1>16 DEF ExpandInv

LEMMA PublishInv ==
  ASSUME ExpandInv, Publish
  PROVE  ExpandInv'
<1> DEFINE n == hash.size
<1>1. /\ hash' = new_h /\ new_h' = NULL /\ pc' = "idle" /\ want' = want /\ raced' = raced
      /\ UNCHANGED <<i, j, k>> /\ (pc = "publish" \/ (pc = "reinsert" /\ i = n))
  BY DEF Publish, locals
<1>2. TypeOK /\ n \in Nat \ {0} /\ new_h \in Tables(2 * n) /\ i \in 0 .. n
  BY <1>1 DEF ExpandInv, TypeOK
<1>3. new_h.size = 2 * n /\ 2 * n \in Nat \ {0} /\ i \in 0 .. 2 * n
  BY <1>2, TableFields
<1>4. TypeOK'
  BY <1>1, <1>2, <1>3 DEF TypeOK
<1>5. InItsBin(new_h)
  BY <1>1 DEF ExpandInv, Layout
<1>6. Layout'
  BY <1>1, <1>5 DEF Layout
<1>7. ASSUME ~raced PROVE Holds(new_h) /\ Counted(new_h)
  <2>1. CASE pc = "publish"
    BY <1>7, <2>1 DEF ExpandInv, Content
  <2>2. CASE pc = "reinsert" /\ i = n
    <3>1. Passed /\ Counted(new_h) /\ Holds(hash)
      BY <1>7, <2>2 DEF ExpandInv, Content
    <3>2. \A r \in Slots(n) : ~Todo(r)
      BY <1>2, <2>2 DEF Todo
    <3>3. \A x \in Keys : Has(hash, x) => Has(new_h, x)
      BY <3>1, <3>2 DEF Passed, Has
    <3> QED BY <3>1, <3>3 DEF Passed, Holds
  <2> QED BY <1>1, <2>1, <2>2
<1>8. Content'
  <2>1. ~raced => Holds(hash)' /\ Counted(hash)'
    BY <1>1, <1>7 DEF Holds, Unique, OwnValues, Has, Counted
  <2> QED BY <1>1, <2>1 DEF Content
<1> QED
  BY <1>4, <1>6, <1>8 DEF ExpandInv

LEMMA InitInv ==
  ASSUME Init
  PROVE  ExpandInv
<1>1. /\ hash = hash_construct(InitSize) /\ new_h = NULL /\ pc = "idle" /\ i = 0 /\ j = 0 /\ k = 0
      /\ want = [x \in Keys |-> Absent] /\ raced = FALSE
  BY DEF Init
<1>2. /\ InitSize \in Nat \ {0} /\ hash \in Tables(InitSize) /\ hash.size = InitSize /\ hash.count = 0
      /\ \A s \in Slots(InitSize) : hash.key[s] = EMPTY_FLAG
  BY <1>1, PowerAssumption DEF hash_construct, Tables
<1>3. TypeOK
  <2>1. 0 \in 0 .. InitSize /\ 0 \in Pos /\ 0 \in 0 .. BIN_CAPACITY
    BY <1>2, BinAssumption DEF Pos
  <2>2. want \in [Keys -> Values \union {Absent}]
    BY <1>1
  <2>3. hash.size \in Nat \ {0} /\ hash \in Tables(hash.size) /\ i \in 0 .. hash.size
    BY <1>1, <1>2, <2>1
  <2>4. j \in Pos /\ k \in 0 .. BIN_CAPACITY
    BY <1>1, <2>1
  <2> QED BY <1>1, <2>2, <2>3, <2>4 DEF TypeOK
<1>4. Layout
  BY <1>1, <1>2 DEF Layout, InItsBin
<1>5. Content
  <2>1. Unique(hash) /\ OwnValues(hash)
    BY <1>2 DEF Unique, OwnValues
  <2>2. \A x \in Keys : want[x] = Absent
    BY <1>1
  <2>3. Occupied(hash) = {}
    BY <1>2 DEF Occupied
  <2>4. Counted(hash)
    BY <1>2, <2>3, FS_EmptySet DEF Counted
  <2> QED BY <1>1, <2>1, <2>2, <2>4 DEF Content, Holds
<1> QED
  BY <1>3, <1>4, <1>5 DEF ExpandInv

LEMMA StutterInv ==
  ASSUME ExpandInv, UNCHANGED vars
  PROVE  ExpandInv'
<1>1. /\ hash' = hash /\ new_h' = new_h /\ pc' = pc /\ i' = i /\ j' = j /\ k' = k /\ want' = want
      /\ raced' = raced
  BY DEF vars
<1>2. TypeOK'
  BY <1>1 DEF ExpandInv, TypeOK
<1>3. /\ InItsBin(hash)' <=> InItsBin(hash)
      /\ InItsBin(new_h)' <=> InItsBin(new_h)
      /\ InEitherBin' <=> InEitherBin
      /\ UpperFree' <=> UpperFree
      /\ AboveFree' <=> AboveFree
  BY <1>1 DEF InItsBin, InEitherBin, UpperFree, AboveFree, Free, Todo
<1>4. Layout'
  BY <1>1, <1>3 DEF ExpandInv, Layout
<1>5. /\ Holds(hash)' <=> Holds(hash)
      /\ Holds(new_h)' <=> Holds(new_h)
      /\ Passed' <=> Passed
  BY <1>1 DEF Holds, Unique, OwnValues, Has, Passed, Todo
<1>6. Content'
  BY <1>1, <1>5 DEF ExpandInv, Content, Counted
<1> QED
  BY <1>2, <1>4, <1>6 DEF ExpandInv
-----------------------------------------------------------------------------
LEMMA ExpandInvariant == Spec => []ExpandInv
<1>1. Init => ExpandInv
  BY InitInv
<1>2. ExpandInv /\ [Next]_vars => ExpandInv'
  <2> SUFFICES ASSUME ExpandInv, [Next]_vars PROVE ExpandInv'
    OBVIOUS
  <2>1. CASE Call
    BY <2>1, CallLayout, CallContent DEF ExpandInv
  <2>2. CASE \E how \in {"copy", "reinsert"} : hash_expand(how)
    BY <2>2, StartInv
  <2>3. CASE CopyStay
    BY <2>3, CopyStayInv
  <2>4. CASE CopyMove
    BY <2>4, CopyMoveInv
  <2>5. CASE CopyCount
    BY <2>5, CopyCountInv
  <2>6. CASE ReinsertSkip
    BY <2>6, ReinsertSkipInv
  <2>7. CASE Reinsert
    BY <2>7, ReinsertInv
  <2>8. CASE Publish
    BY <2>8, PublishInv
  <2>9. CASE UNCHANGED vars
    BY <2>9, StutterInv
  <2> QED BY <2>1, <2>2, <2>3, <2>4, <2>5, <2>6, <2>7, <2>8, <2>9 DEF Next, Expand
<1> QED
  BY <1>1, <1>2, PTL DEF Spec

(* The tables and the locals of the loops keep their types: no index       *)
(* leaves a bin or a table (hash.c:56-66, 75-81).                          *)
THEOREM ExpandTyped == Spec => []TypeOK
<1>1. ExpandInv => TypeOK
  BY DEF ExpandInv
<1> QED
  BY <1>1, ExpandInvariant, PTL

(* After any number of expansions of either kind a search finds every key  *)
(* with the value last stored and no other key, unless a call met an       *)
(* expansion (hash.c:51-86).                                               *)
THEOREM Keeps == Spec => []ExpansionKeeps
<1>1. ASSUME ExpandInv PROVE ExpansionKeeps
  <2> SUFFICES ASSUME ~raced, NEW x \in Keys PROVE Lookup(hash, x) = want[x]
    BY DEF ExpansionKeeps
  <2>1. /\ hash.size \in Nat \ {0} /\ hash \in Tables(hash.size) /\ InItsBin(hash)
        /\ OwnValues(hash) /\ (want[x] # Absent => Has(hash, x)) /\ x # EMPTY_FLAG
    BY <1>1, KeyAssumption DEF ExpandInv, TypeOK, Layout, Content, Holds
  <2>2. CASE Places(hash, x, x) = {}
    BY <2>1, <2>2, Nowhere DEF Lookup
  <2>3. CASE Places(hash, x, x) # {}
    <3>1. Slot(hash, x, x) \in Slots(hash.size) /\ hash.key[Slot(hash, x, x)] = x
      BY <2>1, <2>3, Target
    <3>2. hash.val[Slot(hash, x, x)] = want[x]
      BY <2>1, <3>1 DEF OwnValues
    <3> QED BY <2>3, <3>2 DEF Lookup
  <2> QED BY <2>2, <2>3
<1> QED
  BY <1>1, ExpandInvariant, PTL

(* An entry that is moved or inserted again has a free place in the bin it *)
(* goes to, although neither function looks (hash.c:60, 79), also when     *)
(* calls change the old table between two entries.                         *)
THEOREM HasRoom == Spec => []RoomAtTarget
<1>1. ASSUME ExpandInv PROVE RoomAtTarget
  <2>1. ASSUME pc = "copy", i < hash.size PROVE k \in Pos /\ new_h.key[<<i + hash.size, k>>] = EMPTY_FLAG
    <3>1. /\ UpperFree /\ hash.size \in Nat /\ i \in 0 .. hash.size - 1 /\ j \in 0 .. BIN_CAPACITY - 1
          /\ k \in Nat /\ BIN_CAPACITY \in Nat
      BY <1>1, <2>1, BinAssumption DEF ExpandInv, Layout, TypeOK, Pos
    <3>2. k <= j
      BY <3>1 DEF UpperFree
    <3>3. k \in Pos
      BY <3>1, <3>2 DEF Pos
    <3>4. Free(i + hash.size, k)
      BY <3>1, <3>3 DEF UpperFree
    <3> QED BY <3>3, <3>4 DEF Free
  <2>2. ASSUME pc = "reinsert", i < hash.size, hash.key[<<i, j>>] # EMPTY_FLAG
        PROVE  Places(new_h, hash.key[<<i, j>>], EMPTY_FLAG) # {}
    BY <1>1, <2>2, ReinsertRoom DEF ExpandInv
  <2> QED BY <2>1, <2>2 DEF RoomAtTarget
<1> QED
  BY <1>1, ExpandInvariant, PTL

(* The count is the number of keys, whichever function made the table,     *)
(* unless a call met an expansion (hash.c:22, 67).                         *)
THEOREM CountStays == Spec => []CountKept
<1>1. ExpandInv => CountKept
  BY DEF ExpandInv, Content, Counted, CountKept
<1> QED
  BY <1>1, ExpandInvariant, PTL
=============================================================================
