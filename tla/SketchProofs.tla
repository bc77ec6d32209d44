---------------------------- MODULE SketchProofs ----------------------------
(***************************************************************************)
(* Proofs about Sketch, for any number of threads, any keys and hashes,    *)
(* and any width and depth that sketch_construct accepts and of which the  *)
(* product fits the uint32_t it is computed in.                            *)
(***************************************************************************)
EXTENDS Sketch, FiniteSetTheorems, TLAPS

(* A nonempty set of naturals has a least element, and induction over the  *)
(* naturals in terms of the set of those a property holds for.             *)
LEMMA Least ==
  ASSUME NEW S \in SUBSET Nat, S # {}
  PROVE  \E n \in S : \A m \in S : n <= m
<1> DEFINE R == OpToRel(<, Nat)
<1>1. IsWellFoundedOn(R, Nat)
  BY NatLessThanWellFounded
<1>2. \A m, n \in Nat : m < n => <<m, n>> \in R
  BY DEF OpToRel
<1> HIDE DEF R
<1>3. PICK n \in S : \A m \in S : ~(<<m, n>> \in R)
  BY <1>1, WFMin
<1>4. \A m \in S : ~(m < n)
  BY <1>2, <1>3
<1> QED
  BY <1>4

LEMMA Inductive ==
  ASSUME NEW S, 0 \in S, \A n \in Nat : n \in S => n + 1 \in S
  PROVE  Nat \subseteq S
<1> SUFFICES ASSUME Nat \ S # {} PROVE FALSE
  OBVIOUS
<1>1. PICK n \in Nat \ S : \A m \in Nat \ S : n <= m
  BY Least
<1>2. n # 0 /\ n - 1 \in Nat
  BY <1>1
<1>3. n - 1 \in S
  BY <1>1, <1>2
<1> QED
  BY <1>1, <1>2, <1>3

(* The powers of 2 are the sizes of sets of subsets. *)
LEMMA PowerNat == \A n \in Nat : 2 ^ n \in Nat \ {0}
<1> SUFFICES ASSUME NEW n \in Nat PROVE 2 ^ n \in Nat \ {0}
  OBVIOUS
<1>1. IsFiniteSet(1 .. n) /\ Cardinality(1 .. n) = n
  BY FS_Interval
<1>2. IsFiniteSet(SUBSET (1 .. n)) /\ Cardinality(SUBSET (1 .. n)) = 2 ^ n
  BY <1>1, FS_SUBSET
<1>3. SUBSET (1 .. n) # {}
  OBVIOUS
<1> QED
  BY <1>2, <1>3, FS_EmptySet, FS_CardinalityType

LEMMA PowerStep == \A n \in Nat : 2 ^ (n + 1) = 2 * 2 ^ n
<1> SUFFICES ASSUME NEW n \in Nat PROVE 2 ^ (n + 1) = 2 * 2 ^ n
  OBVIOUS
<1> DEFINE x == n + 1
           A == SUBSET (1 .. n)
           B == {T \union {x} : T \in A}
           f == [T \in A |-> T \union {x}]
<1>1. IsFiniteSet(A) /\ Cardinality(A) = 2 ^ n
  <2>1. IsFiniteSet(1 .. n) /\ Cardinality(1 .. n) = n
    BY FS_Interval
  <2> QED BY <2>1, FS_SUBSET
<1>2. Cardinality(SUBSET (1 .. x)) = 2 ^ (n + 1)
  <2>1. IsFiniteSet(1 .. x) /\ Cardinality(1 .. x) = n + 1
    BY FS_Interval
  <2> QED BY <2>1, FS_SUBSET
<1>3. \A T \in A : x \notin T
  OBVIOUS
<1>4. f \in Bijection(A, B)
  <2> HIDE DEF x
  <2>1. \A S, T \in A : f[S] = f[T] => S = T
    BY <1>3
  <2>2. f \in [A -> B] /\ \A T \in B : \E S \in A : f[S] = T
    OBVIOUS
  <2> HIDE DEF f, A, B
  <2>3. IsInjective(f)
    BY <2>1, <2>2 DEF IsInjective
  <2> QED BY <2>2, <2>3 DEF Bijection, Injection, Surjection
<1>5. IsFiniteSet(B) /\ Cardinality(B) = Cardinality(A)
  <2> HIDE DEF f, A, B
  <2> QED BY <1>1, <1>4, FS_Bijection DEF ExistsBijection
<1>6. A \intersect B = {} /\ SUBSET (1 .. x) = A \union B
  <2>1. 1 .. x = (1 .. n) \union {x}
    OBVIOUS
  <2>2. ASSUME NEW T \in SUBSET (1 .. x), x \in T PROVE T \in B
    <3>1. T = (T \ {x}) \union {x} /\ T \ {x} \in A
      BY <2>1, <2>2
    <3> QED BY <3>1
  <2>3. \A T \in SUBSET (1 .. x) : x \notin T => T \in A
    BY <2>1
  <2>4. \A T \in B : x \in T /\ T \in SUBSET (1 .. x)
    BY <2>1
  <2>5. \A T \in A : T \in SUBSET (1 .. x)
    BY <2>1
  <2> QED BY <1>3, <2>2, <2>3, <2>4, <2>5
<1>7. Cardinality(A \union B) = Cardinality(A) + Cardinality(B)
  <2> HIDE DEF A, B
  <2>1. Cardinality(A \union B) = Cardinality(A) + Cardinality(B) - Cardinality({})
    BY <1>1, <1>5, <1>6, FS_Union
  <2> QED BY <1>1, <1>5, <2>1, FS_EmptySet, FS_CardinalityType
<1>8. 2 ^ (n + 1) = 2 ^ n + 2 ^ n /\ 2 ^ n \in Nat
  <2> HIDE DEF A, B
  <2> QED BY <1>1, <1>2, <1>5, <1>6, <1>7, PowerNat
<1> QED
  BY <1>8
-----------------------------------------------------------------------------
(* The constants.  Width is a power of 2 whose exponent is the shift, and  *)
(* the rows of the sketch take no more bits than the hash has.             *)
LEMMA WidthPower ==
  /\ Width \in Nat \ {0} /\ Log2(Width) \in Nat /\ 2 ^ Log2(Width) = Width
  /\ Log2(Width) * Depth <= 2 * WORD
<1>1. PICK b \in 0 .. Width : 2 ^ b = Width
  BY Constructed, WidthAssumption DEF Constructs, IsPowerOf2
<1>2. Log2(Width) \in 0 .. Width /\ 2 ^ Log2(Width) = Width
  BY <1>1 DEF Log2
<1>3. Log2(Width) * Depth <= 2 * WORD
  BY Constructed, WidthAssumption DEF Constructs, COUNT_MIN
<1> QED
  BY <1>2, <1>3, WidthAssumption, PowerNat

(* The hashes that calls are about. *)
HS == HashesOf(KeptSeed(Seed))

LEMMA HashType == HS \subseteq Int \X Int
<1>1. (0 .. 2 ^ WORD - 1) \X (0 .. 2 ^ WORD - 1) \subseteq Int \X Int
  <2>1. 2 ^ WORD \in Nat
    BY PowerNat, WidthAssumption
  <2> QED BY <2>1
<1>2. ASSUME NEW k \in Keys, NEW s \in {ExtSeed, KeptSeed(Seed)} PROVE Murmur[<<s, k>>] \in Int \X Int
  BY <1>1, HashAssumption, Zenon
<1>3. \A h \in HS : \E s \in {ExtSeed, KeptSeed(Seed)} : \E k \in Keys : h = Murmur[<<s, k>>]
  BY Zenon DEF HS, HashesOf
<1> SUFFICES ASSUME NEW h \in HS PROVE h \in Int \X Int
  OBVIOUS
<1>4. PICK s \in {ExtSeed, KeptSeed(Seed)}, k \in Keys : h = Murmur[<<s, k>>]
  BY <1>3, Zenon
<1> QED
  BY <1>2, <1>4, Zenon

(* Row i of the places, given the ones before. *)
Row(g, i) ==
  [h \in HS |-> IF i = 0 THEN [hash |-> h, i |-> 0, tot_shift |-> 0]
                ELSE Cut([g[i - 1][h] EXCEPT !.i = @ + 1], Log2(Width))]

(* The recursive definition of the places has a solution, so that PlaceIn  *)
(* is one.                                                                 *)
LEMMA PlaceDef == PlaceIn = [i \in 0 .. Depth - 1 |-> Row(PlaceIn, i)]
<1> DEFINE S == {n \in Nat : \E g : g = [i \in 0 .. n |-> Row(g, i)]}
<1>1. \A f, g : Row(f, 0) = Row(g, 0)
  BY DEF Row
<1>2. \A f, g : \A i \in Nat : f[i - 1] = g[i - 1] => Row(f, i) = Row(g, i)
  BY DEF Row
<1>3. 0 \in S
  <2> DEFINE g == [i \in 0 .. 0 |-> Row(<<>>, 0)]
  <2>1. \A i \in 0 .. 0 : i = 0 /\ Row(g, i) = Row(<<>>, 0)
    <3> HIDE DEF g
    <3> QED BY <1>1
  <2>2. g = [i \in 0 .. 0 |-> Row(g, i)]
    BY <2>1
  <2> QED BY <2>2
<1>4. ASSUME NEW n \in Nat, n \in S PROVE n + 1 \in S
  <2>1. PICK g : g = [i \in 0 .. n |-> Row(g, i)]
    BY <1>4
  <2> DEFINE f == [i \in 0 .. n + 1 |-> Row(g, i)]
  <2>2. \A i \in 0 .. n : f[i] = g[i]
    BY <2>1
  <2>3. ASSUME NEW i \in 0 .. n + 1 PROVE Row(f, i) = Row(g, i)
    <3>1. CASE i = 0
      BY <1>1, <3>1
    <3>2. CASE i # 0
      <4>1. i \in Nat /\ i - 1 \in 0 .. n
        BY <3>2
      <4> HIDE DEF f
      <4> QED BY <1>2, <2>2, <4>1
    <3> QED BY <3>1, <3>2
  <2>4. f = [i \in 0 .. n + 1 |-> Row(f, i)]
    BY <2>3
  <2> HIDE DEF f
  <2> QED BY <2>4
<1>5. Depth - 1 \in S
  <2> HIDE DEF S
  <2> QED BY <1>3, <1>4, Inductive, WidthAssumption
<1>6. PICK g : g = [i \in 0 .. Depth - 1 |-> Row(g, i)]
  BY <1>5
<1> QED
  BY <1>6, Zenon DEF PlaceIn, Row, HS

LEMMA PlaceRow ==
  ASSUME NEW h \in HS
  PROVE  /\ PlaceIn[0][h] = [hash |-> h, i |-> 0, tot_shift |-> 0]
         /\ \A i \in 0 .. Depth - 1 : i # 0 =>
              PlaceIn[i][h] = Cut([PlaceIn[i - 1][h] EXCEPT !.i = @ + 1], Log2(Width))
<1>1. \A i \in 0 .. Depth - 1 : PlaceIn[i] = Row(PlaceIn, i)
  BY PlaceDef
<1>2. 0 \in 0 .. Depth - 1
  BY WidthAssumption
<1> QED
  BY <1>1, <1>2 DEF Row

LEMMA CutTyped ==
  ASSUME NEW hash \in Int \X Int, NEW tot \in 0 .. WORD, NEW shift \in 0 .. WORD
  PROVE  CutHash(hash, tot, shift) \in Int \X Int /\ CutShift(tot, shift) \in 0 .. WORD
<1> DEFINE over == tot + shift - WORD
           both == (hash[1] + hash[2] * 2 ^ (shift - over)) % 2 ^ WORD
           rest == hash[2] \div 2 ^ (WORD - over)
           next == IF over < 0 THEN hash
                   ELSE IF over = 0 THEN <<hash[2], hash[2]>> ELSE <<both, rest>>
<1>1. CutHash(hash, tot, shift) = <<next[1] \div 2 ^ shift, next[2]>>
  BY Zenon DEF CutHash
<1>2. /\ over \in Int /\ shift - over \in Nat /\ WORD - over \in Nat
      /\ 2 ^ (shift - over) \in Nat \ {0} /\ 2 ^ (WORD - over) \in Nat \ {0}
      /\ 2 ^ WORD \in Nat \ {0} /\ 2 ^ shift \in Nat \ {0}
  <2>1. over \in Int /\ shift - over \in Nat /\ WORD - over \in Nat /\ shift \in Nat
    BY WidthAssumption
  <2> QED BY <2>1, PowerNat, WidthAssumption
<1>3. \A x \in Int : \A y \in Nat \ {0} : x \div y \in Int /\ x % y \in Int
  OBVIOUS
<1>4. \A x, y \in Int : \A z \in Nat \ {0} : x + y * z \in Int
  OBVIOUS
<1>5. hash[1] \in Int /\ hash[2] \in Int
  OBVIOUS
<1>6. both \in Int /\ rest \in Int
  <2> HIDE DEF over
  <2> QED BY <1>2, <1>3, <1>4, <1>5
<1>7. next \in Int \X Int
  <2> HIDE DEF over, both, rest
  <2> QED BY <1>5, <1>6
<1>8. CutHash(hash, tot, shift) \in Int \X Int
  <2> HIDE DEF next
  <2> QED BY <1>1, <1>2, <1>3, <1>7
<1> QED
  BY <1>8, WidthAssumption DEF CutShift

(* Every row takes its column from integers, and never from more bits than *)
(* the two words have.                                                     *)
Places(i) == [hash : Int \X Int, i : {i}, tot_shift : 0 .. WORD]

LEMMA PlaceType ==
  ASSUME NEW i \in 0 .. Depth - 1, NEW h \in HS
  PROVE  PlaceIn[i][h] \in Places(i)
<1> DEFINE S == {n \in Nat : n \in 0 .. Depth - 1 => PlaceIn[n][h] \in Places(n)}
<1>1. 0 \in S
  <2>1. PlaceIn[0][h] = [hash |-> h, i |-> 0, tot_shift |-> 0] /\ h \in Int \X Int
    BY PlaceRow, HashType
  <2> QED BY <2>1, WidthAssumption DEF Places
<1>2. ASSUME NEW n \in Nat, n \in S PROVE n + 1 \in S
  <2> SUFFICES ASSUME n + 1 \in 0 .. Depth - 1 PROVE PlaceIn[n + 1][h] \in Places(n + 1)
    OBVIOUS
  <2> DEFINE p == PlaceIn[n][h]
             s == Log2(Width)
             q == [p EXCEPT !.i = @ + 1]
  <2>1. p \in Places(n)
    <3>1. n \in 0 .. Depth - 1
      BY WidthAssumption
    <3> QED BY <1>2, <3>1
  <2>2. s \in 0 .. WORD
    <3>1. s \in Nat /\ s * Depth <= 2 * WORD
      BY WidthPower
    <3>2. Depth \in Nat /\ Depth >= 2 /\ WORD \in Nat
      BY WidthAssumption
    <3>3. s * 2 <= s * Depth
      <4> HIDE DEF s
      <4> QED BY <3>1, <3>2
    <3> HIDE DEF s
    <3> QED BY <3>1, <3>2, <3>3
  <2>3. PlaceIn[n + 1][h] = Cut(q, s)
    <3>1. (n + 1) - 1 = n /\ n + 1 # 0
      OBVIOUS
    <3> QED BY PlaceRow, <3>1
  <2> HIDE DEF s, p
  <2>4. q = [hash |-> p.hash, i |-> n + 1, tot_shift |-> p.tot_shift] /\ p.hash \in Int \X Int
        /\ p.tot_shift \in 0 .. WORD
    BY <2>1 DEF Places
  <2>5. CutHash(q.hash, q.tot_shift, s) \in Int \X Int /\ CutShift(q.tot_shift, s) \in 0 .. WORD
    BY <2>2, <2>4, CutTyped
  <2> QED BY <2>3, <2>4, <2>5 DEF Places, Cut
<1>3. i \in S
  <2> HIDE DEF S
  <2> QED BY <1>1, <1>2, Inductive
<1> QED
  BY <1>3
-----------------------------------------------------------------------------
(* The counters, row by row: rows are apart, and inside what is allocated. *)
Rows == 0 .. Depth - 1

RowOf(i) == i * Width .. i * Width + Width - 1

(* The counter of a hash in row i. *)
Cell(h, i) == i * Width + (PlaceIn[i][h].hash[1] % Width)

LEMMA RowIn == \A i \in Rows : RowOf(i) \subseteq 0 .. Depth * Width - 1
<1> SUFFICES ASSUME NEW i \in Rows PROVE RowOf(i) \subseteq 0 .. Depth * Width - 1
  OBVIOUS
<1>1. i \in Nat /\ Depth \in Nat /\ Width \in Nat /\ Depth - i - 1 \in Nat
  BY WidthAssumption, WidthPower DEF Rows
<1>2. \A a, b \in Nat : a * b \in Nat
  OBVIOUS
<1>3. (Depth - i - 1) * Width = Depth * Width - i * Width - Width
  BY <1>1
<1>4. i * Width \in Nat /\ i * Width + Width <= Depth * Width /\ Depth * Width \in Nat
  BY <1>1, <1>2, <1>3
<1> QED
  BY <1>1, <1>4 DEF RowOf

LEMMA RowsApart ==
  ASSUME NEW i \in Rows, NEW j \in Rows, NEW x \in RowOf(i), x \in RowOf(j)
  PROVE  i = j
<1>1. i \in Nat /\ j \in Nat /\ Width \in Nat
  BY WidthAssumption, WidthPower DEF Rows
<1>2. \A a, b \in Nat : a < b => a * Width + Width <= b * Width
  <2> SUFFICES ASSUME NEW a \in Nat, NEW b \in Nat, a < b PROVE a * Width + Width <= b * Width
    OBVIOUS
  <2>1. (b - a - 1) * Width \in Nat
    BY <1>1
  <2>2. (b - a - 1) * Width = b * Width - a * Width - Width
    BY <1>1
  <2>3. a * Width \in Nat /\ b * Width \in Nat
    BY <1>1
  <2> QED BY <1>1, <2>1, <2>2, <2>3
<1>3. i * Width \in Nat /\ j * Width \in Nat /\ x \in Int
  BY <1>1 DEF RowOf
<1>4. ~(i < j) /\ ~(j < i)
  BY <1>1, <1>2, <1>3 DEF RowOf
<1> QED
  BY <1>1, <1>4

LEMMA CellIn ==
  ASSUME NEW h \in HS, NEW i \in Rows
  PROVE  Cell(h, i) \in RowOf(i) /\ Cell(h, i) \in 0 .. Depth * Width - 1
<1>1. PlaceIn[i][h].hash[1] \in Int
  BY PlaceType DEF Places, Rows
<1>2. i \in Nat /\ Width \in Nat \ {0} /\ i * Width \in Nat
  BY WidthPower DEF Rows
<1>3. PlaceIn[i][h].hash[1] % Width \in 0 .. Width - 1
  BY <1>1, <1>2
<1>4. Cell(h, i) \in RowOf(i)
  BY <1>2, <1>3 DEF Cell, RowOf
<1> QED
  BY <1>4, RowIn
-----------------------------------------------------------------------------
(* A call of a thread: the columns it takes are the ones of its hash.      *)
Busy(c) == c.at \in {"load", "store", "read"}

CallFields(c) ==
  [at : {"load", "store", "read", "count", "end"}, op : {"load", "count"}, h : HS,
   hash : {c.hash}, i : 0 .. Depth, tot_shift : {c.tot_shift}, loaded : 0 .. UINT32_MAX,
   minimal : 0 .. UINT32_MAX, fresh : BOOLEAN, before : Nat]

InCall(c) ==
  /\ c \in CallFields(c)
  /\ c.at = "count" => c.op = "count"
  /\ Busy(c) => c.op = "load"
  /\ c.at = "end" <=> c.i = Depth
  /\ c.i < Depth => c.hash = PlaceIn[c.i][c.h].hash /\ c.tot_shift = PlaceIn[c.i][c.h].tot_shift

(* A clear of a thread: some of the counters are left to be set to 0. *)
InClear(c) == c = [at |-> "clear", left |-> c.left] /\ c.left \subseteq 0 .. Depth * Width - 1

Proper(c) == c = Idle \/ InCall(c) \/ InClear(c)

Calling(c) == c.at \notin {"idle", "clear"}

(* The count-min sketch, its calls and the history of them. *)
Counters ==
  /\ sk \in [mode : {COUNT_MIN}, width : {Width}, depth : {Depth}, shift : {Log2(Width)},
             counts : [0 .. Depth * Width - 1 -> 0 .. UINT32_MAX], seed : {KeptSeed(Seed)}]
  /\ doing = [t \in Threads |-> doing[t]]
  /\ \A t \in Threads : Proper(doing[t])
  /\ done \in [HS -> Nat] /\ begun \in Nat /\ total \in Nat /\ clean \in BOOLEAN /\ added = {}

LEMMA CounterMax == UINT32_MAX \in Nat \ {0} /\ 2 ^ COUNTER_BITS = UINT32_MAX + 1
<1>1. COUNTER_BITS - 1 \in Nat /\ (COUNTER_BITS - 1) + 1 = COUNTER_BITS
  BY WidthAssumption
<1>2. 2 ^ COUNTER_BITS = 2 * 2 ^ (COUNTER_BITS - 1)
  BY <1>1, PowerStep
<1>3. 2 ^ (COUNTER_BITS - 1) \in Nat \ {0}
  BY <1>1, PowerNat
<1> QED
  BY <1>2, <1>3 DEF UINT32_MAX

LEMMA Fits32 ==
  /\ \A n \in Nat : UInt32(n) \in 0 .. UINT32_MAX
  /\ \A n \in Nat : n <= UINT32_MAX => UInt32(n) = n
<1>1. \A a, b \in Nat : b # 0 => a % b \in 0 .. b - 1 /\ (a < b => a % b = a)
  OBVIOUS
<1>2. \A n \in Nat : UInt32(n) = n % (UINT32_MAX + 1)
  BY CounterMax, Zenon DEF UInt32
<1>3. UINT32_MAX \in Nat /\ UINT32_MAX + 1 \in Nat /\ UINT32_MAX + 1 # 0
  BY CounterMax
<1> SUFFICES ASSUME NEW n \in Nat
             PROVE  UInt32(n) \in 0 .. UINT32_MAX /\ (n <= UINT32_MAX => UInt32(n) = n)
  OBVIOUS
<1> DEFINE b == UINT32_MAX + 1
<1>4. b \in Nat /\ b # 0 /\ b - 1 = UINT32_MAX /\ (n <= UINT32_MAX => n < b)
  BY <1>3
<1>5. UInt32(n) = n % b
  BY <1>2
<1> HIDE DEF b
<1>6. n % b \in 0 .. b - 1 /\ (n < b => n % b = n)
  BY <1>1, <1>4, Zenon
<1> QED
  BY <1>4, <1>5, <1>6, Zenon

(* Sizes and indices do not wrap. *)
LEMMA SizeFits == UInt32(Depth * Width) = Depth * Width /\ UInt32(2 * BloomWidth) = 2 * BloomWidth
<1>1. Depth * Width \in Nat /\ 2 * BloomWidth \in Nat
  BY WidthAssumption, WidthPower
<1> QED
  BY <1>1, Fits32, FitAssumption

LEMMA CellFits ==
  ASSUME NEW h \in HS, NEW i \in Rows
  PROVE  UInt32(Cell(h, i)) = Cell(h, i)
<1>1. Cell(h, i) \in 0 .. Depth * Width - 1
  BY CellIn
<1>2. Depth * Width \in Nat /\ Depth * Width <= UINT32_MAX /\ UINT32_MAX \in Nat
  BY WidthAssumption, WidthPower, FitAssumption, CounterMax
<1> HIDE DEF Cell
<1>3. \A n \in Nat : \A x \in 0 .. n - 1 : n <= UINT32_MAX => x \in Nat /\ x <= UINT32_MAX
  BY <1>2
<1>4. Cell(h, i) \in Nat /\ Cell(h, i) <= UINT32_MAX
  BY <1>1, <1>2, <1>3
<1> QED
  BY <1>4, Fits32

LEMMA Sketched ==
  ASSUME Counters
  PROVE  /\ sk.mode = COUNT_MIN /\ sk.width = Width /\ sk.depth = Depth /\ sk.shift = Log2(Width)
         /\ sk.seed = KeptSeed(Seed) /\ Hashes = HS
  BY DEF Counters, Hashes, HS

LEMMA CallAt ==
  ASSUME Counters, NEW t \in Threads
  PROVE  /\ doing[t].at = "idle" <=> doing[t] = Idle
         /\ doing[t].at = "clear" <=> InClear(doing[t])
         /\ Calling(doing[t]) <=> InCall(doing[t])
<1>1. Proper(doing[t])
  BY DEF Counters
<1>2. InClear(doing[t]) => doing[t].at = "clear"
  BY DEF InClear
<1>3. InCall(doing[t]) => doing[t].at \in {"load", "store", "read", "count", "end"}
  BY DEF InCall, CallFields
<1> QED
  BY <1>1, <1>2, <1>3 DEF Proper, Idle, Calling

LEMMA IdxCell ==
  ASSUME Counters, NEW c, InCall(c), c.at # "end"
  PROVE  /\ c.i \in Rows /\ Idx(c) = Cell(c.h, c.i) /\ Idx(c) \in 0 .. Depth * Width - 1
         /\ sk.counts[Idx(c)] \in 0 .. UINT32_MAX
<1>1. c.i \in Rows /\ c.h \in HS /\ c.hash = PlaceIn[c.i][c.h].hash
  BY WidthAssumption DEF InCall, CallFields, Rows
<1>2. Idx(c) = Cell(c.h, c.i)
  <2>1. Idx(c) = UInt32(Cell(c.h, c.i))
    BY <1>1, Sketched DEF Idx, Cell
  <2> QED BY <1>1, <2>1, CellFits
<1> QED
  BY <1>1, <1>2, CellIn DEF Counters

(* A thread takes a step, the others do not. *)
Alone(t) ==
  /\ doing' = [u \in Threads |-> doing'[u]]
  /\ \A u \in Threads \ {t} : doing'[u] = doing[u]

LEMMA AloneStep ==
  ASSUME Counters, NEW t \in Threads, NEW v, doing' = [doing EXCEPT ![t] = v]
  PROVE  Alone(t) /\ doing'[t] = v
  BY DEF Alone, Counters

(* The parts of a call that its steps leave alone. *)
SameCall(c, d) == c.op = d.op /\ c.h = d.h /\ c.fresh = d.fresh /\ c.before = d.before

LEMMA LoadStep ==
  ASSUME Counters, NEW t \in Threads, IncLoad(t)
  PROVE  /\ doing[t].at = "load" /\ InCall(doing[t]) /\ InCall(doing'[t])
         /\ Alone(t) /\ SameCall(doing[t], doing'[t])
         /\ doing'[t].at = "store" /\ doing'[t].i = doing[t].i
         /\ doing'[t].loaded = sk.counts[Cell(doing[t].h, doing[t].i)]
         /\ doing'[t].minimal = doing[t].minimal
<1> DEFINE c == doing[t]
           d == [c EXCEPT !.at = "store", !.loaded = sk.counts[Idx(c)]]
<1>1. c.at = "load" /\ doing' = [doing EXCEPT ![t] = d]
  BY DEF IncLoad
<1>2. InCall(c)
  BY <1>1, CallAt DEF Calling
<1>3. Alone(t) /\ doing'[t] = d
  <2> HIDE DEF d
  <2> QED BY <1>1, AloneStep
<1> HIDE DEF c
<1>4. sk.counts[Idx(c)] \in 0 .. UINT32_MAX /\ Idx(c) = Cell(c.h, c.i)
  BY <1>1, <1>2, IdxCell
<1>5. d \in CallFields(d) /\ SameCall(c, d) /\ d.hash = c.hash /\ d.i = c.i
      /\ d.tot_shift = c.tot_shift /\ d.minimal = c.minimal /\ d.loaded = sk.counts[Idx(c)]
      /\ d.at = "store"
  BY <1>2, <1>4 DEF InCall, CallFields, SameCall
<1> HIDE DEF d
<1>6. InCall(d)
  BY <1>1, <1>2, <1>5 DEF InCall, SameCall, Busy
<1> QED
  BY <1>1, <1>2, <1>3, <1>4, <1>5, <1>6 DEF c

LEMMA StoreStep ==
  ASSUME Counters, NEW t \in Threads, IncStore(t)
  PROVE  /\ doing[t].at = "store" /\ InCall(doing[t]) /\ InCall(doing'[t])
         /\ Alone(t) /\ SameCall(doing[t], doing'[t])
         /\ doing'[t].at = "read" /\ doing'[t].i = doing[t].i
         /\ doing'[t].loaded = doing[t].loaded /\ doing'[t].minimal = doing[t].minimal
         /\ sk' = [sk EXCEPT !.counts = [@ EXCEPT ![Cell(doing[t].h, doing[t].i)] =
                                           UInt32(doing[t].loaded + 1)]]
         /\ clean' = (clean /\ sk.counts[Cell(doing[t].h, doing[t].i)] = doing[t].loaded)
<1> DEFINE c == doing[t]
           d == [c EXCEPT !.at = "read"]
<1>1. c.at = "store" /\ doing' = [doing EXCEPT ![t] = d]
  BY DEF IncStore
<1>2. InCall(c)
  BY <1>1, CallAt DEF Calling
<1>3. Alone(t) /\ doing'[t] = d
  <2> HIDE DEF d
  <2> QED BY <1>1, AloneStep
<1> HIDE DEF c
<1>4. Idx(c) = Cell(c.h, c.i)
  BY <1>1, <1>2, IdxCell
<1>5. d \in CallFields(d) /\ SameCall(c, d) /\ d.hash = c.hash /\ d.i = c.i
      /\ d.tot_shift = c.tot_shift /\ d.minimal = c.minimal /\ d.loaded = c.loaded
      /\ d.at = "read"
  BY <1>2 DEF InCall, CallFields, SameCall
<1> HIDE DEF d
<1>6. InCall(d)
  BY <1>1, <1>2, <1>5 DEF InCall, SameCall, Busy
<1>7. /\ sk' = [sk EXCEPT !.counts = [@ EXCEPT ![Cell(c.h, c.i)] = UInt32(c.loaded + 1)]]
      /\ clean' = (clean /\ sk.counts[Cell(c.h, c.i)] = c.loaded)
  BY <1>4 DEF IncStore, c
<1> QED
  BY <1>1, <1>2, <1>3, <1>5, <1>6, <1>7 DEF c

(* The end of a row, of a call that counts or reads. *)
LEMMA RowStep ==
  ASSUME Counters, NEW t \in Threads, InCall(doing[t]), doing[t].at \in {"read", "count"},
         NEW seen \in 0 .. UINT32_MAX, EndRow(t, doing[t].op, seen)
  PROVE  /\ InCall(doing'[t]) /\ Alone(t) /\ SameCall(doing[t], doing'[t])
         /\ doing'[t].at = IF doing[t].i + 1 = Depth THEN "end" ELSE doing[t].op
         /\ doing'[t].i = doing[t].i + 1 /\ doing[t].i \in Rows
         /\ doing'[t].minimal = IF doing[t].minimal <= seen THEN doing[t].minimal ELSE seen
         /\ done' = IF doing[t].i + 1 = Depth /\ doing[t].op = "load" /\ doing[t].fresh
                    THEN [done EXCEPT ![doing[t].h] = @ + 1] ELSE done
<1> DEFINE c    == doing[t]
           min  == IF c.minimal <= seen THEN c.minimal ELSE seen
           at   == IF c.i + 1 = Depth THEN "end" ELSE c.op
           s    == Log2(Width)
           b    == [c EXCEPT !.i = @ + 1]
           n    == Cut(b, s)
           d    == [n EXCEPT !.minimal = min, !.loaded = 0, !.at = at]
<1>1. doing' = [doing EXCEPT ![t] = d]
  BY Sketched DEF EndRow, NextRow
<1>2. done' = IF c.i + 1 = Depth /\ c.op = "load" /\ c.fresh
              THEN [done EXCEPT ![c.h] = @ + 1] ELSE done
  BY Sketched DEF EndRow
<1>3. Alone(t) /\ doing'[t] = d
  <2> HIDE DEF d
  <2> QED BY <1>1, AloneStep
<1> HIDE DEF c
<1>4. c.i \in Rows /\ c.i \in Nat /\ InCall(c) /\ c \in CallFields(c)
  BY IdxCell DEF InCall, c, Rows
<1>5. b \in CallFields(b) /\ SameCall(c, b) /\ b.hash = c.hash /\ b.i = c.i + 1
      /\ b.tot_shift = c.tot_shift /\ b.minimal = c.minimal
  BY <1>4, WidthAssumption DEF CallFields, SameCall, Rows
<1>6. n = [b EXCEPT !.hash = CutHash(c.hash, c.tot_shift, s),
                    !.tot_shift = CutShift(c.tot_shift, s)]
  BY <1>5 DEF Cut
<1> HIDE DEF b, n, s
<1>7. n \in CallFields(n) /\ SameCall(c, n) /\ n.i = c.i + 1
      /\ n.hash = CutHash(c.hash, c.tot_shift, s) /\ n.tot_shift = CutShift(c.tot_shift, s)
  BY <1>5, <1>6 DEF CallFields, SameCall
<1>8. min \in 0 .. UINT32_MAX /\ at \in {"load", "count", "end"} /\ 0 \in 0 .. UINT32_MAX
  BY <1>4, CounterMax DEF CallFields
<1> HIDE DEF min, at
<1>9. d \in CallFields(d) /\ SameCall(c, d) /\ d.i = c.i + 1 /\ d.minimal = min /\ d.at = at
      /\ d.hash = CutHash(c.hash, c.tot_shift, s) /\ d.tot_shift = CutShift(c.tot_shift, s)
  BY <1>7, <1>8 DEF CallFields, SameCall
<1> HIDE DEF d
<1>10. ASSUME d.i < Depth
       PROVE  d.hash = PlaceIn[d.i][d.h].hash /\ d.tot_shift = PlaceIn[d.i][d.h].tot_shift
  <2> DEFINE p == PlaceIn[c.i][c.h]
             q == [p EXCEPT !.i = @ + 1]
  <2>1. c.h \in HS /\ c.hash = p.hash /\ c.tot_shift = p.tot_shift /\ p \in Places(c.i)
    BY <1>4, PlaceType, WidthAssumption DEF InCall, CallFields, Rows
  <2>2. d.i \in 0 .. Depth - 1 /\ d.i # 0 /\ d.i - 1 = c.i
    BY <1>4, <1>9, <1>10, WidthAssumption DEF Rows
  <2>3. PlaceIn[d.i][c.h] = Cut(q, s)
    BY <2>1, <2>2, PlaceRow DEF s
  <2> HIDE DEF p
  <2>4. q.hash = p.hash /\ q.tot_shift = p.tot_shift /\ q \in Places(c.i + 1)
    BY <1>4, <2>1 DEF Places
  <2> HIDE DEF q
  <2>5. Cut(q, s).hash = CutHash(q.hash, q.tot_shift, s)
        /\ Cut(q, s).tot_shift = CutShift(q.tot_shift, s)
    BY <2>4 DEF Cut, Places
  <2> QED BY <1>9, <2>1, <2>3, <2>4, <2>5 DEF SameCall
<1>11. InCall(d)
  <2>1. d.at = "end" <=> d.i = Depth
    BY <1>4, <1>9, WidthAssumption DEF at, InCall, CallFields, SameCall
  <2>2. (d.at = "count" => d.op = "count") /\ (Busy(d) => d.op = "load")
    BY <1>4, <1>9 DEF at, InCall, CallFields, SameCall, Busy
  <2> QED BY <1>9, <1>10, <2>1, <2>2 DEF InCall
<1> QED
  BY <1>2, <1>3, <1>4, <1>9, <1>11 DEF c, min, at

LEMMA ReadStep ==
  ASSUME Counters, NEW t \in Threads, IncRead(t)
  PROVE  /\ InCall(doing[t]) /\ doing[t].at = "read" /\ doing[t].op = "load"
         /\ \E seen \in 0 .. UINT32_MAX :
              /\ seen \in {UInt32(doing[t].loaded + 1),
                           sk.counts[Cell(doing[t].h, doing[t].i)]}
              /\ EndRow(t, doing[t].op, seen)
<1>1. doing[t].at = "read"
  BY DEF IncRead
<1>2. InCall(doing[t]) /\ doing[t].op = "load"
  BY <1>1, CallAt DEF Calling, InCall, Busy
<1>3. Idx(doing[t]) = Cell(doing[t].h, doing[t].i) /\ sk.counts[Idx(doing[t])] \in 0 .. UINT32_MAX
  BY <1>1, <1>2, IdxCell
<1>4. UInt32(doing[t].loaded + 1) \in 0 .. UINT32_MAX
  BY <1>2, CounterMax, Fits32 DEF InCall, CallFields
<1>5. PICK seen \in {UInt32(doing[t].loaded + 1), sk.counts[Idx(doing[t])]} :
        EndRow(t, "load", seen)
  BY DEF IncRead
<1> QED
  BY <1>1, <1>2, <1>3, <1>4, <1>5

LEMMA CountStep ==
  ASSUME Counters, NEW t \in Threads, CountRead(t)
  PROVE  /\ InCall(doing[t]) /\ doing[t].at = "count" /\ doing[t].op = "count"
         /\ sk.counts[Cell(doing[t].h, doing[t].i)] \in 0 .. UINT32_MAX
         /\ EndRow(t, doing[t].op, sk.counts[Cell(doing[t].h, doing[t].i)])
<1>1. doing[t].at = "count"
  BY DEF CountRead
<1>2. InCall(doing[t]) /\ doing[t].op = "count"
  BY <1>1, CallAt DEF Calling, InCall
<1>3. Idx(doing[t]) = Cell(doing[t].h, doing[t].i) /\ sk.counts[Idx(doing[t])] \in 0 .. UINT32_MAX
  BY <1>1, <1>2, IdxCell
<1> QED
  BY <1>1, <1>2, <1>3 DEF CountRead

LEMMA BeginStep ==
  ASSUME Counters, NEW t \in Threads, NEW h \in HS, NEW op \in {"load", "count"}, Begin(t, op, h)
  PROVE  /\ doing[t] = Idle /\ InCall(doing'[t]) /\ Alone(t)
         /\ doing'[t].at = op /\ doing'[t].op = op /\ doing'[t].h = h /\ doing'[t].i = 0
         /\ doing'[t].minimal = UINT32_MAX /\ doing'[t].before = done[h]
         /\ doing'[t].fresh = (Clearing = {})
<1> DEFINE d == [at |-> op, op |-> op, h |-> h, hash |-> h, i |-> 0, tot_shift |-> 0, loaded |-> 0,
                 minimal |-> UINT32_MAX, fresh |-> Clearing = {}, before |-> done[h]]
<1>1. doing[t] = Idle
  BY CallAt DEF Begin
<1>2. Alone(t) /\ doing'[t] = d
  <2>1. doing' = [doing EXCEPT ![t] = d]
    BY DEF Begin
  <2> HIDE DEF d
  <2> QED BY <2>1, AloneStep
<1>3. done[h] \in Nat /\ UINT32_MAX \in Nat /\ Depth \in Nat \ {0}
  BY CounterMax, WidthAssumption DEF Counters
<1>4. PlaceIn[0][h].hash = h /\ PlaceIn[0][h].tot_shift = 0
  <2>1. PlaceIn[0][h] = [hash |-> h, i |-> 0, tot_shift |-> 0]
    BY PlaceRow
  <2> QED BY <2>1
<1>5. d \in CallFields(d)
  BY <1>3 DEF CallFields
<1>6. InCall(d)
  BY <1>3, <1>4, <1>5 DEF InCall, Busy
<1> QED
  BY <1>1, <1>2, <1>6

LEMMA ReturnStep ==
  ASSUME Counters, NEW t \in Threads, Return(t)
  PROVE  doing[t].at = "end" /\ InCall(doing[t]) /\ Alone(t) /\ doing'[t] = Idle
<1>1. doing[t].at = "end" /\ doing' = [doing EXCEPT ![t] = Idle]
  BY DEF Return
<1> QED
  BY <1>1, AloneStep, CallAt DEF Calling

(* A clear that begins overtakes every call that runs. *)
LEMMA ClearBeginStep ==
  ASSUME Counters, NEW t \in Threads, ClearBegin(t)
  PROVE  /\ sk' = sk /\ total' = total /\ done' = [h \in HS |-> 0]
         /\ clean' = TRUE /\ begun' = Cardinality(Counting)
         /\ doing' = [u \in Threads |-> doing'[u]]
         /\ InClear(doing'[t])
         /\ \A x \in 0 .. Depth * Width - 1 : SIZEOF * x < MemsetBytes => x \in doing'[t].left
         /\ \A u \in Threads :
              /\ Proper(doing'[u])
              /\ Calling(doing'[u]) => doing'[u].fresh = FALSE
              /\ Busy(doing'[u]) <=> Busy(doing[u])
              /\ Busy(doing[u]) => /\ doing'[u].at = doing[u].at /\ doing'[u].i = doing[u].i
                                   /\ doing'[u].loaded = doing[u].loaded
<1> DEFINE left == {i \in DOMAIN sk.counts : SIZEOF * i < MemsetBytes}
           b    == [at |-> "clear", left |-> left]
<1>1. /\ sk' = sk /\ total' = total /\ clean' = TRUE /\ begun' = Cardinality(Counting)
      /\ done' = [h \in HS |-> 0]
  BY DEF ClearBegin, Counters
<1>2. doing' = [u \in Threads |-> IF u = t THEN b ELSE Overtaken(doing[u])] /\ doing[t].at = "idle"
  BY DEF ClearBegin
<1>3. DOMAIN sk.counts = 0 .. Depth * Width - 1
  BY DEF Counters
<1>4. InClear(b)
  BY <1>3 DEF InClear
<1>5. doing'[t] = b
  BY <1>2
<1>6. ASSUME NEW u \in Threads, u # t
      PROVE  /\ Proper(doing'[u])
             /\ Calling(doing'[u]) => doing'[u].fresh = FALSE
             /\ Busy(doing'[u]) <=> Busy(doing[u])
             /\ Busy(doing[u]) => /\ doing'[u].at = doing[u].at /\ doing'[u].i = doing[u].i
                                  /\ doing'[u].loaded = doing[u].loaded
  <2> DEFINE c == doing[u]
             d == [c EXCEPT !.fresh = FALSE]
  <2>1. CASE ~Calling(c)
    <3>1. doing'[u] = c /\ Proper(c) /\ ~Busy(c)
      BY <1>2, <1>6, <2>1 DEF Overtaken, Calling, Busy, Counters
    <3> QED BY <2>1, <3>1
  <2>2. CASE Calling(c)
    <3>1. InCall(c)
      BY <2>2, CallAt
    <3>2. doing'[u] = d
      BY <1>2, <1>6, <2>2 DEF Overtaken, Calling
    <3> HIDE DEF c
    <3>3. d \in CallFields(d) /\ d.fresh = FALSE /\ d.at = c.at /\ d.op = c.op /\ d.h = c.h /\ d.i = c.i
          /\ d.loaded = c.loaded /\ d.hash = c.hash /\ d.tot_shift = c.tot_shift
      BY <3>1 DEF InCall, CallFields
    <3> HIDE DEF d
    <3>4. InCall(d)
      BY <3>1, <3>3 DEF InCall, Busy
    <3> QED BY <3>2, <3>3, <3>4 DEF c, Proper, Busy
  <2> QED BY <2>1, <2>2
<1>7. Proper(b) /\ ~Calling(b) /\ ~Busy(b) /\ ~Busy(doing[t])
  BY <1>2, <1>4 DEF Proper, Calling, Busy
<1>8. \A x \in 0 .. Depth * Width - 1 : SIZEOF * x < MemsetBytes => x \in b.left
  BY <1>3
<1>9. doing' = [u \in Threads |-> doing'[u]]
  BY <1>2
<1> HIDE DEF b
<1> QED
  BY <1>1, <1>4, <1>5, <1>6, <1>7, <1>8, <1>9

(* One counter is set to 0. *)
LEMMA ClearCounterStep ==
  ASSUME Counters, NEW t \in Threads, ClearCounter(t)
  PROVE  /\ Alone(t) /\ doing[t].at = "clear" /\ InClear(doing'[t]) /\ doing'[t].at = "clear"
         /\ done' = done /\ begun' = begun /\ total' = total /\ clean' = clean
         /\ sk' \in [mode : {COUNT_MIN}, width : {Width}, depth : {Depth}, shift : {Log2(Width)},
                     counts : [0 .. Depth * Width - 1 -> 0 .. UINT32_MAX], seed : {KeptSeed(Seed)}]
         /\ \E x \in 0 .. Depth * Width - 1 :
              /\ doing'[t].left = doing[t].left \ {x}
              /\ \A y \in 0 .. Depth * Width - 1 :
                   sk'.counts[y] = IF y = x THEN 0 ELSE sk.counts[y]
<1>1. PICK x \in doing[t].left :
        /\ sk' = [sk EXCEPT !.counts = [@ EXCEPT ![x] = 0]]
        /\ doing' = [doing EXCEPT ![t] = [at |-> "clear", left |-> doing[t].left \ {x}]]
  BY DEF ClearCounter
<1>2. doing[t].at = "clear" /\ done' = done /\ begun' = begun /\ total' = total /\ clean' = clean
  BY DEF ClearCounter
<1>3. InClear(doing[t]) /\ x \in 0 .. Depth * Width - 1
  BY <1>1, <1>2, CallAt DEF InClear
<1> DEFINE d == [at |-> "clear", left |-> doing[t].left \ {x}]
           f == [sk.counts EXCEPT ![x] = 0]
<1>4. Alone(t) /\ doing'[t] = d
  <2> HIDE DEF d
  <2> QED BY <1>1, AloneStep DEF d
<1>5. InClear(d) /\ d.at = "clear" /\ d.left = doing[t].left \ {x}
  BY <1>3 DEF InClear
<1>6. f \in [0 .. Depth * Width - 1 -> 0 .. UINT32_MAX]
      /\ \A y \in 0 .. Depth * Width - 1 : f[y] = IF y = x THEN 0 ELSE sk.counts[y]
  <2>1. sk.counts \in [0 .. Depth * Width - 1 -> 0 .. UINT32_MAX] /\ 0 \in 0 .. UINT32_MAX
    BY CounterMax DEF Counters
  <2> QED BY <1>3, <2>1
<1>7. sk' = [sk EXCEPT !.counts = f]
  BY <1>1
<1> HIDE DEF f, d
<1>8. /\ sk' \in [mode : {COUNT_MIN}, width : {Width}, depth : {Depth}, shift : {Log2(Width)},
                  counts : [0 .. Depth * Width - 1 -> 0 .. UINT32_MAX], seed : {KeptSeed(Seed)}]
      /\ sk'.counts = f
  BY <1>6, <1>7 DEF Counters
<1> QED
  BY <1>2, <1>3, <1>4, <1>5, <1>6, <1>8

LEMMA ClearEndStep ==
  ASSUME Counters, NEW t \in Threads, ClearEnd(t)
  PROVE  /\ Alone(t) /\ doing[t].at = "clear" /\ doing[t].left = {} /\ doing'[t] = Idle
         /\ UNCHANGED <<sk, done, begun, total, clean, added>>
<1>1. /\ doing[t].at = "clear" /\ doing[t].left = {} /\ doing' = [doing EXCEPT ![t] = Idle]
      /\ UNCHANGED <<sk, done, begun, total, clean, added>>
  BY DEF ClearEnd
<1> QED
  BY <1>1, AloneStep

(* What the store of one counter does to all. *)
LEMMA StoreCounts ==
  ASSUME Counters, NEW t \in Threads, IncStore(t)
  PROVE  /\ sk' \in [mode : {COUNT_MIN}, width : {Width}, depth : {Depth}, shift : {Log2(Width)},
                     counts : [0 .. Depth * Width - 1 -> 0 .. UINT32_MAX], seed : {KeptSeed(Seed)}]
         /\ sk'.counts[Cell(doing[t].h, doing[t].i)] = UInt32(doing[t].loaded + 1)
         /\ \A x \in 0 .. Depth * Width - 1 :
              x # Cell(doing[t].h, doing[t].i) => sk'.counts[x] = sk.counts[x]
<1> DEFINE x == Cell(doing[t].h, doing[t].i)
           v == UInt32(doing[t].loaded + 1)
           f == [sk.counts EXCEPT ![x] = v]
<1>1. sk' = [sk EXCEPT !.counts = f] /\ InCall(doing[t]) /\ doing[t].at = "store"
  BY StoreStep
<1>2. x \in 0 .. Depth * Width - 1
  BY <1>1, IdxCell
<1>3. v \in 0 .. UINT32_MAX
  BY <1>1, CounterMax, Fits32 DEF InCall, CallFields
<1> HIDE DEF v, x
<1>4. f \in [0 .. Depth * Width - 1 -> 0 .. UINT32_MAX] /\ f[x] = v
      /\ \A y \in 0 .. Depth * Width - 1 : y # x => f[y] = sk.counts[y]
  <2>1. sk.counts \in [0 .. Depth * Width - 1 -> 0 .. UINT32_MAX]
    BY DEF Counters
  <2> QED BY <1>2, <1>3, <2>1
<1> HIDE DEF f
<1>5. sk'.counts = f /\ sk' \in [mode : {COUNT_MIN}, width : {Width}, depth : {Depth}, shift : {Log2(Width)},
                     counts : [0 .. Depth * Width - 1 -> 0 .. UINT32_MAX], seed : {KeptSeed(Seed)}]
  BY <1>1, <1>4 DEF Counters
<1> QED
  BY <1>4, <1>5 DEF x, v

LEMMA CallsTyped ==
  ASSUME Counters, NEW t \in Threads, Alone(t),
         doing'[t] = Idle \/ InCall(doing'[t]) \/ InClear(doing'[t])
  PROVE  /\ doing' = [u \in Threads |-> doing'[u]]
         /\ \A u \in Threads : Proper(doing'[u])
<1>1. \A u \in Threads : u = t \/ doing'[u] = doing[u]
  BY DEF Alone
<1>2. \A u \in Threads : Proper(doing[u])
  BY DEF Counters
<1>3. Proper(doing'[t])
  BY DEF Proper
<1> QED
  BY <1>1, <1>2, <1>3 DEF Alone

(* The steps of a count-min sketch. *)
CountNext ==
     \E t \in Threads :
       \/ \E h \in HS : BeginInc(t, h) \/ BeginCount(t, h)
       \/ IncLoad(t) \/ IncStore(t) \/ IncRead(t) \/ CountRead(t) \/ Return(t)
       \/ ClearBegin(t) \/ ClearCounter(t) \/ ClearEnd(t)

LEMMA CountOnly ==
  ASSUME Counters, SketchNext
  PROVE  CountNext
  BY Sketched DEF SketchNext, CountNext, bloom_add, bloom_expand, COUNT_MIN, BLOOM_FILTER

LEMMA CountersStep ==
  ASSUME Counters, CountNext
  PROVE  Counters'
<1> DEFINE Calls == doing' = [u \in Threads |-> doing'[u]]
                    /\ \A u \in Threads : Proper(doing'[u])
           Sks == [mode : {COUNT_MIN}, width : {Width}, depth : {Depth}, shift : {Log2(Width)},
                   counts : [0 .. Depth * Width - 1 -> 0 .. UINT32_MAX], seed : {KeptSeed(Seed)}]
           Hist == done' \in [HS -> Nat] /\ begun' \in Nat /\ total' \in Nat /\ clean' \in BOOLEAN
                   /\ added' = {}
<1> SUFFICES sk' \in Sks /\ Calls /\ Hist
  BY DEF Counters
<1>0. sk \in Sks /\ done \in [HS -> Nat] /\ begun \in Nat /\ total \in Nat /\ clean \in BOOLEAN
      /\ added = {}
  BY DEF Counters
<1>1. ASSUME NEW t \in Threads, NEW h \in HS, BeginInc(t, h) PROVE sk' \in Sks /\ Calls /\ Hist
  <2>1. Begin(t, "load", h) /\ begun' = begun + 1 /\ total' = total + 1
    BY <1>1 DEF BeginInc
  <2>2. Calls
    BY <2>1, BeginStep, CallsTyped
  <2> HIDE DEF Calls, Sks
  <2> QED BY <1>0, <2>1, <2>2 DEF Begin
<1>2. ASSUME NEW t \in Threads, NEW h \in HS, BeginCount(t, h) PROVE sk' \in Sks /\ Calls /\ Hist
  <2>1. Begin(t, "count", h) /\ begun' = begun /\ total' = total
    BY <1>2 DEF BeginCount
  <2>2. Calls
    BY <2>1, BeginStep, CallsTyped
  <2> HIDE DEF Calls, Sks
  <2> QED BY <1>0, <2>1, <2>2 DEF Begin
<1>3. ASSUME NEW t \in Threads, IncLoad(t) PROVE sk' \in Sks /\ Calls /\ Hist
  <2>1. Calls
    BY <1>3, LoadStep, CallsTyped
  <2> QED BY <1>0, <1>3, <2>1 DEF IncLoad
<1>4. ASSUME NEW t \in Threads, IncStore(t) PROVE sk' \in Sks /\ Calls /\ Hist
  <2>1. Calls
    BY <1>4, StoreStep, CallsTyped
  <2>2. sk' \in Sks
    BY <1>4, StoreCounts
  <2> HIDE DEF Calls, Sks
  <2> QED BY <1>0, <1>4, <2>1, <2>2 DEF IncStore
<1>5. ASSUME NEW t \in Threads, IncRead(t) \/ CountRead(t) PROVE sk' \in Sks /\ Calls /\ Hist
  <2>1. PICK seen \in 0 .. UINT32_MAX : EndRow(t, doing[t].op, seen)
    BY <1>5, ReadStep, CountStep
  <2>2. InCall(doing[t]) /\ doing[t].at \in {"read", "count"}
    BY <1>5, ReadStep, CountStep
  <2>3. Calls
    BY <2>1, <2>2, RowStep, CallsTyped
  <2>4. done' \in [HS -> Nat]
    <3>1. doing[t].h \in HS
      BY <2>2 DEF InCall, CallFields
    <3>2. done' = done \/ done' = [done EXCEPT ![doing[t].h] = @ + 1]
      BY <2>1, <2>2, RowStep
    <3> QED BY <1>0, <3>1, <3>2
  <2> HIDE DEF Calls
  <2> QED BY <1>0, <2>1, <2>3, <2>4 DEF EndRow
<1>6. ASSUME NEW t \in Threads, Return(t) PROVE sk' \in Sks /\ Calls /\ Hist
  <2>1. Calls
    BY <1>6, ReturnStep, CallsTyped
  <2> QED BY <1>0, <1>6, <2>1 DEF Return
<1>7. ASSUME NEW t \in Threads, ClearBegin(t) PROVE sk' \in Sks /\ Calls /\ Hist
  <2>1. /\ sk' = sk /\ Calls /\ done' = [h \in HS |-> 0] /\ total' = total
        /\ clean' = TRUE /\ begun' = Cardinality(Counting)
    BY <1>7, ClearBeginStep
  <2>2. Cardinality(Counting) \in Nat
    <3>1. IsFiniteSet(Counting)
      BY ThreadAssumption, FS_Subset DEF Counting
    <3> QED BY <3>1, FS_CardinalityType
  <2>3. added' = added
    BY <1>7 DEF ClearBegin
  <2> HIDE DEF Calls, Sks
  <2> QED BY <1>0, <2>1, <2>2, <2>3
<1>8. ASSUME NEW t \in Threads, ClearCounter(t) PROVE sk' \in Sks /\ Calls /\ Hist
  <2>1. /\ sk' \in Sks /\ done' = done /\ begun' = begun /\ total' = total /\ clean' = clean
        /\ Alone(t) /\ InClear(doing'[t])
    BY <1>8, ClearCounterStep
  <2>2. Calls
    BY <2>1, CallsTyped
  <2>3. added' = added
    BY <1>8 DEF ClearCounter
  <2> HIDE DEF Calls, Sks
  <2> QED BY <1>0, <2>1, <2>2, <2>3
<1>9. ASSUME NEW t \in Threads, ClearEnd(t) PROVE sk' \in Sks /\ Calls /\ Hist
  <2>1. Calls
    BY <1>9, ClearEndStep, CallsTyped
  <2> HIDE DEF Calls, Sks
  <2> QED BY <1>0, <1>9, <2>1 DEF ClearEnd
<1> HIDE DEF Calls, Sks, Hist
<1> QED
  BY <1>1, <1>2, <1>3, <1>4, <1>5, <1>6, <1>7, <1>8, <1>9 DEF CountNext
-----------------------------------------------------------------------------
(* The Bloom filter.  Its width is a multiple of the bits of a word.       *)
LEMMA Multiple32 ==
  /\ 2 ^ 5 = 32
  /\ \E q \in Nat : BloomWidth = 32 * q
<1>1. 2 ^ 0 = 1
  <2>1. IsFiniteSet(1 .. 0) /\ Cardinality(1 .. 0) = 0
    BY FS_Interval
  <2>2. Cardinality(SUBSET (1 .. 0)) = 2 ^ 0
    BY <2>1, FS_SUBSET
  <2>3. SUBSET (1 .. 0) = {{}}
    OBVIOUS
  <2> QED BY <2>2, <2>3, FS_Singleton
<1>2. 2 ^ 1 = 2 /\ 2 ^ 2 = 4 /\ 2 ^ 3 = 8 /\ 2 ^ 4 = 16 /\ 2 ^ 5 = 32
  <2>1. 2 ^ (0 + 1) = 2 * 2 ^ 0 /\ 2 ^ (1 + 1) = 2 * 2 ^ 1 /\ 2 ^ (2 + 1) = 2 * 2 ^ 2
        /\ 2 ^ (3 + 1) = 2 * 2 ^ 3 /\ 2 ^ (4 + 1) = 2 * 2 ^ 4
    BY PowerStep
  <2>2. 0 + 1 = 1 /\ 1 + 1 = 2 /\ 2 + 1 = 3 /\ 3 + 1 = 4 /\ 4 + 1 = 5
    OBVIOUS
  <2> QED BY <1>1, <2>1, <2>2
<1> DEFINE S == {n \in Nat : \E q \in Nat : 2 ^ (n + 5) = 32 * q}
<1>3. 0 \in S
  BY <1>2
<1>4. ASSUME NEW n \in Nat, n \in S PROVE n + 1 \in S
  <2>1. PICK q \in Nat : 2 ^ (n + 5) = 32 * q
    BY <1>4
  <2>2. n + 5 \in Nat /\ (n + 5) + 1 = (n + 1) + 5
    OBVIOUS
  <2>3. 2 ^ ((n + 5) + 1) = 2 * 2 ^ (n + 5)
    BY <2>2, PowerStep
  <2>4. 2 ^ ((n + 1) + 5) = 32 * (2 * q) /\ 2 * q \in Nat
    BY <2>1, <2>2, <2>3
  <2>5. \E p \in Nat : 2 ^ ((n + 1) + 5) = 32 * p
    BY <2>4, Zenon
  <2>6. n + 1 \in Nat
    OBVIOUS
  <2> QED BY <2>5, <2>6, Zenon
<1>5. Nat \subseteq S
  <2> HIDE DEF S
  <2> QED BY <1>3, <1>4, Inductive
<1>6. BloomWidth >= 32
  BY Constructed DEF Constructs, COUNT_MIN, BLOOM_FILTER, SIZEOF
<1>7. PICK b \in 0 .. BloomWidth : 2 ^ b = BloomWidth
  BY <1>6, Constructed DEF Constructs, IsPowerOf2
<1>8. b >= 5
  <2>1. b \in {0, 1, 2, 3, 4} => 2 ^ b < 32
    <3>1. 2 ^ 0 < 32 /\ 2 ^ 1 < 32 /\ 2 ^ 2 < 32 /\ 2 ^ 3 < 32 /\ 2 ^ 4 < 32
      BY <1>1, <1>2
    <3> QED BY <3>1, Zenon
  <2>2. b \in Nat /\ (b < 5 => b \in {0, 1, 2, 3, 4})
    BY WidthAssumption
  <2> QED BY <1>6, <1>7, <2>1, <2>2
<1>9. b - 5 \in Nat /\ (b - 5) + 5 = b
  BY <1>8, WidthAssumption
<1> QED
  BY <1>2, <1>5, <1>7, <1>9

Bits(width) == {b \in Nat \X Nat : b[1] < width \div (SIZEOF * 8) /\ b[2] < SIZEOF * 8}

Filter ==
  /\ sk \in [mode : {BLOOM_FILTER}, width : {BloomWidth, 2 * BloomWidth}, depth : {Depth}, shift : {0},
             counts : SUBSET Bits(sk.width), seed : {KeptSeed(Seed)}]
  /\ doing = [t \in Threads |-> Idle]
  /\ done = [h \in HS |-> 0]
  /\ added \subseteq Keys
  /\ \A k \in added : BitOf(sk, k) \in sk.counts

LEMMA BitIn ==
  ASSUME NEW width \in {BloomWidth, 2 * BloomWidth}, NEW k \in Keys, NEW b,
         b.seed = KeptSeed(Seed), b.width = width
  PROVE  BitOf(b, k) \in Bits(width)
<1>1. PICK q \in Nat : BloomWidth = 32 * q
  BY Multiple32
<1>2. PICK r \in Nat : width = 32 * r /\ r > 0
  <2>1. BloomWidth >= 32 /\ BloomWidth \in Nat
    BY WidthAssumption, Constructed DEF Constructs, COUNT_MIN, BLOOM_FILTER, SIZEOF
  <2>2. CASE width = BloomWidth
    BY <1>1, <2>1, <2>2
  <2>3. CASE width = 2 * BloomWidth
    <3>1. width = 32 * (2 * q) /\ 2 * q \in Nat /\ 2 * q > 0
      BY <1>1, <2>1, <2>3
    <3> QED BY <3>1
  <2> QED BY <2>2, <2>3
<1> DEFINE idx == Murmur64[<<KeptSeed(Seed), k>>] % width
<1>3. Murmur64[<<KeptSeed(Seed), k>>] \in Nat
  BY HashAssumption
<1>4. idx \in 0 .. 32 * r - 1
  BY <1>2, <1>3
<1>5. BitOf(b, k) = <<idx \div 32, idx % 32>>
  <2>1. 2 ^ (SIZEOF + 1) = 32 /\ SIZEOF * 8 = 32
    <3>1. SIZEOF + 1 = 5
      BY DEF SIZEOF
    <3> QED BY <3>1, Multiple32 DEF SIZEOF
  <2> QED BY <2>1 DEF BitOf
<1> HIDE DEF idx
<1>6. idx \div 32 \in Nat /\ idx \div 32 < r /\ idx % 32 \in Nat /\ idx % 32 < 32 /\ (32 * r) \div 32 = r
  BY <1>2, <1>4
<1> QED
  BY <1>2, <1>5, <1>6 DEF Bits, SIZEOF

LEMMA FilterStep ==
  ASSUME Filter, SketchNext
  PROVE  Filter'
<1>1. /\ sk.mode = BLOOM_FILTER /\ sk.mode # COUNT_MIN
      /\ \A t \in Threads : doing[t].at = "idle"
  BY DEF Filter, Idle, BLOOM_FILTER, COUNT_MIN
<1>2. CASE \E t \in Threads :
             \/ \E h \in Hashes : BeginInc(t, h) \/ BeginCount(t, h)
             \/ IncLoad(t) \/ IncStore(t) \/ IncRead(t) \/ CountRead(t) \/ Return(t)
             \/ ClearBegin(t) \/ ClearCounter(t) \/ ClearEnd(t)
  BY <1>1, <1>2 DEF BeginInc, BeginCount, Begin, IncLoad, IncStore, IncRead, CountRead, Return,
                    ClearBegin, ClearCounter, ClearEnd
<1>3. ASSUME NEW k \in Keys, bloom_add(k) PROVE Filter'
  <2> DEFINE f == sk.counts \union {BitOf(sk, k)}
  <2>1. sk' = [sk EXCEPT !.counts = f] /\ added' = added \union {k} /\ UNCHANGED <<doing, done>>
    BY <1>3 DEF bloom_add
  <2>2. f \subseteq Bits(sk.width)
    BY BitIn DEF Filter
  <2> HIDE DEF f
  <2>3. /\ sk' \in [mode : {BLOOM_FILTER}, width : {BloomWidth, 2 * BloomWidth}, depth : {Depth},
                    shift : {0}, counts : SUBSET Bits(sk.width), seed : {KeptSeed(Seed)}]
        /\ sk'.width = sk.width /\ sk'.seed = sk.seed /\ sk'.counts = f
    BY <2>1, <2>2 DEF Filter
  <2>4. \A j : BitOf(sk', j) = BitOf(sk, j)
    BY <2>3 DEF BitOf
  <2>5. \A j \in added' : BitOf(sk', j) \in sk'.counts
    BY <2>1, <2>3, <2>4 DEF Filter, f
  <2>6. doing' = [t \in Threads |-> Idle] /\ done' = [h \in HS |-> 0] /\ added' \subseteq Keys
    BY <2>1 DEF Filter
  <2> QED BY <2>3, <2>5, <2>6 DEF Filter
<1>4. CASE bloom_expand
  <2>1. sk' = [sk EXCEPT !.width = 2 * BloomWidth, !.counts = {}] /\ added' = {}
        /\ UNCHANGED <<doing, done>>
    BY <1>4, SizeFits DEF bloom_expand
  <2>2. sk' \in [mode : {BLOOM_FILTER}, width : {BloomWidth, 2 * BloomWidth}, depth : {Depth},
                 shift : {0}, counts : {{}}, seed : {KeptSeed(Seed)}]
    BY <2>1 DEF Filter
  <2> QED BY <2>1, <2>2 DEF Filter
<1> QED
  BY <1>2, <1>3, <1>4 DEF SketchNext

(* The sketch that was constructed is one or the other, and stays it.      *)
LEMMA ShapeInit ==
  ASSUME SketchInit
  PROVE  Counters \/ Filter
<1>1. CASE sk = sketch_construct(Width, Depth, Seed, COUNT_MIN)
  <2>1. 0 \in 0 .. UINT32_MAX
    BY CounterMax
  <2>2. sk \in [mode : {COUNT_MIN}, width : {Width}, depth : {Depth}, shift : {Log2(Width)},
                counts : [0 .. Depth * Width - 1 -> 0 .. UINT32_MAX], seed : {KeptSeed(Seed)}]
    BY <1>1, <2>1, SizeFits DEF sketch_construct
  <2>3. sk.seed = KeptSeed(Seed)
    BY <2>2
  <2> QED BY <2>2, <2>3 DEF SketchInit, Counters, Hashes, HS, Proper
<1>2. CASE sk = sketch_construct(BloomWidth, Depth, Seed, BLOOM_FILTER)
  <2>1. sk \in [mode : {BLOOM_FILTER}, width : {BloomWidth}, depth : {Depth}, shift : {0},
                counts : {{}}, seed : {KeptSeed(Seed)}]
    BY <1>2 DEF sketch_construct, COUNT_MIN, BLOOM_FILTER
  <2>2. sk.seed = KeptSeed(Seed) /\ sk.counts = {}
    BY <2>1
  <2> QED BY <2>1, <2>2 DEF SketchInit, Filter, Hashes, HS
<1> QED
  BY <1>1, <1>2 DEF SketchInit

LEMMA ShapeInvariant == SketchSpec => [](Counters \/ Filter)
<1>1. SketchInit => Counters \/ Filter
  BY ShapeInit
<1>2. (Counters \/ Filter) /\ [SketchNext]_skvars => (Counters \/ Filter)'
  <2>1. CASE UNCHANGED skvars
    BY <2>1 DEF skvars, Counters, Filter
  <2>2. CASE SketchNext
    BY <2>2, CountOnly, CountersStep, FilterStep
  <2> QED BY <2>1, <2>2
<1> QED
  BY <1>1, <1>2, PTL DEF SketchSpec

(* No call counts or reads outside the counters that were allocated        *)
(* (data_sketch.c:70, 98), and no bit is set outside the words of a Bloom  *)
(* filter (data_sketch.c:125), for any number of threads, any hashes and   *)
(* every width and depth that sketch_construct accepts and that do not     *)
(* wrap.                                                                   *)
THEOREM AllInBounds == SketchSpec => []InBounds
<1>1. Counters => InBounds
  <2> SUFFICES ASSUME Counters PROVE InBounds
    OBVIOUS
  <2>1. sk.counts \in [0 .. Depth * Width - 1 -> 0 .. UINT32_MAX] /\ sk.mode = COUNT_MIN
    BY DEF Counters
  <2>2. ASSUME NEW t \in Threads, doing[t].at \in {"load", "store", "read", "count"}
        PROVE  Idx(doing[t]) \in DOMAIN sk.counts
    <3>1. InCall(doing[t])
      BY <2>2, CallAt DEF Calling
    <3>2. Idx(doing[t]) \in 0 .. Depth * Width - 1
      BY <2>2, <3>1, IdxCell
    <3> QED BY <2>1, <3>2
  <2> QED BY <2>1, <2>2 DEF InBounds
<1>2. Filter => InBounds
  BY DEF Filter, InBounds, Bits, COUNT_MIN, BLOOM_FILTER
<1> QED
  BY <1>1, <1>2, ShapeInvariant, PTL

(* A key that was added to the Bloom filter since it was last expanded     *)
(* exists, whatever the hashes and the width (data_sketch.c:117-148).      *)
THEOREM AddedExist == SketchSpec => []NoFalseNegative
<1>1. Counters \/ Filter => NoFalseNegative
  BY DEF Counters, Filter, NoFalseNegative, bloom_exists
<1> QED
  BY <1>1, ShapeInvariant, PTL
-----------------------------------------------------------------------------
(* How far a call that counts has come: past the counter of row i, or      *)
(* still to store to it.                                                   *)
Past(c, i) == i < c.i \/ (i = c.i /\ c.at = "read")

Owes(c, i) == Busy(c) /\ ~Past(c, i)

Paid(c, h, i) == Busy(c) /\ c.h = h /\ c.fresh /\ Past(c, i)

Pend(f, i) == {t \in Threads : Owes(f[t], i)}

Did(f, h, i) == {t \in Threads : Paid(f[t], h, i)}

One(b) == IF b THEN 1 ELSE 0

LEMMA SizeStep ==
  ASSUME NEW S \in SUBSET Threads, NEW T \in SUBSET Threads, NEW t \in Threads, S \ {t} = T \ {t}
  PROVE  /\ Cardinality(S) \in Nat /\ Cardinality(T) \in Nat
         /\ Cardinality(T) = Cardinality(S) + One(t \in T) - One(t \in S)
         /\ t \in S => Cardinality(S) >= 1
<1>1. IsFiniteSet(S) /\ IsFiniteSet(T)
  BY ThreadAssumption, FS_Subset
<1>2. /\ Cardinality(S \ {t}) = IF t \in S THEN Cardinality(S) - 1 ELSE Cardinality(S)
      /\ Cardinality(T \ {t}) = IF t \in T THEN Cardinality(T) - 1 ELSE Cardinality(T)
  BY <1>1, FS_RemoveElement
<1>3. Cardinality(S) \in Nat /\ Cardinality(T) \in Nat
  BY <1>1, FS_CardinalityType
<1>4. t \in S => Cardinality(S) # 0
  BY <1>1, FS_EmptySet
<1>5. (IF t \in T THEN Cardinality(T) - 1 ELSE Cardinality(T)) =
      (IF t \in S THEN Cardinality(S) - 1 ELSE Cardinality(S))
  BY <1>2, Zenon
<1> QED
  BY <1>3, <1>4, <1>5 DEF One

LEMMA PendStep ==
  ASSUME NEW t \in Threads, Alone(t), NEW i
  PROVE  /\ Cardinality(Pend(doing, i)) \in Nat /\ Cardinality(Pend(doing', i)) \in Nat
         /\ Cardinality(Pend(doing', i)) = Cardinality(Pend(doing, i)) + One(Owes(doing'[t], i)) - One(Owes(doing[t], i))
         /\ Owes(doing[t], i) => Cardinality(Pend(doing, i)) >= 1
<1>1. \A u \in Threads : u # t => doing'[u] = doing[u]
  BY DEF Alone
<1>2. Pend(doing, i) \in SUBSET Threads /\ Pend(doing', i) \in SUBSET Threads /\ Pend(doing, i) \ {t} = Pend(doing', i) \ {t}
  BY <1>1 DEF Pend
<1>3. (t \in Pend(doing, i) <=> Owes(doing[t], i)) /\ (t \in Pend(doing', i) <=> Owes(doing'[t], i))
  BY DEF Pend
<1> QED
  BY <1>2, <1>3, SizeStep DEF One

LEMMA DidStep ==
  ASSUME NEW t \in Threads, Alone(t), NEW h, NEW i
  PROVE  /\ Cardinality(Did(doing, h, i)) \in Nat /\ Cardinality(Did(doing', h, i)) \in Nat
         /\ Cardinality(Did(doing', h, i)) =
              Cardinality(Did(doing, h, i)) + One(Paid(doing'[t], h, i)) - One(Paid(doing[t], h, i))
         /\ Paid(doing[t], h, i) => Cardinality(Did(doing, h, i)) >= 1
<1>1. \A u \in Threads : u # t => doing'[u] = doing[u]
  BY DEF Alone
<1>2. Did(doing, h, i) \in SUBSET Threads /\ Did(doing', h, i) \in SUBSET Threads /\ Did(doing, h, i) \ {t} = Did(doing', h, i) \ {t}
  BY <1>1 DEF Did
<1>3. (t \in Did(doing, h, i) <=> Paid(doing[t], h, i)) /\ (t \in Did(doing', h, i) <=> Paid(doing'[t], h, i))
  BY DEF Did
<1> QED
  BY <1>2, <1>3, SizeStep DEF One

LEMMA BusyStep ==
  ASSUME NEW t \in Threads, Alone(t)
  PROVE  /\ Cardinality(Counting) \in Nat /\ Cardinality(Counting') \in Nat
         /\ Cardinality(Counting') = Cardinality(Counting) + One(Busy(doing'[t])) - One(Busy(doing[t]))
<1>1. \A u \in Threads : u # t => doing'[u] = doing[u]
  BY DEF Alone
<1>2. Counting \in SUBSET Threads /\ Counting' \in SUBSET Threads /\ Counting \ {t} = Counting' \ {t}
  BY <1>1 DEF Counting
<1>3. (t \in Counting <=> Busy(doing[t])) /\ (t \in Counting' <=> Busy(doing'[t]))
  BY DEF Counting, Busy
<1> QED
  BY <1>2, <1>3, SizeStep DEF One

(* No counter can reach its limit: each of them, with the stores still to  *)
(* come, is at most the number of calls.                                   *)
NoWrap == MaxCalls <= UINT32_MAX

Limits ==
  /\ total <= MaxCalls
  /\ \A i \in Rows : \A x \in RowOf(i) : sk.counts[x] + Cardinality(Pend(doing, i)) <= total
  /\ \A t \in Threads, i \in Rows : doing[t].at = "store" /\ doing[t].i = i =>
       doing[t].loaded + Cardinality(Pend(doing, i)) <= total
  /\ \A t \in Threads : doing[t].at = "read" => doing[t].loaded + 1 <= total
  /\ \A h \in HS : done[h] + Cardinality(Counting) <= total

(* What the actions do to the counts of threads. *)
LEMMA OwesAfter ==
  /\ \A c, i : c.at \in {"idle", "clear", "count", "end"} => ~Owes(c, i)
  /\ \A c : InCall(c) /\ c.at \in {"load", "store"} => Owes(c, c.i)
  /\ \A c, d : \A i \in Rows : InCall(c) /\ InCall(d) /\ c.at = "load" /\ d.at = "store" /\ d.i = c.i =>
       (Owes(c, i) <=> Owes(d, i))
  /\ \A c, d : \A i \in Rows : InCall(c) /\ InCall(d) /\ c.at = "store" /\ d.at = "read" /\ d.i = c.i =>
       ~Owes(d, c.i) /\ (i # c.i => (Owes(c, i) <=> Owes(d, i)))
  /\ \A c, d : \A i \in Rows : InCall(c) /\ InCall(d) /\ c.at = "read" /\ d.i = c.i + 1
                               /\ d.at = (IF c.i + 1 = Depth THEN "end" ELSE "load") =>
       (Owes(c, i) <=> Owes(d, i))
<1>1. \A c : InCall(c) => c.i \in 0 .. Depth
  BY DEF InCall, CallFields
<1>2. Depth \in Nat
  BY WidthAssumption
<1>3. \A c, i : c.at \in {"idle", "clear", "count", "end"} => ~Owes(c, i)
  BY DEF Owes, Busy
<1>4. \A c : InCall(c) /\ c.at \in {"load", "store"} => Owes(c, c.i)
  BY <1>1, <1>2 DEF Owes, Busy, Past
<1>5. ASSUME NEW c, NEW d, NEW i \in Rows, InCall(c), InCall(d), c.at = "load", d.at = "store", d.i = c.i
      PROVE  Owes(c, i) <=> Owes(d, i)
  BY <1>5 DEF Owes, Busy, Past
<1>6. ASSUME NEW c, NEW d, NEW i \in Rows, InCall(c), InCall(d), c.at = "store", d.at = "read", d.i = c.i
      PROVE  ~Owes(d, c.i) /\ (i # c.i => (Owes(c, i) <=> Owes(d, i)))
  BY <1>6 DEF Owes, Busy, Past
<1>7. ASSUME NEW c, NEW d, NEW i \in Rows, InCall(c), InCall(d), c.at = "read", d.i = c.i + 1,
             d.at = (IF c.i + 1 = Depth THEN "end" ELSE "load")
      PROVE  Owes(c, i) <=> Owes(d, i)
  BY <1>1, <1>2, <1>7 DEF Owes, Busy, Past, Rows
<1> QED
  BY <1>3, <1>4, <1>5, <1>6, <1>7

(* A step that stores to no counter, when no call begins to count. *)
LEMMA LimitsKept ==
  ASSUME Counters, Limits, NEW t \in Threads, Alone(t), sk' = sk, total' = total,
         \A i \in Rows : Owes(doing[t], i) <=> Owes(doing'[t], i),
         \A i \in Rows : doing'[t].at = "store" /\ doing'[t].i = i =>
                           doing'[t].loaded + Cardinality(Pend(doing, i)) <= total,
         doing'[t].at # "read",
         \A h \in HS : done'[h] + Cardinality(Counting') <= total
  PROVE  Limits'
<1>1. \A i \in Rows : Cardinality(Pend(doing', i)) = Cardinality(Pend(doing, i))
  <2> SUFFICES ASSUME NEW i \in Rows
               PROVE  Cardinality(Pend(doing', i)) = Cardinality(Pend(doing, i))
    OBVIOUS
  <2> QED BY PendStep DEF One
<1>2. \A u \in Threads : u # t => doing'[u] = doing[u]
  BY DEF Alone
<1>3. \A i \in Rows : \A x \in RowOf(i) : sk'.counts[x] + Cardinality(Pend(doing', i)) <= total'
  BY <1>1 DEF Limits
<1>4. ASSUME NEW u \in Threads, NEW i \in Rows, doing'[u].at = "store", doing'[u].i = i
      PROVE  doing'[u].loaded + Cardinality(Pend(doing', i)) <= total'
  <2>1. CASE u = t
    BY <1>1, <1>4, <2>1
  <2>2. CASE u # t
    BY <1>1, <1>2, <1>4, <2>2 DEF Limits
  <2> QED BY <2>1, <2>2
<1>5. \A u \in Threads : doing'[u].at = "read" => doing'[u].loaded + 1 <= total'
  BY <1>2 DEF Limits
<1>6. total' <= MaxCalls
  BY DEF Limits
<1> QED
  BY <1>3, <1>4, <1>5, <1>6 DEF Limits

(* The counters of the rows are numbers, and so is what a call loaded. *)
LEMMA Numbers ==
  ASSUME Counters
  PROVE  /\ \A i \in Rows : \A x \in RowOf(i) : sk.counts[x] \in Nat /\ sk.counts[x] <= UINT32_MAX
         /\ \A t \in Threads : doing[t].at \in {"store", "read"} => doing[t].loaded \in Nat
         /\ total \in Nat /\ MaxCalls \in Nat /\ begun \in Nat /\ \A h \in HS : done[h] \in Nat
<1>1. sk.counts \in [0 .. Depth * Width - 1 -> 0 .. UINT32_MAX]
  BY DEF Counters
<1>2. \A i \in Rows : \A x \in RowOf(i) : x \in 0 .. Depth * Width - 1
  BY RowIn
<1>3. \A x \in 0 .. Depth * Width - 1 : sk.counts[x] \in Nat /\ sk.counts[x] <= UINT32_MAX
  <2>1. \A x \in 0 .. Depth * Width - 1 : sk.counts[x] \in 0 .. UINT32_MAX
    BY <1>1, Zenon
  <2>2. \A n \in 0 .. UINT32_MAX : n \in Nat /\ n <= UINT32_MAX
    BY CounterMax
  <2> QED BY <2>1, <2>2, Zenon
<1>4. ASSUME NEW t \in Threads, doing[t].at \in {"store", "read"} PROVE doing[t].loaded \in Nat
  <2>1. InCall(doing[t])
    BY <1>4, CallAt DEF Calling
  <2> QED BY <2>1, CounterMax DEF InCall, CallFields
<1>5. total \in Nat /\ MaxCalls \in Nat /\ begun \in Nat /\ \A h \in HS : done[h] \in Nat
  BY WidthAssumption DEF Counters
<1> QED
  BY <1>2, <1>3, <1>4, <1>5

LEMMA LimitsBegin ==
  ASSUME Counters, Limits, NEW t \in Threads, NEW h \in HS, BeginInc(t, h)
  PROVE  Limits'
<1>1. Begin(t, "load", h) /\ total' = total + 1 /\ total < MaxCalls /\ sk' = sk /\ done' = done
  BY DEF BeginInc, Begin
<1>2. doing[t] = Idle /\ InCall(doing'[t]) /\ Alone(t) /\ doing'[t].at = "load" /\ doing'[t].i = 0
  BY <1>1, BeginStep
<1>3. \A u \in Threads : u # t => doing'[u] = doing[u]
  BY <1>2 DEF Alone
<1>4. ASSUME NEW i \in Rows
      PROVE  /\ Cardinality(Pend(doing', i)) = Cardinality(Pend(doing, i)) + 1
             /\ Cardinality(Pend(doing, i)) \in Nat
  <2>1. ~Owes(doing[t], i) /\ Owes(doing'[t], i)
    BY <1>2 DEF Owes, Past, Busy, Idle, Rows
  <2> QED BY <1>2, <2>1, PendStep DEF One
<1>5. Cardinality(Counting') = Cardinality(Counting) + 1 /\ Cardinality(Counting) \in Nat
  BY <1>2, BusyStep DEF One, Busy, Idle
<1>6. ASSUME NEW i \in Rows, NEW x \in RowOf(i)
      PROVE  sk'.counts[x] + Cardinality(Pend(doing', i)) <= total'
  BY <1>1, <1>4, Numbers DEF Limits
<1>7. ASSUME NEW u \in Threads, NEW i \in Rows, doing'[u].at = "store", doing'[u].i = i
      PROVE  doing'[u].loaded + Cardinality(Pend(doing', i)) <= total'
  <2>1. doing[u].at = "store" /\ doing[u].i = i /\ doing'[u] = doing[u]
    BY <1>2, <1>3, <1>7
  <2> QED BY <1>1, <1>4, <2>1, Numbers DEF Limits
<1>8. ASSUME NEW u \in Threads, doing'[u].at = "read" PROVE doing'[u].loaded + 1 <= total'
  <2>1. doing[u].at = "read" /\ doing'[u] = doing[u]
    BY <1>2, <1>3, <1>8
  <2> QED BY <1>1, <2>1, Numbers DEF Limits
<1>9. \A j \in HS : done'[j] + Cardinality(Counting') <= total'
  BY <1>1, <1>5, Numbers DEF Limits
<1>10. total' <= MaxCalls
  BY <1>1, Numbers
<1> QED
  BY <1>6, <1>7, <1>8, <1>9, <1>10 DEF Limits

(* The value that is stored, when counters cannot reach their limit. *)
LEMMA StoredValue ==
  ASSUME NoWrap, Counters, Limits, NEW t \in Threads, doing[t].at = "store"
  PROVE  /\ InCall(doing[t]) /\ doing[t].i \in Rows
         /\ doing[t].loaded \in Nat /\ doing[t].loaded + 1 <= total
         /\ UInt32(doing[t].loaded + 1) = doing[t].loaded + 1
         /\ Cell(doing[t].h, doing[t].i) \in RowOf(doing[t].i)
<1>1. InCall(doing[t])
  BY CallAt DEF Calling
<1>2. doing[t].i \in Rows /\ doing[t].h \in HS
  BY <1>1, IdxCell DEF InCall, CallFields
<1>3. Owes(doing[t], doing[t].i)
  BY <1>1, OwesAfter
<1>4. Cardinality(Pend(doing, doing[t].i)) \in Nat /\ Cardinality(Pend(doing, doing[t].i)) >= 1
  <2>1. t \in Pend(doing, doing[t].i) /\ Pend(doing, doing[t].i) \in SUBSET Threads
    BY <1>3 DEF Pend
  <2> QED BY <2>1, SizeStep
<1>5. doing[t].loaded \in Nat /\ doing[t].loaded + 1 <= total /\ total <= MaxCalls
  BY <1>2, <1>4, Numbers DEF Limits
<1>6. doing[t].loaded + 1 <= UINT32_MAX
  BY <1>5, Numbers, CounterMax DEF NoWrap
<1>7. UInt32(doing[t].loaded + 1) = doing[t].loaded + 1
  BY <1>5, <1>6, Fits32
<1> QED
  BY <1>1, <1>2, <1>5, <1>7, CellIn

LEMMA LimitsStore ==
  ASSUME NoWrap, Counters, Limits, NEW t \in Threads, IncStore(t)
  PROVE  Limits'
<1> DEFINE c == doing[t]
           r == c.i
           z == Cell(c.h, r)
<1>1. /\ c.at = "store" /\ InCall(c) /\ InCall(doing'[t]) /\ Alone(t)
      /\ doing'[t].at = "read" /\ doing'[t].i = r /\ doing'[t].loaded = c.loaded
  BY StoreStep
<1>2. r \in Rows /\ c.loaded \in Nat /\ c.loaded + 1 <= total /\ z \in RowOf(r)
      /\ UInt32(c.loaded + 1) = c.loaded + 1
  BY <1>1, StoredValue
<1>3. /\ sk'.counts[z] = c.loaded + 1
      /\ \A i \in Rows : \A x \in RowOf(i) : x # z => sk'.counts[x] = sk.counts[x]
  BY <1>2, StoreCounts, RowIn
<1>4. total' = total /\ done' = done
  BY DEF IncStore
<1>5. \A u \in Threads : u # t => doing'[u] = doing[u]
  BY <1>1 DEF Alone
<1> HIDE DEF c, r, z
<1>6. ASSUME NEW i \in Rows
      PROVE  /\ Cardinality(Pend(doing, i)) \in Nat /\ Cardinality(Pend(doing', i)) \in Nat
             /\ i # r => Cardinality(Pend(doing', i)) = Cardinality(Pend(doing, i))
             /\ i = r => Cardinality(Pend(doing', i)) = Cardinality(Pend(doing, i)) - 1
  <2>1. Owes(c, r) /\ ~Owes(doing'[t], r) /\ (i # r => (Owes(c, i) <=> Owes(doing'[t], i)))
    BY <1>1, OwesAfter DEF r
  <2> QED BY <1>1, <2>1, PendStep DEF One, c
<1>7. ASSUME NEW i \in Rows, NEW x \in RowOf(i)
      PROVE  sk'.counts[x] + Cardinality(Pend(doing', i)) <= total'
  <2>1. CASE x = z
    <3>1. i = r
      BY <1>2, <2>1, RowsApart
    <3>2. c.loaded + Cardinality(Pend(doing, r)) <= total
      BY <1>1, <1>2 DEF Limits, c, r
    <3> QED BY <1>2, <1>3, <1>4, <1>6, <2>1, <3>1, <3>2, Numbers
  <2>2. CASE x # z
    <3>1. sk'.counts[x] = sk.counts[x] /\ sk.counts[x] + Cardinality(Pend(doing, i)) <= total
      BY <1>3, <2>2 DEF Limits
    <3> QED BY <1>4, <1>6, <3>1, Numbers
  <2> QED BY <2>1, <2>2
<1>8. ASSUME NEW u \in Threads, NEW i \in Rows, doing'[u].at = "store", doing'[u].i = i
      PROVE  doing'[u].loaded + Cardinality(Pend(doing', i)) <= total'
  <2>1. doing[u].at = "store" /\ doing[u].i = i /\ doing'[u] = doing[u]
    BY <1>1, <1>5, <1>8
  <2> QED BY <1>4, <1>6, <2>1, Numbers DEF Limits
<1>9. ASSUME NEW u \in Threads, doing'[u].at = "read" PROVE doing'[u].loaded + 1 <= total'
  <2>1. CASE u = t
    BY <1>1, <1>2, <1>4, <2>1
  <2>2. CASE u # t
    BY <1>4, <1>5, <1>9, <2>2 DEF Limits
  <2> QED BY <2>1, <2>2
<1>10. \A j \in HS : done'[j] + Cardinality(Counting') <= total'
  <2>1. Cardinality(Counting') = Cardinality(Counting)
    BY <1>1, BusyStep DEF One, Busy, c
  <2> QED BY <1>4, <2>1 DEF Limits
<1>11. total' <= MaxCalls
  BY <1>4 DEF Limits
<1> QED
  BY <1>7, <1>8, <1>9, <1>10, <1>11 DEF Limits

(* The end of a row changes how much calls owe only for the row after the  *)
(* last, which there is not.                                               *)
LEMMA LimitsRow ==
  ASSUME Counters, Limits, NEW t \in Threads, IncRead(t) \/ CountRead(t)
  PROVE  Limits'
<1> DEFINE c == doing[t]
<1>1. PICK seen \in 0 .. UINT32_MAX : EndRow(t, c.op, seen)
  BY ReadStep, CountStep
<1>2. InCall(c) /\ ((c.at = "read" /\ c.op = "load") \/ (c.at = "count" /\ c.op = "count"))
  BY ReadStep, CountStep
<1>3. /\ InCall(doing'[t]) /\ Alone(t)
      /\ doing'[t].at = (IF c.i + 1 = Depth THEN "end" ELSE c.op) /\ doing'[t].i = c.i + 1
      /\ done' = IF c.i + 1 = Depth /\ c.op = "load" /\ c.fresh
                 THEN [done EXCEPT ![c.h] = @ + 1] ELSE done
  BY <1>1, <1>2, RowStep
<1>4. sk' = sk /\ total' = total
  BY <1>1 DEF EndRow
<1> HIDE DEF c
<1>5. ASSUME NEW i \in Rows PROVE Owes(c, i) <=> Owes(doing'[t], i)
  <2>1. CASE c.at = "read" /\ c.op = "load"
    BY <1>2, <1>3, <2>1, OwesAfter
  <2>2. CASE c.at = "count" /\ c.op = "count"
    BY <1>2, <1>3, <2>2, OwesAfter
  <2> QED BY <1>2, <2>1, <2>2
<1>6. doing'[t].at # "read" /\ doing'[t].at # "store"
  BY <1>2, <1>3
<1>7. ASSUME NEW h \in HS PROVE done'[h] + Cardinality(Counting') <= total
  <2>1. /\ Cardinality(Counting) \in Nat /\ Cardinality(Counting') \in Nat
        /\ Cardinality(Counting') = Cardinality(Counting) + One(Busy(doing'[t])) - One(Busy(c))
    BY <1>3, BusyStep DEF c
  <2>2. CASE c.i + 1 = Depth /\ c.op = "load" /\ c.fresh
    <3>1. Busy(c) /\ ~Busy(doing'[t])
      BY <1>2, <1>3, <2>2 DEF Busy
    <3>2. c.h \in HS /\ done \in [HS -> Nat]
      BY <1>2 DEF InCall, CallFields, Counters
    <3>3. done'[h] = done[h] \/ done'[h] = done[h] + 1
      BY <1>3, <2>2, <3>2
    <3> QED BY <2>1, <3>1, <3>3, Numbers DEF Limits, One
  <2>3. CASE ~(c.i + 1 = Depth /\ c.op = "load" /\ c.fresh)
    <3>1. done' = done
      BY <1>3, <2>3
    <3>2. Busy(doing'[t]) => Busy(c)
      BY <1>2, <1>3 DEF Busy
    <3> QED BY <2>1, <3>1, <3>2, Numbers DEF Limits, One
  <2> QED BY <2>2, <2>3
<1> QED
  BY <1>3, <1>4, <1>5, <1>6, <1>7, LimitsKept DEF c

LEMMA LimitsClearBegin ==
  ASSUME Counters, Limits, NEW t \in Threads, ClearBegin(t)
  PROVE  Limits'
<1>1. total' = total /\ sk' = sk /\ done' = [h \in HS |-> 0]
  BY ClearBeginStep
<1>2. \A u \in Threads :
        /\ Busy(doing'[u]) <=> Busy(doing[u])
        /\ Busy(doing[u]) => /\ doing'[u].at = doing[u].at /\ doing'[u].i = doing[u].i
                             /\ doing'[u].loaded = doing[u].loaded
  BY ClearBeginStep
<1>3. \A i \in Rows : Pend(doing', i) = Pend(doing, i)
  BY <1>2 DEF Pend, Owes, Past
<1>4. Counting' = Counting
  BY <1>2 DEF Counting, Busy
<1>5. ASSUME NEW i \in Rows, NEW x \in RowOf(i)
      PROVE  sk'.counts[x] + Cardinality(Pend(doing', i)) <= total'
  BY <1>1, <1>3 DEF Limits
<1>6. ASSUME NEW u \in Threads, NEW i \in Rows, doing'[u].at = "store", doing'[u].i = i
      PROVE  doing'[u].loaded + Cardinality(Pend(doing', i)) <= total'
  BY <1>1, <1>2, <1>3, <1>6 DEF Limits, Busy
<1>7. \A u \in Threads : doing'[u].at = "read" => doing'[u].loaded + 1 <= total'
  BY <1>1, <1>2 DEF Limits, Busy
<1>8. ASSUME NEW h \in HS PROVE done'[h] + Cardinality(Counting') <= total'
  <2>1. done'[h] = 0
    BY <1>1
  <2>2. Cardinality(Counting) \in Nat
    <3>1. IsFiniteSet(Counting)
      BY ThreadAssumption, FS_Subset DEF Counting
    <3> QED BY <3>1, FS_CardinalityType
  <2>3. done[h] + Cardinality(Counting) <= total
    BY DEF Limits
  <2> QED BY <1>1, <1>4, <2>1, <2>2, <2>3, Numbers
<1>9. total' <= MaxCalls
  BY <1>1 DEF Limits
<1> QED
  BY <1>5, <1>6, <1>7, <1>8, <1>9 DEF Limits

(* The steps of a clear that runs only make counters smaller. *)
LEMMA LimitsClearing ==
  ASSUME Counters, Limits, NEW t \in Threads, ClearCounter(t) \/ ClearEnd(t)
  PROVE  Limits'
<1>1. /\ Alone(t) /\ total' = total /\ done' = done
      /\ doing[t].at = "clear" /\ doing'[t].at \in {"idle", "clear"}
  BY ClearCounterStep, ClearEndStep DEF Idle
<1>2. \A i \in Rows : \A x \in RowOf(i) : sk'.counts[x] = sk.counts[x] \/ sk'.counts[x] = 0
  BY ClearCounterStep, ClearEndStep, RowIn
<1>3. \A u \in Threads : u # t => doing'[u] = doing[u]
  BY <1>1 DEF Alone
<1>4. \A i \in Rows : Pend(doing', i) = Pend(doing, i)
  BY <1>1, <1>3 DEF Pend, Owes, Busy
<1>5. Counting' = Counting
  BY <1>1, <1>3 DEF Counting
<1>6. ASSUME NEW i \in Rows, NEW x \in RowOf(i)
      PROVE  sk'.counts[x] + Cardinality(Pend(doing', i)) <= total'
  <2>1. Cardinality(Pend(doing, i)) \in Nat
    <3>1. IsFiniteSet(Pend(doing, i))
      BY ThreadAssumption, FS_Subset DEF Pend
    <3> QED BY <3>1, FS_CardinalityType
  <2>2. sk.counts[x] + Cardinality(Pend(doing, i)) <= total /\ sk.counts[x] \in Nat /\ total \in Nat
    BY Numbers DEF Limits
  <2> QED BY <1>1, <1>2, <1>4, <2>1, <2>2
<1>7. ASSUME NEW u \in Threads, NEW i \in Rows, doing'[u].at = "store", doing'[u].i = i
      PROVE  doing'[u].loaded + Cardinality(Pend(doing', i)) <= total'
  <2>1. doing[u].at = "store" /\ doing[u].i = i /\ doing'[u] = doing[u]
    BY <1>1, <1>3, <1>7
  <2> QED BY <1>1, <1>4, <2>1 DEF Limits
<1>8. \A u \in Threads : doing'[u].at = "read" => doing'[u].loaded + 1 <= total'
  BY <1>1, <1>3 DEF Limits
<1>9. (\A h \in HS : done'[h] + Cardinality(Counting') <= total') /\ total' <= MaxCalls
  BY <1>1, <1>5 DEF Limits
<1> QED
  BY <1>6, <1>7, <1>8, <1>9 DEF Limits

LEMMA LimitsStep ==
  ASSUME NoWrap, Counters, Limits, CountNext
  PROVE  Limits'
<1>1. ASSUME NEW t \in Threads, NEW h \in HS, BeginCount(t, h) PROVE Limits'
  <2>1. Begin(t, "count", h) /\ total' = total /\ sk' = sk /\ done' = done
    BY <1>1 DEF BeginCount, Begin
  <2>2. doing[t] = Idle /\ InCall(doing'[t]) /\ Alone(t) /\ doing'[t].at = "count"
    BY <2>1, BeginStep
  <2>3. \A i \in Rows : Owes(doing[t], i) <=> Owes(doing'[t], i)
    BY <2>2, OwesAfter DEF Idle
  <2>4. Cardinality(Counting') = Cardinality(Counting)
    BY <2>2, BusyStep DEF One, Busy, Idle
  <2>5. \A j \in HS : done'[j] + Cardinality(Counting') <= total
    BY <2>1, <2>4 DEF Limits
  <2> QED BY <2>1, <2>2, <2>3, <2>5, LimitsKept
<1>2. ASSUME NEW t \in Threads, IncLoad(t) PROVE Limits'
  <2>1. /\ doing[t].at = "load" /\ InCall(doing[t]) /\ InCall(doing'[t]) /\ Alone(t)
        /\ doing'[t].at = "store" /\ doing'[t].i = doing[t].i
        /\ doing'[t].loaded = sk.counts[Cell(doing[t].h, doing[t].i)]
    BY <1>2, LoadStep
  <2>2. total' = total /\ sk' = sk /\ done' = done
    BY <1>2 DEF IncLoad
  <2>3. \A i \in Rows : Owes(doing[t], i) <=> Owes(doing'[t], i)
    BY <2>1, OwesAfter
  <2>4. Cardinality(Counting') = Cardinality(Counting)
    BY <2>1, BusyStep DEF One, Busy
  <2>5. \A j \in HS : done'[j] + Cardinality(Counting') <= total
    BY <2>2, <2>4 DEF Limits
  <2>6. ASSUME NEW i \in Rows, doing'[t].i = i
        PROVE  doing'[t].loaded + Cardinality(Pend(doing, i)) <= total
    <3>1. Cell(doing[t].h, i) \in RowOf(i)
      BY <2>1, CellIn DEF InCall, CallFields
    <3> QED BY <2>1, <2>6, <3>1 DEF Limits
  <2> QED BY <2>1, <2>2, <2>3, <2>5, <2>6, LimitsKept
<1>3. ASSUME NEW t \in Threads, Return(t) PROVE Limits'
  <2>1. doing[t].at = "end" /\ InCall(doing[t]) /\ Alone(t) /\ doing'[t] = Idle
    BY <1>3, ReturnStep
  <2>2. total' = total /\ sk' = sk /\ done' = done
    BY <1>3 DEF Return
  <2>3. \A i \in Rows : Owes(doing[t], i) <=> Owes(doing'[t], i)
    BY <2>1, OwesAfter DEF Idle
  <2>4. Cardinality(Counting') = Cardinality(Counting)
    BY <2>1, BusyStep DEF One, Busy, Idle
  <2>5. \A j \in HS : done'[j] + Cardinality(Counting') <= total
    BY <2>2, <2>4 DEF Limits
  <2>6. doing'[t].at # "store" /\ doing'[t].at # "read"
    BY <2>1 DEF Idle
  <2> QED BY <2>1, <2>2, <2>3, <2>5, <2>6, LimitsKept
<1> QED
  BY <1>1, <1>2, <1>3, LimitsBegin, LimitsStore, LimitsRow, LimitsClearBegin, LimitsClearing DEF CountNext
-----------------------------------------------------------------------------
(* Counters above 0: those of a hash that was counted since the last       *)
(* clear, and those that a call has stored to since it.                    *)
Positive ==
  /\ \A h \in HS, i \in Rows : done[h] > 0 => sk.counts[Cell(h, i)] > 0
  /\ \A t \in Threads, h \in HS, i \in Rows : Paid(doing[t], h, i) => sk.counts[Cell(h, i)] > 0

(* How a step of one thread changes what is paid. *)
LEMMA PaidAfter ==
  /\ \A c, h, i : c.at \in {"idle", "clear", "count", "end"} => ~Paid(c, h, i)
  /\ \A c : \A h, i : InCall(c) /\ c.at = "load" /\ c.i = 0 /\ i \in Rows => ~Paid(c, h, i)
  /\ \A c, d : \A h, i : InCall(c) /\ SameCall(c, d) /\ c.at = "load" /\ d.at = "store" /\ d.i = c.i =>
       (Paid(c, h, i) <=> Paid(d, h, i))
  /\ \A c, d : \A h, i : InCall(c) /\ SameCall(c, d) /\ c.at = "store" /\ d.at = "read" /\ d.i = c.i =>
       /\ i # c.i \/ h # c.h \/ ~c.fresh => (Paid(c, h, i) <=> Paid(d, h, i))
       /\ ~Paid(c, h, c.i)
       /\ Paid(d, c.h, c.i) <=> c.fresh
  /\ \A c, d : \A h : \A i \in Rows :
       InCall(c) /\ SameCall(c, d) /\ c.at = "read" /\ d.i = c.i + 1 =>
         /\ d.at = "load" => (Paid(c, h, i) <=> Paid(d, h, i))
         /\ c.fresh => (Paid(c, c.h, i) <=> i <= c.i)
<1>0. \A c : InCall(c) => c.i \in Nat /\ c.fresh \in BOOLEAN
  BY WidthAssumption DEF InCall, CallFields
<1>1. \A c, h, i : c.at \in {"idle", "clear", "count", "end"} => ~Paid(c, h, i)
  BY DEF Paid, Busy
<1>2. \A c : \A h, i : InCall(c) /\ c.at = "load" /\ c.i = 0 /\ i \in Rows => ~Paid(c, h, i)
  BY DEF Paid, Busy, Past, Rows
<1>3. ASSUME NEW c, NEW d, NEW h, NEW i, SameCall(c, d), c.at = "load", d.at = "store", d.i = c.i
      PROVE  Paid(c, h, i) <=> Paid(d, h, i)
  BY <1>3 DEF Paid, Busy, Past, SameCall
<1>4. ASSUME NEW c, NEW d, NEW h, NEW i, InCall(c), SameCall(c, d), c.at = "store", d.at = "read",
             d.i = c.i
      PROVE  /\ i # c.i \/ h # c.h \/ ~c.fresh => (Paid(c, h, i) <=> Paid(d, h, i))
             /\ ~Paid(c, h, c.i)
             /\ Paid(d, c.h, c.i) <=> c.fresh
  BY <1>0, <1>4 DEF Paid, Busy, Past, SameCall
<1>5. ASSUME NEW c, NEW d, NEW h, NEW i \in Rows, InCall(c), SameCall(c, d), c.at = "read", d.i = c.i + 1
      PROVE  /\ d.at = "load" => (Paid(c, h, i) <=> Paid(d, h, i))
             /\ c.fresh => (Paid(c, c.h, i) <=> i <= c.i)
  BY <1>0, <1>5 DEF Paid, Busy, Past, SameCall, Rows
<1> QED
  BY <1>1, <1>2, <1>3, <1>4, <1>5

(* The end of a row, as the counted history sees it: a call that ends has  *)
(* paid for every row, and one that goes on has paid what it had paid.     *)
LEMMA RowPaid ==
  ASSUME Counters, NEW t \in Threads, IncRead(t) \/ CountRead(t)
  PROVE  /\ Alone(t) /\ sk' = sk /\ clean' = clean /\ InCall(doing[t])
         /\ \/ /\ done' = done
               /\ \A h \in HS, i \in Rows : Paid(doing'[t], h, i) <=> Paid(doing[t], h, i)
            \/ /\ done' = [done EXCEPT ![doing[t].h] = @ + 1] /\ doing[t].h \in HS
               /\ \A h \in HS, i \in Rows :
                    ~Paid(doing'[t], h, i) /\ (Paid(doing[t], h, i) <=> h = doing[t].h)
<1> DEFINE c == doing[t]
           d == doing'[t]
<1>1. PICK seen \in 0 .. UINT32_MAX : EndRow(t, c.op, seen)
  BY ReadStep, CountStep
<1>2. InCall(c) /\ ((c.at = "read" /\ c.op = "load") \/ (c.at = "count" /\ c.op = "count"))
  BY ReadStep, CountStep
<1>3. /\ InCall(d) /\ Alone(t) /\ SameCall(c, d) /\ c.i \in Rows
      /\ d.at = (IF c.i + 1 = Depth THEN "end" ELSE c.op) /\ d.i = c.i + 1
      /\ done' = IF c.i + 1 = Depth /\ c.op = "load" /\ c.fresh
                 THEN [done EXCEPT ![c.h] = @ + 1] ELSE done
  BY <1>1, <1>2, RowStep
<1>4. sk' = sk /\ clean' = clean
  BY <1>1 DEF EndRow
<1>5. c.h \in HS /\ c.fresh \in BOOLEAN
  BY <1>2 DEF InCall, CallFields
<1> HIDE DEF c, d
<1>6. CASE c.at = "count"
  <2>1. c.op = "count" /\ d.at \in {"count", "end"} /\ done' = done
    BY <1>2, <1>3, <1>6
  <2> QED BY <1>2, <1>3, <1>4, <1>6, <2>1, PaidAfter DEF c, d
<1>7. CASE c.at = "read" /\ c.i + 1 # Depth
  <2>1. c.op = "load" /\ d.at = "load" /\ done' = done
    BY <1>2, <1>3, <1>7
  <2>2. \A h \in HS, i \in Rows : Paid(d, h, i) <=> Paid(c, h, i)
    BY <1>2, <1>3, <1>7, <2>1, PaidAfter
  <2> QED BY <1>2, <1>3, <1>4, <2>1, <2>2 DEF c, d
<1>8. CASE c.at = "read" /\ c.i + 1 = Depth /\ ~c.fresh
  <2>1. d.at = "end" /\ done' = done
    BY <1>3, <1>8
  <2>2. \A h, i : ~Paid(d, h, i) /\ ~Paid(c, h, i)
    BY <1>3, <1>8, <2>1, PaidAfter DEF Paid
  <2> QED BY <1>2, <1>3, <1>4, <2>1, <2>2 DEF c, d
<1>9. CASE c.at = "read" /\ c.i + 1 = Depth /\ c.fresh
  <2>1. d.at = "end" /\ c.op = "load" /\ done' = [done EXCEPT ![c.h] = @ + 1]
    BY <1>2, <1>3, <1>9
  <2>2. \A h, i : ~Paid(d, h, i)
    BY <1>3, <2>1, PaidAfter
  <2>3. \A i \in Rows : Paid(c, c.h, i)
    <3>1. \A i \in Rows : i <= c.i
      BY <1>3, <1>9, WidthAssumption DEF Rows
    <3> QED BY <1>2, <1>3, <1>9, <3>1, PaidAfter
  <2>4. \A h, i : Paid(c, h, i) => h = c.h
    BY DEF Paid
  <2> QED BY <1>2, <1>3, <1>4, <1>5, <2>1, <2>2, <2>3, <2>4 DEF c, d
<1> QED
  BY <1>2, <1>5, <1>6, <1>7, <1>8, <1>9

(* Steps that change neither counters nor what is done or paid. *)
LEMMA PaidKept ==
  ASSUME Counters, NEW t \in Threads,
         \/ \E h \in HS : BeginInc(t, h) \/ BeginCount(t, h)
         \/ IncLoad(t) \/ Return(t)
  PROVE  /\ Alone(t) /\ sk' = sk /\ done' = done /\ clean' = clean
         /\ \A h \in HS, i \in Rows : Paid(doing'[t], h, i) <=> Paid(doing[t], h, i)
<1>1. ASSUME NEW h \in HS, BeginInc(t, h) \/ BeginCount(t, h)
      PROVE  /\ Alone(t) /\ sk' = sk /\ done' = done /\ clean' = clean
             /\ \A j \in HS, i \in Rows : Paid(doing'[t], j, i) <=> Paid(doing[t], j, i)
  <2>1. PICK op \in {"load", "count"} : Begin(t, op, h)
    BY <1>1 DEF BeginInc, BeginCount
  <2>2. /\ doing[t] = Idle /\ InCall(doing'[t]) /\ Alone(t) /\ doing'[t].at = op /\ doing'[t].i = 0
    BY <2>1, BeginStep
  <2>3. \A j \in HS, i \in Rows : ~Paid(doing'[t], j, i) /\ ~Paid(doing[t], j, i)
    BY <2>2, PaidAfter DEF Idle
  <2> QED BY <2>1, <2>2, <2>3 DEF Begin
<1>2. CASE IncLoad(t)
  <2>1. \A h, i : Paid(doing'[t], h, i) <=> Paid(doing[t], h, i)
    BY <1>2, LoadStep, PaidAfter
  <2> QED BY <1>2, <2>1, LoadStep DEF IncLoad
<1>3. CASE Return(t)
  <2>1. \A h, i : Paid(doing'[t], h, i) <=> Paid(doing[t], h, i)
    BY <1>3, ReturnStep, PaidAfter DEF Idle
  <2> QED BY <1>3, <2>1, ReturnStep DEF Return
<1> QED
  BY <1>1, <1>2, <1>3

(* While a clear runs nothing is done and nothing is paid: every call that *)
(* ran was told that it began before the clear, and one that begins is     *)
(* told that a clear runs.                                                 *)
Quiet ==
  Clearing # {} => /\ \A h \in HS : done[h] = 0
                   /\ \A t \in Threads : Calling(doing[t]) => doing[t].fresh = FALSE

LEMMA QuietStep ==
  ASSUME Counters, Quiet, CountNext
  PROVE  Quiet'
<1>1. ASSUME NEW t \in Threads, Alone(t), Clearing # {} => done' = done,
             doing'[t].at = "clear" => doing[t].at = "clear",
             Calling(doing'[t]) /\ Clearing # {} => doing'[t].fresh = FALSE
      PROVE  Quiet'
  <2>1. \A u \in Threads : u # t => doing'[u] = doing[u]
    BY <1>1 DEF Alone
  <2>2. Clearing' # {} => Clearing # {}
    BY <1>1, <2>1 DEF Clearing
  <2> QED BY <1>1, <2>1, <2>2 DEF Quiet
<1>2. ASSUME NEW t \in Threads, NEW h \in HS, BeginInc(t, h) \/ BeginCount(t, h) PROVE Quiet'
  <2>1. PICK op \in {"load", "count"} : Begin(t, op, h)
    BY <1>2 DEF BeginInc, BeginCount
  <2>2. Alone(t) /\ doing'[t].at = op /\ doing'[t].fresh = (Clearing = {}) /\ done' = done
    BY <2>1, BeginStep DEF Begin
  <2> QED BY <1>1, <2>2
<1>3. ASSUME NEW t \in Threads, IncLoad(t) \/ IncStore(t) PROVE Quiet'
  <2>1. /\ InCall(doing[t]) /\ InCall(doing'[t]) /\ Alone(t) /\ SameCall(doing[t], doing'[t])
        /\ doing'[t].at \in {"store", "read"} /\ done' = done
    BY <1>3, LoadStep, StoreStep DEF IncLoad, IncStore
  <2>2. Calling(doing[t])
    BY <2>1, CallAt
  <2> QED BY <1>1, <2>1, <2>2 DEF Quiet, SameCall
<1>4. ASSUME NEW t \in Threads, IncRead(t) \/ CountRead(t) PROVE Quiet'
  <2>1. PICK seen \in 0 .. UINT32_MAX : EndRow(t, doing[t].op, seen)
    BY <1>4, ReadStep, CountStep
  <2>2. InCall(doing[t]) /\ doing[t].at \in {"read", "count"} /\ doing[t].op \in {"load", "count"}
    BY <1>4, ReadStep, CountStep
  <2>3. /\ Alone(t) /\ SameCall(doing[t], doing'[t]) /\ doing'[t].at # "clear"
        /\ ~doing[t].fresh => done' = done
    BY <2>1, <2>2, RowStep
  <2>4. Calling(doing[t])
    BY <2>2, CallAt
  <2> QED BY <1>1, <2>3, <2>4 DEF Quiet, SameCall
<1>5. ASSUME NEW t \in Threads, Return(t) PROVE Quiet'
  <2>1. Alone(t) /\ doing'[t] = Idle
    BY <1>5, ReturnStep
  <2>2. done' = done
    BY <1>5 DEF Return
  <2>3. doing'[t].at = "idle"
    BY <2>1 DEF Idle
  <2>4. ~Calling(doing'[t])
    BY <2>3 DEF Calling
  <2> QED BY <1>1, <2>1, <2>2, <2>3, <2>4
<1>6. ASSUME NEW t \in Threads, ClearBegin(t) PROVE Quiet'
  <2>1. done' = [h \in HS |-> 0] /\ \A u \in Threads : Calling(doing'[u]) => doing'[u].fresh = FALSE
    BY <1>6, ClearBeginStep
  <2> QED BY <2>1 DEF Quiet
<1>7. ASSUME NEW t \in Threads, ClearCounter(t) \/ ClearEnd(t) PROVE Quiet'
  <2>1. Alone(t) /\ doing[t].at = "clear" /\ doing'[t].at \in {"idle", "clear"} /\ done' = done
    BY <1>7, ClearCounterStep, ClearEndStep DEF Idle
  <2> QED BY <1>1, <2>1 DEF Calling
<1> QED
  BY <1>2, <1>3, <1>4, <1>5, <1>6, <1>7 DEF CountNext

(* So it is after every step of a clear but the last. *)
LEMMA NonePaid ==
  ASSUME Counters, Quiet, NEW t \in Threads, ClearBegin(t) \/ ClearCounter(t)
  PROVE  /\ \A h \in HS : done'[h] = 0
         /\ \A u \in Threads : \A h, i : ~Paid(doing'[u], h, i)
<1>1. \A c, h, i : ~Calling(c) \/ c.fresh = FALSE => ~Paid(c, h, i)
  BY DEF Paid, Busy, Calling
<1>2. (\A h \in HS : done'[h] = 0) /\ \A u \in Threads : Calling(doing'[u]) => doing'[u].fresh = FALSE
  <2>1. CASE ClearBegin(t)
    BY <2>1, ClearBeginStep
  <2>2. CASE ClearCounter(t)
    <3>1. Alone(t) /\ doing[t].at = "clear" /\ doing'[t].at = "clear" /\ done' = done
      BY <2>2, ClearCounterStep
    <3>2. Clearing # {}
      BY <3>1 DEF Clearing
    <3> QED BY <3>1, <3>2 DEF Quiet, Alone, Calling
  <2> QED BY <2>1, <2>2
<1> QED
  BY <1>1, <1>2

(* The last step of a clear is one of those that change neither. *)
LEMMA ClearEndKept ==
  ASSUME Counters, NEW t \in Threads, ClearEnd(t)
  PROVE  /\ Alone(t) /\ sk' = sk /\ done' = done /\ clean' = clean
         /\ \A h \in HS, i \in Rows : Paid(doing'[t], h, i) <=> Paid(doing[t], h, i)
  BY ClearEndStep, PaidAfter DEF Idle

LEMMA PositiveStep ==
  ASSUME NoWrap, Counters, Limits, Quiet, Positive, CountNext
  PROVE  Positive'
<1>1. ASSUME NEW t \in Threads, Alone(t), sk' = sk, done' = done,
             \A h \in HS, i \in Rows : Paid(doing'[t], h, i) <=> Paid(doing[t], h, i)
      PROVE  Positive'
  <2>1. \A u \in Threads : \A h \in HS, i \in Rows : Paid(doing'[u], h, i) <=> Paid(doing[u], h, i)
    BY <1>1 DEF Alone
  <2> QED BY <1>1, <2>1 DEF Positive
<1>2. ASSUME NEW t \in Threads, IncStore(t) PROVE Positive'
  <2> DEFINE c == doing[t]
             z == Cell(c.h, c.i)
  <2>1. c.at = "store" /\ InCall(c) /\ Alone(t) /\ SameCall(c, doing'[t])
        /\ doing'[t].at = "read" /\ doing'[t].i = c.i
    BY <1>2, StoreStep
  <2>2. sk'.counts[z] > 0
    BY <1>2, <2>1, StoreCounts, StoredValue
  <2>3. \A h \in HS, i \in Rows : Cell(h, i) # z => sk'.counts[Cell(h, i)] = sk.counts[Cell(h, i)]
    BY <1>2, StoreCounts, CellIn
  <2>4. done' = done
    BY <1>2 DEF IncStore
  <2> HIDE DEF c, z
  <2>5. ASSUME NEW h \in HS, NEW i \in Rows, Paid(doing'[t], h, i) PROVE sk'.counts[Cell(h, i)] > 0
    <3>1. CASE h = c.h /\ i = c.i
      BY <2>2, <3>1 DEF z
    <3>2. CASE ~(h = c.h /\ i = c.i)
      <4>1. Paid(c, h, i)
        BY <2>1, <2>5, <3>2, PaidAfter
      <4> QED BY <2>2, <2>3, <4>1 DEF Positive, c
    <3> QED BY <3>1, <3>2
  <2>6. \A u \in Threads : u # t => doing'[u] = doing[u]
    BY <2>1 DEF Alone
  <2>7. ASSUME NEW u \in Threads, NEW h \in HS, NEW i \in Rows, Paid(doing'[u], h, i)
        PROVE  sk'.counts[Cell(h, i)] > 0
    <3>1. CASE u = t
      BY <2>5, <2>7, <3>1
    <3>2. CASE u # t
      BY <2>2, <2>3, <2>6, <2>7, <3>2 DEF Positive
    <3> QED BY <3>1, <3>2
  <2>8. \A h \in HS, i \in Rows : done'[h] > 0 => sk'.counts[Cell(h, i)] > 0
    BY <2>2, <2>3, <2>4 DEF Positive
  <2> QED BY <2>7, <2>8 DEF Positive
<1>3. ASSUME NEW t \in Threads, IncRead(t) \/ CountRead(t) PROVE Positive'
  <2>1. CASE /\ done' = done
             /\ \A h \in HS, i \in Rows : Paid(doing'[t], h, i) <=> Paid(doing[t], h, i)
    BY <1>1, <1>3, <2>1, RowPaid
  <2>2. CASE /\ done' = [done EXCEPT ![doing[t].h] = @ + 1] /\ doing[t].h \in HS
             /\ \A h \in HS, i \in Rows :
                  ~Paid(doing'[t], h, i) /\ (Paid(doing[t], h, i) <=> h = doing[t].h)
    <3>1. Alone(t) /\ sk' = sk
      BY <1>3, RowPaid
    <3>2. \A u \in Threads, h \in HS, i \in Rows : Paid(doing'[u], h, i) => Paid(doing[u], h, i)
      BY <2>2, <3>1 DEF Alone
    <3>3. \A h \in HS : h # doing[t].h => done'[h] = done[h]
      BY <2>2 DEF Counters
    <3>4. \A i \in Rows : sk.counts[Cell(doing[t].h, i)] > 0
      BY <2>2 DEF Positive
    <3> QED BY <3>1, <3>2, <3>3, <3>4 DEF Positive
  <2> QED BY <1>3, <2>1, <2>2, RowPaid
<1>4. ASSUME NEW t \in Threads, ClearBegin(t) \/ ClearCounter(t) PROVE Positive'
  <2>1. /\ \A h \in HS : done'[h] = 0
        /\ \A u \in Threads : \A h, i : ~Paid(doing'[u], h, i)
    BY <1>4, NonePaid
  <2>2. \A h \in HS, i \in Rows : done'[h] > 0 => sk'.counts[Cell(h, i)] > 0
    BY <2>1
  <2>3. \A u \in Threads, h \in HS, i \in Rows : Paid(doing'[u], h, i) => sk'.counts[Cell(h, i)] > 0
    BY <2>1, Zenon
  <2> QED BY <2>2, <2>3, Zenon DEF Positive
<1> QED
  BY <1>1, <1>2, <1>3, <1>4, PaidKept, ClearEndKept DEF CountNext
-----------------------------------------------------------------------------
(* While no update is lost, a counter has at least the calls of each of    *)
(* its hashes that are done, and those that are past it.                   *)
Lower ==
  clean => \A h \in HS, i \in Rows : done[h] + Cardinality(Did(doing, h, i)) <= sk.counts[Cell(h, i)]

LEMMA LowerStep ==
  ASSUME NoWrap, Counters, Limits, Quiet, Lower, CountNext
  PROVE  Lower'
<1>0. \A h \in HS, i \in Rows : sk.counts[Cell(h, i)] \in Nat /\ done[h] \in Nat
  BY Numbers, CellIn
<1>1. ASSUME NEW t \in Threads, Alone(t), sk' = sk, done' = done, clean' = clean,
             \A h \in HS, i \in Rows : Paid(doing'[t], h, i) <=> Paid(doing[t], h, i)
      PROVE  Lower'
  <2>1. ASSUME NEW h \in HS, NEW i \in Rows
        PROVE  Cardinality(Did(doing', h, i)) = Cardinality(Did(doing, h, i))
    BY <1>1, DidStep DEF One
  <2> QED BY <1>1, <2>1 DEF Lower
<1>2. ASSUME NEW t \in Threads, IncStore(t) PROVE Lower'
  <2> DEFINE c == doing[t]
             z == Cell(c.h, c.i)
  <2>1. /\ c.at = "store" /\ InCall(c) /\ Alone(t) /\ SameCall(c, doing'[t])
        /\ doing'[t].at = "read" /\ doing'[t].i = c.i
        /\ clean' = (clean /\ sk.counts[z] = c.loaded)
    BY <1>2, StoreStep
  <2>2. sk'.counts[z] = c.loaded + 1 /\ c.loaded \in Nat /\ z \in RowOf(c.i) /\ c.i \in Rows
    BY <1>2, <2>1, StoreCounts, StoredValue
  <2>3. \A h \in HS, i \in Rows : Cell(h, i) # z => sk'.counts[Cell(h, i)] = sk.counts[Cell(h, i)]
    BY <1>2, StoreCounts, CellIn
  <2>4. done' = done
    BY <1>2 DEF IncStore
  <2> HIDE DEF c, z
  <2>5. ASSUME NEW h \in HS, NEW i \in Rows, clean'
        PROVE  done'[h] + Cardinality(Did(doing', h, i)) <= sk'.counts[Cell(h, i)]
    <3>1. done[h] + Cardinality(Did(doing, h, i)) <= sk.counts[Cell(h, i)] /\ sk.counts[z] = c.loaded
      BY <2>1, <2>5 DEF Lower
    <3>2. /\ Cardinality(Did(doing, h, i)) \in Nat
          /\ Cardinality(Did(doing', h, i)) =
               Cardinality(Did(doing, h, i)) + One(Paid(doing'[t], h, i)) - One(Paid(c, h, i))
      BY <2>1, DidStep DEF c
    <3>3. CASE Cell(h, i) = z
      <4>1. Cardinality(Did(doing', h, i)) \in Int
            /\ Cardinality(Did(doing', h, i)) <= Cardinality(Did(doing, h, i)) + 1
        BY <3>2 DEF One
      <4> QED BY <1>0, <2>2, <2>4, <3>1, <3>2, <3>3, <4>1
    <3>4. CASE Cell(h, i) # z
      <4>1. i # c.i \/ h # c.h
        BY <3>4 DEF z
      <4>2. Paid(doing'[t], h, i) <=> Paid(c, h, i)
        BY <2>1, <4>1, PaidAfter
      <4>3. Cardinality(Did(doing', h, i)) = Cardinality(Did(doing, h, i))
        BY <3>2, <4>2 DEF One
      <4> QED BY <2>3, <2>4, <3>1, <3>4, <4>3
    <3> QED BY <3>3, <3>4
  <2> QED BY <2>5 DEF Lower
<1>3. ASSUME NEW t \in Threads, IncRead(t) \/ CountRead(t) PROVE Lower'
  <2>1. CASE /\ done' = done
             /\ \A h \in HS, i \in Rows : Paid(doing'[t], h, i) <=> Paid(doing[t], h, i)
    BY <1>1, <1>3, <2>1, RowPaid
  <2>2. CASE /\ done' = [done EXCEPT ![doing[t].h] = @ + 1] /\ doing[t].h \in HS
             /\ \A h \in HS, i \in Rows :
                  ~Paid(doing'[t], h, i) /\ (Paid(doing[t], h, i) <=> h = doing[t].h)
    <3>1. Alone(t) /\ sk' = sk /\ clean' = clean
      BY <1>3, RowPaid
    <3>2. \A h \in HS : done'[h] = done[h] + One(h = doing[t].h)
      BY <2>2 DEF Counters, One
    <3>3. ASSUME NEW h \in HS, NEW i \in Rows
          PROVE  done'[h] + Cardinality(Did(doing', h, i)) = done[h] + Cardinality(Did(doing, h, i))
      <4>1. /\ Cardinality(Did(doing, h, i)) \in Nat
            /\ Cardinality(Did(doing', h, i)) = Cardinality(Did(doing, h, i)) - One(h = doing[t].h)
        BY <2>2, <3>1, DidStep DEF One
      <4> QED BY <1>0, <3>2, <4>1 DEF One
    <3> QED BY <3>1, <3>3 DEF Lower
  <2> QED BY <1>3, <2>1, <2>2, RowPaid
<1>4. ASSUME NEW t \in Threads, ClearBegin(t) \/ ClearCounter(t) PROVE Lower'
  <2>1. /\ \A h \in HS : done'[h] = 0
        /\ \A u \in Threads : \A h, i : ~Paid(doing'[u], h, i)
    BY <1>4, NonePaid
  <2>2. \A h, i : Cardinality(Did(doing', h, i)) = 0
    <3>1. \A h, i : Did(doing', h, i) = {}
      BY <2>1 DEF Did
    <3> QED BY <3>1, FS_EmptySet
  <2>3. \A h \in HS, i \in Rows : sk'.counts[Cell(h, i)] \in Nat
    <3>1. CASE ClearBegin(t)
      BY <1>0, <3>1, ClearBeginStep
    <3>2. CASE ClearCounter(t)
      BY <1>0, <3>2, ClearCounterStep, CellIn
    <3> QED BY <1>4, <3>1, <3>2
  <2>4. \A h \in HS, i \in Rows : done'[h] + Cardinality(Did(doing', h, i)) <= sk'.counts[Cell(h, i)]
    BY <2>1, <2>2, <2>3
  <2> QED BY <2>4 DEF Lower
<1> QED
  BY <1>1, <1>2, <1>3, <1>4, PaidKept, ClearEndKept DEF CountNext
-----------------------------------------------------------------------------
(* What a call has seen so far, when the sketch was not cleared since it   *)
(* began; n counts the calls for its hash that are done.                   *)
Sound(c, n, lossless) ==
  c.fresh =>
    /\ c.before <= n
    /\ c.before > 0 => c.minimal > 0
    /\ lossless => c.before <= c.minimal
    /\ lossless /\ c.at \in {"store", "read"} => c.before <= c.loaded

Answers == \A t \in Threads : Calling(doing[t]) => Sound(doing[t], done[doing[t].h], clean)

LEMMA AnswersKept ==
  ASSUME Counters, Counters', Answers, NEW t \in Threads, Alone(t), clean' => clean,
         \A h \in HS : done'[h] >= done[h],
         Calling(doing'[t]) => Sound(doing'[t], done'[doing'[t].h], clean')
  PROVE  Answers'
<1> SUFFICES ASSUME NEW u \in Threads, u # t, Calling(doing'[u])
             PROVE  Sound(doing'[u], done'[doing'[u].h], clean')
  BY DEF Answers
<1>1. doing'[u] = doing[u]
  BY DEF Alone
<1> DEFINE c == doing[u]
<1>2. Sound(c, done[c.h], clean) /\ InCall(c)
  BY <1>1, CallAt DEF Answers
<1>3. c.h \in HS /\ c.before \in Nat
  BY <1>2 DEF InCall, CallFields
<1>4. done[c.h] \in Nat /\ done'[c.h] \in Nat /\ done'[c.h] >= done[c.h]
  BY <1>3 DEF Counters
<1> HIDE DEF c
<1>5. Sound(c, done'[c.h], clean')
  BY <1>2, <1>3, <1>4 DEF Sound
<1> QED
  BY <1>1, <1>5 DEF c

(* What the end of a row leaves, when the value that was seen is right.    *)
LEMMA AnswersRow ==
  ASSUME Counters, Counters', Answers, NEW t \in Threads, NEW seen \in 0 .. UINT32_MAX,
         InCall(doing[t]), doing[t].at \in {"read", "count"}, EndRow(t, doing[t].op, seen),
         doing[t].fresh => /\ doing[t].before > 0 => seen > 0
                           /\ clean => doing[t].before <= seen
  PROVE  Answers'
<1> DEFINE c == doing[t]
           d == doing'[t]
<1>1. /\ InCall(d) /\ Alone(t) /\ SameCall(c, d) /\ d.at \in {"end", "load", "count"}
      /\ d.minimal = IF c.minimal <= seen THEN c.minimal ELSE seen
      /\ done' = done \/ done' = [done EXCEPT ![c.h] = @ + 1]
  <2>1. c.op \in {"load", "count"}
    BY DEF InCall, CallFields
  <2> QED BY <2>1, RowStep
<1>2. clean' = clean
  BY DEF EndRow
<1>3. c.h \in HS /\ c.before \in Nat /\ c.minimal \in 0 .. UINT32_MAX /\ done \in [HS -> Nat]
      /\ UINT32_MAX \in Nat
  BY CounterMax DEF InCall, CallFields, Counters
<1>4. \A h \in HS : done'[h] >= done[h]
  BY <1>1, <1>3
<1>5. Sound(c, done[c.h], clean)
  BY DEF Answers, Calling
<1>6. d.h = c.h /\ d.before = c.before /\ d.fresh = c.fresh
  BY <1>1 DEF SameCall
<1>7. done[c.h] \in Nat /\ done'[c.h] \in Nat /\ done'[c.h] >= done[c.h]
  BY <1>3, <1>4 DEF Counters
<1>8. c.fresh => /\ c.before > 0 => seen > 0
                 /\ clean => c.before <= seen
  OBVIOUS
<1> HIDE DEF c, d
<1>9. Sound(d, done'[c.h], clean')
  BY <1>1, <1>2, <1>3, <1>5, <1>6, <1>7, <1>8 DEF Sound
<1>10. Sound(doing'[t], done'[doing'[t].h], clean')
  BY <1>6, <1>9 DEF d
<1> QED
  BY <1>1, <1>2, <1>4, <1>10, AnswersKept

LEMMA AnswersStep ==
  ASSUME NoWrap, Counters, Counters', Limits, Quiet, Positive, Lower, Answers, CountNext
  PROVE  Answers'
<1>1. ASSUME NEW t \in Threads, NEW h \in HS, NEW op \in {"load", "count"}, Begin(t, op, h)
      PROVE  Answers'
  <2> DEFINE d == doing'[t]
  <2>1. /\ InCall(d) /\ Alone(t) /\ d.at = op /\ d.op = op /\ d.h = h
        /\ d.minimal = UINT32_MAX /\ d.before = done[h]
    BY <1>1, BeginStep
  <2>2. done' = done /\ clean' = clean
    BY <1>1 DEF Begin
  <2>3. done[h] \in Nat /\ UINT32_MAX \in Nat \ {0}
    BY Numbers, CounterMax
  <2>4. done[h] <= total /\ total <= MaxCalls /\ total \in Nat /\ MaxCalls \in Nat
    <3>1. IsFiniteSet(Counting)
      BY ThreadAssumption, FS_Subset DEF Counting
    <3>2. Cardinality(Counting) \in Nat
      BY <3>1, FS_CardinalityType
    <3> QED BY <3>2, Numbers DEF Limits
  <2>5. done[h] <= UINT32_MAX
    BY <2>3, <2>4 DEF NoWrap
  <2>6. \A j \in HS : done'[j] >= done[j]
    BY <2>2, Numbers
  <2> HIDE DEF d
  <2>7. Sound(d, done'[h], clean')
    BY <2>1, <2>2, <2>3, <2>5 DEF Sound
  <2> QED BY <2>1, <2>2, <2>6, <2>7, AnswersKept DEF d
<1>2. ASSUME NEW t \in Threads, IncLoad(t) PROVE Answers'
  <2> DEFINE c == doing[t]
             d == doing'[t]
  <2>1. /\ InCall(c) /\ c.at = "load" /\ InCall(d) /\ Alone(t) /\ SameCall(c, d)
        /\ d.loaded = sk.counts[Cell(c.h, c.i)] /\ d.minimal = c.minimal
    BY <1>2, LoadStep
  <2>2. done' = done /\ clean' = clean
    BY <1>2 DEF IncLoad
  <2>3. c.h \in HS /\ c.i \in Rows /\ c.before \in Nat
    BY <2>1, IdxCell DEF InCall, CallFields
  <2>4. clean => done[c.h] <= sk.counts[Cell(c.h, c.i)]
    <3>1. Cardinality(Did(doing, c.h, c.i)) \in Nat
      BY <2>1, DidStep
    <3>2. clean => done[c.h] + Cardinality(Did(doing, c.h, c.i)) <= sk.counts[Cell(c.h, c.i)]
      BY <2>3 DEF Lower
    <3>3. done[c.h] \in Nat /\ sk.counts[Cell(c.h, c.i)] \in Nat
      BY <2>3, Numbers, CellIn
    <3> QED BY <3>1, <3>2, <3>3
  <2>5. Sound(c, done[c.h], clean)
    BY <2>1 DEF Answers, Calling
  <2>6. done[c.h] \in Nat /\ sk.counts[Cell(c.h, c.i)] \in Nat
    BY <2>3, Numbers, CellIn
  <2> HIDE DEF c, d
  <2>7. Sound(d, done[c.h], clean)
    BY <2>1, <2>3, <2>4, <2>5, <2>6 DEF Sound, SameCall
  <2>8. \A j \in HS : done'[j] >= done[j]
    BY <2>2, Numbers
  <2>9. d.h = c.h
    BY <2>1 DEF SameCall
  <2> QED BY <2>1, <2>2, <2>7, <2>8, <2>9, AnswersKept DEF c, d
<1>3. ASSUME NEW t \in Threads, IncStore(t) PROVE Answers'
  <2> DEFINE c == doing[t]
             d == doing'[t]
  <2>1. /\ InCall(c) /\ c.at = "store" /\ InCall(d) /\ Alone(t) /\ SameCall(c, d)
        /\ d.loaded = c.loaded /\ d.minimal = c.minimal /\ (clean' => clean)
    BY <1>3, StoreStep
  <2>2. done' = done
    BY <1>3 DEF IncStore
  <2>3. Sound(c, done[c.h], clean)
    BY <2>1 DEF Answers, Calling
  <2> HIDE DEF c, d
  <2>4. Sound(d, done[c.h], clean')
    BY <2>1, <2>3 DEF Sound, SameCall
  <2>5. \A j \in HS : done'[j] >= done[j]
    BY <2>2, Numbers
  <2>6. d.h = c.h
    BY <2>1 DEF SameCall
  <2> QED BY <2>1, <2>2, <2>4, <2>5, <2>6, AnswersKept DEF c, d
<1>4. ASSUME NEW t \in Threads, IncRead(t) \/ CountRead(t) PROVE Answers'
  <2> DEFINE c == doing[t]
             z == Cell(c.h, c.i)
  <2>0. InCall(c) /\ c.at \in {"read", "count"}
    BY <1>4, ReadStep, CountStep
  <2>1. c.h \in HS /\ c.i \in Rows /\ c.before \in Nat /\ c.fresh \in BOOLEAN
    BY <2>0, IdxCell DEF InCall, CallFields
  <2>2. done[c.h] \in Nat /\ sk.counts[z] \in Nat /\ sk.counts[z] \in 0 .. UINT32_MAX
    BY <2>1, Numbers, CounterMax, CellIn
  <2>3. Cardinality(Did(doing, c.h, c.i)) \in Nat
    <3>1. IsFiniteSet(Did(doing, c.h, c.i))
      BY ThreadAssumption, FS_Subset DEF Did
    <3> QED BY <3>1, FS_CardinalityType
  <2>4. clean => done[c.h] + Cardinality(Did(doing, c.h, c.i)) <= sk.counts[z]
    BY <2>1 DEF Lower
  <2>5. c.fresh => c.before <= done[c.h]
    BY <2>0 DEF Answers, Sound, Calling
  <2>6. done[c.h] > 0 => sk.counts[z] > 0
    BY <2>1 DEF Positive
  <2>7. ASSUME IncRead(t) PROVE Answers'
    <3>1. c.at = "read" /\ c.op = "load"
      BY <2>7, ReadStep
    <3>2. PICK seen \in 0 .. UINT32_MAX :
            /\ seen \in {UInt32(c.loaded + 1), sk.counts[z]}
            /\ EndRow(t, c.op, seen)
      BY <2>7, ReadStep
    <3>3. c.loaded \in Nat /\ UInt32(c.loaded + 1) = c.loaded + 1
      <4>1. c.loaded \in Nat /\ c.loaded + 1 <= total /\ total <= MaxCalls
        BY <3>1, Numbers DEF Limits
      <4>2. c.loaded + 1 <= UINT32_MAX
        BY <4>1, Numbers, CounterMax DEF NoWrap
      <4> QED BY <4>1, <4>2, Fits32
    <3>4. c.fresh /\ clean => c.before <= c.loaded
      BY <2>0, <3>1 DEF Answers, Sound, Calling
    <3> HIDE DEF c, z
    <3>5. c.fresh => /\ c.before > 0 => seen > 0
                     /\ clean => c.before <= seen
      BY <2>1, <2>2, <2>3, <2>4, <2>5, <2>6, <3>2, <3>3, <3>4
    <3> QED BY <2>0, <3>2, <3>5, AnswersRow DEF c
  <2>8. ASSUME CountRead(t) PROVE Answers'
    <3>1. EndRow(t, c.op, sk.counts[z])
      BY <2>8, CountStep
    <3> HIDE DEF c, z
    <3>2. c.fresh => /\ c.before > 0 => sk.counts[z] > 0
                     /\ clean => c.before <= sk.counts[z]
      BY <2>1, <2>2, <2>3, <2>4, <2>5, <2>6
    <3> QED BY <2>0, <2>2, <3>1, <3>2, AnswersRow DEF c
  <2> QED BY <1>4, <2>7, <2>8
<1>5. ASSUME NEW t \in Threads, Return(t) PROVE Answers'
  <2>1. Alone(t) /\ doing'[t] = Idle
    BY <1>5, ReturnStep
  <2>2. done' = done /\ clean' = clean
    BY <1>5 DEF Return
  <2>3. \A j \in HS : done'[j] >= done[j]
    BY <2>2, Numbers
  <2>4. ~Calling(doing'[t])
    BY <2>1 DEF Calling, Idle
  <2> QED BY <2>1, <2>2, <2>3, <2>4, AnswersKept
<1>6. ASSUME NEW t \in Threads, ClearBegin(t) PROVE Answers'
  <2>1. \A u \in Threads : Calling(doing'[u]) => doing'[u].fresh = FALSE
    BY <1>6, ClearBeginStep
  <2> QED BY <2>1 DEF Answers, Sound
<1>7. ASSUME NEW t \in Threads, ClearCounter(t) \/ ClearEnd(t) PROVE Answers'
  <2>1. Alone(t) /\ ~Calling(doing'[t]) /\ done' = done /\ clean' = clean
    BY <1>7, ClearCounterStep, ClearEndStep DEF Calling, Idle
  <2>2. \A j \in HS : done'[j] >= done[j]
    BY <2>1, Numbers
  <2> QED BY <2>1, <2>2, AnswersKept
<1>8. ASSUME NEW t \in Threads, NEW h \in HS, BeginInc(t, h) \/ BeginCount(t, h) PROVE Answers'
  BY <1>1, <1>8 DEF BeginInc, BeginCount
<1> QED
  BY <1>2, <1>3, <1>4, <1>5, <1>6, <1>7, <1>8 DEF CountNext
-----------------------------------------------------------------------------
(* The counters that the clears that run have not yet set to 0. *)
Pending == UNION {doing[t].left : t \in Clearing}

(* While no update is lost, a counter of the first row, which the clear    *)
(* reaches, has no more than the calls since the last clear began, as soon *)
(* as it is set to 0.                                                      *)
Upper ==
  /\ Cardinality(Pend(doing, 0)) <= begun
  /\ clean => \A x \in RowOf(0) \ Pending : sk.counts[x] + Cardinality(Pend(doing, 0)) <= begun

LEMMA PendingKept ==
  ASSUME NEW t \in Threads, Alone(t), doing[t].at # "clear", doing'[t].at # "clear"
  PROVE  Pending' = Pending
<1>1. \A u \in Threads : u # t => doing'[u] = doing[u]
  BY DEF Alone
<1>2. Clearing' = Clearing /\ t \notin Clearing
  BY <1>1 DEF Clearing
<1>3. \A u \in Clearing : doing'[u] = doing[u]
  BY <1>1, <1>2 DEF Clearing
<1> QED
  BY <1>2, <1>3 DEF Pending

LEMMA UpperStep ==
  ASSUME NoWrap, Depth >= SIZEOF, Counters, Limits, Upper, CountNext
  PROVE  Upper'
<1>0. 0 \in Rows
  BY WidthAssumption DEF Rows
<1>1. ASSUME NEW t \in Threads, Alone(t), sk' = sk, begun' = begun, clean' = clean,
             Owes(doing[t], 0) <=> Owes(doing'[t], 0), Pending' = Pending
      PROVE  Upper'
  <2>1. Cardinality(Pend(doing', 0)) = Cardinality(Pend(doing, 0))
    BY <1>1, PendStep DEF One
  <2> QED BY <1>1, <2>1 DEF Upper
<1>2. ASSUME NEW t \in Threads, NEW h \in HS, BeginInc(t, h) PROVE Upper'
  <2>1. Begin(t, "load", h) /\ sk' = sk /\ clean' = clean /\ begun' = begun + 1
    BY <1>2 DEF BeginInc, Begin
  <2>2. doing[t] = Idle /\ InCall(doing'[t]) /\ Alone(t) /\ doing'[t].at = "load" /\ doing'[t].i = 0
    BY <2>1, BeginStep
  <2>3. ~Owes(doing[t], 0) /\ Owes(doing'[t], 0)
    BY <2>2, OwesAfter DEF Idle
  <2>4. /\ Cardinality(Pend(doing', 0)) = Cardinality(Pend(doing, 0)) + 1
        /\ Cardinality(Pend(doing, 0)) \in Nat
    BY <2>2, <2>3, PendStep DEF One
  <2>5. begun \in Nat /\ \A x \in RowOf(0) : sk.counts[x] \in Nat
    BY <1>0, Numbers
  <2>6. Pending' = Pending
    BY <2>2, PendingKept DEF Idle
  <2> QED BY <2>1, <2>4, <2>5, <2>6 DEF Upper
<1>3. ASSUME NEW t \in Threads, NEW h \in HS, BeginCount(t, h) PROVE Upper'
  <2>1. Begin(t, "count", h) /\ sk' = sk /\ clean' = clean /\ begun' = begun
    BY <1>3 DEF BeginCount, Begin
  <2>2. doing[t] = Idle /\ InCall(doing'[t]) /\ Alone(t) /\ doing'[t].at = "count"
    BY <2>1, BeginStep
  <2>3. Pending' = Pending
    BY <2>2, PendingKept DEF Idle
  <2> QED BY <1>1, <2>1, <2>2, <2>3, OwesAfter DEF Idle
<1>4. ASSUME NEW t \in Threads, IncLoad(t) PROVE Upper'
  <2>1. sk' = sk /\ clean' = clean /\ begun' = begun
    BY <1>4 DEF IncLoad
  <2>2. Owes(doing[t], 0) <=> Owes(doing'[t], 0)
    BY <1>0, <1>4, LoadStep, OwesAfter
  <2>3. Pending' = Pending
    BY <1>4, LoadStep, PendingKept
  <2> QED BY <1>1, <1>4, <2>1, <2>2, <2>3, LoadStep
<1>5. ASSUME NEW t \in Threads, Return(t) PROVE Upper'
  <2>1. sk' = sk /\ clean' = clean /\ begun' = begun
    BY <1>5 DEF Return
  <2>2. Owes(doing[t], 0) <=> Owes(doing'[t], 0)
    BY <1>5, ReturnStep, OwesAfter DEF Idle
  <2>3. Pending' = Pending
    BY <1>5, ReturnStep, PendingKept DEF Idle
  <2> QED BY <1>1, <1>5, <2>1, <2>2, <2>3, ReturnStep
<1>6. ASSUME NEW t \in Threads, IncRead(t) \/ CountRead(t) PROVE Upper'
  <2> DEFINE c == doing[t]
             d == doing'[t]
  <2>1. PICK seen \in 0 .. UINT32_MAX : EndRow(t, c.op, seen)
    BY <1>6, ReadStep, CountStep
  <2>2. InCall(c) /\ ((c.at = "read" /\ c.op = "load") \/ (c.at = "count" /\ c.op = "count"))
    BY <1>6, ReadStep, CountStep
  <2>3. /\ InCall(d) /\ Alone(t) /\ d.i = c.i + 1
        /\ d.at = (IF c.i + 1 = Depth THEN "end" ELSE c.op)
    BY <2>1, <2>2, RowStep
  <2>4. sk' = sk /\ clean' = clean /\ begun' = begun
    BY <2>1 DEF EndRow
  <2> HIDE DEF c, d
  <2>5. Owes(c, 0) <=> Owes(d, 0)
    <3>1. CASE c.at = "read" /\ c.op = "load"
      BY <1>0, <2>2, <2>3, <3>1, OwesAfter
    <3>2. CASE c.at = "count" /\ c.op = "count"
      BY <1>0, <2>2, <2>3, <3>2, OwesAfter
    <3> QED BY <2>2, <3>1, <3>2
  <2>6. Pending' = Pending
    BY <2>2, <2>3, PendingKept DEF c, d
  <2> QED BY <1>1, <2>3, <2>4, <2>5, <2>6 DEF c, d
<1>7. ASSUME NEW t \in Threads, IncStore(t) PROVE Upper'
  <2> DEFINE c == doing[t]
             d == doing'[t]
             z == Cell(c.h, c.i)
  <2>1. /\ c.at = "store" /\ InCall(c) /\ InCall(d) /\ Alone(t) /\ d.at = "read" /\ d.i = c.i
        /\ clean' = (clean /\ sk.counts[z] = c.loaded)
    BY <1>7, StoreStep
  <2>2. /\ sk'.counts[z] = c.loaded + 1 /\ c.loaded \in Nat /\ z \in RowOf(c.i) /\ c.i \in Rows
        /\ \A x \in RowOf(0) : x # z => sk'.counts[x] = sk.counts[x]
    BY <1>0, <1>7, <2>1, StoreCounts, StoredValue, RowIn
  <2>3. begun' = begun
    BY <1>7 DEF IncStore
  <2>4. begun \in Nat /\ \A x \in RowOf(0) : sk.counts[x] \in Nat
    BY <1>0, Numbers
  <2>5. /\ Cardinality(Pend(doing, 0)) \in Nat
        /\ Cardinality(Pend(doing', 0)) = Cardinality(Pend(doing, 0)) + One(Owes(d, 0)) - One(Owes(c, 0))
    BY <2>1, PendStep
  <2>6. Pending' = Pending
    BY <2>1, PendingKept
  <2> HIDE DEF c, d, z
  <2>7. CASE c.i = 0
    <3>1. Owes(c, 0) /\ ~Owes(d, 0)
      BY <1>0, <2>1, <2>7, OwesAfter
    <3>2. Cardinality(Pend(doing', 0)) = Cardinality(Pend(doing, 0)) - 1
      BY <2>5, <3>1 DEF One
    <3>3. ASSUME NEW x \in RowOf(0) \ Pending', clean'
          PROVE  sk'.counts[x] + Cardinality(Pend(doing', 0)) <= begun'
      <4>1. sk.counts[x] + Cardinality(Pend(doing, 0)) <= begun /\ sk.counts[z] = c.loaded
        BY <2>1, <2>6, <3>3 DEF Upper
      <4>2. CASE x = z
        BY <2>2, <2>3, <2>4, <2>5, <3>2, <4>1, <4>2
      <4>3. CASE x # z
        BY <2>2, <2>3, <2>4, <2>5, <3>2, <4>1, <4>3
      <4> QED BY <4>2, <4>3
    <3>4. Cardinality(Pend(doing', 0)) <= begun'
      BY <2>3, <2>4, <2>5, <3>2 DEF Upper
    <3> QED BY <3>3, <3>4 DEF Upper
  <2>8. CASE c.i # 0
    <3>1. Owes(c, 0) <=> Owes(d, 0)
      BY <1>0, <2>1, <2>8, OwesAfter
    <3>2. Cardinality(Pend(doing', 0)) = Cardinality(Pend(doing, 0))
      BY <2>5, <3>1 DEF One
    <3>3. \A x \in RowOf(0) : sk'.counts[x] = sk.counts[x]
      <4>1. ~(z \in RowOf(0))
        BY <1>0, <2>2, <2>8, RowsApart
      <4> QED BY <2>2, <4>1
    <3> QED BY <2>1, <2>3, <2>6, <3>2, <3>3 DEF Upper
  <2> QED BY <2>7, <2>8
<1>8. ASSUME NEW t \in Threads, ClearBegin(t) PROVE Upper'
  <2>1. \A u \in Threads :
          /\ Busy(doing'[u]) <=> Busy(doing[u])
          /\ Busy(doing[u]) => doing'[u].at = doing[u].at /\ doing'[u].i = doing[u].i
    BY <1>8, ClearBeginStep
  <2>2. Pend(doing', 0) = Pend(doing, 0)
    BY <2>1 DEF Pend, Owes, Past
  <2>3. IsFiniteSet(Counting) /\ Pend(doing, 0) \subseteq Counting
    BY ThreadAssumption, FS_Subset DEF Counting, Pend, Owes, Busy
  <2>4. Cardinality(Pend(doing', 0)) <= begun'
    BY <1>8, <2>2, <2>3, FS_Subset, ClearBeginStep
  <2>5. ASSUME NEW x \in RowOf(0) PROVE x \in Pending'
    <3>1. x \in 0 .. Depth * Width - 1
      BY <1>0, RowIn
    <3>2. Width \in Nat /\ Depth \in Nat /\ x \in Nat /\ x < Width
      BY WidthPower, WidthAssumption DEF RowOf
    <3>3. SIZEOF * x < MemsetBytes
      <4>1. (Depth - 4) * Width \in Nat /\ (Depth - 4) * Width = Depth * Width - 4 * Width
        BY <3>2 DEF SIZEOF
      <4>2. Depth * Width \in Nat
        BY <3>2
      <4> QED BY <3>2, <4>1, <4>2, SizeFits DEF MemsetBytes, SIZEOF
    <3>4. x \in doing'[t].left /\ InClear(doing'[t])
      BY <1>8, <3>1, <3>3, ClearBeginStep
    <3>5. doing'[t].at = "clear"
      BY <3>4 DEF InClear
    <3>6. t \in Clearing'
      BY <3>5 DEF Clearing
    <3> QED BY <3>4, <3>6 DEF Pending
  <2> QED BY <2>4, <2>5 DEF Upper
<1>9. ASSUME NEW t \in Threads, ClearCounter(t) PROVE Upper'
  <2>1. /\ Alone(t) /\ doing[t].at = "clear" /\ doing'[t].at = "clear"
        /\ begun' = begun /\ clean' = clean
    BY <1>9, ClearCounterStep
  <2>2. PICK y \in 0 .. Depth * Width - 1 :
          /\ doing'[t].left = doing[t].left \ {y}
          /\ \A x \in 0 .. Depth * Width - 1 : sk'.counts[x] = IF x = y THEN 0 ELSE sk.counts[x]
    BY <1>9, ClearCounterStep
  <2>3. \A u \in Threads : u # t => doing'[u] = doing[u]
    BY <2>1 DEF Alone
  <2>4. Pend(doing', 0) = Pend(doing, 0)
    BY <2>1, <2>3 DEF Pend, Owes, Busy
  <2>5. ASSUME NEW x \in Pending, x # y PROVE x \in Pending'
    <3>1. PICK u \in Clearing : x \in doing[u].left
      BY <2>5 DEF Pending
    <3>2. u \in Clearing' /\ x \in doing'[u].left
      BY <2>1, <2>2, <2>3, <2>5, <3>1 DEF Clearing
    <3> QED BY <3>2 DEF Pending
  <2>6. ASSUME NEW x \in RowOf(0) \ Pending', clean'
        PROVE  sk'.counts[x] + Cardinality(Pend(doing', 0)) <= begun'
    <3>1. x \in 0 .. Depth * Width - 1
      BY <1>0, RowIn
    <3>2. CASE x = y
      <4>1. Cardinality(Pend(doing, 0)) <= begun /\ sk'.counts[x] = 0
        BY <2>2, <3>1, <3>2 DEF Upper
      <4>2. Cardinality(Pend(doing, 0)) \in Nat
        BY <2>1, PendStep
      <4> QED BY <2>1, <2>4, <4>1, <4>2
    <3>3. CASE x # y
      <4>1. x \notin Pending
        BY <2>5, <2>6, <3>3
      <4>2. sk'.counts[x] = sk.counts[x]
        BY <2>2, <3>1, <3>3
      <4> QED BY <2>1, <2>4, <2>6, <4>1, <4>2 DEF Upper
    <3> QED BY <3>2, <3>3
  <2>7. Cardinality(Pend(doing', 0)) <= begun'
    BY <2>1, <2>4 DEF Upper
  <2> QED BY <2>6, <2>7 DEF Upper
<1>10. ASSUME NEW t \in Threads, ClearEnd(t) PROVE Upper'
  <2>1. /\ Alone(t) /\ doing[t].at = "clear" /\ doing[t].left = {} /\ doing'[t] = Idle
        /\ sk' = sk /\ begun' = begun /\ clean' = clean
    BY <1>10, ClearEndStep
  <2>2. \A u \in Threads : u # t => doing'[u] = doing[u]
    BY <2>1 DEF Alone
  <2>3. Pending \subseteq Pending'
    <3> SUFFICES ASSUME NEW x \in Pending PROVE x \in Pending'
      OBVIOUS
    <3>1. PICK u \in Clearing : x \in doing[u].left
      BY DEF Pending
    <3>2. u \in Clearing' /\ x \in doing'[u].left
      BY <2>1, <2>2, <3>1 DEF Clearing
    <3> QED BY <3>2 DEF Pending
  <2>4. Pend(doing', 0) = Pend(doing, 0)
    BY <2>1, <2>2 DEF Pend, Owes, Busy, Idle
  <2> QED BY <2>1, <2>3, <2>4 DEF Upper
<1> QED
  BY <1>2, <1>3, <1>4, <1>5, <1>6, <1>7, <1>8, <1>9, <1>10 DEF CountNext
-----------------------------------------------------------------------------
(* The estimate is the least counter of the hash. *)
LEMMA EstimateLeast ==
  ASSUME Counters, NEW h \in HS
  PROVE  /\ \E i \in Rows : Estimate(h) = sk.counts[Cell(h, i)]
         /\ \A i \in Rows : Estimate(h) <= sk.counts[Cell(h, i)]
<1> DEFINE S == {sk.counts[Cell(h, i)] : i \in Rows}
<1>1. \A i \in Rows : Idx(PlaceIn[i][h]) = Cell(h, i)
  <2> SUFFICES ASSUME NEW i \in Rows PROVE Idx(PlaceIn[i][h]) = Cell(h, i)
    OBVIOUS
  <2>1. PlaceIn[i][h].i = i
    BY PlaceType DEF Places, Rows
  <2>2. Idx(PlaceIn[i][h]) = UInt32(Cell(h, i))
    BY <2>1, Sketched DEF Idx, Cell
  <2> QED BY <2>2, CellFits
<1>2. Estimate(h) = Min(S)
  <2>1. {sk.counts[Idx(PlaceIn[i][h])] : i \in Rows} = S
    BY <1>1
  <2> QED BY <2>1 DEF Estimate, Rows
<1>3. S \in SUBSET Nat /\ S # {}
  <2>1. \A i \in Rows : sk.counts[Cell(h, i)] \in Nat
    BY Numbers, CellIn
  <2>2. 0 \in Rows
    BY WidthAssumption DEF Rows
  <2> QED BY <2>1, <2>2
<1>4. \E n \in S : \A m \in S : n <= m
  <2> HIDE DEF S
  <2> QED BY <1>3, Least
<1>5. Min(S) \in S /\ \A m \in S : Min(S) <= m
  <2> HIDE DEF S
  <2> QED BY <1>4 DEF Min
<1> QED
  BY <1>2, <1>5

CountInv == Counters /\ Limits /\ Quiet /\ Positive /\ Lower /\ Answers

LEMMA CountInit ==
  ASSUME SketchInit, Counters
  PROVE  CountInv /\ Upper
<1>1. /\ doing = [t \in Threads |-> Idle] /\ done = [h \in HS |-> 0] /\ begun = 0 /\ total = 0
  BY Sketched DEF SketchInit
<1>2. \A i \in Rows : Pend(doing, i) = {}
  BY <1>1, OwesAfter DEF Pend, Idle
<1>3. \A h, i : Did(doing, h, i) = {}
  BY <1>1, PaidAfter DEF Did, Idle
<1>4. Counting = {}
  BY <1>1 DEF Counting, Idle
<1>5. \A i \in Rows : \A x \in RowOf(i) : sk.counts[x] = 0
  <2>1. sk = sketch_construct(Width, Depth, Seed, COUNT_MIN)
    BY Sketched DEF SketchInit, sketch_construct, COUNT_MIN, BLOOM_FILTER
  <2>2. sk.counts = [i \in 0 .. Depth * Width - 1 |-> 0]
    BY <2>1, SizeFits DEF sketch_construct
  <2> QED BY <2>2, RowIn
<1>6. 0 <= MaxCalls /\ 0 \in Rows /\ Cardinality({}) = 0
  BY WidthAssumption, FS_EmptySet DEF Rows
<1>7. Limits
  <2>1. \A i \in Rows : \A x \in RowOf(i) : sk.counts[x] + Cardinality(Pend(doing, i)) <= total
    BY <1>1, <1>2, <1>5, <1>6
  <2>2. \A t \in Threads : doing[t].at = "idle"
    BY <1>1 DEF Idle
  <2>3. \A h \in HS : done[h] + Cardinality(Counting) <= total
    BY <1>1, <1>4, <1>6
  <2> QED BY <1>1, <1>6, <2>1, <2>2, <2>3 DEF Limits
<1>8. Positive
  BY <1>1, PaidAfter DEF Positive, Idle
<1>9. Lower
  <2>1. \A h \in HS, i \in Rows : sk.counts[Cell(h, i)] = 0 /\ done[h] = 0
    BY <1>1, <1>5, CellIn
  <2>2. \A h, i : Cardinality(Did(doing, h, i)) = 0
    BY <1>3, <1>6
  <2> QED BY <2>1, <2>2 DEF Lower
<1>10. Answers
  BY <1>1 DEF Answers, Calling, Idle
<1>11. Upper
  BY <1>1, <1>2, <1>5, <1>6 DEF Upper
<1>12. Quiet
  BY <1>1 DEF Quiet, Clearing, Idle
<1> QED
  BY <1>7, <1>8, <1>9, <1>10, <1>11, <1>12 DEF CountInv

LEMMA CountInvariant == ASSUME NoWrap PROVE SketchSpec => [](CountInv \/ Filter)
<1>1. SketchInit => CountInv \/ Filter
  BY ShapeInit, CountInit
<1>2. (CountInv \/ Filter) /\ [SketchNext]_skvars => (CountInv \/ Filter)'
  <2>1. CASE UNCHANGED skvars
    BY <2>1 DEF skvars, CountInv, Counters, Limits, Quiet, Positive, Lower, Answers, Counting, Clearing, Filter
  <2>2. ASSUME CountInv, SketchNext PROVE CountInv'
    <3>1. CountNext /\ Counters'
      BY <2>2, CountOnly, CountersStep DEF CountInv
    <3>2. Limits' /\ Quiet' /\ Positive' /\ Lower' /\ Answers'
      BY <2>2, <3>1, LimitsStep, QuietStep, PositiveStep, LowerStep, AnswersStep DEF CountInv
    <3> QED BY <3>1, <3>2 DEF CountInv
  <2> QED BY <2>1, <2>2, FilterStep
<1> QED
  BY <1>1, <1>2, PTL DEF SketchSpec

(* With fewer calls than a counter can count, a hash that was counted by a *)
(* call begun after the last clear is never estimated 0, however many      *)
(* increments were lost to the races on counts[idx]++ (data_sketch.c:71).  *)
THEOREM NeverErased == ASSUME NoWrap PROVE SketchSpec => []CountedSeen
<1>1. CountInv => CountedSeen
  <2> SUFFICES ASSUME CountInv, NEW h \in DOMAIN done, done[h] > 0 PROVE Estimate(h) > 0
    BY DEF CountedSeen
  <2>1. h \in HS
    BY DEF CountInv, Counters
  <2> QED BY <2>1, EstimateLeast DEF CountInv, Positive
<1>2. Filter => CountedSeen
  BY DEF Filter, CountedSeen
<1> QED
  BY <1>1, <1>2, CountInvariant, PTL

(* The answer of a call that no clear overtook has, without lost updates,  *)
(* every call for the hash that ended before it began, and is not 0 when   *)
(* there was one, whatever was lost (data_sketch.c:72, 99).                *)
THEOREM AnswersSound == ASSUME NoWrap PROVE SketchSpec => []AnswerCounts
<1>1. CountInv => AnswerCounts
  BY DEF CountInv, Answers, Sound, AnswerCounts, Calling
<1>2. Filter => AnswerCounts
  BY DEF Filter, AnswerCounts, Idle
<1> QED
  BY <1>1, <1>2, CountInvariant, PTL

(* While no update is lost, the estimate of a key is at least the number   *)
(* of times it was counted by calls begun after the last clear, and, when  *)
(* no clear runs, at most the number of calls since the last clear began;  *)
(* calls come and go while a clear sets one counter after the other to 0.  *)
(* The upper bound needs four rows: countmin_clear sets a quarter of the   *)
(* counters to 0, which must have the first row among them                 *)
(* (data_sketch.h:62); CM_DEPTH is 6 (hetero.h:9).                         *)
THEOREM Bracketed == ASSUME NoWrap, Depth >= SIZEOF PROVE SketchSpec => []EstimateBracket
<1> DEFINE Inv == (CountInv /\ Upper) \/ Filter
<1>1. SketchInit => Inv
  BY ShapeInit, CountInit
<1>2. Inv /\ [SketchNext]_skvars /\ (CountInv \/ Filter)' => Inv'
  <2>1. CASE UNCHANGED skvars
    BY <2>1 DEF skvars, CountInv, Counters, Limits, Quiet, Positive, Lower, Answers, Counting,
                    Clearing, Filter, Upper, Pending
  <2>2. ASSUME CountInv, Upper, SketchNext, (CountInv \/ Filter)' PROVE Inv'
    BY <2>2, CountOnly, UpperStep DEF CountInv
  <2> QED BY <2>1, <2>2, FilterStep
<1>3. CountInv /\ Upper => EstimateBracket
  <2> SUFFICES ASSUME CountInv, Upper, clean, NEW h \in DOMAIN done
               PROVE  done[h] <= Estimate(h) /\ (Clearing = {} => Estimate(h) <= begun)
    BY DEF EstimateBracket
  <2>1. h \in HS /\ 0 \in Rows /\ Counters
    BY WidthAssumption DEF CountInv, Counters, Rows
  <2>2. PICK i \in Rows : Estimate(h) = sk.counts[Cell(h, i)]
    BY <2>1, EstimateLeast
  <2>3. done[h] <= sk.counts[Cell(h, i)]
    <3>1. Cardinality(Did(doing, h, i)) \in Nat
      <4>1. IsFiniteSet(Did(doing, h, i))
        BY ThreadAssumption, FS_Subset DEF Did
      <4> QED BY <4>1, FS_CardinalityType
    <3>2. done[h] + Cardinality(Did(doing, h, i)) <= sk.counts[Cell(h, i)]
      BY <2>1 DEF CountInv, Lower
    <3>3. done[h] \in Nat /\ sk.counts[Cell(h, i)] \in Nat
      BY <2>1, Numbers, CellIn
    <3> QED BY <3>1, <3>2, <3>3
  <2>4. ASSUME Clearing = {} PROVE sk.counts[Cell(h, 0)] <= begun
    <3>1. Cardinality(Pend(doing, 0)) \in Nat
      <4>1. IsFiniteSet(Pend(doing, 0))
        BY ThreadAssumption, FS_Subset DEF Pend
      <4> QED BY <4>1, FS_CardinalityType
    <3>2. sk.counts[Cell(h, 0)] + Cardinality(Pend(doing, 0)) <= begun
      BY <2>1, <2>4, CellIn DEF Upper, Pending
    <3>3. begun \in Nat /\ sk.counts[Cell(h, 0)] \in Nat
      BY <2>1, Numbers, CellIn
    <3> QED BY <3>1, <3>2, <3>3
  <2>5. Estimate(h) <= sk.counts[Cell(h, 0)] /\ sk.counts[Cell(h, 0)] \in Nat
        /\ sk.counts[Cell(h, i)] \in Nat /\ begun \in Nat
    BY <2>1, EstimateLeast, Numbers, CellIn
  <2> QED BY <2>2, <2>3, <2>4, <2>5
<1>4. Filter => EstimateBracket
  BY DEF Filter, EstimateBracket, COUNT_MIN, BLOOM_FILTER
<1> QED
  BY <1>1, <1>2, <1>3, <1>4, CountInvariant, PTL DEF SketchSpec
=============================================================================
