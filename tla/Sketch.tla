------------------------------- MODULE Sketch -------------------------------
(***************************************************************************)
(* The count-min sketch and the Bloom filter of src/src/data_sketch.c.     *)
(* The threads of the index share one count-min sketch without any lock:   *)
(* counts[idx]++ is a load and a store, and index_insert clears the sketch,*)
(* one counter after the other, while others are in the middle of a call   *)
(* or begin one.  A call is given a hash of                                *)
(* two words (ext_hash) or takes the one that the seed of the sketch gives.*)
(* For a special key both calls return INT32_MAX at once; that is left out.*)
(***************************************************************************)
EXTENDS Integers, FiniteSetsExt

CONSTANTS Threads, Keys,
          WORD,           \* bits of a word of the hash (64)
          COUNTER_BITS,   \* bits of a counter and of an index (32)
          Width, Depth,   \* of the count-min sketch
          BloomWidth,     \* bits of the Bloom filter at first
          Seed, Random,   \* the seed given to sketch_construct; what rand() gives
          ExtSeed,        \* the seed of the hashes that callers pass
          Murmur,         \* Murmur[<<seed, k>>]: MurmurHash3_x64_128, the two words of the hash of k
          Murmur64,       \* Murmur64[<<seed, k>>]: MurmurHash3_x64_64, for the Bloom filter
          MaxCalls        \* bound on the calls that count

UINT32_MAX == 2 ^ COUNTER_BITS - 1

(* Arithmetic of uint32_t. *)
UInt32(n) == n % 2 ^ COUNTER_BITS

SIZEOF == 4   \* bytes of a counter

(* __builtin_ctz of a power of 2 *)
Log2(n) == CHOOSE b \in 0 .. n : 2 ^ b = n

IsPowerOf2(n) == \E b \in 0 .. n : 2 ^ b = n

COUNT_MIN == "COUNT_MIN"
BLOOM_FILTER == "BLOOM_FILTER"

(* A seed other than 0 is not kept. *)
KeptSeed(seed) == IF seed = 0 THEN Random ELSE 0

(* Counters in rows, or the set of the bits that are set, as pairs of a    *)
(* word and a bit.                                                         *)
sketch_construct(width, depth, seed, mode) ==
  [mode |-> mode, width |-> width, depth |-> depth,
   shift |-> IF mode = COUNT_MIN THEN Log2(width) ELSE 0,
   counts |-> IF mode = COUNT_MIN THEN [i \in 0 .. UInt32(depth * width) - 1 |-> 0] ELSE {},
   seed |-> KeptSeed(seed)]

(* Otherwise sketch_construct returns NULL.  A width of 0 passes for a     *)
(* power of 2, and a count-min sketch gets it, with a shift that           *)
(* __builtin_ctz leaves undefined.                                         *)
Constructs(width, depth, mode) ==
  /\ width = 0 \/ IsPowerOf2(width)
  /\ IF mode = COUNT_MIN THEN width = 0 \/ Log2(width) * depth <= 2 * WORD ELSE width >= SIZEOF * 8

(* A caller gives a width other than 0, which sketch_construct does not    *)
(* check.                                                                  *)
ASSUME WidthAssumption == /\ WORD \in Nat \ {0} /\ COUNTER_BITS \in Nat \ {0} /\ Depth \in Nat \ {0}
                          /\ Width \in Nat \ {0} /\ BloomWidth \in Nat /\ MaxCalls \in Nat
(* Larger sketches are not refused, but depth * width and the index wrap.   *)
ASSUME FitAssumption == Depth * Width <= UINT32_MAX /\ 2 * BloomWidth <= UINT32_MAX
ASSUME ThreadAssumption == IsFiniteSet(Threads)
ASSUME HashAssumption ==
  \A k \in Keys : /\ \A s \in {ExtSeed, KeptSeed(Seed)} :
                       Murmur[<<s, k>>] \in (0 .. 2 ^ WORD - 1) \X (0 .. 2 ^ WORD - 1)
                  /\ Murmur64[<<KeptSeed(Seed), k>>] \in Nat
ASSUME Constructed == Constructs(Width, Depth, COUNT_MIN) /\ Constructs(BloomWidth, Depth, BLOOM_FILTER)

VARIABLES sk,      \* the sketch
          doing,   \* doing[t]: the call that thread t is in
          done,    \* history: calls that counted hash h, begun after the last clear and ended
          begun,   \* history: calls that may have counted since the last clear began
          total,   \* all calls that counted, for the bound
          clean,   \* history: no update was lost since the last clear began
          added    \* history: the keys in the Bloom filter

skvars == <<sk, doing, done, begun, total, clean, added>>
-----------------------------------------------------------------------------
(* The hash is cut into columns: shift bits per row, from the low end of   *)
(* the first word.  When that is used up the second one follows; what is   *)
(* left of the first then has fewer than shift bits, so that + stands for  *)
(* the bitwise or.                                                         *)
CutHash(hash, tot_shift, shift) ==
  LET over == tot_shift + shift - WORD
      both == (hash[1] + hash[2] * 2 ^ (shift - over)) % 2 ^ WORD
      next == IF over < 0 THEN hash
              ELSE IF over = 0 THEN <<hash[2], hash[2]>>
              ELSE <<both, hash[2] \div 2 ^ (WORD - over)>>
  IN <<next[1] \div 2 ^ shift, next[2]>>

CutShift(tot_shift, shift) ==
  LET tot == tot_shift + shift IN IF tot < WORD THEN tot ELSE tot - WORD

Cut(c, shift) == [c EXCEPT !.hash = CutHash(c.hash, c.tot_shift, shift),
                           !.tot_shift = CutShift(c.tot_shift, shift)]

(* A mistake to catch: the row is not masked. *)
IdxUnmasked(c) == UInt32(c.i * sk.width + c.hash[1])

Idx(c) == UInt32(c.i * sk.width + (c.hash[1] % sk.width))

NextRow(c) == Cut([c EXCEPT !.i = @ + 1], sk.shift)

Idle == [at |-> "idle"]

(* MurmurHash3_x64_128, or the hash that the caller has. *)
HashesOf(seed) == {Murmur[<<ExtSeed, k>>] : k \in Keys} \union {Murmur[<<seed, k>>] : k \in Keys}

Hashes == HashesOf(sk.seed)

Clearing == {t \in Threads : doing[t].at = "clear"}

(* A call is fresh until a clear runs.                                     *)
Begin(t, op, h) ==
  /\ sk.mode = COUNT_MIN /\ doing[t].at = "idle"
  /\ doing' = [doing EXCEPT ![t] =
       [at |-> op, op |-> op, h |-> h, hash |-> h, i |-> 0, tot_shift |-> 0, loaded |-> 0,
        minimal |-> UINT32_MAX, fresh |-> Clearing = {}, before |-> done[h]]]
  /\ UNCHANGED <<sk, done, clean, added>>

BeginInc(t, h) == /\ total < MaxCalls
                  /\ Begin(t, "load", h)
                  /\ begun' = begun + 1 /\ total' = total + 1

BeginCount(t, h) == Begin(t, "count", h) /\ UNCHANGED <<begun, total>>

(* countmin_inc_explicit: counts[idx]++ *)
IncLoad(t) ==
  LET c == doing[t]
  IN /\ c.at = "load"
     /\ doing' = [doing EXCEPT ![t] = [c EXCEPT !.at = "store", !.loaded = sk.counts[Idx(c)]]]
     /\ UNCHANGED <<sk, done, begun, total, clean, added>>

(* A mistake to catch: the counter of another row is written. *)
IncStoreElsewhere(t) ==
  LET c == doing[t]
  IN /\ c.at = "store"
     /\ sk' = [sk EXCEPT !.counts[c.hash[1] % sk.width] = UInt32(c.loaded + 1)]
     /\ clean' = (clean /\ sk.counts[Idx(c)] = c.loaded)
     /\ doing' = [doing EXCEPT ![t] = [c EXCEPT !.at = "read"]]
     /\ UNCHANGED <<done, begun, total, added>>

IncStore(t) ==
  LET c == doing[t]
  IN /\ c.at = "store"
     /\ sk' = [sk EXCEPT !.counts[Idx(c)] = UInt32(c.loaded + 1)]
     /\ clean' = (clean /\ sk.counts[Idx(c)] = c.loaded)
     /\ doing' = [doing EXCEPT ![t] = [c EXCEPT !.at = "read"]]
     /\ UNCHANGED <<done, begun, total, added>>

(* The call goes to the next row, or ends. *)
EndRow(t, op, seen) ==
  LET c    == doing[t]
      min  == IF c.minimal <= seen THEN c.minimal ELSE seen
      ends == c.i + 1 = sk.depth
  IN /\ doing' = [doing EXCEPT ![t] = [NextRow(c) EXCEPT !.minimal = min, !.loaded = 0,
                                                       !.at = IF ends THEN "end" ELSE op]]
     /\ done' = IF ends /\ c.op = "load" /\ c.fresh THEN [done EXCEPT ![c.h] = @ + 1] ELSE done
     /\ UNCHANGED <<sk, begun, total, clean, added>>

(* The value that is compared may be the one just stored, which the        *)
(* compiler has in a register, or one loaded again.                        *)
IncRead(t) ==
  LET c == doing[t]
  IN /\ c.at = "read"
     /\ \E seen \in {UInt32(c.loaded + 1), sk.counts[Idx(c)]} : EndRow(t, "load", seen)

(* A mistake to catch: the hash is cut before its column is taken. *)
CountReadCut(t) ==
  /\ doing[t].at = "count"
  /\ EndRow(t, "count", sk.counts[Idx(Cut(doing[t], sk.shift))])

(* countmin_count_explicit *)
CountRead(t) == /\ doing[t].at = "count"
                /\ EndRow(t, "count", sk.counts[Idx(doing[t])])

Return(t) == /\ doing[t].at = "end"
             /\ doing' = [doing EXCEPT ![t] = Idle]
             /\ UNCHANGED <<sk, done, begun, total, clean, added>>

Counting == {t \in Threads : doing[t].at \in {"load", "store", "read"}}

(* A mistake to catch: half the first row is cleared. *)
ClearedBytes == UInt32(Depth * Width) \div 2

(* The number of bytes that countmin_clear sets to 0: as many as there are *)
(* counters.                                                               *)
MemsetBytes == UInt32(Depth * Width)

Overtaken(c) == IF c.at \in {"idle", "clear"} THEN c ELSE [c EXCEPT !.fresh = FALSE]

(* countmin_clear: a memset, of which other threads may see any part.  A   *)
(* counter is set to 0 in one step.                                        *)
ClearBegin(t) ==
  /\ sk.mode = COUNT_MIN /\ doing[t].at = "idle"
  /\ doing' = [u \in Threads |->
                IF u = t THEN [at |-> "clear", left |-> {i \in DOMAIN sk.counts : SIZEOF * i < MemsetBytes}]
                ELSE Overtaken(doing[u])]
  /\ done' = [h \in DOMAIN done |-> 0]
  /\ begun' = Cardinality(Counting)
  /\ clean' = TRUE
  /\ UNCHANGED <<sk, total, added>>

ClearCounter(t) ==
  /\ doing[t].at = "clear"
  /\ \E i \in doing[t].left :
       /\ sk' = [sk EXCEPT !.counts[i] = 0]
       /\ doing' = [doing EXCEPT ![t] = [at |-> "clear", left |-> doing[t].left \ {i}]]
  /\ UNCHANGED <<done, begun, total, clean, added>>

ClearEnd(t) == /\ doing[t].at = "clear" /\ doing[t].left = {}
               /\ doing' = [doing EXCEPT ![t] = Idle]
               /\ UNCHANGED <<sk, done, begun, total, clean, added>>
-----------------------------------------------------------------------------
(* The place of a key in a Bloom filter: a word and a bit of it. *)
BitOf(b, k) ==
  LET idx == Murmur64[<<b.seed, k>>] % b.width
  IN <<idx \div 2 ^ (SIZEOF + 1), idx % (SIZEOF * 8)>>

(* A mistake to catch: the width before the last expansion is used. *)
BloomAddOld(k) ==
  /\ sk.mode = BLOOM_FILTER
  /\ sk' = [sk EXCEPT !.counts = @ \union {BitOf([sk EXCEPT !.width = BloomWidth], k)}]
  /\ added' = added \union {k}
  /\ UNCHANGED <<doing, done, begun, total, clean>>

(* All depth rounds compute the same place. *)
bloom_add(k) ==
  /\ sk.mode = BLOOM_FILTER
  /\ sk' = [sk EXCEPT !.counts = @ \union {BitOf(sk, k)}]
  /\ added' = added \union {k}
  /\ UNCHANGED <<doing, done, begun, total, clean>>

bloom_exists(k) == BitOf(sk, k) \in sk.counts

bloom_expand ==
  /\ sk.mode = BLOOM_FILTER /\ sk.width = BloomWidth
  /\ sk' = [sk EXCEPT !.width = UInt32(2 * @), !.counts = {}]
  /\ added' = {}
  /\ UNCHANGED <<doing, done, begun, total, clean>>
-----------------------------------------------------------------------------
SketchInit ==
  /\ sk \in {sketch_construct(Width, Depth, Seed, COUNT_MIN),
             sketch_construct(BloomWidth, Depth, Seed, BLOOM_FILTER)}
  /\ doing = [t \in Threads |-> Idle]
  /\ done = [h \in Hashes |-> 0]
  /\ begun = 0 /\ total = 0 /\ clean = TRUE /\ added = {}

SketchNext ==
  \/ \E t \in Threads :
       \/ \E h \in Hashes : BeginInc(t, h) \/ BeginCount(t, h)
       \/ IncLoad(t) \/ IncStore(t) \/ IncRead(t) \/ CountRead(t) \/ Return(t)
       \/ ClearBegin(t) \/ ClearCounter(t) \/ ClearEnd(t)
  \/ \E k \in Keys : bloom_add(k)
  \/ bloom_expand

SketchSpec == SketchInit /\ [][SketchNext]_skvars
-----------------------------------------------------------------------------
(* Where the loop of a call is when it comes to row i of a hash, and the   *)
(* estimate of the hash when nothing runs.                                 *)
PlaceIn[i \in 0 .. Depth - 1] ==
  [h \in HashesOf(KeptSeed(Seed)) |->
     IF i = 0 THEN [hash |-> h, i |-> 0, tot_shift |-> 0]
     ELSE Cut([PlaceIn[i - 1][h] EXCEPT !.i = @ + 1], Log2(Width))]

Estimate(h) == Min({sk.counts[Idx(PlaceIn[i][h])] : i \in 0 .. Depth - 1})

(* No call counts or reads outside the counters that were allocated, and   *)
(* no bit is set outside the words of the Bloom filter, whatever the cut   *)
(* of the hash and the expansions gave (data_sketch.c:70, 98, 125, 147).   *)
InBounds ==
  IF sk.mode = COUNT_MIN
  THEN /\ sk.counts \in [0 .. Depth * Width - 1 -> 0 .. UINT32_MAX]
       /\ \A t \in Threads :
            doing[t].at \in {"load", "store", "read", "count"} => Idx(doing[t]) \in DOMAIN sk.counts
  ELSE \A b \in sk.counts : b[1] < sk.width \div (SIZEOF * 8) /\ b[2] < SIZEOF * 8

(* While no update was lost, the estimate of a key is at least the number  *)
(* of times it was counted by calls begun after the last clear, and, when  *)
(* no clear is running, at most the number of calls since the last clear   *)
(* began: count-min never underestimates, and a clear, which takes its     *)
(* time and reaches only a quarter of the counters, leaves nothing of      *)
(* older counts (data_sketch.c:71, data_sketch.h:62).                      *)
EstimateBracket ==
  sk.mode = COUNT_MIN /\ clean =>
    \A h \in DOMAIN done : done[h] <= Estimate(h) /\ (Clearing = {} => Estimate(h) <= begun)

(* Lost updates do not erase what was counted: a hash that was counted by  *)
(* a call begun after the last clear is never estimated 0                  *)
(* (data_sketch.c:71).                                                     *)
CountedSeen == \A h \in DOMAIN done : done[h] > 0 => Estimate(h) > 0

(* The answer of a call that no clear overtook, which hash_modify and      *)
(* art_float compare frequencies with, covers every call for the hash that *)
(* ended before it began, whoever else counts; after lost updates it still *)
(* is not 0 when there was such a call (data_sketch.c:72, 99).             *)
AnswerCounts ==
  \A t \in Threads :
     LET c == doing[t]
     IN c.at = "end" /\ c.fresh =>
          /\ c.before > 0 => c.minimal > 0
          /\ clean => c.before <= c.minimal

(* A Bloom filter has no false negatives: a key that was added since the   *)
(* last expansion, which clears the filter, exists (data_sketch.c:117-148).*)
NoFalseNegative == \A k \in added : bloom_exists(k)
=============================================================================
