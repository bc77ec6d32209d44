------------------------------- MODULE MCUtil -------------------------------
(* The sketch and the queue for TLC, one of them in use, as util_test.c    *)
(* tries them one after the other.                                         *)
EXTENDS Queue, Sketch, TLC

CONSTANTS k1, k2, t1, t2

VARIABLE used   \* the structure in use

UtilInit == /\ Init /\ SketchInit
            /\ used \in IF sk.mode = COUNT_MIN THEN {"queue", "sketch"} ELSE {"sketch"}

UtilNext == /\ \/ used = "queue" /\ Next /\ UNCHANGED skvars
               \/ used = "sketch" /\ SketchNext /\ UNCHANGED vars
            /\ UNCHANGED used

UtilSpec == UtilInit /\ [][UtilNext]_<<vars, skvars, used>>

(* Four rows of two counters and words of three bits, so that the last row *)
(* takes its bit from the second word.  The two hashes of a key share the  *)
(* counters of some rows and not of others.                                *)
Words == [s \in {0, 1}, k \in Keys |-> IF (k = k1) = (s = 0) THEN <<5, 5>> ELSE <<3, 4>>]

(* Bits of the first 32 and of the next. *)
Bits == [s \in {0, 1}, k \in Keys |-> IF k = k1 THEN 5 ELSE 37]

Symmetry == Permutations(Threads)
=============================================================================
