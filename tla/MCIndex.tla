------------------------------ MODULE MCIndex ------------------------------
(* The index and its sequential variant on one instance. *)
EXTENDS MCHeteroIndex, SeqIndex

VARIABLE variant   \* the directory: "src" or "sequential"

EitherInit == Init /\ variant \in {"src", "sequential"}

EitherNext == /\ \/ variant = "src" /\ Next
                 \/ variant = "sequential" /\ SeqNext
              /\ UNCHANGED variant

EitherSpec == EitherInit /\ [][EitherNext]_<<vars, variant>>
=============================================================================
