----------------------------- MODULE MCEBRSync -----------------------------
(* Instances of EBRSync for TLC. *)
EXTENDS EBRSync
=============================================================================
