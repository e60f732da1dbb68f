--------------------------- MODULE MCVariableLock ---------------------------
(* Instances of VariableLock for TLC. *)
EXTENDS VariableLock
=============================================================================
