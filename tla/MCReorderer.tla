---------------------------- MODULE MCReorderer ----------------------------
(* Small instances of the reorderer for TLC. *)
EXTENDS Reorderer

=============================================================================
