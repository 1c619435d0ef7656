---------------------------- MODULE MCSPSCQueue ----------------------------
(* Small instances of the ring for TLC. *)
EXTENDS SPSCQueue

=============================================================================
