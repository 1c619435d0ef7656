----------------------------- MODULE MCCapture ------------------------------
(* A small instance of the capture for TLC. *)
EXTENDS Capture
=============================================================================
