----------------------------- MODULE MCEmulator -----------------------------
(* A small instance of the emulator for TLC. *)
EXTENDS Emulator
=============================================================================
