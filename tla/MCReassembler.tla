--------------------------- MODULE MCReassembler ---------------------------
(* Model-checking instances of the reassembler. *)
EXTENDS Reassembler, TLC

(* Keys are only compared with each other. *)
KeySymmetry == Permutations(Keys)
=============================================================================
