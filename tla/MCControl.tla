----------------------------- MODULE MCControl -----------------------------
(* Model-checking instances of the control plane. *)
EXTENDS Control
=============================================================================
