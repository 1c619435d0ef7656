---------------------------- MODULE BoundedQueue ----------------------------
(***************************************************************************)
(* What a queue between two threads promises: a sequence of at most Room   *)
(* items, put at one end and taken at the other, each in one step.  Items  *)
(* are numbered in the order they are put.                                 *)
(***************************************************************************)
EXTENDS Integers, Sequences

CONSTANTS Room

VARIABLES q, in, got

qvars == <<q, in, got>>

QInit == q = <<>> /\ in = 0 /\ got = 0

Put ==
    /\ Len(q) < Room
    /\ in' = in + 1
    /\ q' = Append(q, in + 1)
    /\ UNCHANGED got

Get ==
    /\ q # <<>>
    /\ got' = Head(q)
    /\ q' = Tail(q)
    /\ UNCHANGED in

QNext == Put \/ Get

QSpec == QInit /\ [][QNext]_qvars
=============================================================================
