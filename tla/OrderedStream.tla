--------------------------- MODULE OrderedStream ---------------------------
(***************************************************************************)
(* What the reorderer of a face promises to the consumer of its output,    *)
(* with no ring, no indices, no bitmap and no clock: a stream that emits   *)
(* consecutive sequence numbers.  Packets that come early are held as a    *)
(* set, an expected packet may be given up, and closing the stream emits   *)
(* whatever is held.  Numbers are counted modulo SeqMod.                   *)
(***************************************************************************)
EXTENDS Integers, Sequences, FiniteSets

CONSTANTS Window, SeqMod, Payloads, NoPayload, ZeroFill

VARIABLES started, next, held, emitted, closed

svars == <<started, next, held, emitted, closed>>

Numbers == 0..(SeqMod - 1)

(* How many numbers t is ahead of s. *)
Ahead(s, t) == (t - s) % SeqMod

After(s, n) == (s + n) % SeqMod

Real(s, p) == [sequence |-> s, payload |-> p, is_zero_filled |-> FALSE]

Fill(s) == [sequence |-> s, payload |-> NoPayload, is_zero_filled |-> TRUE]

(***************************************************************************)
(* Emit `first', then the held packets n, n+1, ... as far as they go, so   *)
(* that the packet the stream then waits for is one it does not hold.      *)
(***************************************************************************)
Emit(first, n) ==
    \E run \in SUBSET held :
        LET k == Cardinality(run)
        IN  /\ \A j \in 0..(k - 1) : \E p \in run : p.sequence = After(n, j)
            /\ \A p \in held \ run : p.sequence # After(n, k)
            /\ held' = held \ run
            /\ next' = After(n, k)
            /\ emitted' = first \o
                   [j \in 1..k |-> CHOOSE p \in run :
                                       p.sequence = After(n, j - 1)]

(* An early packet is held if it is close enough and not held already. *)
Holdable(s, n) ==
    /\ Ahead(n, s) \in 1..(Window - 1)
    /\ 2 * Ahead(n, s) < SeqMod
    /\ \A p \in held : p.sequence # s

Accept(s, p) ==
    LET n == IF started THEN next ELSE s
    IN  /\ ~closed
        /\ started' = TRUE
        /\ UNCHANGED closed
        /\ \/ s = n /\ Emit(<<Real(s, p)>>, After(s, 1))
           \/ /\ s # n
              /\ held' = IF Holdable(s, n) THEN held \cup {Real(s, p)} ELSE held
              /\ next' = n
              /\ emitted' = <<>>

GiveUp ==
    /\ ~closed
    /\ started
    /\ Emit(IF ZeroFill THEN <<Fill(next)>> ELSE <<>>, After(next, 1))
    /\ UNCHANGED <<started, closed>>

(* Everything held is emitted exactly once. *)
Close ==
    /\ ~closed
    /\ closed' = TRUE
    /\ held' = {}
    /\ Len(emitted') = Cardinality(held)
    /\ {emitted'[j] : j \in 1..Len(emitted')} = held
    /\ UNCHANGED <<started, next>>

(* The consumer has taken the batch. *)
Idle ==
    /\ emitted' = <<>>
    /\ UNCHANGED <<started, next, held, closed>>

SInit ==
    /\ started = FALSE
    /\ next = 0
    /\ held = {}
    /\ emitted = <<>>
    /\ closed = FALSE

SNext ==
    \/ \E s \in Numbers, p \in Payloads : Accept(s, p)
    \/ GiveUp
    \/ Close
    \/ Idle

SSpec == SInit /\ [][SNext]_svars
=============================================================================
