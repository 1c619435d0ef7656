----------------------------- MODULE PacketPool -----------------------------
(***************************************************************************)
(* The pool of receive buffers of one array face                           *)
(* (src/m01_receiver/network/packet_pool.cpp): a lock-free list of free    *)
(* buffers, one action per access to shared memory.                        *)
(*                                                                         *)
(* The receive thread of the face is the only one that allocates; buffers  *)
(* are returned by it, by the processing thread and by the main thread.    *)
(* With a second allocating thread the list would suffer from ABA and      *)
(* ListExact would not hold.                                               *)
(*                                                                         *)
(* Buffers are numbered from 1; 0 is the null pointer.  A node and its     *)
(* buffer are one thing.                                                   *)
(***************************************************************************)
EXTENDS Integers

CONSTANTS
    PoolSize,     \* pool_size_
    Allocators,   \* the threads that call allocate
    Freers,       \* the threads that call deallocate
    MaxHeap,      \* bound: heap buffers that exist at a time
    Width         \* the counters are unsigned, modulo Width

ASSUME PoolAssumption ==
    /\ PoolSize \in Nat
    /\ MaxHeap \in Nat
    /\ Width \in Nat /\ Width > PoolSize
    /\ Allocators \cap Freers = {}

(* The receive thread is the only one that calls allocate. *)
ASSUME OneAllocator == \A t, u \in Allocators : t = u

VARIABLES
    free_head,             \* free_head
    next,                  \* FreeNode::next
    available,             \* the counter `available`
    pc, lhead, lnext,      \* of each thread: where it is, head and next
    lbuf,                  \* of a freeing thread: the buffer it returns
    lent,                  \* the buffers handed out and not yet returned
    heap,                  \* the number of heap buffers handed out
    free                   \* history: the buffers on the list

poolVars == <<free_head, next, available, pc, lhead, lnext, lbuf, lent, heap,
              free>>

Buffers == 1..PoolSize

Threads == Allocators \cup Freers

(* The constructor; storage that cannot be had leaves the list empty. *)
PoolInit ==
    /\ free \in {Buffers, {}}
    /\ free_head = IF free = {} THEN 0 ELSE 1
    /\ next = [b \in Buffers |-> IF b < PoolSize THEN b + 1 ELSE 0]
    /\ available = IF free = {} THEN 0 ELSE PoolSize
    /\ pc = [t \in Threads |-> "idle"]
    /\ lhead = [t \in Threads |-> 0]
    /\ lnext = [t \in Threads |-> 0]
    /\ lbuf = [t \in Threads |-> 0]
    /\ lent = {}
    /\ heap = 0

----------------------------------------------------------------------------
(* allocate *)

AllocLoad(t) ==
    /\ t \in Allocators
    /\ pc[t] = "idle"
    /\ lhead' = [lhead EXCEPT ![t] = free_head]
    /\ pc' = [pc EXCEPT ![t] = IF free_head = 0 THEN "fallback" ELSE "next"]
    /\ UNCHANGED <<free_head, next, available, lnext, lbuf, lent, heap, free>>

(* head->next is a plain read. *)
AllocNext(t) ==
    /\ pc[t] = "next"
    /\ lnext' = [lnext EXCEPT ![t] = next[lhead[t]]]
    /\ pc' = [pc EXCEPT ![t] = "cas"]
    /\ UNCHANGED <<free_head, next, available, lhead, lbuf, lent, heap, free>>

(* Mutant: the head is stored without comparing it. *)
MutAllocCas(t) ==
    /\ pc[t] = "cas"
    /\ free_head' = lnext[t]
    /\ free' = free \ {lhead[t]}
    /\ pc' = [pc EXCEPT ![t] = "took"]
    /\ UNCHANGED <<next, available, lhead, lnext, lbuf, lent, heap>>

(* compare_exchange_weak; a failed exchange reloads head and may be spurious. *)
AllocCas(t) ==
    /\ pc[t] = "cas"
    /\ \/ /\ free_head = lhead[t]
          /\ free_head' = lnext[t]
          /\ free' = free \ {lhead[t]}
          /\ pc' = [pc EXCEPT ![t] = "took"]
          /\ lhead' = lhead
       \/ /\ lhead' = [lhead EXCEPT ![t] = free_head]
          /\ pc' = [pc EXCEPT ![t] =
                        IF free_head = 0 THEN "fallback" ELSE "next"]
          /\ UNCHANGED <<free_head, free>>
    /\ UNCHANGED <<next, available, lnext, lbuf, lent, heap>>

(* available and allocated are counted after the exchange, then it returns. *)
AllocCount(t) ==
    /\ pc[t] = "took"
    /\ available' = (available + Width - 1) % Width
    /\ lent' = lent \cup {lhead[t]}
    /\ pc' = [pc EXCEPT ![t] = "idle"]
    /\ UNCHANGED <<free_head, next, lhead, lnext, lbuf, heap, free>>

(* The list was empty: a buffer of the heap, or nullptr if there is none. *)
AllocFallback(t) ==
    /\ pc[t] = "fallback"
    /\ heap' \in {heap, heap + 1}
    /\ heap' <= MaxHeap
    /\ pc' = [pc EXCEPT ![t] = "idle"]
    /\ UNCHANGED <<free_head, next, available, lhead, lnext, lbuf, lent, free>>

----------------------------------------------------------------------------
(* deallocate *)

(* A buffer of the pool, found by its address. *)
FreeLoad(t) ==
    /\ t \in Freers
    /\ pc[t] = "idle"
    /\ \E b \in lent :
        /\ lent' = lent \ {b}
        /\ lbuf' = [lbuf EXCEPT ![t] = b]
    /\ lhead' = [lhead EXCEPT ![t] = free_head]
    /\ pc' = [pc EXCEPT ![t] = "link"]
    /\ UNCHANGED <<free_head, next, available, lnext, heap, free>>

(* A buffer of the heap, known by the magic number before it. *)
FreeHeap(t) ==
    /\ t \in Freers
    /\ pc[t] = "idle"
    /\ heap > 0
    /\ heap' = heap - 1
    /\ UNCHANGED <<free_head, next, available, pc, lhead, lnext, lbuf, lent,
                   free>>

(* node->next = head *)
FreeLink(t) ==
    /\ pc[t] = "link"
    /\ next' = [next EXCEPT ![lbuf[t]] = lhead[t]]
    /\ pc' = [pc EXCEPT ![t] = "push"]
    /\ UNCHANGED <<free_head, available, lhead, lnext, lbuf, lent, heap, free>>

(* Mutant: a failed exchange does not link the node again. *)
MutFreeCas(t) ==
    /\ pc[t] = "push"
    /\ free_head' = lbuf[t]
    /\ free' = free \cup {lbuf[t]}
    /\ pc' = [pc EXCEPT ![t] = "gave"]
    /\ UNCHANGED <<next, available, lhead, lnext, lbuf, lent, heap>>

FreeCas(t) ==
    /\ pc[t] = "push"
    /\ \/ /\ free_head = lhead[t]
          /\ free_head' = lbuf[t]
          /\ free' = free \cup {lbuf[t]}
          /\ pc' = [pc EXCEPT ![t] = "gave"]
          /\ lhead' = lhead
       \/ /\ lhead' = [lhead EXCEPT ![t] = free_head]
          /\ pc' = [pc EXCEPT ![t] = "link"]
          /\ UNCHANGED <<free_head, free>>
    /\ UNCHANGED <<next, available, lnext, lbuf, lent, heap>>

FreeCount(t) ==
    /\ pc[t] = "gave"
    /\ available' = (available + 1) % Width
    /\ pc' = [pc EXCEPT ![t] = "idle"]
    /\ UNCHANGED <<free_head, next, lhead, lnext, lbuf, lent, heap, free>>

----------------------------------------------------------------------------
PoolNext == \E t \in Threads :
    \/ AllocLoad(t) \/ AllocNext(t) \/ AllocCas(t) \/ AllocCount(t)
    \/ AllocFallback(t)
    \/ FreeLoad(t) \/ FreeHeap(t) \/ FreeLink(t) \/ FreeCas(t) \/ FreeCount(t)

PoolSpec == PoolInit /\ [][PoolNext]_poolVars

----------------------------------------------------------------------------
PoolTypeOK ==
    /\ free_head \in 0..PoolSize
    /\ next \in [Buffers -> 0..PoolSize]
    /\ available \in 0..(Width - 1)
    /\ pc \in [Threads -> {"idle", "next", "cas", "took", "fallback",
                           "link", "push", "gave"}]
    /\ lhead \in [Threads -> 0..PoolSize]
    /\ lnext \in [Threads -> 0..PoolSize]
    /\ lbuf \in [Threads -> 0..PoolSize]
    /\ lent \subseteq Buffers
    /\ free \subseteq Buffers
    /\ heap \in Nat

(* The buffers on their way from the list to a caller or back. *)
InHand(t) ==
    IF pc[t] = "took" THEN {lhead[t]}
    ELSE IF pc[t] \in {"link", "push"} THEN {lbuf[t]} ELSE {}

(***************************************************************************)
(* The list from free_head holds free buffers only: it never leads to a    *)
(* buffer in use, and no two of its buffers lead to the same one.          *)
(***************************************************************************)
ListExact ==
    /\ free_head \in free \cup {0}
    /\ \A b \in free : next[b] \in (free \cup {0}) \ {free_head}
    /\ \A b, c \in free : next[b] = next[c] => b = c

(* No buffer is handed out twice, or handed out while it is free. *)
NoBufferTwice ==
    /\ free \cap lent = {}
    /\ \A t \in Threads :
        /\ InHand(t) \cap (free \cup lent) = {}
        /\ \A u \in Threads \ {t} : InHand(t) \cap InHand(u) = {}

=============================================================================
