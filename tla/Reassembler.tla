---------------------------- MODULE Reassembler ----------------------------
(***************************************************************************)
(* The fragment reassembler of one array face                              *)
(* (src/m01_receiver/pipeline/reassembler.cpp).                            *)
(*                                                                         *)
(* The fragments of a frame share a key.  The first one opens a context,   *)
(* the last one completes it; a context that is open for too long is       *)
(* output with its gaps zero-filled, and its key is frozen: fragments that *)
(* come late are refused.  The frozen keys are kept in a ring of fixed     *)
(* size.  Each action is one whole call; `out' is the sequence of frames   *)
(* the call handed to callback_.                                           *)
(*                                                                         *)
(* process_packet and process_packet_zero_copy differ in who owns the      *)
(* payload and are one action.  Of a payload its size is kept, of a frame  *)
(* the size of each of its pieces.  Time is counted in ticks: a context    *)
(* has an age and a frozen key the time it stays frozen; both are only     *)
(* compared with timeouts, so they stop at MaxTimeout and 0.  The counters *)
(* of Statistics are left out.                                             *)
(***************************************************************************)
EXTENDS Integers, Sequences, FiniteSets, Functions

CONSTANTS
    Keys,          \* reassembly keys
    NoKey,         \* the key of an entry of the ring not used yet
    MaxContexts,   \* config_.max_contexts
    MaxTotal,      \* config_.max_total_frags
    MaxBytes,      \* config_.max_reasm_bytes_per_key
    DefaultSize,   \* sample_count_fixed * complex_size * channel_count
    Totals,        \* the values of total_frags in the packets that arrive
    BodySizes,     \* the payload sizes of those that are no tail fragment
    TailSizes,     \* ... of tail fragments
    TailBytes,     \* the values of tail_frag_payload_bytes
    Timeouts,      \* the values set_timeout_ms is called with, in ticks
    MaxTimeout     \* bound on Timeouts, and on the clock

ASSUME ReassemblerAssumption ==
    /\ IsFiniteSet(Keys) /\ NoKey \notin Keys
    /\ MaxContexts \in Nat /\ MaxTotal \in Nat /\ MaxBytes \in Nat
    /\ DefaultSize \in Nat
    /\ Totals \subseteq Nat /\ TailBytes \subseteq Nat
    /\ BodySizes \subseteq Nat /\ TailSizes \subseteq Nat
    /\ MaxTimeout \in Nat
    /\ Timeouts \subseteq 0..MaxTimeout

VARIABLES
    contexts,      \* contexts_, a function on the keys that have a context
    frozen_keys_ring, frozen_keys_next_insert,
    timeout_ms,    \* timeout_ms_runtime_
    flushed,       \* flush_all() was called: nothing is called after it
    out,           \* the frames output by the last call, in order
    promise,       \* history: how long each key is still to be frozen
    lowered        \* history: set_timeout_ms has lowered the timeout

vars == <<contexts, frozen_keys_ring, frozen_keys_next_insert, timeout_ms,
          flushed, out, promise, lowered>>

frozen == <<frozen_keys_ring, frozen_keys_next_insert>>

----------------------------------------------------------------------------
FragIndex == 0..MaxTotal

(* The first index of a set, in a scan that goes upwards. *)
Least(S) == CHOOSE i \in S : \A j \in S : i <= j

Fragment == [key : Keys, index : FragIndex, total : Totals,
             tail_bytes : TailBytes, size : BodySizes \cup TailSizes]

Context == [total : 1..MaxTotal, tail_bytes : TailBytes, age : 0..MaxTimeout,
            has_snapshot : BOOLEAN, received : SUBSET FragIndex,
            sizes : [FragIndex -> Nat], count : Nat, bytes : Nat,
            agree : BOOLEAN]

is_tail_fragment(f) == f.index = f.total - 1

(* The fragments that arrive. *)
Arriving == {f \in Fragment : f.size \in (IF is_tail_fragment(f) THEN TailSizes
                                                              ELSE BodySizes)}

(***************************************************************************)
(* What process_packet checks before it looks at its own state: the counts *)
(* in the header, and that a tail fragment is as long as it says.          *)
(***************************************************************************)
WellFormed(f) ==
    /\ f.total \in 1..MaxTotal
    /\ f.index < f.total
    /\ is_tail_fragment(f) => f.size = f.tail_bytes

NewContext(f) ==
    [total |-> f.total, tail_bytes |-> f.tail_bytes, age |-> 0,
     has_snapshot |-> FALSE, received |-> {},
     sizes |-> [i \in FragIndex |-> 0], count |-> 0, bytes |-> 0,
     agree |-> TRUE]

check_complete(ctx) == ctx.count = ctx.total

check_timeout(ctx) == ctx.age >= timeout_ms

(* Mutant: a fragment that was already received is accepted again. *)
MutAcceptsTwice(ctx, f) ==
    /\ f.index < ctx.total
    /\ ctx.bytes + f.size <= MaxBytes
    /\ IF is_tail_fragment(f) THEN f.size = ctx.tail_bytes ELSE f.size > 0

(* add_fragment returns true. *)
Accepts(ctx, f) ==
    /\ f.index < ctx.total
    /\ f.index \notin ctx.received
    /\ ctx.bytes + f.size <= MaxBytes
    /\ IF is_tail_fragment(f) THEN f.size = ctx.tail_bytes ELSE f.size > 0

add_fragment(ctx, f) ==
    [ctx EXCEPT !.received = @ \cup {f.index},
                !.sizes[f.index] = f.size,
                !.count = @ + 1,
                !.bytes = @ + f.size]

(* A tail fragment brings the execution snapshot, even if it is refused. *)
with_snapshot(ctx, f) ==
    [ctx EXCEPT !.has_snapshot = @ \/ is_tail_fragment(f)]

(* History: do all fragments so far name the context's number of fragments? *)
Agreeing(ctx, f) == [ctx EXCEPT !.agree = @ /\ f.total = ctx.total]

(* Mutant: a gap always has the configured size. *)
MutGapDefaultSize(ctx, i) ==
    IF i + 1 = ctx.total THEN ctx.tail_bytes ELSE DefaultSize

(***************************************************************************)
(* The frame made from a context: received pieces that have data, and      *)
(* zero-filled ones of the size inferred for them.                         *)
(***************************************************************************)
infer_missing_fragment_size(ctx, i) ==
    LET known == {j \in 0..(ctx.total - 2) : ctx.sizes[j] > 0}
    IN  IF i + 1 = ctx.total THEN ctx.tail_bytes
        ELSE IF known # {} THEN ctx.sizes[Least(known)]
        ELSE DefaultSize

Missing(ctx) ==
    {i \in 0..(ctx.total - 1) : i \notin ctx.received \/ ctx.sizes[i] = 0}

Frame(k, ctx) ==
    [key |-> k,
     layout |-> [i \in 0..(ctx.total - 1) |->
                    IF i \in Missing(ctx)
                    THEN infer_missing_fragment_size(ctx, i)
                    ELSE ctx.sizes[i]],
     missing |-> Missing(ctx),
     has_snapshot |-> ctx.has_snapshot,
     is_complete |-> Missing(ctx) = {},
     agree |-> ctx.agree]

----------------------------------------------------------------------------
(* The ring of frozen keys. *)

(* Mutant: a ring that holds a single key. *)
MutFrozenCapOne == 1

FrozenCap == IF MaxContexts = 0 THEN 1 ELSE 2 * MaxContexts

RingIndex == 0..(FrozenCap - 1)

FrozenEntry == [valid : BOOLEAN, key : Keys \cup {NoKey}, ttl : 0..MaxTimeout]

(* Entry i freezes key k now. *)
Freezes(i, k) ==
    LET e == frozen_keys_ring[i] IN e.valid /\ e.key = k /\ e.ttl > 0

is_key_frozen(k) == \E i \in RingIndex : Freezes(i, k)

(* The scan invalidates the expired entries it meets before it finds k. *)
RingAfterScan(k) ==
    [i \in RingIndex |->
        IF /\ frozen_keys_ring[i].ttl = 0
           /\ \A j \in 0..(i - 1) : ~Freezes(j, k)
        THEN [frozen_keys_ring[i] EXCEPT !.valid = FALSE]
        ELSE frozen_keys_ring[i]]

(* On a ring r = [slots, next]: refresh k's entry or overwrite the next. *)
add_frozen_key(r, k) ==
    LET same == {i \in RingIndex : r.slots[i].valid /\ r.slots[i].key = k}
        entry == [valid |-> TRUE, key |-> k, ttl |-> timeout_ms]
    IN  IF same # {}
        THEN [r EXCEPT !.slots[Least(same)] = entry]
        ELSE [slots |-> [r.slots EXCEPT ![r.next] = entry],
              next |-> (r.next + 1) % FrozenCap]

(* The ring after the keys of a sequence were frozen one after the other. *)
FreezeInOrder(order) ==
    LET ring[n \in 0..Len(order)] ==
            IF n = 0 THEN [slots |-> frozen_keys_ring,
                           next |-> frozen_keys_next_insert]
            ELSE add_frozen_key(ring[n - 1], order[n])
    IN  ring[Len(order)]

----------------------------------------------------------------------------
Init ==
    /\ contexts = [k \in {} |-> {}]
    /\ frozen_keys_ring =
           [i \in RingIndex |-> [valid |-> FALSE, key |-> NoKey, ttl |-> 0]]
    /\ frozen_keys_next_insert = 0
    /\ timeout_ms \in Timeouts
    /\ flushed = FALSE
    /\ out = <<>>
    /\ promise = [k \in Keys |-> 0]
    /\ lowered = FALSE

Without(ks) == [k \in DOMAIN contexts \ ks |-> contexts[k]]

With(k, ctx) ==
    [j \in DOMAIN contexts \cup {k} |-> IF j = k THEN ctx ELSE contexts[j]]

(* complete_reassembly(k, ctx, false): output, and no trace of the key. *)
Completed(k, ctx) ==
    /\ out' = <<Frame(k, ctx)>>
    /\ contexts' = Without({k})

(* The fragment goes to the context of its key, which may complete it. *)
AddToContext(f) ==
    LET old == IF f.key \in DOMAIN contexts THEN contexts[f.key]
                                            ELSE NewContext(f)
        ctx == with_snapshot(Agreeing(old, f), f)
        new == add_fragment(ctx, f)
    IN  \/ /\ ~Accepts(ctx, f)
           /\ contexts' = With(f.key, ctx)
           /\ out' = <<>>
        \/ /\ Accepts(ctx, f) /\ ~check_complete(new)
           /\ contexts' = With(f.key, new)
           /\ out' = <<>>
        \/ /\ Accepts(ctx, f) /\ check_complete(new)
           /\ Completed(f.key, new)

process_packet(f) ==
    /\ ~flushed
    /\ UNCHANGED <<frozen_keys_next_insert, timeout_ms, flushed, promise,
                   lowered>>
    /\ \/ /\ ~WellFormed(f)
          /\ out' = <<>>
          /\ UNCHANGED <<contexts, frozen_keys_ring>>
       \/ /\ WellFormed(f)
          /\ frozen_keys_ring' = RingAfterScan(f.key)
          /\ \/ /\ \/ is_key_frozen(f.key)
                   \/ /\ f.key \notin DOMAIN contexts
                      /\ Cardinality(DOMAIN contexts) >= MaxContexts
                /\ out' = <<>>
                /\ UNCHANGED contexts
             \/ /\ ~is_key_frozen(f.key)
                /\ \/ f.key \in DOMAIN contexts
                   \/ Cardinality(DOMAIN contexts) < MaxContexts
                /\ AddToContext(f)

(***************************************************************************)
(* complete_reassembly(k, ctx, true) for every key in ks, in the order of  *)
(* the hash map: output, freeze the key, destroy the context.              *)
(***************************************************************************)
TimeOut(ks) ==
    \E order \in Bijection(1..Cardinality(ks), ks) :
        LET ring == FreezeInOrder(order)
        IN  /\ out' = [i \in DOMAIN order |->
                          Frame(order[i], contexts[order[i]])]
            /\ contexts' = Without(ks)
            /\ frozen_keys_ring' = ring.slots
            /\ frozen_keys_next_insert' = ring.next
            /\ promise' = [k \in Keys |-> IF k \in ks THEN timeout_ms
                                                      ELSE promise[k]]

(* Mutant: only a context that holds a fragment can time out. *)
MutTimeoutsOfNonEmpty ==
    /\ ~flushed
    /\ TimeOut({k \in DOMAIN contexts :
                   contexts[k].count > 0 /\ check_timeout(contexts[k])})
    /\ UNCHANGED <<timeout_ms, flushed, lowered>>

check_timeouts ==
    /\ ~flushed
    /\ TimeOut({k \in DOMAIN contexts : check_timeout(contexts[k])})
    /\ UNCHANGED <<timeout_ms, flushed, lowered>>

flush_all ==
    /\ ~flushed
    /\ flushed' = TRUE
    /\ TimeOut(DOMAIN contexts)
    /\ UNCHANGED <<timeout_ms, lowered>>

set_timeout_ms(t) ==
    /\ ~flushed
    /\ timeout_ms' = t
    /\ lowered' = (lowered \/ t < timeout_ms)
    /\ out' = <<>>
    /\ UNCHANGED <<contexts, frozen, flushed, promise>>

(* Time passes. *)
Tick ==
    LET Less(n) == IF n > 0 THEN n - 1 ELSE 0
    IN  /\ ~flushed
        /\ contexts' = [k \in DOMAIN contexts |->
               [contexts[k] EXCEPT !.age = IF @ < MaxTimeout THEN @ + 1
                                                             ELSE @]]
        /\ frozen_keys_ring' = [i \in RingIndex |->
               [frozen_keys_ring[i] EXCEPT !.ttl = Less(@)]]
        /\ promise' = [k \in Keys |-> Less(promise[k])]
        /\ out' = <<>>
        /\ UNCHANGED <<frozen_keys_next_insert, timeout_ms, flushed, lowered>>

(* Everything but packets. *)
Housekeeping ==
    \/ check_timeouts
    \/ flush_all
    \/ \E t \in Timeouts : set_timeout_ms(t)
    \/ Tick

Next == (\E f \in Arriving : process_packet(f)) \/ Housekeeping

Spec == Init /\ [][Next]_vars

(***************************************************************************)
(* The main loop scans the timeouts of every face every 100 ms             *)
(* (app_run.cpp, step 3) and the clock runs.  Packets need not come.       *)
(***************************************************************************)
FairSpec == Spec /\ WF_vars(check_timeouts) /\ WF_vars(Tick)

----------------------------------------------------------------------------
(* Every variable has its type. *)
TypeOK ==
    /\ DOMAIN contexts \subseteq Keys
    /\ \A k \in DOMAIN contexts : contexts[k] \in Context
    /\ frozen_keys_ring \in [RingIndex -> FrozenEntry]
    /\ frozen_keys_next_insert \in RingIndex
    /\ timeout_ms \in Timeouts
    /\ flushed \in BOOLEAN
    /\ \A i \in DOMAIN out : out[i].key \in Keys
    /\ promise \in [Keys -> 0..MaxTimeout]
    /\ lowered \in BOOLEAN

(* The bytes of the fragments a context holds. *)
HeldBytes(ctx) ==
    LET sum[n \in 0..(MaxTotal + 1)] ==
            IF n = 0 THEN 0 ELSE sum[n - 1] + ctx.sizes[n - 1]
    IN  sum[MaxTotal + 1]

(***************************************************************************)
(* What an open context costs is bounded and exactly accounted for: there  *)
(* are at most max_contexts of them, the count and the bytes that          *)
(* add_fragment adds up are those of the fragments held, the bytes stay    *)
(* within the budget, and no context that has all its fragments is left    *)
(* open to be output as timed out.                                         *)
(***************************************************************************)
ContextsAccounted ==
    /\ Cardinality(DOMAIN contexts) <= MaxContexts
    /\ \A k \in DOMAIN contexts :
          LET c == contexts[k]
          IN  /\ c.received \subseteq 0..(c.total - 1)
              /\ c.count = Cardinality(c.received)
              /\ c.count < c.total
              /\ c.bytes = HeldBytes(c)
              /\ c.bytes <= MaxBytes

(***************************************************************************)
(* A frame that was output because of a timeout is not contaminated: while *)
(* its key is frozen no context is open for it, and no key holds two       *)
(* entries of the ring, of which one could outlive the other.              *)
(***************************************************************************)
FrozenIsClosed ==
    /\ \A k \in DOMAIN contexts : ~is_key_frozen(k)
    /\ \A i, j \in RingIndex :
          /\ frozen_keys_ring[i].valid /\ frozen_keys_ring[j].valid
          /\ frozen_keys_ring[i].key = frozen_keys_ring[j].key
          => i = j

(***************************************************************************)
(* M01 overview, 9.6: a fragment that comes while the key of its timed-out *)
(* frame is frozen is recognised as late.  So every key must be in the     *)
(* ring for as long as it was to be frozen.                                *)
(***************************************************************************)
FreezeKept == ~flushed => \A k \in Keys : promise[k] > 0 => is_key_frozen(k)

(***************************************************************************)
(* As long as the timeout is never lowered, 2 * max_contexts entries are   *)
(* enough: no key is overwritten in the ring before its freeze ends,       *)
(* however many contexts time out.                                         *)
(***************************************************************************)
FreezeKeptUnlessLowered == ~lowered => FreezeKept

(* The freeze does what it is for: FreezeKeptUnlessLowered and FrozenIsClosed. *)
FreezeSound == FreezeKeptUnlessLowered /\ FrozenIsClosed

(* Every fragment but the tail is sent with one size, or empty. *)
OneBodySize == \A a, b \in BodySizes \ {0} : a = b

(* All pieces but the tail have the body size, or the default without one. *)
InPlace(frame) ==
    LET tail == Cardinality(DOMAIN frame.layout) - 1
        body == DOMAIN frame.layout \ {tail}
    IN  /\ \E size \in (BodySizes \ {0}) \cup {DefaultSize} :
              /\ \A j \in body : frame.layout[j] = size
              /\ body \subseteq frame.missing \/ size \in BodySizes
        /\ frame.layout[tail] \in TailBytes

(***************************************************************************)
(* A gap does not move what follows it.  If every fragment but the tail is *)
(* sent with one size, and the fragments of the frame agree about their    *)
(* number, every piece but the tail has that size, or all of them the      *)
(* default size if not one of them came.  Without agreement this is false: *)
(* add_fragment does not compare total_frags with the context's, so a body *)
(* fragment may take the place of the tail.                                *)
(***************************************************************************)
PiecesInPlace ==
    OneBodySize => \A i \in DOMAIN out : out[i].agree => InPlace(out[i])

(* Complete with the snapshot, or frozen if there is a gap. *)
Marked(frame) ==
    /\ frame.is_complete => frame.has_snapshot
    /\ \A j \in frame.missing :
          is_key_frozen(frame.key) \/ frame.layout[j] = 0 \/ timeout_ms = 0

(***************************************************************************)
(* If the fragments of a frame agree about their number, a frame marked    *)
(* complete has the execution snapshot of its tail, and the key of a frame *)
(* with a zero-filled gap is frozen by the call that outputs it.  Without  *)
(* agreement both are false: is_tail_fragment goes by the fragment's own   *)
(* total_frags, so a frame may be complete without its tail, and an empty  *)
(* tail of a shorter frame may complete one that then has a gap.           *)
(***************************************************************************)
FramesMarked == \A i \in DOMAIN out : out[i].agree => Marked(out[i])

(* Every frame that is output is sound: PiecesInPlace and FramesMarked. *)
FramesSound == PiecesInPlace /\ FramesMarked

(* No context stays open: it is completed, timed out or flushed. *)
ContextCloses ==
    \A k \in Keys : k \in DOMAIN contexts ~> k \notin DOMAIN contexts
=============================================================================
