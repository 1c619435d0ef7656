----------------------------- MODULE Reorderer -----------------------------
(***************************************************************************)
(* The sequence reorderer of one array face                                *)
(* (src/m01_receiver/pipeline/reorderer.cpp).                              *)
(*                                                                         *)
(* Packets are buffered in a ring of Window slots.  ring_slots[base_index] *)
(* belongs to next_expected_seq, the slot d places further to the packet d *)
(* sequence numbers ahead.  A packet in order is output at once and pulls  *)
(* the buffered packets that follow it; a timeout gives up on the expected *)
(* packet.  Each action is one whole call; `out' is the batch of packets   *)
(* the call handed to output_callback_.                                    *)
(*                                                                         *)
(* Header and payload of a packet are one value of Payloads.  The clock is *)
(* `elapsed', the time since last_advance_time in units of one tick; it is *)
(* only compared with the timeout, so it stops counting at MaxTimeout.     *)
(* The monotonic counters of Statistics are left out; current_buffer_size, *)
(* which also is window.buffered_packets, is kept.                         *)
(***************************************************************************)
EXTENDS Integers, Sequences, FiniteSets

CONSTANTS
    Window,      \* window_size, at least 1
    SeqMod,      \* the number of sequence numbers, 2^32 in the code
    Payloads,    \* header and payload of a packet
    NoPayload,   \* what a zero-filled packet or a vacant slot carries
    ZeroFill,    \* config_.enable_zero_fill
    Timeouts,    \* the values set_timeout_ms is called with, in ticks
    MaxTimeout   \* bound on Timeouts, and on the clock

ASSUME WindowAssumption ==
    /\ Window \in Nat \ {0}
    /\ SeqMod \in Nat
    /\ Window <= SeqMod

ASSUME TimeoutAssumption ==
    /\ MaxTimeout \in Nat
    /\ Timeouts \subseteq 0..MaxTimeout

ASSUME PayloadAssumption ==
    /\ NoPayload \notin Payloads
    /\ ZeroFill \in BOOLEAN

VARIABLES
    initialized,
    next_expected_seq,
    base_index,
    ring_slots,
    occupancy_bitmap,     \* the set of indices whose bit is set
    current_buffer_size,
    timeout_ms,           \* timeout_ms_runtime_
    elapsed,              \* now - last_advance_time
    flushed,              \* flush() was called: nothing is called after it
    out                   \* the packets output by the last call, in order

vars == <<initialized, next_expected_seq, base_index, ring_slots,
          occupancy_bitmap, current_buffer_size, timeout_ms, elapsed,
          flushed, out>>

window == <<next_expected_seq, base_index, ring_slots, occupancy_bitmap,
            current_buffer_size>>

----------------------------------------------------------------------------
SeqNums == 0..(SeqMod - 1)

Index == 0..(Window - 1)

(***************************************************************************)
(* Sums and differences modulo n of numbers below n.  Both arguments of    *)
(* every use are in range, so one subtraction or addition of n is enough.  *)
(***************************************************************************)
Plus(a, b, n) == IF a + b < n THEN a + b ELSE a + b - n

Minus(a, b, n) == IF a >= b THEN a - b ELSE a - b + n

(* Advancing a sequence number or a ring index by one. *)
SeqSucc(s) == Plus(s, 1, SeqMod)

IndexSucc(i) == Plus(i, 1, Window)

Slot == [occupied : BOOLEAN, sequence : SeqNums,
         payload : Payloads \cup {NoPayload}]

Vacant == [occupied |-> FALSE, sequence |-> 0, payload |-> NoPayload]

OutPacket == [sequence : SeqNums, payload : Payloads \cup {NoPayload},
              is_zero_filled : BOOLEAN]

Packet(s, p) ==
    [sequence |-> s, payload |-> p, is_zero_filled |-> FALSE]

create_zero_filled_packet(s) ==
    [sequence |-> s, payload |-> NoPayload, is_zero_filled |-> TRUE]

(* new_seq - old_seq is a positive distance of less than half the space. *)
is_sequence_newer(new, old) ==
    LET delta == Minus(new, old, SeqMod)
    IN  delta > 0 /\ 2 * delta < SeqMod

(***************************************************************************)
(* advance_window with the window at sequence s and index b: the run of    *)
(* slots that hold the packets s, s+1, ... is output and cleared.          *)
(***************************************************************************)
Deliverable(s, b, k) ==
    LET i == Plus(b, k, Window)
    IN  /\ i \in occupancy_bitmap
        /\ ring_slots[i].occupied
        /\ ring_slots[i].sequence = Plus(s, k, SeqMod)

RunLength(s, b) ==
    CHOOSE k \in 0..Window :
        /\ \A j \in 0..(k - 1) : Deliverable(s, b, j)
        /\ k < Window => ~Deliverable(s, b, k)

(* Mutant: the ring index is not moved with the sequence number. *)
MutAdvanceKeepsBase(first, s, b) ==
    LET k == RunLength(s, b)
        run == {Plus(b, j, Window) : j \in 0..(k - 1)}
    IN  /\ out' = first \o
                  [j \in 1..k |-> Packet(Plus(s, j - 1, SeqMod),
                                   ring_slots[Plus(b, j - 1, Window)].payload)]
        /\ next_expected_seq' = Plus(s, k, SeqMod)
        /\ base_index' = b
        /\ ring_slots' = [i \in Index |-> IF i \in run THEN Vacant
                                                       ELSE ring_slots[i]]
        /\ occupancy_bitmap' = occupancy_bitmap \ run
        /\ current_buffer_size' = IF current_buffer_size > k
                                  THEN current_buffer_size - k ELSE 0
        /\ elapsed' = 0

advance_window(first, s, b) ==
    LET k == RunLength(s, b)
        run == {Plus(b, j, Window) : j \in 0..(k - 1)}
    IN  /\ out' = first \o
                  [j \in 1..k |-> Packet(Plus(s, j - 1, SeqMod),
                                   ring_slots[Plus(b, j - 1, Window)].payload)]
        /\ next_expected_seq' = Plus(s, k, SeqMod)
        /\ base_index' = Plus(b, k, Window)
        /\ ring_slots' = [i \in Index |-> IF i \in run THEN Vacant
                                                       ELSE ring_slots[i]]
        /\ occupancy_bitmap' = occupancy_bitmap \ run
        /\ current_buffer_size' = IF current_buffer_size > k
                                  THEN current_buffer_size - k ELSE 0
        /\ elapsed' = 0

----------------------------------------------------------------------------
Init ==
    /\ initialized = FALSE
    /\ next_expected_seq = 0
    /\ base_index = 0
    /\ ring_slots = [i \in Index |-> Vacant]
    /\ occupancy_bitmap = {}
    /\ current_buffer_size = 0
    /\ timeout_ms \in Timeouts
    /\ elapsed = 0
    /\ flushed = FALSE
    /\ out = <<>>

(* The packet is the expected one. *)
InsertInOrder(s, p) ==
    advance_window(<<Packet(s, p)>>, SeqSucc(s), IndexSucc(base_index))

(* Older than expected, beyond the window, or its slot is taken. *)
Discarded(s, expected) ==
    LET delta == Minus(s, expected, SeqMod)
    IN  \/ ~is_sequence_newer(s, expected)
        \/ delta >= Window
        \/ Plus(base_index, delta, Window) \in occupancy_bitmap

Discard(expected) ==
    /\ next_expected_seq' = expected
    /\ out' = <<>>
    /\ UNCHANGED <<base_index, ring_slots, occupancy_bitmap,
                   current_buffer_size, elapsed>>

Store(s, p, expected) ==
    LET i == Plus(base_index, Minus(s, expected, SeqMod), Window)
    IN  /\ ring_slots' = [ring_slots EXCEPT ![i] =
               [occupied |-> TRUE, sequence |-> s, payload |-> p]]
        /\ occupancy_bitmap' = occupancy_bitmap \cup {i}
        /\ current_buffer_size' = current_buffer_size + 1
        /\ next_expected_seq' = expected
        /\ out' = <<>>
        /\ UNCHANGED <<base_index, elapsed>>

(***************************************************************************)
(* insert and insert_owned: the two differ only in who copies the payload. *)
(* The first packet ever seen fixes where the sequence starts.             *)
(***************************************************************************)
insert(s, p) ==
    LET expected == IF initialized THEN next_expected_seq ELSE s
    IN  /\ ~flushed
        /\ initialized' = TRUE
        /\ UNCHANGED <<timeout_ms, flushed>>
        /\ \/ s = expected /\ InsertInOrder(s, p)
           \/ s # expected /\ Discarded(s, expected) /\ Discard(expected)
           \/ s # expected /\ ~Discarded(s, expected) /\ Store(s, p, expected)

(* Mutant: the overdue packet is given up, but the window stays at it. *)
MutTimeoutStays ==
    /\ ~flushed
    /\ UNCHANGED <<initialized, timeout_ms, flushed>>
    /\ \/ /\ initialized /\ elapsed >= timeout_ms
          /\ advance_window(
                 IF ZeroFill
                 THEN <<create_zero_filled_packet(next_expected_seq)>>
                 ELSE <<>>,
                 next_expected_seq, base_index)
       \/ /\ ~initialized \/ elapsed < timeout_ms
          /\ out' = <<>>
          /\ UNCHANGED <<window, elapsed>>

(* Returns early unless the expected packet is overdue; gives up on it. *)
check_timeout ==
    /\ ~flushed
    /\ UNCHANGED <<initialized, timeout_ms, flushed>>
    /\ \/ /\ initialized /\ elapsed >= timeout_ms
          /\ advance_window(
                 IF ZeroFill
                 THEN <<create_zero_filled_packet(next_expected_seq)>>
                 ELSE <<>>,
                 SeqSucc(next_expected_seq), IndexSucc(base_index))
       \/ /\ ~initialized \/ elapsed < timeout_ms
          /\ out' = <<>>
          /\ UNCHANGED <<window, elapsed>>

(* flush outputs what is buffered, sorted by the sequence number itself. *)
pending == {i \in Index : i \in occupancy_bitmap /\ ring_slots[i].occupied}

(* Mutant: the buffered packets are cleared without being output. *)
MutFlushDrops ==
    /\ ~flushed
    /\ flushed' = TRUE
    /\ out' = <<>>
    /\ ring_slots' = [i \in Index |-> IF i \in pending THEN Vacant
                                                       ELSE ring_slots[i]]
    /\ occupancy_bitmap' = occupancy_bitmap \ pending
    /\ current_buffer_size' = 0
    /\ UNCHANGED <<initialized, next_expected_seq, base_index, timeout_ms,
                   elapsed>>

flush ==
    /\ ~flushed
    /\ flushed' = TRUE
    /\ \E f \in [1..Cardinality(pending) -> pending] :
          /\ \A i, j \in 1..Cardinality(pending) :
                i < j => ring_slots[f[i]].sequence < ring_slots[f[j]].sequence
          /\ out' = [j \in 1..Cardinality(pending) |->
                        Packet(ring_slots[f[j]].sequence,
                               ring_slots[f[j]].payload)]
    /\ ring_slots' = [i \in Index |-> IF i \in pending THEN Vacant
                                                       ELSE ring_slots[i]]
    /\ occupancy_bitmap' = occupancy_bitmap \ pending
    /\ current_buffer_size' = 0
    /\ UNCHANGED <<initialized, next_expected_seq, base_index, timeout_ms,
                   elapsed>>

set_timeout_ms(t) ==
    /\ ~flushed
    /\ timeout_ms' = t
    /\ out' = <<>>
    /\ UNCHANGED <<initialized, window, elapsed, flushed>>

(* Time passes. *)
Tick ==
    /\ ~flushed
    /\ elapsed < MaxTimeout
    /\ elapsed' = elapsed + 1
    /\ out' = <<>>
    /\ UNCHANGED <<initialized, window, timeout_ms, flushed>>

Next ==
    \/ \E s \in SeqNums, p \in Payloads : insert(s, p)
    \/ check_timeout
    \/ flush
    \/ \E t \in Timeouts : set_timeout_ms(t)
    \/ Tick

Spec == Init /\ [][Next]_vars

(***************************************************************************)
(* The main loop scans the timeouts of every face every 100 ms             *)
(* (app_run.cpp, step 3) and the clock runs.  Packets need not come.       *)
(***************************************************************************)
Fairness == WF_vars(check_timeout) /\ WF_vars(Tick)

FairSpec == Spec /\ Fairness

----------------------------------------------------------------------------
(* Every variable has its type. *)
TypeOK ==
    /\ initialized \in BOOLEAN
    /\ next_expected_seq \in SeqNums
    /\ base_index \in Index
    /\ ring_slots \in [Index -> Slot]
    /\ occupancy_bitmap \in SUBSET Index
    /\ current_buffer_size \in Nat
    /\ timeout_ms \in Timeouts
    /\ elapsed \in 0..MaxTimeout
    /\ flushed \in BOOLEAN
    /\ out \in Seq(OutPacket)

(***************************************************************************)
(* Ring and sequence space stay aligned through every wrap of either: the  *)
(* slot d places after base_index is vacant, or holds the packet d         *)
(* sequence numbers after next_expected_seq.  The slot at base_index       *)
(* itself is vacant between calls: no call of insert or check_timeout      *)
(* returns with a deliverable packet still buffered.                       *)
(***************************************************************************)
RingAligned ==
    \A d \in Index :
        LET i == Plus(base_index, d, Window)
        IN  i \in occupancy_bitmap =>
                /\ d > 0
                /\ ring_slots[i].sequence = Plus(next_expected_seq, d, SeqMod)

(***************************************************************************)
(* The three records of how full the buffer is agree: the bitmap, the      *)
(* slots' own flags, and current_buffer_size, which flush() reserves by    *)
(* and the metrics report.                                                 *)
(***************************************************************************)
OccupancyAgrees ==
    /\ \A i \in Index : ring_slots[i].occupied <=> i \in occupancy_bitmap
    /\ current_buffer_size = Cardinality(occupancy_bitmap)

(***************************************************************************)
(* Until flush(), what is output is gap-free and in order: the calls of    *)
(* insert and check_timeout together output every sequence number the      *)
(* window passes, once, starting with the one expected before the call.    *)
(* At most one number is skipped by a call, and only one that is overdue   *)
(* and is not to be zero-filled.                                           *)
(***************************************************************************)
FollowsWindow ==
    ~flushed' /\ initialized =>
        \E skipped \in 0..1 :
            /\ skipped = 1 => ~ZeroFill /\ elapsed >= timeout_ms
            /\ \A j \in 1..Len(out') :
                  out'[j].sequence =
                      (next_expected_seq + skipped + j - 1) % SeqMod
            /\ next_expected_seq' =
                  (next_expected_seq + skipped + Len(out')) % SeqMod

(* Every call of insert and check_timeout follows the window, as above. *)
OutputFollowsWindow == [][FollowsWindow]_vars

(***************************************************************************)
(* reorderer.h: out-of-order packets are buffered and output in order.     *)
(* Of flush() this says that the buffered packets come out in the order of *)
(* their distance from next_expected_seq, also where the 32-bit sequence   *)
(* wraps inside the window.                                                *)
(***************************************************************************)
FlushInOrder ==
    flushed =>
        \A i, j \in 1..Len(out) :
            i < j => Minus(out[i].sequence, next_expected_seq, SeqMod)
                       < Minus(out[j].sequence, next_expected_seq, SeqMod)

(***************************************************************************)
(* A buffered packet does not stay: it is output by a later insert, by a   *)
(* timeout of what it waits for, or by flush().                            *)
(***************************************************************************)
BufferedIsOutput ==
    \A i \in Index : i \in occupancy_bitmap ~> i \notin occupancy_bitmap

(* The ring implements the stream that emits consecutive numbers. *)
Stream == INSTANCE OrderedStream WITH
    started <- initialized,
    next <- next_expected_seq,
    held <- {Packet(ring_slots[i].sequence, ring_slots[i].payload) :
                i \in pending},
    emitted <- out,
    closed <- flushed

(***************************************************************************)
(* Every call of the reorderer is one step of the abstract stream: packets *)
(* held are never lost, doubled, reordered or mixed up by the ring.        *)
(***************************************************************************)
ImplementsStream == Stream!SSpec
=============================================================================
