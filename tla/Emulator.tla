------------------------------ MODULE Emulator ------------------------------
(***************************************************************************)
(* tools/fpga_emulator: PacketGenerator and the sender threads of          *)
(* emulator_main.cpp, with the heartbeat check of the receiver they feed.  *)
(*                                                                         *)
(* A thread has a generator of its own.  In CPI mode the thread of array a *)
(* is source 16 + a; in PPS mode every thread is source 17.  A packet is   *)
(* [d, seq, by, kind]: a datagram of Protocol, its sequence number modulo  *)
(* EmuSpan, its thread and the function that made it.  Random choices of   *)
(* drop_dist_ and of the shuffle are free choices.  The network delivers   *)
(* what is sent, in order.                                                 *)
(***************************************************************************)
EXTENDS Protocol, Sequences, FiniteSets

LOCAL INSTANCE SequencesExt
LOCAL INSTANCE FiniteSetsExt

CONSTANTS
    Senders,       \* the threads, 1..arrays or 1..threads
    cpi_frags,
    reorder_depth,
    drop,          \* drop_rate > 0
    Body,          \* frag_payload_bytes, and payload_bytes in PPS mode
    SpecificSize,  \* sizeof(DataSpecificHeader)
    SnapshotSize,  \* sizeof(ExecutionSnapshot)
    CrcSize,       \* the CRC32C trailer
    LenSpan,       \* the modulus of payload_len
    EmuSpan,       \* the modulus of sequence_number
    MaxBatches,    \* bound: the CPIs, or PPS packets, of all threads
    MaxBeats,      \* bound: the heartbeats of all threads
    MaxSendErrors  \* bound: the calls of sendto that fail

ASSUME EmulatorAssumption ==
    /\ {cpi_frags, reorder_depth, Body, SpecificSize, SnapshotSize, CrcSize,
        MaxBatches, MaxBeats, MaxSendErrors} \subseteq Nat
    /\ {LenSpan, EmuSpan} \subseteq Nat \ {0}
    /\ drop \in BOOLEAN

VARIABLES
    mode,          \* "cpi" or "pps"
    next_sequence, \* of each generator
    batch,         \* what each thread has left to send of its CPI
    place,         \* where each thread is in the loop of run_array_sender
    stats,         \* ArrayStats of each thread
    wire,          \* history: the packets of each thread that were sent
    beat,          \* the receiver of each source: the last heartbeat, loss
    batches, beats, errors

emuVars == <<mode, next_sequence, batch, place, stats, wire,
             beat, batches, beats, errors>>

NoStats == [sent |-> 0, cpis |-> 0, heartbeats |-> 0, errors |-> 0]

EmuInit ==
    /\ mode \in {"cpi", "pps"}
    /\ next_sequence = [t \in Senders |-> 1 % EmuSpan]
    /\ batch = [t \in Senders |-> <<>>] /\ wire = batch
    /\ place = [t \in Senders |-> "top"]
    /\ stats = [t \in Senders |-> NoStats]
    /\ beat = [t \in Senders |-> [has |-> FALSE, last |-> 0, loss |-> 0]]
    /\ batches = [t \in Senders |-> 0] /\ beats = batches /\ errors = 0

Total(f) == MapThenSumSet(LAMBDA t : f[t], Senders)

Source(t) == IF mode = "cpi" THEN 16 + t ELSE 17

(* fill_common_header, and n bytes that follow the header; k is the offset *)
(* of the packet in the run of numbers its caller takes.                   *)
Packet(t, k, type, payload, n, kind) ==
    [d |-> [len |-> HeaderSize + n, magic |-> TRUE, major |-> TRUE,
            source |-> Source(t), dest |-> LocalId, type |-> type,
            payload_len |-> payload % LenSpan,
            crc |-> IF type = "HEARTBEAT" THEN "good" ELSE "bad",
            cs6 |-> FALSE],
     seq |-> (next_sequence[t] + k) % EmuSpan, by |-> t, kind |-> kind]

(* The legacy constructor raises the payload to the specific header. *)
make_data_packet(t) ==
    LET n == IF Body < SpecificSize THEN SpecificSize ELSE Body
    IN  Packet(t, 0, "DATA", n, n, "data")

(* make_cpi_packets: the tail carries the snapshot, each has its trailer. *)
make_cpi_packets(t) ==
    [i \in 1..cpi_frags |->
        LET n == SpecificSize + Body
                 + (IF i = cpi_frags THEN SnapshotSize ELSE 0)
        IN  Packet(t, i - 1, "DATA", n, n + CrcSize, "cpi")]

make_heartbeat_packet(t) ==
    Packet(t, 0, "HEARTBEAT", HeartbeatSize, HeartbeatSize, "heartbeat")

(* next_sequence_++, once per packet made. *)
Take(t, n) == next_sequence' = [next_sequence EXCEPT ![t] = (@ + n) % EmuSpan]

Swapped(s, i, j) == [s EXCEPT ![i] = s[j], ![j] = s[i]]

(* Mutant: the window of the swaps is one too wide. *)
MutShuffles(s) ==
    IF reorder_depth <= 1 \/ Len(s) <= 1 THEN {s}
    ELSE FoldLeft(LAMBDA acc, i : {Swapped(t, i, j) : t \in acc,
                                   j \in i..Min({i + reorder_depth, Len(s)})},
                  {s}, [i \in DOMAIN s |-> i])

(* What the sliding swaps of apply_impairments can make of s. *)
Shuffles(s) ==
    IF reorder_depth <= 1 \/ Len(s) <= 1 THEN {s}
    ELSE FoldLeft(LAMBDA acc, i : {Swapped(t, i, j) : t \in acc,
                                   j \in i..Min({i + reorder_depth - 1, Len(s)})},
                  {s}, [i \in DOMAIN s |-> i])

(* What the drop simulation can leave of s. *)
Drops(s) ==
    IF ~drop THEN {s}
    ELSE {[k \in 1..Cardinality(keep) |-> s[SetToSortSeq(keep, <)[k]]] :
            keep \in SUBSET DOMAIN s}

(* run_array_sender makes the packets of its next CPI. *)
NextCpi(t) ==
    /\ mode = "cpi" /\ place[t] # "send"
    /\ Total(batches) < MaxBatches
    /\ \E kept \in Drops(make_cpi_packets(t)) : \E out \in Shuffles(kept) :
        batch' = [batch EXCEPT ![t] = out]
    /\ Take(t, cpi_frags)
    /\ batches' = [batches EXCEPT ![t] = @ + 1]
    /\ place' = [place EXCEPT ![t] = "send"]
    /\ UNCHANGED <<mode, stats, wire, beat, beats, errors>>

SendFails == errors < MaxSendErrors /\ errors' = errors + 1

SendWorks == errors' = errors

(* sendto of the next packet of the CPI. *)
SendFragment(t) ==
    /\ batch[t] # <<>>
    /\ batch' = [batch EXCEPT ![t] = Tail(@)]
    /\ \/ /\ SendWorks
          /\ wire' = [wire EXCEPT ![t] = Append(@, Head(batch[t]))]
          /\ stats' = [stats EXCEPT ![t].sent = @ + 1]
       \/ /\ SendFails
          /\ stats' = [stats EXCEPT ![t].errors = @ + 1]
          /\ wire' = wire
    /\ UNCHANGED <<mode, next_sequence, place, beat, batches, beats>>

(* All packets of the CPI have been tried. *)
CpiSent(t) ==
    /\ place[t] = "send" /\ batch[t] = <<>>
    /\ stats' = [stats EXCEPT ![t].cpis = @ + 1]
    /\ place' = [place EXCEPT ![t] = "sent"]
    /\ UNCHANGED <<mode, next_sequence, batch, wire, beat, batches,
                   beats, errors>>

(* The sequence check of Dispatcher::dispatch_heartbeat_direct. *)
Beaten(b, s) ==
    LET delta == (s + EmuSpan - b.last) % EmuSpan
    IN  [has |-> TRUE, last |-> s,
         loss |-> b.loss + IF b.has /\ delta > 1 /\ 2 * delta < EmuSpan
                           THEN delta - 1 ELSE 0]

(* What the receiver parses and validates it dispatches. *)
Accepted(p) == parse(p.d) /\ validate(p.d)

(* At most one heartbeat follows a CPI; a failed sendto is not counted. *)
SendHeartbeat(t) ==
    LET p == make_heartbeat_packet(t)
    IN  /\ place[t] = "sent"
        /\ place' = [place EXCEPT ![t] = "top"]
        /\ Total(beats) < MaxBeats
        /\ Take(t, 1)
        /\ beats' = [beats EXCEPT ![t] = @ + 1]
        /\ \/ /\ SendWorks
              /\ wire' = [wire EXCEPT ![t] = Append(@, p)]
              /\ stats' = [stats EXCEPT ![t].heartbeats = @ + 1]
              /\ beat' = IF Accepted(p) THEN [beat EXCEPT ![t] = Beaten(@, p.seq)]
                                        ELSE beat
           \/ SendFails /\ UNCHANGED <<wire, stats, beat>>
        /\ UNCHANGED <<mode, batch, batches>>

(* run_pps_sender *)
SendPps(t) ==
    /\ mode = "pps"
    /\ Total(batches) < MaxBatches
    /\ Take(t, 1)
    /\ batches' = [batches EXCEPT ![t] = @ + 1]
    /\ \/ /\ SendWorks
          /\ wire' = [wire EXCEPT ![t] = Append(@, make_data_packet(t))]
          /\ stats' = [stats EXCEPT ![t].sent = @ + 1]
       \/ /\ SendFails
          /\ stats' = [stats EXCEPT ![t].errors = @ + 1]
          /\ wire' = wire
    /\ UNCHANGED <<mode, batch, place, beat, beats>>

EmuNext == \E t \in Senders :
    NextCpi(t) \/ SendFragment(t) \/ CpiSent(t) \/ SendHeartbeat(t) \/ SendPps(t)

EmuSpec == EmuInit /\ [][EmuNext]_emuVars

----------------------------------------------------------------------------
EmuTypeOK ==
    /\ next_sequence \in [Senders -> 0..EmuSpan - 1]
    /\ \A t \in Senders :
        /\ Len(batch[t]) <= cpi_frags
        /\ stats[t] \in [DOMAIN NoStats -> Nat]

(* The packets sent after the i-th of thread t that come before it in      *)
(* their CPI.                                                              *)
Overtaken(t, i) ==
    {j \in DOMAIN wire[t] :
        j > i /\ (wire[t][i].seq - wire[t][j].seq) % EmuSpan \in 1..cpi_frags - 1}

(***************************************************************************)
(* However the swaps of apply_impairments chain, and whatever is dropped   *)
(* or not sent, no packet is sent ahead of more than reorder_depth - 1     *)
(* packets of its CPI: a receiver whose window is that wide sees them all  *)
(* in time.  The swaps overlap, so that one packet may be put off again    *)
(* and again, but it is never overtaken by one from outside the window.    *)
(***************************************************************************)
ReorderBounded ==
    \A t \in Senders : \A i \in DOMAIN wire[t] :
        Overtaken(t, i) # {} => Cardinality(Overtaken(t, i)) < reorder_depth

(***************************************************************************)
(* M01接收模块实现概述.md, line 383: the receiver estimates the lost       *)
(* heartbeats from the numbers of the heartbeats.  So it counts none for a *)
(* source whose heartbeats have all arrived.                               *)
(***************************************************************************)
LossIsHeartbeats ==
    \A t \in Senders : stats[t].heartbeats = beats[t] => beat[t].loss = 0
=============================================================================
