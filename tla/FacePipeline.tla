---------------------------- MODULE FacePipeline ----------------------------
(***************************************************************************)
(* The wiring of one face in app_init.cpp: the frame callback of the       *)
(* reassembler gives every frame to the reorderer under its frame_counter, *)
(* and the main loop scans the timeouts of both, first the reassembler's.  *)
(* The calls are taken one after the other; the frames a call of the       *)
(* reassembler outputs are inserted before anything else happens.          *)
(***************************************************************************)
EXTENDS Integers, Sequences, FiniteSets

CONSTANTS
    FrameKeys, NoFrame,
    Counter,       \* key.frame_counter, a function on FrameKeys
    Span,          \* the number of sequence numbers
    OrderWindow,   \* the reorderer's window_size
    OpenFrames,    \* the reassembler's max_contexts
    MaxMoves       \* bound: how far the window moves, less than half of Span

ASSUME FacePipelineAssumption ==
    /\ Span \in Nat /\ OrderWindow \in 1..Span /\ OpenFrames \in Nat
    /\ \A k \in FrameKeys : Counter[k] \in 0..(Span - 1)
    /\ MaxMoves \in Nat /\ 2 * MaxMoves < Span

VARIABLES
    \* the reassembler
    frContexts, frRing, frInsert, frTimeout, frFlushed, frOut, frPromise, frLowered,
    \* the reorderer
    orInit, orNext, orBase, orSlots, orBits, orSize, orTimeout, orElapsed, orFlushed, orOut,
    toInsert,      \* the frames output by the reassembler and not inserted yet
    scan,          \* which timeout the main loop scans next: "frames" or "order"
    times,         \* history: how often each number was delivered
    first          \* history: the number of the first frame

frVars == <<frContexts, frRing, frInsert, frTimeout, frFlushed, frOut, frPromise, frLowered>>
orVars == <<orInit, orNext, orBase, orSlots, orBits, orSize, orTimeout, orElapsed,
            orFlushed, orOut>>
fpVars == <<frVars, orVars, toInsert, scan, times, first>>

(* Frames of two fragments of one byte, a timeout of one tick. *)
Frames == INSTANCE Reassembler WITH
    Keys <- FrameKeys, NoKey <- NoFrame, MaxContexts <- OpenFrames, MaxTotal <- 2,
    MaxBytes <- 2, DefaultSize <- 1, Totals <- {2}, BodySizes <- {1}, TailSizes <- {1},
    TailBytes <- {1}, Timeouts <- {1}, MaxTimeout <- 1,
    contexts <- frContexts, frozen_keys_ring <- frRing,
    frozen_keys_next_insert <- frInsert, timeout_ms <- frTimeout,
    flushed <- frFlushed, out <- frOut, promise <- frPromise, lowered <- frLowered

Order == INSTANCE Reorderer WITH
    Window <- OrderWindow, SeqMod <- Span, Payloads <- FrameKeys, NoPayload <- NoFrame,
    ZeroFill <- TRUE, Timeouts <- {1}, MaxTimeout <- 1,
    initialized <- orInit, next_expected_seq <- orNext, base_index <- orBase,
    ring_slots <- orSlots, occupancy_bitmap <- orBits, current_buffer_size <- orSize,
    timeout_ms <- orTimeout, elapsed <- orElapsed, flushed <- orFlushed, out <- orOut

----------------------------------------------------------------------------
FpInit ==
    /\ Frames!Init /\ Order!Init
    /\ toInsert = <<>> /\ scan = "frames"
    /\ times = [s \in 0..(Span - 1) |-> 0]
    /\ first = 0

Quiet == toInsert = <<>>

(* What the reorderer's callback is called with is delivered. *)
Delivered ==
    times' = [s \in DOMAIN times |->
                 times[s] + Cardinality({i \in DOMAIN orOut' : orOut'[i].sequence = s})]

(* A DATA packet. *)
FpFragment ==
    /\ Quiet
    /\ \E f \in Frames!Arriving : Frames!process_packet(f)
    /\ toInsert' = frOut'
    /\ UNCHANGED <<orVars, scan, times, first>>

(* Mutant: the frames are numbered from one, not by their frame_counter. *)
MutNumber(frame) == 1

(* header.sequence_number of a frame. *)
Number(frame) == Counter[frame.key]

(* The frame callback. *)
FpInsert ==
    /\ ~Quiet
    /\ Order!insert(Number(Head(toInsert)), Head(toInsert).key)
    /\ Delivered
    /\ first' = IF orInit THEN first ELSE Number(Head(toInsert))
    /\ toInsert' = Tail(toInsert)
    /\ UNCHANGED <<frVars, scan>>

(* The main loop, step 3: check_timeouts, then check_timeout. *)
FpScanFrames ==
    /\ Quiet /\ scan = "frames"
    /\ Frames!check_timeouts
    /\ toInsert' = frOut'
    /\ scan' = "order"
    /\ UNCHANGED <<orVars, times, first>>

FpScanOrder ==
    /\ Quiet /\ scan = "order"
    /\ Order!Minus(orNext, first, Span) < MaxMoves
    /\ Order!check_timeout
    /\ Delivered
    /\ scan' = "frames"
    /\ UNCHANGED <<frVars, toInsert, first>>

(* Stages 3 and 4 of app_shutdown. *)
FpFlushFrames ==
    /\ Quiet /\ scan = "frames"
    /\ Frames!flush_all
    /\ toInsert' = frOut'
    /\ UNCHANGED <<orVars, scan, times, first>>

FpFlushOrder ==
    /\ Quiet /\ frFlushed
    /\ Order!flush
    /\ Delivered
    /\ UNCHANGED <<frVars, toInsert, scan, first>>

(* Time passes for both. *)
FpTick ==
    /\ Quiet
    /\ Frames!Tick
    /\ orElapsed' = 1
    /\ UNCHANGED <<orInit, orNext, orBase, orSlots, orBits, orSize, orTimeout, orFlushed,
                   orOut, toInsert, scan, times, first>>

FpNext ==
    FpFragment \/ FpInsert \/ FpScanFrames \/ FpScanOrder \/ FpFlushFrames
        \/ FpFlushOrder \/ FpTick

FpSpec == FpInit /\ [][FpNext]_fpVars

----------------------------------------------------------------------------
(* Every variable of the wiring has its type. *)
FpTypeOK ==
    /\ Frames!TypeOK /\ Order!TypeOK
    /\ Len(toInsert) <= OpenFrames
    /\ scan \in {"frames", "order"}
    /\ times \in [0..(Span - 1) -> Nat]
    /\ first \in 0..(Span - 1)

(***************************************************************************)
(* No sequence number is delivered twice, whether as a frame or filled     *)
(* with zeros: not when duplicates of a frame's fragments reopen a context *)
(* and the reassembler outputs the frame again, not when two frames have   *)
(* one frame_counter, and not when a frame comes after it was given up.    *)
(***************************************************************************)
NumberDeliveredOnce == \A s \in DOMAIN times : times[s] <= 1

(***************************************************************************)
(* A frame given to the reorderer is delivered or kept, unless its number  *)
(* was delivered before, lies before the first frame's, or is a whole      *)
(* window ahead.                                                           *)
(***************************************************************************)
DroppedIsSettled ==
    [][~Quiet /\ toInsert' # toInsert =>
        LET s == Counter[Head(toInsert).key]
        IN  \/ times'[s] = 1
            \/ \E i \in DOMAIN orSlots' : orSlots'[i].occupied /\ orSlots'[i].sequence = s
            \/ Order!is_sequence_newer(first, s)
            \/ /\ Order!is_sequence_newer(s, orNext)
               /\ Order!Minus(s, orNext, Span) >= OrderWindow]_fpVars
=============================================================================
