------------------------------- MODULE Gpu -------------------------------
(***************************************************************************)
(* M02: GpuDispatcher's one thread serving GPU_STREAM_COUNT streams in      *)
(* turn, and the GpuPipeline slots it submits to, in the build without      *)
(* QDGZ300_HAS_GPU, where submit_cpi computes the plots itself and fills    *)
(* the slot already completed.                                              *)
(*                                                                          *)
(* A CPI is the number of its block on its stream.  The two SPSC queues are *)
(* the sequences they hold (SPSCQueue models their cells); the producer and *)
(* the consumer of a stream are the environment.  A visit to a stream is    *)
(* three steps, since blocks arrive, plots are taken and time passes while  *)
(* the dispatcher is between them.  Time is the flag "old" of a slot: more  *)
(* than T_GPU_MAX_MS since its submit_time.                                 *)
(***************************************************************************)
EXTENDS Naturals, Sequences, FiniteSets

LOCAL INSTANCE Functions

CONSTANTS StreamCount,   \* GPU_STREAM_COUNT
          InflightMax,   \* GPU_INFLIGHT_MAX
          RawCap,        \* RAWCPI_Q_CAPACITY
          PlotsCap,      \* PLOTS_Q_CAPACITY
          MaxCpis,       \* blocks pushed on a stream
          MaxFailures    \* submissions that fail for want of memory

ASSUME GpuAssumption == /\ StreamCount \in Nat \ {0}
                        /\ InflightMax \in Nat \ {0}
                        /\ RawCap \in Nat \ {0} /\ PlotsCap \in Nat \ {0}
                        /\ MaxCpis \in Nat /\ MaxFailures \in Nat

VARIABLES rawQ,       \* rawcpi_qs_[q]
          plotsQ,     \* plots_qs_[q]
          slots,      \* inflight_[q][s]: [cpi, old], cpi = 0 when not occupied
          gpuPc,      \* "poll", "timeout", "submit"; "off" when no thread runs
          turn,       \* i, the visit of the round
          rr_index,
          gpuRunning, \* running_
          cpis,       \* blocks pushed on q
          taken,      \* batches the consumer popped from plots_qs_[q]
          displaced,  \* batches drop_oldest_push overwrote
          failed,     \* blocks popped whose submission failed
          frames      \* the counters [submitted, completed, timeouts]

gpuVars == <<rawQ, plotsQ, slots, gpuPc, turn, rr_index, gpuRunning, cpis,
             taken, displaced, failed, frames>>

Streams == 0 .. StreamCount - 1
Slots == 0 .. InflightMax - 1

FreeSlot == [cpi |-> 0, old |-> FALSE]

GpuInit ==
  /\ rawQ = [q \in Streams |-> << >>]
  /\ plotsQ = [q \in Streams |-> << >>]
  /\ slots = [q \in Streams |-> [s \in Slots |-> FreeSlot]]
  /\ gpuPc = "off" /\ turn = 0 /\ rr_index = 0 /\ gpuRunning = FALSE
  /\ cpis = [q \in Streams |-> 0]
  /\ taken = [q \in Streams |-> 0]
  /\ displaced = [q \in Streams |-> 0]
  /\ failed = [q \in Streams |-> 0]
  /\ frames = [submitted |-> 0, completed |-> 0, timeouts |-> 0]

(* Mutant: the modulus is off by one *)
MutCurrent == (rr_index + turn) % (StreamCount - 1)

(* q_idx of this visit *)
Current == (rr_index + turn) % StreamCount

Occupied(q) == {s \in Slots : slots[q][s].cpi # 0}

inflight_count(q) == Cardinality(Occupied(q))

(* The lowest slot of a set: both scans of inflight_ go upwards *)
Lowest(S) == CHOOSE s \in S : \A t \in S : s <= t

find_free_slot(q) == Lowest(Slots \ Occupied(q))

start ==
  /\ gpuPc = "off" /\ ~gpuRunning
  /\ gpuRunning' = TRUE /\ gpuPc' = "poll" /\ turn' = 0
  /\ UNCHANGED <<rawQ, plotsQ, slots, rr_index, cpis, taken, displaced, failed, frames>>

(* stop() clears the flag and joins; the thread sees it at the next round *)
stop ==
  /\ gpuRunning /\ gpuRunning' = FALSE
  /\ UNCHANGED <<rawQ, plotsQ, slots, gpuPc, turn, rr_index, cpis, taken,
                 displaced, failed, frames>>

(* drop_oldest_push on plots_qs_[q] *)
Displacing(q) == Len(plotsQ[q]) = PlotsCap

(* Mutant: the slot is not freed when its batch is handed out *)
MutPollKeepsSlot ==
  LET q == Current IN
  /\ gpuPc = "poll" /\ gpuPc' = "timeout"
  /\ IF Occupied(q) = {}
     THEN UNCHANGED <<plotsQ, frames>>
     ELSE /\ plotsQ' = [plotsQ EXCEPT ![q] = Append(@, slots[q][Lowest(Occupied(q))].cpi)]
          /\ frames' = [frames EXCEPT !.completed = @ + 1]
  /\ UNCHANGED <<slots, displaced, rawQ, turn, rr_index, gpuRunning, cpis, taken, failed>>

(* The completed slot's batch moves to the plots queue *)
poll_completion ==
  LET q == Current IN
  /\ gpuPc = "poll" /\ gpuPc' = "timeout"
  /\ IF Occupied(q) = {}
     THEN UNCHANGED <<slots, plotsQ, displaced, frames>>
     ELSE LET s == Lowest(Occupied(q)) IN
          /\ slots' = [slots EXCEPT ![q][s] = FreeSlot]
          /\ plotsQ' = [plotsQ EXCEPT ![q] =
                          Append(IF Displacing(q) THEN Tail(@) ELSE @, slots[q][s].cpi)]
          /\ displaced' = [displaced EXCEPT ![q] = @ + IF Displacing(q) THEN 1 ELSE 0]
          /\ frames' = [frames EXCEPT !.completed = @ + 1]
  /\ UNCHANGED <<rawQ, turn, rr_index, gpuRunning, cpis, taken, failed>>

(* Every slot over T_GPU_MAX_MS is freed, completed or not, its batch leaked *)
handle_timeout ==
  LET q == Current
      late == {s \in Occupied(q) : slots[q][s].old}
  IN /\ gpuPc = "timeout" /\ gpuPc' = "submit"
     /\ slots' = [slots EXCEPT ![q] = [s \in Slots |-> IF s \in late THEN FreeSlot ELSE @[s]]]
     /\ frames' = [frames EXCEPT !.timeouts = @ + Cardinality(late)]
     /\ UNCHANGED <<rawQ, plotsQ, turn, rr_index, gpuRunning, cpis, taken, displaced, failed>>

(* The end of a visit; after the last one of a round rr_index_ advances and
   running_ is read again *)
VisitEnds ==
  IF turn + 1 < StreamCount
  THEN turn' = turn + 1 /\ gpuPc' = "poll" /\ UNCHANGED rr_index
  ELSE /\ turn' = 0
       /\ rr_index' = (rr_index + 1) % StreamCount
       /\ gpuPc' = IF gpuRunning THEN "poll" ELSE "off"

(* The stream is full or its queue empty: nothing is submitted *)
NothingToSubmit ==
  LET q == Current IN
  /\ gpuPc = "submit"
  /\ inflight_count(q) >= InflightMax \/ rawQ[q] = << >>
  /\ VisitEnds
  /\ UNCHANGED <<rawQ, plotsQ, slots, gpuRunning, cpis, taken, displaced, failed, frames>>

(* The popped block fills the lowest free slot, already completed *)
submit_cpi ==
  LET q == Current IN
  /\ gpuPc = "submit"
  /\ inflight_count(q) < InflightMax /\ rawQ[q] # << >>
  /\ rawQ' = [rawQ EXCEPT ![q] = Tail(@)]
  /\ slots' = [slots EXCEPT ![q][find_free_slot(q)] = [cpi |-> Head(rawQ[q]), old |-> FALSE]]
  /\ frames' = [frames EXCEPT !.submitted = @ + 1]
  /\ VisitEnds
  /\ UNCHANGED <<plotsQ, gpuRunning, cpis, taken, displaced, failed>>

(* Either allocation of submit_cpi fails: the popped block is in no queue and
   no slot any more *)
SubmitFails ==
  LET q == Current IN
  /\ gpuPc = "submit"
  /\ inflight_count(q) < InflightMax /\ rawQ[q] # << >>
  /\ FoldFunction(+, 0, failed) < MaxFailures
  /\ rawQ' = [rawQ EXCEPT ![q] = Tail(@)]
  /\ failed' = [failed EXCEPT ![q] = @ + 1]
  /\ VisitEnds
  /\ UNCHANGED <<plotsQ, slots, gpuRunning, cpis, taken, displaced, frames>>

(* The environment: a block is pushed, a batch is popped, a slot ages *)
PushBlock(q) ==
  /\ cpis[q] < MaxCpis /\ Len(rawQ[q]) < RawCap
  /\ cpis' = [cpis EXCEPT ![q] = @ + 1]
  /\ rawQ' = [rawQ EXCEPT ![q] = Append(@, cpis[q] + 1)]
  /\ UNCHANGED <<plotsQ, slots, gpuPc, turn, rr_index, gpuRunning, taken,
                 displaced, failed, frames>>

TakePlots(q) ==
  /\ plotsQ[q] # << >>
  /\ plotsQ' = [plotsQ EXCEPT ![q] = Tail(@)]
  /\ taken' = [taken EXCEPT ![q] = @ + 1]
  /\ UNCHANGED <<rawQ, slots, gpuPc, turn, rr_index, gpuRunning, cpis,
                 displaced, failed, frames>>

SlotAges(q, s) ==
  /\ slots[q][s].cpi # 0 /\ ~slots[q][s].old
  /\ slots' = [slots EXCEPT ![q][s].old = TRUE]
  /\ UNCHANGED <<rawQ, plotsQ, gpuPc, turn, rr_index, gpuRunning, cpis, taken,
                 displaced, failed, frames>>

Visit == poll_completion \/ handle_timeout \/ NothingToSubmit \/ submit_cpi \/ SubmitFails

GpuNext == \/ start \/ stop \/ Visit
           \/ \E q \in Streams : PushBlock(q) \/ TakePlots(q)
           \/ \E q \in Streams, s \in Slots : SlotAges(q, s)

(* The operating system keeps scheduling the dispatcher thread *)
GpuFairness == WF_gpuVars(Visit)

GpuSpec == GpuInit /\ [][GpuNext]_gpuVars /\ GpuFairness

--------------------------------------------------------------------------
(* Every variable keeps its range; the queues never exceed their capacity *)
GpuTypeOK ==
  /\ \A q \in Streams : /\ Len(rawQ[q]) <= RawCap /\ Len(plotsQ[q]) <= PlotsCap
                        /\ cpis[q] \in 0 .. MaxCpis
                        /\ \A s \in Slots : slots[q][s].cpi \in 0 .. cpis[q]
  /\ gpuPc \in {"off", "poll", "timeout", "submit"}
  /\ turn \in Streams /\ rr_index \in Streams /\ gpuRunning \in BOOLEAN

Ascending(seq) == \A i, j \in 1 .. Len(seq) : i < j => seq[i] < seq[j]

(* run() loses track of no CPI: each one pushed on a stream is in one of its
   queues or slots, was taken, was displaced by drop_oldest_push, or is one of
   those whose submission failed, none is dropped as timed out, and the counters
   explain the slots.  On each stream they stay in order: the plots queued for
   the consumer, then the one batch in a slot, then the blocks still waiting. *)
CpisAccounted ==
  /\ \A q \in Streams :
       cpis[q] = Len(rawQ[q]) + inflight_count(q) + Len(plotsQ[q])
                   + taken[q] + displaced[q] + failed[q]
  /\ frames.submitted = frames.completed
                          + Cardinality({p \in Streams \X Slots : slots[p[1]][p[2]].cpi # 0})
  /\ frames.timeouts = 0
  /\ \A q \in Streams :
       /\ inflight_count(q) <= 1
       /\ Ascending(plotsQ[q]) /\ Ascending(rawQ[q])
       /\ \A i \in 1 .. Len(plotsQ[q]), j \in 1 .. Len(rawQ[q]) :
            plotsQ[q][i] < rawQ[q][j]
       /\ \A s \in Occupied(q) :
            /\ \A i \in 1 .. Len(plotsQ[q]) : plotsQ[q][i] < slots[q][s].cpi
            /\ \A j \in 1 .. Len(rawQ[q]) : slots[q][s].cpi < rawQ[q][j]

(* Round robin starves no stream: while the dispatcher runs, a CPI waiting in a
   stream's raw queue or slot does not wait for ever. *)
StreamsServed ==
  \A q \in Streams, n \in 1 .. MaxCpis :
    LET waiting == n \in Range(rawQ[q]) \/ \E s \in Slots : slots[q][s].cpi = n
    IN waiting ~> (~gpuRunning \/ ~waiting)

==========================================================================
