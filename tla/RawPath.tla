------------------------------ MODULE RawPath -------------------------------
(***************************************************************************)
(* Path B of a face: the output callback of the Reorderer (app_init.cpp)   *)
(* wraps each frame in a RawBlock (delivery/rawblock_adapter.cpp) and      *)
(* pushes it on the face's SPSCQueue (common/spsc_queue.h), which the      *)
(* thread of a StubConsumer (delivery/stub_consumer.cpp) empties.          *)
(*                                                                         *)
(* The callback runs on the face's processing thread, and on the main      *)
(* thread, from the timeout scan of app_run and from the flushes of        *)
(* app_shutdown: two producers.  One action per access to shared memory.   *)
(* A slot is a shared_ptr: moving it out reads it and then empties it, and *)
(* what another thread does in between is lost or kept accordingly (a      *)
(* block freed under the hands of the other thread is not modelled).       *)
(***************************************************************************)
EXTENDS Integers

CONSTANTS
    RawCapacity,      \* RawBlockQueue holds one block less than this
    MaxBlocks         \* bound: the frames put out

ASSUME RawAssumption ==
    RawCapacity \in Nat /\ RawCapacity >= 2 /\ MaxBlocks \in Nat

(* Frames: complete; with fragments missing, or put in for a gap; larger   *)
(* than a RawBlock.                                                        *)
FrameKinds == {"whole", "partial", "large"}

RawProducers == {"processing", "main"}

VARIABLES
    rawHead, rawTail, rawSlots, rawDropped,   \* the queue
    rawPc, rawBlock, rawAt, rawSeen,          \* per producer: drop_oldest_push
    rawStage,       \* "init", "run", "failed"; "shutdown" (stage 0 on), "joined" (1.5)
    running,        \* StubConsumer::running_
    worker,         \* where its thread is: "none", "loop", in try_pop, or "ended"
    rawFrom, rawItem,    \* head and item of try_pop
    rawStats,       \* total, complete and incomplete blocks, the last cpi_seq
    rawMade,        \* history: frames put out
    rawTaken,       \* history: the blocks given to process_block
    rawTwice,       \* history: a block was given to process_block again
    rawTorn         \* history: a block counted complete was not whole

rawQueue == <<rawHead, rawTail, rawSlots, rawDropped>>
rawPushVars == <<rawPc, rawBlock, rawAt, rawSeen, rawMade>>
rawResults == <<rawStats, rawTaken, rawTwice, rawTorn>>
rawPopVars == <<worker, rawFrom, rawItem>>
rawVars == <<rawQueue, rawPushVars, rawStage, running, rawPopVars, rawResults>>

NoBlock == [seq |-> 0, kind |-> "whole", flagged |-> FALSE]

RawInit ==
    /\ rawHead = 0 /\ rawTail = 0 /\ rawDropped = 0
    /\ rawSlots = [i \in 0..(RawCapacity - 1) |-> NoBlock]
    /\ rawPc = [p \in RawProducers |-> "idle"]
    /\ rawBlock = [p \in RawProducers |-> NoBlock]
    /\ rawAt = [p \in RawProducers |-> 0]
    /\ rawSeen = [p \in RawProducers |-> 0]
    /\ rawStage = "init"
    /\ running = FALSE
    /\ worker = "none" /\ rawFrom = 0 /\ rawItem = NoBlock
    /\ rawStats = [total |-> 0, complete |-> 0, incomplete |-> 0, last |-> 0]
    /\ rawMade = 0
    /\ rawTaken = {} /\ rawTwice = FALSE /\ rawTorn = FALSE

RawSucc(i) == IF i + 1 = RawCapacity THEN 0 ELSE i + 1

----------------------------------------------------------------------------
(* Mutant: a frame cut to the size of a RawBlock is not flagged. *)
MutAdapt(n, k) == [seq |-> n, kind |-> k, flagged |-> k = "partial"]

(* adapt_and_push up to the push: the block and its INCOMPLETE_FRAME flag. *)
adapt(n, k) == [seq |-> n, kind |-> k, flagged |-> k # "whole"]

(* Who may put out a frame: the processing thread until it is joined, main *)
(* in its timeout scan, and again in the flushes after the join.           *)
MayPush(p) ==
    \/ p = "processing" /\ rawStage \in {"init", "run", "shutdown"}
    \/ p = "main" /\ rawStage \in {"run", "joined"}

RawCall(p) ==
    /\ rawPc[p] = "idle" /\ MayPush(p) /\ rawMade < MaxBlocks
    /\ \E k \in FrameKinds :
        rawBlock' = [rawBlock EXCEPT ![p] = adapt(rawMade + 1, k)]
    /\ rawMade' = rawMade + 1
    /\ rawPc' = [rawPc EXCEPT ![p] = "tail"]
    /\ UNCHANGED <<rawQueue, rawAt, rawSeen, rawStage, running, rawPopVars, rawResults>>

(* drop_oldest_push loads tail_ ... *)
RawLoadTail(p) ==
    /\ rawPc[p] = "tail"
    /\ rawAt' = [rawAt EXCEPT ![p] = rawTail]
    /\ rawPc' = [rawPc EXCEPT ![p] = "head"]
    /\ UNCHANGED <<rawQueue, rawBlock, rawSeen, rawMade, rawStage, running, rawPopVars,
                   rawResults>>

(* ... and head_, and finds the queue full or not. *)
RawLoadHead(p) ==
    /\ rawPc[p] = "head"
    /\ rawSeen' = [rawSeen EXCEPT ![p] = rawHead]
    /\ rawPc' = [rawPc EXCEPT ![p] = IF RawSucc(rawAt[p]) = rawHead THEN "cas" ELSE "write"]
    /\ UNCHANGED <<rawQueue, rawBlock, rawAt, rawMade, rawStage, running, rawPopVars,
                   rawResults>>

(* compare_exchange_weak of head_, which may fail; the loop starts over.   *)
RawDrop(p) ==
    /\ rawPc[p] = "cas"
    /\ \/ /\ rawHead = rawSeen[p]
          /\ rawHead' = RawSucc(rawSeen[p])
          /\ rawDropped' = rawDropped + 1
       \/ UNCHANGED <<rawHead, rawDropped>>
    /\ rawPc' = [rawPc EXCEPT ![p] = "tail"]
    /\ UNCHANGED <<rawTail, rawSlots, rawBlock, rawAt, rawSeen, rawMade, rawStage, running,
                   rawPopVars, rawResults>>

(* buffer_[tail] = std::move(item) *)
RawWrite(p) ==
    /\ rawPc[p] = "write"
    /\ rawSlots' = [rawSlots EXCEPT ![rawAt[p]] = rawBlock[p]]
    /\ rawBlock' = [rawBlock EXCEPT ![p] = NoBlock]
    /\ rawPc' = [rawPc EXCEPT ![p] = "publish"]
    /\ UNCHANGED <<rawHead, rawTail, rawDropped, rawAt, rawSeen, rawMade, rawStage, running,
                   rawPopVars, rawResults>>

RawPublish(p) ==
    /\ rawPc[p] = "publish"
    /\ rawTail' = RawSucc(rawAt[p])
    /\ rawPc' = [rawPc EXCEPT ![p] = "idle"]
    /\ rawAt' = [rawAt EXCEPT ![p] = 0]
    /\ rawSeen' = [rawSeen EXCEPT ![p] = 0]
    /\ UNCHANGED <<rawHead, rawSlots, rawDropped, rawBlock, rawMade, rawStage, running,
                   rawPopVars, rawResults>>

----------------------------------------------------------------------------
(* StubConsumer::start; the output file may not open, and app_run fails.   *)
ConsumerStart ==
    /\ rawStage = "init"
    /\ \/ running' = TRUE /\ worker' = "loop" /\ rawStage' = "run"
       \/ rawStage' = "failed" /\ UNCHANGED <<running, worker>>
    /\ UNCHANGED <<rawQueue, rawPushVars, rawFrom, rawItem, rawResults>>

(* run: the loop goes on while running_; what is in the queue then stays.  *)
ConsumerLoop ==
    /\ worker = "loop"
    /\ worker' = IF running THEN "head" ELSE "ended"
    /\ UNCHANGED <<rawQueue, rawPushVars, rawStage, running, rawFrom, rawItem, rawResults>>

(* try_pop loads head_, then tail_ ... *)
ConsumerLoadHead ==
    /\ worker = "head"
    /\ rawFrom' = rawHead
    /\ worker' = "tail"
    /\ UNCHANGED <<rawQueue, rawPushVars, rawStage, running, rawItem, rawResults>>

ConsumerLoadTail ==
    /\ worker = "tail"
    /\ worker' = IF rawFrom = rawTail THEN "loop" ELSE "move"
    /\ UNCHANGED <<rawQueue, rawPushVars, rawStage, running, rawFrom, rawItem, rawResults>>

(* Mutant: the block is copied out of its slot, not moved. *)
MutConsumerMove ==
    /\ \/ /\ worker = "move" /\ worker' = "clear"
          /\ rawItem' = rawSlots[rawFrom]
       \/ /\ worker = "clear" /\ worker' = "store"
          /\ rawItem' = rawItem
    /\ rawSlots' = rawSlots
    /\ UNCHANGED <<rawHead, rawTail, rawDropped, rawPushVars, rawStage, running, rawFrom,
                   rawResults>>

(* ... moves the block out of its slot, which is then empty ... *)
ConsumerMove ==
    /\ \/ /\ worker = "move" /\ worker' = "clear"
          /\ rawItem' = rawSlots[rawFrom]
          /\ rawSlots' = rawSlots
       \/ /\ worker = "clear" /\ worker' = "store"
          /\ rawSlots' = [rawSlots EXCEPT ![rawFrom] = NoBlock]
          /\ rawItem' = rawItem
    /\ UNCHANGED <<rawHead, rawTail, rawDropped, rawPushVars, rawStage, running, rawFrom,
                   rawResults>>

(* process_block, for a block: of an empty slot nothing is made. *)
process_block(b) ==
    IF b = NoBlock THEN UNCHANGED rawResults ELSE
    /\ rawStats' = [total |-> rawStats.total + 1,
                    complete |-> rawStats.complete + IF b.flagged THEN 0 ELSE 1,
                    incomplete |-> rawStats.incomplete + IF b.flagged THEN 1 ELSE 0,
                    last |-> b.seq]
    /\ rawTwice' = (rawTwice \/ b.seq \in rawTaken)
    /\ rawTaken' = rawTaken \cup {b.seq}
    /\ rawTorn' = (rawTorn \/ (~b.flagged /\ b.kind # "whole"))

(* ... and stores head_, whatever it is by now; run takes the block. *)
ConsumerStore ==
    /\ worker = "store"
    /\ rawHead' = RawSucc(rawFrom)
    /\ process_block(rawItem)
    /\ worker' = "loop" /\ rawFrom' = 0 /\ rawItem' = NoBlock
    /\ UNCHANGED <<rawTail, rawSlots, rawDropped, rawPushVars, rawStage, running>>

(* app_shutdown, stage 0: StubConsumer::stop clears running_ ... *)
ConsumerStop ==
    /\ rawStage = "run" /\ rawPc["main"] = "idle"
    /\ running' = FALSE
    /\ rawStage' = "shutdown"
    /\ UNCHANGED <<rawQueue, rawPushVars, rawPopVars, rawResults>>

(* ... and joins; the processing threads are joined in stage 1.5. *)
ProcessingJoined ==
    /\ rawStage = "shutdown" /\ worker = "ended"
    /\ rawPc["processing"] = "idle"
    /\ rawStage' = "joined"
    /\ UNCHANGED <<rawQueue, rawPushVars, running, rawPopVars, rawResults>>

RawPush(p) ==
    \/ RawCall(p) \/ RawLoadTail(p) \/ RawLoadHead(p) \/ RawDrop(p)
    \/ RawWrite(p) \/ RawPublish(p)

RawPop == ConsumerLoop \/ ConsumerLoadHead \/ ConsumerLoadTail \/ ConsumerMove \/ ConsumerStore

RawNext ==
    \/ \E p \in RawProducers : RawPush(p)
    \/ RawPop
    \/ ConsumerStart \/ ConsumerStop \/ ProcessingJoined

RawSpec == RawInit /\ [][RawNext]_rawVars

----------------------------------------------------------------------------
RawTypeOK ==
    /\ {rawHead, rawTail, rawFrom} \subseteq 0..(RawCapacity - 1)
    /\ \A p \in RawProducers :
          rawPc[p] \in {"idle", "tail", "head", "cas", "write", "publish"}
    /\ rawStage \in {"init", "run", "shutdown", "joined", "failed"}
    /\ worker \in {"none", "loop", "head", "tail", "move", "clear", "store", "ended"}
    /\ rawMade \in 0..MaxBlocks

(***************************************************************************)
(* Whatever the two producers and the consumer do to each other, and       *)
(* however often a drop takes a block the consumer is moving or the store  *)
(* of head_ takes back a drop: no block is given to process_block twice.   *)
(***************************************************************************)
TakenOnce == ~rawTwice

(***************************************************************************)
(* A block the consumer counts as complete holds a whole frame: missing    *)
(* fragments, a gap and a payload cut to the block's size all reach it.    *)
(***************************************************************************)
CompleteIsWhole ==
    /\ ~rawTorn
    /\ rawStats.total = rawStats.complete + rawStats.incomplete
=============================================================================
