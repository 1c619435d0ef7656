-------------------------------- MODULE Face --------------------------------
(***************************************************************************)
(* One array face from the socket to the reassembler: the receive thread   *)
(* (ArrayFaceReceiver::receive_loop, with RxStage::on_packet as its        *)
(* handler), the ring of envelopes, the processing thread of app_run.cpp   *)
(* with Dispatcher, and the main thread that starts and stops them.        *)
(*                                                                         *)
(* The pool and the ring are taken at the grain of their operations; what  *)
(* happens inside an operation is the subject of PacketPool and SPSCQueue. *)
(* The ring keeps its slots: an envelope that is dropped stays in its slot *)
(* and owns its buffer until the slot is written again.                    *)
(*                                                                         *)
(* Buffers 1..PoolBuffers belong to the pool, the others come from the     *)
(* heap; 0 is the null pointer.  Heartbeats carry the sequence number of   *)
(* their sender, modulo SeqSpan.                                            *)
(***************************************************************************)
EXTENDS Protocol, Sequences, SequencesExt, FiniteSets

CONSTANTS
    Datagrams,      \* what may arrive
    SourceFilter,   \* source_filter_enabled
    Batch,          \* batch_size
    DrainRounds,    \* drain_rounds
    PoolBuffers,    \* the buffers of the pool
    HeapBuffers,    \* bound: the heap buffers that exist at a time
    RingSlots,      \* the slots of the ring, one of which stays free
    SeqSpan,         \* sequence numbers are modulo SeqSpan (2^32)
    StartSeq,       \* the heartbeats sent before the start
    MaxArrivals     \* bound: the datagrams received

ASSUME FaceAssumption ==
    /\ {Batch, DrainRounds, PoolBuffers, HeapBuffers, RingSlots, SeqSpan,
        StartSeq, MaxArrivals} \subseteq Nat
    /\ Batch > 0 /\ DrainRounds > 0 /\ RingSlots > 1 /\ SeqSpan > 3

VARIABLES
    pool,           \* the free list, its head first
    heapFree,       \* the heap buffers that do not exist
    poolAlive,      \* the receiver that owns the pool has not been destroyed
    running,        \* running_ of the receiver
    rpc,            \* where the receive thread is
    round,          \* drain_round
    recv_buffers,   \* recv_buffers, stale pointers included
    msgs, received, \* what recvmmsg wrote, and its result
    high, normal,   \* heartbeat_batch and data_batch
    ring, qhead, qtail,   \* the ring of RxStage
    processing,     \* processing_running
    tpc, cur,       \* the processing thread and the envelope it works on
    held,           \* the buffers FragmentRefs of the reassembler own
    hb,             \* the heartbeat statistics of Dispatcher
    dropped,        \* stats_.dropped_packets of Dispatcher
    mpc,            \* where the main thread is
    arrivals,       \* the datagrams received so far
    sent,           \* the heartbeats the face sent so far
    seen,           \* history: the first and last heartbeat processed, and
                    \* whether a gap reached half of the numbers
    refused,        \* history: allocate has returned nullptr
    misread         \* history: a buffer was read after its pool was gone

poolV == <<pool, heapFree, poolAlive>>
recvV == <<rpc, round, recv_buffers, msgs, received, high, normal>>
ringV == <<ring, qhead, qtail>>
procV == <<tpc, cur, held, hb, dropped, seen, misread>>
mainV == <<mpc, running, processing>>
netV  == <<arrivals, sent>>

faceVars == <<poolV, recvV, ringV, procV, mainV, netV, refused>>

PoolSet == 1..PoolBuffers

HeapSet == (PoolBuffers + 1)..(PoolBuffers + HeapBuffers)

AllBuffers == PoolSet \cup HeapSet

NoEnvelope == [buf |-> 0]

FaceInit ==
    /\ pool = [i \in PoolSet |-> i]
    /\ heapFree = HeapSet
    /\ poolAlive = TRUE
    /\ running = TRUE
    /\ rpc = "loop" /\ round = 0
    /\ recv_buffers = [i \in 1..Batch |-> 0]
    /\ msgs = <<>> /\ received = 0 /\ high = <<>> /\ normal = <<>>
    /\ ring = [i \in 0..(RingSlots - 1) |-> NoEnvelope]
    /\ qhead = 0 /\ qtail = 0
    /\ processing = TRUE
    /\ tpc = "loop" /\ cur = NoEnvelope
    /\ held = {}
    /\ hb = [has |-> FALSE, last |-> 0, received |-> 0, loss |-> 0]
    /\ dropped = 0
    /\ mpc = "starting"
    /\ arrivals = 0 /\ sent = StartSeq
    /\ seen = [first |-> 0, last |-> 0, half |-> FALSE]
    /\ refused = FALSE /\ misread = FALSE

(* PacketPool::deallocate on each buffer of the sequence bs, in its order. *)
Freed(bs) ==
    LET own == SelectSeq(bs, LAMBDA b : b \in PoolSet)
    IN  /\ pool' = Reverse(own) \o pool
        /\ heapFree' = heapFree \cup ({bs[i] : i \in 1..Len(bs)} \cap HeapSet)
        /\ UNCHANGED poolAlive

NonNull(f) == SelectSeq([i \in 1..Batch |-> f[i]], LAMBDA b : b # 0)

----------------------------------------------------------------------------
(* The receive thread *)

(* Mutant: running_ is only looked at after a failed allocation. *)
MutRecvForEver ==
    /\ rpc = "loop"
    /\ IF ~running /\ refused
       THEN rpc' = "exited" /\ round' = round
       ELSE /\ ~refused
            /\ round' = IF round < DrainRounds THEN round ELSE 0
            /\ rpc' = "alloc"
    /\ UNCHANGED <<poolV, recv_buffers, msgs, received, high, normal, ringV, procV,
                   mainV, netV, refused>>

(* The heads of the two loops.  Bound: no round follows a failed allocation. *)
RecvLoop ==
    /\ rpc = "loop"
    /\ IF ~running
       THEN rpc' = "exited" /\ round' = round
       ELSE /\ ~refused
            /\ round' = IF round < DrainRounds THEN round ELSE 0
            /\ rpc' = "alloc"
    /\ UNCHANGED <<poolV, recv_buffers, msgs, received, high, normal, ringV, procV,
                   mainV, netV, refused>>

(* Phase 1: a buffer for every message of the batch. *)
AllocBatch ==
    /\ rpc = "alloc"
    /\ \E n \in 0..Batch, hs \in SUBSET heapFree :
        LET k == IF n < Len(pool) THEN n ELSE Len(pool)
            fromHeap == SetToSeq(hs)
            got == SubSeq(pool, 1, k) \o fromHeap
        IN  /\ Len(got) = n
            /\ hs # {} => k = Len(pool)
            /\ n < Batch => k = Len(pool)
            /\ pool' = SubSeq(pool, k + 1, Len(pool))
            /\ heapFree' = heapFree \ hs
            /\ recv_buffers' =
                    [i \in 1..Batch |-> IF i <= n THEN got[i]
                                        ELSE IF i = n + 1 THEN 0
                                        ELSE recv_buffers[i]]
            /\ refused' = (refused \/ n < Batch)
            /\ rpc' = IF n < Batch THEN "giveback" ELSE "recv"
    /\ UNCHANGED <<poolAlive, round, msgs, received, high, normal, ringV, procV,
                   mainV, netV>>

(***************************************************************************)
(* allocation_failed: every pointer of the vector that is not null is      *)
(* freed, those left over from an earlier round included.                  *)
(***************************************************************************)
AllocFailed ==
    /\ rpc = "giveback"
    /\ Freed(NonNull(recv_buffers))
    /\ rpc' = "loop" /\ round' = DrainRounds
    /\ UNCHANGED <<recv_buffers, msgs, received, high, normal, ringV, procV, mainV,
                   netV, refused>>

(***************************************************************************)
(* What recvmmsg delivers.  The network may lose heartbeats, and does not  *)
(* reorder those of one face.                                              *)
(***************************************************************************)
Arriving(ps) ==
    LET beats(k) == Cardinality({i \in 1..k : ps[i].type = "HEARTBEAT"})
    IN  \E lost \in 0..1 :
            /\ lost = 1 => beats(Len(ps)) > 0
            /\ sent' = sent + lost + beats(Len(ps))
            /\ received' = Len(ps)
            /\ msgs' = [i \in DOMAIN ps |->
                  [d |-> ps[i], n |-> arrivals + i,
                   seq |-> IF ps[i].type = "HEARTBEAT"
                           THEN sent + lost + beats(i) ELSE 0]]

RecvBatch ==
    /\ rpc = "recv"
    /\ \E ps \in BoundedSeq(Datagrams, Batch) :
        /\ ps # <<>>
        /\ arrivals + Len(ps) <= MaxArrivals
        /\ arrivals' = arrivals + Len(ps)
        /\ Arriving(ps)
    /\ rpc' = "wrap"
    /\ UNCHANGED <<poolV, round, recv_buffers, high, normal, ringV, procV,
                   mainV, refused>>

(* recvmmsg times out or fails: the buffers go back, the pointers stay. *)
RecvNothing ==
    /\ rpc = "recv"
    /\ Freed(NonNull(recv_buffers))
    /\ rpc' = "loop" /\ round' = DrainRounds
    /\ UNCHANGED <<recv_buffers, msgs, received, high, normal, ringV, procV, mainV,
                   netV, refused>>

(* Mutant: a buffer that was handed on stays in recv_buffers. *)
MutWrapBatch ==
    /\ rpc = "wrap"
    /\ LET own == [i \in DOMAIN msgs |->
                        [buf |-> recv_buffers[i], p |-> msgs[i]]]
           kept == SelectSeq(own, LAMBDA e : ~SourceFilter \/ PassesFilter(e.p.d))
           out == SelectSeq(own, LAMBDA e : SourceFilter /\ ~PassesFilter(e.p.d))
       IN  /\ high' = SelectSeq(kept, LAMBDA e : IsHigh(e.p.d))
           /\ normal' = SelectSeq(kept, LAMBDA e : ~IsHigh(e.p.d))
           /\ Freed([i \in DOMAIN out |-> out[i].buf])
    /\ rpc' = "handle" /\ msgs' = <<>>
    /\ UNCHANGED <<round, received, recv_buffers, ringV, procV, mainV, netV,
                   refused>>

(* Mutant: the two batches are taken for each other. *)
MutWrapSwapped ==
    /\ rpc = "wrap"
    /\ LET own == [i \in DOMAIN msgs |->
                        [buf |-> recv_buffers[i], p |-> msgs[i]]]
           kept == SelectSeq(own, LAMBDA e : ~SourceFilter \/ PassesFilter(e.p.d))
           out == SelectSeq(own, LAMBDA e : SourceFilter /\ ~PassesFilter(e.p.d))
       IN  /\ high' = SelectSeq(kept, LAMBDA e : ~IsHigh(e.p.d))
           /\ normal' = SelectSeq(kept, LAMBDA e : IsHigh(e.p.d))
           /\ Freed([i \in DOMAIN out |-> out[i].buf])
    /\ recv_buffers' = [i \in 1..Batch |-> IF i \in DOMAIN msgs THEN 0
                                           ELSE recv_buffers[i]]
    /\ rpc' = "handle" /\ msgs' = <<>>
    /\ UNCHANGED <<round, received, ringV, procV, mainV, netV, refused>>

(***************************************************************************)
(* Each buffer moves from recv_buffers into a PacketBuffer; a datagram of  *)
(* another source gives its buffer back, the others are sorted by class.   *)
(***************************************************************************)
WrapBatch ==
    /\ rpc = "wrap"
    /\ LET own == [i \in DOMAIN msgs |->
                        [buf |-> recv_buffers[i], p |-> msgs[i]]]
           kept == SelectSeq(own, LAMBDA e : ~SourceFilter \/ PassesFilter(e.p.d))
           out == SelectSeq(own, LAMBDA e : SourceFilter /\ ~PassesFilter(e.p.d))
       IN  /\ high' = SelectSeq(kept, LAMBDA e : IsHigh(e.p.d))
           /\ normal' = SelectSeq(kept, LAMBDA e : ~IsHigh(e.p.d))
           /\ Freed([i \in DOMAIN out |-> out[i].buf])
    /\ recv_buffers' = [i \in 1..Batch |-> IF i \in DOMAIN msgs THEN 0
                                           ELSE recv_buffers[i]]
    /\ rpc' = "handle" /\ msgs' = <<>>
    /\ UNCHANGED <<round, received, ringV, procV, mainV, netV, refused>>

NextSlot(i) == (i + 1) % RingSlots

(***************************************************************************)
(* RxStage::on_packet.  A rejected datagram returns its buffer at once; an *)
(* envelope is moved into the slot at the tail, which first returns what   *)
(* the slot still owned.  A full ring gives up its oldest envelope.        *)
(***************************************************************************)
on_packet(e) ==
    IF parse(e.p.d) /\ validate(e.p.d)
    THEN /\ ring' = [ring EXCEPT ![qtail] = e]
         /\ qtail' = NextSlot(qtail)
         /\ qhead' = IF NextSlot(qtail) = qhead THEN NextSlot(qhead) ELSE qhead
         /\ Freed(IF ring[qtail].buf = 0 THEN <<>> ELSE <<ring[qtail].buf>>)
    ELSE Freed(<<e.buf>>) /\ UNCHANGED ringV

(* The packet handler: the whole heartbeat batch before the data batch. *)
HandlePacket ==
    /\ rpc = "handle"
    /\ \/ /\ high # <<>>
          /\ on_packet(Head(high))
          /\ high' = Tail(high) /\ normal' = normal
       \/ /\ high = <<>> /\ normal # <<>>
          /\ on_packet(Head(normal))
          /\ normal' = Tail(normal) /\ high' = high
    /\ UNCHANGED <<rpc, round, recv_buffers, msgs, received, procV, mainV, netV,
                   refused>>

(* The unused buffers go back; a short batch ends the inner loop. *)
ReleaseUnused ==
    /\ rpc = "handle" /\ high = <<>> /\ normal = <<>>
    /\ Freed(NonNull(recv_buffers))
    /\ round' = IF received < Batch THEN DrainRounds ELSE round + 1
    /\ received' = 0
    /\ rpc' = "loop"
    /\ UNCHANGED <<recv_buffers, msgs, high, normal, ringV, procV, mainV, netV,
                   refused>>

(* What the receive thread does whether or not a datagram arrives. *)
RecvStep == RecvLoop \/ AllocBatch \/ AllocFailed \/ RecvNothing
            \/ WrapBatch \/ HandlePacket \/ ReleaseUnused

----------------------------------------------------------------------------
(* The processing thread *)

(***************************************************************************)
(* try_pop.  The loop condition is read before each try_pop, so that the   *)
(* thread may leave the loop between two envelopes; what is left is popped *)
(* in the drain, until the ring is empty.                                  *)
(***************************************************************************)
ProcPop ==
    /\ cur = NoEnvelope
    /\ \/ /\ tpc = "loop" /\ ~processing
          /\ tpc' = "drain"
          /\ UNCHANGED <<cur, ring, qhead>>
       \/ /\ tpc = "drain" /\ qhead = qtail
          /\ tpc' = "exited"
          /\ UNCHANGED <<cur, ring, qhead>>
       \/ /\ tpc = "drain" \/ (tpc = "loop" /\ processing)
          /\ qhead # qtail
          /\ cur' = ring[qhead]
          /\ ring' = [ring EXCEPT ![qhead] = NoEnvelope]
          /\ qhead' = NextSlot(qhead)
          /\ tpc' = tpc
    /\ UNCHANGED <<poolV, recvV, qtail, held, hb, dropped, seen, misread,
                   mainV, netV, refused>>

(* Mutant: the first missing number of a gap is counted twice. *)
MutHeartbeatSeen(s) ==
    LET delta == (s + SeqSpan - hb.last) % SeqSpan
        gap == IF hb.has /\ delta > 1 /\ 2 * delta < SeqSpan THEN delta ELSE 0
    IN  hb' = [has |-> TRUE, last |-> s,
               received |-> hb.received + 1, loss |-> hb.loss + gap]

(* The sequence check of dispatch_heartbeat_direct; s is modulo SeqSpan. *)
HeartbeatSeen(s) ==
    LET delta == (s + SeqSpan - hb.last) % SeqSpan
        gap == IF hb.has /\ delta > 1 /\ 2 * delta < SeqSpan
               THEN delta - 1 ELSE 0
    IN  hb' = [has |-> TRUE, last |-> s,
               received |-> hb.received + 1, loss |-> hb.loss + gap]

(* Dispatcher::dispatch for a heartbeat; its buffer goes back afterwards. *)
DispatchHeartbeat ==
    /\ cur # NoEnvelope /\ cur.p.d.type = "HEARTBEAT"
    /\ IF HeartbeatTaken(cur.p.d)
       THEN /\ HeartbeatSeen(cur.p.seq % SeqSpan)
            /\ seen' = [first |-> IF hb.has THEN seen.first ELSE cur.p.seq,
                        last |-> cur.p.seq,
                        half |-> \/ seen.half
                                 \/ /\ hb.has
                                    /\ 2 * (cur.p.seq - seen.last) >= SeqSpan]
            /\ dropped' = dropped
       ELSE /\ hb' = [hb EXCEPT !.loss = @ + 1]
            /\ dropped' = dropped + 1
            /\ seen' = seen
    /\ Freed(<<cur.buf>>)
    /\ misread' = (misread \/ ~poolAlive)
    /\ cur' = NoEnvelope
    /\ UNCHANGED <<recvV, ringV, tpc, held, mainV, netV, refused>>

(* The data handler may free any of the buffers the reassembler owns. *)
Released(keep, from) ==
    /\ held' = keep
    /\ Freed(SetToSeq(from \ keep))

(***************************************************************************)
(* Dispatcher::dispatch for a DATA packet.  In the loop the buffer moves   *)
(* into the reassembler, which keeps it or not and may complete a frame;   *)
(* in the drain the payload is copied and the buffer goes back.            *)
(***************************************************************************)
DispatchData ==
    /\ cur # NoEnvelope /\ cur.p.d.type = "DATA"
    /\ IF tpc = "loop"
       THEN \E keep \in {held \cup {cur.buf}, held, {}} :
                Released(keep, held \cup {cur.buf})
       ELSE \E keep \in {held, {}} : Released(keep, held \cup {cur.buf})
    /\ misread' = (misread \/ ~poolAlive)
    /\ cur' = NoEnvelope
    /\ UNCHANGED <<recvV, ringV, tpc, hb, dropped, seen, mainV, netV, refused>>

Proc == ProcPop \/ DispatchHeartbeat \/ DispatchData

----------------------------------------------------------------------------
(* The main thread *)

(* app_run: the consumers start, or the start is rolled back. *)
ConsumersStart ==
    /\ mpc = "starting"
    /\ \/ mpc' = "run" /\ processing' = processing
       \/ mpc' = "roll_join" /\ processing' = FALSE
    /\ UNCHANGED <<running, poolV, recvV, ringV, procV, netV, refused>>

(* The rollback joins the processing thread first, then stops the sockets. *)
RollbackUdp ==
    /\ mpc = "roll_join" /\ tpc = "exited"
    /\ running' = FALSE
    /\ mpc' = "roll_recv"
    /\ UNCHANGED <<processing, poolV, recvV, ringV, procV, netV, refused>>

(* app_run, every 100 ms: the timeout scan drops contexts. *)
TimeoutScan ==
    /\ mpc = "run" /\ held # {}
    /\ Released({}, held)
    /\ UNCHANGED <<recvV, ringV, tpc, cur, hb, dropped, seen, misread, mainV,
                   netV, refused>>

(* A signal ends the main loop; stage 1 clears running_. *)
StopUdp ==
    /\ mpc = "run"
    /\ running' = FALSE
    /\ mpc' = "join_recv"
    /\ UNCHANGED <<processing, poolV, recvV, ringV, procV, netV, refused>>

(* The thread is joined, then receivers_.clear() destroys the pool. *)
DestroyReceiver ==
    /\ mpc \in {"join_recv", "roll_recv"} /\ rpc = "exited"
    /\ poolAlive' = FALSE
    /\ mpc' = IF mpc = "join_recv" THEN "stop_proc" ELSE "rolled_back"
    /\ UNCHANGED <<running, processing, pool, heapFree, recvV, ringV, procV,
                   netV, refused>>

(* Stage 1.5 *)
StopProcessing ==
    /\ mpc = "stop_proc"
    /\ processing' = FALSE
    /\ mpc' = "join_proc"
    /\ UNCHANGED <<running, poolV, recvV, ringV, procV, netV, refused>>

JoinProcessing ==
    /\ mpc = "join_proc" /\ tpc = "exited"
    /\ mpc' = "flush"
    /\ UNCHANGED <<running, processing, poolV, recvV, ringV, procV, netV,
                   refused>>

(* Stage 3: flush_all completes or drops every context. *)
FlushAll ==
    /\ mpc = "flush"
    /\ Released({}, held)
    /\ misread' = (misread \/ held # {})
    /\ mpc' = "done"
    /\ UNCHANGED <<running, processing, recvV, ringV, tpc, cur, hb, dropped,
                   seen, netV, refused>>

(* A stage took longer than three seconds: std::_Exit after the stage. *)
ForcedExit ==
    /\ mpc \in {"stop_proc", "flush"}
    /\ mpc' = "killed"
    /\ UNCHANGED <<running, processing, poolV, recvV, ringV, procV, netV,
                   refused>>

MainThread ==
    \/ ConsumersStart \/ RollbackUdp \/ TimeoutScan \/ StopUdp
    \/ DestroyReceiver \/ StopProcessing \/ JoinProcessing \/ FlushAll
    \/ ForcedExit

Over == mpc \in {"done", "killed", "rolled_back"}

(* The process is over: main has returned. *)
Ended == Over /\ UNCHANGED faceVars

FaceNext ==
    \/ (RecvStep \/ RecvBatch) /\ mpc # "killed"
    \/ Proc /\ mpc # "killed"
    \/ MainThread
    \/ Ended

(***************************************************************************)
(* The threads run; recvmmsg returns within its timeout; a step of main    *)
(* that is a join waits for the other thread only.                         *)
(***************************************************************************)
FaceSpec ==
    /\ FaceInit /\ [][FaceNext]_faceVars
    /\ WF_faceVars(RecvStep /\ mpc # "killed")
    /\ WF_faceVars(Proc /\ mpc # "killed")
    /\ WF_faceVars(RollbackUdp \/ DestroyReceiver \/ StopProcessing
                   \/ JoinProcessing \/ FlushAll)

----------------------------------------------------------------------------
Envelope(e) == e = NoEnvelope \/ (e.buf \in AllBuffers /\ e.p.d \in Datagrams)

FaceTypeOK ==
    /\ \A i \in DOMAIN pool : pool[i] \in PoolSet
    /\ heapFree \subseteq HeapSet
    /\ {poolAlive, running, processing, refused, misread} \subseteq BOOLEAN
    /\ rpc \in {"loop", "alloc", "giveback", "recv", "wrap", "handle", "exited"}
    /\ round \in 0..DrainRounds
    /\ recv_buffers \in [1..Batch -> AllBuffers \cup {0}]
    /\ \A i \in DOMAIN ring : Envelope(ring[i])
    /\ {qhead, qtail} \subseteq 0..(RingSlots - 1)
    /\ Envelope(cur)
    /\ held \subseteq AllBuffers
    /\ {hb.received, hb.loss, dropped} \subseteq Nat

(* The pointers of recv_buffers that own a buffer; the others are stale. *)
OwnedSlots ==
    CASE rpc = "giveback" -> {}
      [] rpc \in {"recv", "wrap"} -> 1..Batch
      [] rpc = "handle" -> (received + 1)..Batch
      [] OTHER -> {}

(* The owners of buffer b. *)
Owners(b) ==
    {<<"pool", i>> : i \in {i \in DOMAIN pool : pool[i] = b}}
    \cup {<<"recv", i>> : i \in {i \in OwnedSlots : recv_buffers[i] = b}}
    \cup {<<"high", i>> : i \in {i \in DOMAIN high : high[i].buf = b}}
    \cup {<<"normal", i>> : i \in {i \in DOMAIN normal : normal[i].buf = b}}
    \cup {<<"ring", i>> : i \in {i \in DOMAIN ring : ring[i].buf = b}}
    \cup {<<"heap", i>> : i \in heapFree \cap {b}}
    \cup {<<"held", i>> : i \in held \cap {b}}
    \cup {<<"cur", i>> : i \in {cur.buf} \cap {b}}

(***************************************************************************)
(* As long as allocate has not failed, every buffer has exactly one owner: *)
(* none is freed twice, none is used after it was freed, none is leaked,   *)
(* across the receive thread, the ring, the processing thread and the      *)
(* reassembler.  (After a failure the stale pointers of recv_buffers are   *)
(* freed a second time.)                                                   *)
(***************************************************************************)
OneOwner ==
    ~refused => \A b \in AllBuffers : Cardinality(Owners(b)) = 1

(* The envelopes waiting in the ring, oldest first. *)
Waiting ==
    [k \in 1..((qtail + RingSlots - qhead) % RingSlots) |->
        ring[(qhead + k - 1) % RingSlots]]

(***************************************************************************)
(* Within a class the ring, the envelope in work and the batches that are  *)
(* yet to be handled keep the order of arrival, and a data packet never    *)
(* waits in front of a heartbeat that arrived before it.                   *)
(***************************************************************************)
ArrivalOrder ==
    LET line == (IF cur = NoEnvelope THEN <<>> ELSE <<cur>>) \o Waiting
                \o high \o normal
    IN  \A i, j \in DOMAIN line :
            i < j /\ (IsHigh(line[i].p.d) => IsHigh(line[j].p.d))
                => line[i].p.n < line[j].p.n

(***************************************************************************)
(* The heartbeat statistics account for every heartbeat the face has sent  *)
(* between the first and the last that were processed, across the          *)
(* wraparound of the sequence numbers, whether the network lost it or the  *)
(* ring dropped it, as long as no gap reaches half of the numbers.         *)
(***************************************************************************)
HeartbeatsAccounted ==
    hb.has /\ ~seen.half => hb.received + hb.loss = seen.last - seen.first + 1

(* A stop and a failed start come to an end. *)
StopEnds == (mpc \notin {"starting", "run"}) ~> Over

(***************************************************************************)
(* The envelopes the processing thread drains while the application stops, *)
(* and the fragments it flushes, are read from live buffers.               *)
(***************************************************************************)
DrainReadsLiveBuffers == ~misread
=============================================================================
