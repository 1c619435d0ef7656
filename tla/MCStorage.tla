------------------------------ MODULE MCStorage ------------------------------
(***************************************************************************)
(* What keeps packets, pieces, blocks and measurements in memory or on     *)
(* disk: the reassembler with fragments of one key that disagree, the      *)
(* reassembler with keys enough to overrun its contexts and fill its       *)
(* freeze ring, the packet pool, the raw block path, the histogram, the    *)
(* capture, the tools that read captures and the ring in shared memory.  A *)
(* behaviour exercises the part that part names and leaves the others in   *)
(* an initial state.                                                       *)
(***************************************************************************)
EXTENDS Reassembler, PacketPool, RawPath, Metrics, Capture, PcapTools, ShmDelivery

CONSTANT k1

VARIABLE part

allVars == <<part, vars, poolVars, rawVars, metricsVars, capVars, pcapVars, shmVars>>

(* Fragments of one key that may disagree; fragments of every key whose tails are lost. *)
OneKey == {f \in Arriving : f.key = k1}
NoTails == {f \in Arriving : f.total = 2 /\ f.index = 0 /\ f.size = 2 /\ f.tail_bytes = 2}

MCBounds == <<1, 4>>
MCPermilles == <<500, 990, 999>>
MCDelays == {-1, 1, 3, 6}

(* The command lines of the replay tool. *)
MCArgLists ==
    {<<>>, <<<<"loop", 1>>>>, <<<<"count", 2>>>>, <<<<"count", 0>>>>,
     <<<<"loop", 1>>, <<"count", 2>>>>, <<<<"start", 1>>>>, <<<<"end", 0>>>>,
     <<<<"start", 1>>, <<"end", 0>>>>, <<<<"start", None>>>>,
     <<<<"end", 1>>, <<"start", 1>>>>}

StorageInit ==
    /\ part \in {"reassembler", "freeze", "pool", "raw", "metrics",
                "capture", "pcap", "shm"}
    /\ Init /\ PoolInit /\ RawInit /\ MetricsInit
    /\ CaptureInit /\ PcapInit /\ ShmInit
    /\ part \notin {"reassembler", "freeze"} => timeout_ms = MaxTimeout
    /\ part # "pool" => free # {}
    /\ part # "pcap" => pcap = CHOOSE c \in FilesOf(1) : TRUE

StorageNext ==
    \/ /\ part = "reassembler" /\ ((\E f \in OneKey : process_packet(f)) \/ Housekeeping)
       /\ UNCHANGED <<part, poolVars, rawVars, metricsVars,
                      capVars, pcapVars, shmVars>>
    \/ /\ part = "freeze" /\ ((\E f \in NoTails : process_packet(f)) \/ Housekeeping)
       /\ UNCHANGED <<part, poolVars, rawVars, metricsVars,
                      capVars, pcapVars, shmVars>>
    \/ /\ part = "pool" /\ PoolNext
       /\ UNCHANGED <<part, vars, rawVars, metricsVars,
                      capVars, pcapVars, shmVars>>
    \/ /\ part = "raw" /\ RawNext
       /\ UNCHANGED <<part, vars, poolVars, metricsVars,
                      capVars, pcapVars, shmVars>>
    \/ /\ part = "metrics" /\ MetricsNext
       /\ UNCHANGED <<part, vars, poolVars, rawVars,
                      capVars, pcapVars, shmVars>>
    \/ /\ part = "capture" /\ CaptureNext
       /\ UNCHANGED <<part, vars, poolVars, rawVars,
                      metricsVars, pcapVars, shmVars>>
    \/ /\ part = "pcap" /\ PcapNext
       /\ UNCHANGED <<part, vars, poolVars, rawVars,
                      metricsVars, capVars, shmVars>>
    \/ /\ part = "shm" /\ ShmNext
       /\ UNCHANGED <<part, vars, poolVars, rawVars,
                      metricsVars, capVars, pcapVars>>

StorageSpec == StorageInit /\ [][StorageNext]_allVars
=============================================================================
