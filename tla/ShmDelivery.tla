---------------------------- MODULE ShmDelivery -----------------------------
(***************************************************************************)
(* SharedMemoryDelivery (delivery/delivery_interface.cpp): records in a    *)
(* ring of bytes in shared memory, written under a process-shared mutex    *)
(* and read from header->tail by another process.                          *)
(*                                                                         *)
(* The ring is an array of cells.  A record takes ShmHeader cells and one  *)
(* cell per unit of payload; records carry the number of the frame.  The   *)
(* first cell of a header holds its marker, and stands for all its fields. *)
(***************************************************************************)
EXTENDS Integers, Sequences

CONSTANTS
    RingSize,     \* header->ring_size
    ShmHeader,    \* sizeof(RecordHeader)
    Sizes,        \* the payload sizes
    MaxFrames     \* bound: the frames delivered

ASSUME ShmAssumption ==
    /\ {RingSize, ShmHeader, MaxFrames} \subseteq Nat \ {0}
    /\ Sizes \subseteq Nat

VARIABLES
    cells,                 \* the ring
    shmHead, shmTail,      \* header->head and header->tail
    shmPc,                 \* "idle" (mutex free), "room" or "abandoned"
    shmSize,               \* payload_size of the frame being delivered
    shmSeq,                \* the frames written so far
    shmErrors,             \* stats.delivery_errors
    shmGone,               \* history: the records dropped or read
    overrun                \* history: a record was written over the tail

shmVars ==
    <<cells, shmHead, shmTail, shmPc, shmSize, shmSeq, shmErrors, shmGone, overrun>>

Cell(k, n, s) == [kind |-> k, seq |-> n, size |-> s]

Blank == Cell("none", 0, 0)

(* The segment is new: zeroed, with an empty ring. *)
ShmInit ==
    /\ cells = [i \in 0..(RingSize - 1) |-> Blank]
    /\ shmHead = 0 /\ shmTail = 0
    /\ shmPc = "idle" /\ shmSize = 0
    /\ shmSeq = 0 /\ shmErrors = 0
    /\ shmGone = 0 /\ overrun = FALSE

used_space(h, t) == IF h >= t THEN h - t ELSE RingSize - (t - h)

(* Mutant: a full ring cannot be told from an empty one. *)
MutFreeSpace(h, t) == RingSize - used_space(h, t)

free_space(h, t) == RingSize - used_space(h, t) - 1

(* write_ring: cells from offset on, around the end. *)
Written(c, offset, n, first, rest) ==
    [i \in DOMAIN c |->
        LET d == (i + RingSize - offset) % RingSize
        IN  IF d >= n THEN c[i] ELSE IF d = 0 THEN first ELSE rest]

(* deliver: a frame that can never fit is refused; else the mutex is taken. *)
ShmBegin ==
    /\ shmPc = "idle" /\ shmSeq + shmErrors < MaxFrames
    /\ \E s \in Sizes :
        IF ShmHeader + s >= RingSize
        THEN shmErrors' = shmErrors + 1 /\ UNCHANGED <<shmPc, shmSize>>
        ELSE shmPc' = "room" /\ shmSize' = s /\ shmErrors' = shmErrors
    /\ UNCHANGED <<cells, shmHead, shmTail, shmSeq, shmGone, overrun>>

Required == ShmHeader + shmSize

HasRoom == free_space(shmHead, shmTail) >= Required

(* The record at the tail is skipped, as drop_oldest_unlocked does. *)
SkipOldest ==
    LET rec == cells[shmTail]
    IN  /\ shmTail' =
            CASE rec.kind = "wrap" -> 0
              [] rec.kind = "record" -> (shmTail + ShmHeader + rec.size) % RingSize
              [] OTHER -> shmHead
        /\ shmGone' = shmGone + IF rec.kind = "record" THEN 1 ELSE 0

(* drop_oldest_unlocked, once round the loop; garbage ends the delivery. *)
ShmDrop ==
    /\ shmPc = "room" /\ ~HasRoom
    /\ IF shmHead = shmTail THEN UNCHANGED <<shmTail, shmGone>> ELSE SkipOldest
    /\ IF shmHead # shmTail /\ cells[shmTail].kind \in {"wrap", "record"}
       THEN UNCHANGED <<shmPc, shmErrors>>
       ELSE shmPc' = "idle" /\ shmErrors' = shmErrors + 1
    /\ UNCHANGED <<cells, shmHead, shmSize, shmSeq, overrun>>

(* The record would cross the end of the ring: a wrap marker is left there. *)
Wraps == shmHead + Required > RingSize

(* The rest of deliver. *)
ShmWrite ==
    /\ shmPc = "room" /\ HasRoom
    /\ LET marked == IF Wraps
                     THEN Written(cells, shmHead, ShmHeader, Cell("wrap", 0, 0),
                                  Cell("header", 0, 0))
                     ELSE cells
           at == IF Wraps THEN 0 ELSE shmHead
       IN  /\ cells' = Written(Written(marked, at, ShmHeader,
                                       Cell("record", shmSeq + 1, shmSize),
                                       Cell("header", 0, 0)),
                               (at + ShmHeader) % RingSize, shmSize,
                               Cell("payload", 0, 0), Cell("payload", 0, 0))
           /\ shmHead' = (at + Required) % RingSize
    /\ overrun' = (overrun \/ (Wraps /\ Required >= shmTail))
    /\ shmSeq' = shmSeq + 1
    /\ shmPc' = "idle"
    /\ UNCHANGED <<shmTail, shmSize, shmErrors, shmGone>>

(* The reader in the other process takes the record at the tail. *)
ShmRead ==
    /\ shmPc = "idle" /\ shmHead # shmTail
    /\ SkipOldest
    /\ UNCHANGED <<cells, shmHead, shmPc, shmSize, shmSeq, shmErrors, overrun>>

(***************************************************************************)
(* The writer dies.  The segment outlives it, initialised, so the next     *)
(* writer goes on with the same head and tail; the mutex is not a robust   *)
(* one, so one that was held stays held.                                   *)
(***************************************************************************)
ShmCrash ==
    /\ shmPc = "room"
    /\ shmPc' = "abandoned"
    /\ UNCHANGED <<cells, shmHead, shmTail, shmSize, shmSeq, shmErrors, shmGone,
                   overrun>>

ShmNext == ShmBegin \/ ShmDrop \/ ShmWrite \/ ShmRead \/ ShmCrash

ShmSpec == ShmInit /\ [][ShmNext]_shmVars /\ WF_shmVars(ShmDrop \/ ShmWrite)

----------------------------------------------------------------------------
ShmTypeOK ==
    /\ {shmHead, shmTail} \subseteq 0..(RingSize - 1)
    /\ shmPc \in {"idle", "room", "abandoned"}
    /\ shmSeq + shmErrors \in 0..MaxFrames

(***************************************************************************)
(* The numbers of the records a reader finds from t on, fuel records at    *)
(* most; 0 where it finds no record.                                       *)
(***************************************************************************)
RECURSIVE RecordsFrom(_, _)
RecordsFrom(t, fuel) ==
    IF t = shmHead THEN <<>>
    ELSE IF fuel = 0 THEN <<0>>
    ELSE LET rec == cells[t]
         IN  CASE rec.kind = "wrap" -> RecordsFrom(0, fuel - 1)
               [] rec.kind = "record" ->
                    <<rec.seq>> \o RecordsFrom((t + ShmHeader + rec.size)
                                                    % RingSize, fuel - 1)
               [] OTHER -> <<0>>

(***************************************************************************)
(* The reader finds every frame that was delivered and neither dropped nor *)
(* read, whole and in order, and nothing else: what is dropped is the      *)
(* oldest.  It holds until a record that wraps is written over the tail:   *)
(* free_space does not know of the cells a wrap leaves unused.             *)
(***************************************************************************)
ShmParses ==
    ~overrun => RecordsFrom(shmTail, RingSize)
                    = [i \in 1..(shmSeq - shmGone) |-> shmGone + i]

=============================================================================
