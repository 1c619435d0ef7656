----------------------------- MODULE SPSCQueue -----------------------------
(***************************************************************************)
(* The lock-free ring between one producer and one consumer thread         *)
(* (include/qdgz300/common/spsc_queue.h), one action per access to shared  *)
(* memory: the receive thread and the processing thread of a face meet     *)
(* here, and so do the processing thread and the consumer of raw blocks.   *)
(*                                                                         *)
(* The interleavings are sequentially consistent.  Each index is stored    *)
(* with release and loaded with acquire by the other side; the relaxed     *)
(* load of head_ in try_pop may miss a drop, which is the same as a load   *)
(* that came before the drop.                                              *)
(*                                                                         *)
(* Items are numbered 1, 2, ... in the order they are pushed; 0 is the     *)
(* initial content of a slot.  The producer pushes MaxItems items at most. *)
(***************************************************************************)
EXTENDS Integers, Sequences

CONSTANTS
    Cap,          \* the number of slots; one of them always stays free
    MaxItems,     \* bound: the number of items pushed
    MoveEmpties   \* moving an item out of its slot leaves the slot empty

ASSUME QueueAssumption ==
    /\ Cap \in Nat \ {0}
    /\ MaxItems \in Nat
    /\ MoveEmpties \in BOOLEAN

VARIABLES
    head, tail,    \* head_ and tail_
    buffer,        \* buffer_
    drop_count,    \* drop_count_
    ppc,           \* where the producer is
    phead,         \* its local head, the comparand of the CAS
    pushed,        \* the number of items whose push has returned
    cpc,           \* where the consumer is
    chead, citem,  \* its locals head and item
    last,          \* the item try_pop returned last
    popped,        \* the number of items try_pop has returned
    lapped         \* history: the drops that fell into the current try_pop;
                   \* stays at 2 once it was 2

vars == <<head, tail, buffer, drop_count, ppc, phead, pushed,
          cpc, chead, citem, last, popped, lapped>>

producer == <<tail, drop_count, ppc, phead, pushed>>

consumer == <<cpc, chead, citem, last, popped>>

Index == 0..(Cap - 1)

Item == 0..MaxItems

(* (i + 1) & mask_ *)
Succ(i) == IF i + 1 = Cap THEN 0 ELSE i + 1

(* (i + k) & mask_ and (t - h) & mask_, for k < Cap. *)
At(i, k) == IF i + k < Cap THEN i + k ELSE i + k - Cap

size(h, t) == IF t >= h THEN t - h ELSE t - h + Cap

Init ==
    /\ head = 0 /\ tail = 0 /\ drop_count = 0
    /\ buffer = [i \in Index |-> 0]
    /\ ppc = "idle" /\ phead = 0 /\ pushed = 0
    /\ cpc = "idle" /\ chead = 0 /\ citem = 0 /\ last = 0 /\ popped = 0
    /\ lapped = 0

----------------------------------------------------------------------------
(* The producer. *)

(* A call of try_push or drop_oldest_push with the next item. *)
PushCall ==
    /\ ppc = "idle"
    /\ pushed < MaxItems
    /\ ppc' = "load"
    /\ UNCHANGED <<head, tail, buffer, drop_count, phead, pushed, consumer,
                   lapped>>

(* try_push: load both indices; a full queue refuses the item. *)
TryPushLoad ==
    /\ ppc = "load"
    /\ ppc' = IF Succ(tail) = head THEN "idle" ELSE "write"
    /\ UNCHANGED <<head, tail, buffer, drop_count, phead, pushed, consumer,
                   lapped>>

(* Mutant: a full queue is written to without making room. *)
MutDropPushUnchecked ==
    /\ ppc = "load"
    /\ phead' = head
    /\ ppc' = "write"
    /\ UNCHANGED <<head, tail, buffer, drop_count, pushed, consumer,
                   lapped>>

(* drop_oldest_push: on a full queue, try to make room. *)
DropPushLoad ==
    /\ ppc = "load"
    /\ phead' = head
    /\ ppc' = IF Succ(tail) = head THEN "cas" ELSE "write"
    /\ UNCHANGED <<head, tail, buffer, drop_count, pushed, consumer,
                   lapped>>

(* Mutant: the drop is not counted. *)
MutDropUncounted ==
    /\ ppc = "cas"
    /\ head = phead
    /\ head' = Succ(phead)
    /\ ppc' = "load"
    /\ lapped' = IF cpc # "idle" /\ lapped < 2 THEN lapped + 1 ELSE lapped
    /\ UNCHANGED <<tail, buffer, drop_count, phead, pushed, consumer>>

(***************************************************************************)
(* compare_exchange_weak of head_ and the count of the drop; either way    *)
(* the loop starts over.  The exchange may fail spuriously.                *)
(***************************************************************************)
DropCasOk ==
    /\ ppc = "cas"
    /\ head = phead
    /\ head' = Succ(phead)
    /\ drop_count' = drop_count + 1
    /\ ppc' = "load"
    /\ lapped' = IF cpc # "idle" /\ lapped < 2 THEN lapped + 1 ELSE lapped
    /\ UNCHANGED <<tail, buffer, phead, pushed, consumer>>

DropCasFail ==
    /\ ppc = "cas"
    /\ ppc' = "load"
    /\ UNCHANGED <<head, tail, buffer, drop_count, phead, pushed, consumer,
                   lapped>>

PushWrite ==
    /\ ppc = "write"
    /\ buffer' = [buffer EXCEPT ![tail] = pushed + 1]
    /\ ppc' = "publish"
    /\ UNCHANGED <<head, tail, drop_count, phead, pushed, consumer,
                   lapped>>

PushPublish ==
    /\ ppc = "publish"
    /\ tail' = Succ(tail)
    /\ pushed' = pushed + 1
    /\ ppc' = "idle"
    /\ UNCHANGED <<head, buffer, drop_count, phead, consumer,
                   lapped>>

----------------------------------------------------------------------------
(* The consumer: try_pop. *)

PopLoadHead ==
    /\ cpc = "idle"
    /\ chead' = head
    /\ cpc' = "check"
    /\ lapped' = IF lapped = 2 THEN 2 ELSE 0
    /\ UNCHANGED <<head, buffer, producer, citem, last, popped>>

(* Mutant: no check for an empty queue. *)
MutPopUnchecked ==
    /\ cpc = "check"
    /\ cpc' = "read"
    /\ UNCHANGED <<head, buffer, producer, chead, citem, last, popped,
                   lapped>>

PopLoadTail ==
    /\ cpc = "check"
    /\ cpc' = IF chead = tail THEN "idle" ELSE "read"
    /\ UNCHANGED <<head, buffer, producer, chead, citem, last, popped,
                   lapped>>

PopRead ==
    /\ cpc = "read"
    /\ citem' = buffer[chead]
    /\ buffer' = IF MoveEmpties THEN [buffer EXCEPT ![chead] = 0] ELSE buffer
    /\ cpc' = "store"
    /\ UNCHANGED <<head, producer, chead, last, popped, lapped>>

PopStore ==
    /\ cpc = "store"
    /\ head' = Succ(chead)
    /\ last' = citem
    /\ popped' = popped + 1
    /\ cpc' = "idle"
    /\ UNCHANGED <<buffer, producer, chead, citem, lapped>>

----------------------------------------------------------------------------
Pop == PopLoadHead \/ PopLoadTail \/ PopRead \/ PopStore

(* A producer that uses try_push. *)
TryPush == PushCall \/ TryPushLoad \/ PushWrite \/ PushPublish

TryNext == TryPush \/ Pop

TrySpec == Init /\ [][TryNext]_vars

(* A producer that uses drop_oldest_push, as RxStage and RawBlockAdapter. *)
DropPush == \/ PushCall \/ DropPushLoad \/ DropCasOk \/ DropCasFail
            \/ PushWrite \/ PushPublish

DropNext == DropPush \/ Pop

DropSpec == Init /\ [][DropNext]_vars

----------------------------------------------------------------------------
(* Every variable has its type. *)
TypeOK ==
    /\ head \in Index /\ tail \in Index /\ phead \in Index /\ chead \in Index
    /\ buffer \in [Index -> Item]
    /\ drop_count \in Nat
    /\ pushed \in Item /\ citem \in Item /\ last \in Item /\ popped \in Nat
    /\ ppc \in {"idle", "load", "cas", "write", "publish"}
    /\ cpc \in {"idle", "check", "read", "store"}
    /\ lapped \in 0..2

(***************************************************************************)
(* With try_push the queue is FIFO and loses nothing: the n-th item that   *)
(* try_pop returns is the n-th item pushed.                                *)
(***************************************************************************)
Fifo == last = popped

(***************************************************************************)
(* The slot the producer writes is never the slot the consumer reads: the  *)
(* unsynchronised accesses buffer_[tail] = item and move(buffer_[head])    *)
(* do not race.                                                            *)
(***************************************************************************)
NoSlotRace == ppc = "write" /\ cpc = "read" => tail # chead

(***************************************************************************)
(* Every push that returned is accounted for: no item leaves the queue     *)
(* except through try_pop or counted as dropped (spsc_queue.h, line 5:     *)
(* the oldest data is overwritten and counted).  Stated between calls.     *)
(***************************************************************************)
LossCounted ==
    ppc = "idle" /\ cpc = "idle" =>
        pushed <= popped + drop_count + size(head, tail)

(***************************************************************************)
(* How far drop_oldest_push can be trusted: as long as no call of try_pop  *)
(* was overlapped by two drops, the slots do not race and every loss is    *)
(* counted.                                                                *)
(***************************************************************************)
SafeUntilLapped == lapped < 2 => NoSlotRace /\ LossCounted

(* ... and the values consumed are strictly increasing. *)
InOrderUntilLapped ==
    [][popped' # popped /\ lapped < 2 => last' > last]_vars

(***************************************************************************)
(* The queue the two threads share, as one atomic sequence: an item is in  *)
(* it from the store of tail_ to the store of head_.                       *)
(***************************************************************************)
Contents ==
    [k \in 1..size(head, tail) |->
        IF k = 1 /\ cpc = "store" THEN citem ELSE buffer[At(head, k - 1)]]

Fifo0 == INSTANCE BoundedQueue WITH
    Room <- Cap - 1, q <- Contents, in <- pushed, got <- last

(* With try_push the ring is a bounded queue with atomic put and get. *)
ImplementsQueue == Fifo0!QSpec
=============================================================================
