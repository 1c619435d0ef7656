---------------------------- MODULE QueueProofs -----------------------------
(***************************************************************************)
(* What hands packets and blocks from thread to thread: the queue of       *)
(* RawBlocks, the packet pool and SPSCQueue, for all their sizes.          *)
(***************************************************************************)
EXTENDS SPSCQueue, PacketPool, RawPath, TLAPS

----------------------------------------------------------------------------
(***************************************************************************)
(* Path B, for every capacity of the RawBlock queue and any number of      *)
(* frames, with both producers and the consumer interleaved at will: what  *)
(* the consumer counts as complete is whole, and no block is taken twice.  *)
(***************************************************************************)
RawIndex == 0..(RawCapacity - 1)
RawBlocks == [seq : Nat, kind : FrameKinds, flagged : BOOLEAN]

RawShape ==
    /\ rawHead \in RawIndex /\ rawTail \in RawIndex /\ rawFrom \in RawIndex
    /\ rawAt \in [RawProducers -> RawIndex]
    /\ rawSlots \in [RawIndex -> RawBlocks]
    /\ rawBlock \in [RawProducers -> RawBlocks]
    /\ rawItem \in RawBlocks
    /\ rawMade \in Nat
    /\ rawStats \in [total : Nat, complete : Nat, incomplete : Nat, last : Nat]
    /\ rawStage = "init" => worker = "none"

(* A block, or no block, in a slot or in the hands of a thread: it is      *)
(* flagged if it must be, was made, and was not taken yet.                 *)
Sound(b, made, taken) ==
    /\ b.seq = 0 => b = NoBlock
    /\ b.flagged \/ b.kind = "whole"
    /\ b.seq \in 0..made
    /\ b.seq \notin taken

RawSound ==
    /\ \A i \in RawIndex : Sound(rawSlots[i], rawMade, rawTaken)
    /\ \A p \in RawProducers : Sound(rawBlock[p], rawMade, rawTaken)
    /\ Sound(rawItem, rawMade, rawTaken)
    /\ rawTaken \subseteq 1..rawMade

(* Each block is in one place only.  The exception is the block the        *)
(* consumer is moving out: until the slot is cleared it is there too.      *)
RawApart ==
    /\ \A i, j \in RawIndex :
          rawSlots[i].seq = rawSlots[j].seq => rawSlots[i].seq = 0 \/ i = j
    /\ \A p \in RawProducers, i \in RawIndex :
          rawBlock[p].seq = rawSlots[i].seq => rawBlock[p].seq = 0
    /\ \A p, q \in RawProducers :
          rawBlock[p].seq = rawBlock[q].seq => rawBlock[p].seq = 0 \/ p = q
    /\ \A p \in RawProducers : rawBlock[p].seq = rawItem.seq => rawItem.seq = 0
    /\ \A i \in RawIndex : rawSlots[i].seq = rawItem.seq =>
          rawItem.seq = 0 \/ (worker = "clear" /\ i = rawFrom)

RawCounted ==
    /\ ~rawTwice /\ ~rawTorn
    /\ rawStats.total = rawStats.complete + rawStats.incomplete

RawIInv == RawShape /\ RawSound /\ RawApart /\ RawCounted

(* The index after an index is an index. *)
LEMMA RawSuccIsIndex ==
    ASSUME NEW i \in RawIndex PROVE RawSucc(i) \in RawIndex
BY RawAssumption DEF RawIndex, RawSucc

(* No block is sound as long as only blocks that were made are taken. *)
LEMMA NoBlockIsSound ==
    ASSUME NEW made \in Nat, NEW taken, taken \subseteq 1..made
    PROVE  Sound(NoBlock, made, taken) /\ NoBlock \in RawBlocks /\ NoBlock.seq = 0
<1>1. NoBlock.seq = 0 /\ NoBlock.kind = "whole" /\ ~NoBlock.flagged
  BY DEF NoBlock
<1>2. NoBlock \in RawBlocks
  BY DEF NoBlock, RawBlocks, FrameKinds
<1>3. 0 \in 0..made /\ 0 \notin taken
  BY SMT
<1> QED BY Zenon, <1>1, <1>2, <1>3 DEF Sound

(* The queue is empty, and nobody has a block, at the start. *)
LEMMA RawStarts == RawInit => RawIInv
<1> SUFFICES ASSUME RawInit PROVE RawIInv
  BY Zenon
<1>1. 0 \in Nat /\ 0 \in RawIndex /\ {} \subseteq 1..0
  BY RawAssumption DEF RawIndex
<1>2. Sound(NoBlock, 0, {}) /\ NoBlock \in RawBlocks /\ NoBlock.seq = 0
  BY Zenon, <1>1, NoBlockIsSound
<1>3. /\ \A i \in RawIndex : rawSlots[i] = NoBlock
      /\ \A p \in RawProducers : rawBlock[p] = NoBlock
      /\ rawItem = NoBlock /\ rawTaken = {} /\ rawMade = 0
  BY Zenon DEF RawInit, RawIndex
<1>4. /\ rawStats \in [total : Nat, complete : Nat, incomplete : Nat, last : Nat]
      /\ rawStats.total = rawStats.complete + rawStats.incomplete
  BY DEF RawInit
<1>5. RawShape
  BY Zenon, <1>1, <1>2, <1>4 DEF RawInit, RawShape, RawIndex
<1>6. RawSound
  BY Zenon, <1>1, <1>2, <1>3 DEF RawSound
<1>7. RawApart
  BY Zenon, <1>2, <1>3 DEF RawApart
<1> QED
  BY Zenon, <1>4, <1>5, <1>6, <1>7 DEF RawIInv, RawCounted, RawInit

(* Steps that move no block keep what is known of the blocks. *)
LEMMA RawElsewhere ==
    ASSUME RawSound, RawApart, RawCounted,
           UNCHANGED <<rawSlots, rawBlock, rawItem, rawMade, rawResults>>,
           worker = "clear" => UNCHANGED <<worker, rawFrom>>
    PROVE  RawSound' /\ RawApart' /\ RawCounted'
<1>1. RawSound' /\ RawCounted'
  BY Zenon DEF RawSound, RawCounted, rawResults
<1>2. \A i \in RawIndex : rawSlots[i].seq = rawItem.seq =>
          rawItem.seq = 0 \/ (worker' = "clear" /\ i = rawFrom')
  BY Zenon DEF RawApart
<1> QED
  BY Zenon, <1>1, <1>2 DEF RawApart

(* adapt_and_push makes a block with a number of its own. *)
LEMMA RawCallKeeps ==
    ASSUME RawIInv, NEW p \in RawProducers, RawCall(p) PROVE RawIInv'
<1> DEFINE n == rawMade + 1
<1>1. PICK k \in FrameKinds : rawBlock' = [rawBlock EXCEPT ![p] = adapt(n, k)]
  BY Zenon DEF RawCall
<1> DEFINE b == adapt(n, k)
<1>2. /\ rawMade \in Nat /\ rawMade' = n
      /\ UNCHANGED <<rawHead, rawTail, rawSlots, rawFrom, rawAt, rawItem, rawStage, worker>>
      /\ UNCHANGED <<rawStats, rawTaken, rawTwice, rawTorn>>
  BY Zenon DEF RawIInv, RawShape, RawCall, rawQueue, rawPopVars, rawResults
<1>3. n \in Nat /\ n # 0 /\ n \in 0..n /\ n \notin 0..rawMade
  BY <1>2
<1>4. b.seq = n /\ (b.flagged \/ b.kind = "whole") /\ b \in RawBlocks
  <2>1. n \in Nat
    BY <1>3
  <2> HIDE DEF n
  <2>2. b.seq = n /\ b.flagged = (k # "whole") /\ b.kind = k
    BY DEF adapt
  <2>3. b \in RawBlocks
    BY Zenon, <2>1 DEF adapt, RawBlocks
  <2> QED BY Zenon, <2>2, <2>3
<1>5. rawTaken \subseteq 1..rawMade /\ rawTaken \subseteq 1..n /\ n \notin rawTaken
  <2>1. rawTaken \subseteq 1..rawMade
    BY Zenon DEF RawIInv, RawSound
  <2> QED BY <2>1, <1>2
<1>6. Sound(b, n, rawTaken)
  BY Zenon, <1>3, <1>4, <1>5 DEF Sound
<1>7. ASSUME NEW c, Sound(c, rawMade, rawTaken)
      PROVE  Sound(c, n, rawTaken) /\ c.seq # n
  <2>1. c.seq \in 0..n /\ c.seq # n
    BY <1>2, <1>7 DEF Sound
  <2> QED BY Zenon, <2>1, <1>7 DEF Sound
<1>8. /\ rawBlock'[p] = b
      /\ \A q \in RawProducers : q # p => rawBlock'[q] = rawBlock[q]
      /\ rawBlock' \in [RawProducers -> RawBlocks]
  BY Zenon, <1>1, <1>4 DEF RawIInv, RawShape
<1>9. RawShape'
  BY Zenon, <1>2, <1>3, <1>8 DEF RawIInv, RawShape
<1>10. /\ \A i \in RawIndex : Sound(rawSlots[i], rawMade, rawTaken)
       /\ \A q \in RawProducers : Sound(rawBlock[q], rawMade, rawTaken)
       /\ Sound(rawItem, rawMade, rawTaken)
  BY Zenon DEF RawIInv, RawSound
<1> HIDE DEF n, b
<1>11. RawSound'
  BY Zenon, <1>2, <1>5, <1>6, <1>7, <1>8, <1>10 DEF RawSound
<1>12. /\ \A i \in RawIndex : rawSlots[i].seq # n
       /\ \A q \in RawProducers : rawBlock[q].seq # n
       /\ rawItem.seq # n
  BY Zenon, <1>7, <1>10
<1>13. RawApart'
  <2>0. /\ \A q \in RawProducers : \A i \in RawIndex :
              rawBlock[q].seq = rawSlots[i].seq => rawBlock[q].seq = 0
        /\ \A q, r \in RawProducers :
              rawBlock[q].seq = rawBlock[r].seq => rawBlock[q].seq = 0 \/ q = r
    BY Zenon DEF RawIInv, RawApart
  <2>1. ASSUME NEW q \in RawProducers, NEW i \in RawIndex,
               rawBlock'[q].seq = rawSlots[i].seq
        PROVE  rawBlock'[q].seq = 0
    <3>1. CASE q = p
      BY Zenon, <1>4, <1>8, <1>12, <2>1, <3>1
    <3>2. CASE q # p
      BY Zenon, <1>8, <2>0, <2>1, <3>2
    <3> QED BY Zenon, <3>1, <3>2
  <2>2. \A q \in RawProducers : rawBlock'[q].seq = rawItem.seq => rawItem.seq = 0
    BY Zenon, <1>4, <1>8, <1>12 DEF RawIInv, RawApart
  <2>3. ASSUME NEW q \in RawProducers, NEW r \in RawProducers, q # r,
               rawBlock'[q].seq = rawBlock'[r].seq
        PROVE  rawBlock'[q].seq = 0
    <3>1. CASE q = p
      BY Zenon, <1>4, <1>8, <1>12, <2>3, <3>1
    <3>2. CASE r = p
      BY Zenon, <1>4, <1>8, <1>12, <2>3, <3>2
    <3>3. CASE q # p /\ r # p
      BY Zenon, <1>8, <2>0, <2>3, <3>3
    <3> QED BY Zenon, <3>1, <3>2, <3>3
  <2> QED BY Zenon, <1>2, <2>1, <2>2, <2>3 DEF RawIInv, RawApart
<1> QED
  BY Zenon, <1>2, <1>9, <1>11, <1>13 DEF RawIInv, RawCounted

(* A producer puts its block in the slot, over whatever is there. *)
LEMMA RawWriteKeeps ==
    ASSUME RawIInv, NEW p \in RawProducers, RawWrite(p) PROVE RawIInv'
<1> DEFINE at == rawAt[p]
<1>1. /\ rawSlots' = [rawSlots EXCEPT ![at] = rawBlock[p]]
      /\ rawBlock' = [rawBlock EXCEPT ![p] = NoBlock]
      /\ UNCHANGED <<rawHead, rawTail, rawFrom, rawAt, rawItem, rawMade, rawStage, worker>>
      /\ UNCHANGED <<rawStats, rawTaken, rawTwice, rawTorn>>
  BY Zenon DEF RawWrite, rawPopVars, rawResults
<1>2. at \in RawIndex /\ rawBlock[p] \in RawBlocks
  BY Zenon DEF RawIInv, RawShape
<1>3. Sound(NoBlock, rawMade, rawTaken) /\ NoBlock \in RawBlocks /\ NoBlock.seq = 0
  BY Zenon, NoBlockIsSound DEF RawIInv, RawShape, RawSound
<1>4. /\ rawSlots' \in [RawIndex -> RawBlocks] /\ rawSlots'[at] = rawBlock[p]
      /\ \A i \in RawIndex : i # at => rawSlots'[i] = rawSlots[i]
  BY Zenon, <1>1, <1>2 DEF RawIInv, RawShape
<1>5. /\ rawBlock' \in [RawProducers -> RawBlocks] /\ rawBlock'[p] = NoBlock
      /\ \A q \in RawProducers : q # p => rawBlock'[q] = rawBlock[q]
  BY Zenon, <1>1, <1>3 DEF RawIInv, RawShape
<1> HIDE DEF at
<1>6. RawShape'
  BY Zenon, <1>1, <1>4, <1>5 DEF RawIInv, RawShape
<1>7. RawSound'
  <2>1. \A i \in RawIndex : Sound(rawSlots'[i], rawMade, rawTaken)
    BY Zenon, <1>4 DEF RawIInv, RawSound
  <2>2. \A q \in RawProducers : Sound(rawBlock'[q], rawMade, rawTaken)
    BY Zenon, <1>3, <1>5 DEF RawIInv, RawSound
  <2> QED BY Zenon, <1>1, <2>1, <2>2 DEF RawIInv, RawSound
<1>8. RawApart'
  <2>0. /\ \A i \in RawIndex : rawBlock[p].seq = rawSlots[i].seq => rawBlock[p].seq = 0
        /\ \A q \in RawProducers :
              rawBlock[p].seq = rawBlock[q].seq => rawBlock[p].seq = 0 \/ p = q
        /\ \A q \in RawProducers : \A i \in RawIndex :
              rawBlock[q].seq = rawSlots[i].seq => rawBlock[q].seq = 0
    BY Zenon DEF RawIInv, RawApart
  <2>1. ASSUME NEW i \in RawIndex, NEW j \in RawIndex, i # j,
               rawSlots'[i].seq = rawSlots'[j].seq
        PROVE  rawSlots'[i].seq = 0
    <3>1. CASE i = at
      BY Zenon, <1>4, <2>0, <2>1, <3>1
    <3>2. CASE j = at
      BY Zenon, <1>4, <2>0, <2>1, <3>2
    <3>3. CASE i # at /\ j # at
      <4>1. rawSlots'[i] = rawSlots[i] /\ rawSlots'[j] = rawSlots[j]
        BY Zenon, <1>4, <3>3
      <4>2. rawSlots[i].seq = rawSlots[j].seq => rawSlots[i].seq = 0 \/ i = j
        BY Zenon DEF RawIInv, RawApart
      <4> QED BY Zenon, <2>1, <4>1, <4>2
    <3> QED BY Zenon, <3>1, <3>2, <3>3
  <2>2. ASSUME NEW q \in RawProducers, NEW i \in RawIndex,
               rawBlock'[q].seq = rawSlots'[i].seq
        PROVE  rawBlock'[q].seq = 0
    <3>1. CASE q = p
      BY Zenon, <1>3, <1>5, <3>1
    <3>2. CASE q # p /\ i = at
      BY Zenon, <1>4, <1>5, <2>0, <2>2, <3>2
    <3>3. CASE q # p /\ i # at
      BY Zenon, <1>4, <1>5, <2>0, <2>2, <3>3
    <3> QED BY Zenon, <3>1, <3>2, <3>3
  <2>3. ASSUME NEW q \in RawProducers, NEW r \in RawProducers, q # r,
               rawBlock'[q].seq = rawBlock'[r].seq
        PROVE  rawBlock'[q].seq = 0
    <3>1. CASE q = p
      BY Zenon, <1>3, <1>5, <3>1
    <3>2. CASE r = p
      BY Zenon, <1>3, <1>5, <2>3, <3>2
    <3>3. CASE q # p /\ r # p
      <4>1. rawBlock'[q] = rawBlock[q] /\ rawBlock'[r] = rawBlock[r]
        BY Zenon, <1>5, <3>3
      <4>2. rawBlock[q].seq = rawBlock[r].seq => rawBlock[q].seq = 0 \/ q = r
        BY Zenon DEF RawIInv, RawApart
      <4> QED BY Zenon, <2>3, <4>1, <4>2
    <3> QED BY Zenon, <3>1, <3>2, <3>3
  <2>4. \A q \in RawProducers : rawBlock'[q].seq = rawItem.seq => rawItem.seq = 0
    BY Zenon, <1>3, <1>5 DEF RawIInv, RawApart
  <2>5. \A i \in RawIndex : rawSlots'[i].seq = rawItem.seq =>
            rawItem.seq = 0 \/ (worker = "clear" /\ i = rawFrom)
    BY Zenon, <1>4 DEF RawIInv, RawApart
  <2> QED BY Zenon, <1>1, <2>1, <2>2, <2>3, <2>4, <2>5 DEF RawApart
<1> QED
  BY Zenon, <1>1, <1>6, <1>7, <1>8 DEF RawIInv, RawCounted

(* try_pop moves a block out of its slot, in two steps. *)
LEMMA ConsumerMoveKeeps ==
    ASSUME RawIInv, ConsumerMove PROVE RawIInv'
<1>1. /\ UNCHANGED <<rawHead, rawTail, rawFrom, rawAt, rawBlock, rawMade, rawStage>>
      /\ UNCHANGED <<rawStats, rawTaken, rawTwice, rawTorn>>
  BY Zenon DEF ConsumerMove, rawPushVars, rawResults
<1>2. rawFrom \in RawIndex
  BY Zenon DEF RawIInv, RawShape
<1>3. CASE worker = "move" /\ worker' = "clear" /\ rawItem' = rawSlots[rawFrom]
           /\ rawSlots' = rawSlots
  <2>1. RawShape'
    BY Zenon, <1>1, <1>2, <1>3 DEF RawIInv, RawShape
  <2>2. RawSound'
    BY Zenon, <1>1, <1>2, <1>3 DEF RawIInv, RawSound
  <2>3. \A p \in RawProducers :
            rawBlock[p].seq = rawItem'.seq => rawItem'.seq = 0
    BY Zenon, <1>2, <1>3 DEF RawIInv, RawApart
  <2>4. \A i \in RawIndex : rawSlots[i].seq = rawItem'.seq =>
            rawItem'.seq = 0 \/ (worker' = "clear" /\ i = rawFrom)
    BY Zenon, <1>2, <1>3 DEF RawIInv, RawApart
  <2>5. RawApart'
    BY Zenon, <1>1, <1>3, <2>3, <2>4 DEF RawIInv, RawApart
  <2> QED
    BY Zenon, <1>1, <2>1, <2>2, <2>5 DEF RawIInv, RawCounted
<1>4. CASE worker = "clear" /\ worker' = "store" /\ rawItem' = rawItem
           /\ rawSlots' = [rawSlots EXCEPT ![rawFrom] = NoBlock]
  <2>1. Sound(NoBlock, rawMade, rawTaken) /\ NoBlock \in RawBlocks /\ NoBlock.seq = 0
    BY Zenon, NoBlockIsSound DEF RawIInv, RawShape, RawSound
  <2>2. /\ rawSlots' \in [RawIndex -> RawBlocks] /\ rawSlots'[rawFrom] = NoBlock
        /\ \A i \in RawIndex : i # rawFrom => rawSlots'[i] = rawSlots[i]
    BY Zenon, <1>2, <1>4, <2>1 DEF RawIInv, RawShape
  <2>3. RawShape'
    BY Zenon, <1>1, <1>4, <2>2 DEF RawIInv, RawShape
  <2>4. \A i \in RawIndex : Sound(rawSlots'[i], rawMade, rawTaken)
    BY Zenon, <2>1, <2>2 DEF RawIInv, RawSound
  <2>5. RawSound'
    BY Zenon, <1>1, <1>4, <2>4 DEF RawIInv, RawSound
  <2>6. ASSUME NEW i \in RawIndex, NEW j \in RawIndex, i # j,
               rawSlots'[i].seq = rawSlots'[j].seq
        PROVE  rawSlots'[i].seq = 0
    <3>1. CASE i = rawFrom \/ j = rawFrom
      BY Zenon, <2>1, <2>2, <2>6, <3>1
    <3>2. CASE i # rawFrom /\ j # rawFrom
      <4>1. rawSlots'[i] = rawSlots[i] /\ rawSlots'[j] = rawSlots[j]
        BY Zenon, <2>2, <3>2
      <4>2. rawSlots[i].seq = rawSlots[j].seq => rawSlots[i].seq = 0 \/ i = j
        BY Zenon DEF RawIInv, RawApart
      <4> QED BY Zenon, <2>6, <4>1, <4>2
    <3> QED BY Zenon, <3>1, <3>2
  <2>7. \A q \in RawProducers, i \in RawIndex :
            rawBlock[q].seq = rawSlots'[i].seq => rawBlock[q].seq = 0
    BY Zenon, <2>1, <2>2 DEF RawIInv, RawApart
  <2>8. \A i \in RawIndex : rawSlots'[i].seq = rawItem.seq => rawItem.seq = 0
    BY Zenon, <1>4, <2>1, <2>2 DEF RawIInv, RawApart
  <2>9. RawApart'
    BY Zenon, <1>1, <1>4, <2>6, <2>7, <2>8 DEF RawIInv, RawApart
  <2> QED
    BY Zenon, <1>1, <2>3, <2>5, <2>9 DEF RawIInv, RawCounted
<1> QED
  BY Zenon, <1>3, <1>4 DEF ConsumerMove

(* The consumer takes the block it moved out: its number was not seen.     *)
LEMMA ConsumerStoreKeeps ==
    ASSUME RawIInv, ConsumerStore PROVE RawIInv'
<1>1. /\ worker = "store" /\ worker' = "loop" /\ rawFrom' = 0 /\ rawItem' = NoBlock
      /\ rawHead' = RawSucc(rawFrom) /\ process_block(rawItem)
      /\ UNCHANGED <<rawTail, rawSlots, rawAt, rawBlock, rawMade, rawStage>>
  BY Zenon DEF ConsumerStore, rawPushVars
<1>2. 0 \in RawIndex /\ RawSucc(rawFrom) \in RawIndex /\ rawMade \in Nat
  BY RawAssumption, RawSuccIsIndex DEF RawIInv, RawShape, RawIndex
<1>3. NoBlock \in RawBlocks /\ NoBlock.seq = 0
  BY Zenon, NoBlockIsSound DEF RawIInv, RawShape, RawSound
<1>4. rawStats' \in [total : Nat, complete : Nat, incomplete : Nat, last : Nat]
      /\ rawStats'.total = rawStats'.complete + rawStats'.incomplete
  <2>1. CASE rawItem = NoBlock
    BY Zenon, <1>1, <2>1 DEF process_block, rawResults, RawIInv, RawShape, RawCounted
  <2>2. CASE rawItem # NoBlock
    <3>1. rawStats' = [total |-> rawStats.total + 1,
                       complete |-> rawStats.complete + IF rawItem.flagged THEN 0 ELSE 1,
                       incomplete |-> rawStats.incomplete + IF rawItem.flagged THEN 1 ELSE 0,
                       last |-> rawItem.seq]
      BY Zenon, <1>1, <2>2 DEF process_block
    <3>2. /\ rawItem.seq \in Nat /\ rawStats.total \in Nat
          /\ rawStats.complete \in Nat /\ rawStats.incomplete \in Nat
          /\ rawStats.total = rawStats.complete + rawStats.incomplete
      BY DEF RawIInv, RawShape, RawCounted, RawBlocks
    <3> QED BY <3>1, <3>2
  <2> QED BY Zenon, <2>1, <2>2
<1>5. RawShape'
  BY Zenon, <1>1, <1>2, <1>3, <1>4 DEF RawIInv, RawShape
<1>6. /\ \A i \in RawIndex : rawSlots[i].seq = rawItem.seq => rawItem.seq = 0
      /\ \A p \in RawProducers : rawBlock[p].seq = rawItem.seq => rawItem.seq = 0
  BY Zenon, <1>1 DEF RawIInv, RawApart
<1>7. /\ \A i \in RawIndex : Sound(rawSlots[i], rawMade, rawTaken)
      /\ \A p \in RawProducers : Sound(rawBlock[p], rawMade, rawTaken)
      /\ Sound(rawItem, rawMade, rawTaken) /\ rawTaken \subseteq 1..rawMade
  BY Zenon DEF RawIInv, RawSound
<1>8. RawSound' /\ ~rawTwice' /\ ~rawTorn'
  <2>1. CASE rawItem = NoBlock
    <3>1. UNCHANGED <<rawTaken, rawTwice, rawTorn>>
      BY Zenon, <1>1, <2>1 DEF process_block, rawResults
    <3> QED
      BY Zenon, <1>1, <1>7, <2>1, <3>1 DEF RawSound, RawIInv, RawCounted
  <2>2. CASE rawItem # NoBlock
    <3> DEFINE n == rawItem.seq
    <3>1. n # 0 /\ n \in 0..rawMade /\ n \notin rawTaken /\ (rawItem.flagged \/ rawItem.kind = "whole")
      BY Zenon, <1>7, <2>2 DEF Sound
    <3>2. /\ rawTwice' = (rawTwice \/ n \in rawTaken)
          /\ rawTaken' = rawTaken \cup {n}
          /\ rawTorn' = (rawTorn \/ (~rawItem.flagged /\ rawItem.kind # "whole"))
      BY Zenon, <1>1, <2>2 DEF process_block
    <3>3. ~rawTwice' /\ ~rawTorn'
      BY Zenon, <3>1, <3>2 DEF RawIInv, RawCounted
    <3>4. rawTaken' \subseteq 1..rawMade
      <4>1. n \in 1..rawMade
        BY <1>2, <3>1
      <4> QED BY Zenon, <1>7, <3>2, <4>1
    <3>5. Sound(NoBlock, rawMade, rawTaken')
      BY Zenon, <1>2, <3>4, NoBlockIsSound
    <3>6. ASSUME NEW c, Sound(c, rawMade, rawTaken), c.seq # n
          PROVE  Sound(c, rawMade, rawTaken')
      BY Zenon, <3>2, <3>6 DEF Sound
    <3>7. /\ \A i \in RawIndex : rawSlots[i].seq # n
          /\ \A p \in RawProducers : rawBlock[p].seq # n
      BY Zenon, <1>6, <3>1
    <3> HIDE DEF n
    <3> QED
      BY Zenon, <1>1, <1>7, <3>3, <3>4, <3>5, <3>6, <3>7 DEF RawSound
  <2> QED BY Zenon, <2>1, <2>2
<1>9. RawApart'
  BY Zenon, <1>1, <1>3 DEF RawIInv, RawApart
<1> QED
  BY Zenon, <1>4, <1>5, <1>8, <1>9 DEF RawIInv, RawCounted

(* Every step of the producers and the consumer preserves the invariant. *)
LEMMA RawStepKeeps == RawIInv /\ [RawNext]_rawVars => RawIInv'
<1> SUFFICES ASSUME RawIInv, [RawNext]_rawVars PROVE RawIInv'
  BY Zenon
<1> USE DEF rawQueue, rawPushVars, rawPopVars
<1>1. ASSUME RawShape', UNCHANGED <<rawSlots, rawBlock, rawItem, rawMade, rawResults>>,
             worker = "clear" => UNCHANGED <<worker, rawFrom>>
      PROVE  RawIInv'
  BY Zenon, <1>1, RawElsewhere DEF RawIInv
<1>2. ASSUME NEW p \in RawProducers, RawPush(p) PROVE RawIInv'
  <2>1. CASE RawLoadTail(p)
    <3>1. RawShape'
      BY Zenon, <2>1 DEF RawLoadTail, RawIInv, RawShape, rawResults
    <3> QED BY Zenon, <1>1, <2>1, <3>1 DEF RawLoadTail
  <2>2. CASE RawLoadHead(p)
    <3>1. RawShape'
      BY Zenon, <2>2 DEF RawLoadHead, RawIInv, RawShape, rawResults
    <3> QED BY Zenon, <1>1, <2>2, <3>1 DEF RawLoadHead
  <2>3. CASE RawDrop(p)
    <3>1. rawHead' \in RawIndex
      BY Zenon, <2>3, RawSuccIsIndex DEF RawDrop, RawIInv, RawShape
    <3>2. RawShape'
      BY Zenon, <2>3, <3>1 DEF RawDrop, RawIInv, RawShape, rawResults
    <3> QED BY Zenon, <1>1, <2>3, <3>2 DEF RawDrop
  <2>4. CASE RawPublish(p)
    <3>1. rawTail' \in RawIndex /\ 0 \in RawIndex
      BY <2>4, RawSuccIsIndex, RawAssumption DEF RawPublish, RawIInv, RawShape, RawIndex
    <3>2. RawShape'
      BY Zenon, <2>4, <3>1 DEF RawPublish, RawIInv, RawShape, rawResults
    <3> QED BY Zenon, <1>1, <2>4, <3>2 DEF RawPublish
  <2> QED
    BY Zenon, <1>2, <2>1, <2>2, <2>3, <2>4, RawCallKeeps, RawWriteKeeps DEF RawPush
<1>3. CASE RawPop
  <2>1. CASE ConsumerLoop \/ ConsumerLoadTail
    <3>1. RawShape'
      BY Zenon, <2>1 DEF ConsumerLoop, ConsumerLoadTail, RawIInv, RawShape, rawResults
    <3> QED BY Zenon, <1>1, <2>1, <3>1 DEF ConsumerLoop, ConsumerLoadTail
  <2>2. CASE ConsumerLoadHead
    <3>1. RawShape'
      BY Zenon, <2>2 DEF ConsumerLoadHead, RawIInv, RawShape, rawResults
    <3> QED BY Zenon, <1>1, <2>2, <3>1 DEF ConsumerLoadHead
  <2> QED
    BY Zenon, <1>3, <2>1, <2>2, ConsumerMoveKeeps, ConsumerStoreKeeps DEF RawPop
<1>4. CASE ConsumerStart \/ ConsumerStop \/ ProcessingJoined
  <2>1. RawShape'
    BY Zenon, <1>4 DEF ConsumerStart, ConsumerStop, ProcessingJoined, RawIInv, RawShape, rawResults
  <2>2. worker = "clear" => UNCHANGED <<worker, rawFrom>>
    BY Zenon, <1>4 DEF ConsumerStart, ConsumerStop, ProcessingJoined, RawIInv, RawShape
  <2> QED
    BY Zenon, <1>1, <1>4, <2>1, <2>2 DEF ConsumerStart, ConsumerStop, ProcessingJoined
<1>5. CASE UNCHANGED rawVars
  <2>1. RawShape'
    BY Zenon, <1>5 DEF rawVars, RawIInv, RawShape, rawResults
  <2> QED BY Zenon, <1>1, <1>5, <2>1 DEF rawVars
<1> QED
  BY Zenon, <1>2, <1>3, <1>4, <1>5 DEF RawNext

(* The invariant of the raw block path. *)
LEMMA RawInvariant == RawSpec => []RawIInv
BY RawStarts, RawStepKeeps, PTL DEF RawSpec

(***************************************************************************)
(* With two producers and a consumer that store head_ and tail_ over each  *)
(* other, no block is given to process_block twice: a move leaves nothing  *)
(* behind in the slot (spsc_queue.h, try_pop and drop_oldest_push).        *)
(***************************************************************************)
THEOREM NoBlockTakenTwice == RawSpec => []TakenOnce
<1>1. RawIInv => TakenOnce
  BY Zenon DEF RawIInv, RawCounted, TakenOnce
<1> QED
  BY <1>1, RawInvariant, PTL

(***************************************************************************)
(* Every block counted as complete is a whole frame                        *)
(* (rawblock_adapter.cpp, stub_consumer.cpp).                              *)
(***************************************************************************)
THEOREM CompleteBlocksAreWhole == RawSpec => []CompleteIsWhole
<1>1. RawIInv => CompleteIsWhole
  BY Zenon DEF RawIInv, RawCounted, CompleteIsWhole
<1> QED
  BY <1>1, RawInvariant, PTL

----------------------------------------------------------------------------
(***************************************************************************)
(* PacketPool, for every size and every set of freeing threads: the list   *)
(* of free buffers is exact and no buffer has two owners.                  *)
(***************************************************************************)
(* Who can be where. *)
Roles ==
    \A t \in Threads :
        /\ pc[t] \in {"next", "cas", "took", "fallback"} => t \in Allocators
        /\ pc[t] \in {"link", "push", "gave"} => t \in Freers

(***************************************************************************)
(* What a thread knows between two accesses.  The head an allocator loaded *)
(* stays on the list and keeps its successor, because nobody else takes    *)
(* buffers from it; a node to be pushed is linked to the head loaded.      *)
(***************************************************************************)
Knows ==
    \A t \in Threads :
        /\ pc[t] = "next" => lhead[t] \in free
        /\ pc[t] = "cas" => lhead[t] \in free /\ next[lhead[t]] = lnext[t]
        /\ pc[t] = "took" => lhead[t] \in Buffers
        /\ pc[t] \in {"link", "push"} => lbuf[t] \in Buffers
        /\ pc[t] = "push" => next[lbuf[t]] = lhead[t]

(* The inductive invariant. *)
PoolIInv == PoolTypeOK /\ ListExact /\ NoBufferTwice /\ Roles /\ Knows

(* The constructor chains all buffers, or none. *)
LEMMA PoolStartsExact == PoolInit => PoolIInv
<1> SUFFICES ASSUME PoolInit PROVE PoolIInv
  BY Zenon
<1> USE PoolAssumption
<1>1. available \in 0..(Width - 1)
  BY DEF PoolInit
<1>2. PoolTypeOK
  BY <1>1 DEF PoolInit, PoolTypeOK, Buffers, Threads
<1>3. ListExact
  <2>1. /\ free \in {Buffers, {}} /\ free_head = IF free = {} THEN 0 ELSE 1
        /\ next = [b \in Buffers |-> IF b < PoolSize THEN b + 1 ELSE 0]
    BY Zenon DEF PoolInit
  <2>2. CASE free = {}
    BY Zenon, <2>1, <2>2 DEF ListExact
  <2>3. CASE free = Buffers /\ free # {}
    <3>1. /\ 1 \in Buffers /\ free_head = 1 /\ PoolSize \in Nat
          /\ \A b \in Buffers : next[b] = IF b < PoolSize THEN b + 1 ELSE 0
      BY <2>1, <2>3 DEF Buffers
    <3>2. \A b \in Buffers : next[b] \in Buffers \cup {0} /\ next[b] # 1
      BY <3>1 DEF Buffers
    <3>3. \A b, c \in Buffers : next[b] = next[c] => b = c
      BY <3>1 DEF Buffers
    <3> QED BY Zenon, <2>3, <3>1, <3>2, <3>3 DEF ListExact
  <2> QED BY Zenon, <2>1, <2>2, <2>3
<1>4. NoBufferTwice /\ Roles /\ Knows
  BY Zenon DEF PoolInit, NoBufferTwice, InHand, Roles, Knows, Threads
<1> QED
  BY Zenon, <1>2, <1>3, <1>4 DEF PoolIInv

(***************************************************************************)
(* Every access of a thread preserves the invariant.                       *)
(***************************************************************************)
LEMMA PoolStepStaysExact == PoolIInv /\ [PoolNext]_poolVars => PoolIInv'
<1> SUFFICES ASSUME PoolIInv, [PoolNext]_poolVars PROVE PoolIInv'
  BY Zenon
<1> USE PoolAssumption
<1>1. CASE UNCHANGED poolVars
  BY ZenonT(30), <1>1 DEF poolVars, PoolIInv, PoolTypeOK, ListExact, NoBufferTwice, InHand, Roles, Knows
<1>2. ASSUME NEW t \in Threads, AllocLoad(t) PROVE PoolIInv'
  <2>1. PoolTypeOK'
    BY Zenon, <1>2 DEF AllocLoad, PoolIInv, PoolTypeOK
  <2>2. ListExact'
    BY Zenon, <1>2 DEF AllocLoad, PoolIInv, ListExact
  <2>3. NoBufferTwice'
    <3>1. \A u \in Threads : InHand(u)' = InHand(u)
      BY Zenon, <1>2 DEF AllocLoad, InHand, PoolIInv, PoolTypeOK
    <3> QED BY Zenon, <1>2, <3>1 DEF AllocLoad, PoolIInv, NoBufferTwice
  <2>4. Roles'
    BY Zenon, <1>2 DEF AllocLoad, PoolIInv, Roles, PoolTypeOK
  <2>5. Knows'
    BY <1>2 DEF AllocLoad, PoolIInv, Knows, ListExact, PoolTypeOK
  <2> QED BY Zenon, <2>1, <2>2, <2>3, <2>4, <2>5 DEF PoolIInv
<1>3. ASSUME NEW t \in Threads, AllocNext(t) PROVE PoolIInv'
  <2>1. lhead[t] \in free /\ lhead[t] \in Buffers
    BY Zenon, <1>3 DEF AllocNext, PoolIInv, Knows, PoolTypeOK
  <2>2. PoolTypeOK'
    BY Zenon, <1>3, <2>1 DEF AllocNext, PoolIInv, PoolTypeOK
  <2>3. ListExact'
    BY Zenon, <1>3 DEF AllocNext, PoolIInv, ListExact
  <2>4. NoBufferTwice'
    <3>1. \A u \in Threads : InHand(u)' = InHand(u)
      BY Zenon, <1>3 DEF AllocNext, InHand, PoolIInv, PoolTypeOK
    <3> QED BY Zenon, <1>3, <3>1 DEF AllocNext, PoolIInv, NoBufferTwice
  <2>5. Roles'
    BY Zenon, <1>3 DEF AllocNext, PoolIInv, Roles, PoolTypeOK
  <2>6. Knows'
    BY Zenon, <1>3, <2>1 DEF AllocNext, PoolIInv, Knows, PoolTypeOK
  <2> QED BY Zenon, <2>2, <2>3, <2>4, <2>5, <2>6 DEF PoolIInv
<1>4. ASSUME NEW t \in Threads, AllocCas(t) PROVE PoolIInv'
  <2>1. /\ t \in Allocators /\ lhead[t] \in free /\ lhead[t] \in Buffers
        /\ next[lhead[t]] = lnext[t]
    BY Zenon, <1>4 DEF AllocCas, PoolIInv, Knows, Roles, PoolTypeOK
  <2>2. CASE /\ free_head = lhead[t]
             /\ free_head' = lnext[t]
             /\ free' = free \ {lhead[t]}
             /\ pc' = [pc EXCEPT ![t] = "took"]
             /\ lhead' = lhead
    <3> USE <1>4, <2>1, <2>2 DEF AllocCas
    <3>1. PoolTypeOK'
      BY Zenon DEF PoolIInv, PoolTypeOK
    <3>2. ListExact'
      BY DEF PoolIInv, ListExact, PoolTypeOK, Buffers
    <3>3. NoBufferTwice'
      <4>1. InHand(t)' = {lhead[t]}
        BY Zenon DEF InHand, PoolIInv, PoolTypeOK
      <4>2. \A u \in Threads \ {t} : InHand(u)' = InHand(u)
        BY Zenon DEF InHand, PoolIInv, PoolTypeOK
      <4> QED BY <4>1, <4>2 DEF PoolIInv, NoBufferTwice, PoolTypeOK
    <3>4. Roles'
      BY Zenon DEF PoolIInv, Roles, PoolTypeOK
    <3>5. Knows'
      BY OneAllocator DEF PoolIInv, Knows, Roles, PoolTypeOK
    <3> QED BY Zenon, <3>1, <3>2, <3>3, <3>4, <3>5 DEF PoolIInv
  <2>3. CASE /\ lhead' = [lhead EXCEPT ![t] = free_head]
             /\ pc' = [pc EXCEPT ![t] = IF free_head = 0 THEN "fallback" ELSE "next"]
             /\ UNCHANGED <<free_head, free>>
    <3> USE <1>4, <2>1, <2>3 DEF AllocCas
    <3>1. PoolTypeOK'
      BY Zenon DEF PoolIInv, PoolTypeOK
    <3>2. ListExact'
      BY Zenon DEF PoolIInv, ListExact
    <3>3. NoBufferTwice'
      <4>1. \A u \in Threads : InHand(u)' = InHand(u)
        BY Zenon DEF InHand, PoolIInv, PoolTypeOK
      <4> QED BY Zenon, <4>1 DEF PoolIInv, NoBufferTwice
    <3>4. Roles'
      BY DEF PoolIInv, Roles, PoolTypeOK
    <3>5. Knows'
      BY DEF PoolIInv, Knows, ListExact, PoolTypeOK
    <3> QED BY Zenon, <3>1, <3>2, <3>3, <3>4, <3>5 DEF PoolIInv
  <2> QED BY Zenon, <1>4, <2>2, <2>3 DEF AllocCas
<1>5. ASSUME NEW t \in Threads, AllocCount(t) PROVE PoolIInv'
  <2>1. lhead[t] \in Buffers /\ InHand(t) = {lhead[t]}
    BY Zenon, <1>5 DEF AllocCount, PoolIInv, Knows, InHand
  <2>2. (available + Width - 1) % Width \in 0..(Width - 1)
    BY DEF PoolIInv, PoolTypeOK
  <2>3. PoolTypeOK'
    BY Zenon, <1>5, <2>1, <2>2 DEF AllocCount, PoolIInv, PoolTypeOK
  <2>4. ListExact'
    BY Zenon, <1>5 DEF AllocCount, PoolIInv, ListExact
  <2>5. NoBufferTwice'
    <3>1. InHand(t)' = {}
      BY Zenon, <1>5 DEF AllocCount, InHand, PoolIInv, PoolTypeOK
    <3>2. \A u \in Threads \ {t} : InHand(u)' = InHand(u)
      BY Zenon, <1>5 DEF AllocCount, InHand, PoolIInv, PoolTypeOK
    <3> QED BY ZenonT(30), <1>5, <2>1, <3>1, <3>2 DEF AllocCount, PoolIInv, NoBufferTwice
  <2>6. Roles'
    BY Zenon, <1>5 DEF AllocCount, PoolIInv, Roles, PoolTypeOK
  <2>7. Knows'
    BY Zenon, <1>5 DEF AllocCount, PoolIInv, Knows, PoolTypeOK
  <2> QED BY Zenon, <2>3, <2>4, <2>5, <2>6, <2>7 DEF PoolIInv
<1>6. ASSUME NEW t \in Threads, AllocFallback(t) PROVE PoolIInv'
  <2>1. PoolTypeOK'
    BY <1>6 DEF AllocFallback, PoolIInv, PoolTypeOK
  <2>2. ListExact'
    BY Zenon, <1>6 DEF AllocFallback, PoolIInv, ListExact
  <2>3. NoBufferTwice'
    <3>1. \A u \in Threads : InHand(u)' = InHand(u)
      BY Zenon, <1>6 DEF AllocFallback, InHand, PoolIInv, PoolTypeOK
    <3> QED BY Zenon, <1>6, <3>1 DEF AllocFallback, PoolIInv, NoBufferTwice
  <2>4. Roles'
    BY Zenon, <1>6 DEF AllocFallback, PoolIInv, Roles, PoolTypeOK
  <2>5. Knows'
    BY Zenon, <1>6 DEF AllocFallback, PoolIInv, Knows, PoolTypeOK
  <2> QED BY Zenon, <2>1, <2>2, <2>3, <2>4, <2>5 DEF PoolIInv
<1>7. ASSUME NEW t \in Threads, FreeLoad(t) PROVE PoolIInv'
  <2>1. PICK b \in lent : lent' = lent \ {b} /\ lbuf' = [lbuf EXCEPT ![t] = b]
    BY Zenon, <1>7 DEF FreeLoad
  <2>2. b \in Buffers
    BY Zenon DEF PoolIInv, PoolTypeOK
  <2>3. PoolTypeOK'
    <3>1. b \in 0..PoolSize
      BY <2>2 DEF Buffers
    <3>2. lent' \subseteq Buffers
      BY Zenon, <2>1 DEF PoolIInv, PoolTypeOK
    <3> QED BY Zenon, <1>7, <2>1, <3>1, <3>2 DEF FreeLoad, PoolIInv, PoolTypeOK
  <2>4. ListExact'
    BY Zenon, <1>7 DEF FreeLoad, PoolIInv, ListExact
  <2>5. NoBufferTwice'
    <3>1. InHand(t)' = {b}
      BY Zenon, <1>7, <2>1 DEF FreeLoad, InHand, PoolIInv, PoolTypeOK
    <3>2. \A u \in Threads \ {t} : InHand(u)' = InHand(u)
      BY Zenon, <1>7, <2>1 DEF FreeLoad, InHand, PoolIInv, PoolTypeOK
    <3> QED BY <1>7, <2>1, <3>1, <3>2 DEF FreeLoad, PoolIInv, NoBufferTwice
  <2>6. Roles'
    BY Zenon, <1>7 DEF FreeLoad, PoolIInv, Roles, PoolTypeOK
  <2>7. Knows'
    BY <1>7, <2>1, <2>2 DEF FreeLoad, PoolIInv, Knows, PoolTypeOK
  <2> QED BY Zenon, <2>3, <2>4, <2>5, <2>6, <2>7 DEF PoolIInv
<1>8. ASSUME NEW t \in Threads, FreeHeap(t) PROVE PoolIInv'
  <2>1. PoolTypeOK'
    BY <1>8 DEF FreeHeap, PoolIInv, PoolTypeOK
  <2>2. ListExact'
    BY Zenon, <1>8 DEF FreeHeap, PoolIInv, ListExact
  <2>3. NoBufferTwice'
    <3>1. \A u \in Threads : InHand(u)' = InHand(u)
      BY Zenon, <1>8 DEF FreeHeap, InHand
    <3> QED BY Zenon, <1>8, <3>1 DEF FreeHeap, PoolIInv, NoBufferTwice
  <2>4. Roles' /\ Knows'
    BY Zenon, <1>8 DEF FreeHeap, PoolIInv, Roles, Knows
  <2> QED BY Zenon, <2>1, <2>2, <2>3, <2>4 DEF PoolIInv
<1>9. ASSUME NEW t \in Threads, FreeLink(t) PROVE PoolIInv'
  <2>1. lbuf[t] \in Buffers /\ lbuf[t] \notin free /\ InHand(t) = {lbuf[t]}
    BY ZenonT(30), <1>9 DEF FreeLink, PoolIInv, Knows, NoBufferTwice, InHand
  <2>2. PoolTypeOK'
    BY Zenon, <1>9, <2>1 DEF FreeLink, PoolIInv, PoolTypeOK
  <2>3. \A b \in Buffers \ {lbuf[t]} : next'[b] = next[b]
    BY Zenon, <1>9 DEF FreeLink, PoolIInv, PoolTypeOK
  <2>4. free \subseteq Buffers \ {lbuf[t]}
    BY Zenon, <2>1 DEF PoolIInv, PoolTypeOK
  <2>5. ListExact'
    BY <1>9, <2>3, <2>4 DEF FreeLink, PoolIInv, ListExact
  <2>6. \A u \in Threads : InHand(u)' = InHand(u)
    BY Zenon, <1>9 DEF FreeLink, InHand, PoolIInv, PoolTypeOK
  <2>7. NoBufferTwice'
    BY ZenonT(30), <1>9, <2>6 DEF FreeLink, PoolIInv, NoBufferTwice
  <2>8. Roles'
    BY Zenon, <1>9 DEF FreeLink, PoolIInv, Roles, PoolTypeOK
  <2>9. \A u \in Threads \ {t} : pc[u] = "push" => lbuf[u] # lbuf[t]
    BY Zenon, <2>1 DEF PoolIInv, NoBufferTwice, InHand
  <2>10. Knows'
    <3>1. next'[lbuf[t]] = lhead[t]
      BY Zenon, <1>9, <2>1 DEF FreeLink, PoolIInv, PoolTypeOK
    <3> QED BY <1>9, <2>1, <2>3, <2>4, <2>9, <3>1 DEF FreeLink, PoolIInv, Knows, PoolTypeOK
  <2> QED BY Zenon, <2>2, <2>5, <2>7, <2>8, <2>10 DEF PoolIInv
<1>10. ASSUME NEW t \in Threads, FreeCas(t) PROVE PoolIInv'
  <2>1. /\ lbuf[t] \in Buffers /\ lbuf[t] \notin free /\ InHand(t) = {lbuf[t]}
        /\ next[lbuf[t]] = lhead[t]
    BY Zenon, <1>10 DEF FreeCas, PoolIInv, Knows, NoBufferTwice, InHand
  <2>2. CASE /\ free_head = lhead[t]
             /\ free_head' = lbuf[t]
             /\ free' = free \cup {lbuf[t]}
             /\ pc' = [pc EXCEPT ![t] = "gave"]
             /\ lhead' = lhead
    <3> USE <1>10, <2>1, <2>2 DEF FreeCas
    <3>1. PoolTypeOK'
      BY Zenon DEF PoolIInv, PoolTypeOK, Buffers
    <3>2. ListExact'
      BY DEF PoolIInv, ListExact, PoolTypeOK, Buffers
    <3>3. NoBufferTwice'
      <4>1. InHand(t)' = {}
        BY Zenon DEF InHand, PoolIInv, PoolTypeOK
      <4>2. \A u \in Threads \ {t} : InHand(u)' = InHand(u)
        BY Zenon DEF InHand, PoolIInv, PoolTypeOK
      <4> QED BY <4>1, <4>2 DEF PoolIInv, NoBufferTwice
    <3>4. Roles'
      BY Zenon DEF PoolIInv, Roles, PoolTypeOK
    <3>5. Knows'
      BY DEF PoolIInv, Knows, PoolTypeOK
    <3> QED BY Zenon, <3>1, <3>2, <3>3, <3>4, <3>5 DEF PoolIInv
  <2>3. CASE /\ lhead' = [lhead EXCEPT ![t] = free_head]
             /\ pc' = [pc EXCEPT ![t] = "link"]
             /\ UNCHANGED <<free_head, free>>
    <3> USE <1>10, <2>1, <2>3 DEF FreeCas
    <3>1. PoolTypeOK'
      BY Zenon DEF PoolIInv, PoolTypeOK
    <3>2. ListExact'
      BY ZenonT(30) DEF PoolIInv, ListExact
    <3>3. NoBufferTwice'
      <4>1. \A u \in Threads : InHand(u)' = InHand(u)
        BY Zenon DEF InHand, PoolIInv, PoolTypeOK
      <4> QED BY Zenon, <4>1 DEF PoolIInv, NoBufferTwice
    <3>4. Roles'
      BY Zenon DEF PoolIInv, Roles, PoolTypeOK
    <3>5. Knows'
      BY DEF PoolIInv, Knows, PoolTypeOK
    <3> QED BY ZenonT(30), <3>1, <3>2, <3>3, <3>4, <3>5 DEF PoolIInv
  <2> QED BY Zenon, <1>10, <2>2, <2>3 DEF FreeCas
<1>11. ASSUME NEW t \in Threads, FreeCount(t) PROVE PoolIInv'
  <2>1. (available + 1) % Width \in 0..(Width - 1)
    BY DEF PoolIInv, PoolTypeOK
  <2>2. PoolTypeOK'
    BY Zenon, <1>11, <2>1 DEF FreeCount, PoolIInv, PoolTypeOK
  <2>3. ListExact'
    BY Zenon, <1>11 DEF FreeCount, PoolIInv, ListExact
  <2>4. NoBufferTwice'
    <3>1. \A u \in Threads : InHand(u)' = InHand(u)
      BY Zenon, <1>11 DEF FreeCount, InHand, PoolIInv, PoolTypeOK
    <3> QED BY Zenon, <1>11, <3>1 DEF FreeCount, PoolIInv, NoBufferTwice
  <2>5. Roles'
    BY Zenon, <1>11 DEF FreeCount, PoolIInv, Roles, PoolTypeOK
  <2>6. Knows'
    BY Zenon, <1>11 DEF FreeCount, PoolIInv, Knows, PoolTypeOK
  <2> QED BY Zenon, <2>2, <2>3, <2>4, <2>5, <2>6 DEF PoolIInv
<1> QED
  BY Zenon, <1>1, <1>2, <1>3, <1>4, <1>5, <1>6, <1>7, <1>8, <1>9, <1>10, <1>11 DEF PoolNext

(***************************************************************************)
(* With one allocating thread the list always consists of free buffers,    *)
(* each reached once, whatever the freeing threads do between the load of  *)
(* the head and the exchange.                                              *)
(***************************************************************************)
THEOREM FreeListStaysExact == PoolSpec => []ListExact
<1>1. PoolIInv => ListExact
  BY Zenon DEF PoolIInv
<1> QED
  BY <1>1, PoolStartsExact, PoolStepStaysExact, PTL DEF PoolSpec

(***************************************************************************)
(* With one allocating thread no buffer is given to two owners, and none   *)
(* is given away while it is on the list.                                  *)
(***************************************************************************)
THEOREM BuffersHaveOneOwner == PoolSpec => []NoBufferTwice
<1>1. PoolIInv => NoBufferTwice
  BY Zenon DEF PoolIInv
<1> QED
  BY <1>1, PoolStartsExact, PoolStepStaysExact, PTL DEF PoolSpec

----------------------------------------------------------------------------
(***************************************************************************)
(* SPSCQueue, for every capacity and any number of items.  With try_push:  *)
(* FIFO, no loss, no race on a slot, and a queue with atomic put and get.  *)
(* With drop_oldest_push: what holds until two drops overlap one try_pop.  *)
(***************************************************************************)
(* The items between head and tail are the next ones to be consumed. *)
InQueue ==
    /\ pushed = last + size(head, tail)
    /\ popped = last
    /\ \A k \in 0..(Cap - 1) :
          k < size(head, tail) /\ ~(k = 0 /\ cpc = "store") =>
              buffer[At(head, k)] = last + 1 + k

(* What the producer knows of the indices at each of its steps. *)
ProducerKnows ==
    /\ ppc \in {"idle", "load", "write", "publish"}
    /\ ppc \in {"load", "write", "publish"} => pushed < MaxItems
    /\ ppc \in {"write", "publish"} => size(head, tail) < Cap - 1
    /\ ppc = "publish" => buffer[tail] = pushed + 1

(* What the consumer knows: head does not move under it. *)
ConsumerKnows ==
    /\ cpc \in {"check", "read", "store"} => chead = head
    /\ cpc \in {"read", "store"} => head # tail
    /\ cpc = "store" => citem = last + 1

(* The inductive invariant of TrySpec. *)
QInv ==
    /\ TypeOK
    /\ drop_count = 0
    /\ InQueue
    /\ ProducerKnows
    /\ ConsumerKnows

----------------------------------------------------------------------------
(* Index arithmetic: the distance from head to tail as either moves on. *)
LEMMA SizeFacts ==
    ASSUME NEW h \in Index, NEW t \in Index
    PROVE  /\ size(h, t) \in 0..(Cap - 1)
           /\ size(h, t) = 0 <=> h = t
           /\ At(h, size(h, t)) = t
           /\ Succ(t) \in Index
           /\ Succ(t) # h => size(h, t) < Cap - 1
           /\ size(h, t) < Cap - 1 => size(h, Succ(t)) = size(h, t) + 1
           /\ h # t => size(Succ(h), t) = size(h, t) - 1
BY QueueAssumption DEF Index, size, Succ, At

(* The slot at a distance from head, as head moves on. *)
LEMMA AtFacts ==
    ASSUME NEW h \in Index, NEW k \in 0..(Cap - 1)
    PROVE  /\ At(h, k) \in Index
           /\ At(h, 0) = h
           /\ \A j \in 0..(Cap - 1) : At(h, j) = At(h, k) => j = k
           /\ k + 1 < Cap => At(Succ(h), k) = At(h, k + 1)
BY QueueAssumption DEF Index, Succ, At

(* A ring whose head is the slot after the tail is full. *)
LEMMA FullRing ==
    ASSUME NEW t \in Index
    PROVE  size(Succ(t), t) = Cap - 1
BY QueueAssumption DEF Index, size, Succ

(* The empty queue satisfies the invariant. *)
LEMMA InitQInv == Init => QInv
<1> SUFFICES ASSUME Init PROVE QInv
  BY Zenon
<1>1. TypeOK
  BY QueueAssumption DEF Init, TypeOK, Index, Item
<1>2. size(head, tail) = 0
  BY DEF Init, size
<1> QED BY <1>1, <1>2
        DEF Init, QInv, InQueue, ProducerKnows, ConsumerKnows

----------------------------------------------------------------------------
(* Every step of either thread preserves the invariant. *)
LEMMA NextQInv == QInv /\ [TryNext]_vars => QInv'
<1> SUFFICES ASSUME QInv, [TryNext]_vars PROVE QInv'
  BY Zenon
<1> DEFINE n == size(head, tail)
<1>0. /\ head \in Index /\ tail \in Index /\ n \in 0..(Cap - 1)
      /\ n = 0 <=> head = tail
      /\ pushed \in Nat /\ last \in Nat /\ popped \in Nat /\ Cap \in Nat
  BY SizeFacts, QueueAssumption DEF QInv, TypeOK, Item
<1>1. CASE PushCall
  <2>1. TypeOK'
    BY Zenon, <1>1 DEF PushCall, QInv, TypeOK, consumer
  <2> QED BY Zenon, <1>1, <2>1 DEF PushCall, QInv, InQueue, ProducerKnows,
                            ConsumerKnows, consumer
<1>2. CASE TryPushLoad
  <2>1. TypeOK'
    BY Zenon, <1>2 DEF TryPushLoad, QInv, TypeOK, consumer
  <2>2. ProducerKnows'
    <3>1. Succ(tail) # head => n < Cap - 1
      BY Zenon, <1>0, SizeFacts
    <3> QED BY Zenon, <1>2, <3>1 DEF TryPushLoad, QInv, ProducerKnows
  <2> QED BY Zenon, <1>2, <2>1, <2>2
          DEF TryPushLoad, QInv, InQueue, ConsumerKnows, consumer
<1>3. CASE PushWrite
  <2>1. TypeOK'
    <3>1. pushed + 1 \in Item
      BY <1>3, <1>0, QueueAssumption DEF PushWrite, QInv, ProducerKnows, Item
    <3> QED BY Zenon, <1>3, <3>1 DEF PushWrite, QInv, TypeOK, consumer
  <2>2. buffer' = [buffer EXCEPT ![tail] = pushed + 1] /\ n < Cap - 1
        /\ UNCHANGED <<head, tail, pushed, drop_count, consumer>>
        /\ ppc' = "publish"
    BY Zenon, <1>3 DEF PushWrite, QInv, ProducerKnows
  <2>3. InQueue'
    <3>1. ASSUME NEW k \in 0..(Cap - 1), k < n PROVE At(head, k) # tail
      BY <1>0, <3>1, SizeFacts, AtFacts
    <3>2. ASSUME NEW k \in 0..(Cap - 1), k < n
          PROVE  buffer'[At(head, k)] = buffer[At(head, k)]
      BY Zenon, <2>2, <3>1, <3>2, <1>0, AtFacts DEF QInv, TypeOK
    <3> QED BY Zenon, <2>2, <3>2 DEF QInv, InQueue, consumer
  <2>4. ProducerKnows'
    BY Zenon, <1>0, <2>2, <1>3 DEF PushWrite, QInv, TypeOK, ProducerKnows
  <2> QED BY Zenon, <2>1, <2>2, <2>3, <2>4 DEF QInv, ConsumerKnows, consumer
<1>4. CASE PushPublish
  <2>1. /\ tail' = Succ(tail) /\ pushed' = pushed + 1 /\ ppc' = "idle"
        /\ UNCHANGED <<head, buffer, drop_count, phead, consumer, lapped>>
        /\ n < Cap - 1 /\ buffer[tail] = pushed + 1 /\ pushed < MaxItems
    BY Zenon, <1>4 DEF PushPublish, QInv, ProducerKnows
  <2>2. Succ(tail) \in Index /\ size(head', tail') = n + 1 /\ At(head, n) = tail
    BY <2>1, <1>0, SizeFacts
  <2>3. TypeOK'
    BY Zenon, <2>1, <2>2, <1>0, QueueAssumption DEF QInv, TypeOK, Item, consumer
  <2>4. InQueue'
    <3>1. ASSUME NEW k \in 0..(Cap - 1), k < n + 1,
                 ~(k = 0 /\ cpc = "store")
          PROVE  buffer[At(head, k)] = last + 1 + k
      <4>1. CASE k = n
        BY <4>1, <2>1, <2>2, <1>0 DEF QInv, InQueue
      <4>2. CASE k # n
        BY <4>2, <3>1, <1>0 DEF QInv, InQueue
      <4> QED BY Zenon, <4>1, <4>2
    <3>2. pushed + 1 = last + (n + 1) /\ popped = last
      BY <1>0 DEF QInv, InQueue
    <3> QED BY Zenon, <3>1, <3>2, <2>1, <2>2 DEF InQueue, consumer
  <2>5. ConsumerKnows'
    <3>1. head' # tail'
      BY <2>1, <2>2, <1>0, SizeFacts
    <3> QED BY Zenon, <2>1, <3>1 DEF QInv, ConsumerKnows, consumer
  <2> QED BY Zenon, <2>1, <2>3, <2>4, <2>5 DEF QInv, ProducerKnows
<1>5. CASE PopLoadHead
  <2>1. TypeOK'
    BY <1>5 DEF PopLoadHead, QInv, TypeOK, producer
  <2> QED BY Zenon, <1>5, <2>1 DEF PopLoadHead, QInv, InQueue, ProducerKnows,
                            ConsumerKnows, producer
<1>6. CASE PopLoadTail
  <2>1. TypeOK'
    BY Zenon, <1>6 DEF PopLoadTail, QInv, TypeOK, producer
  <2> QED BY Zenon, <1>6, <2>1 DEF PopLoadTail, QInv, InQueue, ProducerKnows,
                            ConsumerKnows, producer
<1>7. CASE PopRead
  <2>1. /\ citem' = buffer[head] /\ cpc' = "store" /\ cpc = "read"
        /\ buffer' = IF MoveEmpties THEN [buffer EXCEPT ![head] = 0]
                                    ELSE buffer
        /\ UNCHANGED <<head, producer, chead, last, popped, lapped>>
        /\ chead = head /\ head # tail
    BY Zenon, <1>7 DEF PopRead, QInv, ConsumerKnows
  <2>2. TypeOK'
    BY <2>1, <1>0, QueueAssumption DEF QInv, TypeOK, Item, producer
  <2>3. ASSUME NEW i \in Index, i # head PROVE buffer'[i] = buffer[i]
    BY Zenon, <2>1, <2>3 DEF QInv, TypeOK
  <2>4. InQueue'
    <3>1. ASSUME NEW k \in 0..(Cap - 1), k # 0
          PROVE  buffer'[At(head, k)] = buffer[At(head, k)]
      <4>1. At(head, k) \in Index /\ At(head, k) # head
        BY <3>1, <1>0, AtFacts, QueueAssumption
      <4> QED BY Zenon, <4>1, <2>3
    <3> QED BY Zenon, <2>1, <3>1 DEF QInv, InQueue, producer
  <2>5. citem' = last + 1
    <3>1. 0 \in 0..(Cap - 1) /\ 0 < n /\ At(head, 0) = head
      BY <2>1, <1>0, AtFacts
    <3> QED BY <3>1, <2>1, <1>0 DEF QInv, InQueue
  <2>6. ProducerKnows'
    BY Zenon, <2>1, <2>3, <1>0 DEF QInv, ProducerKnows, producer
  <2> QED BY Zenon, <2>1, <2>2, <2>4, <2>5, <2>6 DEF QInv, ConsumerKnows, producer
<1>8. CASE PopStore
  <2>1. /\ head' = Succ(head) /\ last' = last + 1 /\ popped' = popped + 1
        /\ cpc = "store" /\ cpc' = "idle" /\ head # tail /\ last' = citem
        /\ UNCHANGED <<buffer, producer, chead, citem, lapped>>
    BY Zenon, <1>8 DEF PopStore, QInv, ConsumerKnows
  <2>2. head' \in Index /\ size(head', tail') = n - 1
    BY <2>1, <1>0, SizeFacts DEF producer
  <2>3. TypeOK'
    BY <2>1, <2>2, <1>0 DEF QInv, TypeOK, Item, producer
  <2>4. InQueue'
    <3>1. ASSUME NEW k \in 0..(Cap - 1), k < n - 1
          PROVE  buffer[At(head', k)] = last + 1 + 1 + k
      <4>1. k + 1 \in 0..(Cap - 1) /\ k + 1 < n /\ k + 1 # 0
        BY <3>1, <1>0
      <4>2. At(head', k) = At(head, k + 1)
        BY <4>1, <2>1, <1>0, AtFacts
      <4>3. buffer[At(head, k + 1)] = last + 1 + (k + 1)
        BY Zenon, <4>1 DEF QInv, InQueue
      <4> QED BY <4>2, <4>3, <3>1, <1>0
    <3> QED BY <3>1, <2>1, <2>2, <1>0 DEF QInv, InQueue, producer
  <2>5. ProducerKnows'
    BY <2>1, <2>2, <1>0 DEF QInv, ProducerKnows, producer
  <2> QED BY Zenon, <2>1, <2>3, <2>4, <2>5 DEF QInv, ConsumerKnows, producer
<1>9. CASE UNCHANGED vars
  <2>1. TypeOK'
    BY Zenon, <1>9 DEF vars, QInv, TypeOK
  <2> QED BY Zenon, <1>9, <2>1 DEF vars, QInv, InQueue, ProducerKnows, ConsumerKnows
<1> QED BY Zenon, <1>1, <1>2, <1>3, <1>4, <1>5, <1>6, <1>7, <1>8, <1>9
        DEF TryNext, TryPush, Pop

----------------------------------------------------------------------------
(* The invariant holds of every interleaving of try_push and try_pop. *)
THEOREM QueueInvariance == TrySpec => []QInv
BY InitQInv, NextQInv, PTL DEF TrySpec

(* The n-th item try_pop returns is the n-th item pushed. *)
THEOREM QueueIsFifo == TrySpec => []Fifo
<1>1. QInv => Fifo
  BY Zenon DEF QInv, InQueue, Fifo
<1> QED BY <1>1, QueueInvariance, PTL

(* The two threads never access the same slot at the same time. *)
THEOREM QueueSlotsDoNotRace == TrySpec => []NoSlotRace
<1>1. QInv => NoSlotRace
  BY Zenon DEF QInv, ConsumerKnows, NoSlotRace
<1> QED BY <1>1, QueueInvariance, PTL

(* Between calls, what was pushed and not popped is in the queue. *)
THEOREM QueueLosesNothing == TrySpec => []LossCounted
<1>1. QInv => LossCounted
  BY SizeFacts DEF QInv, TypeOK, Item, InQueue, LossCounted
<1> QED BY <1>1, QueueInvariance, PTL

----------------------------------------------------------------------------
(* The numbers l+1, ..., l+n in order. *)
Upto(l, n) == [k \in 1..n |-> l + k]

(* Sequences with the same length and elements are equal. *)
LEMMA SameItems ==
    ASSUME NEW s \in Seq(Nat), NEW t \in Seq(Nat), Len(s) = Len(t),
           \A i \in 1..Len(s) : s[i] = t[i]
    PROVE  s = t
OBVIOUS

(* The sequence of consecutive items: its head, its tail, one more item. *)
LEMMA UptoFacts ==
    ASSUME NEW l \in Nat, NEW n \in Nat
    PROVE  /\ Upto(l, n) \in Seq(Nat)
           /\ Len(Upto(l, n)) = n
           /\ Append(Upto(l, n), l + n + 1) = Upto(l, n + 1)
           /\ n > 0 => /\ Upto(l, n) # <<>>
                       /\ Head(Upto(l, n)) = l + 1
                       /\ Tail(Upto(l, n)) = Upto(l + 1, n - 1)
<1>1. Upto(l, n) \in [1..n -> Nat] /\ Upto(l, n) \in Seq(Nat)
  BY DEF Upto
<1>2. Len(Upto(l, n)) = n
  BY <1>1 DEF Upto
<1>3. Append(Upto(l, n), l + n + 1) = Upto(l, n + 1)
  BY <1>1, <1>2 DEF Upto
<1>4. n > 0 => /\ Upto(l, n) # <<>>
               /\ Head(Upto(l, n)) = l + 1
               /\ Tail(Upto(l, n)) = Upto(l + 1, n - 1)
  <2> SUFFICES ASSUME n > 0
               PROVE  /\ Upto(l, n) # <<>>
                      /\ Head(Upto(l, n)) = l + 1
                      /\ Tail(Upto(l, n)) = Upto(l + 1, n - 1)
    BY Zenon
  <2>1. Upto(l, n) # <<>> /\ Head(Upto(l, n)) = Upto(l, n)[1]
    BY <1>1, <1>2
  <2>2. Upto(l, n)[1] = l + 1
    BY DEF Upto
  <2>3. /\ Tail(Upto(l, n)) \in Seq(Nat) /\ Len(Tail(Upto(l, n))) = n - 1
        /\ \A k \in 1..(n - 1) : Tail(Upto(l, n))[k] = Upto(l, n)[k + 1]
    BY <1>1, <1>2, <2>1
  <2>4. /\ Upto(l + 1, n - 1) \in Seq(Nat) /\ Len(Upto(l + 1, n - 1)) = n - 1
        /\ \A k \in 1..(n - 1) : Upto(l + 1, n - 1)[k] = Upto(l, n)[k + 1]
    BY DEF Upto
  <2>5. Tail(Upto(l, n)) = Upto(l + 1, n - 1)
    BY Zenon, <2>3, <2>4, SameItems
  <2> QED BY Zenon, <2>1, <2>2, <2>5
<1> QED BY Zenon, <1>1, <1>2, <1>3, <1>4

(* The contents of the ring, in closed form. *)
LEMMA ContentsUpto == QInv => Contents = Upto(last, size(head, tail))
<1> SUFFICES ASSUME QInv PROVE Contents = Upto(last, size(head, tail))
  BY Zenon
<1>1. size(head, tail) \in 0..(Cap - 1) /\ last \in Nat /\ Cap \in Nat
  BY SizeFacts, QueueAssumption DEF QInv, TypeOK, Item
<1>2. ASSUME NEW k \in 1..size(head, tail)
      PROVE  (IF k = 1 /\ cpc = "store" THEN citem ELSE buffer[At(head, k - 1)])
                 = last + k
  <2>1. CASE k = 1 /\ cpc = "store"
    BY Zenon, <2>1 DEF QInv, ConsumerKnows
  <2>2. CASE ~(k = 1 /\ cpc = "store")
    <3>1. /\ k - 1 \in 0..(Cap - 1) /\ k - 1 < size(head, tail)
          /\ ~(k - 1 = 0 /\ cpc = "store")
      BY <2>2, <1>1
    <3>2. buffer[At(head, k - 1)] = last + 1 + (k - 1)
      BY Zenon, <3>1 DEF QInv, InQueue
    <3> QED BY <2>2, <3>2, <1>1
  <2> QED BY Zenon, <2>1, <2>2
<1> QED BY Zenon, <1>2 DEF Contents, Upto

(* Each step of either thread is a put, a get or nothing to the queue. *)
LEMMA StepIsQueueStep ==
    QInv /\ QInv' /\ [TryNext]_vars => [Fifo0!QNext]_(Fifo0!qvars)
<1> SUFFICES ASSUME QInv, QInv', [TryNext]_vars
             PROVE  Fifo0!QNext \/ UNCHANGED <<Contents, pushed, last>>
  BY Zenon DEF Fifo0!qvars
<1> DEFINE n == size(head, tail)
<1>1. /\ Contents = Upto(last, n) /\ Contents' = Upto(last', n')
      /\ n \in Nat /\ last \in Nat /\ pushed \in Nat /\ Cap \in Nat
      /\ pushed = last + n /\ head \in Index /\ tail \in Index
  <2>1. Contents = Upto(last, n)
    BY Zenon, ContentsUpto
  <2>2. (Contents = Upto(last, size(head, tail)))'
    BY ContentsUpto, PTL
  <2> QED BY <2>1, <2>2, SizeFacts, QueueAssumption
          DEF QInv, TypeOK, Item, InQueue
<1>2. CASE UNCHANGED <<head, tail, pushed, last>>
  <2>1. UNCHANGED <<n, last>>
    BY Zenon, <1>2
  <2> HIDE DEF n
  <2> QED BY Zenon, <1>1, <1>2, <2>1
<1>3. CASE PushPublish
  <2>1. /\ tail' = Succ(tail) /\ pushed' = pushed + 1
        /\ UNCHANGED <<head, last>> /\ n < Cap - 1
    BY Zenon, <1>3 DEF PushPublish, QInv, ProducerKnows, consumer
  <2>2. n' = n + 1
    BY <2>1, <1>1, SizeFacts
  <2>3. Contents' = Append(Contents, pushed + 1) /\ Len(Contents) < Cap - 1
    <3> HIDE DEF n
    <3> QED BY Zenon, <2>1, <2>2, <1>1, UptoFacts
  <2> QED BY <2>1, <2>3 DEF Fifo0!QNext, Fifo0!Put
<1>4. CASE PopStore
  <2>1. /\ head' = Succ(head) /\ last' = last + 1 /\ head # tail
        /\ UNCHANGED <<tail, pushed>>
    BY Zenon, <1>4 DEF PopStore, QInv, ConsumerKnows, producer
  <2>2. n' = n - 1 /\ n > 0
    BY <2>1, <1>1, SizeFacts
  <2>3. /\ Contents # <<>> /\ Head(Contents) = last'
        /\ Contents' = Tail(Contents)
    <3> HIDE DEF n
    <3> QED BY Zenon, <2>1, <2>2, <1>1, UptoFacts
  <2> QED BY <2>1, <2>3 DEF Fifo0!QNext, Fifo0!Get
<1>5. CASE PushCall \/ TryPushLoad \/ PushWrite
  BY Zenon, <1>5, <1>2 DEF PushCall, TryPushLoad, PushWrite, consumer
<1>6. CASE PopLoadHead \/ PopLoadTail \/ PopRead
  BY Zenon, <1>6, <1>2 DEF PopLoadHead, PopLoadTail, PopRead, producer
<1>7. CASE UNCHANGED vars
  BY Zenon, <1>7, <1>2 DEF vars
<1> QED BY Zenon, <1>3, <1>4, <1>5, <1>6, <1>7 DEF TryNext, TryPush, Pop

(***************************************************************************)
(* The lock-free ring with try_push and try_pop implements a bounded queue *)
(* whose put and get are atomic.                                           *)
(***************************************************************************)
THEOREM RingImplementsQueue == TrySpec => ImplementsQueue
<1>1. Init => Fifo0!QInit
  BY DEF Init, Fifo0!QInit, Contents, size
<1> QED BY <1>1, QueueInvariance, StepIsQueueStep, PTL
        DEF TrySpec, ImplementsQueue, Fifo0!QSpec

----------------------------------------------------------------------------
(***************************************************************************)
(* drop_oldest_push.  The items before the head of the ring.               *)
(***************************************************************************)
Removed == pushed - size(head, tail)

(* The item in each slot of the ring, but for the one just moved out. *)
RingHolds ==
    \A k \in 0..(Cap - 1) :
        k < size(head, tail) /\ ~(k = 0 /\ cpc = "store" /\ lapped = 0) =>
            buffer[At(head, k)] = Removed + 1 + k

(* Every item before the head was returned or counted as dropped. *)
LossKnown == last <= Removed /\ Removed <= popped + drop_count /\ Removed >= 0

(* What the producer knows about the slot it writes. *)
DropperKnows ==
    /\ ppc \in {"write", "publish"} => size(head, tail) < Cap - 1
    /\ ppc = "publish" => buffer[tail] = pushed + 1

(***************************************************************************)
(* What the consumer knows.  Without a drop, its slot is the head.  After  *)
(* one drop its slot is the one before the head, which the producer cannot *)
(* write before it drops again: the item is still there.                   *)
(***************************************************************************)
PopperKnows ==
    /\ cpc # "idle" /\ lapped = 0 => chead = head
    /\ cpc # "idle" /\ lapped = 1 => head = Succ(chead)
    /\ cpc \in {"read", "store"} /\ lapped = 0 => head # tail
    /\ cpc = "store" /\ lapped = 0 => citem = Removed + 1
    /\ cpc = "store" /\ lapped = 1 => citem = Removed /\ last < Removed
    /\ (cpc = "read" \/ (cpc = "check" /\ chead # tail)) /\ lapped = 1 =>
          buffer[chead] = Removed /\ last < Removed

(* The inductive invariant of DropSpec. *)
DInv ==
    /\ TypeOK
    /\ ppc # "idle" => pushed < MaxItems
    /\ ppc = "cas" => phead = Succ(tail)
    /\ lapped < 2 => RingHolds /\ LossKnown /\ DropperKnows /\ PopperKnows

(* The empty ring satisfies the invariant. *)
LEMMA InitDInv == Init => DInv
<1> SUFFICES ASSUME Init PROVE DInv
  BY Zenon
<1>1. TypeOK
  BY QueueAssumption DEF Init, TypeOK, Index, Item
<1>2. size(head, tail) = 0
  BY DEF Init, size
<1> QED BY <1>1, <1>2 DEF Init, DInv, RingHolds, LossKnown, DropperKnows,
                          PopperKnows, Removed

(* Types, and what the producer knows whatever the consumer does. *)
LEMMA NextDropTyped ==
    ASSUME DInv, [DropNext]_vars
    PROVE  /\ TypeOK'
           /\ (ppc # "idle" => pushed < MaxItems)'
           /\ (ppc = "cas" => phead = Succ(tail))'
           /\ lapped' < 2 => lapped < 2
<1>0. /\ Cap \in Nat \ {0} /\ MaxItems \in Nat /\ pushed \in 0..MaxItems
      /\ head \in Index /\ tail \in Index /\ chead \in Index /\ phead \in Index
      /\ Succ(head) \in Index /\ Succ(tail) \in Index
      /\ Succ(chead) \in Index /\ Succ(phead) \in Index
      /\ ppc # "idle" => pushed + 1 \in Item
  BY QueueAssumption, SizeFacts DEF DInv, TypeOK, Item
<1>1. CASE PushCall
  BY Zenon, <1>1, <1>0 DEF PushCall, DInv, TypeOK, consumer
<1>2. CASE DropPushLoad
  BY Zenon, <1>2, <1>0 DEF DropPushLoad, DInv, TypeOK, consumer
<1>3. CASE DropCasOk
  BY <1>3, <1>0 DEF DropCasOk, DInv, TypeOK, consumer
<1>4. CASE DropCasFail
  BY Zenon, <1>4, <1>0 DEF DropCasFail, DInv, TypeOK, consumer
<1>5. CASE PushWrite
  BY Zenon, <1>5, <1>0 DEF PushWrite, DInv, TypeOK, consumer
<1>6. CASE PushPublish
  BY Zenon, <1>6, <1>0 DEF PushPublish, DInv, TypeOK, consumer
<1>7. CASE PopLoadHead
  BY <1>7, <1>0 DEF PopLoadHead, DInv, TypeOK, producer
<1>8. CASE PopLoadTail
  BY Zenon, <1>8, <1>0 DEF PopLoadTail, DInv, TypeOK, producer
<1>9. CASE PopRead
  <2>1. buffer' \in [Index -> Item] /\ citem' \in Item
    BY <1>9, <1>0 DEF PopRead, DInv, TypeOK, Item
  <2> QED BY Zenon, <1>9, <1>0, <2>1 DEF PopRead, DInv, TypeOK, producer
<1>10. CASE PopStore
  BY <1>10, <1>0 DEF PopStore, DInv, TypeOK, producer
<1>11. CASE UNCHANGED vars
  BY Zenon, <1>11 DEF vars, DInv, TypeOK
<1> QED BY Zenon, <1>1, <1>2, <1>3, <1>4, <1>5, <1>6, <1>7, <1>8, <1>9, <1>10, <1>11
        DEF DropNext, DropPush, Pop

(* Every step of either thread preserves the invariant. *)
LEMMA NextDInv == DInv /\ [DropNext]_vars => DInv'
<1> SUFFICES ASSUME DInv, [DropNext]_vars, lapped' < 2
             PROVE  (RingHolds /\ LossKnown /\ DropperKnows /\ PopperKnows)'
  BY Zenon, NextDropTyped DEF DInv
<1> DEFINE n == size(head, tail)
<1>0. /\ head \in Index /\ tail \in Index /\ chead \in Index
      /\ n \in 0..(Cap - 1) /\ (n = 0 <=> head = tail)
      /\ pushed \in Nat /\ last \in Nat /\ popped \in Nat /\ drop_count \in Nat
      /\ Cap \in Nat \ {0} /\ lapped \in 0..1 /\ buffer \in [Index -> Item]
      /\ Removed = pushed - n
      /\ RingHolds /\ LossKnown /\ DropperKnows /\ PopperKnows
  <2>1. lapped < 2 /\ RingHolds /\ LossKnown /\ DropperKnows /\ PopperKnows
    BY Zenon, NextDropTyped DEF DInv
  <2>2. /\ head \in Index /\ tail \in Index /\ chead \in Index /\ lapped \in 0..2
        /\ buffer \in [Index -> Item] /\ Removed = pushed - n
    BY Zenon DEF DInv, TypeOK, Removed
  <2>3. /\ pushed \in Nat /\ last \in Nat /\ popped \in Nat /\ drop_count \in Nat
        /\ Cap \in Nat \ {0}
    BY QueueAssumption DEF DInv, TypeOK, Item
  <2>4. n \in 0..(Cap - 1) /\ (n = 0 <=> head = tail)
    BY Zenon, <2>2, SizeFacts
  <2>5. lapped \in 0..1
    BY <2>1, <2>2
  <2> QED BY Zenon, <2>1, <2>2, <2>3, <2>4, <2>5
<1>t. /\ head \in Index /\ tail \in Index /\ chead \in Index
      /\ n \in Nat /\ n \in 0..(Cap - 1) /\ Cap \in Nat \ {0} /\ 0 \in 0..(Cap - 1)
      /\ pushed \in Nat /\ Removed = pushed - n /\ Removed \in Int
      /\ (lapped = 0 \/ lapped = 1)
  BY <1>0
<1>1. CASE PushCall
  BY Zenon, <1>1, <1>0 DEF PushCall, RingHolds, LossKnown, DropperKnows, PopperKnows,
                    Removed, consumer
<1>2. CASE DropPushLoad
  <2>1. Succ(tail) # head => n < Cap - 1
    BY Zenon, <1>0, SizeFacts
  <2> QED BY ZenonT(30), <1>2, <1>0, <2>1 DEF DropPushLoad, RingHolds, LossKnown,
                    DropperKnows, PopperKnows, Removed, consumer
<1>3. CASE DropCasFail
  BY Zenon, <1>3, <1>0 DEF DropCasFail, RingHolds, LossKnown, DropperKnows,
                    PopperKnows, Removed, consumer
<1>4. CASE DropCasOk
  <2>1. /\ head' = Succ(head) /\ head = Succ(tail) /\ ppc' = "load"
        /\ drop_count' = drop_count + 1
        /\ lapped' = IF cpc # "idle" THEN lapped + 1 ELSE lapped
        /\ UNCHANGED <<tail, buffer, phead, pushed, consumer>>
    BY Zenon, <1>4, <1>0 DEF DropCasOk, DInv
  <2>2. CASE head = tail
    <3>1. Cap = 1 /\ head = 0 /\ head' = head /\ n = 0
      BY <2>1, <2>2, <1>t DEF Succ, Index
    <3>2. size(head', tail') = 0 /\ Removed' = Removed
      BY Zenon, <3>1, <2>1, <1>0 DEF Removed
    <3>3. RingHolds' /\ DropperKnows'
      BY <3>1, <3>2, <2>1 DEF RingHolds, DropperKnows
    <3>4. LossKnown'
      BY <3>2, <2>1, <1>0 DEF LossKnown, consumer
    <3>5. cpc \in {"idle", "check"} /\ chead = 0
      BY <3>1, <2>2, <1>0, <2>1 DEF PopperKnows, Index, DInv, TypeOK
    <3> QED BY Zenon, <3>1, <3>2, <3>3, <3>4, <3>5, <2>1, <2>2 DEF PopperKnows, consumer
  <2>3. CASE head # tail
    <3>1. size(head', tail') = n - 1 /\ n = Cap - 1 /\ n > 0
      <4>1. n = Cap - 1 /\ n > 0
        BY <2>1, <2>3, <1>t DEF size, Succ, Index
      <4>2. size(Succ(head), tail) = n - 1
        BY <2>3, <1>t, SizeFacts
      <4> QED BY Zenon, <4>1, <4>2, <2>1
    <3>2. Removed' = Removed + 1
      BY <3>1, <2>1, <1>t DEF Removed
    <3>3. LossKnown' /\ last' < Removed'
      BY <3>2, <2>1, <1>0 DEF LossKnown, consumer
    <3>4. DropperKnows'
      BY Zenon, <2>1 DEF DropperKnows
    <3>5. RingHolds'
      <4> SUFFICES ASSUME NEW k \in 0..(Cap - 1), k < n - 1
                   PROVE  buffer[At(head', k)] = Removed + 1 + 1 + k
        BY Zenon, <2>1, <3>1, <3>2, <1>0 DEF RingHolds
      <4>1. k + 1 \in 0..(Cap - 1) /\ k + 1 < n /\ k + 1 # 0
        BY <1>t
      <4>2. At(head', k) = At(head, k + 1)
        BY <4>1, <2>1, <1>t, AtFacts
      <4>3. buffer[At(head, k + 1)] = Removed + 1 + (k + 1)
        BY Zenon, <4>1, <1>0 DEF RingHolds
      <4> QED BY <4>2, <4>3, <1>t
    <3>6. PopperKnows'
      <4>1. CASE cpc = "idle"
        BY Zenon, <4>1, <2>1 DEF PopperKnows, consumer
      <4>2. CASE cpc # "idle"
        <5>1. lapped = 0 /\ lapped' = 1 /\ chead = head /\ chead' = chead
              /\ cpc' = cpc /\ citem' = citem
          BY <4>2, <2>1, <1>0 DEF PopperKnows, consumer
        <5>2. cpc = "store" => citem' = Removed'
          BY Zenon, <5>1, <3>2, <1>0 DEF PopperKnows
        <5>3. cpc # "store" => buffer'[chead'] = Removed'
          <6>1. 0 \in 0..(Cap - 1) /\ At(head, 0) = head /\ 0 < n
            BY <1>t, <3>1, AtFacts
          <6>2. cpc # "store" => buffer[head] = Removed + 1 + 0
            BY Zenon, <6>1, <1>0 DEF RingHolds
          <6> QED BY <6>2, <5>1, <2>1, <3>2, <1>t
        <5> QED BY <5>1, <5>2, <5>3, <3>3, <2>1 DEF PopperKnows
      <4> QED BY Zenon, <4>1, <4>2
    <3> QED BY Zenon, <3>3, <3>4, <3>5, <3>6
  <2> QED BY Zenon, <2>2, <2>3
<1>5. CASE PushWrite
  <2>1. /\ buffer' = [buffer EXCEPT ![tail] = pushed + 1] /\ n < Cap - 1
        /\ UNCHANGED <<head, tail, pushed, drop_count, consumer, lapped>>
        /\ ppc = "write" /\ ppc' = "publish" /\ Removed' = Removed
    BY Zenon, <1>5, <1>0 DEF PushWrite, DropperKnows, Removed
  <2>2. RingHolds'
    <3>1. ASSUME NEW k \in 0..(Cap - 1), k < n
          PROVE  buffer'[At(head, k)] = buffer[At(head, k)]
      <4>1. At(head, k) # tail /\ At(head, k) \in Index
        BY <3>1, <1>t, SizeFacts, AtFacts
      <4> QED BY Zenon, <4>1, <2>1, <1>0
    <3> QED BY Zenon, <3>1, <2>1, <1>0 DEF RingHolds, consumer
  <2>3. LossKnown' /\ DropperKnows'
    BY Zenon, <2>1, <1>0 DEF LossKnown, DropperKnows, consumer
  <2>4. PopperKnows'
    <3>1. cpc # "idle" /\ lapped = 1 => chead # tail
      BY <2>1, <1>0 DEF PopperKnows, size, Succ, Index
    <3>2. cpc # "idle" /\ lapped = 1 => buffer'[chead] = buffer[chead]
      BY Zenon, <3>1, <2>1, <1>0
    <3> QED BY Zenon, <3>2, <2>1, <1>0 DEF PopperKnows, consumer
  <2> QED BY Zenon, <2>2, <2>3, <2>4
<1>6. CASE PushPublish
  <2>1. /\ tail' = Succ(tail) /\ pushed' = pushed + 1 /\ ppc' = "idle"
        /\ UNCHANGED <<head, buffer, drop_count, phead, consumer, lapped>>
        /\ n < Cap - 1 /\ buffer[tail] = pushed + 1
    BY Zenon, <1>6, <1>0 DEF PushPublish, DropperKnows
  <2>2. size(head', tail') = n + 1 /\ At(head, n) = tail /\ tail' \in Index
    BY <2>1, <1>t, SizeFacts
  <2>3. Removed' = Removed
    BY <2>1, <2>2, <1>t DEF Removed
  <2>4. RingHolds'
    <3>1. ASSUME NEW k \in 0..(Cap - 1), k < n + 1,
                 ~(k = 0 /\ cpc = "store" /\ lapped = 0)
          PROVE  buffer[At(head, k)] = Removed + 1 + k
      <4>1. CASE k = n
        BY <4>1, <2>1, <2>2, <1>t
      <4>2. CASE k # n
        BY <4>2, <3>1, <1>0 DEF RingHolds
      <4> QED BY Zenon, <4>1, <4>2
    <3> QED BY ZenonT(30), <3>1, <2>1, <2>2, <2>3, <1>0 DEF RingHolds, consumer
  <2>5. LossKnown' /\ DropperKnows'
    BY Zenon, <2>1, <2>3, <1>0 DEF LossKnown, DropperKnows, consumer
  <2>6. PopperKnows'
    <3>1. head' # tail'
      BY <2>1, <2>2, <1>t, SizeFacts
    <3>2. cpc # "idle" /\ lapped = 1 => chead # tail
      BY <2>1, <1>0 DEF PopperKnows, size, Succ, Index
    <3> QED BY Zenon, <3>1, <3>2, <2>1, <2>3, <1>0 DEF PopperKnows, consumer
  <2> QED BY Zenon, <2>4, <2>5, <2>6
<1>7. CASE PopLoadHead
  <2>1. /\ chead' = head /\ cpc' = "check" /\ lapped' = 0 /\ cpc = "idle"
        /\ UNCHANGED <<head, buffer, producer, citem, last, popped>>
        /\ Removed' = Removed
    BY <1>7, <1>t DEF PopLoadHead, Removed, producer
  <2>2. lapped' # 1
    BY <2>1
  <2>3. RingHolds' /\ LossKnown' /\ DropperKnows'
    BY Zenon, <2>1, <1>0 DEF RingHolds, LossKnown, DropperKnows, producer
  <2>4. PopperKnows'
    BY Zenon, <2>1, <2>2 DEF PopperKnows
  <2> QED BY Zenon, <2>3, <2>4
<1>8. CASE PopLoadTail
  <2>1. /\ cpc' = (IF chead = tail THEN "idle" ELSE "read") /\ cpc = "check"
        /\ UNCHANGED <<head, buffer, producer, chead, citem, last, popped, lapped>>
        /\ Removed' = Removed
    BY Zenon, <1>8, <1>0 DEF PopLoadTail, Removed, producer
  <2> QED BY Zenon, <2>1, <1>0 DEF RingHolds, LossKnown, DropperKnows, PopperKnows,
                            producer
<1>9. CASE PopRead
  <2>1. /\ citem' = buffer[chead] /\ cpc' = "store" /\ cpc = "read"
        /\ buffer' = IF MoveEmpties THEN [buffer EXCEPT ![chead] = 0]
                                    ELSE buffer
        /\ UNCHANGED <<head, producer, chead, last, popped, lapped>>
        /\ Removed' = Removed
    BY Zenon, <1>9, <1>0 DEF PopRead, Removed, producer
  <2>2. ASSUME NEW i \in Index, i # chead PROVE buffer'[i] = buffer[i]
    BY Zenon, <2>1, <2>2, <1>0
  <2>3. ppc = "publish" => chead # tail
    <3>1. ppc = "publish" => n < Cap - 1
      BY Zenon, <1>0 DEF DropperKnows
    <3>2. (lapped = 0 => chead = head /\ head # tail) /\ (lapped = 1 => head = Succ(chead))
      BY Zenon, <2>1, <1>0 DEF PopperKnows
    <3>3. chead = tail /\ lapped = 1 => n = Cap - 1
      BY Zenon, <3>2, <1>t, FullRing
    <3> QED BY <3>1, <3>2, <3>3, <1>t
  <2>4. RingHolds'
    <3> SUFFICES ASSUME NEW k \in 0..(Cap - 1), k < n, ~(k = 0 /\ lapped = 0)
                 PROVE  buffer'[At(head, k)] = buffer[At(head, k)]
      BY Zenon, <2>1, <1>0 DEF RingHolds, producer
    <3>1. At(head, k) \in Index
      BY Zenon, <1>0, AtFacts
    <3>2. At(head, k) # chead
      <4>1. CASE lapped = 0
        <5>1. chead = head /\ k # 0
          BY Zenon, <4>1, <2>1, <1>0 DEF PopperKnows
        <5> QED BY <5>1, <1>t, AtFacts
      <4>2. CASE lapped = 1
        <5>1. head = Succ(chead)
          BY Zenon, <4>2, <2>1, <1>0 DEF PopperKnows
        <5>2. k < Cap - 1
          BY <1>t
        <5> QED BY <5>1, <5>2, <1>t DEF Succ, At, Index
      <4> QED BY Zenon, <4>1, <4>2, <1>t
    <3> QED BY Zenon, <3>1, <3>2, <2>2
  <2>5. LossKnown' /\ DropperKnows'
    BY Zenon, <2>1, <2>2, <2>3, <1>0 DEF LossKnown, DropperKnows, producer
  <2>6. PopperKnows'
    <3>1. lapped = 0 => buffer[head] = Removed + 1
      <4>1. 0 \in 0..(Cap - 1) /\ At(head, 0) = head /\ (lapped = 0 => 0 < n)
        BY <2>1, <1>0, AtFacts DEF PopperKnows
      <4> QED BY <4>1, <2>1, <1>0 DEF RingHolds
    <3> QED BY Zenon, <3>1, <2>1, <1>0 DEF PopperKnows, producer
  <2> QED BY Zenon, <2>4, <2>5, <2>6
<1>10. CASE PopStore
  <2>1. /\ head' = Succ(chead) /\ last' = citem /\ popped' = popped + 1
        /\ cpc = "store" /\ cpc' = "idle"
        /\ UNCHANGED <<buffer, producer, chead, citem, lapped>>
    BY Zenon, <1>10 DEF PopStore
  <2>2. PopperKnows'
    BY Zenon, <2>1 DEF PopperKnows
  <2>3. CASE lapped = 0
    <3>1. head' = Succ(head) /\ head # tail /\ citem = Removed + 1
      BY Zenon, <2>1, <2>3, <1>0 DEF PopperKnows
    <3>2. size(head', tail') = n - 1
      <4>1. size(Succ(head), tail) = n - 1
        BY <3>1, <1>t, SizeFacts
      <4> QED BY Zenon, <4>1, <3>1, <2>1 DEF producer
    <3>3. Removed' = Removed + 1
      BY <3>2, <2>1, <1>t DEF Removed, producer
    <3>4. RingHolds'
      <4> SUFFICES ASSUME NEW k \in 0..(Cap - 1), k < n - 1
                   PROVE  buffer[At(head', k)] = Removed + 1 + 1 + k
        BY Zenon, <2>1, <3>2, <3>3, <1>0 DEF RingHolds
      <4>1. k + 1 \in 0..(Cap - 1) /\ k + 1 < n /\ k + 1 # 0
        BY <1>t
      <4>2. At(head', k) = At(head, k + 1)
        BY <4>1, <3>1, <1>t, AtFacts
      <4>3. buffer[At(head, k + 1)] = Removed + 1 + (k + 1)
        BY Zenon, <4>1, <1>0 DEF RingHolds
      <4> QED BY <4>2, <4>3, <1>t
    <3>5. LossKnown'
      <4>1. /\ Removed <= popped + drop_count /\ Removed >= 0
            /\ popped \in Nat /\ drop_count \in Nat
        BY Zenon, <1>0 DEF LossKnown
      <4>2. last' = Removed + 1 /\ popped' = popped + 1 /\ drop_count' = drop_count
        BY Zenon, <2>1, <3>1 DEF producer
      <4> QED BY <4>1, <4>2, <3>3, <1>t DEF LossKnown
    <3>6. DropperKnows'
      <4>1. n < Cap - 1 => n - 1 < Cap - 1
        BY <1>t
      <4> QED BY Zenon, <4>1, <2>1, <3>2, <1>0 DEF DropperKnows, producer
    <3> QED BY Zenon, <3>4, <3>5, <3>6, <2>2
  <2>4. CASE lapped = 1
    <3>1. head' = head /\ citem = Removed
      BY Zenon, <2>1, <2>4, <1>0 DEF PopperKnows
    <3>2. size(head', tail') = n /\ Removed' = Removed
      BY Zenon, <3>1, <2>1 DEF Removed, producer
    <3>3. lapped # 0
      BY <2>4
    <3>4. RingHolds' /\ DropperKnows'
      BY Zenon, <2>1, <3>1, <3>2, <3>3, <1>0 DEF RingHolds, DropperKnows, producer
    <3>5. LossKnown'
      <4>1. /\ Removed <= popped + drop_count /\ Removed >= 0
            /\ popped \in Nat /\ drop_count \in Nat
        BY Zenon, <1>0 DEF LossKnown
      <4>2. last' = Removed /\ popped' = popped + 1 /\ drop_count' = drop_count
        BY Zenon, <2>1, <3>1 DEF producer
      <4> QED BY <4>1, <4>2, <3>2, <1>t DEF LossKnown
    <3> QED BY Zenon, <3>4, <3>5, <2>2
  <2> QED BY Zenon, <2>3, <2>4, <1>t
<1>11. CASE UNCHANGED vars
  BY Zenon, <1>11, <1>0 DEF vars, RingHolds, LossKnown, DropperKnows, PopperKnows,
                     Removed
<1> QED BY <1>1, <1>2, <1>3, <1>4, <1>5, <1>6, <1>7, <1>8, <1>9, <1>10, <1>11
        DEF DropNext, DropPush, Pop

(* drop_oldest_push keeps its inductive invariant. *)
THEOREM DropInvariant == DropSpec => []DInv
BY InitDInv, NextDInv, PTL DEF DropSpec

(***************************************************************************)
(* drop_oldest_push: until two drops overlap one try_pop, the producer     *)
(* never writes the slot the consumer reads and every item that left the   *)
(* ring was returned or counted.                                           *)
(***************************************************************************)
THEOREM DropIsSafeUntilLapped == DropSpec => []SafeUntilLapped
<1>1. DInv => SafeUntilLapped
  <2> SUFFICES ASSUME DInv, lapped < 2 PROVE NoSlotRace /\ LossCounted
    BY Zenon DEF SafeUntilLapped
  <2>0. /\ head \in Index /\ tail \in Index /\ chead \in Index
        /\ size(head, tail) \in 0..(Cap - 1) /\ Cap \in Nat \ {0}
        /\ lapped \in 0..1 /\ pushed \in Nat /\ popped \in Nat
        /\ drop_count \in Nat /\ LossKnown /\ DropperKnows /\ PopperKnows
    BY SizeFacts, QueueAssumption DEF DInv, TypeOK, Item
  <2>1. NoSlotRace
    <3> SUFFICES ASSUME ppc = "write", cpc = "read", tail = chead PROVE FALSE
      BY Zenon DEF NoSlotRace
    <3>1. size(head, tail) < Cap - 1
      BY Zenon, <2>0 DEF DropperKnows
    <3>2. lapped = 0 \/ lapped = 1
      BY <2>0
    <3>3. lapped = 1 /\ head = Succ(tail)
      BY Zenon, <2>0, <3>2 DEF PopperKnows
    <3>4. size(head, tail) = Cap - 1 /\ Cap \in Nat
      BY Zenon, <2>0, <3>3, FullRing, QueueAssumption
    <3> QED BY <3>1, <3>4
  <2>2. LossCounted
    BY <2>0 DEF LossCounted, LossKnown, Removed
  <2> QED BY Zenon, <2>1, <2>2
<1> QED BY <1>1, DropInvariant, PTL

(***************************************************************************)
(* drop_oldest_push: until two drops overlap one try_pop, what try_pop     *)
(* returns is newer than everything it returned before.                    *)
(***************************************************************************)
THEOREM DropIsInOrderUntilLapped == DropSpec => InOrderUntilLapped
<1>1. DInv /\ [DropNext]_vars => [popped' # popped /\ lapped < 2 => last' > last]_vars
  <2> SUFFICES ASSUME DInv, DropNext, popped' # popped, lapped < 2
               PROVE  last' > last
    BY Zenon DEF vars
  <2>1. PopStore
    BY Zenon DEF DropNext, DropPush, Pop, PushCall, DropPushLoad, DropCasOk,
           DropCasFail, PushWrite, PushPublish, PopLoadHead, PopLoadTail,
           PopRead, consumer
  <2>2. /\ lapped \in 0..1 /\ LossKnown /\ PopperKnows /\ last \in Nat
        /\ Removed \in Int
    BY SizeFacts, QueueAssumption DEF DInv, TypeOK, Item, Removed
  <2> QED BY <2>1, <2>2 DEF PopStore, LossKnown, PopperKnows
<1> QED BY <1>1, DropInvariant, PTL DEF DropSpec, InOrderUntilLapped
=============================================================================
