----------------------------- MODULE GpuProofs -----------------------------
(***************************************************************************)
(* The dispatcher of M02, for any number of streams, slots and CPIs and    *)
(* every limit of its queues: no CPI is lost track of, and those of a      *)
(* stream stay in order.                                                   *)
(***************************************************************************)
EXTENDS Gpu, Loops, FiniteSetTheorems

(***************************************************************************)
(* The dispatcher.                                                         *)
(***************************************************************************)
GpuTypes ==
    /\ rawQ \in [Streams -> Seq(Nat)] /\ plotsQ \in [Streams -> Seq(Nat)]
    /\ slots \in [Streams -> [Slots -> [cpi : Nat, old : BOOLEAN]]]
    /\ cpis \in [Streams -> Nat] /\ taken \in [Streams -> Nat]
    /\ displaced \in [Streams -> Nat] /\ failed \in [Streams -> Nat]
    /\ frames \in [submitted : Nat, completed : Nat, timeouts : Nat]
    /\ gpuPc \in {"off", "poll", "timeout", "submit"}
    /\ turn \in Streams /\ rr_index \in Streams

(* What is queued or held on a stream was pushed on it. *)
Pushed(q) ==
    /\ \A i \in 1..Len(rawQ[q]) : 1 <= rawQ[q][i] /\ rawQ[q][i] <= cpis[q]
    /\ \A i \in 1..Len(plotsQ[q]) : plotsQ[q][i] <= cpis[q]
    /\ \A s \in Slots : slots[q][s].cpi <= cpis[q]

(* At most one slot of a stream is occupied, and none from its poll on. *)
SlotsFree ==
    /\ \A q \in Streams : \A s, t \in Occupied(q) : s = t
    /\ gpuPc \in {"timeout", "submit"} => Occupied(Current) = {}

(* The blocks of a stream, from the consumer back to the producer. *)
InLine(q) ==
    /\ Ascending(plotsQ[q]) /\ Ascending(rawQ[q])
    /\ \A i \in 1..Len(plotsQ[q]), j \in 1..Len(rawQ[q]) : plotsQ[q][i] < rawQ[q][j]
    /\ \A s \in Occupied(q) :
         /\ \A i \in 1..Len(plotsQ[q]) : plotsQ[q][i] < slots[q][s].cpi
         /\ \A j \in 1..Len(rawQ[q]) : slots[q][s].cpi < rawQ[q][j]

Counted(q) ==
    cpis[q] = Len(rawQ[q]) + Cardinality(Occupied(q)) + Len(plotsQ[q])
                + taken[q] + displaced[q] + failed[q]

AllOccupied == {p \in Streams \X Slots : slots[p[1]][p[2]].cpi # 0}

FramesCounted ==
    /\ frames.submitted = frames.completed + Cardinality(AllOccupied)
    /\ frames.timeouts = 0

GpuInv ==
    /\ GpuTypes
    /\ SlotsFree
    /\ FramesCounted
    /\ \A q \in Streams : Pushed(q) /\ InLine(q) /\ Counted(q)

----------------------------------------------------------------------------
(* The stream a visit serves exists. *)
LEMMA CurrentIsStream == GpuTypes => Current \in Streams
<1>1. \A n \in Nat \ {0} : \A a, b \in 0..(n - 1) : (a + b) % n \in 0..(n - 1)
  OBVIOUS
<1>2. StreamCount \in Nat \ {0}
  BY Zenon, GpuAssumption
<1> QED BY Zenon, <1>1, <1>2 DEF GpuTypes, Current, Streams

(* What Head and Tail give of a queue that is not empty. *)
LEMMA PopFacts ==
    ASSUME NEW seq \in Seq(Nat), seq # << >>
    PROVE  /\ Tail(seq) \in Seq(Nat) /\ Len(Tail(seq)) = Len(seq) - 1
           /\ Len(seq) \in Nat \ {0} /\ Head(seq) = seq[1] /\ Head(seq) \in Nat
           /\ \A i \in 1..(Len(seq) - 1) : Tail(seq)[i] = seq[i + 1]
<1>1. Len(seq) \in Nat \ {0}
  BY Zenon, SeqNone, SeqLen
<1> QED BY Zenon, <1>1, SeqRest

(* What Append adds to a queue. *)
LEMMA PutFacts ==
    ASSUME NEW seq \in Seq(Nat), NEW x \in Nat
    PROVE  /\ Append(seq, x) \in Seq(Nat) /\ Len(Append(seq, x)) = Len(seq) + 1
           /\ Len(seq) \in Nat
           /\ \A i \in 1..(Len(seq) + 1) :
                Append(seq, x)[i] = IF i <= Len(seq) THEN seq[i] ELSE x
<1>1. Len(seq) \in Nat
  BY Zenon, SeqLen
<1> QED BY <1>1, SeqPut

(* The slots are finitely many. *)
LEMMA SlotsFinite ==
    /\ IsFiniteSet(AllOccupied)
    /\ \A q : IsFiniteSet(Occupied(q))
<1>1. IsFiniteSet(Streams) /\ IsFiniteSet(Slots)
  <2>1. 0 \in Int /\ StreamCount - 1 \in Int /\ InflightMax - 1 \in Int
    BY GpuAssumption
  <2> QED BY Zenon, <2>1, FS_Interval DEF Streams, Slots
<1>2. IsFiniteSet(Streams \X Slots)
  BY Zenon, <1>1, FS_Product
<1>3. AllOccupied \in SUBSET (Streams \X Slots)
  BY Zenon DEF AllOccupied
<1>4. \A q : Occupied(q) \in SUBSET Slots
  BY Zenon DEF Occupied
<1> QED BY Zenon, <1>1, <1>2, <1>3, <1>4, FS_Subset

(* A single slot counts as one. *)
LEMMA OneSlot == \A s : Cardinality({s}) = 1
BY Zenon, FS_Singleton

(* With nothing submitted the invariant holds. *)
LEMMA GpuStarts == GpuInit => GpuInv
<1> SUFFICES ASSUME GpuInit PROVE GpuInv
  BY Zenon
<1>0. 0 \in Streams /\ << >> \in Seq(Nat) /\ Len(<< >>) = 0
  BY GpuAssumption, SeqNone DEF Streams
<1>1. GpuTypes
  BY Zenon, <1>0 DEF GpuInit, GpuTypes, FreeSlot
<1>2. ASSUME NEW q \in Streams PROVE Occupied(q) = {}
  BY Zenon DEF GpuInit, Occupied, FreeSlot
<1>3. AllOccupied = {}
  BY Zenon DEF GpuInit, AllOccupied, FreeSlot
<1>4. FramesCounted
  BY <1>3, FS_EmptySet DEF FramesCounted, GpuInit
<1>5. SlotsFree
  BY Zenon, <1>2 DEF SlotsFree, GpuInit
<1>6. ASSUME NEW q \in Streams PROVE Pushed(q) /\ InLine(q) /\ Counted(q)
  <2>1. /\ rawQ[q] = << >> /\ plotsQ[q] = << >> /\ cpis[q] = 0 /\ taken[q] = 0
        /\ displaced[q] = 0 /\ failed[q] = 0
        /\ \A s \in Slots : slots[q][s].cpi = 0
    BY Zenon DEF GpuInit, FreeSlot
  <2>2. Pushed(q) /\ InLine(q)
    BY <1>0, <1>2, <2>1 DEF Pushed, InLine, Ascending
  <2>3. Counted(q)
    <3>1. Cardinality(Occupied(q)) = 0
      BY Zenon, <1>2, FS_EmptySet
    <3>2. Len(rawQ[q]) = 0 /\ Len(plotsQ[q]) = 0
      BY Zenon, <1>0, <2>1
    <3> QED BY <2>1, <3>1, <3>2 DEF Counted
  <2> QED BY Zenon, <2>2, <2>3
<1> QED BY Zenon, <1>1, <1>4, <1>5, <1>6 DEF GpuInv

(* A visit ends without touching queues or slots. *)
LEMMA EndsTyped ==
    ASSUME GpuTypes, VisitEnds
    PROVE  turn' \in Streams /\ rr_index' \in Streams /\ gpuPc' \in {"off", "poll"}
<1>1. CASE turn + 1 < StreamCount
  BY <1>1, GpuAssumption DEF GpuTypes, VisitEnds, Streams
<1>2. CASE ~(turn + 1 < StreamCount)
  <2>1. turn' = 0 /\ rr_index' = (rr_index + 1) % StreamCount
        /\ gpuPc' = IF gpuRunning THEN "poll" ELSE "off"
    BY Zenon, <1>2 DEF VisitEnds
  <2>2. gpuPc' \in {"off", "poll"}
    BY <2>1, Zenon
  <2>3. rr_index + 1 \in Nat
    BY GpuAssumption DEF GpuTypes, Streams
  <2>4. rr_index' \in Streams
    BY <2>1, <2>3, GpuAssumption DEF Streams
  <2>5. 0 \in Streams
    BY GpuAssumption DEF Streams
  <2> QED BY Zenon, <2>1, <2>2, <2>4, <2>5
<1> QED BY Zenon, <1>1, <1>2

(* Nothing about stream q changed. *)
LEMMA StreamKept ==
    ASSUME NEW q, Pushed(q), InLine(q), Counted(q),
           rawQ'[q] = rawQ[q], plotsQ'[q] = plotsQ[q], slots'[q] = slots[q],
           cpis'[q] = cpis[q], taken'[q] = taken[q], displaced'[q] = displaced[q],
           failed'[q] = failed[q]
    PROVE  Occupied(q)' = Occupied(q) /\ Pushed(q)' /\ InLine(q)' /\ Counted(q)'
<1>1. Occupied(q)' = Occupied(q)
  BY Zenon DEF Occupied
<1> QED BY Zenon, <1>1 DEF Pushed, InLine, Counted

(* poll_completion hands out the one batch of its stream. *)
LEMMA PollStep == ASSUME GpuInv, poll_completion PROVE GpuInv'
<1>q. PICK q \in Streams : q = Current
  BY Zenon, CurrentIsStream DEF GpuInv
<1>0. /\ GpuTypes /\ q \in Streams /\ gpuPc = "poll" /\ gpuPc' = "timeout"
      /\ UNCHANGED <<rawQ, turn, rr_index, gpuRunning, cpis, taken, failed>>
      /\ Current' = q
  BY Zenon, <1>q DEF GpuInv, poll_completion, Current
<1>1. CASE Occupied(q) = {}
  <2>1. UNCHANGED <<slots, plotsQ, displaced, frames>>
    BY Zenon, <1>q, <1>1 DEF poll_completion
  <2>2. GpuTypes'
    BY Zenon, <1>0, <2>1 DEF GpuTypes
  <2>3. \A r \in Streams : Occupied(r)' = Occupied(r)
    BY Zenon, <2>1 DEF Occupied
  <2>4. SlotsFree'
    BY Zenon, <1>q, <1>0, <1>1, <2>3 DEF GpuInv, SlotsFree
  <2>5. AllOccupied' = AllOccupied
    BY Zenon, <2>1 DEF AllOccupied
  <2> QED BY <1>0, <2>1, <2>2, <2>3, <2>4, <2>5
          DEF GpuInv, FramesCounted, Pushed, InLine, Counted
<1>2. CASE Occupied(q) # {}
  <2>1. PICK s \in Slots : Occupied(q) = {s} /\ slots[q][s].cpi # 0
    BY <1>0, <1>2 DEF GpuInv, SlotsFree, Occupied
  <2>2. Lowest(Occupied(q)) = s
    BY <2>1, GpuAssumption DEF Lowest, Slots
  <2> DEFINE x == slots[q][s].cpi
             kept == IF Displacing(q) THEN Tail(plotsQ[q]) ELSE plotsQ[q]
             gone == IF Displacing(q) THEN 1 ELSE 0
  <2>3. /\ slots' = [slots EXCEPT ![q][s] = FreeSlot]
        /\ plotsQ' = [plotsQ EXCEPT ![q] = Append(kept, x)]
        /\ displaced' = [displaced EXCEPT ![q] = @ + gone]
        /\ frames' = [frames EXCEPT !.completed = @ + 1]
    BY Zenon, <1>q, <1>2, <2>2 DEF poll_completion
  <2>4. /\ kept \in Seq(Nat) /\ Len(plotsQ[q]) \in Nat
        /\ Len(kept) = Len(plotsQ[q]) - gone
        /\ \A i \in 1..Len(kept) : \E d \in 0..1 :
             /\ i + d \in 1..Len(plotsQ[q])
             /\ \A j \in 1..Len(kept) : j + d \in 1..Len(plotsQ[q])
                                       /\ kept[j] = plotsQ[q][j + d]
    <3>0. plotsQ[q] \in Seq(Nat) /\ Len(plotsQ[q]) \in Nat
      BY Zenon, <1>0, SeqLen DEF GpuTypes
    <3>1. CASE Displacing(q)
      <4>1. plotsQ[q] # << >>
        BY Zenon, <3>1, <3>0, GpuAssumption, SeqNone DEF Displacing
      <4>2. /\ Tail(plotsQ[q]) \in Seq(Nat)
            /\ Len(Tail(plotsQ[q])) = Len(plotsQ[q]) - 1
            /\ \A i \in 1..(Len(plotsQ[q]) - 1) :
                 Tail(plotsQ[q])[i] = plotsQ[q][i + 1]
        BY Zenon, <4>1, <3>0, PopFacts
      <4> QED BY <4>2, <3>0, <3>1
    <3>2. CASE ~Displacing(q)
      BY <3>2, <3>0
    <3> QED BY Zenon, <3>1, <3>2
  <2>5. x \in Nat /\ x # 0 /\ gone \in Nat
    <3>1. slots[q] \in [Slots -> [cpi : Nat, old : BOOLEAN]]
      BY Zenon, <1>0 DEF GpuTypes
    <3>2. slots[q][s] \in [cpi : Nat, old : BOOLEAN]
      BY Zenon, <3>1
    <3>3. gone \in {0, 1}
      BY Zenon
    <3>4. gone \in Nat
      BY Zenon, <3>3
    <3> QED BY Zenon, <2>1, <3>2, <3>4
  <2>6. /\ plotsQ'[q] = Append(kept, x) /\ plotsQ'[q] \in Seq(Nat)
        /\ Len(plotsQ'[q]) = Len(kept) + 1 /\ Len(kept) \in Nat
        /\ \A i \in 1..(Len(kept) + 1) :
             plotsQ'[q][i] = IF i <= Len(kept) THEN kept[i] ELSE x
    <3> HIDE DEF kept, x
    <3>1. plotsQ'[q] = Append(kept, x)
      BY Zenon, <2>3, <1>0 DEF GpuTypes
    <3>2. kept \in Seq(Nat) /\ x \in Nat
      BY Zenon, <2>4, <2>5
    <3> QED BY <3>1, <3>2, PutFacts
  <2> HIDE DEF kept, gone, x
  <2>7. /\ slots'[q] = [slots[q] EXCEPT ![s] = FreeSlot]
        /\ \A r \in Streams \ {q} : /\ slots'[r] = slots[r] /\ plotsQ'[r] = plotsQ[r]
                                    /\ displaced'[r] = displaced[r]
        /\ displaced'[q] = displaced[q] + gone
    BY Zenon, <2>3, <1>0 DEF GpuTypes
  <2>8. GpuTypes'
    <3>1. slots' \in [Streams -> [Slots -> [cpi : Nat, old : BOOLEAN]]]
      BY Zenon, <2>3, <1>0 DEF GpuTypes, FreeSlot
    <3>2. plotsQ' \in [Streams -> Seq(Nat)]
      BY Zenon, <2>3, <2>6, <1>0 DEF GpuTypes
    <3>3. displaced' \in [Streams -> Nat]
      <4>1. displaced \in [Streams -> Nat]
        BY Zenon, <1>0 DEF GpuTypes
      <4> QED BY <2>3, <2>5, <4>1
    <3>4. frames' \in [submitted : Nat, completed : Nat, timeouts : Nat]
      <4>1. frames \in [submitted : Nat, completed : Nat, timeouts : Nat]
        BY Zenon, <1>0 DEF GpuTypes
      <4> QED BY <2>3, <4>1
    <3> QED BY Zenon, <1>0, <3>1, <3>2, <3>3, <3>4 DEF GpuTypes
  <2>9. Occupied(q)' = {}
    <3>1. \A t \in Slots : slots'[q][t].cpi = IF t = s THEN 0 ELSE slots[q][t].cpi
      <4>1. slots[q] \in [Slots -> [cpi : Nat, old : BOOLEAN]]
        BY Zenon, <1>0 DEF GpuTypes
      <4> QED BY <2>7, <4>1 DEF FreeSlot
    <3>2. \A t \in Slots : t # s => slots[q][t].cpi = 0
      BY Zenon, <2>1 DEF Occupied
    <3> QED BY Zenon, <3>1, <3>2 DEF Occupied
  <2>10. \A r \in Streams \ {q} : Occupied(r)' = Occupied(r)
    BY Zenon, <2>7 DEF Occupied
  <2>11. SlotsFree'
    <3>1. \A r \in Streams : Occupied(r)' = IF r = q THEN {} ELSE Occupied(r)
      BY Zenon, <2>9, <2>10
    <3>2. Occupied(Current)' = {}
      BY Zenon, <1>0, <2>9
    <3> QED BY <3>1, <3>2 DEF GpuInv, SlotsFree
  <2>12. FramesCounted'
    <3>1. AllOccupied' = AllOccupied \ {<<q, s>>} /\ <<q, s>> \in AllOccupied
      <4>1. <<q, s>> \in AllOccupied
        BY Zenon, <1>0, <2>1 DEF AllOccupied
      <4>2. \A r \in Streams, t \in Slots :
              slots'[r][t].cpi = IF r = q /\ t = s THEN 0 ELSE slots[r][t].cpi
        BY Zenon, <2>3, <1>0, <2>1 DEF GpuTypes, FreeSlot
      <4> QED BY <4>1, <4>2 DEF AllOccupied
    <3>2. Cardinality(AllOccupied') = Cardinality(AllOccupied) - 1
          /\ Cardinality(AllOccupied) \in Nat
      BY Zenon, <3>1, SlotsFinite, FS_RemoveElement, FS_CardinalityType
    <3>3. /\ frames'.completed = frames.completed + 1
          /\ frames'.submitted = frames.submitted
          /\ frames'.timeouts = frames.timeouts
          /\ frames.completed \in Nat /\ frames.submitted \in Nat
      BY Zenon, <2>3, <1>0 DEF GpuTypes
    <3> QED BY <3>2, <3>3 DEF GpuInv, FramesCounted
  <2>13. Counted(q)'
    <3>1. Cardinality(Occupied(q)) = 1 /\ Cardinality(Occupied(q)') = 0
      BY Zenon, <2>1, <2>9, FS_EmptySet, OneSlot
    <3>2. /\ Len(rawQ[q]) \in Nat /\ taken[q] \in Nat /\ displaced[q] \in Nat
          /\ failed[q] \in Nat /\ cpis[q] \in Nat
      BY Zenon, <1>0, SeqLen DEF GpuTypes
    <3>3. Counted(q)
      BY Zenon, <1>0 DEF GpuInv
    <3>4. /\ Len(plotsQ'[q]) = Len(plotsQ[q]) - gone + 1 /\ Len(plotsQ[q]) \in Nat
          /\ displaced'[q] = displaced[q] + gone /\ gone \in Nat
      BY <2>4, <2>5, <2>6, <2>7
    <3>5. rawQ'[q] = rawQ[q] /\ cpis'[q] = cpis[q] /\ taken'[q] = taken[q] /\ failed'[q] = failed[q]
      BY Zenon, <1>0
    <3>6. cpis[q] = Len(rawQ[q]) + 1 + Len(plotsQ[q]) + taken[q] + displaced[q] + failed[q]
      BY Zenon, <3>1, <3>3 DEF Counted
    <3>7. cpis[q] = Len(rawQ[q]) + 0 + (Len(plotsQ[q]) - gone + 1) + taken[q]
                      + (displaced[q] + gone) + failed[q]
      <4>1. PICK a, b, t, d, f, g \in Nat :
              /\ a = Len(rawQ[q]) /\ b = Len(plotsQ[q]) /\ t = taken[q]
              /\ d = displaced[q] /\ f = failed[q] /\ g = gone
        BY Zenon, <3>2, <3>4
      <4>2. cpis[q] = a + 1 + b + t + d + f
        BY Zenon, <3>6, <4>1
      <4>3. cpis[q] = a + 0 + (b - g + 1) + t + (d + g) + f
        BY <4>2
      <4> QED BY Zenon, <4>1, <4>3
    <3>8. Cardinality(Occupied(q))' = 0
      BY Zenon, <3>1
    <3> QED BY Zenon, <3>4, <3>5, <3>7, <3>8 DEF Counted
  <2>14. Pushed(q) /\ InLine(q)
    BY Zenon, <1>0 DEF GpuInv
  <2>15. /\ \A i \in 1..Len(kept) : /\ kept[i] <= cpis[q] /\ kept[i] < x
                                    /\ \A j \in 1..Len(rawQ[q]) : kept[i] < rawQ[q][j]
         /\ Ascending(kept)
         /\ x <= cpis[q] /\ \A j \in 1..Len(rawQ[q]) : x < rawQ[q][j]
    <3>1. \A i \in 1..Len(kept) : \E k \in 1..Len(plotsQ[q]) : kept[i] = plotsQ[q][k]
      BY Zenon, <2>4
    <3>2. Ascending(kept)
      <4> SUFFICES ASSUME NEW i \in 1..Len(kept), NEW j \in 1..Len(kept), i < j
                   PROVE  kept[i] < kept[j]
        BY Zenon DEF Ascending
      <4>1. PICK d \in 0..1 : /\ i + d \in 1..Len(plotsQ[q])
                              /\ \A k \in 1..Len(kept) : k + d \in 1..Len(plotsQ[q])
                                                        /\ kept[k] = plotsQ[q][k + d]
        BY Zenon, <2>4
      <4>2. i + d < j + d
        BY <2>6
      <4> QED BY Zenon, <4>1, <4>2, <2>14 DEF InLine, Ascending
    <3>3. s \in Occupied(q) /\ s \in Slots
      BY Zenon, <2>1
    <3>4. x <= cpis[q] /\ \A j \in 1..Len(rawQ[q]) : x < rawQ[q][j]
      BY Zenon, <3>3, <2>14 DEF Pushed, InLine, x
    <3>5. \A k \in 1..Len(plotsQ[q]) : /\ plotsQ[q][k] <= cpis[q] /\ plotsQ[q][k] < x
                                       /\ \A j \in 1..Len(rawQ[q]) : plotsQ[q][k] < rawQ[q][j]
      BY Zenon, <3>3, <2>14 DEF Pushed, InLine, x
    <3> QED BY Zenon, <3>1, <3>2, <3>4, <3>5
  <2>16. Pushed(q)'
    <3>1. \A t \in Slots : slots'[q][t].cpi <= cpis[q]
      BY <2>7, <2>14, <1>0 DEF Pushed, GpuTypes, FreeSlot
    <3>2. \A i \in 1..Len(plotsQ'[q]) : plotsQ'[q][i] <= cpis[q]
      BY <2>6, <2>15
    <3> QED BY Zenon, <1>0, <2>14, <3>1, <3>2 DEF Pushed
  <2>17. InLine(q)'
    <3>1. Ascending(plotsQ'[q])
      BY <2>6, <2>15 DEF Ascending
    <3>2. \A i \in 1..Len(plotsQ'[q]), j \in 1..Len(rawQ[q]) : plotsQ'[q][i] < rawQ[q][j]
      BY <2>6, <2>15
    <3> QED BY Zenon, <1>0, <2>9, <2>14, <3>1, <3>2 DEF InLine
  <2>18. ASSUME NEW r \in Streams, r # q PROVE Pushed(r)' /\ InLine(r)' /\ Counted(r)'
    BY Zenon, <1>0, <2>7, <2>18, StreamKept DEF GpuInv
  <2> QED BY Zenon, <2>8, <2>11, <2>12, <2>13, <2>16, <2>17, <2>18 DEF GpuInv
<1> QED BY Zenon, <1>1, <1>2

(* A step that leaves the queues, the slots and their counters alone. *)
LEMMA QuietStep ==
    ASSUME GpuInv,
           UNCHANGED <<rawQ, plotsQ, slots, cpis, taken, displaced, failed, frames>>,
           turn' \in Streams, rr_index' \in Streams,
           gpuPc' \in {"off", "poll", "timeout", "submit"},
           gpuPc' \in {"timeout", "submit"} => Occupied(Current)' = {}
    PROVE  GpuInv'
<1>1. GpuTypes'
  BY Zenon DEF GpuInv, GpuTypes
<1>2. \A r \in Streams : Occupied(r)' = Occupied(r)
  BY Zenon DEF Occupied
<1>3. SlotsFree'
  BY <1>2 DEF GpuInv, SlotsFree
<1>4. AllOccupied' = AllOccupied
  BY Zenon DEF AllOccupied
<1>5. FramesCounted'
  BY Zenon, <1>4 DEF GpuInv, FramesCounted
<1>6. ASSUME NEW r \in Streams PROVE Pushed(r)' /\ InLine(r)' /\ Counted(r)'
  <2>1. Pushed(r) /\ InLine(r) /\ Counted(r) /\ Occupied(r)' = Occupied(r)
    BY Zenon, <1>2 DEF GpuInv
  <2>2. Pushed(r)'
    BY Zenon, <2>1 DEF Pushed
  <2>3. InLine(r)'
    BY Zenon, <2>1 DEF InLine
  <2>4. Counted(r)'
    BY Zenon, <2>1 DEF Counted
  <2> QED BY Zenon, <2>2, <2>3, <2>4
<1> QED BY Zenon, <1>1, <1>3, <1>5, <1>6 DEF GpuInv

(* handle_timeout finds nothing to give up: the poll just emptied the stream. *)
LEMMA TimeoutStep == ASSUME GpuInv, handle_timeout PROVE GpuInv'
<1>q. PICK q \in Streams : q = Current
  BY Zenon, CurrentIsStream DEF GpuInv
<1>0. /\ GpuTypes /\ gpuPc = "timeout" /\ gpuPc' = "submit" /\ Current' = q
      /\ UNCHANGED <<rawQ, plotsQ, turn, rr_index, gpuRunning, cpis, taken, displaced, failed>>
  BY Zenon, <1>q DEF GpuInv, handle_timeout, Current
<1>1. Occupied(q) = {}
  BY Zenon, <1>q, <1>0 DEF GpuInv, SlotsFree
<1>2. {s \in Occupied(q) : slots[q][s].old} = {}
  BY Zenon, <1>1
<1>3. slots' = slots
  <2>1. slots' = [slots EXCEPT ![q] = [s \in Slots |-> slots[q][s]]]
    BY Zenon, <1>q, <1>2 DEF handle_timeout
  <2>2. slots[q] = [s \in Slots |-> slots[q][s]]
    BY Zenon, <1>0 DEF GpuTypes
  <2> QED BY Zenon, <2>1, <2>2, <1>0 DEF GpuTypes
<1>4. frames' = frames
  <2>1. frames' = [frames EXCEPT !.timeouts = @ + 0]
    BY Zenon, <1>q, <1>2, FS_EmptySet DEF handle_timeout
  <2>2. frames \in [submitted : Nat, completed : Nat, timeouts : Nat]
    BY Zenon, <1>0 DEF GpuTypes
  <2> QED BY <2>1, <2>2
<1>5. Occupied(Current)' = {}
  BY Zenon, <1>0, <1>1, <1>3 DEF Occupied
<1>6. turn' \in Streams /\ rr_index' \in Streams
  BY Zenon, <1>0 DEF GpuTypes
<1> QED BY Zenon, <1>0, <1>3, <1>4, <1>5, <1>6, QuietStep

(* A visit that has nothing to submit keeps the invariant. *)
LEMMA NothingStep == ASSUME GpuInv, NothingToSubmit PROVE GpuInv'
<1>1. turn' \in Streams /\ rr_index' \in Streams /\ gpuPc' \in {"off", "poll"}
  BY Zenon, EndsTyped DEF GpuInv, NothingToSubmit
<1> QED BY Zenon, <1>1, QuietStep DEF NothingToSubmit

(* Start and stop of the dispatcher keep the invariant. *)
LEMMA StartStopStep == ASSUME GpuInv, start \/ stop PROVE GpuInv'
<1>0. GpuTypes /\ 0 \in Streams
  BY GpuAssumption DEF GpuInv, Streams
<1>1. CASE start
  BY Zenon, <1>0, <1>1, QuietStep DEF start, GpuTypes
<1>2. CASE stop
  <2>1. Current' = Current /\ gpuPc' = gpuPc /\ slots' = slots
    BY Zenon, <1>2 DEF stop, Current
  <2>2. gpuPc' \in {"timeout", "submit"} => Occupied(Current)' = {}
    <3>1. Occupied(Current)' = Occupied(Current)
      BY Zenon, <2>1 DEF Occupied
    <3> QED BY Zenon, <2>1, <3>1 DEF GpuInv, SlotsFree
  <2> QED BY Zenon, <1>0, <1>2, <2>2, QuietStep DEF stop, GpuTypes
<1> QED BY Zenon, <1>1, <1>2

(* The oldest waiting block of q is popped: what stays is still in line. *)
LEMMA PopRaw ==
    ASSUME GpuInv, NEW q \in Streams, rawQ[q] # << >>,
           rawQ' = [rawQ EXCEPT ![q] = Tail(@)]
    PROVE  /\ rawQ' \in [Streams -> Seq(Nat)]
           /\ Len(rawQ[q]) \in Nat /\ Len(rawQ'[q]) = Len(rawQ[q]) - 1
           /\ \A r \in Streams \ {q} : rawQ'[r] = rawQ[r]
           /\ Head(rawQ[q]) \in Nat \ {0} /\ Head(rawQ[q]) <= cpis[q]
           /\ Ascending(rawQ'[q])
           /\ \A i \in 1..Len(rawQ'[q]) : /\ Head(rawQ[q]) < rawQ'[q][i]
                                           /\ 1 <= rawQ'[q][i] /\ rawQ'[q][i] <= cpis[q]
           /\ \A i \in 1..Len(plotsQ[q]) : /\ plotsQ[q][i] < Head(rawQ[q])
                                            /\ \A j \in 1..Len(rawQ'[q]) : plotsQ[q][i] < rawQ'[q][j]
<1>0. rawQ \in [Streams -> Seq(Nat)] /\ rawQ[q] \in Seq(Nat)
  BY Zenon DEF GpuInv, GpuTypes
<1>1. /\ Tail(rawQ[q]) \in Seq(Nat) /\ Len(Tail(rawQ[q])) = Len(rawQ[q]) - 1
      /\ Len(rawQ[q]) \in Nat \ {0} /\ Head(rawQ[q]) = rawQ[q][1]
      /\ Head(rawQ[q]) \in Nat
      /\ \A i \in 1..(Len(rawQ[q]) - 1) : Tail(rawQ[q])[i] = rawQ[q][i + 1]
  BY Zenon, <1>0, PopFacts
<1>2. rawQ'[q] = Tail(rawQ[q]) /\ \A r \in Streams \ {q} : rawQ'[r] = rawQ[r]
  BY Zenon, <1>0
<1>3. rawQ' \in [Streams -> Seq(Nat)]
  BY Zenon, <1>0, <1>1
<1>4. Pushed(q) /\ InLine(q)
  BY Zenon DEF GpuInv
<1>5. \A i \in 1..Len(rawQ'[q]) : i + 1 \in 1..Len(rawQ[q]) /\ 1 < i + 1
                                 /\ rawQ'[q][i] = rawQ[q][i + 1]
  <2> SUFFICES ASSUME NEW i \in 1..Len(rawQ'[q])
               PROVE  i + 1 \in 1..Len(rawQ[q]) /\ 1 < i + 1 /\ rawQ'[q][i] = rawQ[q][i + 1]
    BY Zenon
  <2>0. Len(rawQ'[q]) = Len(rawQ[q]) - 1 /\ Len(rawQ[q]) \in Nat
    BY Zenon, <1>1, <1>2
  <2>1. i \in 1..(Len(rawQ[q]) - 1) /\ i \in Nat
    BY <2>0
  <2>2. rawQ'[q][i] = rawQ[q][i + 1]
    BY Zenon, <1>1, <1>2, <2>1
  <2> QED BY <1>1, <2>1, <2>2
<1>6. 1 \in 1..Len(rawQ[q])
  BY <1>1
<1>7. Head(rawQ[q]) \in Nat \ {0} /\ Head(rawQ[q]) <= cpis[q]
  BY <1>1, <1>4, <1>6 DEF Pushed
<1>8. Ascending(rawQ'[q])
  <2> SUFFICES ASSUME NEW i \in 1..Len(rawQ'[q]), NEW j \in 1..Len(rawQ'[q]), i < j
               PROVE  rawQ'[q][i] < rawQ'[q][j]
    BY Zenon DEF Ascending
  <2>1. i + 1 < j + 1
    BY <1>1, <1>2
  <2> QED BY Zenon, <1>4, <1>5, <2>1 DEF InLine, Ascending
<1>9. \A i \in 1..Len(rawQ'[q]) : /\ Head(rawQ[q]) < rawQ'[q][i]
                                  /\ 1 <= rawQ'[q][i] /\ rawQ'[q][i] <= cpis[q]
  BY <1>1, <1>4, <1>5, <1>6 DEF Pushed, InLine, Ascending
<1>10. \A i \in 1..Len(plotsQ[q]) : /\ plotsQ[q][i] < Head(rawQ[q])
                                    /\ \A j \in 1..Len(rawQ'[q]) : plotsQ[q][i] < rawQ'[q][j]
  BY Zenon, <1>1, <1>4, <1>5, <1>6 DEF InLine
<1> QED BY Zenon, <1>1, <1>2, <1>3, <1>7, <1>8, <1>9, <1>10

(* submit_cpi puts the popped block in the only occupied slot of its stream. *)
LEMMA SubmitStep == ASSUME GpuInv, submit_cpi PROVE GpuInv'
<1>q. PICK q \in Streams : q = Current
  BY Zenon, CurrentIsStream DEF GpuInv
<1> DEFINE x == Head(rawQ[q])
           s == find_free_slot(q)
<1>0. /\ GpuTypes /\ gpuPc = "submit" /\ rawQ[q] # << >> /\ VisitEnds
      /\ rawQ' = [rawQ EXCEPT ![q] = Tail(@)]
      /\ frames' = [frames EXCEPT !.submitted = @ + 1]
      /\ slots' = [slots EXCEPT ![q][s] = [cpi |-> x, old |-> FALSE]]
      /\ UNCHANGED <<plotsQ, gpuRunning, cpis, taken, displaced, failed>>
  BY Zenon, <1>q DEF GpuInv, submit_cpi
<1>1. Occupied(q) = {}
  BY Zenon, <1>q, <1>0 DEF GpuInv, SlotsFree
<1>2. s \in Slots
  <2>1. s = Lowest(Slots)
    BY Zenon, <1>1 DEF find_free_slot
  <2>2. 0 \in Slots /\ \A t \in Slots : 0 <= t
    BY GpuAssumption DEF Slots
  <2> QED BY Zenon, <2>1, <2>2 DEF Lowest
<1>3. PICK t \in Slots : t = s
  BY Zenon, <1>2
<1>4. PICK n \in Nat \ {0} : n = x
  BY Zenon, <1>0, PopRaw
<1> HIDE DEF x, s
<1>5. slots' = [slots EXCEPT ![q][t] = [cpi |-> n, old |-> FALSE]]
  BY Zenon, <1>0, <1>3, <1>4
<1>6. turn' \in Streams /\ rr_index' \in Streams /\ gpuPc' \in {"off", "poll"}
  BY Zenon, <1>0, EndsTyped
<1>7. \A r \in Streams, u \in Slots :
        slots'[r][u].cpi = IF r = q /\ u = t THEN n ELSE slots[r][u].cpi
  <2>1. slots \in [Streams -> [Slots -> [cpi : Nat, old : BOOLEAN]]]
    BY Zenon, <1>0 DEF GpuTypes
  <2> QED BY Zenon, <1>5, <2>1
<1>8. \A r \in Streams \ {q} : slots'[r] = slots[r]
  BY Zenon, <1>5, <1>0 DEF GpuTypes
<1>9. Occupied(q)' = {t}
  <2>1. \A u \in Slots : slots[q][u].cpi = 0
    BY Zenon, <1>1 DEF Occupied
  <2> QED BY <1>7, <2>1 DEF Occupied
<1>10. \A r \in Streams \ {q} : Occupied(r)' = Occupied(r)
  BY Zenon, <1>8 DEF Occupied
<1>11. /\ rawQ' \in [Streams -> Seq(Nat)]
       /\ Len(rawQ[q]) \in Nat /\ Len(rawQ'[q]) = Len(rawQ[q]) - 1
       /\ \A r \in Streams \ {q} : rawQ'[r] = rawQ[r]
       /\ n <= cpis[q]
       /\ Ascending(rawQ'[q])
       /\ \A i \in 1..Len(rawQ'[q]) : /\ n < rawQ'[q][i]
                                       /\ 1 <= rawQ'[q][i] /\ rawQ'[q][i] <= cpis[q]
       /\ \A i \in 1..Len(plotsQ[q]) : /\ plotsQ[q][i] < n
                                        /\ \A j \in 1..Len(rawQ'[q]) : plotsQ[q][i] < rawQ'[q][j]
  BY Zenon, <1>0, <1>4, PopRaw DEF x
<1>12. GpuTypes'
  <2>1. slots' \in [Streams -> [Slots -> [cpi : Nat, old : BOOLEAN]]]
    <3>1. slots \in [Streams -> [Slots -> [cpi : Nat, old : BOOLEAN]]]
      BY Zenon, <1>0 DEF GpuTypes
    <3>2. [cpi |-> n, old |-> FALSE] \in [cpi : Nat, old : BOOLEAN]
      BY Zenon
    <3> QED BY Zenon, <1>5, <3>1, <3>2
  <2>2. frames' \in [submitted : Nat, completed : Nat, timeouts : Nat]
    <3>1. frames \in [submitted : Nat, completed : Nat, timeouts : Nat]
      BY Zenon, <1>0 DEF GpuTypes
    <3> QED BY <1>0, <3>1
  <2> QED BY Zenon, <1>0, <1>6, <1>11, <2>1, <2>2 DEF GpuTypes
<1>13. SlotsFree'
  <2>1. \A r \in Streams : Occupied(r)' = IF r = q THEN {t} ELSE Occupied(r)
    BY Zenon, <1>9, <1>10
  <2> QED BY <1>6, <2>1 DEF GpuInv, SlotsFree
<1>14. FramesCounted'
  <2>1. AllOccupied' = AllOccupied \cup {<<q, t>>} /\ <<q, t>> \notin AllOccupied
    <3>1. \A u \in Slots : slots[q][u].cpi = 0
      BY Zenon, <1>1 DEF Occupied
    <3> QED BY <1>7, <3>1 DEF AllOccupied
  <2>2. Cardinality(AllOccupied') = Cardinality(AllOccupied) + 1
        /\ Cardinality(AllOccupied) \in Nat
    BY Zenon, <2>1, SlotsFinite, FS_AddElement, FS_CardinalityType
  <2>3. /\ frames'.completed = frames.completed
        /\ frames'.submitted = frames.submitted + 1
        /\ frames'.timeouts = frames.timeouts
        /\ frames.completed \in Nat /\ frames.submitted \in Nat
    <3>1. frames \in [submitted : Nat, completed : Nat, timeouts : Nat]
      BY Zenon, <1>0 DEF GpuTypes
    <3> QED BY Zenon, <1>0, <3>1
  <2> QED BY <2>2, <2>3 DEF GpuInv, FramesCounted
<1>15. Pushed(q) /\ InLine(q) /\ Counted(q)
  BY Zenon DEF GpuInv
<1>16. Counted(q)'
  <2>1. Cardinality(Occupied(q)) = 0 /\ Cardinality(Occupied(q))' = 1
    BY Zenon, <1>1, <1>9, FS_EmptySet, OneSlot
  <2>2. PICK a, b, k, d, f \in Nat :
          /\ a = Len(rawQ[q]) /\ b = Len(plotsQ[q]) /\ k = taken[q]
          /\ d = displaced[q] /\ f = failed[q]
    BY Zenon, <1>0, SeqLen DEF GpuTypes
  <2>3. cpis[q] = a + 0 + b + k + d + f
    BY Zenon, <1>15, <2>1, <2>2 DEF Counted
  <2>4. cpis[q] = (a - 1) + 1 + b + k + d + f
    BY <2>3
  <2> QED BY Zenon, <1>0, <1>11, <2>1, <2>2, <2>4 DEF Counted
<1>17. Pushed(q)'
  <2>1. \A u \in Slots : slots'[q][u].cpi <= cpis[q]
    BY Zenon, <1>7, <1>11, <1>15 DEF Pushed
  <2> QED BY Zenon, <1>0, <1>11, <1>15, <2>1 DEF Pushed
<1>18. InLine(q)'
  <2>1. slots'[q][t].cpi = n
    BY Zenon, <1>7
  <2>2. Ascending(plotsQ[q])
    BY Zenon, <1>15 DEF InLine
  <2> QED BY Zenon, <1>0, <1>9, <1>11, <2>1, <2>2 DEF InLine
<1>19. ASSUME NEW r \in Streams, r # q PROVE Pushed(r)' /\ InLine(r)' /\ Counted(r)'
  BY Zenon, <1>0, <1>8, <1>11, <1>19, StreamKept DEF GpuInv
<1> QED BY <1>12, <1>13, <1>14, <1>16, <1>17, <1>18, <1>19 DEF GpuInv

(* A submission that fails loses the popped block, and counts it. *)
LEMMA FailStep == ASSUME GpuInv, SubmitFails PROVE GpuInv'
<1>q. PICK q \in Streams : q = Current
  BY Zenon, CurrentIsStream DEF GpuInv
<1>0. /\ GpuTypes /\ rawQ[q] # << >> /\ VisitEnds
      /\ rawQ' = [rawQ EXCEPT ![q] = Tail(@)]
      /\ failed' = [failed EXCEPT ![q] = @ + 1]
      /\ UNCHANGED <<plotsQ, slots, gpuRunning, cpis, taken, displaced, frames>>
  BY Zenon, <1>q DEF GpuInv, SubmitFails
<1>6. turn' \in Streams /\ rr_index' \in Streams /\ gpuPc' \in {"off", "poll"}
  BY Zenon, <1>0, EndsTyped
<1>8. /\ failed' \in [Streams -> Nat] /\ failed'[q] = failed[q] + 1
      /\ \A r \in Streams \ {q} : failed'[r] = failed[r]
  <2>1. failed \in [Streams -> Nat]
    BY Zenon, <1>0 DEF GpuTypes
  <2> QED BY <1>0, <2>1
<1>10. \A r \in Streams : Occupied(r)' = Occupied(r)
  BY Zenon, <1>0 DEF Occupied
<1>11. /\ rawQ' \in [Streams -> Seq(Nat)]
       /\ Len(rawQ[q]) \in Nat /\ Len(rawQ'[q]) = Len(rawQ[q]) - 1
       /\ \A r \in Streams \ {q} : rawQ'[r] = rawQ[r]
       /\ Ascending(rawQ'[q])
       /\ Head(rawQ[q]) \in Nat
       /\ \A i \in 1..Len(rawQ'[q]) : /\ Head(rawQ[q]) < rawQ'[q][i]
                                       /\ 1 <= rawQ'[q][i] /\ rawQ'[q][i] <= cpis[q]
       /\ \A i \in 1..Len(plotsQ[q]), j \in 1..Len(rawQ'[q]) : plotsQ[q][i] < rawQ'[q][j]
  BY Zenon, <1>0, PopRaw
<1>12. GpuTypes'
  BY Zenon, <1>0, <1>6, <1>8, <1>11 DEF GpuTypes
<1>13. SlotsFree'
  BY Zenon, <1>6, <1>10 DEF GpuInv, SlotsFree
<1>14. FramesCounted'
  BY Zenon, <1>0 DEF GpuInv, FramesCounted, AllOccupied
<1>15. Pushed(q) /\ InLine(q) /\ Counted(q)
  BY Zenon DEF GpuInv
<1>16. Counted(q)'
  <2>1. IsFiniteSet(Occupied(q))
    BY Zenon, SlotsFinite
  <2>2. PICK a, o, b, k, d, f \in Nat :
          /\ a = Len(rawQ[q]) /\ o = Cardinality(Occupied(q)) /\ b = Len(plotsQ[q])
          /\ k = taken[q] /\ d = displaced[q] /\ f = failed[q]
    BY ZenonT(30), <1>0, <2>1, SeqLen, FS_CardinalityType DEF GpuTypes
  <2>3. cpis[q] = a + o + b + k + d + f
    BY Zenon, <1>15, <2>2 DEF Counted
  <2>4. cpis[q] = (a - 1) + o + b + k + d + (f + 1)
    BY <2>3
  <2> QED BY <1>0, <1>8, <1>10, <1>11, <2>2, <2>4 DEF Counted
<1>17. Pushed(q)'
  BY Zenon, <1>0, <1>11, <1>15 DEF Pushed
<1>18. InLine(q)'
  <2>1. ASSUME NEW u \in Occupied(q), NEW j \in 1..Len(rawQ'[q])
        PROVE  slots[q][u].cpi < rawQ'[q][j]
    <3>1. \A k \in 1..Len(rawQ[q]) : slots[q][u].cpi < rawQ[q][k]
      BY Zenon, <1>15 DEF InLine
    <3>2. rawQ[q] \in Seq(Nat)
      BY Zenon, <1>0 DEF GpuTypes
    <3>3. Len(rawQ[q]) \in Nat \ {0} /\ Head(rawQ[q]) = rawQ[q][1]
      BY Zenon, <1>0, <3>2, PopFacts
    <3>4. slots[q][u].cpi < Head(rawQ[q]) /\ Head(rawQ[q]) < rawQ'[q][j]
      <4>1. 1 \in 1..Len(rawQ[q])
        BY <3>3
      <4> QED BY Zenon, <1>11, <3>1, <3>3, <4>1
    <3>5. slots[q][u].cpi \in Nat /\ rawQ'[q][j] \in Nat
      <4>1. u \in Slots /\ slots[q] \in [Slots -> [cpi : Nat, old : BOOLEAN]]
        BY Zenon, <1>0 DEF Occupied, GpuTypes
      <4>2. rawQ'[q] \in Seq(Nat)
        BY Zenon, <1>11
      <4> QED BY Zenon, <4>1, <4>2, SeqElement
    <3>6. \A a, b, c \in Nat : a < b /\ b < c => a < c
      OBVIOUS
    <3> QED BY Zenon, <1>11, <3>4, <3>5, <3>6
  <2>2. \A u \in Occupied(q) :
           /\ \A i \in 1..Len(plotsQ[q]) : plotsQ[q][i] < slots[q][u].cpi
           /\ \A j \in 1..Len(rawQ'[q]) : slots[q][u].cpi < rawQ'[q][j]
    BY Zenon, <1>15, <2>1 DEF InLine
  <2>3. /\ plotsQ' = plotsQ /\ slots' = slots /\ Occupied(q)' = Occupied(q)
        /\ Ascending(plotsQ[q])
    BY Zenon, <1>0, <1>10, <1>15 DEF InLine
  <2> QED BY Zenon, <1>11, <2>2, <2>3 DEF InLine
<1>19. ASSUME NEW r \in Streams, r # q PROVE Pushed(r)' /\ InLine(r)' /\ Counted(r)'
  BY Zenon, <1>0, <1>8, <1>11, <1>19, StreamKept DEF GpuInv
<1> QED BY <1>12, <1>13, <1>14, <1>16, <1>17, <1>18, <1>19 DEF GpuInv

(* A block pushed is the newest of its stream. *)
LEMMA PushStep == ASSUME GpuInv, NEW q \in Streams, PushBlock(q) PROVE GpuInv'
<1>0. /\ GpuTypes
      /\ cpis' = [cpis EXCEPT ![q] = @ + 1]
      /\ rawQ' = [rawQ EXCEPT ![q] = Append(@, cpis[q] + 1)]
      /\ UNCHANGED <<plotsQ, slots, gpuPc, turn, rr_index, gpuRunning, taken,
                     displaced, failed, frames>>
  BY Zenon DEF GpuInv, PushBlock
<1>1. PICK n \in Nat : n = cpis[q] + 1
  BY <1>0 DEF GpuTypes
<1>2. /\ cpis' \in [Streams -> Nat] /\ cpis'[q] = n /\ cpis[q] \in Nat
      /\ \A r \in Streams \ {q} : cpis'[r] = cpis[r]
  <2>1. cpis \in [Streams -> Nat]
    BY Zenon, <1>0 DEF GpuTypes
  <2> QED BY Zenon, <1>0, <1>1, <2>1
<1>3. rawQ \in [Streams -> Seq(Nat)] /\ rawQ[q] \in Seq(Nat)
  BY Zenon, <1>0 DEF GpuTypes
<1>4. rawQ'[q] = Append(rawQ[q], n) /\ \A r \in Streams \ {q} : rawQ'[r] = rawQ[r]
  BY Zenon, <1>0, <1>1, <1>3
<1>5. /\ rawQ'[q] \in Seq(Nat) /\ Len(rawQ'[q]) = Len(rawQ[q]) + 1
      /\ Len(rawQ[q]) \in Nat
      /\ \A i \in 1..(Len(rawQ[q]) + 1) :
           rawQ'[q][i] = IF i <= Len(rawQ[q]) THEN rawQ[q][i] ELSE n
  BY <1>3, <1>4, PutFacts
<1>5a. \A i \in 1..Len(rawQ'[q]) : \/ i \in 1..Len(rawQ[q]) /\ rawQ'[q][i] = rawQ[q][i]
                                   \/ i = Len(rawQ[q]) + 1 /\ rawQ'[q][i] = n
  <2> SUFFICES ASSUME NEW i \in 1..(Len(rawQ[q]) + 1)
               PROVE  \/ i \in 1..Len(rawQ[q]) /\ rawQ'[q][i] = rawQ[q][i]
                      \/ i = Len(rawQ[q]) + 1 /\ rawQ'[q][i] = n
    BY Zenon, <1>5
  <2>1. i <= Len(rawQ[q]) \/ i = Len(rawQ[q]) + 1
    BY <1>5
  <2> QED BY <1>5, <2>1
<1>6. rawQ' \in [Streams -> Seq(Nat)]
  BY Zenon, <1>0, <1>1, <1>3, <1>4, <1>5
<1>7. GpuTypes'
  BY Zenon, <1>0, <1>2, <1>6 DEF GpuTypes
<1>8. \A r \in Streams : Occupied(r)' = Occupied(r)
  BY Zenon, <1>0 DEF Occupied
<1>9. SlotsFree'
  <2>2. Occupied(Current)' = Occupied(Current)
    BY Zenon, <1>0 DEF Occupied, Current
  <2> QED BY Zenon, <1>0, <1>8, <2>2 DEF GpuInv, SlotsFree
<1>10. FramesCounted'
  BY Zenon, <1>0 DEF GpuInv, FramesCounted, AllOccupied
<1>11. Pushed(q) /\ InLine(q) /\ Counted(q)
  BY Zenon DEF GpuInv
<1>12. \A i \in 1..Len(rawQ[q]) : rawQ[q][i] \in Nat /\ rawQ[q][i] < n /\ 1 <= rawQ[q][i]
  <2> SUFFICES ASSUME NEW i \in 1..Len(rawQ[q])
               PROVE  rawQ[q][i] \in Nat /\ rawQ[q][i] < n /\ 1 <= rawQ[q][i]
    BY Zenon
  <2>1. rawQ[q][i] \in Nat
    BY Zenon, <1>3, SeqElement
  <2>2. 1 <= rawQ[q][i] /\ rawQ[q][i] <= cpis[q]
    BY Zenon, <1>11 DEF Pushed
  <2> QED BY <1>1, <1>2, <2>1, <2>2
<1>13. \A i \in 1..Len(plotsQ[q]) : plotsQ[q][i] \in Nat /\ plotsQ[q][i] < n
  <2>1. plotsQ[q] \in Seq(Nat)
    BY Zenon, <1>0 DEF GpuTypes
  <2>2. \A i \in 1..Len(plotsQ[q]) : plotsQ[q][i] \in Nat /\ plotsQ[q][i] <= cpis[q]
    BY Zenon, <1>11, <2>1, SeqElement DEF Pushed
  <2>3. \A a \in Nat : a <= cpis[q] => a < n
    BY <1>1, <1>2
  <2> QED BY Zenon, <2>2, <2>3
<1>14. \A s \in Slots : slots[q][s].cpi \in Nat /\ slots[q][s].cpi < n
  <2>1. slots[q] \in [Slots -> [cpi : Nat, old : BOOLEAN]]
    BY Zenon, <1>0 DEF GpuTypes
  <2>2. \A s \in Slots : slots[q][s] \in [cpi : Nat, old : BOOLEAN]
    BY Zenon, <2>1
  <2> QED BY <1>1, <1>2, <1>11, <2>2 DEF Pushed
<1>15. Pushed(q)'
  <2>1. \A i \in 1..Len(rawQ'[q]) : 1 <= rawQ'[q][i] /\ rawQ'[q][i] <= n
    <3>1. \A a \in Nat : a < n => a <= n
      OBVIOUS
    <3>2. n <= n /\ 1 <= n
      BY <1>1, <1>2
    <3> QED BY Zenon, <1>5a, <1>12, <3>1, <3>2
  <2>2. cpis'[q] = n /\ plotsQ' = plotsQ /\ slots' = slots
    BY Zenon, <1>0, <1>2
  <2>3. \A i \in 1..Len(plotsQ[q]) : plotsQ[q][i] <= n
    BY <1>13, <1>1, <1>2
  <2>4. \A s \in Slots : slots[q][s].cpi <= n
    BY <1>14, <1>1, <1>2
  <2> QED BY Zenon, <2>1, <2>2, <2>3, <2>4 DEF Pushed
<1>16. InLine(q)'
  <2>1. Ascending(rawQ'[q])
    <3> SUFFICES ASSUME NEW i \in 1..Len(rawQ'[q]), NEW j \in 1..Len(rawQ'[q]), i < j
                 PROVE  rawQ'[q][i] < rawQ'[q][j]
      BY Zenon DEF Ascending
    <3>1. i \in 1..Len(rawQ[q]) /\ rawQ'[q][i] = rawQ[q][i]
      BY <1>5, <1>5a
    <3> QED BY Zenon, <1>5a, <1>11, <1>12, <3>1 DEF InLine, Ascending
  <2>2. \A i \in 1..Len(plotsQ[q]), j \in 1..Len(rawQ'[q]) : plotsQ[q][i] < rawQ'[q][j]
    BY Zenon, <1>5a, <1>11, <1>13 DEF InLine
  <2>3. \A s \in Occupied(q), j \in 1..Len(rawQ'[q]) : slots[q][s].cpi < rawQ'[q][j]
    <3>1. Occupied(q) \subseteq Slots
      BY Zenon DEF Occupied
    <3> QED BY Zenon, <1>5a, <1>11, <1>14, <3>1 DEF InLine
  <2> QED BY Zenon, <1>0, <1>8, <1>11, <2>1, <2>2, <2>3 DEF InLine
<1>17. Counted(q)'
  <2>1. IsFiniteSet(Occupied(q))
    BY Zenon, SlotsFinite
  <2>2. PICK a, o, b, k, d, f \in Nat :
          /\ a = Len(rawQ[q]) /\ o = Cardinality(Occupied(q)) /\ b = Len(plotsQ[q])
          /\ k = taken[q] /\ d = displaced[q] /\ f = failed[q]
    BY Zenon, <1>0, <2>1, SeqLen, FS_CardinalityType DEF GpuTypes
  <2>3. cpis[q] = a + o + b + k + d + f
    BY Zenon, <1>11, <2>2 DEF Counted
  <2>4. n = (a + 1) + o + b + k + d + f
    BY <1>1, <2>3
  <2> QED BY Zenon, <1>0, <1>2, <1>5, <1>8, <2>2, <2>4 DEF Counted
<1>18. ASSUME NEW r \in Streams, r # q PROVE Pushed(r)' /\ InLine(r)' /\ Counted(r)'
  BY Zenon, <1>0, <1>2, <1>4, <1>18, StreamKept DEF GpuInv
<1> QED BY <1>7, <1>9, <1>10, <1>15, <1>16, <1>17, <1>18 DEF GpuInv

(* The consumer takes the oldest batch. *)
LEMMA TakeStep == ASSUME GpuInv, NEW q \in Streams, TakePlots(q) PROVE GpuInv'
<1>0. /\ GpuTypes /\ plotsQ[q] # << >>
      /\ plotsQ' = [plotsQ EXCEPT ![q] = Tail(@)]
      /\ taken' = [taken EXCEPT ![q] = @ + 1]
      /\ UNCHANGED <<rawQ, slots, gpuPc, turn, rr_index, gpuRunning, cpis,
                     displaced, failed, frames>>
  BY Zenon DEF GpuInv, TakePlots
<1>1. plotsQ \in [Streams -> Seq(Nat)] /\ plotsQ[q] \in Seq(Nat)
  BY Zenon, <1>0 DEF GpuTypes
<1>2. plotsQ'[q] = Tail(plotsQ[q]) /\ \A r \in Streams \ {q} : plotsQ'[r] = plotsQ[r]
  BY Zenon, <1>0, <1>1
<1>3. /\ plotsQ'[q] \in Seq(Nat) /\ Len(plotsQ'[q]) = Len(plotsQ[q]) - 1
      /\ Len(plotsQ[q]) \in Nat \ {0}
      /\ \A i \in 1..(Len(plotsQ[q]) - 1) : plotsQ'[q][i] = plotsQ[q][i + 1]
  BY Zenon, <1>0, <1>1, <1>2, PopFacts
<1>4. plotsQ' \in [Streams -> Seq(Nat)]
  BY Zenon, <1>0, <1>1, <1>2, <1>3
<1>5. /\ taken' \in [Streams -> Nat] /\ taken'[q] = taken[q] + 1
      /\ \A r \in Streams \ {q} : taken'[r] = taken[r]
  <2>1. taken \in [Streams -> Nat]
    BY Zenon, <1>0 DEF GpuTypes
  <2> QED BY <1>0, <2>1
<1>7. GpuTypes'
  BY Zenon, <1>0, <1>4, <1>5 DEF GpuTypes
<1>8. \A r \in Streams : Occupied(r)' = Occupied(r)
  BY Zenon, <1>0 DEF Occupied
<1>9. SlotsFree'
  <2>2. Occupied(Current)' = Occupied(Current)
    BY Zenon, <1>0 DEF Occupied, Current
  <2> QED BY Zenon, <1>0, <1>8, <2>2 DEF GpuInv, SlotsFree
<1>10. FramesCounted'
  BY Zenon, <1>0 DEF GpuInv, FramesCounted, AllOccupied
<1>11. Pushed(q) /\ InLine(q) /\ Counted(q)
  BY Zenon DEF GpuInv
<1>12. \A i \in 1..Len(plotsQ'[q]) : i + 1 \in 1..Len(plotsQ[q])
                                     /\ plotsQ'[q][i] = plotsQ[q][i + 1]
  <2> SUFFICES ASSUME NEW i \in 1..Len(plotsQ'[q])
               PROVE  i + 1 \in 1..Len(plotsQ[q]) /\ plotsQ'[q][i] = plotsQ[q][i + 1]
    BY Zenon
  <2>0. Len(plotsQ'[q]) = Len(plotsQ[q]) - 1 /\ Len(plotsQ[q]) \in Nat
    BY Zenon, <1>3
  <2>1. i \in 1..(Len(plotsQ[q]) - 1) /\ i \in Nat
    BY <2>0
  <2>2. plotsQ'[q][i] = plotsQ[q][i + 1]
    BY Zenon, <1>3, <2>1
  <2> QED BY <2>0, <2>1, <2>2
<1>15. Pushed(q)'
  BY Zenon, <1>0, <1>11, <1>12 DEF Pushed
<1>16. InLine(q)'
  <2>1. Ascending(plotsQ'[q])
    <3> SUFFICES ASSUME NEW i \in 1..Len(plotsQ'[q]), NEW j \in 1..Len(plotsQ'[q]), i < j
                 PROVE  plotsQ'[q][i] < plotsQ'[q][j]
      BY Zenon DEF Ascending
    <3>1. i + 1 < j + 1
      BY <1>3
    <3> QED BY Zenon, <1>11, <1>12, <3>1 DEF InLine, Ascending
  <2>2. \A i \in 1..Len(plotsQ'[q]), j \in 1..Len(rawQ[q]) : plotsQ'[q][i] < rawQ[q][j]
    BY Zenon, <1>11, <1>12 DEF InLine
  <2>3. \A s \in Occupied(q), i \in 1..Len(plotsQ'[q]) : plotsQ'[q][i] < slots[q][s].cpi
    BY Zenon, <1>11, <1>12 DEF InLine
  <2> QED BY Zenon, <1>0, <1>8, <1>11, <2>1, <2>2, <2>3 DEF InLine
<1>17. Counted(q)'
  <2>1. IsFiniteSet(Occupied(q))
    BY Zenon, SlotsFinite
  <2>2. PICK a, o, b, k, d, f \in Nat :
          /\ a = Len(rawQ[q]) /\ o = Cardinality(Occupied(q)) /\ b = Len(plotsQ[q])
          /\ k = taken[q] /\ d = displaced[q] /\ f = failed[q]
    BY Zenon, <1>0, <2>1, SeqLen, FS_CardinalityType DEF GpuTypes
  <2>3. cpis[q] = a + o + b + k + d + f
    BY Zenon, <1>11, <2>2 DEF Counted
  <2>4. cpis[q] = a + o + (b - 1) + (k + 1) + d + f
    BY <2>3
  <2> QED BY <1>0, <1>3, <1>5, <1>8, <2>2, <2>4 DEF Counted
<1>18. ASSUME NEW r \in Streams, r # q PROVE Pushed(r)' /\ InLine(r)' /\ Counted(r)'
  BY <1>0, <1>2, <1>5, <1>18, StreamKept DEF GpuInv
<1> QED BY <1>7, <1>9, <1>10, <1>15, <1>16, <1>17, <1>18 DEF GpuInv

(* Time changes what a slot holds in nothing but its age. *)
LEMMA AgeStep ==
    ASSUME GpuInv, NEW q \in Streams, NEW s \in Slots, SlotAges(q, s) PROVE GpuInv'
<1>0. /\ GpuTypes /\ slots' = [slots EXCEPT ![q][s].old = TRUE]
      /\ UNCHANGED <<rawQ, plotsQ, gpuPc, turn, rr_index, gpuRunning, cpis, taken,
                     displaced, failed, frames>>
  BY Zenon DEF GpuInv, SlotAges
<1>1. slots \in [Streams -> [Slots -> [cpi : Nat, old : BOOLEAN]]]
  BY Zenon, <1>0 DEF GpuTypes
<1>2. slots' \in [Streams -> [Slots -> [cpi : Nat, old : BOOLEAN]]]
  <2>1. [slots[q][s] EXCEPT !.old = TRUE] \in [cpi : Nat, old : BOOLEAN]
    <3>1. slots[q][s] \in [cpi : Nat, old : BOOLEAN]
      BY Zenon, <1>1
    <3> QED BY Zenon, <3>1
  <2>2. [slots[q] EXCEPT ![s] = [slots[q][s] EXCEPT !.old = TRUE]]
          \in [Slots -> [cpi : Nat, old : BOOLEAN]]
    BY Zenon, <1>1, <2>1
  <2>3. slots' = [slots EXCEPT ![q] = [slots[q] EXCEPT ![s] = [slots[q][s] EXCEPT !.old = TRUE]]]
    BY Zenon, <1>0
  <2> QED BY Zenon, <1>1, <2>2, <2>3
<1>3. \A r \in Streams, t \in Slots : slots'[r][t].cpi = slots[r][t].cpi
  BY <1>0, <1>1
<1>7. GpuTypes'
  BY Zenon, <1>0, <1>2 DEF GpuTypes
<1>8. \A r \in Streams : Occupied(r)' = Occupied(r)
  BY Zenon, <1>3 DEF Occupied
<1>9. SlotsFree'
  <2>1. Current \in Streams /\ Current' = Current
    BY Zenon, <1>0, CurrentIsStream DEF Current
  <2>2. Occupied(Current)' = Occupied(Current)
    BY Zenon, <2>1, <1>3 DEF Occupied
  <2> QED BY Zenon, <1>0, <1>8, <2>2 DEF GpuInv, SlotsFree
<1>10. FramesCounted'
  <2>1. AllOccupied' = AllOccupied
    BY Zenon, <1>3 DEF AllOccupied
  <2> QED BY Zenon, <1>0, <2>1 DEF GpuInv, FramesCounted
<1>11. ASSUME NEW r \in Streams PROVE Pushed(r)' /\ InLine(r)' /\ Counted(r)'
  <2>1. Pushed(r) /\ InLine(r) /\ Counted(r) /\ Occupied(r)' = Occupied(r)
    BY Zenon, <1>8 DEF GpuInv
  <2>2. Occupied(r) \subseteq Slots
    BY Zenon DEF Occupied
  <2> QED BY <1>0, <1>3, <2>1, <2>2 DEF Pushed, InLine, Counted
<1> QED BY Zenon, <1>7, <1>9, <1>10, <1>11 DEF GpuInv

(* Every step keeps the invariant. *)
LEMMA GpuStep == GpuInv /\ [GpuNext]_gpuVars => GpuInv'
<1> SUFFICES ASSUME GpuInv, [GpuNext]_gpuVars PROVE GpuInv'
  BY Zenon
<1>1. CASE start \/ stop
  BY Zenon, <1>1, StartStopStep
<1>2. CASE poll_completion
  BY Zenon, <1>2, PollStep
<1>3. CASE handle_timeout
  BY <1>3, TimeoutStep
<1>4. CASE NothingToSubmit
  BY Zenon, <1>4, NothingStep
<1>5. CASE submit_cpi
  BY Zenon, <1>5, SubmitStep
<1>6. CASE SubmitFails
  BY Zenon, <1>6, FailStep
<1>7. CASE \E q \in Streams : PushBlock(q) \/ TakePlots(q)
  BY Zenon, <1>7, PushStep, TakeStep
<1>8. CASE \E q \in Streams, s \in Slots : SlotAges(q, s)
  BY Zenon, <1>8, AgeStep
<1>9. CASE UNCHANGED gpuVars
  <2>1. Occupied(Current)' = Occupied(Current) /\ gpuPc' = gpuPc
    BY Zenon, <1>9 DEF gpuVars, Occupied, Current
  <2>2. gpuPc' \in {"timeout", "submit"} => Occupied(Current)' = {}
    BY Zenon, <2>1 DEF GpuInv, SlotsFree
  <2> QED BY Zenon, <1>9, <2>2, QuietStep DEF gpuVars, GpuInv, GpuTypes
<1> QED BY <1>1, <1>2, <1>3, <1>4, <1>5, <1>6, <1>7, <1>8, <1>9 DEF GpuNext, Visit

(* The invariant implies that every CPI is accounted for. *)
LEMMA GpuInvImplies == GpuInv => CpisAccounted
<1> SUFFICES ASSUME GpuInv PROVE CpisAccounted
  BY Zenon
<1>1. ASSUME NEW q \in Streams PROVE inflight_count(q) <= 1
  <2>1. CASE Occupied(q) = {}
    BY <2>1, FS_EmptySet DEF inflight_count
  <2>2. CASE Occupied(q) # {}
    <3>1. PICK s \in Occupied(q) : TRUE
      BY Zenon, <2>2
    <3>2. \A t \in Occupied(q) : t = s
      BY Zenon DEF GpuInv, SlotsFree
    <3>3. Occupied(q) = {s}
      BY Zenon, <3>2
    <3>4. Cardinality(Occupied(q)) = 1
      BY Zenon, <3>3, OneSlot
    <3> QED BY <3>4 DEF inflight_count
  <2> QED BY Zenon, <2>1, <2>2
<1>2. \A q \in Streams :
        cpis[q] = Len(rawQ[q]) + inflight_count(q) + Len(plotsQ[q])
                    + taken[q] + displaced[q] + failed[q]
  BY Zenon DEF GpuInv, Counted, inflight_count
<1>3. /\ frames.submitted = frames.completed
                  + Cardinality({p \in Streams \X Slots : slots[p[1]][p[2]].cpi # 0})
      /\ frames.timeouts = 0
  BY Zenon DEF GpuInv, FramesCounted, AllOccupied
<1> QED BY Zenon, <1>1, <1>2, <1>3 DEF CpisAccounted, GpuInv, InLine

(* Whatever the numbers of streams and slots and the capacities of the queues,
   run() loses track of no CPI: each one pushed on a stream is queued, in a slot,
   taken, displaced by drop_oldest_push or counted as failed; handle_timeout
   never drops one; and every stream keeps its order. *)
THEOREM NoCpiLost == GpuSpec => []CpisAccounted
<1>1. GpuSpec => []GpuInv
  BY GpuStarts, GpuStep, PTL DEF GpuSpec
<1> QED BY <1>1, GpuInvImplies, PTL
=============================================================================
