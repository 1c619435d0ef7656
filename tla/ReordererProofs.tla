-------------------------- MODULE ReordererProofs --------------------------
(***************************************************************************)
(* The invariants of the reorderer, for every window size, every size of   *)
(* the sequence space and every set of payloads and timeouts, and that the *)
(* ring implements the ordered stream.                                     *)
(***************************************************************************)
EXTENDS Reorderer, Loops, FiniteSetTheorems

(* Before the first packet nothing is buffered. *)
EmptyBeforeFirst == ~initialized => occupancy_bitmap = {}

(* The inductive invariant. *)
IInv == TypeOK /\ RingAligned /\ OccupancyAgrees /\ EmptyBeforeFirst

----------------------------------------------------------------------------
(* Modular sums of numbers in range stay in range. *)
LEMMA PlusType ==
    ASSUME NEW n \in Nat \ {0}, NEW a \in 0..(n - 1), NEW b \in 0..n
    PROVE  Plus(a, b, n) \in 0..(n - 1)
BY DEF Plus

(* A modular difference is in range, and adding it back is the identity. *)
LEMMA MinusType ==
    ASSUME NEW n \in Nat \ {0}, NEW a \in 0..(n - 1), NEW b \in 0..(n - 1)
    PROVE  /\ Minus(a, b, n) \in 0..(n - 1)
           /\ Plus(b, Minus(a, b, n), n) = a
BY DEF Plus, Minus

(* The sums of the model are the sums of the code, reduced modulo n. *)
LEMMA PlusIsMod ==
    ASSUME NEW n \in Nat \ {0}, NEW a \in 0..(n - 1), NEW b \in 0..n
    PROVE  Plus(a, b, n) = (a + b) % n
BY DEF Plus

(* Sums associate, with the inner sum reduced or not. *)
LEMMA PlusPlus ==
    ASSUME NEW n \in Nat \ {0}, NEW a \in 0..(n - 1), NEW k \in 0..n,
           NEW d \in 0..(n - 1)
    PROVE  /\ k + d < n => Plus(Plus(a, k, n), d, n) = Plus(a, k + d, n)
           /\ k + d >= n => Plus(Plus(a, k, n), d, n) = Plus(a, k + d - n, n)
BY DEF Plus

(* A distance counted from the successor is one more, counted from the number. *)
LEMMA PlusSucc ==
    ASSUME NEW n \in Nat \ {0}, NEW a \in 0..(n - 1), NEW j \in 0..(n - 1)
    PROVE  Plus(Plus(a, 1, n), j, n) = Plus(a, j + 1, n)
BY DEF Plus

(* Different distances lead to different indices. *)
LEMMA PlusInjective ==
    ASSUME NEW n \in Nat \ {0}, NEW a \in 0..(n - 1),
           NEW j \in 0..(n - 1), NEW k \in 0..(n - 1),
           Plus(a, j, n) = Plus(a, k, n)
    PROVE  j = k
BY DEF Plus

(* Every index is at some distance from a given one. *)
LEMMA PlusOnto ==
    ASSUME NEW n \in Nat \ {0}, NEW a \in 0..(n - 1), NEW i \in 0..(n - 1)
    PROVE  \E d \in 0..(n - 1) : i = Plus(a, d, n)
<1>1. Minus(i, a, n) \in 0..(n - 1) /\ i = Plus(a, Minus(i, a, n), n)
  BY Zenon, MinusType
<1> QED BY Zenon, <1>1

----------------------------------------------------------------------------
(* advance_window stops: the run it outputs is well defined. *)
LEMMA RunLengthFact ==
    ASSUME NEW s, NEW b
    PROVE  LET k == RunLength(s, b)
           IN  /\ k \in 0..Window
               /\ \A j \in 0..(k - 1) : Deliverable(s, b, j)
               /\ k < Window => ~Deliverable(s, b, k)
<1> DEFINE Stop == {k \in 0..Window : k < Window => ~Deliverable(s, b, k)}
<1>1. Stop \in SUBSET Nat /\ Window \in Stop
  BY WindowAssumption
<1>2. PICK k \in Stop : \A y \in Stop : k <= y
  BY Zenon, <1>1, LeastNat
<1>3. \A j \in 0..(k - 1) : Deliverable(s, b, j)
  <2> TAKE j \in 0..(k - 1)
  <2>1. j \in 0..Window /\ j < Window /\ ~(k <= j)
    BY <1>2, WindowAssumption
  <2> QED BY Zenon, <2>1, <1>2
<1>4. k \in 0..Window /\ (k < Window => ~Deliverable(s, b, k))
  BY Zenon, <1>2
<1> HIDE DEF Stop
<1> QED BY Zenon, <1>3, <1>4 DEF RunLength

Run(b, k) == {Plus(b, j, Window) : j \in 0..(k - 1)}

(* The run is a set of k different occupied slots. *)
LEMMA RunFact ==
    ASSUME TypeOK, NEW s, NEW b \in Index
    PROVE  LET k == RunLength(s, b)
           IN  /\ Run(b, k) \subseteq occupancy_bitmap
               /\ IsFiniteSet(Run(b, k))
               /\ Cardinality(Run(b, k)) = k
<1> DEFINE k == RunLength(s, b)
           f == [j \in 0..(k - 1) |-> Plus(b, j, Window)]
<1>1. /\ k \in 0..Window
      /\ \A j \in 0..(k - 1) : Deliverable(s, b, j)
  BY Zenon, RunLengthFact
<1> HIDE DEF k
<1>2. Run(b, k) \subseteq occupancy_bitmap
  BY Zenon, <1>1 DEF Run, Deliverable
<1>3. f \in Bijection(0..(k - 1), Run(b, k))
  <2>1. f \in [0..(k - 1) -> Run(b, k)]
    BY Zenon DEF Run
  <2>2. \A i, j \in 0..(k - 1) : f[i] = f[j] => i = j
    <3> TAKE i, j \in 0..(k - 1)
    <3>1. i \in 0..(Window - 1) /\ j \in 0..(Window - 1)
      BY <1>1, WindowAssumption
    <3>2. Plus(b, i, Window) = Plus(b, j, Window) => i = j
      BY Zenon, <3>1, PlusInjective, WindowAssumption DEF Index
    <3> QED BY Zenon, <3>2
  <2>3. \A y \in Run(b, k) : \E j \in 0..(k - 1) : f[j] = y
    BY Zenon DEF Run
  <2> QED BY Zenon, <2>1, <2>2, <2>3 DEF Bijection, Injection, Surjection, IsInjective
<1>4. IsFiniteSet(0..(k - 1)) /\ Cardinality(0..(k - 1)) = k
  BY <1>1, FS_Interval
<1>5. ExistsBijection(0..(k - 1), Run(b, k))
  BY Zenon, <1>3 DEF ExistsBijection
<1>6. IsFiniteSet(Run(b, k)) /\ Cardinality(Run(b, k)) = k
  BY Zenon, <1>4, <1>5, FS_Bijection
<1> QED BY Zenon, <1>2, <1>6 DEF k

(* The bitmap is finite. *)
LEMMA BitmapFinite ==
    ASSUME TypeOK
    PROVE  /\ IsFiniteSet(Index)
           /\ IsFiniteSet(occupancy_bitmap)
           /\ Cardinality(occupancy_bitmap) \in Nat
<1>1. IsFiniteSet(Index)
  BY FS_Interval, WindowAssumption DEF Index
<1>2. IsFiniteSet(occupancy_bitmap)
  BY Zenon, <1>1, FS_Subset DEF TypeOK
<1> QED BY Zenon, <1>1, <1>2, FS_CardinalityType

(* Taking a subset away subtracts its size. *)
LEMMA CardinalityDiff ==
    ASSUME NEW S, IsFiniteSet(S), NEW T \in SUBSET S
    PROVE  /\ Cardinality(T) <= Cardinality(S)
           /\ Cardinality(S \ T) = Cardinality(S) - Cardinality(T)
<1>1. IsFiniteSet(T) /\ IsFiniteSet(S \ T) /\ Cardinality(T) <= Cardinality(S)
  BY Zenon, FS_Subset
<1>2. Cardinality(T \cup (S \ T)) = Cardinality(T) + Cardinality(S \ T)
                                       - Cardinality(T \cap (S \ T))
  BY Zenon, <1>1, FS_Union
<1>3. T \cup (S \ T) = S /\ T \cap (S \ T) = {}
  BY Zenon
<1>4. Cardinality({}) = 0
  BY Zenon, FS_EmptySet
<1>5. /\ Cardinality(S) \in Nat /\ Cardinality(T) \in Nat
      /\ Cardinality(S \ T) \in Nat
  BY Zenon, <1>1, FS_CardinalityType
<1>6. Cardinality(S) = Cardinality(T) + Cardinality(S \ T) - 0
  BY <1>2, <1>3, <1>4, Zenon
<1> DEFINE cs == Cardinality(S)
           ct == Cardinality(T)
           cd == Cardinality(S \ T)
<1>7. ASSUME cs \in Nat, ct \in Nat, cd \in Nat, cs = ct + cd - 0
      PROVE  cd = cs - ct
  <2> HIDE DEF cs, ct, cd
  <2> QED BY <1>7
<1> QED BY Zenon, <1>1, <1>5, <1>6, <1>7

----------------------------------------------------------------------------
(***************************************************************************)
(* advance_window, called with the window moved one place past a vacant    *)
(* head, re-establishes the alignment of the ring and the count.           *)
(***************************************************************************)
LEMMA AdvanceWindow ==
    ASSUME TypeOK, OccupancyAgrees,
           NEW n \in SeqNums,
           \A d \in Index :
               Plus(base_index, d, Window) \in occupancy_bitmap =>
                   /\ d > 0
                   /\ ring_slots[Plus(base_index, d, Window)].sequence
                          = Plus(n, d, SeqMod),
           NEW first \in Seq(OutPacket),
           advance_window(first, SeqSucc(n), IndexSucc(base_index)),
           initialized' \in BOOLEAN, timeout_ms' \in Timeouts,
           flushed' \in BOOLEAN
    PROVE  TypeOK' /\ RingAligned' /\ OccupancyAgrees'
<1> DEFINE s == SeqSucc(n)
           b == IndexSucc(base_index)
           k == RunLength(s, b)
<1>1. s \in SeqNums /\ b \in Index /\ SeqMod \in Nat \ {0}
  BY WindowAssumption DEF Plus, SeqSucc, IndexSucc, SeqNums, Index, TypeOK
<1>2. /\ k \in 0..Window
      /\ \A j \in 0..(k - 1) : Deliverable(s, b, j)
      /\ k < Window => ~Deliverable(s, b, k)
  BY Zenon, RunLengthFact
<1>3. /\ Run(b, k) \subseteq occupancy_bitmap
      /\ IsFiniteSet(Run(b, k))
      /\ Cardinality(Run(b, k)) = k
  BY Zenon, <1>1, RunFact
<1>4. /\ out' = first \o
                [j \in 1..k |-> Packet(Plus(s, j - 1, SeqMod),
                                  ring_slots[Plus(b, j - 1, Window)].payload)]
      /\ next_expected_seq' = Plus(s, k, SeqMod)
      /\ base_index' = Plus(b, k, Window)
      /\ ring_slots' = [i \in Index |-> IF i \in Run(b, k) THEN Vacant
                                                           ELSE ring_slots[i]]
      /\ occupancy_bitmap' = occupancy_bitmap \ Run(b, k)
      /\ current_buffer_size' = IF current_buffer_size > k
                                THEN current_buffer_size - k ELSE 0
      /\ elapsed' = 0
  BY Zenon DEF advance_window, Run
<1> HIDE DEF k
<1>5. TypeOK'
  <2>1. next_expected_seq' \in SeqNums /\ base_index' \in Index
    <3>1. k \in 0..SeqMod /\ k \in 0..Window
      BY <1>2, WindowAssumption
    <3>2. Plus(s, k, SeqMod) \in SeqNums
      BY Zenon, <3>1, <1>1, PlusType DEF SeqNums
    <3>3. Plus(b, k, Window) \in Index
      BY Zenon, <3>1, <1>1, PlusType, WindowAssumption DEF Index
    <3> QED BY Zenon, <3>2, <3>3, <1>4
  <2>2. ring_slots' \in [Index -> Slot]
    BY <1>4, <1>1 DEF TypeOK, Slot, Vacant, SeqNums
  <2>3. occupancy_bitmap' \in SUBSET Index /\ current_buffer_size' \in Nat
    BY <1>2, <1>4 DEF TypeOK
  <2>4. out' \in Seq(OutPacket)
    <3> DEFINE run == [j \in 1..k |-> Packet(Plus(s, j - 1, SeqMod),
                                  ring_slots[Plus(b, j - 1, Window)].payload)]
    <3>1. ASSUME NEW j \in 1..k PROVE run[j] \in OutPacket
      <4>1. j - 1 \in 0..Window /\ j - 1 \in 0..SeqMod
        BY <1>2, WindowAssumption
      <4>2. Plus(s, j - 1, SeqMod) \in SeqNums
        BY Zenon, <4>1, <1>1, PlusType DEF SeqNums
      <4>3. Plus(b, j - 1, Window) \in Index
        BY Zenon, <4>1, <1>1, PlusType, WindowAssumption DEF Index
      <4>4. ring_slots[Plus(b, j - 1, Window)].payload
                \in Payloads \cup {NoPayload}
        BY Zenon, <4>3 DEF TypeOK, Slot
      <4> QED BY Zenon, <4>2, <4>4 DEF Packet, OutPacket
    <3>2. k \in Nat
      BY <1>2
    <3>3. run \in [1..k -> OutPacket]
      BY Zenon, <3>1
    <3>4. run \in Seq(OutPacket)
      <4> HIDE DEF run
      <4> QED BY <3>2, <3>3
    <3>5. out' = first \o run
      BY Zenon, <1>4
    <3> HIDE DEF run
    <3> QED BY <3>4, <3>5
  <2> QED BY <2>1, <2>2, <2>3, <2>4, <1>4, TimeoutAssumption DEF TypeOK
<1>6. RingAligned'
  <2> SUFFICES ASSUME NEW d \in Index,
                      Plus(base_index', d, Window) \in occupancy_bitmap'
               PROVE  /\ d > 0
                      /\ ring_slots'[Plus(base_index', d, Window)].sequence
                             = Plus(next_expected_seq', d, SeqMod)
    BY Zenon DEF RingAligned
  <2> DEFINE i == Plus(base_index', d, Window)
  <2>1. i \in occupancy_bitmap /\ i \notin Run(b, k) /\ i \in Index
    BY Zenon, <1>4 DEF TypeOK
  <2>2. k + d < Window
    <3> SUFFICES ASSUME k + d >= Window PROVE FALSE
      BY <1>2, WindowAssumption DEF Index
    <3>1. i = Plus(b, k + d - Window, Window)
      BY Zenon, <1>1, <1>2, <1>4, PlusPlus, WindowAssumption DEF Index
    <3>2. k + d - Window \in 0..(k - 1)
      BY <1>2, WindowAssumption DEF Index
    <3> QED BY Zenon, <3>1, <3>2, <2>1 DEF Run
  <2>3. i = Plus(b, k + d, Window) /\ k + d \in 0..(Window - 1)
    BY <1>1, <1>2, <1>4, <2>2, PlusPlus, WindowAssumption DEF Index
  <2>4. k + d < Window - 1 /\ i = Plus(base_index, k + d + 1, Window)
    <3>1. k + d = Window - 1 => i = base_index
      BY <2>3, WindowAssumption DEF Plus, IndexSucc, Index, TypeOK
    <3>2. base_index = Plus(base_index, 0, Window) /\ 0 \in Index
      BY WindowAssumption DEF Plus, Index, TypeOK
    <3>3. base_index \notin occupancy_bitmap
      BY <3>2
    <3>4. k + d < Window - 1
      <4>1. k + d # Window - 1
        BY Zenon, <3>1, <3>3, <2>1
      <4> QED BY <4>1, <2>3, <1>2, WindowAssumption DEF Index
    <3>5. base_index \in 0..(Window - 1) /\ Window \in Nat \ {0}
      BY Zenon, WindowAssumption DEF TypeOK, Index
    <3> QED BY Zenon, <3>4, <3>5, <2>3, PlusSucc DEF IndexSucc
  <2>5. ring_slots[i].sequence = Plus(n, k + d + 1, SeqMod)
    <3>1. k + d + 1 \in Index
      BY <2>3, <2>4, WindowAssumption DEF Index
    <3> QED BY Zenon, <3>1, <2>1, <2>4
  <2>6. Plus(n, k + d + 1, SeqMod) = Plus(next_expected_seq', d, SeqMod)
    <3>1. Plus(s, k + d, SeqMod) = Plus(next_expected_seq', d, SeqMod)
      <4>1. k \in 0..SeqMod /\ d \in 0..(SeqMod - 1) /\ k + d < SeqMod
        BY <1>2, <2>2, WindowAssumption DEF Index
      <4> QED BY Zenon, <4>1, <1>1, <1>4, PlusPlus DEF SeqNums
    <3>2. Plus(s, k + d, SeqMod) = Plus(n, k + d + 1, SeqMod)
      BY <1>2, <2>4, <1>1, WindowAssumption DEF Plus, SeqSucc, SeqNums, Index
    <3> QED BY Zenon, <3>1, <3>2
  <2>7. ring_slots'[i] = ring_slots[i]
    BY Zenon, <1>4, <2>1
  <2>8. d > 0
    <3> SUFFICES ASSUME d = 0 PROVE FALSE
      BY DEF Index
    <3>1. k < Window /\ i = Plus(b, k, Window)
      BY <1>2, <2>2, <2>3
    <3>2. ring_slots[i].sequence = Plus(s, k, SeqMod)
      BY <2>5, <2>4, <1>2, <1>1, WindowAssumption
         DEF Plus, SeqSucc, SeqNums, Index
    <3>3. Deliverable(s, b, k)
      BY Zenon, <3>1, <3>2, <2>1 DEF Deliverable, OccupancyAgrees
    <3> QED BY Zenon, <3>1, <3>3, <1>2
  <2> QED BY Zenon, <2>5, <2>6, <2>7, <2>8
<1>7. OccupancyAgrees'
  <2>1. \A i \in Index : ring_slots'[i].occupied <=> i \in occupancy_bitmap'
    BY Zenon, <1>4, <1>3 DEF OccupancyAgrees, Vacant
  <2>2. /\ k <= Cardinality(occupancy_bitmap)
        /\ Cardinality(occupancy_bitmap') = Cardinality(occupancy_bitmap) - k
    BY Zenon, <1>3, <1>4, BitmapFinite, CardinalityDiff
  <2>3. current_buffer_size' = Cardinality(occupancy_bitmap) - k
    BY <1>2, <1>4, <2>2, BitmapFinite DEF OccupancyAgrees
  <2> QED BY Zenon, <2>1, <2>2, <2>3 DEF OccupancyAgrees
<1> QED BY Zenon, <1>5, <1>6, <1>7

----------------------------------------------------------------------------
(* The initial state is aligned. *)
LEMMA InitIInv == Init => IInv
<1> SUFFICES ASSUME Init PROVE IInv
  BY Zenon
<1>1. TypeOK
  <2>1. 0 \in SeqNums /\ 0 \in Index /\ 0 \in 0..MaxTimeout
    BY WindowAssumption, TimeoutAssumption DEF SeqNums, Index
  <2>2. Vacant \in Slot
    BY Zenon, <2>1 DEF Vacant, Slot
  <2>3. out \in Seq(OutPacket)
    BY DEF Init
  <2> QED BY Zenon, <2>1, <2>2, <2>3 DEF Init, TypeOK
<1>2. RingAligned /\ EmptyBeforeFirst
  BY Zenon DEF Init, RingAligned, EmptyBeforeFirst
<1>3. OccupancyAgrees
  BY Zenon, FS_EmptySet DEF Init, OccupancyAgrees, Vacant
<1> QED BY Zenon, <1>1, <1>2, <1>3 DEF IInv

(* The alignment, unfolded, at the number insert takes as expected. *)
LEMMA AlignedAtExpected ==
    ASSUME IInv, NEW s \in SeqNums,
           NEW n, n = (IF initialized THEN next_expected_seq ELSE s)
    PROVE  /\ n \in SeqNums
           /\ \A d \in Index :
                 Plus(base_index, d, Window) \in occupancy_bitmap =>
                     /\ d > 0
                     /\ ring_slots[Plus(base_index, d, Window)].sequence
                            = Plus(n, d, SeqMod)
<1>1. CASE initialized
  BY Zenon, <1>1 DEF IInv, TypeOK, RingAligned
<1>2. CASE ~initialized
  BY Zenon, <1>2 DEF IInv, EmptyBeforeFirst
<1> QED BY Zenon, <1>1, <1>2

(* A packet stored ahead of the expected one keeps the ring aligned. *)
LEMMA StoreIInv ==
    ASSUME IInv, NEW s \in SeqNums, NEW p \in Payloads,
           NEW n, n = (IF initialized THEN next_expected_seq ELSE s),
           s # n, ~Discarded(s, n), Store(s, p, n),
           initialized' = TRUE, UNCHANGED <<timeout_ms, flushed>>
    PROVE  IInv'
<1> DEFINE delta == Minus(s, n, SeqMod)
           i == Plus(base_index, delta, Window)
<1>1. n \in SeqNums /\ n = next_expected_seq
  BY Zenon, AlignedAtExpected
<1>2. /\ delta \in 1..(Window - 1) /\ delta \in Index
      /\ i \in Index /\ i \notin occupancy_bitmap
  BY <1>1, WindowAssumption
     DEF Discarded, is_sequence_newer, Minus, Plus, SeqNums, Index, IInv, TypeOK
<1>3. s = Plus(n, delta, SeqMod)
  BY <1>1, MinusType, WindowAssumption DEF SeqNums
<1>4. /\ ring_slots' = [ring_slots EXCEPT ![i] =
             [occupied |-> TRUE, sequence |-> s, payload |-> p]]
      /\ occupancy_bitmap' = occupancy_bitmap \cup {i}
      /\ current_buffer_size' = current_buffer_size + 1
      /\ next_expected_seq' = n
      /\ out' = <<>>
      /\ base_index' = base_index /\ elapsed' = elapsed
  BY Zenon DEF Store
<1> HIDE DEF i, delta
<1>5. TypeOK'
  BY <1>1, <1>2, <1>4 DEF IInv, TypeOK, Slot
<1>6. RingAligned'
  <2> SUFFICES ASSUME NEW d \in Index,
                      Plus(base_index, d, Window) \in occupancy_bitmap'
               PROVE  /\ d > 0
                      /\ ring_slots'[Plus(base_index, d, Window)].sequence
                             = Plus(n, d, SeqMod)
    BY Zenon, <1>4 DEF RingAligned
  <2>1. CASE Plus(base_index, d, Window) = i
    <3>1. d = delta
      BY Zenon, <2>1, <1>2, PlusInjective, WindowAssumption DEF i, Index, IInv, TypeOK
    <3> QED BY <3>1, <2>1, <1>2, <1>3, <1>4 DEF IInv, TypeOK
  <2>2. CASE Plus(base_index, d, Window) # i
    <3>1. Plus(base_index, d, Window) \in occupancy_bitmap
      BY Zenon, <2>2, <1>4
    <3>2. ring_slots'[Plus(base_index, d, Window)]
             = ring_slots[Plus(base_index, d, Window)]
      BY Zenon, <2>2, <1>4, <3>1 DEF IInv, TypeOK
    <3> QED BY Zenon, <3>1, <3>2, <1>1 DEF IInv, RingAligned
  <2> QED BY Zenon, <2>1, <2>2
<1>7. OccupancyAgrees'
  <2>1. \A j \in Index : ring_slots'[j].occupied <=> j \in occupancy_bitmap'
    BY Zenon, <1>2, <1>4 DEF IInv, TypeOK, OccupancyAgrees
  <2>2. Cardinality(occupancy_bitmap') = Cardinality(occupancy_bitmap) + 1
    BY Zenon, <1>2, <1>4, FS_AddElement, BitmapFinite DEF IInv
  <2> QED BY Zenon, <2>1, <2>2, <1>4 DEF IInv, OccupancyAgrees
<1> QED BY Zenon, <1>5, <1>6, <1>7 DEF IInv, EmptyBeforeFirst

(* Every call preserves the invariant. *)
LEMMA NextIInv == IInv /\ [Next]_vars => IInv'
<1> SUFFICES ASSUME IInv, [Next]_vars PROVE IInv'
  BY Zenon
<1>1. ASSUME NEW s \in SeqNums, NEW p \in Payloads, insert(s, p) PROVE IInv'
  <2> DEFINE n == IF initialized THEN next_expected_seq ELSE s
  <2>1. /\ n \in SeqNums
        /\ \A d \in Index :
              Plus(base_index, d, Window) \in occupancy_bitmap =>
                  /\ d > 0
                  /\ ring_slots[Plus(base_index, d, Window)].sequence
                         = Plus(n, d, SeqMod)
    BY Zenon, AlignedAtExpected
  <2>2. initialized' = TRUE /\ UNCHANGED <<timeout_ms, flushed>>
    BY Zenon, <1>1 DEF insert
  <2>3. CASE s = n /\ InsertInOrder(s, p)
    <3>1. <<Packet(s, p)>> \in Seq(OutPacket)
      BY DEF Packet, OutPacket
    <3>2. advance_window(<<Packet(s, p)>>, SeqSucc(n), IndexSucc(base_index))
      BY Zenon, <2>3 DEF InsertInOrder
    <3> HIDE DEF n
    <3>3. TypeOK' /\ RingAligned' /\ OccupancyAgrees'
      BY Zenon, <2>1, <2>2, <3>1, <3>2, AdvanceWindow DEF IInv, TypeOK
    <3> QED BY Zenon, <3>3, <2>2 DEF IInv, EmptyBeforeFirst
  <2>4. CASE s # n /\ Discard(n)
    <3>1. initialized /\ n = next_expected_seq
      BY Zenon, <2>4
    <3>2. UNCHANGED window /\ elapsed' = elapsed /\ out' = <<>>
      BY Zenon, <2>4, <3>1 DEF Discard, window
    <3>3. TypeOK'
      BY <2>2, <3>2 DEF IInv, TypeOK, window
    <3>4. RingAligned' /\ OccupancyAgrees'
      BY Zenon, <3>2 DEF IInv, RingAligned, OccupancyAgrees, window
    <3> QED BY Zenon, <3>3, <3>4, <2>2 DEF IInv, EmptyBeforeFirst
  <2>5. CASE s # n /\ ~Discarded(s, n) /\ Store(s, p, n)
    <3> HIDE DEF n
    <3> QED BY Zenon, <2>2, <2>5, StoreIInv DEF n
  <2> QED BY Zenon, <1>1, <2>3, <2>4, <2>5 DEF insert
<1>2. ASSUME check_timeout PROVE IInv'
  <2>1. UNCHANGED <<initialized, timeout_ms, flushed>>
    BY Zenon, <1>2 DEF check_timeout
  <2>2. CASE initialized /\ UNCHANGED <<initialized, timeout_ms, flushed>>
             /\ advance_window(
                   IF ZeroFill
                   THEN <<create_zero_filled_packet(next_expected_seq)>>
                   ELSE <<>>,
                   SeqSucc(next_expected_seq), IndexSucc(base_index))
    <3> DEFINE first == IF ZeroFill
                        THEN <<create_zero_filled_packet(next_expected_seq)>>
                        ELSE <<>>
    <3>1. first \in Seq(OutPacket)
      <4>1. create_zero_filled_packet(next_expected_seq) \in OutPacket
        BY Zenon DEF IInv, TypeOK, create_zero_filled_packet, OutPacket
      <4>2. /\ <<create_zero_filled_packet(next_expected_seq)>>
                   \in Seq(OutPacket)
            /\ <<>> \in Seq(OutPacket)
        BY <4>1
      <4> QED BY Zenon, <4>2
    <3>2. advance_window(first, SeqSucc(next_expected_seq),
                         IndexSucc(base_index))
      BY Zenon, <2>2
    <3> HIDE DEF first
    <3>3. TypeOK' /\ RingAligned' /\ OccupancyAgrees'
      BY Zenon, <2>1, <3>1, <3>2, AdvanceWindow DEF IInv, TypeOK, RingAligned
    <3> QED BY Zenon, <3>3, <2>2 DEF IInv, EmptyBeforeFirst
  <2>3. CASE out' = <<>> /\ UNCHANGED <<window, elapsed>>
    <3>1. TypeOK'
      BY <2>1, <2>3 DEF IInv, TypeOK, window
    <3>2. RingAligned' /\ OccupancyAgrees' /\ EmptyBeforeFirst'
      BY Zenon, <2>1, <2>3
         DEF IInv, RingAligned, OccupancyAgrees, EmptyBeforeFirst, window
    <3> QED BY Zenon, <3>1, <3>2 DEF IInv
  <2> QED BY Zenon, <1>2, <2>1, <2>2, <2>3 DEF check_timeout
<1>3. ASSUME flush PROVE IInv'
  <2>1. pending = occupancy_bitmap
    BY Zenon DEF pending, IInv, TypeOK, OccupancyAgrees
  <2>2. /\ flushed' = TRUE
        /\ ring_slots' = [i \in Index |-> IF i \in occupancy_bitmap
                                          THEN Vacant ELSE ring_slots[i]]
        /\ occupancy_bitmap' = {}
        /\ current_buffer_size' = 0
        /\ UNCHANGED <<initialized, next_expected_seq, base_index, timeout_ms,
                       elapsed>>
    BY Zenon, <1>3, <2>1 DEF flush
  <2>3. out' \in Seq(OutPacket)
    <3> DEFINE N == Cardinality(occupancy_bitmap)
    <3>1. PICK f \in [1..N -> occupancy_bitmap] :
              out' = [j \in 1..N |-> Packet(ring_slots[f[j]].sequence,
                                            ring_slots[f[j]].payload)]
      BY Zenon, <1>3, <2>1 DEF flush
    <3>2. N \in Nat
      BY Zenon, BitmapFinite DEF IInv
    <3> HIDE DEF N
    <3>3. ASSUME NEW j \in 1..N
          PROVE  Packet(ring_slots[f[j]].sequence, ring_slots[f[j]].payload)
                     \in OutPacket
      <4>1. f[j] \in Index
        BY Zenon DEF IInv, TypeOK
      <4>2. ring_slots[f[j]] \in Slot
        BY Zenon, <4>1 DEF IInv, TypeOK
      <4> QED BY Zenon, <4>2 DEF Slot, Packet, OutPacket
    <3>4. out' \in [1..N -> OutPacket]
      BY Zenon, <3>1, <3>3
    <3> QED BY <3>2, <3>4
  <2>4. TypeOK'
    BY <2>2, <2>3, WindowAssumption
       DEF IInv, TypeOK, Slot, Vacant, SeqNums
  <2>5. RingAligned' /\ EmptyBeforeFirst'
    BY Zenon, <2>2 DEF RingAligned, EmptyBeforeFirst
  <2>6. OccupancyAgrees'
    BY Zenon, <2>2, FS_EmptySet DEF IInv, OccupancyAgrees, Vacant
  <2> QED BY Zenon, <2>4, <2>5, <2>6 DEF IInv
<1>4. ASSUME NEW t \in Timeouts, set_timeout_ms(t) PROVE IInv'
  <2>1. TypeOK'
    BY <1>4 DEF set_timeout_ms, IInv, TypeOK, window
  <2>2. RingAligned' /\ OccupancyAgrees' /\ EmptyBeforeFirst'
    BY Zenon, <1>4 DEF set_timeout_ms, IInv, RingAligned, OccupancyAgrees,
                EmptyBeforeFirst, window
  <2> QED BY Zenon, <2>1, <2>2 DEF IInv
<1>5. ASSUME Tick PROVE IInv'
  <2>1. TypeOK'
    BY <1>5, TimeoutAssumption DEF Tick, IInv, TypeOK, window
  <2>2. RingAligned' /\ OccupancyAgrees' /\ EmptyBeforeFirst'
    BY Zenon, <1>5 DEF Tick, IInv, RingAligned, OccupancyAgrees, EmptyBeforeFirst,
                window
  <2> QED BY Zenon, <2>1, <2>2 DEF IInv
<1>6. ASSUME UNCHANGED vars PROVE IInv'
  <2>1. TypeOK'
    BY Zenon, <1>6 DEF vars, IInv, TypeOK
  <2>2. RingAligned' /\ OccupancyAgrees' /\ EmptyBeforeFirst'
    BY Zenon, <1>6 DEF vars, IInv, RingAligned, OccupancyAgrees, EmptyBeforeFirst
  <2> QED BY Zenon, <2>1, <2>2 DEF IInv
<1> QED BY Zenon, <1>1, <1>2, <1>3, <1>4, <1>5, <1>6 DEF Next

(***************************************************************************)
(* The invariant holds of every behaviour of the reorderer, whatever       *)
(* packets arrive in whatever order and whenever timeouts are checked.     *)
(***************************************************************************)
THEOREM Invariance == Spec => []IInv
BY InitIInv, NextIInv, PTL DEF Spec

(* Every variable of the reorderer keeps its type. *)
THEOREM TypeCorrect == Spec => []TypeOK
<1>1. IInv => TypeOK
  BY Zenon DEF IInv
<1> QED BY <1>1, Invariance, PTL

(* Ring index and sequence number stay aligned through insert, check_timeout
   and every wrap-around, and no deliverable packet stays buffered. *)
THEOREM RingStaysAligned == Spec => []RingAligned
<1>1. IInv => RingAligned
  BY Zenon DEF IInv
<1> QED BY <1>1, Invariance, PTL

(* The bitmap, the slots' flags and current_buffer_size always agree. *)
THEOREM OccupancyStaysExact == Spec => []OccupancyAgrees
<1>1. IInv => OccupancyAgrees
  BY Zenon DEF IInv
<1> QED BY <1>1, Invariance, PTL

----------------------------------------------------------------------------
(* What a call that moves the window past n outputs after `first'. *)
LEMMA AdvanceOutput ==
    ASSUME TypeOK,
           NEW n \in SeqNums,
           \A d \in Index :
               Plus(base_index, d, Window) \in occupancy_bitmap =>
                   /\ d > 0
                   /\ ring_slots[Plus(base_index, d, Window)].sequence
                          = Plus(n, d, SeqMod),
           NEW first \in Seq(OutPacket),
           advance_window(first, SeqSucc(n), IndexSucc(base_index))
    PROVE  \E k \in 0..(Window - 1) :
               /\ Len(out') = Len(first) + k
               /\ next_expected_seq' = (n + 1 + k) % SeqMod
               /\ \A j \in 1..Len(first) : out'[j] = first[j]
               /\ \A j \in 1..k :
                     out'[Len(first) + j].sequence = (n + j) % SeqMod
<1> DEFINE s == SeqSucc(n)
           b == IndexSucc(base_index)
           k == RunLength(s, b)
           run == [j \in 1..k |-> Packet(Plus(s, j - 1, SeqMod),
                               ring_slots[Plus(b, j - 1, Window)].payload)]
<1>1. /\ s \in 0..(SeqMod - 1) /\ n \in 0..(SeqMod - 1)
      /\ b \in Index /\ SeqMod \in Nat \ {0}
  BY WindowAssumption DEF Plus, SeqSucc, IndexSucc, SeqNums, Index, TypeOK
<1>2. k \in 0..Window /\ \A j \in 0..(k - 1) : Deliverable(s, b, j)
  BY Zenon, RunLengthFact
<1>3. out' = first \o run /\ next_expected_seq' = Plus(s, k, SeqMod)
  BY Zenon DEF advance_window
<1> HIDE DEF k
<1>4. k \in 0..(Window - 1)
  <2> SUFFICES ASSUME k = Window PROVE FALSE
    BY <1>2, WindowAssumption
  <2>1. Deliverable(s, b, Window - 1)
    BY <1>2, WindowAssumption
  <2>2. Plus(b, Window - 1, Window) = Plus(base_index, 0, Window) /\ 0 \in Index
    BY WindowAssumption DEF Plus, IndexSucc, Index, TypeOK
  <2> QED BY <2>1, <2>2 DEF Deliverable
<1>5. \A j \in 0..k : Plus(s, j, SeqMod) = (n + 1 + j) % SeqMod
  <2> TAKE j \in 0..k
  <2>1. j + 1 \in 0..SeqMod /\ j \in 0..(SeqMod - 1)
    BY <1>4, WindowAssumption
  <2>2. Plus(s, j, SeqMod) = Plus(n, j + 1, SeqMod)
    BY Zenon, <1>1, <2>1, PlusSucc DEF SeqSucc
  <2>3. Plus(n, j + 1, SeqMod) = (n + (j + 1)) % SeqMod
    BY Zenon, <1>1, <2>1, PlusIsMod
  <2>4. n + (j + 1) = n + 1 + j
    BY <1>1, <2>1
  <2> QED BY Zenon, <2>2, <2>3, <2>4
<1>6. Len(run) = k /\ \A j \in 1..k : run[j].sequence = (n + j) % SeqMod
  <2>1. Len(run) = k
    BY <1>4
  <2>2. ASSUME NEW j \in 1..k PROVE run[j].sequence = (n + j) % SeqMod
    <3>1. j - 1 \in 0..k /\ n + 1 + (j - 1) = n + j
      BY <1>1, <1>4
    <3>2. Plus(s, j - 1, SeqMod) = (n + j) % SeqMod
      BY Zenon, <3>1, <1>5
    <3> QED BY Zenon, <3>2 DEF Packet
  <2> QED BY Zenon, <2>1, <2>2
<1>7. /\ Len(first \o run) = Len(first) + k
      /\ \A j \in 1..Len(first) : (first \o run)[j] = first[j]
      /\ \A j \in 1..k : (first \o run)[Len(first) + j] = run[j]
  <2>1. DOMAIN run = 1..k /\ k \in Nat
    BY <1>4
  <2>2. run \in Seq({run[j] : j \in 1..k})
    <3>1. run \in [1..k -> {run[j] : j \in 1..k}]
      BY Zenon
    <3> HIDE DEF run
    <3> QED BY <2>1, <3>1
  <2> HIDE DEF run
  <2>3. Len(first) \in Nat /\ Len(run) = k
    BY <1>6
  <2> QED BY <2>1, <2>2, <2>3
<1>8. k \in 0..k
  BY <1>4
<1> HIDE DEF run, s
<1> QED BY <1>3, <1>4, <1>5, <1>6, <1>7, <1>8

(* Every call outputs the numbers its window passes. *)
LEMMA StepOutput == IInv /\ [Next]_vars => [FollowsWindow]_vars
<1> SUFFICES ASSUME IInv, Next, ~flushed', initialized PROVE FollowsWindow
  BY Zenon DEF FollowsWindow
<1> DEFINE e == next_expected_seq
           Follows(skipped) ==
              /\ skipped = 1 => ~ZeroFill /\ elapsed >= timeout_ms
              /\ \A j \in 1..Len(out') :
                    out'[j].sequence = (e + skipped + j - 1) % SeqMod
              /\ next_expected_seq' = (e + skipped + Len(out')) % SeqMod
<1>1. e \in 0..(SeqMod - 1) /\ SeqMod \in Nat \ {0} /\ e \in SeqNums
  BY WindowAssumption DEF IInv, TypeOK, SeqNums
<1>2. /\ TypeOK
      /\ \A d \in Index :
            Plus(base_index, d, Window) \in occupancy_bitmap =>
                /\ d > 0
                /\ ring_slots[Plus(base_index, d, Window)].sequence
                       = Plus(e, d, SeqMod)
  BY Zenon DEF IInv, RingAligned
<1>3. ASSUME out' = <<>>, next_expected_seq' = e PROVE Follows(0)
  <2>1. Len(out') = 0 /\ e + 0 + 0 = e
    BY <1>3, <1>1
  <2>2. e = e % SeqMod
    BY <1>1
  <2> QED BY <2>1, <2>2, <1>3
<1>4. ASSUME NEW x \in OutPacket, x.sequence = e,
             advance_window(<<x>>, SeqSucc(e), IndexSucc(base_index))
      PROVE  Follows(0)
  <2>1. <<x>> \in Seq(OutPacket) /\ Len(<<x>>) = 1 /\ <<x>>[1] = x
    OBVIOUS
  <2>2. PICK k \in 0..(Window - 1) :
            /\ Len(out') = 1 + k
            /\ next_expected_seq' = (e + 1 + k) % SeqMod
            /\ \A j \in 1..1 : out'[j] = <<x>>[j]
            /\ \A j \in 1..k : out'[1 + j].sequence = (e + j) % SeqMod
    BY ZenonT(30), <1>1, <1>2, <1>4, <2>1, AdvanceOutput
  <2>3. ASSUME NEW j \in 1..(1 + k)
        PROVE  out'[j].sequence = (e + 0 + j - 1) % SeqMod
    <3>1. CASE j = 1
      <4>1. e = e % SeqMod /\ e + 0 + 1 - 1 = e
        BY <1>1
      <4> QED BY <3>1, <4>1, <2>1, <2>2, <1>4
    <3>2. CASE j # 1
      <4>1. j - 1 \in 1..k /\ 1 + (j - 1) = j /\ e + (j - 1) = e + 0 + j - 1
        BY <3>2, <2>2, <1>1
      <4> QED BY Zenon, <4>1, <2>2
    <3> QED BY Zenon, <3>1, <3>2
  <2>4. e + 1 + k = e + 0 + (1 + k)
    BY <1>1, <2>2
  <2> QED BY <2>2, <2>3, <2>4
<1>5. ASSUME ~ZeroFill, elapsed >= timeout_ms,
             advance_window(<<>>, SeqSucc(e), IndexSucc(base_index))
      PROVE  Follows(1)
  <2> DEFINE none == <<>>
  <2>1. none \in Seq(OutPacket) /\ Len(none) = 0
    OBVIOUS
  <2>2. PICK k \in 0..(Window - 1) :
            /\ Len(out') = 0 + k
            /\ next_expected_seq' = (e + 1 + k) % SeqMod
            /\ \A j \in 1..k : out'[0 + j].sequence = (e + j) % SeqMod
    <3>1. advance_window(none, SeqSucc(e), IndexSucc(base_index))
      BY Zenon, <1>5
    <3> HIDE DEF none
    <3>2. PICK k \in 0..(Window - 1) :
            /\ Len(out') = Len(none) + k
            /\ next_expected_seq' = (e + 1 + k) % SeqMod
            /\ \A j \in 1..Len(none) : out'[j] = none[j]
            /\ \A j \in 1..k : out'[Len(none) + j].sequence = (e + j) % SeqMod
      BY ZenonT(30), <1>1, <1>2, <2>1, <3>1, AdvanceOutput
    <3> QED BY <2>1, <3>2
  <2>3. ASSUME NEW j \in 1..k
        PROVE  out'[j].sequence = (e + 1 + j - 1) % SeqMod
    <3>1. e + 1 + j - 1 = e + j /\ 0 + j = j
      BY <1>1, <2>2
    <3> QED BY Zenon, <3>1, <2>2
  <2>4. 0 + k = k
    BY <2>2
  <2> QED BY Zenon, <2>2, <2>3, <2>4, <1>5
<1>6. SUFFICES \E skipped \in 0..1 : Follows(skipped)
  BY Zenon DEF FollowsWindow
<1> HIDE DEF Follows
<1>7. SUFFICES Follows(0) \/ Follows(1)
  OBVIOUS
<1>8. ASSUME NEW s \in SeqNums, NEW p \in Payloads, insert(s, p)
      PROVE  Follows(0)
  <2>1. CASE s = e /\ InsertInOrder(s, p)
    <3>1. Packet(s, p) \in OutPacket /\ Packet(s, p).sequence = e
      BY Zenon, <2>1 DEF Packet, OutPacket
    <3> QED BY Zenon, <3>1, <2>1, <1>4 DEF InsertInOrder
  <2>2. CASE Discard(e) \/ Store(s, p, e)
    BY Zenon, <2>2, <1>3 DEF Discard, Store
  <2> QED BY Zenon, <1>8, <2>1, <2>2 DEF insert
<1>9. ASSUME check_timeout PROVE Follows(0) \/ Follows(1)
  <2>1. CASE out' = <<>> /\ UNCHANGED <<window, elapsed>>
    BY Zenon, <2>1, <1>3 DEF window
  <2>2. CASE /\ elapsed >= timeout_ms
             /\ advance_window(
                    IF ZeroFill THEN <<create_zero_filled_packet(e)>> ELSE <<>>,
                    SeqSucc(e), IndexSucc(base_index))
    <3>1. CASE ZeroFill
      <4>1. /\ create_zero_filled_packet(e) \in OutPacket
            /\ create_zero_filled_packet(e).sequence = e
        BY Zenon, <1>1 DEF create_zero_filled_packet, OutPacket
      <4> QED BY Zenon, <3>1, <2>2, <4>1, <1>4
    <3>2. CASE ~ZeroFill
      BY Zenon, <3>2, <2>2, <1>5
    <3> QED BY Zenon, <3>1, <3>2
  <2> QED BY Zenon, <1>9, <2>1, <2>2 DEF check_timeout
<1>10. ASSUME NEW t \in Timeouts, set_timeout_ms(t) PROVE Follows(0)
  BY Zenon, <1>10, <1>3 DEF set_timeout_ms, window
<1>11. ASSUME Tick PROVE Follows(0)
  BY Zenon, <1>11, <1>3 DEF Tick, window
<1>12. ~flush
  BY Zenon DEF flush
<1> QED BY Zenon, <1>8, <1>9, <1>10, <1>11, <1>12 DEF Next

(***************************************************************************)
(* Until flush() the output is gap-free and in order: each call outputs    *)
(* exactly the consecutive sequence numbers that its window passes.        *)
(***************************************************************************)
THEOREM OutputIsGapFree == Spec => OutputFollowsWindow
BY Invariance, StepOutput, PTL DEF Spec, OutputFollowsWindow

----------------------------------------------------------------------------
(* The ring as the stream sees it: the packet in a slot, and those held. *)
PacketAt(i) == Packet(ring_slots[i].sequence, ring_slots[i].payload)

Held == {PacketAt(i) : i \in pending}

(* RingAligned, for a window that starts at the number n. *)
AlignedAt(n) ==
    \A d \in Index :
        Plus(base_index, d, Window) \in occupancy_bitmap =>
            /\ d > 0
            /\ ring_slots[Plus(base_index, d, Window)].sequence
                   = Plus(n, d, SeqMod)

(* The stream counts packets as the ring does. *)
LEMMA SameCardinality ==
    ASSUME NEW S
    PROVE  Stream!Cardinality(S) = Cardinality(S)
BY Zenon DEF Stream!Cardinality, Cardinality

(* A number in range is ahead of another by their modular difference. *)
LEMMA MinusIsAhead ==
    ASSUME NEW s \in SeqNums, NEW t \in SeqNums
    PROVE  Stream!Ahead(s, t) = Minus(t, s, SeqMod)
<1>1. SeqMod \in Nat \ {0} /\ s \in 0..(SeqMod - 1) /\ t \in 0..(SeqMod - 1)
  BY WindowAssumption DEF SeqNums
<1>2. CASE t >= s
  BY <1>1, <1>2 DEF Minus, Stream!Ahead
<1>3. CASE t < s
  <2>1. t - s + SeqMod \in 0..(SeqMod - 1)
    BY <1>1, <1>3
  <2>2. (t - s) % SeqMod = t - s + SeqMod
    BY <1>1, <1>3, <2>1
  <2> QED BY <1>1, <1>3, <2>2 DEF Minus, Stream!Ahead
<1> QED BY <1>1, <1>2, <1>3

(* The k-th number after the one that follows n. *)
LEMMA AfterIsPlus ==
    ASSUME NEW n \in SeqNums, NEW k \in 0..SeqMod
    PROVE  /\ Stream!After(n, 1) = SeqSucc(n)
           /\ Stream!After(Stream!After(n, 1), k) = Plus(SeqSucc(n), k, SeqMod)
<1>1. /\ SeqMod \in Nat \ {0} /\ n \in 0..(SeqMod - 1)
      /\ 1 \in 0..SeqMod /\ SeqSucc(n) \in 0..(SeqMod - 1)
  BY WindowAssumption DEF SeqNums, SeqSucc, Plus
<1>2. Stream!After(n, 1) = SeqSucc(n)
  BY Zenon, <1>1, PlusIsMod DEF Stream!After, SeqSucc
<1>3. Stream!After(SeqSucc(n), k) = Plus(SeqSucc(n), k, SeqMod)
  BY Zenon, <1>1, PlusIsMod DEF Stream!After
<1> QED BY Zenon, <1>2, <1>3

(* Two slots never hold packets with one number. *)
LEMMA SlotsApart ==
    ASSUME TypeOK, NEW n \in SeqNums, AlignedAt(n),
           NEW i \in occupancy_bitmap, NEW j \in occupancy_bitmap,
           ring_slots[i].sequence = ring_slots[j].sequence
    PROVE  i = j
<1>1. /\ i \in Index /\ j \in Index /\ base_index \in Index
      /\ Window \in Nat \ {0} /\ SeqMod \in Nat \ {0} /\ Window <= SeqMod
  BY WindowAssumption DEF TypeOK
<1>2. PICK d \in Index : i = Plus(base_index, d, Window)
  BY Zenon, <1>1, PlusOnto DEF Index
<1>3. PICK e \in Index : j = Plus(base_index, e, Window)
  BY Zenon, <1>1, PlusOnto DEF Index
<1>4. Plus(n, d, SeqMod) = Plus(n, e, SeqMod)
  BY Zenon, <1>2, <1>3 DEF AlignedAt
<1>5. d \in 0..(SeqMod - 1) /\ e \in 0..(SeqMod - 1) /\ n \in 0..(SeqMod - 1)
  BY <1>1 DEF Index, SeqNums
<1>6. d = e
  BY Zenon, <1>1, <1>4, <1>5, PlusInjective
<1> QED BY Zenon, <1>2, <1>3, <1>6

(* The ring holds as many packets as it has occupied slots. *)
LEMMA PacketsCount ==
    ASSUME TypeOK, NEW n \in SeqNums, AlignedAt(n),
           NEW T \in SUBSET occupancy_bitmap
    PROVE  Cardinality({PacketAt(i) : i \in T}) = Cardinality(T)
<1> DEFINE P == {PacketAt(i) : i \in T}
           f == [i \in T |-> PacketAt(i)]
<1>1. f \in Bijection(T, P)
  <2>1. f \in [T -> P]
    BY Zenon
  <2>2. \A i, j \in T : f[i] = f[j] => i = j
    <3> TAKE i, j \in T
    <3>1. PacketAt(i).sequence = ring_slots[i].sequence
          /\ PacketAt(j).sequence = ring_slots[j].sequence
      BY Zenon DEF PacketAt, Packet
    <3>2. PacketAt(i) = PacketAt(j) => i = j
      BY Zenon, <3>1, SlotsApart
    <3> QED BY Zenon, <3>2
  <2>3. \A y \in P : \E i \in T : f[i] = y
    BY Zenon
  <2> QED BY Zenon, <2>1, <2>2, <2>3 DEF Bijection, Injection, Surjection, IsInjective
<1>2. IsFiniteSet(T)
  BY Zenon, BitmapFinite, FS_Subset
<1>3. ExistsBijection(T, P)
  BY Zenon, <1>1 DEF ExistsBijection
<1> HIDE DEF P
<1>4. Cardinality(T) = Cardinality(P)
  BY Zenon, <1>2, <1>3, FS_Bijection
<1> QED BY Zenon, <1>4 DEF P

(***************************************************************************)
(* advance_window past n outputs `first' and the run of held packets that  *)
(* follows, and leaves the others held: it is an Emit of the stream.       *)
(***************************************************************************)
LEMMA AdvanceIsEmit ==
    ASSUME TypeOK, OccupancyAgrees, TypeOK', OccupancyAgrees',
           NEW n \in SeqNums, AlignedAt(n),
           NEW first \in Seq(OutPacket),
           advance_window(first, SeqSucc(n), IndexSucc(base_index))
    PROVE  Stream!Emit(first, Stream!After(n, 1))
<1> DEFINE s == SeqSucc(n)
           b == IndexSucc(base_index)
           k == RunLength(s, b)
           run == {PacketAt(i) : i \in Run(b, k)}
<1>1. /\ s \in SeqNums /\ b \in Index /\ base_index \in Index
      /\ SeqMod \in Nat \ {0} /\ Window \in Nat \ {0} /\ Window <= SeqMod
  BY WindowAssumption DEF Plus, SeqSucc, IndexSucc, SeqNums, Index, TypeOK
<1>2. /\ k \in 0..Window
      /\ \A j \in 0..(k - 1) : Deliverable(s, b, j)
      /\ k < Window => ~Deliverable(s, b, k)
  BY Zenon, RunLengthFact
<1>3. /\ Run(b, k) \subseteq occupancy_bitmap
      /\ Cardinality(Run(b, k)) = k
  BY Zenon, <1>1, RunFact
<1>4. /\ out' = first \o
                [j \in 1..k |-> Packet(Plus(s, j - 1, SeqMod),
                                  ring_slots[Plus(b, j - 1, Window)].payload)]
      /\ next_expected_seq' = Plus(s, k, SeqMod)
      /\ ring_slots' = [i \in Index |-> IF i \in Run(b, k) THEN Vacant
                                                           ELSE ring_slots[i]]
      /\ occupancy_bitmap' = occupancy_bitmap \ Run(b, k)
  BY Zenon DEF advance_window, Run
<1> HIDE DEF k
<1>5. pending = occupancy_bitmap /\ pending' = occupancy_bitmap'
  BY Zenon DEF pending, TypeOK, OccupancyAgrees
<1>6. run \subseteq Held /\ Cardinality(run) = k
  BY Zenon, <1>3, <1>5, PacketsCount DEF Held
<1>7. Held' = Held \ run
  <2>1. \A i \in occupancy_bitmap : PacketAt(i) \in run => i \in Run(b, k)
    <3> SUFFICES ASSUME NEW i \in occupancy_bitmap, NEW j \in Run(b, k),
                        PacketAt(i) = PacketAt(j)
                 PROVE  i = j
      BY Zenon
    <3>1. ring_slots[i].sequence = ring_slots[j].sequence
      BY Zenon DEF PacketAt, Packet
    <3> QED BY Zenon, <3>1, <1>3, SlotsApart
  <2>2. \A i \in occupancy_bitmap' : PacketAt(i)' = PacketAt(i)
    BY Zenon, <1>4 DEF PacketAt, TypeOK
  <2> QED BY Zenon, <2>1, <2>2, <1>3, <1>4, <1>5 DEF Held
<1>8. \A j \in 0..k : Stream!After(Stream!After(n, 1), j) = Plus(s, j, SeqMod)
  <2> TAKE j \in 0..k
  <2>1. j \in 0..SeqMod
    BY <1>1, <1>2
  <2> QED BY Zenon, <2>1, AfterIsPlus
<1>9. ASSUME NEW j \in 0..(k - 1)
      PROVE  /\ PacketAt(Plus(b, j, Window)) \in run
             /\ PacketAt(Plus(b, j, Window)) =
                    Packet(Plus(s, j, SeqMod),
                           ring_slots[Plus(b, j, Window)].payload)
             /\ PacketAt(Plus(b, j, Window)).sequence = Plus(s, j, SeqMod)
  <2>1. Plus(b, j, Window) \in Run(b, k)
    BY Zenon DEF Run
  <2>2. ring_slots[Plus(b, j, Window)].sequence = Plus(s, j, SeqMod)
    BY Zenon, <1>2 DEF Deliverable
  <2> QED BY Zenon, <2>1, <2>2 DEF PacketAt, Packet
<1>10. ASSUME NEW p \in Held \ run PROVE p.sequence # Plus(s, k, SeqMod)
  <2> SUFFICES ASSUME p.sequence = Plus(s, k, SeqMod) PROVE FALSE
    BY Zenon
  <2>1. PICK i \in occupancy_bitmap : p = PacketAt(i)
    BY Zenon, <1>5 DEF Held
  <2>2. ring_slots[i].sequence = Plus(s, k, SeqMod) /\ i \notin Run(b, k)
    BY Zenon, <2>1 DEF PacketAt, Packet
  <2>3. PICK d \in Index : i = Plus(base_index, d, Window)
    BY Zenon, <1>1, PlusOnto DEF Index, TypeOK
  <2>4. d > 0 /\ ring_slots[i].sequence = Plus(n, d, SeqMod)
    BY Zenon, <2>1, <2>3 DEF AlignedAt
  <2>5. d \in 1..(Window - 1) /\ n \in 0..(SeqMod - 1) /\ d - 1 \in 0..(SeqMod - 1)
    BY <2>3, <2>4, <1>1 DEF Index, SeqNums
  <2>6. Plus(n, d, SeqMod) = Plus(s, d - 1, SeqMod)
    BY <2>5, <1>1 DEF Plus, SeqSucc, SeqNums
  <2>7. i = Plus(b, d - 1, Window)
    BY <2>3, <2>5, <1>1 DEF Plus, IndexSucc, Index
  <2>8. k = d - 1 \/ k = Window
    <3>1. CASE k < Window
      <4>1. k \in 0..(SeqMod - 1)
        BY <3>1, <1>1, <1>2
      <4> QED BY Zenon, <4>1, <2>2, <2>4, <2>5, <2>6, <1>1, PlusInjective DEF SeqNums
    <3> QED BY <3>1, <1>1, <1>2
  <2>9. CASE k = Window
    <3>1. d - 1 \in 0..(k - 1)
      BY <2>5, <2>9, <1>1
    <3> QED BY Zenon, <3>1, <2>2, <2>7 DEF Run
  <2>10. CASE k = d - 1
    <3>1. k < Window /\ ~Deliverable(s, b, k)
      BY <2>5, <2>10, <1>1, <1>2
    <3>2. Deliverable(s, b, k)
      BY Zenon, <2>1, <2>2, <2>7, <2>10 DEF Deliverable, OccupancyAgrees, TypeOK
    <3> QED BY Zenon, <3>1, <3>2
  <2> QED BY Zenon, <2>8, <2>9, <2>10
<1>11. ASSUME NEW j \in 1..k
       PROVE  (CHOOSE p \in run : p.sequence = Plus(s, j - 1, SeqMod))
                = Packet(Plus(s, j - 1, SeqMod),
                         ring_slots[Plus(b, j - 1, Window)].payload)
  <2> DEFINE q == PacketAt(Plus(b, j - 1, Window))
  <2>1. j - 1 \in 0..(k - 1)
    BY <1>2
  <2>2. /\ q \in run /\ q.sequence = Plus(s, j - 1, SeqMod)
        /\ q = Packet(Plus(s, j - 1, SeqMod),
                      ring_slots[Plus(b, j - 1, Window)].payload)
    BY Zenon, <2>1, <1>9
  <2>3. ASSUME NEW p \in run, p.sequence = q.sequence PROVE p = q
    <3>1. PICK i \in Run(b, k) : p = PacketAt(i)
      BY Zenon
    <3>2. Plus(b, j - 1, Window) \in Run(b, k)
      BY Zenon, <2>1 DEF Run
    <3>3. ring_slots[i].sequence = ring_slots[Plus(b, j - 1, Window)].sequence
      BY Zenon, <3>1, <2>3 DEF PacketAt, Packet
    <3>4. i = Plus(b, j - 1, Window)
      BY <3>2, <3>3, <1>3, SlotsApart
    <3> QED BY Zenon, <3>1, <3>4
  <2> HIDE DEF q, run
  <2>4. (CHOOSE p \in run : p.sequence = Plus(s, j - 1, SeqMod)) = q
    BY Zenon, <2>2, <2>3
  <2> QED BY Zenon, <2>2, <2>4
<1>12. SUFFICES /\ run \in SUBSET Held
                /\ LET c == Cardinality(run)
                       m == Stream!After(n, 1)
                   IN  /\ \A j \in 0..(c - 1) :
                              \E p \in run : p.sequence = Stream!After(m, j)
                       /\ \A p \in Held \ run : p.sequence # Stream!After(m, c)
                       /\ Held' = Held \ run
                       /\ next_expected_seq' = Stream!After(m, c)
                       /\ out' = first \o
                             [j \in 1..c |-> CHOOSE p \in run :
                                 p.sequence = Stream!After(m, j - 1)]
  BY SameCardinality, Zenon DEF Stream!Emit, Held, PacketAt
<1>13. \A j \in 1..k : Stream!After(Stream!After(n, 1), j - 1) = Plus(s, j - 1, SeqMod)
  <2> TAKE j \in 1..k
  <2>1. j - 1 \in 0..k
    BY <1>2
  <2> QED BY Zenon, <2>1, <1>8
<1>14. out' = first \o [j \in 1..k |-> CHOOSE p \in run :
                            p.sequence = Stream!After(Stream!After(n, 1), j - 1)]
  <2> HIDE DEF run
  <2>1. [j \in 1..k |-> CHOOSE p \in run :
            p.sequence = Stream!After(Stream!After(n, 1), j - 1)]
        = [j \in 1..k |-> Packet(Plus(s, j - 1, SeqMod),
                                 ring_slots[Plus(b, j - 1, Window)].payload)]
    BY <1>11, <1>13
  <2> QED BY Zenon, <2>1, <1>4
<1>15. /\ \A j \in 0..(k - 1) : \E p \in run :
              p.sequence = Stream!After(Stream!After(n, 1), j)
       /\ k \in 0..k
  <2>1. \A j \in 0..(k - 1) : j \in 0..k
    BY <1>2
  <2>2. k \in 0..k
    BY <1>2
  <2> HIDE DEF run
  <2> QED BY Zenon, <2>1, <2>2, <1>8, <1>9
<1> HIDE DEF run, s
<1> QED BY ZenonT(30), <1>4, <1>6, <1>7, <1>8, <1>10, <1>14, <1>15

(* A packet is held by the stream exactly when insert stores it. *)
LEMMA StoredIsHoldable ==
    ASSUME TypeOK, OccupancyAgrees, NEW s \in SeqNums,
           NEW n \in SeqNums, AlignedAt(n), s # n
    PROVE  Stream!Holdable(s, n) <=> ~Discarded(s, n)
<1> DEFINE delta == Minus(s, n, SeqMod)
           i == Plus(base_index, delta, Window)
<1>1. /\ SeqMod \in Nat \ {0} /\ Window \in Nat \ {0} /\ Window <= SeqMod
      /\ base_index \in Index /\ delta \in 1..(SeqMod - 1)
      /\ Plus(n, delta, SeqMod) = s
  BY WindowAssumption, MinusType DEF TypeOK, SeqNums, Minus
<1>2. Stream!Ahead(n, s) = delta
  BY Zenon, MinusIsAhead
<1>3. pending = occupancy_bitmap
  BY Zenon DEF pending, TypeOK, OccupancyAgrees
<1> HIDE DEF delta
<1>4. ASSUME delta < Window
      PROVE  i \in occupancy_bitmap <=> \E p \in Held : p.sequence = s
  <2>1. delta \in Index
    BY <1>1, <1>4 DEF Index
  <2>2. ASSUME i \in occupancy_bitmap PROVE \E p \in Held : p.sequence = s
    <3>1. ring_slots[i].sequence = s
      BY Zenon, <1>1, <2>1, <2>2 DEF AlignedAt
    <3>2. PacketAt(i) \in Held /\ PacketAt(i).sequence = s
      BY Zenon, <1>3, <2>2, <3>1 DEF Held, PacketAt, Packet
    <3> QED BY Zenon, <3>2
  <2>3. ASSUME NEW p \in Held, p.sequence = s PROVE i \in occupancy_bitmap
    <3>1. PICK j \in occupancy_bitmap : p = PacketAt(j)
      BY Zenon, <1>3 DEF Held
    <3>2. ring_slots[j].sequence = s
      BY Zenon, <2>3, <3>1 DEF PacketAt, Packet
    <3>3. PICK d \in Index : j = Plus(base_index, d, Window)
      BY Zenon, <1>1, PlusOnto DEF Index, TypeOK
    <3>4. Plus(n, d, SeqMod) = Plus(n, delta, SeqMod)
      BY <3>1, <3>2, <3>3, <1>1 DEF AlignedAt
    <3>5. d = delta
      BY <3>4, <1>1, PlusInjective DEF Index, SeqNums
    <3> QED BY Zenon, <3>1, <3>3, <3>5
  <2> QED BY Zenon, <2>2, <2>3
<1>5. Stream!Holdable(s, n) <=> /\ delta \in 1..(Window - 1) /\ 2 * delta < SeqMod
                               /\ \A p \in Held : p.sequence # s
  BY Zenon, <1>2 DEF Stream!Holdable, Held, PacketAt
<1>6. Discarded(s, n) <=> \/ ~(delta > 0 /\ 2 * delta < SeqMod)
                         \/ delta >= Window \/ i \in occupancy_bitmap
  BY Zenon DEF Discarded, is_sequence_newer, delta
<1>7. CASE delta < Window
  <2> HIDE DEF i
  <2> QED BY <1>1, <1>4, <1>5, <1>6, <1>7
<1>8. CASE delta >= Window
  BY <1>1, <1>5, <1>6, <1>8
<1> QED BY <1>1, <1>7, <1>8

(* insert is Accept: the packet is emitted, held or turned away. *)
LEMMA InsertIsAccept ==
    ASSUME IInv, IInv', NEW s \in SeqNums, NEW p \in Payloads, insert(s, p)
    PROVE  Stream!Accept(s, p)
<1> DEFINE n == IF initialized THEN next_expected_seq ELSE s
<1>1. n \in SeqNums /\ AlignedAt(n)
  BY Zenon, AlignedAtExpected DEF AlignedAt
<1>2. TypeOK /\ OccupancyAgrees /\ TypeOK' /\ OccupancyAgrees'
  BY Zenon DEF IInv
<1>3. ~flushed /\ initialized' = TRUE /\ flushed' = flushed
  BY Zenon DEF insert
<1>4. pending = occupancy_bitmap /\ pending' = occupancy_bitmap'
  BY Zenon, <1>2 DEF pending, TypeOK, OccupancyAgrees
<1>5. CASE s = n /\ InsertInOrder(s, p)
  <2>1. <<Packet(s, p)>> \in Seq(OutPacket)
    BY DEF Packet, OutPacket
  <2>2. advance_window(<<Packet(s, p)>>, SeqSucc(s), IndexSucc(base_index))
    BY Zenon, <1>5 DEF InsertInOrder
  <2> HIDE DEF n
  <2>3. Stream!Emit(<<Packet(s, p)>>, Stream!After(s, 1))
    BY Zenon, <1>1, <1>2, <1>5, <2>1, <2>2, AdvanceIsEmit
  <2>4. Packet(s, p) = Stream!Real(s, p)
    BY Zenon DEF Packet, Stream!Real
  <2> QED BY <1>3, <1>5, <2>3, <2>4, Zenon DEF Stream!Accept, n
<1>6. CASE s # n /\ Discarded(s, n) /\ Discard(n)
  <2>1. ~Stream!Holdable(s, n)
    BY <1>1, <1>2, <1>6, StoredIsHoldable
  <2>2. /\ next_expected_seq' = n /\ out' = <<>>
        /\ ring_slots' = ring_slots /\ occupancy_bitmap' = occupancy_bitmap
    BY Zenon, <1>6 DEF Discard
  <2>3. Held' = Held
    BY Zenon, <1>4, <2>2 DEF Held, PacketAt
  <2> QED BY <1>3, <1>6, <2>1, <2>2, <2>3, Zenon DEF Stream!Accept, Held, PacketAt
<1>7. CASE s # n /\ ~Discarded(s, n) /\ Store(s, p, n)
  <2>1. Stream!Holdable(s, n)
    BY <1>1, <1>2, <1>7, StoredIsHoldable
  <2> DEFINE slot == Plus(base_index, Minus(s, n, SeqMod), Window)
  <2>2. PICK i \in Index :
        /\ next_expected_seq' = n /\ out' = <<>>
        /\ ring_slots' = [ring_slots EXCEPT ![i] =
              [occupied |-> TRUE, sequence |-> s, payload |-> p]]
        /\ occupancy_bitmap' = occupancy_bitmap \cup {i}
        /\ i \notin occupancy_bitmap
    <3>1. occupancy_bitmap' = occupancy_bitmap \cup {slot}
      BY Zenon, <1>7 DEF Store
    <3>2. slot \in Index
      BY Zenon, <1>2, <3>1 DEF TypeOK
    <3> QED BY ZenonT(30), <1>7, <3>2 DEF Store, Discarded
  <2> HIDE DEF n
  <2>3. PacketAt(i)' = Packet(s, p)
    BY Zenon, <1>2, <2>2 DEF PacketAt, TypeOK
  <2>5. \A j \in occupancy_bitmap : PacketAt(j)' = PacketAt(j)
    BY Zenon, <1>2, <2>2 DEF PacketAt, TypeOK
  <2>6. Held' = Held \cup {Packet(s, p)}
    BY <1>4, <2>2, <2>3, <2>5 DEF Held
  <2>7. Packet(s, p) = Stream!Real(s, p)
    BY Zenon DEF Packet, Stream!Real
  <2> QED BY <1>3, <1>7, <2>1, <2>2, <2>6, <2>7, Zenon
          DEF Stream!Accept, Held, PacketAt, n
<1> QED BY <1>5, <1>6, <1>7 DEF insert

(* flush closes the stream: each packet held is emitted, and only once. *)
LEMMA FlushIsClose ==
    ASSUME IInv, IInv', flush
    PROVE  Stream!Close
<1>1. TypeOK /\ OccupancyAgrees /\ TypeOK' /\ OccupancyAgrees'
  BY Zenon DEF IInv
<1>2. pending = occupancy_bitmap /\ pending' = occupancy_bitmap'
  BY Zenon, <1>1 DEF pending, TypeOK, OccupancyAgrees
<1>3. next_expected_seq \in SeqNums /\ AlignedAt(next_expected_seq)
  BY Zenon DEF IInv, TypeOK, RingAligned, AlignedAt
<1>4. /\ ~flushed /\ flushed' = TRUE /\ occupancy_bitmap' = {}
      /\ UNCHANGED <<initialized, next_expected_seq>>
  BY ZenonT(30), <1>2 DEF flush
<1> DEFINE N == Cardinality(occupancy_bitmap)
<1>5. PICK f \in [1..N -> occupancy_bitmap] :
          /\ \A i, j \in 1..N :
                i < j => ring_slots[f[i]].sequence < ring_slots[f[j]].sequence
          /\ out' = [j \in 1..N |-> PacketAt(f[j])]
  BY Zenon, <1>2 DEF flush, PacketAt
<1>6. N \in Nat /\ IsFiniteSet(occupancy_bitmap)
  BY Zenon, <1>1, BitmapFinite
<1>7. f \in Injection(1..N, occupancy_bitmap)
  <2>1. ASSUME NEW i \in 1..N, NEW j \in 1..N, f[i] = f[j] PROVE i = j
    <3>1. f[i] \in Index /\ ring_slots[f[i]].sequence \in Nat
      <4>1. /\ f[i] \in Index /\ ring_slots \in [Index -> Slot]
            /\ SeqMod \in Nat
        BY Zenon, <1>1, WindowAssumption DEF TypeOK
      <4>2. ring_slots[f[i]].sequence \in SeqNums
        BY Zenon, <4>1 DEF Slot
      <4>3. SeqNums \subseteq Nat
        BY <4>1 DEF SeqNums
      <4> QED BY Zenon, <4>1, <4>2, <4>3
    <3>2. ~(i < j) /\ ~(j < i)
      BY <1>5, <2>1, <3>1
    <3> HIDE DEF N
    <3> QED BY <1>6, <3>2
  <2> HIDE DEF N
  <2> QED BY Zenon, <2>1 DEF Injection, IsInjective
<1>8. f \in Surjection(1..N, occupancy_bitmap)
  <2>1. Cardinality(1..N) = N
    BY <1>6, FS_Interval
  <2> QED BY Zenon, <1>6, <1>7, <2>1, FS_Injection
<1>9. \A i \in occupancy_bitmap : \E j \in 1..N : f[j] = i
  <2> HIDE DEF N
  <2> QED BY <1>8, Zenon DEF Surjection
<1>10. Cardinality(Held) = N
  BY Zenon, <1>1, <1>2, <1>3, PacketsCount DEF Held
<1> HIDE DEF N
<1>11. Len(out') = N /\ {out'[j] : j \in 1..Len(out')} = Held
  <2>1. Len(out') = N
    BY <1>5, <1>6
  <2>2. \A j \in 1..N : out'[j] = PacketAt(f[j]) /\ f[j] \in occupancy_bitmap
    BY Zenon, <1>5
  <2> QED BY <1>2, <1>9, <2>1, <2>2 DEF Held
<1>12. Held' = {}
  BY Zenon, <1>2, <1>4 DEF Held
<1>13. Len(out') = Stream!Cardinality(Held)
  BY Zenon, <1>10, <1>11, SameCardinality
<1> QED BY <1>4, <1>11, <1>12, <1>13, Zenon DEF Stream!Close, Held, PacketAt

(* Every call of the reorderer is a step of the stream. *)
LEMMA StepIsStreamStep ==
    IInv /\ IInv' /\ [Next]_vars => [Stream!SNext]_(Stream!svars)
<1> SUFFICES ASSUME IInv, IInv', [Next]_vars
             PROVE  Stream!SNext \/ UNCHANGED Stream!svars
  BY Zenon
<1>1. ASSUME out' = <<>>, UNCHANGED <<initialized, window, flushed>>
      PROVE  Stream!SNext
  <2>1. Held' = Held
    BY Zenon, <1>1 DEF Held, PacketAt, pending, window
  <2>2. UNCHANGED <<initialized, next_expected_seq, flushed>>
    BY Zenon, <1>1 DEF window
  <2>3. Stream!Idle
    BY <1>1, <2>1, <2>2, Zenon DEF Stream!Idle, Held, PacketAt
  <2> QED BY <2>3 DEF Stream!SNext
<1>2. ASSUME NEW s \in SeqNums, NEW p \in Payloads, insert(s, p)
      PROVE  Stream!SNext
  <2>1. Stream!Accept(s, p) /\ s \in Stream!Numbers
    BY Zenon, <1>2, InsertIsAccept DEF Stream!Numbers, SeqNums
  <2> QED BY Zenon, <2>1 DEF Stream!SNext
<1>3. ASSUME check_timeout PROVE Stream!SNext
  <2>1. CASE out' = <<>> /\ UNCHANGED <<window, elapsed>>
    BY <1>1, <1>3, <2>1 DEF check_timeout
  <2> DEFINE e == next_expected_seq
             first == IF ZeroFill THEN <<create_zero_filled_packet(e)>> ELSE <<>>
  <2>2. CASE initialized /\ advance_window(first, SeqSucc(e), IndexSucc(base_index))
    <3>1. /\ TypeOK /\ OccupancyAgrees /\ TypeOK' /\ OccupancyAgrees'
          /\ e \in SeqNums /\ AlignedAt(e)
      BY Zenon DEF IInv, TypeOK, RingAligned, AlignedAt
    <3>2. first \in Seq(OutPacket)
      <4>1. create_zero_filled_packet(e) \in OutPacket
        BY Zenon, <3>1 DEF create_zero_filled_packet, OutPacket
      <4>2. /\ <<create_zero_filled_packet(e)>> \in Seq(OutPacket)
            /\ <<>> \in Seq(OutPacket)
        BY <4>1
      <4> QED BY Zenon, <4>2
    <3>3. Stream!Emit(first, Stream!After(e, 1))
      <4> HIDE DEF first
      <4> QED BY <2>2, <3>1, <3>2, AdvanceIsEmit
    <3>4. create_zero_filled_packet(e) = Stream!Fill(e)
      BY Zenon DEF create_zero_filled_packet, Stream!Fill
    <3>5. ~flushed /\ UNCHANGED <<initialized, flushed>>
      BY Zenon, <1>3 DEF check_timeout
    <3>6. Stream!GiveUp
      BY <2>2, <3>3, <3>4, <3>5, Zenon DEF Stream!GiveUp
    <3> QED BY Zenon, <3>6 DEF Stream!SNext
  <2> QED BY <1>3, <2>1, <2>2 DEF check_timeout
<1>4. ASSUME flush PROVE Stream!SNext
  BY Zenon, <1>4, FlushIsClose DEF Stream!SNext
<1>5. ASSUME NEW t \in Timeouts, set_timeout_ms(t) PROVE Stream!SNext
  BY Zenon, <1>1, <1>5 DEF set_timeout_ms
<1>6. ASSUME Tick PROVE Stream!SNext
  BY Zenon, <1>1, <1>6 DEF Tick
<1>7. ASSUME UNCHANGED vars PROVE UNCHANGED Stream!svars
  <2>1. Held' = Held
    BY Zenon, <1>7 DEF Held, PacketAt, pending, vars
  <2>2. UNCHANGED <<initialized, next_expected_seq, out, flushed>>
    BY Zenon, <1>7 DEF vars
  <2> QED BY <2>1, <2>2, Zenon DEF Stream!svars, Held, PacketAt
<1> QED BY <1>2, <1>3, <1>4, <1>5, <1>6, <1>7 DEF Next

(***************************************************************************)
(* The ring with its indices, its bitmap and its clock implements the      *)
(* stream of consecutive packets: whatever arrives, in whatever order,     *)
(* each call of insert, check_timeout and flush is one step of the stream. *)
(***************************************************************************)
THEOREM RingImplementsStream == Spec => ImplementsStream
<1>1. Init => Stream!SInit
  <2> SUFFICES ASSUME Init PROVE Stream!SInit
    BY Zenon
  <2>1. Held = {}
    BY Zenon DEF Init, Held, pending
  <2> QED BY <2>1, Zenon DEF Init, Stream!SInit, Held, PacketAt
<1> QED BY <1>1, Invariance, StepIsStreamStep, PTL
        DEF Spec, ImplementsStream, Stream!SSpec
=============================================================================
