------------------------- MODULE ReassemblerProofs -------------------------
(***************************************************************************)
(* The reassembler for any keys, limits and fragments: what its contexts   *)
(* hold is accounted for, the frames it outputs are sound, and a frozen    *)
(* key is neither opened nor forgotten.                                    *)
(***************************************************************************)
EXTENDS Reassembler, Loops, FiniteSetTheorems

----------------------------------------------------------------------------
(***************************************************************************)
(* The bytes a context holds.                                              *)
(***************************************************************************)
IsSum(s, f) ==
    /\ f \in [0..(MaxTotal + 1) -> Nat]
    /\ f[0] = 0
    /\ \A n \in 1..(MaxTotal + 1) : f[n] = f[n - 1] + s[n - 1]

(* The partial sums exist. *)
LEMMA SumExists ==
    ASSUME NEW s \in [FragIndex -> Nat]
    PROVE  \E f : IsSum(s, f)
<1> DEFINE N == MaxTotal + 1
<1> DEFINE Upto(m, f) == /\ f \in [0..N -> Nat] /\ f[0] = 0
                         /\ \A n \in 1..m : f[n] = f[n - 1] + s[n - 1]
<1> DEFINE T == {m \in 0..N : \E f : Upto(m, f)}
<1>0. N \in Nat /\ FragIndex = 0..(N - 1)
  BY ReassemblerAssumption DEF FragIndex
<1> HIDE DEF N
<1>1. 0 \in T
  <2>1. Upto(0, [n \in 0..N |-> 0])
    BY <1>0
  <2> HIDE DEF Upto
  <2> QED BY <2>1, <1>0
<1>2. ASSUME NEW m \in 1..N, m - 1 \in T PROVE m \in T
  <2>1. PICK f : Upto(m - 1, f)
    BY Zenon, <1>2
  <2> DEFINE g == [f EXCEPT ![m] = f[m - 1] + s[m - 1]]
  <2>2. s[m - 1] \in Nat /\ f[m - 1] \in Nat
    BY <2>1, <1>0
  <2>3. g \in [0..N -> Nat] /\ g[0] = 0
    BY <2>1, <2>2, <1>0
  <2>4. ASSUME NEW n \in 1..m PROVE g[n] = g[n - 1] + s[n - 1]
    <3>1. n - 1 \in 0..N /\ n \in 0..N /\ n - 1 # m
      BY <1>0
    <3>2. g[n - 1] = f[n - 1]
      BY Zenon, <3>1, <2>1
    <3>3. CASE n = m
      BY Zenon, <3>1, <3>2, <3>3, <2>1
    <3>4. CASE n # m
      <4>1. n \in 1..(m - 1) /\ g[n] = f[n]
        BY <3>1, <3>4, <2>1
      <4> QED BY Zenon, <4>1, <3>2, <2>1
    <3> QED BY Zenon, <3>3, <3>4
  <2>5. Upto(m, g)
    <3> HIDE DEF g
    <3> QED BY Zenon, <2>3, <2>4
  <2> HIDE DEF Upto
  <2> QED BY <2>5, <1>0
<1>3. N \in T
  <2>1. T \in SUBSET (0..N)
    BY Zenon
  <2> HIDE DEF T
  <2>2. \A n \in 0..N : n \in T
    BY Zenon, <2>1, <1>0, <1>1, <1>2, UpTo
  <2> QED BY <2>2, <1>0
<1> QED BY Zenon, <1>3 DEF IsSum, N

(* HeldBytes is the last partial sum. *)
LEMMA HeldBytesIs ==
    ASSUME NEW c, c.sizes \in [FragIndex -> Nat]
    PROVE  \E f : IsSum(c.sizes, f) /\ HeldBytes(c) = f[MaxTotal + 1]
<1> DEFINE s == c.sizes
<1> DEFINE F(f) == [n \in 0..(MaxTotal + 1) |->
                       IF n = 0 THEN 0 ELSE f[n - 1] + s[n - 1]]
<1> DEFINE sum == CHOOSE f : f = F(f)
<1>0. MaxTotal \in Nat
  BY Zenon, ReassemblerAssumption
<1>1. HeldBytes(c) = sum[MaxTotal + 1]
  BY Zenon DEF HeldBytes
<1> HIDE DEF HeldBytes
<1>2. PICK g : IsSum(s, g)
  BY Zenon, SumExists
<1>3. g = F(g)
  <2> HIDE DEF s
  <2> QED BY <1>2, <1>0 DEF IsSum
<1>4. sum = F(sum)
  <2> HIDE DEF F
  <2> QED BY Zenon, <1>3
<1> HIDE DEF sum
<1>5. \A n \in 0..(MaxTotal + 1) : sum[n] = g[n]
  <2> DEFINE T == {n \in 0..(MaxTotal + 1) : sum[n] = g[n]}
  <2>1. 0 \in T
    BY <1>4, <1>2, <1>0 DEF IsSum
  <2>2. ASSUME NEW n \in 1..(MaxTotal + 1), n - 1 \in T PROVE n \in T
    <3>1. sum[n] = sum[n - 1] + s[n - 1]
      BY <1>4, <1>0
    <3>2. g[n] = g[n - 1] + s[n - 1]
      BY Zenon, <1>2 DEF IsSum
    <3> QED BY <3>1, <3>2, <2>2, <1>0
  <2>3. T \in SUBSET (0..(MaxTotal + 1)) /\ MaxTotal + 1 \in Nat
    BY <1>0
  <2>4. \A n \in 0..(MaxTotal + 1) : n \in T
    <3> HIDE DEF T
    <3> QED BY Zenon, <2>1, <2>2, <2>3, UpTo
  <2> QED BY Zenon, <2>4
<1> QED BY <1>1, <1>2, <1>5, <1>0

(* A context that holds nothing. *)
LEMMA HeldNothing ==
    ASSUME NEW c, c.sizes = [i \in FragIndex |-> 0]
    PROVE  HeldBytes(c) = 0
<1>0. MaxTotal \in Nat /\ MaxTotal + 1 \in Nat /\ c.sizes \in [FragIndex -> Nat]
  BY ReassemblerAssumption
<1>1. PICK f : IsSum(c.sizes, f) /\ HeldBytes(c) = f[MaxTotal + 1]
  BY Zenon, <1>0, HeldBytesIs
<1> DEFINE T == {n \in 0..(MaxTotal + 1) : f[n] = 0}
<1>2. 0 \in T
  BY <1>1, <1>0 DEF IsSum
<1>3. ASSUME NEW n \in 1..(MaxTotal + 1), n - 1 \in T PROVE n \in T
  <2>1. n - 1 \in FragIndex /\ f[n] = f[n - 1] + c.sizes[n - 1]
    BY <1>1, <1>0 DEF IsSum, FragIndex
  <2> QED BY <2>1, <1>3
<1>4. T \in SUBSET (0..(MaxTotal + 1))
  BY Zenon
<1>5. MaxTotal + 1 \in T
  <2> HIDE DEF T
  <2>1. \A n \in 0..(MaxTotal + 1) : n \in T
    BY Zenon, <1>0, <1>2, <1>3, <1>4, UpTo
  <2> QED BY <2>1, <1>0
<1> QED BY Zenon, <1>1, <1>5

(* One more fragment, at an index where nothing was held. *)
LEMMA HeldOneMore ==
    ASSUME NEW c, c.sizes \in [FragIndex -> Nat],
           NEW i \in FragIndex, c.sizes[i] = 0, NEW v \in Nat,
           NEW d, d.sizes = [c.sizes EXCEPT ![i] = v]
    PROVE  HeldBytes(d) = HeldBytes(c) + v
<1>0. /\ MaxTotal \in Nat /\ MaxTotal + 1 \in Nat
      /\ d.sizes \in [FragIndex -> Nat] /\ i \in 0..MaxTotal
  BY ReassemblerAssumption DEF FragIndex
<1>1. PICK f : IsSum(c.sizes, f) /\ HeldBytes(c) = f[MaxTotal + 1]
  BY Zenon, HeldBytesIs
<1>2. PICK g : IsSum(d.sizes, g) /\ HeldBytes(d) = g[MaxTotal + 1]
  BY Zenon, <1>0, HeldBytesIs
<1> DEFINE T == {n \in 0..(MaxTotal + 1) : g[n] = f[n] + (IF n > i THEN v ELSE 0)}
<1>3. 0 \in T
  BY <1>1, <1>2, <1>0 DEF IsSum
<1>4. ASSUME NEW n \in 1..(MaxTotal + 1), n - 1 \in T PROVE n \in T
  <2>1. /\ n - 1 \in FragIndex /\ n - 1 \in 0..(MaxTotal + 1)
        /\ f[n] = f[n - 1] + c.sizes[n - 1]
        /\ g[n] = g[n - 1] + d.sizes[n - 1]
        /\ f[n - 1] \in Nat /\ g[n - 1] \in Nat
    BY <1>1, <1>2, <1>0 DEF IsSum, FragIndex
  <2>2. g[n - 1] = f[n - 1] + (IF n - 1 > i THEN v ELSE 0)
    BY Zenon, <1>4
  <2>3. c.sizes[n - 1] \in Nat
    BY Zenon, <2>1
  <2>4. d.sizes[n - 1] = IF n - 1 = i THEN v ELSE c.sizes[n - 1]
    BY Zenon, <2>1
  <2>5. g[n] = f[n] + (IF n > i THEN v ELSE 0)
    BY <2>1, <2>2, <2>3, <2>4, <1>0
  <2> QED BY <2>5
<1>5. T \in SUBSET (0..(MaxTotal + 1))
  BY Zenon
<1>6. MaxTotal + 1 \in T
  <2> HIDE DEF T
  <2>1. \A n \in 0..(MaxTotal + 1) : n \in T
    BY Zenon, <1>0, <1>3, <1>4, <1>5, UpTo
  <2> QED BY <2>1, <1>0
<1> QED BY <1>1, <1>2, <1>6, <1>0

----------------------------------------------------------------------------
(***************************************************************************)
(* The ring of frozen keys.                                                *)
(***************************************************************************)
(* The distance round the ring from one entry to another. *)
Offset(i, from) == IF i >= from THEN i - from ELSE i - from + FrozenCap

(* The entry n places after next_insert, and what is written there. *)
Ahead(n) == IF frozen_keys_next_insert + n < FrozenCap
            THEN frozen_keys_next_insert + n
            ELSE frozen_keys_next_insert + n - FrozenCap

NewEntry(k) == [valid |-> TRUE, key |-> k, ttl |-> timeout_ms]

(* The ring after the first n keys of order were written to fresh entries. *)
Written(order, n) ==
    [slots |-> [i \in RingIndex |->
                  IF Offset(i, frozen_keys_next_insert) < n
                  THEN NewEntry(order[Offset(i, frozen_keys_next_insert) + 1])
                  ELSE frozen_keys_ring[i]],
     next |-> Ahead(n)]

(* No valid entry of the ring has key k. *)
Unfrozen(k) == \A i \in RingIndex :
                  ~(frozen_keys_ring[i].valid /\ frozen_keys_ring[i].key = k)

(* The ring of frozen keys has room for two rounds of contexts. *)
LEMMA CapFacts == FrozenCap \in Nat \ {0} /\ FrozenCap >= 2 * MaxContexts
BY ReassemblerAssumption DEF FrozenCap

(* The next entry of the ring, without the modulus. *)
LEMMA NextEntry ==
    ASSUME NEW i \in RingIndex
    PROVE  (i + 1) % FrozenCap = IF i + 1 = FrozenCap THEN 0 ELSE i + 1
BY CapFacts DEF RingIndex

(* Freezing one more key writes one more fresh entry. *)
LEMMA WriteOne ==
    ASSUME TypeOK, NEW m \in 0..FrozenCap, NEW order \in [1..m -> Keys],
           \A p, q \in 1..m : order[p] = order[q] => p = q,
           \A p \in 1..m : Unfrozen(order[p]),
           NEW n \in 1..m
    PROVE  add_frozen_key(Written(order, n - 1), order[n]) = Written(order, n)
<1> DEFINE ins == frozen_keys_next_insert
           r == Written(order, n - 1)
<1>0. /\ FrozenCap \in Nat \ {0} /\ ins \in 0..(FrozenCap - 1)
      /\ frozen_keys_ring \in [RingIndex -> FrozenEntry]
      /\ RingIndex = 0..(FrozenCap - 1)
  BY Zenon, CapFacts DEF TypeOK, RingIndex
<1>1. Ahead(n - 1) \in RingIndex /\ r.next = Ahead(n - 1)
  BY <1>0 DEF Ahead, Written
<1>2. ASSUME NEW i \in RingIndex
      PROVE  /\ Offset(i, ins) \in 0..(FrozenCap - 1)
             /\ Offset(i, ins) = n - 1 <=> i = Ahead(n - 1)
  BY <1>0 DEF Offset, Ahead
<1>3. ASSUME NEW i \in RingIndex
      PROVE  ~(r.slots[i].valid /\ r.slots[i].key = order[n])
  <2>1. CASE Offset(i, ins) < n - 1
    <3>1. r.slots[i] = NewEntry(order[Offset(i, ins) + 1])
      BY Zenon, <2>1 DEF Written
    <3>2. Offset(i, ins) + 1 \in 1..m /\ Offset(i, ins) + 1 # n
      BY <2>1, <1>2
    <3> QED BY <3>1, <3>2 DEF NewEntry
  <2>2. CASE ~(Offset(i, ins) < n - 1)
    BY Zenon, <2>2 DEF Written, Unfrozen
  <2> QED BY Zenon, <2>1, <2>2
<1>4. {i \in RingIndex : r.slots[i].valid /\ r.slots[i].key = order[n]} = {}
  BY Zenon, <1>3
<1>5. add_frozen_key(r, order[n])
      = [slots |-> [r.slots EXCEPT ![r.next] = NewEntry(order[n])],
         next |-> (r.next + 1) % FrozenCap]
  <2> HIDE DEF r
  <2> QED BY Zenon, <1>4 DEF add_frozen_key, NewEntry
<1>6. (r.next + 1) % FrozenCap = Ahead(n)
  <2>1. (r.next + 1) % FrozenCap = IF r.next + 1 = FrozenCap THEN 0 ELSE r.next + 1
    BY Zenon, <1>1, NextEntry
  <2> QED BY <2>1, <1>1, <1>0 DEF Ahead
<1>7. [r.slots EXCEPT ![r.next] = NewEntry(order[n])] = Written(order, n).slots
  <2> DEFINE L == [r.slots EXCEPT ![r.next] = NewEntry(order[n])]
             R == Written(order, n).slots
  <2>1. DOMAIN L = RingIndex /\ DOMAIN R = RingIndex /\ L = [i \in RingIndex |-> L[i]]
        /\ R = [i \in RingIndex |-> R[i]]
    BY Zenon DEF Written
  <2>2. ASSUME NEW i \in RingIndex PROVE L[i] = R[i]
    <3>1. L[i] = IF i = r.next THEN NewEntry(order[n]) ELSE r.slots[i]
      BY Zenon DEF Written
    <3>2. r.slots[i] = IF Offset(i, ins) < n - 1
                       THEN NewEntry(order[Offset(i, ins) + 1])
                       ELSE frozen_keys_ring[i]
      BY Zenon DEF Written
    <3>3. R[i] = IF Offset(i, ins) < n THEN NewEntry(order[Offset(i, ins) + 1])
                                       ELSE frozen_keys_ring[i]
      BY Zenon DEF Written
    <3> HIDE DEF L, R, r
    <3> QED BY <3>1, <3>2, <3>3, <1>1, <1>2
  <2>3. L = R
    <3> HIDE DEF L, R
    <3> QED BY Zenon, <2>1, <2>2
  <2> QED BY Zenon, <2>3
<1> QED BY Zenon, <1>5, <1>6, <1>7 DEF Written

(* Freezing keys that have no valid entry writes them to fresh entries. *)
LEMMA FreezeInOrderIs ==
    ASSUME TypeOK, NEW m \in 0..FrozenCap, NEW order \in [1..m -> Keys],
           \A p, q \in 1..m : order[p] = order[q] => p = q,
           \A p \in 1..m : Unfrozen(order[p])
    PROVE  FreezeInOrder(order) = Written(order, m)
<1> DEFINE base == [slots |-> frozen_keys_ring, next |-> frozen_keys_next_insert]
           F(f) == [n \in 0..m |-> IF n = 0 THEN base
                                   ELSE add_frozen_key(f[n - 1], order[n])]
           ring == CHOOSE f : f = F(f)
           g == [n \in 0..m |-> Written(order, n)]
<1>0. m \in Nat /\ Len(order) = m
  BY CapFacts
<1>1. FreezeInOrder(order) = ring[m]
  BY Zenon, <1>0 DEF FreezeInOrder
<1>2. Written(order, 0) = base
  <2>1. \A i \in RingIndex : ~(Offset(i, frozen_keys_next_insert) < 0)
    BY CapFacts DEF TypeOK, RingIndex, Offset
  <2>2. Ahead(0) = frozen_keys_next_insert
    BY CapFacts DEF TypeOK, RingIndex, Ahead
  <2> QED BY Zenon, <2>1, <2>2 DEF Written, TypeOK
<1>3. \A n \in 1..m : add_frozen_key(Written(order, n - 1), order[n]) = Written(order, n)
  BY Zenon, WriteOne
<1>4. g = F(g)
  <2>1. ASSUME NEW n \in 0..m PROVE g[n] = F(g)[n]
    <3>1. CASE n = 0
      BY Zenon, <3>1, <1>2
    <3>2. CASE n # 0
      <4>1. n \in 1..m /\ n - 1 \in 0..m
        BY <3>2, <1>0
      <4>2. g[n - 1] = Written(order, n - 1)
        BY Zenon, <4>1
      <4> QED BY <4>1, <4>2, <1>3
    <3> QED BY Zenon, <3>1, <3>2
  <2>2. g = [n \in 0..m |-> g[n]] /\ F(g) = [n \in 0..m |-> F(g)[n]]
    OBVIOUS
  <2> HIDE DEF g, F
  <2> QED BY Zenon, <2>1, <2>2
<1>5. ring = F(ring)
  <2> HIDE DEF F, g
  <2> QED BY Zenon, <1>4
<1> HIDE DEF ring, base
<1> DEFINE T == {n \in 0..m : ring[n] = Written(order, n)}
<1>6. 0 \in T
  BY <1>5, <1>2, <1>0
<1>7. ASSUME NEW n \in 1..m, n - 1 \in T PROVE n \in T
  <2>1. ring[n] = add_frozen_key(ring[n - 1], order[n])
    BY <1>5, <1>0
  <2> QED BY <2>1, <1>3, <1>7, <1>0
<1>8. m \in T
  <2>1. T \in SUBSET (0..m)
    BY Zenon
  <2> HIDE DEF T
  <2>2. \A n \in 0..m : n \in T
    BY Zenon, <2>1, <1>0, <1>6, <1>7, UpTo
  <2> QED BY <2>2, <1>0
<1> QED BY Zenon, <1>1, <1>8

----------------------------------------------------------------------------
(***************************************************************************)
(* The inductive invariant.                                                *)
(***************************************************************************)
(* A context knows what it holds; if its fragments agree, where it belongs. *)
Consistent(c) ==
    /\ c \in Context
    /\ c.received \subseteq 0..(c.total - 1)
    /\ c.count = Cardinality(c.received)
    /\ c.bytes = HeldBytes(c) /\ c.bytes <= MaxBytes
    /\ \A i \in FragIndex \ c.received : c.sizes[i] = 0
    /\ c.agree =>
          /\ \A i \in c.received \ {c.total - 1} : c.sizes[i] \in BodySizes \ {0}
          /\ c.total - 1 \in c.received =>
                c.has_snapshot /\ c.sizes[c.total - 1] = c.tail_bytes

(* An open context is short of a fragment and has no entry in the ring. *)
OpenContexts ==
    /\ Cardinality(DOMAIN contexts) <= MaxContexts
    /\ \A k \in DOMAIN contexts :
          /\ Consistent(contexts[k])
          /\ contexts[k].count < contexts[k].total
          /\ Unfrozen(k)

OneEntryPerKey ==
    \A i, j \in RingIndex :
        /\ frozen_keys_ring[i].valid /\ frozen_keys_ring[j].valid
        /\ frozen_keys_ring[i].key = frozen_keys_ring[j].key
        => i = j

(* The contexts that may time out before the freeze of k is over. *)
Threats(k) == {j \in DOMAIN contexts : contexts[j].age + promise[k] > timeout_ms}

(***************************************************************************)
(* A frozen key has an entry, which is overwritten only after more inserts *)
(* than there are contexts that may time out before the freeze is over.    *)
(***************************************************************************)
KeptFor(k) ==
    promise[k] > 0 =>
        /\ promise[k] <= timeout_ms
        /\ \E i \in RingIndex :
              /\ frozen_keys_ring[i] = [valid |-> TRUE, key |-> k, ttl |-> promise[k]]
              /\ Cardinality(Threats(k)) <= Offset(i, frozen_keys_next_insert)

RInv ==
    /\ TypeOK
    /\ OpenContexts
    /\ OneEntryPerKey
    /\ ~lowered /\ ~flushed => \A k \in Keys : KeptFor(k)
    /\ FramesSound

----------------------------------------------------------------------------
(* Contexts. *)

(* There are n numbers below n. *)
LEMMA FirstNumbers ==
    ASSUME NEW n \in Nat
    PROVE  IsFiniteSet(0..(n - 1)) /\ Cardinality(0..(n - 1)) = n
<1>1. 0 \in Int /\ n - 1 \in Int
  OBVIOUS
<1> QED BY <1>1, FS_Interval

(* A context that a fragment has just opened is consistent, and empty. *)
LEMMA NewIsConsistent ==
    ASSUME NEW f \in Arriving, WellFormed(f)
    PROVE  Consistent(NewContext(f)) /\ NewContext(f).count = 0
<1> DEFINE c == NewContext(f)
<1>0. MaxTotal \in Nat /\ MaxBytes \in Nat /\ MaxTimeout \in Nat
      /\ f.total \in 1..MaxTotal /\ f.tail_bytes \in TailBytes
  BY Zenon, ReassemblerAssumption DEF Arriving, Fragment, WellFormed
<1>1. c \in Context
  BY <1>0 DEF NewContext, Context, FragIndex
<1>2. HeldBytes(c) = 0
  BY Zenon, HeldNothing DEF NewContext
<1>3. c.received = {} /\ c.count = 0 /\ c.bytes = 0 /\ Cardinality({}) = 0
      /\ \A i \in FragIndex : c.sizes[i] = 0
  BY Zenon, FS_EmptySet DEF NewContext
<1> HIDE DEF c
<1>4. Consistent(c)
  BY <1>0, <1>1, <1>2, <1>3 DEF Consistent
<1> QED BY Zenon, <1>4, <1>3 DEF c

(* The snapshot and the agreement do not change what is held. *)
LEMMA NotedIsConsistent ==
    ASSUME NEW c, Consistent(c), NEW f \in Arriving, WellFormed(f)
    PROVE  LET ctx == with_snapshot(Agreeing(c, f), f)
           IN  /\ Consistent(ctx) /\ ctx.age = c.age
               /\ ctx.count = c.count /\ ctx.total = c.total
               /\ ctx.agree => f.total = c.total
               /\ is_tail_fragment(f) => ctx.has_snapshot
<1> DEFINE ctx == with_snapshot(Agreeing(c, f), f)
<1>1. c \in Context
  BY Zenon DEF Consistent
<1>2. /\ ctx \in Context /\ ctx.sizes = c.sizes /\ ctx.received = c.received
      /\ ctx.count = c.count /\ ctx.bytes = c.bytes /\ ctx.total = c.total
      /\ ctx.tail_bytes = c.tail_bytes /\ ctx.age = c.age
      /\ ctx.agree = (c.agree /\ f.total = c.total)
      /\ ctx.has_snapshot = (c.has_snapshot \/ is_tail_fragment(f))
  BY Zenon, <1>1 DEF with_snapshot, Agreeing, Context, is_tail_fragment
<1>3. HeldBytes(ctx) = HeldBytes(c)
  BY Zenon, <1>2 DEF HeldBytes
<1> HIDE DEF ctx
<1>4. Consistent(ctx)
  BY Zenon, <1>2, <1>3 DEF Consistent
<1> QED BY Zenon, <1>2, <1>4 DEF ctx

(* A fragment that is accepted is accounted for. *)
LEMMA AddedIsConsistent ==
    ASSUME NEW c, Consistent(c), NEW f \in Arriving, WellFormed(f), Accepts(c, f),
           c.agree => f.total = c.total,
           is_tail_fragment(f) => c.has_snapshot
    PROVE  LET new == add_fragment(c, f)
           IN  /\ Consistent(new) /\ new.age = c.age
               /\ new.count <= new.total
<1> DEFINE new == add_fragment(c, f)
<1>0. /\ c \in Context /\ f \in Fragment /\ MaxTotal \in Nat
      /\ f.index \in FragIndex /\ f.size \in Nat /\ c.total \in 1..MaxTotal
      /\ FragIndex = 0..MaxTotal
  BY Zenon, ReassemblerAssumption DEF Consistent, Arriving, Fragment, Context, FragIndex
<1>1. /\ new \in Context /\ new.received = c.received \cup {f.index}
      /\ new.sizes = [c.sizes EXCEPT ![f.index] = f.size]
      /\ new.count = c.count + 1 /\ new.bytes = c.bytes + f.size
      /\ new.total = c.total /\ new.tail_bytes = c.tail_bytes
      /\ new.age = c.age /\ new.agree = c.agree
      /\ new.has_snapshot = c.has_snapshot
  <2>1. /\ c.received \cup {f.index} \in SUBSET FragIndex
        /\ [c.sizes EXCEPT ![f.index] = f.size] \in [FragIndex -> Nat]
        /\ c.count + 1 \in Nat /\ c.bytes + f.size \in Nat
    <3>1. /\ c.received \in SUBSET FragIndex /\ c.sizes \in [FragIndex -> Nat]
          /\ c.count \in Nat /\ c.bytes \in Nat
      BY Zenon, <1>0 DEF Context
    <3>2. f.index \in FragIndex /\ f.size \in Nat
      BY Zenon, <1>0
    <3> QED BY <3>1, <3>2
  <2>2. new = [c EXCEPT !.received = c.received \cup {f.index},
                        !.sizes = [c.sizes EXCEPT ![f.index] = f.size],
                        !.count = c.count + 1, !.bytes = c.bytes + f.size]
    BY Zenon, <1>0 DEF add_fragment, Context
  <2> HIDE DEF new
  <2> QED BY Zenon, <1>0, <2>1, <2>2 DEF Context
<1>2. f.index \notin c.received /\ c.sizes[f.index] = 0 /\ f.index < c.total
      /\ c.bytes + f.size <= MaxBytes /\ c.sizes \in [FragIndex -> Nat]
  BY Zenon, <1>0 DEF Accepts, Consistent, Context
<1> HIDE DEF new
<1>3. HeldBytes(new) = HeldBytes(c) + f.size
  <2>1. f.index \in FragIndex /\ f.size \in Nat
    BY Zenon, <1>0
  <2> QED BY <2>1, <1>1, <1>2, HeldOneMore
<1>4. /\ IsFiniteSet(0..(c.total - 1)) /\ Cardinality(0..(c.total - 1)) = c.total
      /\ IsFiniteSet(c.received) /\ IsFiniteSet(new.received)
      /\ new.received \in SUBSET (0..(c.total - 1))
  <2>1. IsFiniteSet(0..(c.total - 1)) /\ Cardinality(0..(c.total - 1)) = c.total
    BY <1>0, FirstNumbers
  <2>2. c.received \in SUBSET (0..(c.total - 1))
        /\ new.received \in SUBSET (0..(c.total - 1))
    <3>1. f.index \in 0..(c.total - 1) /\ c.received \subseteq 0..(c.total - 1)
      <4>1. c.received \subseteq 0..(c.total - 1)
        BY Zenon, <1>0 DEF Consistent
      <4>2. f.index \in 0..(c.total - 1)
        BY <1>0, <1>2
      <4> QED BY Zenon, <4>1, <4>2
    <3> QED BY Zenon, <3>1, <1>1
  <2> QED BY Zenon, <2>1, <2>2, FS_Subset
<1>5. new.count = Cardinality(new.received) /\ new.count <= new.total
  <2>1. Cardinality(new.received) = Cardinality(c.received) + 1
    BY <1>1, <1>2, <1>4, FS_AddElement
  <2>2. Cardinality(new.received) <= Cardinality(0..(c.total - 1))
    BY Zenon, <1>4, FS_Subset
  <2> QED BY <2>1, <2>2, <1>1, <1>4 DEF Consistent
<1>6. \A i \in FragIndex \ new.received : new.sizes[i] = 0
  BY <1>0, <1>1, <1>2 DEF Consistent
<1>7. ASSUME c.agree
      PROVE  /\ \A i \in new.received \ {c.total - 1} : new.sizes[i] \in BodySizes \ {0}
             /\ c.total - 1 \in new.received =>
                   c.has_snapshot /\ new.sizes[c.total - 1] = c.tail_bytes
  <2>1. is_tail_fragment(f) <=> f.index = c.total - 1
    BY Zenon, <1>7, <1>0 DEF is_tail_fragment
  <2>2. ~is_tail_fragment(f) => f.size \in BodySizes \ {0}
    BY DEF Accepts, Arriving
  <2>3. is_tail_fragment(f) => f.size = c.tail_bytes
    BY Zenon DEF Accepts
  <2>4. \A i \in new.received : i \in FragIndex
    BY <1>4, <1>0
  <2>5. \A i \in new.received : new.sizes[i] = IF i = f.index THEN f.size ELSE c.sizes[i]
    BY <2>4, <1>1, <1>2
  <2> QED BY <1>7, <1>1, <2>1, <2>2, <2>3, <2>5 DEF Consistent
<1>8. Consistent(new)
  BY <1>1, <1>2, <1>3, <1>4, <1>5, <1>6, <1>7 DEF Consistent
<1> QED BY Zenon, <1>1, <1>5, <1>8 DEF new

----------------------------------------------------------------------------
(* Frames. *)

(* A frame has the key and the agreement of its context. *)
LEMMA FrameFields == \A k, ctx : Frame(k, ctx).key = k /\ Frame(k, ctx).agree = ctx.agree
BY Zenon DEF Frame

(* Each piece of a frame made of a consistent context is at its place. *)
LEMMA FrameInPlace ==
    ASSUME NEW c, Consistent(c), c.agree, NEW k, OneBodySize
    PROVE  InPlace(Frame(k, c))
<1> DEFINE f == Frame(k, c)
           tail == c.total - 1
           known == {j \in 0..(c.total - 2) : c.sizes[j] > 0}
<1>0. /\ c.total \in Nat \ {0} /\ c.total <= MaxTotal /\ MaxTotal \in Nat
      /\ c.sizes \in [0..MaxTotal -> Nat] /\ c.tail_bytes \in TailBytes
      /\ BodySizes \subseteq Nat
  <2>1. c \in Context
    BY Zenon DEF Consistent
  <2>2. c.total \in 1..MaxTotal /\ c.sizes \in [FragIndex -> Nat] /\ c.tail_bytes \in TailBytes
    BY Zenon, <2>1 DEF Context
  <2>3. MaxTotal \in Nat /\ BodySizes \subseteq Nat
    BY ReassemblerAssumption
  <2>4. c.total \in Nat \ {0} /\ c.total <= MaxTotal
    BY <2>2, <2>3
  <2> QED BY Zenon, <2>2, <2>3, <2>4 DEF FragIndex
<1>1. DOMAIN f.layout = 0..tail /\ f.missing = Missing(c)
  BY Zenon DEF Frame
<1>2. Cardinality(DOMAIN f.layout) - 1 = tail
  BY Zenon, <1>0, <1>1, FirstNumbers
<1>3. DOMAIN f.layout \ {tail} = 0..(c.total - 2)
  <2>1. \A n \in Nat \ {0} : (0..(n - 1)) \ {n - 1} = 0..(n - 2)
    OBVIOUS
  <2> QED BY Zenon, <1>0, <1>1, <2>1
<1>4. f.layout[tail] \in TailBytes
  <2>1. CASE tail \in Missing(c)
    BY <2>1, <1>0 DEF Frame, infer_missing_fragment_size
  <2>2. CASE tail \notin Missing(c)
    <3>1. tail \in 0..(c.total - 1)
      BY <1>0
    <3>2. tail \in c.received
      BY Zenon, <2>2, <3>1 DEF Missing
    <3>3. c.sizes[tail] = c.tail_bytes
      BY Zenon, <3>2 DEF Consistent
    <3>4. f.layout[tail] = c.sizes[tail]
      BY Zenon, <2>2, <3>1 DEF Frame
    <3> QED BY Zenon, <1>0, <3>3, <3>4
  <2> QED BY Zenon, <2>1, <2>2
<1>5. ASSUME NEW j \in 0..(c.total - 2)
      PROVE  /\ c.sizes[j] > 0 => j \in c.received /\ c.sizes[j] \in BodySizes \ {0}
             /\ j \in Missing(c) <=> c.sizes[j] = 0
             /\ f.layout[j] = IF c.sizes[j] > 0 THEN c.sizes[j]
                              ELSE IF known # {} THEN c.sizes[Least(known)]
                              ELSE DefaultSize
  <2>1. j \in FragIndex /\ j \in 0..(c.total - 1) /\ j # c.total - 1 /\ c.sizes[j] \in Nat
    <3>1. \A n \in Nat \ {0}, m \in Nat : n <= m =>
            \A i \in 0..(n - 2) : i \in 0..m /\ i \in 0..(n - 1) /\ i # n - 1
      OBVIOUS
    <3>2. j \in 0..MaxTotal /\ j \in 0..(c.total - 1) /\ j # c.total - 1
      BY Zenon, <1>0, <3>1
    <3> QED BY Zenon, <1>0, <3>2 DEF FragIndex
  <2>2. c.sizes[j] > 0 => j \in c.received /\ c.sizes[j] \in BodySizes \ {0}
    <3>1. j \in c.received \/ c.sizes[j] = 0
      BY Zenon, <2>1 DEF Consistent
    <3>2. j \in c.received => c.sizes[j] \in BodySizes \ {0}
      BY Zenon, <2>1 DEF Consistent
    <3>3. ~(0 > 0)
      OBVIOUS
    <3> QED BY Zenon, <3>1, <3>2, <3>3
  <2>3. j \in Missing(c) <=> c.sizes[j] = 0
    BY <2>1, <2>2 DEF Missing
  <2>4. f.layout[j] = IF j \in Missing(c) THEN infer_missing_fragment_size(c, j)
                                         ELSE c.sizes[j]
    BY Zenon, <2>1 DEF Frame
  <2>5. infer_missing_fragment_size(c, j) =
            IF known # {} THEN c.sizes[Least(known)] ELSE DefaultSize
    <3>1. j + 1 # c.total
      BY <2>1, <1>0
    <3> QED BY <3>1, Zenon DEF infer_missing_fragment_size
  <2> HIDE DEF f, known
  <2> QED BY <2>1, <2>2, <2>3, <2>4, <2>5
<1>6. known # {} => Least(known) \in known
  <2> SUFFICES ASSUME known # {} PROVE Least(known) \in known
    BY Zenon
  <2>1. known \in SUBSET Nat
    BY <1>0
  <2> HIDE DEF known
  <2>2. \E x \in known : \A y \in known : x <= y
    BY Zenon, <2>1, LeastNat
  <2> QED BY Zenon, <2>2 DEF Least
<1>7. \E size \in (BodySizes \ {0}) \cup {DefaultSize} :
        /\ \A j \in 0..(c.total - 2) : f.layout[j] = size
        /\ 0..(c.total - 2) \subseteq f.missing \/ size \in BodySizes
  <2>1. CASE known = {}
    <3>1. \A j \in 0..(c.total - 2) : ~(c.sizes[j] > 0) /\ c.sizes[j] \in Nat
      <4>1. \A j \in 0..(c.total - 2) : j \in 0..MaxTotal
        BY <1>0
      <4> QED BY Zenon, <2>1, <1>0, <4>1
    <3>2. \A j \in 0..(c.total - 2) : f.layout[j] = DefaultSize /\ j \in Missing(c)
      <4> HIDE DEF f, known
      <4> QED BY <2>1, <3>1, <1>5
    <3> HIDE DEF f
    <3> QED BY Zenon, <3>2, <1>1
  <2>2. CASE known # {}
    <3>1. Least(known) \in 0..(c.total - 2) /\ c.sizes[Least(known)] > 0
      BY Zenon, <2>2, <1>6
    <3>2. c.sizes[Least(known)] \in BodySizes \ {0}
      BY Zenon, <3>1, <1>5
    <3>3. \A j \in 0..(c.total - 2) : f.layout[j] = c.sizes[Least(known)]
      <4> TAKE j \in 0..(c.total - 2)
      <4>1. c.sizes[j] > 0 => c.sizes[j] = c.sizes[Least(known)]
        BY Zenon, <1>5, <3>2 DEF OneBodySize
      <4> HIDE DEF f, known
      <4> QED BY Zenon, <4>1, <2>2, <1>5
    <3> HIDE DEF f, known
    <3> QED BY Zenon, <3>2, <3>3
  <2> QED BY Zenon, <2>1, <2>2
<1> HIDE DEF f
<1> QED BY Zenon, <1>2, <1>3, <1>4, <1>7 DEF InPlace, f

(* A complete frame has its snapshot. *)
LEMMA FrameHasSnapshot ==
    ASSUME NEW c, Consistent(c), c.agree, NEW k, Frame(k, c).is_complete
    PROVE  Frame(k, c).has_snapshot
<1>1. Missing(c) = {} /\ c.total \in Nat \ {0}
  <2>1. Missing(c) = {}
    BY Zenon DEF Frame
  <2> QED BY <2>1, ReassemblerAssumption DEF Consistent, Context
<1>2. c.total - 1 \in c.received
  BY <1>1 DEF Missing
<1> QED BY Zenon, <1>2 DEF Consistent, Frame

(* A frame all of whose fragments came has no gap that is filled. *)
LEMMA FullFrame ==
    ASSUME NEW c, Consistent(c), c.agree, c.count = c.total, NEW k,
           NEW j \in Frame(k, c).missing
    PROVE  Frame(k, c).layout[j] = 0
<1>0. c.total \in Nat \ {0} /\ MaxTotal \in Nat /\ c.total <= MaxTotal
  BY ReassemblerAssumption DEF Consistent, Context
<1>1. c.received = 0..(c.total - 1)
  <2>1. IsFiniteSet(0..(c.total - 1)) /\ Cardinality(0..(c.total - 1)) = c.total
    BY Zenon, <1>0, FirstNumbers
  <2>2. c.received \in SUBSET (0..(c.total - 1)) /\ Cardinality(c.received) = c.total
    BY Zenon DEF Consistent
  <2> QED BY Zenon, <2>1, <2>2, FS_Subset
<1>2. j \in 0..(c.total - 1) /\ c.sizes[j] = 0 /\ j \in Missing(c)
  BY Zenon, <1>1 DEF Frame, Missing
<1>3. j = c.total - 1 /\ c.tail_bytes = 0
  BY Zenon, <1>1, <1>2, <1>0 DEF Consistent
<1> QED BY <1>2, <1>3, <1>0 DEF Frame, infer_missing_fragment_size

----------------------------------------------------------------------------
(* The initial state and each kind of step. *)

(* With no context open the invariant holds. *)
LEMMA InitRInv == Init => RInv
<1> SUFFICES ASSUME Init PROVE RInv
  BY Zenon
<1>0. /\ DOMAIN contexts = {} /\ Cardinality({}) = 0 /\ 0 \in RingIndex
      /\ MaxContexts \in Nat /\ MaxTimeout \in Nat
  BY ReassemblerAssumption, CapFacts, FS_EmptySet DEF Init, RingIndex
<1>1. TypeOK
  <2>1. frozen_keys_ring \in [RingIndex -> FrozenEntry]
    BY <1>0 DEF Init, FrozenEntry
  <2>2. promise \in [Keys -> 0..MaxTimeout] /\ DOMAIN out = {}
    BY <1>0 DEF Init
  <2>3. frozen_keys_next_insert \in RingIndex /\ timeout_ms \in Timeouts
        /\ flushed \in BOOLEAN /\ lowered \in BOOLEAN
    BY Zenon, <1>0 DEF Init
  <2> QED BY Zenon, <1>0, <2>1, <2>2, <2>3 DEF TypeOK
<1>2. OpenContexts
  BY <1>0 DEF OpenContexts
<1>3. OneEntryPerKey
  BY Zenon DEF Init, OneEntryPerKey
<1>4. \A k \in Keys : KeptFor(k)
  BY DEF Init, KeptFor
<1>5. FramesSound
  BY DEF Init, FramesSound, PiecesInPlace, FramesMarked
<1> QED BY Zenon, <1>1, <1>2, <1>3, <1>4, <1>5 DEF RInv

(* The keys that have a context are finitely many. *)
LEMMA OpenIsFinite == TypeOK => IsFiniteSet(DOMAIN contexts)
BY Zenon, ReassemblerAssumption, FS_Subset DEF TypeOK

(* A call without output leaves no frame to be judged. *)
LEMMA SilentIsSound == out = <<>> => FramesSound
BY DEF FramesSound, PiecesInPlace, FramesMarked

(* A freeze goes on when its entry stays and no context threatens it anew. *)
LEMMA FreezeGoesOn ==
    ASSUME TypeOK, NEW k \in Keys, KeptFor(k), promise'[k] = promise[k],
           timeout_ms <= timeout_ms', timeout_ms' \in Nat,
           UNCHANGED frozen_keys_next_insert,
           \A i \in RingIndex : frozen_keys_ring[i].ttl # 0 =>
                                   frozen_keys_ring'[i] = frozen_keys_ring[i],
           promise[k] <= timeout_ms => Threats(k)' \subseteq Threats(k)
    PROVE  KeptFor(k)'
<1> SUFFICES ASSUME promise[k] > 0
             PROVE  /\ promise[k] <= timeout_ms'
                    /\ \E i \in RingIndex :
                         /\ frozen_keys_ring'[i]
                               = [valid |-> TRUE, key |-> k, ttl |-> promise[k]]
                         /\ Cardinality(Threats(k)') <= Offset(i, frozen_keys_next_insert)
  BY Zenon DEF KeptFor
<1>0. promise[k] \in Nat /\ timeout_ms \in Nat
  BY ReassemblerAssumption DEF TypeOK
<1>1. promise[k] <= timeout_ms
  BY Zenon DEF KeptFor
<1>2. PICK i \in RingIndex :
        /\ frozen_keys_ring[i] = [valid |-> TRUE, key |-> k, ttl |-> promise[k]]
        /\ Cardinality(Threats(k)) <= Offset(i, frozen_keys_next_insert)
  BY Zenon DEF KeptFor
<1>3. frozen_keys_ring'[i] = frozen_keys_ring[i]
  BY <1>2, <1>0
<1>4. IsFiniteSet(Threats(k)) /\ Threats(k)' \in SUBSET Threats(k)
  BY Zenon, <1>1, OpenIsFinite, FS_Subset DEF Threats
<1>5. /\ Cardinality(Threats(k)') <= Cardinality(Threats(k))
      /\ Cardinality(Threats(k)) \in Nat /\ Cardinality(Threats(k)') \in Nat
  BY Zenon, <1>4, FS_Subset, FS_CardinalityType
<1>6. Offset(i, frozen_keys_next_insert) \in Int
  BY CapFacts DEF Offset, TypeOK, RingIndex
<1>7. promise[k] <= timeout_ms'
  BY <1>0, <1>1
<1> QED BY <1>2, <1>3, <1>5, <1>6, <1>7

(* The scan of the ring drops expired entries and nothing else. *)
LEMMA ScanFacts ==
    ASSUME TypeOK, NEW k \in Keys
    PROVE  /\ RingAfterScan(k) \in [RingIndex -> FrozenEntry]
           /\ \A i \in RingIndex :
                /\ RingAfterScan(k)[i].key = frozen_keys_ring[i].key
                /\ RingAfterScan(k)[i].valid => frozen_keys_ring[i].valid
                /\ frozen_keys_ring[i].ttl # 0 =>
                     RingAfterScan(k)[i] = frozen_keys_ring[i]
                /\ ~is_key_frozen(k) /\ RingAfterScan(k)[i].valid =>
                     frozen_keys_ring[i].key # k
<1>1. \A i \in RingIndex : frozen_keys_ring[i] \in FrozenEntry
  BY Zenon DEF TypeOK
<1>2. \A i \in RingIndex :
        RingAfterScan(k)[i] \in {frozen_keys_ring[i],
                                 [frozen_keys_ring[i] EXCEPT !.valid = FALSE]}
  BY Zenon DEF RingAfterScan
<1>3. ASSUME NEW i \in RingIndex
      PROVE  [frozen_keys_ring[i] EXCEPT !.valid = FALSE] \in FrozenEntry
  BY Zenon, <1>1 DEF FrozenEntry
<1>4. RingAfterScan(k) \in [RingIndex -> FrozenEntry]
  BY Zenon, <1>1, <1>3 DEF RingAfterScan
<1>5. ASSUME NEW i \in RingIndex
      PROVE  /\ RingAfterScan(k)[i].key = frozen_keys_ring[i].key
             /\ RingAfterScan(k)[i].valid => frozen_keys_ring[i].valid
  BY <1>1, <1>2 DEF FrozenEntry
<1>6. ASSUME NEW i \in RingIndex, frozen_keys_ring[i].ttl # 0
      PROVE  RingAfterScan(k)[i] = frozen_keys_ring[i]
  BY Zenon, <1>6 DEF RingAfterScan
<1>7. ASSUME NEW i \in RingIndex, ~is_key_frozen(k), RingAfterScan(k)[i].valid
      PROVE  frozen_keys_ring[i].key # k
  <2>1. \A j \in RingIndex : ~Freezes(j, k)
    BY Zenon, <1>7 DEF is_key_frozen
  <2>2. \A j \in 0..(i - 1) : ~Freezes(j, k)
    BY <2>1, CapFacts DEF RingIndex
  <2>3. frozen_keys_ring[i].ttl # 0
    <3> SUFFICES ASSUME frozen_keys_ring[i].ttl = 0 PROVE FALSE
      BY Zenon
    <3>1. RingAfterScan(k)[i] = [frozen_keys_ring[i] EXCEPT !.valid = FALSE]
      BY Zenon, <2>2 DEF RingAfterScan
    <3> QED BY Zenon, <3>1, <1>1, <1>7 DEF FrozenEntry
  <2>4. frozen_keys_ring[i].ttl \in Nat
    BY <1>1, ReassemblerAssumption DEF FrozenEntry
  <2> QED BY <2>1, <2>3, <2>4, <1>5, <1>7 DEF Freezes
<1> QED BY Zenon, <1>4, <1>5, <1>6, <1>7

(* A change of the timeout keeps the invariant. *)
LEMMA StepSetTimeout ==
    ASSUME RInv, NEW t \in Timeouts, set_timeout_ms(t)
    PROVE  RInv'
<1>0. /\ ~flushed /\ timeout_ms' = t /\ out' = <<>>
      /\ lowered' = (lowered \/ t < timeout_ms)
      /\ UNCHANGED <<contexts, frozen, flushed, promise>>
      /\ timeout_ms \in Nat /\ t \in Nat /\ TypeOK
  BY ReassemblerAssumption DEF set_timeout_ms, RInv, TypeOK
<1>1. TypeOK'
  BY <1>0 DEF TypeOK, frozen
<1>2. OpenContexts' /\ OneEntryPerKey'
  BY Zenon, <1>0 DEF RInv, OpenContexts, OneEntryPerKey, Unfrozen, frozen
<1>3. ASSUME ~lowered', NEW k \in Keys PROVE KeptFor(k)'
  <2>1. timeout_ms <= timeout_ms' /\ ~lowered /\ timeout_ms' \in Nat
    <3>1. ~lowered /\ ~(t < timeout_ms)
      BY <1>3, <1>0, Zenon
    <3> QED BY <3>1, <1>0
  <2>2. KeptFor(k)
    BY Zenon, <2>1, <1>0 DEF RInv
  <2>3. Threats(k)' \subseteq Threats(k)
    <3> SUFFICES ASSUME NEW j \in DOMAIN contexts,
                        contexts[j].age + promise[k] > t
                 PROVE  contexts[j].age + promise[k] > timeout_ms
      BY Zenon, <1>0 DEF Threats
    <3>1. contexts[j].age \in Nat /\ promise[k] \in Nat
      BY <1>0, ReassemblerAssumption DEF TypeOK, Context
    <3> QED BY <3>1, <2>1, <1>0
  <2>4. promise'[k] = promise[k] /\ UNCHANGED <<frozen_keys_ring, frozen_keys_next_insert>>
    BY Zenon, <1>0 DEF frozen
  <2> QED BY Zenon, <1>0, <2>1, <2>2, <2>3, <2>4, FreezeGoesOn
<1>4. FramesSound'
  BY <1>0 DEF FramesSound, PiecesInPlace, FramesMarked
<1> QED BY Zenon, <1>1, <1>2, <1>3, <1>4 DEF RInv

(* A context that only ages holds what it held. *)
LEMMA AgedIsConsistent ==
    ASSUME NEW c, Consistent(c), NEW a \in 0..MaxTimeout
    PROVE  Consistent([c EXCEPT !.age = a])
<1> DEFINE d == [c EXCEPT !.age = a]
<1>1. /\ d \in Context /\ d.sizes = c.sizes /\ d.received = c.received
      /\ d.count = c.count /\ d.bytes = c.bytes /\ d.total = c.total
      /\ d.tail_bytes = c.tail_bytes /\ d.agree = c.agree
      /\ d.has_snapshot = c.has_snapshot
  BY Zenon DEF Consistent, Context
<1>2. HeldBytes(d) = HeldBytes(c)
  BY <1>1 DEF HeldBytes
<1> HIDE DEF d
<1>3. Consistent(d)
  BY Zenon, <1>1, <1>2 DEF Consistent
<1> QED BY Zenon, <1>3 DEF d

(* The clock keeps the invariant. *)
LEMMA StepTick == ASSUME RInv, Tick PROVE RInv'
<1> DEFINE Less(n) == IF n > 0 THEN n - 1 ELSE 0
           Aged(c) == IF c.age < MaxTimeout THEN c.age + 1 ELSE c.age
<1>0. /\ ~flushed /\ TypeOK /\ MaxTimeout \in Nat /\ timeout_ms \in Nat
      /\ contexts' = [k \in DOMAIN contexts |->
                        [contexts[k] EXCEPT !.age = Aged(contexts[k])]]
      /\ frozen_keys_ring' = [i \in RingIndex |->
            [frozen_keys_ring[i] EXCEPT !.ttl = Less(frozen_keys_ring[i].ttl)]]
      /\ promise' = [k \in Keys |-> Less(promise[k])]
      /\ out' = <<>>
      /\ UNCHANGED <<frozen_keys_next_insert, timeout_ms, flushed, lowered>>
  BY ReassemblerAssumption DEF Tick, RInv, TypeOK
<1>1. ASSUME NEW k \in DOMAIN contexts
      PROVE  /\ contexts'[k] = [contexts[k] EXCEPT !.age = Aged(contexts[k])]
             /\ contexts[k] \in Context /\ contexts[k].age \in 0..MaxTimeout
             /\ Aged(contexts[k]) \in 0..MaxTimeout
             /\ contexts'[k].age = Aged(contexts[k])
             /\ contexts'[k].count = contexts[k].count
             /\ contexts'[k].total = contexts[k].total
  BY <1>0 DEF TypeOK, Context
<1>2. ASSUME NEW i \in RingIndex
      PROVE  /\ frozen_keys_ring[i] \in FrozenEntry
             /\ frozen_keys_ring'[i] \in FrozenEntry
             /\ frozen_keys_ring'[i].valid = frozen_keys_ring[i].valid
             /\ frozen_keys_ring'[i].key = frozen_keys_ring[i].key
             /\ frozen_keys_ring'[i].ttl = Less(frozen_keys_ring[i].ttl)
  <2>1. frozen_keys_ring[i] \in FrozenEntry /\ frozen_keys_ring[i].ttl \in 0..MaxTimeout
    BY Zenon, <1>0 DEF TypeOK, FrozenEntry
  <2>2. Less(frozen_keys_ring[i].ttl) \in 0..MaxTimeout
    BY <2>1, <1>0
  <2>3. frozen_keys_ring'[i] = [frozen_keys_ring[i] EXCEPT !.ttl = Less(frozen_keys_ring[i].ttl)]
    BY Zenon, <1>0
  <2> HIDE DEF Less
  <2> QED BY Zenon, <2>1, <2>2, <2>3 DEF FrozenEntry
<1>3. DOMAIN contexts' = DOMAIN contexts
  BY Zenon, <1>0
<1>4. \A k \in DOMAIN contexts : Consistent(contexts'[k])
  <2> TAKE k \in DOMAIN contexts
  <2>1. Consistent(contexts[k])
    BY Zenon DEF RInv, OpenContexts
  <2> HIDE DEF Aged
  <2>2. Consistent([contexts[k] EXCEPT !.age = Aged(contexts[k])])
    BY Zenon, <1>1, <2>1, AgedIsConsistent
  <2> QED BY Zenon, <1>1, <2>2
<1>5. TypeOK'
  <2>1. \A k \in DOMAIN contexts' : contexts'[k] \in Context
    BY Zenon, <1>3, <1>4 DEF Consistent
  <2>2. frozen_keys_ring' \in [RingIndex -> FrozenEntry]
    <3>1. DOMAIN frozen_keys_ring' = RingIndex
          /\ frozen_keys_ring' = [i \in RingIndex |-> frozen_keys_ring'[i]]
      BY Zenon, <1>0
    <3> QED BY Zenon, <3>1, <1>2
  <2>3. promise' \in [Keys -> 0..MaxTimeout]
    BY <1>0 DEF TypeOK
  <2> QED BY <1>0, <1>3, <2>1, <2>2, <2>3 DEF TypeOK
<1>6. OpenContexts'
  <2>1. \A k \in DOMAIN contexts : Unfrozen(k)'
    BY <1>2 DEF RInv, OpenContexts, Unfrozen
  <2> QED BY Zenon, <1>1, <1>3, <1>4, <2>1 DEF RInv, OpenContexts
<1>7. OneEntryPerKey'
  BY <1>2 DEF RInv, OneEntryPerKey
<1>8. ASSUME ~lowered', NEW k \in Keys PROVE KeptFor(k)'
  <2> SUFFICES ASSUME promise'[k] > 0
               PROVE  /\ promise'[k] <= timeout_ms
                      /\ \E i \in RingIndex :
                           /\ frozen_keys_ring'[i]
                                 = [valid |-> TRUE, key |-> k, ttl |-> promise'[k]]
                           /\ Cardinality(Threats(k)') <= Offset(i, frozen_keys_next_insert)
    BY Zenon, <1>0 DEF KeptFor
  <2>1. promise[k] \in Nat /\ promise'[k] = promise[k] - 1 /\ promise[k] > 0
    BY <1>0 DEF TypeOK
  <2>2. KeptFor(k)
    BY Zenon, <1>8, <1>0 DEF RInv
  <2>3. PICK i \in RingIndex :
          /\ frozen_keys_ring[i] = [valid |-> TRUE, key |-> k, ttl |-> promise[k]]
          /\ Cardinality(Threats(k)) <= Offset(i, frozen_keys_next_insert)
    BY Zenon, <2>1, <2>2 DEF KeptFor
  <2>4. frozen_keys_ring'[i] = [valid |-> TRUE, key |-> k, ttl |-> promise'[k]]
    <3>1. Less(promise[k]) = promise'[k]
      BY Zenon, <1>0
    <3> HIDE DEF Less
    <3>2. /\ frozen_keys_ring'[i].valid = TRUE /\ frozen_keys_ring'[i].key = k
          /\ frozen_keys_ring'[i].ttl = promise'[k]
      BY <1>2, <2>3, <3>1
    <3> QED BY Zenon, <1>2, <3>2 DEF FrozenEntry
  <2>5. Threats(k)' \in SUBSET Threats(k)
    <3> SUFFICES ASSUME NEW j \in DOMAIN contexts,
                        contexts'[j].age + promise'[k] > timeout_ms
                 PROVE  contexts[j].age + promise[k] > timeout_ms
      BY Zenon, <1>0, <1>3 DEF Threats
    <3>1. /\ contexts[j].age \in Nat /\ promise[k] \in Nat
          /\ contexts'[j].age = contexts[j].age \/ contexts'[j].age = contexts[j].age + 1
      <4>1. /\ contexts[j].age \in 0..MaxTimeout /\ contexts'[j].age = Aged(contexts[j])
            /\ promise[k] \in Nat /\ MaxTimeout \in Nat
        BY Zenon, <1>0, <1>1, <2>1
      <4>2. Aged(contexts[j]) = contexts[j].age \/ Aged(contexts[j]) = contexts[j].age + 1
        BY Zenon
      <4> HIDE DEF Aged
      <4>3. \A a \in 0..MaxTimeout : a \in Nat
        BY <4>1
      <4> QED BY Zenon, <4>1, <4>2, <4>3
    <3>2. \A a, b, p, t \in Nat : (b = a \/ b = a + 1) /\ p > 0 /\ b + (p - 1) > t => a + p > t
      OBVIOUS
    <3>3. contexts'[j].age \in Nat
      BY <3>1
    <3> QED BY Zenon, <1>0, <2>1, <3>1, <3>2, <3>3
  <2>6. IsFiniteSet(Threats(k))
    BY Zenon, <1>0, OpenIsFinite, FS_Subset DEF Threats
  <2>7. /\ Cardinality(Threats(k)') <= Cardinality(Threats(k))
        /\ Cardinality(Threats(k)) \in Nat /\ Cardinality(Threats(k)') \in Nat
    BY Zenon, <2>5, <2>6, FS_Subset, FS_CardinalityType
  <2>8. Offset(i, frozen_keys_next_insert) \in Int
    BY <1>0, CapFacts DEF Offset, TypeOK, RingIndex
  <2>9. promise'[k] <= timeout_ms
    BY <1>0, <2>1, <2>2 DEF KeptFor
  <2> QED BY <2>3, <2>4, <2>7, <2>8, <2>9
<1>9. FramesSound'
  BY <1>0 DEF FramesSound, PiecesInPlace, FramesMarked
<1> QED BY Zenon, <1>5, <1>6, <1>7, <1>8, <1>9 DEF RInv

(* What AddToContext does: a context is kept, or completed and output. *)
LEMMA AddToContextFacts ==
    ASSUME RInv, NEW f \in Arriving, WellFormed(f), AddToContext(f)
    PROVE  \E ctx : /\ Consistent(ctx)
                    /\ ctx.age = IF f.key \in DOMAIN contexts
                                 THEN contexts[f.key].age ELSE 0
                    /\ \/ /\ ctx.count < ctx.total
                          /\ contexts' = With(f.key, ctx) /\ out' = <<>>
                       \/ /\ ctx.count = ctx.total
                          /\ contexts' = Without({f.key})
                          /\ out' = <<Frame(f.key, ctx)>>
<1> DEFINE old == IF f.key \in DOMAIN contexts THEN contexts[f.key] ELSE NewContext(f)
           ctx == with_snapshot(Agreeing(old, f), f)
           new == add_fragment(ctx, f)
<1>1. Consistent(old) /\ old.count < old.total
      /\ old.age = IF f.key \in DOMAIN contexts THEN contexts[f.key].age ELSE 0
  <2>1. CASE f.key \in DOMAIN contexts
    BY Zenon, <2>1 DEF RInv, OpenContexts
  <2>2. CASE f.key \notin DOMAIN contexts
    <3>1. NewContext(f).age = 0 /\ NewContext(f).total = f.total
      BY Zenon DEF NewContext
    <3>2. 0 < f.total
      BY ReassemblerAssumption DEF WellFormed
    <3> QED BY Zenon, <2>2, <3>1, <3>2, NewIsConsistent
  <2> QED BY Zenon, <2>1, <2>2
<1> HIDE DEF old
<1>2. /\ Consistent(ctx) /\ ctx.age = old.age
      /\ ctx.count < ctx.total
      /\ ctx.agree => f.total = ctx.total
      /\ is_tail_fragment(f) => ctx.has_snapshot
  BY <1>1, NotedIsConsistent
<1>3. \/ /\ contexts' = With(f.key, ctx) /\ out' = <<>>
      \/ /\ Accepts(ctx, f) /\ new.count # new.total
         /\ contexts' = With(f.key, new) /\ out' = <<>>
      \/ /\ Accepts(ctx, f) /\ new.count = new.total
         /\ contexts' = Without({f.key}) /\ out' = <<Frame(f.key, new)>>
  BY ZenonT(30) DEF AddToContext, check_complete, Completed, old
<1> HIDE DEF ctx
<1>4. Accepts(ctx, f) => /\ Consistent(new) /\ new.age = ctx.age
                        /\ new.count <= new.total
  BY Zenon, <1>2, AddedIsConsistent
<1> HIDE DEF new
<1>5. Accepts(ctx, f) => new.count \in Nat /\ new.total \in Nat
  BY <1>4, ReassemblerAssumption DEF Consistent, Context
<1> QED BY <1>1, <1>2, <1>3, <1>4, <1>5

(* A fragment, whatever becomes of it, keeps the invariant. *)
LEMMA StepPacket ==
    ASSUME RInv, NEW f \in Arriving, process_packet(f)
    PROVE  RInv'
<1>0. /\ TypeOK /\ ~flushed /\ f.key \in Keys /\ timeout_ms \in Nat
      /\ UNCHANGED <<frozen_keys_next_insert, timeout_ms, flushed, promise, lowered>>
      /\ IsFiniteSet(DOMAIN contexts) /\ MaxContexts \in Nat
  <2>1. TypeOK
    BY Zenon DEF RInv
  <2>2. /\ ~flushed
        /\ UNCHANGED <<frozen_keys_next_insert, timeout_ms, flushed, promise, lowered>>
    BY Zenon DEF process_packet
  <2>3. f.key \in Keys
    BY Zenon DEF Arriving, Fragment
  <2>4. timeout_ms \in Nat /\ MaxContexts \in Nat
    BY <2>1, ReassemblerAssumption DEF TypeOK
  <2>5. IsFiniteSet(DOMAIN contexts)
    BY Zenon, <2>1, OpenIsFinite
  <2> QED BY Zenon, <2>1, <2>2, <2>3, <2>4, <2>5
<1>1. CASE ~WellFormed(f)
  <2>1. out' = <<>> /\ UNCHANGED <<contexts, frozen_keys_ring>>
    BY Zenon, <1>1 DEF process_packet
  <2>2. FramesSound'
    BY <2>1 DEF FramesSound, PiecesInPlace, FramesMarked
  <2>3. TypeOK'
    BY <2>1, <1>0 DEF TypeOK
  <2>4. contexts' = contexts /\ frozen_keys_ring' = frozen_keys_ring
        /\ frozen_keys_next_insert' = frozen_keys_next_insert
        /\ timeout_ms' = timeout_ms /\ promise' = promise
        /\ flushed' = flushed /\ lowered' = lowered
    BY Zenon, <2>1, <1>0
  <2>5. OpenContexts'
    BY Zenon, <2>4 DEF RInv, OpenContexts, Unfrozen
  <2>6. OneEntryPerKey'
    BY Zenon, <2>4 DEF RInv, OneEntryPerKey
  <2>7. ASSUME NEW k \in Keys, KeptFor(k) PROVE KeptFor(k)'
    <3>1. Threats(k)' = Threats(k)
      BY Zenon, <2>4 DEF Threats
    <3> QED BY ZenonT(30), <2>4, <2>7, <3>1 DEF KeptFor
  <2>8. ~lowered' /\ ~flushed' => \A k \in Keys : KeptFor(k)'
    BY Zenon, <2>4, <2>7 DEF RInv
  <2> QED BY Zenon, <2>2, <2>3, <2>5, <2>6, <2>8 DEF RInv
<1>2. CASE WellFormed(f)
  <2>1. frozen_keys_ring' = RingAfterScan(f.key)
    BY Zenon, <1>2 DEF process_packet
  <2>2. /\ frozen_keys_ring' \in [RingIndex -> FrozenEntry]
        /\ \A i \in RingIndex :
             /\ frozen_keys_ring'[i].key = frozen_keys_ring[i].key
             /\ frozen_keys_ring'[i].valid => frozen_keys_ring[i].valid
             /\ frozen_keys_ring[i].ttl # 0 => frozen_keys_ring'[i] = frozen_keys_ring[i]
             /\ ~is_key_frozen(f.key) /\ frozen_keys_ring'[i].valid =>
                  frozen_keys_ring[i].key # f.key
    BY <1>0, <2>1, ScanFacts
  <2>3. OneEntryPerKey'
    BY <2>2 DEF RInv, OneEntryPerKey
  <2>4. \A k \in DOMAIN contexts : Unfrozen(k)'
    BY <2>2 DEF RInv, OpenContexts, Unfrozen
  <2>5. ASSUME NEW k \in Keys, KeptFor(k),
               promise[k] <= timeout_ms => Threats(k)' \subseteq Threats(k)
        PROVE  KeptFor(k)'
    BY <1>0, <2>2, <2>5, FreezeGoesOn
  <2>6. CASE out' = <<>> /\ UNCHANGED contexts
    <3>1. \A k \in Keys : Threats(k)' = Threats(k)
      BY Zenon, <2>6, <1>0 DEF Threats
    <3>2. TypeOK'
      BY <2>2, <2>6, <1>0 DEF TypeOK
    <3>3. OpenContexts'
      BY Zenon, <2>4, <2>6 DEF RInv, OpenContexts
    <3>4. FramesSound'
      BY <2>6 DEF FramesSound, PiecesInPlace, FramesMarked
    <3>5. ~lowered' /\ ~flushed' => \A k \in Keys : KeptFor(k)'
      BY Zenon, <2>5, <3>1, <1>0 DEF RInv
    <3> QED BY <2>3, <3>2, <3>3, <3>4, <3>5 DEF RInv
  <2>7. CASE ~(out' = <<>> /\ UNCHANGED contexts)
    <3>1. /\ ~is_key_frozen(f.key) /\ AddToContext(f)
          /\ f.key \in DOMAIN contexts \/ Cardinality(DOMAIN contexts) < MaxContexts
      BY Zenon, <2>7, <1>2 DEF process_packet
    <3>2. PICK ctx : /\ Consistent(ctx)
                     /\ ctx.age = IF f.key \in DOMAIN contexts
                                  THEN contexts[f.key].age ELSE 0
                     /\ \/ /\ ctx.count < ctx.total
                           /\ contexts' = With(f.key, ctx) /\ out' = <<>>
                        \/ /\ ctx.count = ctx.total
                           /\ contexts' = Without({f.key})
                           /\ out' = <<Frame(f.key, ctx)>>
      BY Zenon, <1>2, <3>1, AddToContextFacts
    <3>3. Unfrozen(f.key)'
      BY <2>2, <3>1 DEF Unfrozen
    <3>4. CASE /\ ctx.count < ctx.total
               /\ contexts' = With(f.key, ctx) /\ out' = <<>>
      <4>1. /\ DOMAIN contexts' = DOMAIN contexts \cup {f.key}
            /\ \A k \in DOMAIN contexts' :
                 contexts'[k] = IF k = f.key THEN ctx ELSE contexts[k]
        BY Zenon, <3>4 DEF With
      <4>2. TypeOK'
        <5>1. DOMAIN contexts' \subseteq Keys /\ \A k \in DOMAIN contexts' : contexts'[k] \in Context
          BY <4>1, <3>2, <1>0 DEF TypeOK, Consistent
        <5>2. \A i \in DOMAIN out' : out'[i].key \in Keys
          BY <3>4
        <5> QED BY Zenon, <5>1, <5>2, <2>2, <1>0 DEF TypeOK
      <4>3. Cardinality(DOMAIN contexts') <= MaxContexts
        <5>1. Cardinality(DOMAIN contexts') =
                IF f.key \in DOMAIN contexts THEN Cardinality(DOMAIN contexts)
                ELSE Cardinality(DOMAIN contexts) + 1
          BY Zenon, <4>1, <1>0, FS_AddElement
        <5>2. Cardinality(DOMAIN contexts) \in Nat
              /\ Cardinality(DOMAIN contexts) <= MaxContexts
          BY Zenon, <1>0, FS_CardinalityType DEF RInv, OpenContexts
        <5> QED BY <5>1, <5>2, <3>1, <1>0
      <4>4. OpenContexts'
        BY Zenon, <4>1, <4>3, <3>2, <3>3, <3>4, <2>4 DEF RInv, OpenContexts
      <4>5. ASSUME NEW k \in Keys, promise[k] <= timeout_ms
            PROVE  Threats(k)' \subseteq Threats(k)
        <5> SUFFICES ASSUME NEW j \in DOMAIN contexts',
                            contexts'[j].age + promise[k] > timeout_ms
                     PROVE  j \in DOMAIN contexts /\ contexts'[j].age = contexts[j].age
          BY Zenon, <1>0 DEF Threats
        <5>1. promise[k] \in Nat
          BY <1>0, ReassemblerAssumption DEF TypeOK
        <5> QED BY <5>1, <4>1, <3>2, <4>5, <1>0
      <4>6. FramesSound'
        BY <3>4 DEF FramesSound, PiecesInPlace, FramesMarked
      <4>7. ~lowered' /\ ~flushed' => \A k \in Keys : KeptFor(k)'
        BY Zenon, <2>5, <4>5, <1>0 DEF RInv
      <4> QED BY Zenon, <2>3, <4>2, <4>4, <4>6, <4>7 DEF RInv
    <3>5. CASE /\ ctx.count = ctx.total
               /\ contexts' = Without({f.key})
               /\ out' = <<Frame(f.key, ctx)>>
      <4>1. /\ DOMAIN contexts' = DOMAIN contexts \ {f.key}
            /\ \A k \in DOMAIN contexts' : contexts'[k] = contexts[k]
        BY Zenon, <3>5 DEF Without
      <4>2. DOMAIN out' = {1} /\ out'[1] = Frame(f.key, ctx) /\ Frame(f.key, ctx).key = f.key
        BY <3>5 DEF Frame
      <4>3. TypeOK'
        BY <4>1, <4>2, <2>2, <1>0 DEF TypeOK
      <4>4. Cardinality(DOMAIN contexts') <= MaxContexts
        <5>1. Cardinality(DOMAIN contexts') <= Cardinality(DOMAIN contexts)
              /\ Cardinality(DOMAIN contexts') \in Nat
              /\ Cardinality(DOMAIN contexts) \in Nat
          BY Zenon, <4>1, <1>0, FS_Subset, FS_CardinalityType
        <5> QED BY <5>1, <1>0 DEF RInv, OpenContexts
      <4>5. OpenContexts'
        BY Zenon, <4>1, <4>4, <2>4 DEF RInv, OpenContexts
      <4>6. ASSUME NEW k \in Keys PROVE Threats(k)' \subseteq Threats(k)
        BY Zenon, <4>1, <1>0 DEF Threats
      <4>7. FramesSound'
        <5>1. PiecesInPlace'
          <6> SUFFICES ASSUME OneBodySize, Frame(f.key, ctx).agree
                       PROVE  InPlace(Frame(f.key, ctx))
            BY Zenon, <4>2 DEF PiecesInPlace
          <6>1. ctx.agree
            BY Zenon, FrameFields
          <6> QED BY Zenon, <6>1, <3>2, FrameInPlace
        <5>2. FramesMarked'
          <6> SUFFICES ASSUME Frame(f.key, ctx).agree
                       PROVE  Marked(Frame(f.key, ctx))'
            BY Zenon, <4>2 DEF FramesMarked
          <6>1. ctx.agree
            BY Zenon DEF Frame
          <6>2. Frame(f.key, ctx).is_complete => Frame(f.key, ctx).has_snapshot
            BY Zenon, <6>1, <3>2, FrameHasSnapshot
          <6>3. \A j \in Frame(f.key, ctx).missing : Frame(f.key, ctx).layout[j] = 0
            BY Zenon, <6>1, <3>2, <3>5, FullFrame
          <6> QED BY Zenon, <6>2, <6>3 DEF Marked
        <5> QED BY Zenon, <5>1, <5>2 DEF FramesSound
      <4>8. ~lowered' /\ ~flushed' => \A k \in Keys : KeptFor(k)'
        BY Zenon, <2>5, <4>6, <1>0 DEF RInv
      <4> QED BY Zenon, <2>3, <4>3, <4>5, <4>7, <4>8 DEF RInv
    <3> QED BY Zenon, <3>2, <3>4, <3>5
  <2> QED BY Zenon, <2>6, <2>7
<1> QED BY Zenon, <1>1, <1>2

(* How far an entry is from next_insert before and after m inserts. *)
LEMMA OffsetFacts ==
    ASSUME frozen_keys_next_insert \in RingIndex, NEW m \in 0..FrozenCap,
           NEW i \in RingIndex
    PROVE  /\ Offset(i, frozen_keys_next_insert) \in 0..(FrozenCap - 1)
           /\ Ahead(m) \in RingIndex
           /\ m <= Offset(i, frozen_keys_next_insert) =>
                Offset(i, Ahead(m)) = Offset(i, frozen_keys_next_insert) - m
           /\ Offset(i, frozen_keys_next_insert) < m =>
                Offset(i, Ahead(m)) =
                    Offset(i, frozen_keys_next_insert) - m + FrozenCap
           /\ \A j \in RingIndex :
                Offset(i, frozen_keys_next_insert) = Offset(j, frozen_keys_next_insert)
                => i = j
BY CapFacts DEF Offset, Ahead, RingIndex

(* Offset and Ahead are inverse to each other. *)
LEMMA OffsetOfAhead ==
    ASSUME frozen_keys_next_insert \in RingIndex, NEW p \in 0..(FrozenCap - 1)
    PROVE  Ahead(p) \in RingIndex /\ Offset(Ahead(p), frozen_keys_next_insert) = p
BY CapFacts DEF Offset, Ahead, RingIndex

(* How many contexts there are to time out. *)
LEMMA TimeOutNumbers ==
    ASSUME RInv, NEW ks \in SUBSET DOMAIN contexts
    PROVE  /\ TypeOK /\ ks \subseteq Keys /\ frozen_keys_next_insert \in RingIndex
           /\ timeout_ms \in 0..MaxTimeout /\ MaxTimeout \in Nat
           /\ IsFiniteSet(DOMAIN contexts) /\ IsFiniteSet(ks)
           /\ Cardinality(DOMAIN contexts) \in 0..MaxContexts
           /\ Cardinality(ks) \in 0..MaxContexts /\ Cardinality(ks) \in 0..FrozenCap
           /\ FrozenCap \in Nat \ {0} /\ MaxContexts \in Nat
           /\ FrozenCap >= 2 * MaxContexts
<1>1. TypeOK /\ IsFiniteSet(DOMAIN contexts)
  BY Zenon, OpenIsFinite DEF RInv
<1>2. /\ ks \subseteq Keys /\ frozen_keys_next_insert \in RingIndex
      /\ timeout_ms \in 0..MaxTimeout /\ MaxTimeout \in Nat /\ MaxContexts \in Nat
  BY Zenon, <1>1, ReassemblerAssumption DEF TypeOK
<1>3. IsFiniteSet(ks) /\ Cardinality(ks) <= Cardinality(DOMAIN contexts)
  BY Zenon, <1>1, FS_Subset
<1>4. Cardinality(ks) \in Nat /\ Cardinality(DOMAIN contexts) \in Nat
  BY Zenon, <1>1, <1>3, FS_CardinalityType
<1>5. Cardinality(DOMAIN contexts) <= MaxContexts
  BY Zenon DEF RInv, OpenContexts
<1> QED BY <1>1, <1>2, <1>3, <1>4, <1>5, CapFacts

(***************************************************************************)
(* The m contexts ks have left, in some order, and their keys have the m   *)
(* entries of the ring from next_insert on.                                *)
(***************************************************************************)
TakenOut(ks, m, order) ==
    /\ order \in [1..m -> ks]
    /\ \A p, q \in 1..m : order[p] = order[q] => p = q
    /\ \A k \in ks : \E p \in 1..m : order[p] = k
    /\ DOMAIN out' = 1..m
    /\ \A p \in 1..m : out'[p] = Frame(order[p], contexts[order[p]])
    /\ DOMAIN contexts' = DOMAIN contexts \ ks
    /\ \A k \in DOMAIN contexts' : contexts'[k] = contexts[k]
    /\ promise' = [k \in Keys |-> IF k \in ks THEN timeout_ms ELSE promise[k]]
    /\ frozen_keys_next_insert' = Ahead(m)
    /\ frozen_keys_ring' =
          [i \in RingIndex |->
              IF Offset(i, frozen_keys_next_insert) < m
              THEN NewEntry(order[Offset(i, frozen_keys_next_insert) + 1])
              ELSE frozen_keys_ring[i]]

(* What TimeOut does is that. *)
LEMMA TimeOutIs ==
    ASSUME RInv, NEW ks \in SUBSET DOMAIN contexts, TimeOut(ks)
    PROVE  \E order : TakenOut(ks, Cardinality(ks), order)
<1>1. PICK m \in 0..FrozenCap : m = Cardinality(ks)
  BY Zenon, TimeOutNumbers
<1>2. PICK order \in Bijection(1..m, ks) :
        /\ out' = [i \in DOMAIN order |-> Frame(order[i], contexts[order[i]])]
        /\ contexts' = Without(ks)
        /\ frozen_keys_ring' = FreezeInOrder(order).slots
        /\ frozen_keys_next_insert' = FreezeInOrder(order).next
        /\ promise' = [k \in Keys |-> IF k \in ks THEN timeout_ms ELSE promise[k]]
  BY Zenon, <1>1 DEF TimeOut
<1>3. /\ order \in [1..m -> ks]
      /\ \A p, q \in 1..m : order[p] = order[q] => p = q
  BY Zenon, <1>2 DEF Bijection, Injection, IsInjective
<1>4. \A k \in ks : \E p \in 1..m : order[p] = k
  BY <1>2, Zenon DEF Bijection, Surjection
<1>5. FreezeInOrder(order) = Written(order, m)
  <2>1. \A p \in 1..m : Unfrozen(order[p])
    BY Zenon, <1>3 DEF RInv, OpenContexts
  <2>2. order \in [1..m -> Keys] /\ TypeOK
    BY Zenon, <1>3, TimeOutNumbers
  <2> QED BY Zenon, <1>3, <2>1, <2>2, FreezeInOrderIs
<1>6. /\ FreezeInOrder(order).next = Ahead(m)
      /\ FreezeInOrder(order).slots =
            [i \in RingIndex |->
                IF Offset(i, frozen_keys_next_insert) < m
                THEN NewEntry(order[Offset(i, frozen_keys_next_insert) + 1])
                ELSE frozen_keys_ring[i]]
  BY <1>5 DEF Written
<1>7. /\ DOMAIN contexts' = DOMAIN contexts \ ks
      /\ \A k \in DOMAIN contexts' : contexts'[k] = contexts[k]
  BY Zenon, <1>2 DEF Without
<1>8. DOMAIN out' = 1..m /\ \A p \in 1..m : out'[p] = Frame(order[p], contexts[order[p]])
  BY Zenon, <1>2, <1>3
<1>9. /\ promise' = [k \in Keys |-> IF k \in ks THEN timeout_ms ELSE promise[k]]
      /\ frozen_keys_next_insert' = Ahead(m)
      /\ frozen_keys_ring' =
            [i \in RingIndex |->
                IF Offset(i, frozen_keys_next_insert) < m
                THEN NewEntry(order[Offset(i, frozen_keys_next_insert) + 1])
                ELSE frozen_keys_ring[i]]
  BY Zenon, <1>2, <1>6
<1>10. TakenOut(ks, m, order)
  BY Zenon, <1>3, <1>4, <1>7, <1>8, <1>9 DEF TakenOut
<1> QED BY Zenon, <1>1, <1>10

(* An entry of the ring is new, or is the one that was there. *)
LEMMA RingTakenOut ==
    ASSUME RInv, NEW ks \in SUBSET DOMAIN contexts, NEW m \in 0..FrozenCap, NEW order,
           TakenOut(ks, m, order), NEW i \in RingIndex
    PROVE  LET o == Offset(i, frozen_keys_next_insert)
           IN  /\ o \in 0..(FrozenCap - 1)
               /\ o < m => /\ o + 1 \in 1..m /\ order[o + 1] \in ks
                           /\ frozen_keys_ring'[i] = NewEntry(order[o + 1])
                           /\ frozen_keys_ring'[i].key = order[o + 1]
                           /\ frozen_keys_ring'[i] \in FrozenEntry
               /\ ~(o < m) => frozen_keys_ring'[i] = frozen_keys_ring[i]
<1> DEFINE o == Offset(i, frozen_keys_next_insert)
<1>1. o \in 0..(FrozenCap - 1) /\ FrozenCap \in Nat
  BY Zenon, TimeOutNumbers, OffsetFacts
<1>2. /\ o < m => frozen_keys_ring'[i] = NewEntry(order[o + 1])
      /\ ~(o < m) => frozen_keys_ring'[i] = frozen_keys_ring[i]
  BY Zenon DEF TakenOut
<1> HIDE DEF o
<1>3. o < m => o + 1 \in 1..m
  BY <1>1
<1>4. o < m => order[o + 1] \in ks
  BY Zenon, <1>3 DEF TakenOut
<1>5. \A k \in ks : NewEntry(k).key = k /\ NewEntry(k) \in FrozenEntry
  BY Zenon, TimeOutNumbers DEF NewEntry, FrozenEntry
<1> QED BY Zenon, <1>1, <1>2, <1>3, <1>4, <1>5 DEF o

(* The keys ks have entries, MaxContexts inserts away from being overwritten. *)
LEMMA KeysTakenOut ==
    ASSUME RInv, NEW ks \in SUBSET DOMAIN contexts, NEW m \in 0..MaxContexts, NEW order,
           TakenOut(ks, m, order), NEW k \in ks
    PROVE  \E i \in RingIndex :
              /\ frozen_keys_ring'[i] = NewEntry(k)
              /\ MaxContexts <= Offset(i, frozen_keys_next_insert')
<1>0. /\ frozen_keys_next_insert \in RingIndex
      /\ FrozenCap \in Nat \ {0} /\ MaxContexts \in Nat /\ FrozenCap >= 2 * MaxContexts
  BY Zenon, TimeOutNumbers
<1>1. PICK p \in 1..m : order[p] = k
  BY Zenon DEF TakenOut
<1>2. p - 1 \in 0..(FrozenCap - 1) /\ p - 1 < m /\ p - 1 + 1 = p /\ m \in 0..FrozenCap
  BY <1>0
<1>3. PICK i \in RingIndex : i = Ahead(p - 1) /\ Offset(i, frozen_keys_next_insert) = p - 1
  BY Zenon, <1>2, <1>0, OffsetOfAhead
<1>4. frozen_keys_ring'[i] = NewEntry(k)
  <2>1. /\ Offset(i, frozen_keys_next_insert) < m
        /\ Offset(i, frozen_keys_next_insert) + 1 = p
    BY Zenon, <1>2, <1>3
  <2>2. frozen_keys_ring'[i] = NewEntry(order[Offset(i, frozen_keys_next_insert) + 1])
    BY Zenon, <1>2, <2>1, RingTakenOut
  <2> QED BY Zenon, <1>1, <2>1, <2>2
<1>5. Offset(i, Ahead(m)) = p - 1 - m + FrozenCap
  BY Zenon, <1>2, <1>3, <1>0, OffsetFacts
<1>6. MaxContexts <= p - 1 - m + FrozenCap
  BY <1>0
<1>7. frozen_keys_next_insert' = Ahead(m)
  BY Zenon DEF TakenOut
<1> QED BY Zenon, <1>4, <1>5, <1>6, <1>7

(* The types hold after a timeout. *)
LEMMA TypedTakenOut ==
    ASSUME RInv, NEW ks \in SUBSET DOMAIN contexts, NEW m \in 0..FrozenCap, NEW order,
           TakenOut(ks, m, order), UNCHANGED <<timeout_ms, lowered>>, flushed' \in BOOLEAN
    PROVE  TypeOK'
<1>1. frozen_keys_ring' \in [RingIndex -> FrozenEntry]
  <2>1. \A i \in RingIndex : frozen_keys_ring[i] \in FrozenEntry
    BY Zenon, TimeOutNumbers DEF TypeOK
  <2>2. \A i \in RingIndex : frozen_keys_ring'[i] \in FrozenEntry
    BY Zenon, <2>1, RingTakenOut
  <2> QED BY Zenon, <2>2 DEF TakenOut
<1>2. frozen_keys_next_insert' \in RingIndex
  BY TimeOutNumbers, OffsetFacts DEF TakenOut
<1>3. promise' \in [Keys -> 0..MaxTimeout]
  <2>1. promise \in [Keys -> 0..MaxTimeout] /\ timeout_ms \in 0..MaxTimeout
    BY Zenon, TimeOutNumbers DEF TypeOK
  <2> QED BY Zenon, <2>1 DEF TakenOut
<1>4. \A p \in DOMAIN out' : out'[p].key \in Keys
  <2> SUFFICES ASSUME NEW p \in 1..m PROVE out'[p].key \in Keys
    BY Zenon DEF TakenOut
  <2>1. out'[p] = Frame(order[p], contexts[order[p]])
    BY Zenon DEF TakenOut
  <2>2. order[p] \in ks
    BY Zenon DEF TakenOut
  <2>3. order[p] \in Keys
    BY Zenon, <2>2, TimeOutNumbers
  <2>4. out'[p].key = order[p]
    BY Zenon, <2>1, FrameFields
  <2> QED BY Zenon, <2>3, <2>4
<1>5. DOMAIN contexts' \subseteq Keys /\ \A k \in DOMAIN contexts' : contexts'[k] \in Context
  BY Zenon DEF TakenOut, RInv, TypeOK
<1> QED BY <1>1, <1>2, <1>3, <1>4, <1>5 DEF RInv, TypeOK

(* The contexts that stay have no entry in the ring. *)
LEMMA OpenTakenOut ==
    ASSUME RInv, NEW ks \in SUBSET DOMAIN contexts, NEW m \in 0..FrozenCap, NEW order,
           TakenOut(ks, m, order)
    PROVE  OpenContexts'
<1>0. /\ DOMAIN contexts' = DOMAIN contexts \ ks
      /\ \A k \in DOMAIN contexts' : contexts'[k] = contexts[k]
  BY Zenon DEF TakenOut
<1>1. ASSUME NEW k \in DOMAIN contexts' PROVE Unfrozen(k)'
  <2> SUFFICES ASSUME NEW i \in RingIndex,
                      frozen_keys_ring'[i].valid, frozen_keys_ring'[i].key = k
               PROVE  FALSE
    BY Zenon DEF Unfrozen
  <2>1. k \notin ks /\ Unfrozen(k)
    BY Zenon, <1>0 DEF RInv, OpenContexts
  <2>2. frozen_keys_ring'[i] = frozen_keys_ring[i]
    BY Zenon, <2>1, RingTakenOut
  <2> QED BY Zenon, <2>1, <2>2 DEF Unfrozen
<1>2. Cardinality(DOMAIN contexts') <= MaxContexts
  <2>1. DOMAIN contexts' \in SUBSET DOMAIN contexts
    BY Zenon, <1>0
  <2>2. Cardinality(DOMAIN contexts') \in 0..MaxContexts
    BY Zenon, <2>1, TimeOutNumbers
  <2> QED BY <2>2, TimeOutNumbers
<1> QED BY <1>0, <1>1, <1>2 DEF RInv, OpenContexts

(* No key gets a second entry. *)
LEMMA EntriesTakenOut ==
    ASSUME RInv, NEW ks \in SUBSET DOMAIN contexts, NEW m \in 0..FrozenCap, NEW order,
           TakenOut(ks, m, order)
    PROVE  OneEntryPerKey'
<1> DEFINE new(i) == Offset(i, frozen_keys_next_insert) < m
<1> SUFFICES ASSUME NEW i \in RingIndex, NEW j \in RingIndex,
                    frozen_keys_ring'[i].valid, frozen_keys_ring'[j].valid,
                    frozen_keys_ring'[i].key = frozen_keys_ring'[j].key
             PROVE  i = j
  BY Zenon DEF OneEntryPerKey
<1>1. \A k \in ks : Unfrozen(k)
  BY Zenon DEF RInv, OpenContexts
<1>2. CASE new(i) /\ new(j)
  <2>1. PICK a \in Nat, b \in Nat : /\ a = Offset(i, frozen_keys_next_insert)
                                    /\ b = Offset(j, frozen_keys_next_insert)
    <3>1. /\ Offset(i, frozen_keys_next_insert) \in 0..(FrozenCap - 1)
          /\ Offset(j, frozen_keys_next_insert) \in 0..(FrozenCap - 1)
      BY Zenon, RingTakenOut
    <3> QED BY <3>1, TimeOutNumbers
  <2>2. a + 1 \in 1..m /\ b + 1 \in 1..m /\ order[a + 1] = order[b + 1]
    BY Zenon, <1>2, <2>1, RingTakenOut
  <2>3. a + 1 = b + 1
    BY Zenon, <2>2 DEF TakenOut
  <2>4. a = b
    BY <2>3
  <2> QED BY Zenon, <2>1, <2>4, TimeOutNumbers, OffsetFacts
<1>3. CASE new(i) /\ ~new(j)
  <2>1. frozen_keys_ring'[i].key \in ks
    BY Zenon, <1>3, RingTakenOut
  <2>2. frozen_keys_ring[j].valid /\ frozen_keys_ring[j].key \in ks
    BY Zenon, <2>1, <1>3, RingTakenOut
  <2> QED BY Zenon, <2>2, <1>1 DEF Unfrozen
<1>4. CASE ~new(i) /\ new(j)
  <2>1. frozen_keys_ring'[j].key \in ks
    BY Zenon, <1>4, RingTakenOut
  <2>2. frozen_keys_ring[i].valid /\ frozen_keys_ring[i].key \in ks
    BY Zenon, <2>1, <1>4, RingTakenOut
  <2> QED BY Zenon, <2>2, <1>1 DEF Unfrozen
<1>5. CASE ~new(i) /\ ~new(j)
  <2>1. frozen_keys_ring'[i] = frozen_keys_ring[i] /\ frozen_keys_ring'[j] = frozen_keys_ring[j]
    BY Zenon, <1>5, RingTakenOut
  <2> QED BY <2>1 DEF RInv, OneEntryPerKey
<1> QED BY Zenon, <1>2, <1>3, <1>4, <1>5

(* The freeze of a key of ks has the longest way to go. *)
LEMMA NewFreezeKept ==
    ASSUME RInv, NEW ks \in SUBSET DOMAIN contexts, NEW m \in 0..MaxContexts, NEW order,
           TakenOut(ks, m, order), timeout_ms' = timeout_ms, NEW k \in ks, TypeOK'
    PROVE  KeptFor(k)'
<1>1. k \in Keys /\ promise'[k] = timeout_ms
  BY Zenon, TimeOutNumbers DEF TakenOut
<1>2. PICK i \in RingIndex : /\ frozen_keys_ring'[i] = NewEntry(k)
                             /\ MaxContexts <= Offset(i, frozen_keys_next_insert')
  BY Zenon, KeysTakenOut
<1>3. PICK t \in 0..MaxContexts : t = Cardinality(Threats(k)')
  <2>1. Threats(k)' \in SUBSET DOMAIN contexts
    BY Zenon DEF Threats, TakenOut
  <2> QED BY Zenon, <2>1, TimeOutNumbers
<1>4. PICK o \in Int : o = Offset(i, frozen_keys_next_insert')
  <2>1. frozen_keys_next_insert' \in RingIndex /\ FrozenCap \in Nat \ {0}
    BY Zenon, TimeOutNumbers DEF TypeOK
  <2>2. Offset(i, frozen_keys_next_insert') \in Int
    BY <2>1 DEF Offset, RingIndex
  <2> QED BY Zenon, <2>2
<1>5. MaxContexts <= o /\ MaxContexts \in Nat
  BY Zenon, <1>2, <1>4, TimeOutNumbers
<1>6. t <= o
  BY <1>5
<1>7. Cardinality(Threats(k)') <= Offset(i, frozen_keys_next_insert')
  BY Zenon, <1>3, <1>4, <1>6
<1>8. frozen_keys_ring'[i] = [valid |-> TRUE, key |-> k, ttl |-> promise'[k]]
  BY Zenon, <1>1, <1>2 DEF NewEntry
<1>9. promise'[k] <= timeout_ms
  BY <1>1, TimeOutNumbers
<1> QED BY Zenon, <1>7, <1>8, <1>9 DEF KeptFor

(* Those that time out were threats to the freezes of the other keys. *)
LEMMA OldFreezeKept ==
    ASSUME RInv, NEW ks \in SUBSET DOMAIN contexts, NEW m \in 0..FrozenCap, NEW order,
           m = Cardinality(ks), TakenOut(ks, m, order), timeout_ms' = timeout_ms,
           \A k \in ks : contexts[k].age >= timeout_ms,
           NEW k \in Keys \ ks, KeptFor(k)
    PROVE  KeptFor(k)'
<1>0. SUFFICES ASSUME promise'[k] > 0
               PROVE  /\ promise'[k] <= timeout_ms
                      /\ \E i \in RingIndex :
                           /\ frozen_keys_ring'[i]
                                 = [valid |-> TRUE, key |-> k, ttl |-> promise'[k]]
                           /\ Cardinality(Threats(k)') <= Offset(i, frozen_keys_next_insert')
  BY Zenon DEF KeptFor
<1>1. promise'[k] = promise[k] /\ promise[k] \in Nat
  <2>1. promise \in [Keys -> 0..MaxTimeout] /\ MaxTimeout \in Nat
    BY Zenon, TimeOutNumbers DEF TypeOK
  <2>2. promise[k] \in Nat
    BY <2>1
  <2> QED BY Zenon, <2>2 DEF TakenOut
<1>2. PICK i \in RingIndex :
        /\ frozen_keys_ring[i] = [valid |-> TRUE, key |-> k, ttl |-> promise[k]]
        /\ Cardinality(Threats(k)) <= Offset(i, frozen_keys_next_insert)
  BY Zenon, <1>0, <1>1 DEF KeptFor
<1>3. ks \in SUBSET Threats(k)
  <2> SUFFICES ASSUME NEW j \in ks
               PROVE  contexts[j].age + promise[k] > timeout_ms
    BY Zenon DEF Threats
  <2>1. contexts[j] \in Context /\ MaxTimeout \in Nat /\ timeout_ms \in Nat
    BY TimeOutNumbers DEF TypeOK
  <2>2. contexts[j].age \in Nat
    BY <2>1 DEF Context
  <2> QED BY <2>1, <2>2, <1>0, <1>1
<1>4. Threats(k)' \in SUBSET (Threats(k) \ ks)
  BY Zenon, <1>1 DEF Threats, TakenOut
<1>5. IsFiniteSet(Threats(k)) /\ Threats(k) \cap ks = ks
  <2>1. Threats(k) \in SUBSET DOMAIN contexts
    BY Zenon DEF Threats
  <2> QED BY Zenon, <2>1, <1>3, TimeOutNumbers
<1>6. /\ IsFiniteSet(Threats(k) \ ks)
      /\ Cardinality(Threats(k) \ ks) = Cardinality(Threats(k)) - m
  BY ZenonT(30), <1>5, FS_Difference
<1>7. PICK t \in Nat, u \in Nat, w \in Nat :
        /\ t = Cardinality(Threats(k)') /\ u = Cardinality(Threats(k) \ ks)
        /\ w = Cardinality(Threats(k)) /\ t <= u
  BY <1>4, <1>5, <1>6, FS_Subset, FS_CardinalityType
<1>8. PICK o \in 0..(FrozenCap - 1) : o = Offset(i, frozen_keys_next_insert)
  BY Zenon, TimeOutNumbers, OffsetFacts
<1>9. u = w - m /\ w <= o /\ FrozenCap \in Nat
  BY Zenon, <1>2, <1>6, <1>7, <1>8, TimeOutNumbers
<1>10. m <= o /\ ~(o < m) /\ t <= o - m
  BY <1>7, <1>8, <1>9
<1>11. Offset(i, frozen_keys_next_insert') = o - m
  <2>1. Offset(i, Ahead(m)) = o - m
    BY Zenon, <1>8, <1>10, TimeOutNumbers, OffsetFacts
  <2> QED BY Zenon, <2>1 DEF TakenOut
<1>12. frozen_keys_ring'[i] = frozen_keys_ring[i]
  BY Zenon, <1>8, <1>10, RingTakenOut
<1>13. promise'[k] <= timeout_ms
  BY Zenon, <1>0, <1>1 DEF KeptFor
<1>14. Cardinality(Threats(k)') <= Offset(i, frozen_keys_next_insert')
  BY Zenon, <1>7, <1>10, <1>11
<1> QED BY Zenon, <1>1, <1>2, <1>12, <1>13, <1>14

(* The frames of the contexts taken out are sound. *)
LEMMA FramesTakenOut ==
    ASSUME RInv, NEW ks \in SUBSET DOMAIN contexts, NEW m \in 0..MaxContexts, NEW order,
           TakenOut(ks, m, order), timeout_ms' = timeout_ms
    PROVE  FramesSound'
<1>1. DOMAIN out' = 1..m
  BY Zenon DEF TakenOut
<1>2. ASSUME NEW p \in 1..m, out'[p].agree
      PROVE  /\ out'[p] = Frame(order[p], contexts[order[p]])
             /\ Consistent(contexts[order[p]]) /\ contexts[order[p]].agree
             /\ out'[p].key = order[p] /\ order[p] \in ks
  <2>1. out'[p] = Frame(order[p], contexts[order[p]])
    BY Zenon DEF TakenOut
  <2>2. order[p] \in ks
    BY Zenon DEF TakenOut
  <2>3. Consistent(contexts[order[p]])
    BY Zenon, <2>2 DEF RInv, OpenContexts
  <2> QED BY <1>2, <2>1, <2>2, <2>3, FrameFields
<1>3. PiecesInPlace'
  <2> SUFFICES ASSUME OneBodySize, NEW p \in 1..m, out'[p].agree
               PROVE  InPlace(out'[p])
    BY Zenon, <1>1 DEF PiecesInPlace
  <2> QED BY <1>2, FrameInPlace
<1>4. FramesMarked'
  <2> SUFFICES ASSUME NEW p \in 1..m, out'[p].agree
               PROVE  Marked(out[p])'
    BY Zenon, <1>1 DEF FramesMarked
  <2>1. out'[p].is_complete => out'[p].has_snapshot
    BY <1>2, FrameHasSnapshot
  <2>2. timeout_ms # 0 => is_key_frozen(order[p])'
    <3>1. PICK i \in RingIndex : frozen_keys_ring'[i] = NewEntry(order[p])
      BY Zenon, <1>2, KeysTakenOut
    <3>2. timeout_ms # 0 => Freezes(i, order[p])'
      BY <3>1, TimeOutNumbers DEF Freezes, NewEntry
    <3> QED BY Zenon, <3>2 DEF is_key_frozen
  <2> QED BY Zenon, <1>2, <2>1, <2>2 DEF Marked
<1> QED BY Zenon, <1>3, <1>4 DEF FramesSound

(***************************************************************************)
(* Contexts time out: by check_timeouts those that are old enough, by      *)
(* flush_all all of them.                                                  *)
(***************************************************************************)
LEMMA StepTimeOut ==
    ASSUME RInv, ~flushed, NEW ks \in SUBSET DOMAIN contexts, TimeOut(ks),
           UNCHANGED <<timeout_ms, lowered>>, flushed' \in BOOLEAN,
           ~flushed' => \A k \in ks : contexts[k].age >= timeout_ms
    PROVE  RInv'
<1>1. PICK m \in 0..MaxContexts : m = Cardinality(ks) /\ m \in 0..FrozenCap
  BY Zenon, TimeOutNumbers
<1>2. PICK order : TakenOut(ks, m, order)
  BY Zenon, <1>1, TimeOutIs
<1>3. timeout_ms' = timeout_ms /\ lowered' = lowered
  BY Zenon
<1>4. TypeOK'
  BY Zenon, <1>1, <1>2, TypedTakenOut
<1>5. OpenContexts' /\ OneEntryPerKey' /\ FramesSound'
  BY Zenon, <1>1, <1>2, <1>3, OpenTakenOut, EntriesTakenOut, FramesTakenOut
<1>6. ASSUME ~lowered', ~flushed', NEW k \in Keys PROVE KeptFor(k)'
  <2>1. CASE k \in ks
    BY Zenon, <1>2, <1>3, <1>4, <2>1, NewFreezeKept
  <2>2. CASE k \notin ks
    <3>1. KeptFor(k) /\ k \in Keys \ ks
      <4>1. ~lowered
        BY <1>3, <1>6
      <4> QED BY Zenon, <1>6, <2>2, <4>1 DEF RInv
    <3> QED BY Zenon, <1>1, <1>2, <1>3, <1>6, <3>1, OldFreezeKept
  <2> QED BY Zenon, <2>1, <2>2
<1> QED BY Zenon, <1>4, <1>5, <1>6 DEF RInv

----------------------------------------------------------------------------
(* Every call preserves the invariant. *)
LEMMA NextRInv == RInv /\ [Next]_vars => RInv'
<1> SUFFICES ASSUME RInv, [Next]_vars PROVE RInv'
  BY Zenon
<1>1. ASSUME NEW f \in Arriving, process_packet(f) PROVE RInv'
  BY Zenon, <1>1, StepPacket
<1>2. CASE check_timeouts
  <2> DEFINE ks == {k \in DOMAIN contexts : check_timeout(contexts[k])}
  <2>1. /\ ~flushed /\ TimeOut(ks) /\ UNCHANGED <<timeout_ms, flushed, lowered>>
    BY Zenon, <1>2 DEF check_timeouts
  <2>2. ks \in SUBSET DOMAIN contexts /\ \A k \in ks : contexts[k].age >= timeout_ms
    BY Zenon DEF check_timeout
  <2>3. flushed' \in BOOLEAN
    BY Zenon, <2>1 DEF RInv, TypeOK
  <2> HIDE DEF ks
  <2> QED BY Zenon, <2>1, <2>2, <2>3, StepTimeOut
<1>3. CASE flush_all
  <2>1. /\ ~flushed /\ TimeOut(DOMAIN contexts) /\ UNCHANGED <<timeout_ms, lowered>>
        /\ flushed' = TRUE
    BY Zenon, <1>3 DEF flush_all
  <2>2. DOMAIN contexts \in SUBSET DOMAIN contexts
    BY Zenon
  <2> QED BY Zenon, <2>1, <2>2, StepTimeOut
<1>4. ASSUME NEW t \in Timeouts, set_timeout_ms(t) PROVE RInv'
  BY Zenon, <1>4, StepSetTimeout
<1>5. CASE Tick
  BY <1>5, StepTick
<1>6. CASE UNCHANGED vars
  <2>1. TypeOK'
    BY ZenonT(30), <1>6 DEF vars, RInv, TypeOK
  <2>2. FramesSound'
    BY Zenon, <1>6 DEF vars, RInv, FramesSound, PiecesInPlace, FramesMarked, Marked,
                is_key_frozen, Freezes
  <2> QED BY Zenon, <1>6, <2>1, <2>2 DEF vars, RInv, OpenContexts, OneEntryPerKey,
                                         Unfrozen, KeptFor, Threats
<1> QED BY <1>1, <1>2, <1>3, <1>4, <1>5, <1>6 DEF Next, Housekeeping

(* Every call of the reassembler keeps the inductive invariant RInv. *)
THEOREM ReassemblerInvariant == Spec => []RInv
BY InitRInv, NextRInv, PTL DEF Spec

(***************************************************************************)
(* Contexts never exceed max_contexts, count and bytes of each are those   *)
(* of the fragments it holds, and no full context waits for its timeout.   *)
(***************************************************************************)
THEOREM ContextsStayAccounted == Spec => []ContextsAccounted
<1>1. RInv => ContextsAccounted
  BY DEF RInv, OpenContexts, Consistent, ContextsAccounted
<1> QED BY <1>1, ReassemblerInvariant, PTL

(***************************************************************************)
(* A key that is frozen has no context, and unless set_timeout_ms lowers   *)
(* the timeout 2 * max_contexts entries always suffice to keep every       *)
(* frozen key until its freeze is over.                                    *)
(***************************************************************************)
THEOREM FreezeIsSound == Spec => []FreezeSound
<1>1. RInv => FreezeSound
  <2> SUFFICES ASSUME RInv PROVE FreezeSound
    BY Zenon
  <2>1. FrozenIsClosed
    BY Zenon DEF RInv, OpenContexts, OneEntryPerKey, FrozenIsClosed, Unfrozen,
           is_key_frozen, Freezes
  <2>2. FreezeKeptUnlessLowered
    <3> SUFFICES ASSUME ~lowered, ~flushed, NEW k \in Keys, promise[k] > 0
                 PROVE  is_key_frozen(k)
      BY Zenon DEF FreezeKeptUnlessLowered, FreezeKept
    <3>1. PICK i \in RingIndex :
            frozen_keys_ring[i] = [valid |-> TRUE, key |-> k, ttl |-> promise[k]]
      BY Zenon DEF RInv, KeptFor
    <3> QED BY <3>1 DEF is_key_frozen, Freezes
  <2> QED BY Zenon, <2>1, <2>2 DEF FreezeSound
<1> QED BY <1>1, ReassemblerInvariant, PTL

(***************************************************************************)
(* Every frame whose fragments agree is output with its pieces in place    *)
(* and marked for what it is.                                              *)
(***************************************************************************)
THEOREM FramesStaySound == Spec => []FramesSound
BY ReassemblerInvariant, PTL DEF RInv
=============================================================================
