--------------------------- MODULE BackendProofs ----------------------------
(***************************************************************************)
(* M03 and M04, for any number of plots, tracks, sessions and frames.      *)
(***************************************************************************)
EXTENDS Tracks, Gateway, Loops, FiniteSetTheorems

----------------------------------------------------------------------------
(***************************************************************************)
(* TrackManager and FusionEngine: a confirmed track has earned it, and fuse*)
(* keeps, of the tracks it joins, one that is at least as confident.       *)
(***************************************************************************)
TrackState == [id : Nat, life : Lives, hits : Nat \ {0}, misses : Nat, coasted : BOOLEAN]

(* What a track has behind it, by its lifecycle state. *)
Earned(t) ==
    /\ t.life = "CONFIRMED" => t.hits >= ConfirmHits \/ t.coasted
    /\ t.life = "COASTING" => t.coasted

(* Ids are given out in order and no state is ever removed. *)
StatesSound ==
    /\ states \in Seq(TrackState)
    /\ nextTrack = Len(states) + 1
    /\ \A i \in 1..Len(states) : states[i].id = i /\ Earned(states[i])

IdsAscend(seq) == \A i, j \in 1..Len(seq) : i < j => seq[i].id < seq[j].id

TracksInv ==
    /\ StatesSound
    /\ tracks \in Seq(TrackState) /\ IdsAscend(tracks)
    /\ FusionKeepsBest

----------------------------------------------------------------------------
(* Hits and misses keep what a track has earned. *)
LEMMA HitMiss ==
    ASSUME NEW t \in TrackState, Earned(t)
    PROVE  /\ Hit(t) \in TrackState /\ Hit(t).id = t.id /\ Earned(Hit(t))
           /\ Miss(t) \in TrackState /\ Miss(t).id = t.id /\ Earned(Miss(t))
<1>0. /\ ConfirmHits \in Nat \ {0} /\ FullHits \in Nat \ {0} /\ LostAfter \in Nat \ {0}
      /\ CoastAfter \in Nat \ {0} /\ ConfirmHits <= FullHits
  BY Zenon, TracksAssumption
<1>1. /\ t.id \in Nat /\ t.life \in Lives /\ t.hits \in Nat \ {0} /\ t.misses \in Nat
      /\ t.coasted \in BOOLEAN
  BY Zenon DEF TrackState
<1>2. Hit(t) \in TrackState /\ Hit(t).id = t.id
  <2>1. AtMost(t.hits + 1, FullHits) \in Nat \ {0}
    BY <1>0, <1>1 DEF AtMost
  <2> QED BY Zenon, <1>1, <2>1 DEF Hit, TrackState, Lives
<1>3. Earned(Hit(t))
  <2>1. /\ Hit(t).hits = AtMost(t.hits + 1, FullHits) /\ Hit(t).coasted = t.coasted
        /\ Hit(t).life = IF \/ t.life = "TENTATIVE" /\ t.hits + 1 >= ConfirmHits
                            \/ t.life = "COASTING" THEN "CONFIRMED" ELSE t.life
    BY Zenon DEF Hit, TrackState
  <2>2. /\ t.hits + 1 >= ConfirmHits => AtMost(t.hits + 1, FullHits) >= ConfirmHits
        /\ t.hits >= ConfirmHits => AtMost(t.hits + 1, FullHits) >= ConfirmHits
    BY <1>0, <1>1 DEF AtMost
  <2> QED BY Zenon, <1>1, <2>1, <2>2 DEF Earned
<1> DEFINE m == t.misses + 1
           life == IF m >= LostAfter THEN "LOST"
                   ELSE IF m >= CoastAfter THEN "COASTING" ELSE t.life
<1>4. life \in Lives
  BY Zenon, <1>1 DEF Lives
<1>5. Miss(t) = [t EXCEPT !.misses = AtMost(m, LostAfter), !.life = life,
                          !.coasted = @ \/ life = "COASTING"]
  BY Zenon DEF Miss
<1>6. AtMost(m, LostAfter) \in Nat
  BY <1>0, <1>1 DEF AtMost
<1>7. life = t.life \/ life = "LOST" \/ life = "COASTING"
  BY Zenon
<1> HIDE DEF life, m
<1>8. Miss(t) \in TrackState /\ Miss(t).id = t.id
  BY Zenon, <1>1, <1>4, <1>5, <1>6 DEF TrackState
<1>9. Earned(Miss(t))
  <2>1. /\ Miss(t).hits = t.hits /\ Miss(t).life = life
        /\ Miss(t).coasted = (t.coasted \/ life = "COASTING")
    BY Zenon, <1>5 DEF TrackState
  <2> QED BY Zenon, <1>1, <1>7, <2>1 DEF Earned
<1> QED BY Zenon, <1>2, <1>3, <1>8, <1>9

(* The tracks shown are tracks of the list, in its order. *)
LEMMA ShownFacts ==
    ASSUME NEW seq \in Seq(TrackState), IdsAscend(seq)
    PROVE  sync_snapshots(seq) \in Seq(TrackState) /\ IdsAscend(sync_snapshots(seq))
<1> DEFINE N == Len(seq)
           A == Seq(TrackState)
           Body(n, acc) == IF seq[n].life = "LOST" THEN acc ELSE Append(acc, seq[n])
           F(f) == [n \in 0..N |-> IF n = 0 THEN << >>
                                   ELSE IF seq[n].life = "LOST" THEN f[n - 1]
                                   ELSE Append(f[n - 1], seq[n])]
           g == [p \in (0..N) \X A |-> IF p[1] = 0 THEN << >> ELSE Body(p[1], p[2])]
           h == CHOOSE f : f = F(f)
<1>0. N \in Nat /\ << >> \in A /\ \A n \in 1..N : seq[n] \in TrackState
  BY Zenon, SeqLen, SeqElement, SeqNone
<1>1. g \in Turns(0, N, A)
  <2> SUFFICES ASSUME NEW n \in 0..N, NEW acc \in A, n # 0 PROVE Body(n, acc) \in A
    BY Zenon, <1>0 DEF Turns
  <2> QED BY <1>0, SeqPut
<1>2. PICK f \in [0..N -> A] : f[0] = << >> /\ \A n \in 0..N : n # 0 => f[n] = g[<<n, f[n - 1]>>]
  <2>1. 0 \in Nat /\ 0 <= N
    BY <1>0
  <2> HIDE DEF g, A, N
  <2>2. \E f : f \in Runs(0, N, A, << >>, g)
    BY Zenon, <2>1, <1>0, <1>1, LoopExists
  <2> QED BY Zenon, <2>2 DEF Runs
<1>3. f = F(f)
  <2>1. ASSUME NEW n \in 0..N, n # 0 PROVE f[n] = Body(n, f[n - 1])
    <3>1. n - 1 \in 0..N
      BY <1>0, <2>1
    <3>2. f[n - 1] \in A
      BY Zenon, <1>2, <3>1
    <3> QED BY Zenon, <1>2, <2>1, <3>2
  <2> QED BY Zenon, <1>2, <2>1
<1>4. h = F(h)
  <2> HIDE DEF F
  <2> QED BY Zenon, <1>3
<1>5. sync_snapshots(seq) = h[N]
  BY Zenon DEF sync_snapshots
<1>6. /\ h[0] = << >>
      /\ \A n \in 0..N : n # 0 => h[n] = Body(n, h[n - 1])
  <2> HIDE DEF h
  <2>1. ASSUME NEW n \in 0..N
        PROVE  h[n] = IF n = 0 THEN << >> ELSE Body(n, h[n - 1])
    <3>1. h[n] = F(h)[n]
      BY Zenon, <1>4
    <3> QED BY Zenon, <3>1
  <2> QED BY <1>0, <2>1
<1> HIDE DEF h
<1> DEFINE T == {n \in 0..N : /\ h[n] \in A /\ IdsAscend(h[n])
                              /\ \A i \in 1..Len(h[n]) : \E j \in 1..n : h[n][i] = seq[j]}
<1>7. 0 \in T /\ T \in SUBSET (0..N)
  <2>1. Len(h[0]) = 0 /\ h[0] \in A /\ 0 \in 0..N
    BY <1>0, <1>6, SeqNone
  <2> QED BY <2>1 DEF IdsAscend
<1>8. ASSUME NEW n \in 0..N, n # 0, n - 1 \in T PROVE n \in T
  <2>1. /\ h[n - 1] \in A /\ IdsAscend(h[n - 1]) /\ n \in 1..N
        /\ \A i \in 1..Len(h[n - 1]) : \E j \in 1..(n - 1) : h[n - 1][i] = seq[j]
    BY <1>0, <1>8
  <2>2. CASE seq[n].life = "LOST"
    <3>1. h[n] = h[n - 1]
      BY Zenon, <1>6, <1>8, <2>2
    <3>2. 1..(n - 1) \subseteq 1..n
      BY <2>1
    <3> QED BY Zenon, <2>1, <3>1, <3>2
  <2>3. CASE seq[n].life # "LOST"
    <3>1. h[n] = Append(h[n - 1], seq[n]) /\ seq[n] \in TrackState
      BY Zenon, <1>0, <1>6, <1>8, <2>1, <2>3
    <3> DEFINE old == h[n - 1]
               new == h[n]
    <3>2. /\ new \in A /\ Len(new) = Len(old) + 1 /\ Len(old) \in Nat
          /\ \A i \in 1..Len(old) : new[i] = old[i]
          /\ new[Len(old) + 1] = seq[n]
      BY <2>1, <3>1, SeqPut, SeqLen
    <3>3. \A i \in 1..Len(new) : i \in 1..Len(old) \/ i = Len(old) + 1
      BY <3>2
    <3>4. \A i \in 1..Len(new) : \E j \in 1..n : new[i] = seq[j]
      <4>1. 1..(n - 1) \subseteq 1..n /\ n \in 1..n
        BY <2>1
      <4> QED BY Zenon, <4>1, <2>1, <3>2, <3>3
    <3>5. IdsAscend(new)
      <4> SUFFICES ASSUME NEW i \in 1..Len(new), NEW j \in 1..Len(new), i < j
                   PROVE  new[i].id < new[j].id
        BY Zenon DEF IdsAscend
      <4>1. i \in 1..Len(old)
        BY <3>2, <3>3
      <4>2. CASE j \in 1..Len(old)
        BY Zenon, <4>1, <4>2, <3>2, <2>1 DEF IdsAscend
      <4>3. CASE j = Len(old) + 1
        <5>1. PICK k \in 1..(n - 1) : old[i] = seq[k]
          BY Zenon, <4>1, <2>1
        <5>2. k \in 1..N /\ k < n
          BY <2>1, <1>0
        <5> QED BY Zenon, <4>1, <4>3, <5>1, <5>2, <2>1, <3>2 DEF IdsAscend
      <4> QED BY Zenon, <3>3, <4>2, <4>3
    <3> QED BY Zenon, <3>2, <3>4, <3>5
  <2> QED BY Zenon, <2>2, <2>3
<1> HIDE DEF T
<1>9. N \in T
  <2>1. 0 \in Nat /\ N \in Nat /\ N \in 0..N
    BY <1>0
  <2> HIDE DEF N
  <2> QED BY Zenon, <2>1, <1>7, <1>8, FromTo
<1> QED BY Zenon, <1>5, <1>9 DEF T

----------------------------------------------------------------------------
(***************************************************************************)
(* FusionEngine::fuse.                                                     *)
(***************************************************************************)
Snap == [id : Nat, conf : Nat, handover : BOOLEAN]

(* A track is connected to itself. *)
LEMMA JoinedSelf == \A L, S, a : Joined(L, S, a, a)
BY Zenon DEF Joined

(* What should_fuse relates to a connected track is connected too. *)
LEMMA JoinedStep ==
    ASSUME NEW L, NEW S, NEW a, NEW b, NEW c \in S, Joined(L, S, a, b), L[b, c]
    PROVE  Joined(L, S, a, c)
BY Zenon DEF Joined

(* The inner loop from i, with M merged before it, after the turn of j: p is the
   index of the survivor, which is as confident as all it absorbed; while it is
   still i, it fuses with nothing it has passed. *)
Absorbed(L, snaps, i, M, j, acc, p) ==
    /\ acc \in [survivor : Snap, merged : SUBSET (1..Len(snaps))]
    /\ M \subseteq acc.merged /\ acc.merged \ M \subseteq (i + 1)..j
    /\ p \in {i} \cup (acc.merged \ M)
    /\ acc.survivor.id = snaps[p].id /\ acc.survivor.conf = snaps[p].conf
    /\ \A d \in {i} \cup (acc.merged \ M) :
         /\ snaps[d].conf <= acc.survivor.conf
         /\ Joined(L, Ids(snaps), snaps[d].id, acc.survivor.id)
    /\ p = i => \A q \in ((i + 1)..j) \ acc.merged : ~L[snaps[i].id, snaps[q].id]

(* One turn of the inner loop. *)
AbsorbTurn(L, snaps, j, acc) ==
    IF j \in acc.merged \/ ~should_fuse(L, acc.survivor, snaps[j]) THEN acc
    ELSE [survivor |-> [(IF snaps[j].conf > acc.survivor.conf
                         THEN snaps[j] ELSE acc.survivor) EXCEPT !.handover = TRUE],
          merged |-> acc.merged \cup {j}]

(* A snapshot in the list has the fields of one, and its id is among the ids. *)
LEMMA SnapAt ==
    ASSUME NEW snaps \in Seq(Snap), NEW i \in 1..Len(snaps)
    PROVE  /\ snaps[i] \in Snap /\ snaps[i].id \in Nat /\ snaps[i].conf \in Nat
           /\ snaps[i].id \in Ids(snaps)
<1>1. snaps[i] \in Snap
  BY Zenon, SeqElement
<1> QED BY Zenon, <1>1 DEF Snap, Ids

(* One turn of the inner loop of fuse keeps the invariant of that loop. *)
LEMMA AbsorbTurnKeeps ==
    ASSUME NEW snaps \in Seq(Snap), NEW L \in FuseRelations(Ids(snaps)),
           NEW i \in 1..Len(snaps), NEW M \in SUBSET (1..Len(snaps)),
           NEW j \in (i + 1)..Len(snaps), NEW acc, NEW p,
           Absorbed(L, snaps, i, M, j - 1, acc, p)
    PROVE  \E r : Absorbed(L, snaps, i, M, j, AbsorbTurn(L, snaps, j, acc), r)
<1> DEFINE N == Len(snaps)
           S == Ids(snaps)
           D == {i} \cup (acc.merged \ M)
<1>0. N \in Nat /\ i \in Nat /\ j \in 1..N /\ j > i /\ j \in Nat
  BY SeqLen
<1>1. /\ acc.survivor \in Snap /\ acc.merged \in SUBSET (1..N) /\ p \in 1..N
      /\ acc.survivor.id \in S /\ acc.survivor.id \in Nat /\ acc.survivor.conf \in Nat
  <2>1. acc.survivor \in Snap /\ acc.merged \in SUBSET (1..N) /\ p \in 1..N
        /\ acc.survivor.id = snaps[p].id
    BY Zenon DEF Absorbed
  <2> QED BY Zenon, <2>1, SnapAt DEF Snap
<1>2. /\ snaps[j] \in Snap /\ snaps[j].id \in S /\ snaps[j].conf \in Nat
      /\ \A d \in D : d \in 1..N /\ snaps[d].conf \in Nat /\ snaps[d].id \in S
  BY Zenon, <1>0, <1>1, SnapAt
<1>3. (i + 1)..(j - 1) \subseteq (i + 1)..j /\ j \in (i + 1)..j
      /\ \A q \in (i + 1)..j : q = j \/ q \in (i + 1)..(j - 1)
  BY <1>0
<1>4. should_fuse(L, acc.survivor, snaps[j]) = L[acc.survivor.id, snaps[j].id]
  BY Zenon DEF should_fuse
<1>5. CASE j \in acc.merged \/ ~L[acc.survivor.id, snaps[j].id]
  <2>1. AbsorbTurn(L, snaps, j, acc) = acc
    BY Zenon, <1>4, <1>5 DEF AbsorbTurn
  <2>2. p = i => \A q \in ((i + 1)..j) \ acc.merged : ~L[snaps[i].id, snaps[q].id]
    BY Zenon, <1>3, <1>5 DEF Absorbed
  <2>3. Absorbed(L, snaps, i, M, j, acc, p)
    BY Zenon, <1>3, <2>2 DEF Absorbed
  <2> QED BY Zenon, <2>1, <2>3
<1>6. CASE ~(j \in acc.merged \/ ~L[acc.survivor.id, snaps[j].id])
  <2> DEFINE best == IF snaps[j].conf > acc.survivor.conf THEN snaps[j] ELSE acc.survivor
             new == [survivor |-> [best EXCEPT !.handover = TRUE],
                     merged |-> acc.merged \cup {j}]
             r == IF snaps[j].conf > acc.survivor.conf THEN j ELSE p
  <2>1. AbsorbTurn(L, snaps, j, acc) = new
    BY Zenon, <1>4, <1>6 DEF AbsorbTurn
  <2>2. best \in Snap
    BY Zenon, <1>1, <1>2
  <2>3. /\ new.survivor \in Snap /\ new.survivor.id = best.id /\ new.survivor.conf = best.conf
        /\ new.merged = acc.merged \cup {j}
        /\ new \in [survivor : Snap, merged : SUBSET (1..N)]
    <3> HIDE DEF best
    <3>1. [best EXCEPT !.handover = TRUE] \in Snap
      BY Zenon, <2>2 DEF Snap
    <3>2. [best EXCEPT !.handover = TRUE].id = best.id
          /\ [best EXCEPT !.handover = TRUE].conf = best.conf
      BY Zenon, <2>2 DEF Snap
    <3>3. acc.merged \cup {j} \in SUBSET (1..N)
      BY Zenon, <1>0, <1>1
    <3> QED BY Zenon, <3>1, <3>2, <3>3
  <2>4. best.id = snaps[r].id /\ best.conf = snaps[r].conf
    BY Zenon DEF Absorbed
  <2>5. L[acc.survivor.id, snaps[j].id] /\ L[snaps[j].id, acc.survivor.id]
    <3>1. L[acc.survivor.id, snaps[j].id] = L[snaps[j].id, acc.survivor.id]
      BY Zenon, <1>1, <1>2 DEF FuseRelations
    <3> QED BY Zenon, <3>1, <1>6
  <2>6. new.merged \ M \subseteq (i + 1)..j /\ M \subseteq new.merged
    BY Zenon, <1>3, <2>3 DEF Absorbed
  <2>7. r \in {i} \cup (new.merged \ M)
    <3>1. j \notin M
      BY Zenon, <1>6 DEF Absorbed
    <3> QED BY Zenon, <3>1, <2>3 DEF Absorbed
  <2>12. /\ snaps[j].conf <= best.conf /\ acc.survivor.conf <= best.conf /\ best.conf \in Nat
         /\ best = snaps[j] \/ best = acc.survivor
    <3>1. \A a, b \in Nat : (a > b => a <= a /\ b <= a) /\ (~(a > b) => a <= b /\ b <= b)
      OBVIOUS
    <3>2. snaps[j].conf \in Nat /\ acc.survivor.conf \in Nat
      BY Zenon, <1>1, <1>2
    <3>3. CASE snaps[j].conf > acc.survivor.conf
      BY Zenon, <3>1, <3>2, <3>3
    <3>4. CASE ~(snaps[j].conf > acc.survivor.conf)
      BY Zenon, <3>1, <3>2, <3>4
    <3> QED BY Zenon, <3>3, <3>4
  <2> HIDE DEF best
  <2>13. \A a, b, c \in Nat : a <= b /\ b <= c => a <= c
    OBVIOUS
  <2>8. ASSUME NEW d \in {i} \cup (new.merged \ M)
        PROVE  snaps[d].conf <= best.conf /\ Joined(L, S, snaps[d].id, best.id)
    <3>1. d = j \/ d \in D
      BY Zenon, <2>3
    <3>2. CASE d \in D
      <4>1. /\ snaps[d].conf <= acc.survivor.conf /\ snaps[d].conf \in Nat
            /\ Joined(L, S, snaps[d].id, acc.survivor.id)
        BY Zenon, <1>2, <3>2 DEF Absorbed
      <4>2. Joined(L, S, snaps[d].id, snaps[j].id)
        BY Zenon, <4>1, <1>2, <2>5, JoinedStep
      <4> QED BY Zenon, <4>1, <4>2, <1>1, <2>12, <2>13
    <3>3. CASE d = j
      <4>1. Joined(L, S, snaps[j].id, snaps[j].id)
        BY Zenon, JoinedSelf
      <4>2. Joined(L, S, snaps[j].id, acc.survivor.id)
        BY Zenon, <4>1, <1>1, <2>5, JoinedStep
      <4> QED BY Zenon, <3>3, <4>1, <4>2, <2>12
    <3> QED BY Zenon, <3>1, <3>2, <3>3
  <2>9. r = i => \A q \in ((i + 1)..j) \ new.merged : ~L[snaps[i].id, snaps[q].id]
    <3> SUFFICES ASSUME r = i, NEW q \in ((i + 1)..j) \ new.merged
                 PROVE  ~L[snaps[i].id, snaps[q].id]
      BY Zenon
    <3>1. p = i /\ q \in ((i + 1)..(j - 1)) \ acc.merged
      BY <1>0, <1>3, <2>3
    <3> QED BY Zenon, <3>1 DEF Absorbed
  <2> HIDE DEF new, best, r
  <2>10. Absorbed(L, snaps, i, M, j, new, r)
    BY Zenon, <2>3, <2>4, <2>6, <2>7, <2>8, <2>9 DEF Absorbed
  <2> QED BY Zenon, <2>1, <2>10
<1> QED BY Zenon, <1>5, <1>6

(* So the invariant of the inner loop holds when it ends. *)
LEMMA AbsorbFacts ==
    ASSUME NEW snaps \in Seq(Snap), NEW L \in FuseRelations(Ids(snaps)),
           NEW i \in 1..Len(snaps), NEW M \in SUBSET (1..Len(snaps))
    PROVE  \E p : Absorbed(L, snaps, i, M, Len(snaps), Absorb(L, snaps, i, M), p)
<1> DEFINE N == Len(snaps)
           A == [survivor : Snap, merged : SUBSET (1..N)]
           a == [survivor |-> snaps[i], merged |-> M]
           F(f) == [j \in i..N |->
                      IF j = i THEN [survivor |-> snaps[i], merged |-> M]
                      ELSE IF \/ j \in f[j - 1].merged
                              \/ ~should_fuse(L, f[j - 1].survivor, snaps[j])
                           THEN f[j - 1]
                      ELSE [survivor |-> [(IF snaps[j].conf > f[j - 1].survivor.conf
                                           THEN snaps[j] ELSE f[j - 1].survivor) EXCEPT !.handover = TRUE],
                            merged |-> f[j - 1].merged \cup {j}]]
           g == [q \in (i..N) \X A |-> IF q[1] = i THEN a ELSE AbsorbTurn(L, snaps, q[1], q[2])]
           h == CHOOSE f : f = F(f)
<1>0. N \in Nat /\ i \in Nat /\ i <= N /\ i \in i..N /\ N \in i..N
  BY SeqLen
<1>1. a \in A /\ snaps[i] \in Snap
  BY Zenon, SnapAt
<1>2. ASSUME NEW j \in i..N, NEW acc \in A PROVE AbsorbTurn(L, snaps, j, acc) \in A
  <2>1. snaps[j] \in Snap /\ acc.survivor \in Snap /\ acc.merged \in SUBSET (1..N) /\ j \in 1..N
    BY <1>0, SnapAt
  <2> DEFINE best == IF snaps[j].conf > acc.survivor.conf THEN snaps[j] ELSE acc.survivor
  <2>2. best \in Snap
    BY Zenon, <2>1
  <2>3. [best EXCEPT !.handover = TRUE] \in Snap
    <3> HIDE DEF best
    <3> QED BY Zenon, <2>2 DEF Snap
  <2>4. acc.merged \cup {j} \in SUBSET (1..N)
    BY Zenon, <2>1
  <2> QED BY Zenon, <2>3, <2>4 DEF AbsorbTurn
<1>3. g \in Turns(i, N, A)
  <2> HIDE DEF a, A
  <2> QED BY Zenon, <1>1, <1>2 DEF Turns
<1>4. PICK f \in [i..N -> A] : f[i] = a /\ \A n \in i..N : n # i => f[n] = g[<<n, f[n - 1]>>]
  <2> HIDE DEF g, A, N, a
  <2>1. \E f : f \in Runs(i, N, A, a, g)
    BY Zenon, <1>0, <1>1, <1>3, LoopExists
  <2> QED BY Zenon, <2>1 DEF Runs
<1>5. f = F(f)
  <2>1. ASSUME NEW n \in i..N, n # i PROVE f[n] = AbsorbTurn(L, snaps, n, f[n - 1])
    <3>1. n - 1 \in i..N
      BY <1>0, <2>1
    <3>2. f[n - 1] \in A
      BY Zenon, <1>4, <3>1
    <3>3. g[<<n, f[n - 1]>>] = AbsorbTurn(L, snaps, n, f[n - 1])
      <4> HIDE DEF A, a
      <4> QED BY Zenon, <2>1, <3>2
    <3> QED BY Zenon, <1>4, <2>1, <3>3
  <2> HIDE DEF g, A
  <2>2. \A n \in i..N : f[n] = F(f)[n]
    BY Zenon, <1>4, <2>1 DEF AbsorbTurn
  <2> QED BY Zenon, <1>4, <2>2
<1>6. h = F(h)
  <2> HIDE DEF F
  <2> QED BY Zenon, <1>5
<1>7. Absorb(L, snaps, i, M) = h[N]
  BY Zenon DEF Absorb
<1>8. h[i] = a /\ \A n \in i..N : n # i => h[n] = AbsorbTurn(L, snaps, n, h[n - 1])
  <2> HIDE DEF h
  <2>1. \A n \in i..N : h[n] = F(h)[n]
    BY Zenon, <1>6
  <2> QED BY Zenon, <1>0, <2>1 DEF AbsorbTurn
<1> HIDE DEF h, g, F
<1> DEFINE T == {j \in i..N : \E p : Absorbed(L, snaps, i, M, j, h[j], p)}
<1>9. i \in T /\ T \in SUBSET (i..N)
  <2>1. (i + 1)..i = {}
    BY <1>0
  <2>2. snaps[i].conf \in Nat
    BY Zenon, SnapAt
  <2>3. Absorbed(L, snaps, i, M, i, a, i)
    <3>1. a.survivor = snaps[i] /\ a.merged = M /\ M \ M = {}
      BY Zenon
    <3>2. a \in [survivor : Snap, merged : SUBSET (1..Len(snaps))]
      BY Zenon, <1>1
    <3> HIDE DEF a
    <3>3. {i} \cup (a.merged \ M) = {i}
      BY Zenon, <3>1
    <3>4. /\ M \subseteq a.merged /\ a.merged \ M \subseteq (i + 1)..i
          /\ snaps[i].conf <= a.survivor.conf
          /\ Joined(L, Ids(snaps), snaps[i].id, a.survivor.id)
      BY <2>2, <3>1, JoinedSelf
    <3>5. ((i + 1)..i) \ a.merged = {}
      BY Zenon, <2>1
    <3> QED BY Zenon, <3>1, <3>2, <3>3, <3>4, <3>5 DEF Absorbed
  <2> QED BY Zenon, <1>0, <1>8, <2>3
<1>10. ASSUME NEW n \in i..N, n # i, n - 1 \in T PROVE n \in T
  <2>1. n \in (i + 1)..N
    BY <1>0, <1>10
  <2>2. PICK p : Absorbed(L, snaps, i, M, n - 1, h[n - 1], p)
    BY Zenon, <1>10
  <2>3. \E r : Absorbed(L, snaps, i, M, n, AbsorbTurn(L, snaps, n, h[n - 1]), r)
    BY Zenon, <2>1, <2>2, AbsorbTurnKeeps
  <2> QED BY Zenon, <1>8, <1>10, <2>3
<1> HIDE DEF T
<1>11. N \in T
  <2> HIDE DEF N
  <2> QED BY Zenon, <1>0, <1>9, <1>10, FromTo
<1> QED BY Zenon, <1>7, <1>11 DEF T

(* The outer loop after the turn of i.  st[k] and sv[k] are the indices the scan
   of the k-th survivor started from and ended with. *)
FusedTo(L, snaps, i, acc, st, sv) ==
    LET N == Len(snaps)
        K == Len(acc.result)
    IN  /\ acc \in [merged : SUBSET (1..N), result : Seq(Snap)]
        /\ st \in [1..K -> 1..N] /\ sv \in [1..K -> 1..N]
        /\ \A k \in 1..K :
             /\ st[k] <= i /\ st[k] <= sv[k]
             /\ acc.result[k].id = snaps[sv[k]].id
             /\ st[k] \notin acc.merged
             /\ sv[k] = st[k] \/ sv[k] \in acc.merged
             /\ sv[k] = st[k] => \A q \in ((st[k] + 1)..N) \ acc.merged :
                                   ~L[snaps[st[k]].id, snaps[q].id]
        /\ \A k, m \in 1..K : k < m =>
             /\ st[k] < st[m] /\ sv[k] # sv[m]
             /\ sv[k] = st[k] => ~L[snaps[st[k]].id, snaps[sv[m]].id]
        /\ \A t \in (1..i) \cup acc.merged : \E k \in 1..K :
             /\ snaps[t].conf <= acc.result[k].conf
             /\ Joined(L, Ids(snaps), snaps[t].id, acc.result[k].id)

FuseTurn(L, snaps, i, acc) ==
    IF i \in acc.merged THEN acc
    ELSE [merged |-> Absorb(L, snaps, i, acc.merged).merged,
          result |-> Append(acc.result, Absorb(L, snaps, i, acc.merged).survivor)]

(* One turn of the outer loop of fuse keeps the invariant of that loop. *)
LEMMA FuseTurnKeeps ==
    ASSUME NEW snaps \in Seq(Snap), NEW L \in FuseRelations(Ids(snaps)),
           NEW i \in 1..Len(snaps), NEW acc, NEW st, NEW sv,
           FusedTo(L, snaps, i - 1, acc, st, sv)
    PROVE  \E st2, sv2 : FusedTo(L, snaps, i, FuseTurn(L, snaps, i, acc), st2, sv2)
<1> DEFINE N == Len(snaps)
           K == Len(acc.result)
<1>0. /\ N \in Nat /\ i \in Nat /\ i >= 1 /\ K \in Nat
      /\ acc.merged \in SUBSET (1..N) /\ acc.result \in Seq(Snap)
      /\ acc \in [merged : SUBSET (1..N), result : Seq(Snap)]
  <2>1. acc \in [merged : SUBSET (1..N), result : Seq(Snap)]
    BY Zenon DEF FusedTo
  <2>2. acc.merged \in SUBSET (1..N) /\ acc.result \in Seq(Snap)
    BY Zenon, <2>1
  <2> QED BY <2>1, <2>2, SeqLen
<1>1. \A t \in 1..i : t = i \/ t \in 1..(i - 1)
  BY <1>0
<1>2. CASE i \in acc.merged
  <2>1. FuseTurn(L, snaps, i, acc) = acc
    BY Zenon, <1>2 DEF FuseTurn
  <2>2. \A t \in (1..i) \cup acc.merged : t \in (1..(i - 1)) \cup acc.merged
    BY Zenon, <1>1, <1>2
  <2>3. \A k \in 1..K : st[k] <= i
    <3>1. \A k \in 1..K : st[k] \in Nat /\ st[k] <= i - 1
      <4>1. st \in [1..K -> 1..N] /\ \A k \in 1..K : st[k] <= i - 1
        BY Zenon DEF FusedTo
      <4> HIDE DEF K, N
      <4> QED BY <1>0, <4>1
    <3> HIDE DEF K
    <3> QED BY <3>1, <1>0
  <2>4. FusedTo(L, snaps, i, acc, st, sv)
    BY Zenon, <2>2, <2>3 DEF FusedTo
  <2> QED BY Zenon, <2>1, <2>4
<1>3. CASE i \notin acc.merged
  <2> DEFINE a == Absorb(L, snaps, i, acc.merged)
             new == [merged |-> a.merged, result |-> Append(acc.result, a.survivor)]
             st2 == [k \in 1..(K + 1) |-> IF k <= K THEN st[k] ELSE i]
  <2>1. FuseTurn(L, snaps, i, acc) = new
    BY Zenon, <1>3 DEF FuseTurn
  <2>2. PICK p : Absorbed(L, snaps, i, acc.merged, N, a, p)
    BY Zenon, <1>0, AbsorbFacts
  <2> DEFINE sv2 == [k \in 1..(K + 1) |-> IF k <= K THEN sv[k] ELSE p]
  <2> HIDE DEF a
  <2>3. /\ a.survivor \in Snap /\ a.merged \in SUBSET (1..N) /\ acc.merged \subseteq a.merged
        /\ a.merged \ acc.merged \subseteq (i + 1)..N
        /\ p \in {i} \cup (a.merged \ acc.merged) /\ p \in 1..N /\ i <= p /\ i \notin a.merged
    <3>1. a \in [survivor : Snap, merged : SUBSET (1..N)]
      BY Zenon, <2>2 DEF Absorbed
    <3>2. a.survivor \in Snap /\ a.merged \in SUBSET (1..N)
      BY Zenon, <3>1
    <3>3. /\ acc.merged \subseteq a.merged /\ a.merged \ acc.merged \subseteq (i + 1)..N
          /\ p \in {i} \cup (a.merged \ acc.merged)
      BY Zenon, <2>2 DEF Absorbed
    <3>4. i \notin (i + 1)..N /\ \A q \in (i + 1)..N : i <= q /\ q \in 1..N
      BY <1>0
    <3> QED BY <1>3, <3>2, <3>3, <3>4, <1>0
  <2>4. /\ new.merged = a.merged /\ new.result \in Seq(Snap) /\ Len(new.result) = K + 1
        /\ \A k \in 1..K : new.result[k] = acc.result[k]
        /\ new.result[K + 1] = a.survivor
        /\ new \in [merged : SUBSET (1..N), result : Seq(Snap)]
    <3> DEFINE ap == Append(acc.result, a.survivor)
    <3>1. /\ ap \in Seq(Snap) /\ Len(ap) = K + 1 /\ \A k \in 1..K : ap[k] = acc.result[k]
          /\ ap[K + 1] = a.survivor
      BY <1>0, <2>3, SeqPut
    <3> HIDE DEF ap
    <3>2. new = [merged |-> a.merged, result |-> ap]
      BY Zenon DEF ap
    <3> HIDE DEF new
    <3> QED BY Zenon, <3>1, <3>2, <2>3
  <2>5. /\ \A k \in 1..K : st2[k] = st[k] /\ sv2[k] = sv[k] /\ k \in 1..(K + 1)
        /\ st2[K + 1] = i /\ sv2[K + 1] = p
        /\ \A k \in 1..(K + 1) : k \in 1..K \/ k = K + 1
        /\ K + 1 \in 1..(K + 1)
    BY <1>0
  <2>6. /\ st \in [1..K -> 1..N] /\ sv \in [1..K -> 1..N]
        /\ \A k \in 1..K :
             /\ st[k] <= i - 1 /\ st[k] <= sv[k]
             /\ acc.result[k].id = snaps[sv[k]].id
             /\ st[k] \notin acc.merged
             /\ sv[k] = st[k] \/ sv[k] \in acc.merged
             /\ sv[k] = st[k] => \A q \in ((st[k] + 1)..N) \ acc.merged :
                                   ~L[snaps[st[k]].id, snaps[q].id]
        /\ \A k, m \in 1..K : k < m =>
             /\ st[k] < st[m] /\ sv[k] # sv[m]
             /\ sv[k] = st[k] => ~L[snaps[st[k]].id, snaps[sv[m]].id]
        /\ \A t \in (1..(i - 1)) \cup acc.merged : \E k \in 1..K :
             /\ snaps[t].conf <= acc.result[k].conf
             /\ Joined(L, Ids(snaps), snaps[t].id, acc.result[k].id)
    BY Zenon DEF FusedTo
  <2>7. \A k \in 1..K : st[k] \in 1..N /\ sv[k] \in 1..N /\ st[k] < i /\ st[k] \notin a.merged
    <3> SUFFICES ASSUME NEW k \in 1..K
                 PROVE  st[k] \in 1..N /\ sv[k] \in 1..N /\ st[k] < i /\ st[k] \notin a.merged
      BY Zenon
    <3>1. st[k] \in 1..N /\ sv[k] \in 1..N /\ st[k] <= i - 1 /\ st[k] \notin acc.merged
      BY Zenon, <2>6
    <3>2. st[k] < i /\ st[k] \notin (i + 1)..N
      BY <3>1, <1>0
    <3> QED BY Zenon, <3>1, <3>2, <2>3
  <2>8. st2 \in [1..(K + 1) -> 1..N] /\ sv2 \in [1..(K + 1) -> 1..N]
    <3>1. \A k \in 1..(K + 1) : st2[k] \in 1..N /\ sv2[k] \in 1..N
      <4> HIDE DEF st2, sv2
      <4> QED BY Zenon, <2>3, <2>5, <2>7
    <3> QED BY Zenon, <3>1
  <2> HIDE DEF st2, sv2, new
  <2>9. ASSUME NEW k \in 1..(K + 1)
        PROVE  /\ st2[k] <= i /\ st2[k] <= sv2[k]
               /\ new.result[k].id = snaps[sv2[k]].id
               /\ st2[k] \notin new.merged
               /\ sv2[k] = st2[k] \/ sv2[k] \in new.merged
               /\ sv2[k] = st2[k] => \A q \in ((st2[k] + 1)..N) \ new.merged :
                                       ~L[snaps[st2[k]].id, snaps[q].id]
    <3>1. CASE k \in 1..K
      <4>1. st2[k] = st[k] /\ sv2[k] = sv[k] /\ new.result[k] = acc.result[k]
        BY Zenon, <2>4, <2>5, <3>1
      <4>2. st[k] <= i /\ st[k] <= sv[k] /\ st[k] \notin new.merged
        <5>1. st[k] \in 1..N /\ st[k] < i /\ st[k] \notin a.merged /\ st[k] <= sv[k]
          BY Zenon, <2>6, <2>7, <3>1
        <5> QED BY <5>1, <2>4, <1>0
      <4>3. /\ acc.result[k].id = snaps[sv[k]].id
            /\ sv[k] = st[k] \/ sv[k] \in acc.merged
            /\ sv[k] = st[k] => \A q \in ((st[k] + 1)..N) \ acc.merged :
                                  ~L[snaps[st[k]].id, snaps[q].id]
        BY Zenon, <2>6, <3>1
      <4>4. acc.merged \subseteq new.merged
        BY Zenon, <2>3, <2>4
      <4> QED BY Zenon, <4>1, <4>2, <4>3, <4>4
    <3>2. CASE k = K + 1
      <4>1. st2[k] = i /\ sv2[k] = p /\ new.result[k] = a.survivor /\ new.merged = a.merged
        BY Zenon, <2>4, <2>5, <3>2
      <4>2. /\ a.survivor.id = snaps[p].id
            /\ p = i => \A q \in ((i + 1)..N) \ a.merged : ~L[snaps[i].id, snaps[q].id]
        BY Zenon, <2>2 DEF Absorbed
      <4>3. i <= i /\ i <= p /\ i \notin a.merged /\ (p = i \/ p \in a.merged)
        BY <2>3, <1>0
      <4> QED BY Zenon, <4>1, <4>2, <4>3
    <3> QED BY Zenon, <3>1, <3>2, <2>5
  <2>10. ASSUME NEW k \in 1..(K + 1), NEW m \in 1..(K + 1), k < m
         PROVE  /\ st2[k] < st2[m] /\ sv2[k] # sv2[m]
                /\ sv2[k] = st2[k] => ~L[snaps[st2[k]].id, snaps[sv2[m]].id]
    <3>0. k \in 1..K /\ st2[k] = st[k] /\ sv2[k] = sv[k]
      BY <1>0, <2>5, <2>10
    <3>1. CASE m \in 1..K
      <4>1. st2[m] = st[m] /\ sv2[m] = sv[m]
        BY Zenon, <2>5, <3>1
      <4>2. /\ st[k] < st[m] /\ sv[k] # sv[m]
            /\ sv[k] = st[k] => ~L[snaps[st[k]].id, snaps[sv[m]].id]
        <5>1. \A u, v \in 1..K : u < v =>
                /\ st[u] < st[v] /\ sv[u] # sv[v]
                /\ sv[u] = st[u] => ~L[snaps[st[u]].id, snaps[sv[v]].id]
          BY Zenon, <2>6
        <5> QED BY Zenon, <5>1, <2>10, <3>0, <3>1
      <4> QED BY Zenon, <4>1, <4>2, <3>0
    <3>2. CASE m = K + 1
      <4>1. st2[m] = i /\ sv2[m] = p
        BY Zenon, <2>5, <3>2
      <4>2. st[k] < i /\ i <= p /\ p \notin acc.merged /\ st[k] \in 1..N
        BY Zenon, <1>3, <2>3, <2>7, <3>0
      <4>3. sv[k] # p
        <5>1. sv[k] = st[k] \/ sv[k] \in acc.merged
          BY Zenon, <2>6, <3>0
        <5>2. st[k] # p
          BY <4>2, <1>0, <2>3
        <5> QED BY Zenon, <5>1, <5>2, <4>2
      <4>4. p \in ((st[k] + 1)..N) \ acc.merged
        BY <4>2, <2>3, <1>0
      <4>5. sv[k] = st[k] => ~L[snaps[st[k]].id, snaps[p].id]
        <5>1. sv[k] = st[k] => \A q \in ((st[k] + 1)..N) \ acc.merged :
                                 ~L[snaps[st[k]].id, snaps[q].id]
          BY Zenon, <2>6, <3>0
        <5> QED BY Zenon, <5>1, <4>4
      <4> QED BY Zenon, <4>1, <4>2, <4>3, <4>5, <3>0
    <3> QED BY Zenon, <3>1, <3>2, <2>5
  <2>11. ASSUME NEW t \in (1..i) \cup new.merged
         PROVE  \E k \in 1..(K + 1) :
                  /\ snaps[t].conf <= new.result[k].conf
                  /\ Joined(L, Ids(snaps), snaps[t].id, new.result[k].id)
    <3>1. CASE t \in (1..(i - 1)) \cup acc.merged
      <4>1. PICK k \in 1..K : /\ snaps[t].conf <= acc.result[k].conf
                              /\ Joined(L, Ids(snaps), snaps[t].id, acc.result[k].id)
        BY Zenon, <2>6, <3>1
      <4>2. new.result[k] = acc.result[k] /\ k \in 1..(K + 1)
        BY Zenon, <2>4, <2>5
      <4> QED BY Zenon, <4>1, <4>2
    <3>2. CASE t \notin (1..(i - 1)) \cup acc.merged
      <4>1. t \in {i} \cup (a.merged \ acc.merged)
        BY Zenon, <1>1, <2>4, <3>2
      <4>2. /\ snaps[t].conf <= a.survivor.conf
            /\ Joined(L, Ids(snaps), snaps[t].id, a.survivor.id)
        BY Zenon, <2>2, <4>1 DEF Absorbed
      <4> QED BY Zenon, <4>2, <2>4, <2>5
    <3> QED BY Zenon, <3>1, <3>2
  <2>12. FusedTo(L, snaps, i, new, st2, sv2)
    <3> HIDE DEF K
    <3> QED BY Zenon, <2>4, <2>8, <2>9, <2>10, <2>11 DEF FusedTo
  <2> QED BY <2>1, <2>12
<1> QED BY Zenon, <1>2, <1>3

(* So the invariant of the outer loop holds when it ends. *)
LEMMA FuseFacts ==
    ASSUME NEW snaps \in Seq(Snap), NEW L \in FuseRelations(Ids(snaps))
    PROVE  \E acc, st, sv : /\ fuse(L, snaps) = acc.result
                            /\ FusedTo(L, snaps, Len(snaps), acc, st, sv)
<1> DEFINE N == Len(snaps)
           A == [merged : SUBSET (1..N), result : Seq(Snap)]
           a == [merged |-> {}, result |-> << >>]
           F(f) == [i \in 0..N |->
                      IF i = 0 THEN [merged |-> {}, result |-> << >>]
                      ELSE IF i \in f[i - 1].merged THEN f[i - 1]
                      ELSE [merged |-> Absorb(L, snaps, i, f[i - 1].merged).merged,
                            result |-> Append(f[i - 1].result,
                                              Absorb(L, snaps, i, f[i - 1].merged).survivor)]]
           g == [q \in (0..N) \X A |-> IF q[1] = 0 THEN a ELSE FuseTurn(L, snaps, q[1], q[2])]
           h == CHOOSE f : f = F(f)
<1>0. N \in Nat /\ 0 \in Nat /\ 0 <= N /\ 0 \in 0..N /\ N \in 0..N
  <2>1. N \in Nat
    BY Zenon, SeqLen
  <2> HIDE DEF N
  <2> QED BY <2>1
<1>1. a \in A
  BY Zenon, SeqNone
<1>2. ASSUME NEW i \in 1..N, NEW acc \in A PROVE FuseTurn(L, snaps, i, acc) \in A
  <2>1. acc.merged \in SUBSET (1..N) /\ acc.result \in Seq(Snap)
    BY Zenon
  <2> DEFINE b == Absorb(L, snaps, i, acc.merged)
  <2>2. PICK p : Absorbed(L, snaps, i, acc.merged, N, b, p)
    BY Zenon, <2>1, AbsorbFacts
  <2> HIDE DEF b
  <2>3. b \in [survivor : Snap, merged : SUBSET (1..N)]
    BY Zenon, <2>2 DEF Absorbed
  <2>4. b.survivor \in Snap /\ b.merged \in SUBSET (1..N)
    BY Zenon, <2>3
  <2>5. Append(acc.result, b.survivor) \in Seq(Snap)
    BY Zenon, <2>1, <2>4, SeqPut
  <2> QED BY Zenon, <2>4, <2>5 DEF FuseTurn, b
<1>3. g \in Turns(0, N, A)
  <2>1. ASSUME NEW i \in 0..N, i # 0 PROVE i \in 1..N
    BY <1>0, <2>1
  <2> HIDE DEF a, A
  <2> QED BY Zenon, <1>1, <1>2, <2>1 DEF Turns
<1>4. PICK f \in [0..N -> A] : f[0] = a /\ \A n \in 0..N : n # 0 => f[n] = g[<<n, f[n - 1]>>]
  <2> HIDE DEF g, A, N, a
  <2>1. \E f : f \in Runs(0, N, A, a, g)
    BY Zenon, <1>0, <1>1, <1>3, LoopExists
  <2> QED BY Zenon, <2>1 DEF Runs
<1>5. f = F(f)
  <2>1. ASSUME NEW n \in 0..N, n # 0 PROVE f[n] = FuseTurn(L, snaps, n, f[n - 1])
    <3>1. n - 1 \in 0..N
      BY <1>0, <2>1
    <3>2. f[n - 1] \in A
      BY Zenon, <1>4, <3>1
    <3>3. g[<<n, f[n - 1]>>] = FuseTurn(L, snaps, n, f[n - 1])
      <4> HIDE DEF A, a
      <4> QED BY Zenon, <2>1, <3>2
    <3> QED BY Zenon, <1>4, <2>1, <3>3
  <2> HIDE DEF g, A
  <2>2. \A n \in 0..N : f[n] = F(f)[n]
    BY Zenon, <1>4, <2>1 DEF FuseTurn
  <2> QED BY Zenon, <1>4, <2>2
<1>6. h = F(h)
  <2> HIDE DEF F
  <2> QED BY Zenon, <1>5
<1>7. fuse(L, snaps) = h[N].result
  BY Zenon DEF fuse
<1>8. h[0] = a /\ \A n \in 0..N : n # 0 => h[n] = FuseTurn(L, snaps, n, h[n - 1])
  <2> HIDE DEF h
  <2>1. \A n \in 0..N : h[n] = F(h)[n]
    BY Zenon, <1>6
  <2> QED BY Zenon, <1>0, <2>1 DEF FuseTurn
<1> HIDE DEF h, g, F
<1> DEFINE T == {i \in 0..N : \E st, sv : FusedTo(L, snaps, i, h[i], st, sv)}
<1>9. 0 \in T /\ T \in SUBSET (0..N)
  <2> DEFINE none == [k \in 1..0 |-> 1]
  <2>1. a.merged = {} /\ a.result = << >> /\ Len(<< >>) = 0 /\ 1..0 = {}
    OBVIOUS
  <2>2. none \in [1..0 -> 1..N]
    OBVIOUS
  <2>3. FusedTo(L, snaps, 0, a, none, none)
    <3> HIDE DEF a, none
    <3> QED BY Zenon, <1>1, <2>1, <2>2 DEF FusedTo
  <2> HIDE DEF none
  <2> QED BY <1>0, <1>8, <2>3
<1>10. ASSUME NEW n \in 0..N, n # 0, n - 1 \in T PROVE n \in T
  <2>1. n \in 1..N
    BY <1>0, <1>10
  <2>2. PICK st, sv : FusedTo(L, snaps, n - 1, h[n - 1], st, sv)
    BY Zenon, <1>10
  <2>3. \E st2, sv2 : FusedTo(L, snaps, n, FuseTurn(L, snaps, n, h[n - 1]), st2, sv2)
    BY Zenon, <2>1, <2>2, FuseTurnKeeps
  <2> QED BY <1>8, <1>10, <2>3
<1> HIDE DEF T
<1>11. N \in T
  <2> HIDE DEF N
  <2> QED BY Zenon, <1>0, <1>9, <1>10, FromTo
<1> QED BY Zenon, <1>7, <1>11 DEF T

(* What fuse makes of the tracks shown. *)
LEMMA FuseStep == ASSUME TracksInv, Fuse PROVE TracksInv'
<1> DEFINE N == Len(tracks)
           snaps == [i \in 1..N |-> Snapshot(tracks[i])]
<1>0. /\ tracks \in Seq(TrackState) /\ IdsAscend(tracks) /\ N \in Nat
      /\ \A i \in 1..N : tracks[i] \in TrackState
      /\ UNCHANGED <<states, nextTrack, tracks>>
  BY Zenon, SeqLen, SeqElement DEF TracksInv, Fuse
<1>1. \A i \in 1..N : /\ tracks[i].id \in Nat /\ tracks[i].hits \in Nat
                       /\ Snapshot(tracks[i]) \in Snap
                       /\ Snapshot(tracks[i]).id = tracks[i].id
                       /\ Snapshot(tracks[i]).conf = tracks[i].hits
  BY Zenon, <1>0 DEF TrackState, Snapshot, Snap
<1>2. snaps \in Seq(Snap) /\ Len(snaps) = N
  <2>1. snaps \in [1..N -> Snap]
    BY Zenon, <1>1
  <2> HIDE DEF snaps, N
  <2> QED BY Zenon, <1>0, <2>1, SeqMade, SeqLen
<1>3. \A i \in 1..N : snaps[i].id = tracks[i].id /\ snaps[i].conf = tracks[i].hits
  BY Zenon, <1>1
<1> HIDE DEF snaps
<1>4. Ids(snaps) = Ids(tracks)
  BY Zenon, <1>2, <1>3 DEF Ids
<1>5. PICK L \in FuseRelations(Ids(snaps)) : link' = L /\ fused' = fuse(L, snaps)
  BY Zenon, <1>4 DEF Fuse, snaps
<1>6. PICK acc, st, sv : /\ fuse(L, snaps) = acc.result
                         /\ FusedTo(L, snaps, Len(snaps), acc, st, sv)
  BY Zenon, <1>2, FuseFacts
<1> DEFINE K == Len(fused')
<1>7. /\ acc.result = fused' /\ acc.result \in Seq(Snap) /\ K \in Nat
      /\ st \in [1..K -> 1..N] /\ sv \in [1..K -> 1..N]
      /\ \A k \in 1..K :
           /\ st[k] <= sv[k]
           /\ fused'[k].id = tracks[sv[k]].id
           /\ st[k] \notin acc.merged
           /\ sv[k] = st[k] \/ sv[k] \in acc.merged
      /\ \A k, m \in 1..K : k < m =>
           /\ st[k] < st[m] /\ sv[k] # sv[m]
           /\ sv[k] = st[k] => ~L[tracks[st[k]].id, tracks[sv[m]].id]
      /\ \A t \in 1..N : \E k \in 1..K :
           /\ tracks[t].hits <= fused'[k].conf
           /\ Joined(L, Ids(tracks), tracks[t].id, fused'[k].id)
  <2>1. acc.result = fused'
    BY Zenon, <1>5, <1>6
  <2>2. acc \in [merged : SUBSET (1..Len(snaps)), result : Seq(Snap)]
    BY Zenon, <1>6 DEF FusedTo
  <2>3. acc.result \in Seq(Snap)
    BY Zenon, <2>2
  <2>4. K \in Nat
    BY Zenon, <2>1, <2>3, SeqLen
  <2>5. /\ st \in [1..K -> 1..N] /\ sv \in [1..K -> 1..N]
        /\ \A k \in 1..K :
             /\ st[k] <= sv[k]
             /\ fused'[k].id = snaps[sv[k]].id
             /\ st[k] \notin acc.merged
             /\ sv[k] = st[k] \/ sv[k] \in acc.merged
        /\ \A k, m \in 1..K : k < m =>
             /\ st[k] < st[m] /\ sv[k] # sv[m]
             /\ sv[k] = st[k] => ~L[snaps[st[k]].id, snaps[sv[m]].id]
        /\ \A t \in 1..N : \E k \in 1..K :
             /\ snaps[t].conf <= fused'[k].conf
             /\ Joined(L, Ids(snaps), snaps[t].id, fused'[k].id)
    BY Zenon, <1>2, <1>6, <2>1 DEF FusedTo
  <2>6. \A k \in 1..K : st[k] \in 1..N /\ sv[k] \in 1..N
    BY Zenon, <2>5
  <2> HIDE DEF K, N
  <2> QED BY Zenon, <1>3, <1>4, <2>1, <2>3, <2>4, <2>5, <2>6
<1> HIDE DEF K
<1>7a. K \in Nat /\ \A i, j \in 1..K : i # j => i < j \/ j < i
  <2>1. K \in Nat
    BY Zenon, <1>7
  <2> QED BY <2>1
<1>7b. \A k \in 1..K : fused'[k].id = tracks[sv[k]].id
  BY Zenon, <1>7
<1>7c. \A k, m \in 1..K : k < m =>
         /\ st[k] < st[m] /\ sv[k] # sv[m]
         /\ sv[k] = st[k] => ~L[tracks[st[k]].id, tracks[sv[m]].id]
  BY Zenon, <1>7
<1>7d. \A k \in 1..K : st[k] <= sv[k] /\ st[k] \notin acc.merged
                        /\ (sv[k] = st[k] \/ sv[k] \in acc.merged)
  BY Zenon, <1>7
<1>8. ASSUME NEW i \in 1..N, NEW j \in 1..N, i # j PROVE tracks[i].id # tracks[j].id
  <2>1. i < j \/ j < i
    BY <1>0, <1>8
  <2>2. tracks[i].id < tracks[j].id \/ tracks[j].id < tracks[i].id
    BY Zenon, <1>0, <2>1 DEF IdsAscend
  <2> QED BY <1>1, <2>2
<1>9. \A k \in 1..K : st[k] \in 1..N /\ sv[k] \in 1..N
  BY Zenon, <1>7
<1>10. ASSUME NEW i \in 1..K, NEW j \in 1..K, i # j PROVE fused'[i].id # fused'[j].id
  <2>1. i < j \/ j < i
    BY Zenon, <1>7a, <1>10
  <2>2. sv[i] # sv[j]
    BY Zenon, <1>7c, <2>1
  <2>3. tracks[sv[i]].id # tracks[sv[j]].id
    BY Zenon, <1>8, <1>9, <2>2
  <2> QED BY Zenon, <1>7b, <2>3
<1>11. ASSUME NEW i \in 1..K, NEW j \in 1..K, i < j, L[fused'[i].id, fused'[j].id]
       PROVE  \E k \in 1..N : tracks[k].id < fused'[i].id /\ tracks[k].id \notin Ids(fused')
  <2>1. sv[i] # st[i]
    <3>1. fused'[i].id = tracks[sv[i]].id /\ fused'[j].id = tracks[sv[j]].id
      BY Zenon, <1>7b
    <3>2. sv[i] = st[i] => ~L[tracks[st[i]].id, tracks[sv[j]].id]
      BY Zenon, <1>7c, <1>11
    <3> QED BY Zenon, <1>11, <3>1, <3>2
  <2>2. st[i] < sv[i] /\ st[i] \in 1..N /\ sv[i] \in 1..N
    <3>1. st[i] \in 1..N /\ sv[i] \in 1..N /\ st[i] <= sv[i]
      BY Zenon, <1>7d, <1>9
    <3> QED BY <1>0, <2>1, <3>1
  <2>3. tracks[st[i]].id < fused'[i].id
    BY Zenon, <1>0, <1>7b, <2>2 DEF IdsAscend
  <2>4. ASSUME NEW m \in 1..K PROVE st[i] # sv[m]
    <3>1. CASE sv[m] \in acc.merged
      BY Zenon, <1>7d, <3>1
    <3>2. CASE sv[m] = st[m]
      <4>1. m # i
        BY Zenon, <2>1, <3>2
      <4>2. m < i \/ i < m
        BY Zenon, <1>7a, <4>1
      <4>3. st[m] < st[i] \/ st[i] < st[m]
        BY Zenon, <1>7c, <4>2
      <4> QED BY <1>0, <1>9, <3>2, <4>3
    <3> QED BY Zenon, <1>7d, <3>1, <3>2
  <2>5. ASSUME NEW m \in 1..K PROVE tracks[st[i]].id # fused'[m].id
    <3>1. st[i] \in 1..N /\ sv[m] \in 1..N /\ st[i] # sv[m]
      BY Zenon, <1>9, <2>4
    <3>2. tracks[st[i]].id # tracks[sv[m]].id
      BY Zenon, <1>8, <3>1
    <3> QED BY Zenon, <1>7b, <3>2
  <2>6. tracks[st[i]].id \notin Ids(fused')
    BY Zenon, <2>5 DEF Ids, K
  <2> QED BY Zenon, <2>2, <2>3, <2>6
<1>12. ASSUME NEW t \in 1..N
       PROVE  \E k \in 1..K : /\ Joined(L, Ids(tracks), tracks[t].id, fused'[k].id)
                               /\ fused'[k].conf >= tracks[t].hits
  <2>1. PICK k \in 1..K : /\ tracks[t].hits <= fused'[k].conf
                          /\ Joined(L, Ids(tracks), tracks[t].id, fused'[k].id)
    BY Zenon, <1>7
  <2>2. fused'[k] \in Snap
    BY Zenon, <1>7, SeqElement DEF K
  <2>3. fused'[k].conf \in Nat
    BY Zenon, <2>2 DEF Snap
  <2> QED BY Zenon, <1>1, <2>1, <2>3
<1>13. FusionKeepsBest'
  <2>1. Ids(tracks') = Ids(tracks) /\ tracks' = tracks /\ link' = L
    BY Zenon, <1>0, <1>5
  <2>2. /\ \A i, j \in 1..Len(fused') : i # j => fused'[i].id # fused'[j].id
        /\ \A i \in 1..Len(tracks) : \E k \in 1..Len(fused') :
             /\ Joined(L, Ids(tracks), tracks[i].id, fused'[k].id)
             /\ fused'[k].conf >= tracks[i].hits
        /\ \A i, j \in 1..Len(fused') :
             i < j /\ should_fuse(L, fused'[i], fused'[j])
               => \E k \in 1..Len(tracks) :
                    tracks[k].id < fused'[i].id /\ tracks[k].id \notin Ids(fused')
    BY Zenon, <1>10, <1>11, <1>12 DEF K, should_fuse
  <2> QED BY Zenon, <2>1, <2>2 DEF FusionKeepsBest
<1> QED BY Zenon, <1>0, <1>13 DEF TracksInv, StatesSound

(* A call of process_plots. *)
LEMMA PlotsStep ==
    ASSUME TracksInv, NEW n \in 0..MaxPlots, process_plots(n) PROVE TracksInv'
<1> DEFINE N == Len(states)
<1>0. states \in Seq(TrackState) /\ nextTrack = N + 1 /\ N \in Nat /\ n \in Nat
      /\ \A i \in 1..N : states[i] \in TrackState /\ states[i].id = i /\ Earned(states[i])
  BY TracksAssumption, SeqLen, SeqElement DEF TracksInv, StatesSound
<1>1a. PICK born \in 0..n : \E M \in Associations(n, born) :
        LET kept == [i \in 1..N |-> IF i \in M THEN Hit(states[i]) ELSE Miss(states[i])]
            all == kept \o [k \in 1..born |-> NewTrack(nextTrack + k - 1)]
        IN /\ states' = all
           /\ nextTrack' = nextTrack + born
           /\ tracks' = sync_snapshots(all)
           /\ fused' = << >>
  BY Zenon DEF process_plots
<1>1. PICK M \in Associations(n, born) :
        LET kept == [i \in 1..N |-> IF i \in M THEN Hit(states[i]) ELSE Miss(states[i])]
            all == kept \o [k \in 1..born |-> NewTrack(nextTrack + k - 1)]
        IN /\ states' = all
           /\ nextTrack' = nextTrack + born
           /\ tracks' = sync_snapshots(all)
           /\ fused' = << >>
  BY Zenon, <1>1a
<1> DEFINE kept == [i \in 1..N |-> IF i \in M THEN Hit(states[i]) ELSE Miss(states[i])]
           fresh == [k \in 1..born |-> NewTrack(nextTrack + k - 1)]
           all == kept \o fresh
<1>2. states' = all /\ nextTrack' = nextTrack + born /\ tracks' = sync_snapshots(all)
      /\ fused' = << >>
  BY Zenon, <1>1
<1>3. born \in Nat
  BY <1>0
<1>4. kept \in Seq(TrackState) /\ Len(kept) = N
      /\ \A i \in 1..N : kept[i].id = i /\ Earned(kept[i])
  <2>1. \A i \in 1..N : /\ kept[i] \in TrackState /\ kept[i].id = i /\ Earned(kept[i])
    <3> SUFFICES ASSUME NEW i \in 1..N
                 PROVE  kept[i] \in TrackState /\ kept[i].id = i /\ Earned(kept[i])
      BY Zenon
    <3>1. states[i] \in TrackState /\ states[i].id = i /\ Earned(states[i])
      BY Zenon, <1>0
    <3>2. kept[i] = Hit(states[i]) \/ kept[i] = Miss(states[i])
      BY Zenon
    <3> HIDE DEF kept
    <3> QED BY Zenon, <3>1, <3>2, HitMiss
  <2>2. kept \in [1..N -> TrackState]
    BY Zenon, <2>1
  <2> HIDE DEF kept, N
  <2> QED BY Zenon, <1>0, <2>1, <2>2, SeqMade, SeqLen
<1>5. fresh \in Seq(TrackState) /\ Len(fresh) = born
      /\ \A k \in 1..born : fresh[k].id = N + k /\ Earned(fresh[k])
  <2> HIDE DEF N
  <2>1. \A k \in 1..born : fresh[k] = NewTrack(N + k) /\ N + k \in Nat
    BY <1>0, <1>3
  <2>2. \A id \in Nat : /\ NewTrack(id) \in TrackState /\ NewTrack(id).id = id
                        /\ Earned(NewTrack(id))
    BY DEF NewTrack, TrackState, Lives, Earned
  <2>3. fresh \in [1..born -> TrackState]
    BY Zenon, <2>1, <2>2
  <2> HIDE DEF fresh
  <2> QED BY <1>3, <2>1, <2>2, <2>3, SeqMade, SeqLen
<1> HIDE DEF kept, fresh
<1>6. /\ all \in Seq(TrackState) /\ Len(all) = N + born
      /\ \A i \in 1..(N + born) : all[i] = IF i <= N THEN kept[i] ELSE fresh[i - N]
  <2>1. /\ all \in Seq(TrackState) /\ Len(all) = Len(kept) + Len(fresh)
        /\ \A i \in 1..(Len(kept) + Len(fresh)) :
             all[i] = IF i <= Len(kept) THEN kept[i] ELSE fresh[i - Len(kept)]
    BY ZenonT(30), <1>4, <1>5, SeqJoined
  <2> HIDE DEF all
  <2> QED BY Zenon, <1>4, <1>5, <2>1
<1>7. \A i \in 1..Len(all) : all[i].id = i /\ Earned(all[i])
  <2> SUFFICES ASSUME NEW i \in 1..(N + born) PROVE all[i].id = i /\ Earned(all[i])
    BY Zenon, <1>6
  <2> HIDE DEF N
  <2>1. CASE i <= N
    <3>1. i \in 1..N /\ all[i] = kept[i]
      BY <1>0, <1>3, <1>6, <2>1
    <3> QED BY Zenon, <3>1, <1>4
  <2>2. CASE ~(i <= N)
    <3>1. i - N \in 1..born /\ all[i] = fresh[i - N] /\ N + (i - N) = i
      BY <1>0, <1>3, <1>6, <2>2
    <3> QED BY Zenon, <3>1, <1>5
  <2> QED BY Zenon, <2>1, <2>2
<1> HIDE DEF all
<1>8. IdsAscend(all)
  BY Zenon, <1>7 DEF IdsAscend
<1>9. sync_snapshots(all) \in Seq(TrackState) /\ IdsAscend(sync_snapshots(all))
  BY Zenon, <1>6, <1>8, ShownFacts
<1>10. StatesSound'
  <2>1. nextTrack' = Len(states') + 1
    <3> HIDE DEF N
    <3> QED BY <1>0, <1>2, <1>3, <1>6
  <2> QED BY Zenon, <1>2, <1>6, <1>7, <2>1 DEF StatesSound
<1>11. FusionKeepsBest'
  BY Zenon, <1>2 DEF FusionKeepsBest
<1> QED BY Zenon, <1>2, <1>9, <1>10, <1>11 DEF TracksInv

(* Without tracks the invariant holds. *)
LEMMA TracksStart == TracksInit => TracksInv
<1> SUFFICES ASSUME TracksInit PROVE TracksInv
  BY Zenon
<1>1. << >> \in Seq(TrackState) /\ Len(<< >>) = 0
  BY Zenon, SeqNone
<1> QED BY <1>1 DEF TracksInit, TracksInv, StatesSound, IdsAscend, FusionKeepsBest

(* Every call of process_plots and of fuse keeps the invariant. *)
LEMMA TracksStep == TracksInv /\ [TracksNext]_trackVars => TracksInv'
<1> SUFFICES ASSUME TracksInv, [TracksNext]_trackVars PROVE TracksInv'
  BY Zenon
<1>1. CASE \E n \in 0..MaxPlots : process_plots(n)
  BY Zenon, <1>1, PlotsStep
<1>2. CASE Fuse
  BY Zenon, <1>2, FuseStep
<1>3. CASE UNCHANGED trackVars
  BY ZenonT(30), <1>3 DEF trackVars, TracksInv, StatesSound, FusionKeepsBest
<1> QED BY <1>1, <1>2, <1>3 DEF TracksNext

(* The invariant holds in every reachable state. *)
LEMMA TracksInvariant == TracksSpec => []TracksInv
BY TracksStart, TracksStep, PTL DEF TracksSpec

(* Whatever the thresholds and the numbers of plots, a CONFIRMED track was hit
   confirm_hits times or coasted first. *)
THEOREM ConfirmationIsEarned == TracksSpec => []ConfirmedEarned
<1>1. TracksInv => ConfirmedEarned
  BY Zenon DEF TracksInv, StatesSound, Earned, ConfirmedEarned
<1> QED BY <1>1, TracksInvariant, PTL

(* Whatever should_fuse answers, and for any number of tracks, fuse keeps a
   survivor as confident as each track, joined to it, and none twice. *)
THEOREM FusionIsSound == TracksSpec => []FusionKeepsBest
<1>1. TracksInv => FusionKeepsBest
  BY Zenon DEF TracksInv
<1> QED BY <1>1, TracksInvariant, PTL

----------------------------------------------------------------------------
(***************************************************************************)
(* HmiSessionManager, OutputThrottle and UdpSender: who counts as alive    *)
(* after a sweep, in which order frames are sent, and what a payload       *)
(* decodes to.                                                             *)
(***************************************************************************)
(* The times of the sessions and of the last sweep lie in the past. *)
TimesPast ==
    /\ now \in Nat /\ sweptAt \in Nat /\ sweptAt <= now /\ now <= LastTime
    /\ sessions \in [DOMAIN sessions -> [last : Nat, alive : BOOLEAN]]
    /\ \A s \in DOMAIN sessions : sessions[s].last <= now

(* The inductive invariant of the sessions. *)
SessionsInv == TimesPast /\ AliveIsFresh

----------------------------------------------------------------------------
(* No session is known when the session manager is made. *)
LEMMA SessionsStart == GatewayInit => SessionsInv
BY GatewayAssumption DEF GatewayInit, SessionsInv, TimesPast, AliveIsFresh

(* A pong, a sweep or a tick keeps the sessions' times and flags together. *)
LEMMA SessionsStep == SessionsInv /\ [GatewayNext]_gatewayVars => SessionsInv'
<1> SUFFICES ASSUME SessionsInv, [GatewayNext]_gatewayVars PROVE SessionsInv'
  BY Zenon
<1> USE GatewayAssumption DEF SessionsInv, TimesPast, AliveIsFresh
<1>1. ASSUME NEW seq, NEW list, SendFrame(seq, list) PROVE SessionsInv'
  BY Zenon, <1>1 DEF SendFrame
<1>2. ASSUME NEW s \in Sessions, upsert(s) PROVE SessionsInv'
  BY <1>2 DEF upsert
<1>3. ASSUME NEW s \in Sessions, mark_pong(s) PROVE SessionsInv'
  BY <1>3 DEF mark_pong
<1>4. CASE sweep_timeouts
  <2>1. DOMAIN sessions' = DOMAIN sessions /\ now' = now /\ sweptAt' = now
    BY Zenon, <1>4 DEF sweep_timeouts
  <2>2. \A s \in DOMAIN sessions :
           /\ sessions'[s].last = sessions[s].last
           /\ sessions'[s].alive =
                (sessions[s].alive /\ (sessions[s].last + timeout_ns) % Span >= now)
           /\ sessions'[s] \in [last : Nat, alive : BOOLEAN]
    BY Zenon, <1>4 DEF sweep_timeouts
  <2>3. TimesPast'
    <3>1. sessions' = [s \in DOMAIN sessions |-> sessions'[s]]
      BY Zenon, <1>4 DEF sweep_timeouts
    <3>2. sessions' \in [DOMAIN sessions -> [last : Nat, alive : BOOLEAN]]
      BY Zenon, <2>2, <3>1
    <3> QED
      BY <2>1, <2>2, <3>2
  <2>4. \A n \in Nat : n < Span => n % Span = n
    OBVIOUS
  <2>5. AliveIsFresh'
    BY <2>1, <2>2, <2>4
  <2> QED
    BY Zenon, <2>3, <2>5
<1>5. CASE TimePasses
  BY <1>5 DEF TimePasses
<1>6. CASE UNCHANGED gatewayVars
  BY Zenon, <1>6 DEF gatewayVars
<1> QED
  BY Zenon, <1>1, <1>2, <1>3, <1>4, <1>5, <1>6 DEF GatewayNext

(***************************************************************************)
(* A session is alive after a sweep exactly when it answered within        *)
(* timeout_ns, for every timeout, range of the clock and set of sessions.  *)
(***************************************************************************)
THEOREM AliveMeansAnswered == GatewaySpec => []AliveIsFresh
<1>1. SessionsInv => AliveIsFresh
  BY Zenon DEF SessionsInv
<1> QED
  BY <1>1, SessionsStart, SessionsStep, PTL DEF GatewaySpec

----------------------------------------------------------------------------
(* The frames serialize is given. *)
Frames == [seq : Nat, cut : BOOLEAN, dropped : Nat, list : Seq(Nat)]

(* The fields of a payload, by their place. *)
LEMMA SerializeFacts ==
    ASSUME NEW f \in Frames
    PROVE  LET p == serialize(f)
           IN  /\ Len(f.list) \in Nat /\ Len(p) = 4 + Len(f.list)
               /\ p[1] = f.seq /\ p[2] = Len(f.list) /\ p[3] = f.cut /\ p[4] = f.dropped
               /\ \A i \in 1..Len(f.list) : p[4 + i] = f.list[i]
               /\ p \in Seq(Nat \cup BOOLEAN)
<1> DEFINE h == <<f.seq, Len(f.list), f.cut, f.dropped>>
           l == Len(f.list)
           p == serialize(f)
<1>0. f.seq \in Nat /\ f.cut \in BOOLEAN /\ f.dropped \in Nat /\ f.list \in Seq(Nat)
  BY Zenon DEF Frames
<1>1. l \in Nat /\ f.list \in [1..l -> Nat]
  BY Zenon, <1>0, SeqLen
<1>2. PICK V : V = Nat \cup BOOLEAN
  BY Zenon
<1>3. h \in Seq(V) /\ Len(h) = 4
  BY <1>0, <1>1, <1>2
<1>4. f.list \in Seq(V)
  <2>1. f.list \in [1..l -> V]
    BY Zenon, <1>1, <1>2
  <2> HIDE DEF l
  <2> QED BY Zenon, <1>1, <2>1, SeqMade
<1>5. h[1] = f.seq /\ h[2] = l /\ h[3] = f.cut /\ h[4] = f.dropped
  BY Zenon
<1>6. p = h \o f.list
  BY Zenon DEF serialize
<1> HIDE DEF h, p
<1>7. /\ p \in Seq(V) /\ Len(p) = Len(h) + l
      /\ \A i \in 1..Len(h) + l : p[i] = IF i <= Len(h) THEN h[i] ELSE f.list[i - Len(h)]
  BY Zenon, <1>3, <1>4, <1>6, SeqJoined
<1> HIDE DEF l
<1>8. Len(p) = 4 + l
  BY Zenon, <1>3, <1>7
<1>9. \A i \in 1..(4 + l) : p[i] = IF i <= 4 THEN h[i] ELSE f.list[i - 4]
  BY Zenon, <1>3, <1>7
<1>10. p[1] = h[1] /\ p[2] = h[2] /\ p[3] = h[3] /\ p[4] = h[4]
  <2>1. 1 \in 1..(4 + l) /\ 2 \in 1..(4 + l) /\ 3 \in 1..(4 + l) /\ 4 \in 1..(4 + l)
    BY <1>1
  <2> QED BY <2>1, <1>9
<1>11. ASSUME NEW i \in 1..l PROVE p[4 + i] = f.list[i]
  <2>1. 4 + i \in 1..(4 + l) /\ ~(4 + i <= 4) /\ (4 + i) - 4 = i
    BY <1>1
  <2> QED BY Zenon, <2>1, <1>9
<1> QED BY <1>1, <1>2, <1>5, <1>7, <1>8, <1>10, <1>11 DEF p, l

(* A payload decodes to its frame, and what is cut short to nothing. *)
LEMMA RoundTrip ==
    ASSUME NEW f \in Frames
    PROVE  LET p == serialize(f)
           IN  /\ deserialize(p) = {f}
               /\ \A n \in 0 .. Len(p) - 1 : deserialize(SubSeq(p, 1, n)) = {}
<1> DEFINE p == serialize(f)
           l == Len(f.list)
<1>1. /\ l \in Nat /\ Len(p) = 4 + l
      /\ p[1] = f.seq /\ p[2] = l /\ p[3] = f.cut /\ p[4] = f.dropped
      /\ \A i \in 1..l : p[4 + i] = f.list[i]
      /\ p \in Seq(Nat \cup BOOLEAN)
  BY Zenon, SerializeFacts
<1>0. f.list \in Seq(Nat)
  BY Zenon DEF Frames
<1> HIDE DEF p
<1>2. SubSeq(p, 5, 4 + l) = f.list
  <2>1. f.list \in [1..l -> Nat] /\ l \in Nat
    BY Zenon, <1>0, <1>1, SeqLen
  <2> HIDE DEF l
  <2>2. ASSUME NEW i \in 5..(4 + l) PROVE p[i] \in Nat
    <3>1. i - 4 \in 1..l /\ 4 + (i - 4) = i
      BY <2>1
    <3>2. p[4 + (i - 4)] = f.list[i - 4]
      BY Zenon, <1>1, <3>1
    <3> QED BY Zenon, <2>1, <3>1, <3>2
  <2>3. 5 \in Int /\ 4 + l \in Int
    BY <2>1
  <2>4. /\ SubSeq(p, 5, 4 + l) \in Seq(Nat)
        /\ Len(SubSeq(p, 5, 4 + l)) = IF 5 <= 4 + l THEN (4 + l) - 5 + 1 ELSE 0
        /\ \A i \in 1..(4 + l) - 5 + 1 : SubSeq(p, 5, 4 + l)[i] = p[5 + i - 1]
    BY <2>2, <2>3, SeqPart
  <2>5. Len(SubSeq(p, 5, 4 + l)) = l /\ (4 + l) - 5 + 1 = l
    BY <2>1, <2>4
  <2>6. ASSUME NEW i \in 1..l PROVE SubSeq(p, 5, 4 + l)[i] = f.list[i]
    <3>1. 5 + i - 1 = 4 + i
      OBVIOUS
    <3> QED BY <3>1, <1>1, <2>4, <2>5
  <2> QED BY Zenon, <2>4, <2>5, <2>6, <1>0, SeqSame DEF l
<1> HIDE DEF l
<1>3. deserialize(p) = {f}
  <2>1. ~(Len(p) < 4 \/ Len(p) < 4 + p[2])
    BY <1>1
  <2>2. deserialize(p) = {[seq |-> f.seq, cut |-> f.cut, dropped |-> f.dropped, list |-> f.list]}
    BY Zenon, <2>1, <1>1, <1>2 DEF deserialize
  <2> QED BY Zenon, <2>2 DEF Frames
<1>4. ASSUME NEW n \in 0 .. Len(p) - 1 PROVE deserialize(SubSeq(p, 1, n)) = {}
  <2> DEFINE q == SubSeq(p, 1, n)
  <2>1. n \in Nat /\ n < 4 + l
    BY <1>1
  <2>2. \A i \in 1..n : p[i] \in Nat \cup BOOLEAN
    <3>1. \A i \in 1..n : i \in 1..Len(p)
      BY <1>1, <2>1
    <3> QED BY Zenon, <3>1, <1>1, SeqElement
  <2>3. Len(q) = n /\ \A i \in 1..n : q[i] = p[i]
    <3>1. 1 \in Int /\ n \in Int
      BY <2>1
    <3>2. /\ Len(q) = IF 1 <= n THEN n - 1 + 1 ELSE 0
          /\ \A i \in 1..n - 1 + 1 : q[i] = p[1 + i - 1]
      BY <2>2, <3>1, SeqPart
    <3> HIDE DEF q
    <3>3. n - 1 + 1 = n /\ \A i \in 1..n : 1 + i - 1 = i
      BY <2>1
    <3>4. Len(q) = n
      BY <2>1, <3>2
    <3> QED BY Zenon, <3>2, <3>3, <3>4
  <2> HIDE DEF q
  <2>4. Len(q) < 4 \/ Len(q) < 4 + q[2]
    <3>1. CASE n < 4
      BY Zenon, <3>1, <2>3
    <3>2. CASE ~(n < 4)
      <4>1. q[2] = l
        BY <3>2, <2>1, <2>3, <1>1
      <4> QED BY Zenon, <4>1, <2>1, <2>3
    <3> QED BY Zenon, <3>1, <3>2
  <2>5. deserialize(q) = {}
    BY Zenon, <2>4 DEF deserialize
  <2> QED BY Zenon, <2>5 DEF q
<1> QED BY Zenon, <1>3, <1>4 DEF p

(* How many tracks have confidence c or more. *)
Above(l, c) == Cardinality({i \in DOMAIN l : l[i] >= c})

(* The numbers from 1 to n are n. *)
LEMMA CountTo ==
    ASSUME NEW n \in Nat
    PROVE  IsFiniteSet(1..n) /\ Cardinality(1..n) = n
<1>1. 1 \in Int /\ n \in Int
  OBVIOUS
<1> QED BY <1>1, FS_Interval

(* Sorting changes the order of the tracks and nothing else. *)
LEMMA SortedFacts ==
    ASSUME NEW n \in Nat, NEW list \in [1..n -> Nat], NEW s \in Sorted(list)
    PROVE  /\ s \in [1..n -> Nat]
           /\ \A i, j \in 1..n : i < j => s[i] >= s[j]
           /\ \A c \in Nat : Above(s, c) = Above(list, c)
<1>1. DOMAIN list = 1..n
  BY Zenon
<1>2. PICK p \in Bijection(1..n, 1..n) : s = [i \in 1..n |-> list[p[i]]]
  BY Zenon, <1>1 DEF Sorted
<1>3. \A i, j \in 1..n : i < j => s[i] >= s[j]
  BY Zenon, <1>1 DEF Sorted
<1>4. /\ p \in [1..n -> 1..n]
      /\ \A i, j \in 1..n : p[i] = p[j] => i = j
      /\ \A j \in 1..n : \E i \in 1..n : p[i] = j
  BY Zenon, <1>2 DEF Bijection, Injection, Surjection, IsInjective
<1>5. s \in [1..n -> Nat] /\ \A i \in 1..n : s[i] = list[p[i]]
  BY Zenon, <1>2, <1>4
<1>6. ASSUME NEW c \in Nat PROVE Above(s, c) = Above(list, c)
  <2> DEFINE S == {i \in 1..n : s[i] >= c}
             T == {i \in 1..n : list[i] >= c}
             q == [i \in S |-> p[i]]
  <2>1. q \in [S -> T]
    BY Zenon, <1>4, <1>5
  <2>2. \A i, j \in S : q[i] = q[j] => i = j
    BY Zenon, <1>4
  <2>3. \A j \in T : \E i \in S : q[i] = j
    <3> SUFFICES ASSUME NEW j \in T PROVE \E i \in S : q[i] = j
      BY Zenon
    <3>1. PICK i \in 1..n : p[i] = j
      BY Zenon, <1>4
    <3>2. i \in S
      BY Zenon, <3>1, <1>5
    <3> QED BY Zenon, <3>1, <3>2
  <2>4. S \subseteq 1..n
    BY Zenon
  <2> HIDE DEF S, T, q
  <2>5. q \in Bijection(S, T)
    <3>1. q \in Injection(S, T) /\ q \in Surjection(S, T)
      BY Zenon, <2>1, <2>2, <2>3 DEF Injection, Surjection, IsInjective
    <3> QED BY Zenon, <3>1 DEF Bijection
  <2>6. IsFiniteSet(S)
    BY Zenon, <2>4, CountTo, FS_Subset
  <2>7. Cardinality(T) = Cardinality(S)
    BY Zenon, <2>5, <2>6, FS_Bijection DEF ExistsBijection
  <2>8. Above(s, c) = Cardinality(S) /\ Above(list, c) = Cardinality(T)
    BY Zenon, <1>5 DEF Above, S, T
  <2> QED BY Zenon, <2>7, <2>8
<1> QED BY Zenon, <1>3, <1>5, <1>6

(* A part of 1..n that holds what comes before its elements begins it. *)
LEMMA InitialSegment ==
    ASSUME NEW n \in Nat, NEW U \in SUBSET (1..n),
           \A i, j \in 1..n : i < j /\ j \in U => i \in U
    PROVE  \E k \in 0..n : U = 1..k
<1> DEFINE Out == {i \in 1..(n + 1) : i \notin U}
<1>1. Out \in SUBSET Nat /\ n + 1 \in Out
  OBVIOUS
<1>2. PICK x \in Out : \A y \in Out : x <= y
  BY Zenon, <1>1, LeastNat
<1>3. x \in 1..(n + 1) /\ x \notin U
  BY Zenon, <1>2
<1>4. \A i \in 1..(x - 1) : i \in U
  <2> SUFFICES ASSUME NEW i \in 1..(x - 1), i \notin U PROVE FALSE
    BY Zenon
  <2>1. i \in Out /\ ~(x <= i)
    BY <1>3
  <2> QED BY Zenon, <2>1, <1>2
<1>5. \A i \in U : i \in 1..(x - 1)
  <2> SUFFICES ASSUME NEW i \in U, i \notin 1..(x - 1) PROVE FALSE
    BY Zenon
  <2>1. i \in 1..n /\ x <= i
    BY <1>3
  <2>2. CASE i = x
    BY Zenon, <2>2, <1>3
  <2>3. CASE i # x
    <3>1. x \in 1..n /\ x < i
      BY <2>1, <2>3, <1>3
    <3> QED BY Zenon, <3>1, <2>1, <1>3
  <2> QED BY Zenon, <2>2, <2>3
<1>6. U = 1..(x - 1)
  BY Zenon, <1>4, <1>5
<1>7. x - 1 \in 0..n
  BY <1>3
<1> QED BY Zenon, <1>6, <1>7

(* The first m of the tracks in descending order are the most confident. *)
LEMMA MostConfident ==
    ASSUME NEW n \in Nat, NEW m \in Nat, m < n, NEW s \in [1..n -> Nat],
           \A i, j \in 1..n : i < j => s[i] >= s[j], NEW c \in Nat
    PROVE  /\ SubSeq(s, 1, m) \in Seq(Nat) /\ Len(SubSeq(s, 1, m)) = m
           /\ Above(SubSeq(s, 1, m), c) = IF Above(s, c) < m THEN Above(s, c) ELSE m
<1> DEFINE t == SubSeq(s, 1, m)
           U == {i \in 1..n : s[i] >= c}
<1>1. /\ t \in Seq(Nat)
      /\ Len(t) = IF 1 <= m THEN m - 1 + 1 ELSE 0
      /\ \A i \in 1..m - 1 + 1 : t[i] = s[1 + i - 1]
  <2>1. 1 \in Int /\ m \in Int
    OBVIOUS
  <2>2. \A i \in 1..m : s[i] \in Nat
    OBVIOUS
  <2> QED BY <2>1, <2>2, SeqPart
<1> HIDE DEF t
<1>2. Len(t) = m
  BY <1>1
<1>3. \A i \in 1..m : t[i] = s[i]
  <2>1. m - 1 + 1 = m /\ \A i \in 1..m : 1 + i - 1 = i
    OBVIOUS
  <2> QED BY Zenon, <1>1, <2>1
<1>4. \A i, j \in 1..n : i < j /\ j \in U => i \in U
  <2> SUFFICES ASSUME NEW i \in 1..n, NEW j \in 1..n, i < j, s[j] >= c PROVE s[i] >= c
    BY Zenon
  <2>1. s[i] \in Nat /\ s[j] \in Nat /\ s[i] >= s[j]
    BY Zenon
  <2> QED BY <2>1
<1>5. U \in SUBSET (1..n)
  BY Zenon
<1>6. PICK k \in 0..n : U = 1..k
  <2> HIDE DEF U
  <2> QED BY Zenon, <1>4, <1>5, InitialSegment
<1>7. Above(s, c) = k
  <2>1. Above(s, c) = Cardinality(U)
    BY Zenon DEF Above
  <2> HIDE DEF U
  <2>2. k \in Nat
    OBVIOUS
  <2> QED BY Zenon, <2>1, <2>2, <1>6, CountTo
<1>8. PICK r \in Nat : r = IF k < m THEN k ELSE m
  OBVIOUS
<1>9. {i \in 1..m : s[i] >= c} = 1..r
  <2>1. \A i \in 1..n : s[i] >= c <=> i \in 1..k
    BY Zenon, <1>6
  <2>2. \A i \in 1..m : i \in 1..n /\ (i \in 1..k <=> i \in 1..r)
    BY <1>8
  <2>3. \A i \in 1..r : i \in 1..m
    BY <1>8
  <2> HIDE DEF U
  <2> QED BY Zenon, <2>1, <2>2, <2>3
<1>10. Above(t, c) = r
  <2>1. DOMAIN t = 1..m
    BY Zenon, <1>1, <1>2, SeqLen
  <2>2. {i \in DOMAIN t : t[i] >= c} = 1..r
    BY Zenon, <2>1, <1>3, <1>9
  <2> QED BY Zenon, <2>2, CountTo DEF Above
<1> QED BY Zenon, <1>1, <1>2, <1>7, <1>8, <1>10 DEF t

(* PayloadDecodes, of one frame given and the payload made of it. *)
Decodes(f, data) ==
    /\ \A n \in 0 .. Len(data) - 1 : deserialize(SubSeq(data, 1, n)) = {}
    /\ \E g \in deserialize(data) :
         /\ g.seq = f.seq /\ g.dropped = Len(f.list) - Len(g.list)
         /\ g.cut <=> g.dropped > 0
         /\ ~g.cut => g.list = f.list
         /\ g.cut => /\ Len(g.list) = max_tracks
                     /\ \A c \in Confidences :
                          Above(g.list, c) = IF Above(f.list, c) < max_tracks
                                             THEN Above(f.list, c) ELSE max_tracks

(* Whatever truncate answers is sent so that it can be decoded. *)
LEMMA CutDecodes ==
    ASSUME NEW seq \in Seqs, NEW n \in Nat, NEW list \in [1..n -> Confidences],
           NEW frame \in truncate(Frame(seq, list))
    PROVE  Decodes(Frame(seq, list), serialize(frame))
<1> DEFINE f == Frame(seq, list)
<1>1. f.seq = seq /\ f.list = list /\ f.cut = FALSE /\ f.dropped = 0
  BY Zenon DEF Frame
<1>2. seq \in Nat /\ list \in [1..n -> Nat] /\ max_tracks \in Nat /\ Confidences \subseteq Nat
  BY Zenon, GatewayAssumption
<1>3. list \in Seq(Nat) /\ Len(list) = n
  BY Zenon, <1>2, SeqMade
<1>4. f \in Frames
  BY Zenon, <1>2, <1>3 DEF Frame, Frames
<1> HIDE DEF f
<1>5. CASE n <= max_tracks
  <2>1. frame = f
    BY Zenon, <1>1, <1>3, <1>5 DEF truncate, f
  <2>2. deserialize(serialize(frame)) = {f}
        /\ \A k \in 0 .. Len(serialize(frame)) - 1 :
              deserialize(SubSeq(serialize(frame), 1, k)) = {}
    BY <1>4, <2>1, RoundTrip
  <2>3. f.dropped = Len(f.list) - Len(f.list) /\ (f.cut <=> f.dropped > 0) /\ ~f.cut
    BY <1>1, <1>2, <1>3
  <2> QED BY Zenon, <2>2, <2>3 DEF Decodes, f
<1>6. CASE ~(n <= max_tracks)
  <2>1. PICK s \in Sorted(list) : frame = Cut(f, s)
    BY Zenon, <1>1, <1>3, <1>6 DEF truncate, f
  <2>2. /\ s \in [1..n -> Nat]
        /\ \A i, j \in 1..n : i < j => s[i] >= s[j]
        /\ \A c \in Nat : Above(s, c) = Above(list, c)
    BY <1>2, <2>1, SortedFacts
  <2>3. max_tracks < n
    BY <1>2, <1>6
  <2>4. Len(s) = n
    BY <2>2
  <2>5. /\ SubSeq(s, 1, max_tracks) \in Seq(Nat) /\ Len(SubSeq(s, 1, max_tracks)) = max_tracks
        /\ \A c \in Nat : Above(SubSeq(s, 1, max_tracks), c)
                            = IF Above(s, c) < max_tracks THEN Above(s, c) ELSE max_tracks
    <3>1. ASSUME NEW c \in Nat
          PROVE  /\ SubSeq(s, 1, max_tracks) \in Seq(Nat) /\ Len(SubSeq(s, 1, max_tracks)) = max_tracks
                 /\ Above(SubSeq(s, 1, max_tracks), c)
                       = IF Above(s, c) < max_tracks THEN Above(s, c) ELSE max_tracks
      BY ZenonT(30), <1>2, <2>2, <2>3, MostConfident
    <3>2. 0 \in Nat
      BY Zenon
    <3> QED BY Zenon, <3>1, <3>2
  <2>6. PICK t : t = SubSeq(s, 1, max_tracks)
    BY Zenon
  <2>7. frame = [f EXCEPT !.list = t, !.cut = TRUE, !.dropped = n - max_tracks]
    BY Zenon, <2>1, <2>4, <2>6 DEF Cut
  <2>8. n - max_tracks \in Nat /\ n - max_tracks > 0 /\ t \in Seq(Nat)
    BY <1>2, <2>3, <2>5, <2>6
  <2>9. frame \in Frames /\ frame.seq = seq /\ frame.list = t /\ frame.cut = TRUE
        /\ frame.dropped = n - max_tracks
    BY Zenon, <1>1, <1>4, <2>7, <2>8 DEF Frames
  <2>10. deserialize(serialize(frame)) = {frame}
         /\ \A k \in 0 .. Len(serialize(frame)) - 1 :
               deserialize(SubSeq(serialize(frame), 1, k)) = {}
    BY Zenon, <2>9, RoundTrip
  <2>11. /\ frame.seq = f.seq /\ frame.dropped = Len(f.list) - Len(frame.list)
         /\ frame.cut /\ frame.dropped > 0 /\ Len(frame.list) = max_tracks
    BY Zenon, <1>1, <1>3, <2>5, <2>6, <2>8, <2>9
  <2>12. ASSUME NEW c \in Confidences
         PROVE  Above(frame.list, c) = IF Above(f.list, c) < max_tracks
                                       THEN Above(f.list, c) ELSE max_tracks
    BY Zenon, <1>1, <1>2, <2>2, <2>5, <2>6, <2>9
  <2> QED BY Zenon, <2>10, <2>11, <2>12 DEF Decodes, f
<1> QED BY Zenon, <1>5, <1>6

(* PayloadDecodes, one frame at a time. *)
LEMMA DecodesAll == PayloadDecodes <=> \A f \in sent : Decodes(f, payload)
  BY Zenon DEF PayloadDecodes, Decodes, Above

(* Only SendFrame changes what was sent and its payload. *)
LEMMA PayloadStep == PayloadDecodes /\ [GatewayNext]_gatewayVars => PayloadDecodes'
<1> SUFFICES ASSUME PayloadDecodes, [GatewayNext]_gatewayVars PROVE PayloadDecodes'
  BY Zenon
<1>1. ASSUME NEW seq \in Seqs, NEW n \in 0..FrameTracks, NEW list \in [1..n -> Confidences],
             SendFrame(seq, list)
      PROVE  PayloadDecodes'
  <2>1. PICK frame \in truncate(Frame(seq, list)) : payload' = serialize(frame)
    BY Zenon, <1>1 DEF SendFrame
  <2>2. n \in Nat
    BY GatewayAssumption
  <2>3. Decodes(Frame(seq, list), payload')
    BY Zenon, <2>1, <2>2, CutDecodes
  <2>4. sent' = {Frame(seq, list)}
    BY Zenon, <1>1 DEF SendFrame
  <2>5. (\A f \in sent : Decodes(f, payload))'
    BY Zenon, <2>3, <2>4
  <2>6. (PayloadDecodes <=> \A f \in sent : Decodes(f, payload))'
    BY DecodesAll, PTL
  <2> QED BY <2>5, <2>6
<1>2. CASE UNCHANGED <<payload, sent>>
  BY Zenon, <1>2 DEF PayloadDecodes
<1> QED
  BY Zenon, <1>1, <1>2 DEF GatewayNext, upsert, mark_pong, sweep_timeouts, TimePasses, gatewayVars

(***************************************************************************)
(* What UdpSender sends decodes to the frame it was given, whole or cut to *)
(* its most confident tracks, for frames of any length, any confidences    *)
(* and any order that std::sort leaves equal ones in; and a payload cut    *)
(* short at any byte decodes to nothing.                                   *)
(***************************************************************************)
THEOREM PayloadsDecode == GatewaySpec => []PayloadDecodes
<1>1. GatewayInit => PayloadDecodes
  BY Zenon DEF GatewayInit, PayloadDecodes
<1> QED
  BY <1>1, PayloadStep, PTL DEF GatewaySpec
=============================================================================
