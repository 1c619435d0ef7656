------------------------------- MODULE Loops -------------------------------
(***************************************************************************)
(* What the proofs need of the loops of the code, which the modules write  *)
(* as recursive functions of the number of the turn: such a function       *)
(* exists, and an invariant of its turns holds at its end.  And what they  *)
(* need of sequences.                                                      *)
(***************************************************************************)
EXTENDS Integers, Sequences, WellFoundedInduction, TLAPS

(* A set of numbers that is not empty has a least one. *)
LEMMA LeastNat ==
    ASSUME NEW T \in SUBSET Nat, T # {}
    PROVE  \E x \in T : \A y \in T : x <= y
<1> DEFINE Less == {ss \in Nat \X Nat : ss[1] < ss[2]}
<1>1. OpToRel(<, Nat) = Less
  BY Zenon DEF OpToRel
<1>2. IsWellFoundedOn(Less, Nat)
  BY <1>1, NatLessThanWellFounded, Zenon
<1>3. PICK x \in T : \A y \in T : ~(<<y, x>> \in Less)
  <2> HIDE DEF Less
  <2> QED BY Zenon, <1>2, WFMin
<1>4. \A y \in T : x <= y
  <2> SUFFICES ASSUME NEW y \in T, ~(x <= y) PROVE FALSE
    BY Zenon
  <2>1. y \in Nat /\ x \in Nat /\ y < x
    OBVIOUS
  <2> QED BY Zenon, <2>1, <1>3
<1> QED BY Zenon, <1>4

(* What holds of lo and passes from each number to the next up to hi. *)
LEMMA FromTo ==
    ASSUME NEW lo \in Nat, NEW hi \in Nat, NEW T \in SUBSET (lo..hi), lo \in T,
           \A n \in lo..hi : n # lo /\ n - 1 \in T => n \in T
    PROVE  \A n \in lo..hi : n \in T
<1> SUFFICES ASSUME NEW m \in lo..hi, m \notin T PROVE FALSE
  BY Zenon
<1> DEFINE Out == {n \in lo..hi : n \notin T}
<1>1. Out \in SUBSET Nat /\ Out # {}
  OBVIOUS
<1>2. PICK x \in Out : \A y \in Out : x <= y
  BY Zenon, <1>1, LeastNat
<1>3. x \in lo..hi /\ x # lo /\ x - 1 \in lo..hi /\ x - 1 \notin Out
  BY <1>2
<1> QED BY Zenon, <1>3, <1>2

(* The same from 0. *)
LEMMA UpTo ==
    ASSUME NEW N \in Nat, NEW T \in SUBSET (0..N), 0 \in T,
           \A n \in 1..N : n - 1 \in T => n \in T
    PROVE  \A n \in 0..N : n \in T
<1>1. \A n \in 0..N : n # 0 /\ n - 1 \in T => n \in T
  OBVIOUS
<1> QED BY Zenon, <1>1, FromTo

(* The turns of a loop over elements of A, and the loop that starts in a. *)
Turns(lo, hi, A) == [(lo..hi) \X A -> A]

Runs(lo, hi, A, a, g) ==
    {f \in [lo..hi -> A] : /\ f[lo] = a
                           /\ \A n \in lo..hi : n # lo => f[n] = g[<<n, f[n - 1]>>]}

(* A loop has a result: some function starts with a and takes a turn of g each time. *)
LEMMA LoopExists ==
    ASSUME NEW lo \in Nat, NEW hi \in Nat, lo <= hi, NEW A, NEW a \in A,
           NEW g \in Turns(lo, hi, A)
    PROVE  \E f : f \in Runs(lo, hi, A, a, g)
<1> USE DEF Turns
<1> DEFINE Until(m, f) == /\ f[lo] = a
                          /\ \A n \in lo..m : n # lo => f[n] = g[<<n, f[n - 1]>>]
           T == {m \in lo..hi : \E f \in [lo..hi -> A] : Until(m, f)}
<1>1. lo \in T
  <2> DEFINE f == [n \in lo..hi |-> a]
  <2>1. f \in [lo..hi -> A] /\ Until(lo, f) /\ lo \in lo..hi
    OBVIOUS
  <2> HIDE DEF f
  <2> QED BY Zenon, <2>1
<1>2. ASSUME NEW m \in lo..hi, m # lo, m - 1 \in T PROVE m \in T
  <2>1. PICK f \in [lo..hi -> A] : Until(m - 1, f)
    BY Zenon, <1>2
  <2> DEFINE h == [f EXCEPT ![m] = g[<<m, f[m - 1]>>]]
  <2>2. m - 1 \in lo..hi /\ f[m - 1] \in A /\ g[<<m, f[m - 1]>>] \in A
    BY Zenon, <1>2
  <2>3. h \in [lo..hi -> A] /\ h[m] = g[<<m, f[m - 1]>>]
        /\ \A n \in lo..hi : n # m => h[n] = f[n]
    BY Zenon, <2>2
  <2> HIDE DEF h
  <2>4. \A n \in lo..m : n # lo => h[n] = g[<<n, h[n - 1]>>]
    <3> SUFFICES ASSUME NEW n \in lo..m, n # lo PROVE h[n] = g[<<n, h[n - 1]>>]
      BY Zenon
    <3>1. n \in lo..hi /\ n - 1 \in lo..hi /\ n - 1 # m /\ h[n - 1] = f[n - 1]
      BY <2>3
    <3>2. CASE n = m
      BY Zenon, <3>1, <3>2, <2>3
    <3>3. CASE n # m
      <4>1. n \in lo..(m - 1)
        BY <3>3, <1>2
      <4> QED BY Zenon, <4>1, <3>1, <3>3, <2>1, <2>3
    <3> QED BY Zenon, <3>2, <3>3
  <2>5. h[lo] = a
    BY <1>2, <2>1, <2>3
  <2> QED BY Zenon, <2>3, <2>4, <2>5
<1>3. T \in SUBSET (lo..hi)
  BY Zenon
<1> HIDE DEF T
<1>4. hi \in lo..hi
  OBVIOUS
<1>5. hi \in T
  BY Zenon, <1>1, <1>2, <1>3, <1>4, FromTo
<1> QED BY Zenon, <1>5 DEF T, Runs
----------------------------------------------------------------------------
(* A sequence is a function on its first numbers. *)
LEMMA SeqLen ==
    ASSUME NEW S, NEW s \in Seq(S)
    PROVE  Len(s) \in Nat /\ s \in [1..Len(s) -> S] /\ DOMAIN s = 1..Len(s)
OBVIOUS

(* Its elements. *)
LEMMA SeqElement ==
    ASSUME NEW S, NEW s \in Seq(S), NEW i \in 1..Len(s)
    PROVE  s[i] \in S
OBVIOUS

(* The empty sequence is the one without elements. *)
LEMMA SeqNone ==
    ASSUME NEW S
    PROVE  /\ << >> \in Seq(S) /\ Len(<< >>) = 0
           /\ \A s \in Seq(S) : s # << >> => Len(s) \in Nat \ {0}
OBVIOUS

(* A function on the first numbers is a sequence. *)
LEMMA SeqMade ==
    ASSUME NEW S, NEW n \in Nat, NEW f \in [1..n -> S]
    PROVE  f \in Seq(S) /\ Len(f) = n
OBVIOUS

(* Sequences with the same length and elements are equal. *)
LEMMA SeqSame ==
    ASSUME NEW S, NEW s \in Seq(S), NEW t \in Seq(S), Len(s) = Len(t),
           \A i \in 1..Len(s) : s[i] = t[i]
    PROVE  s = t
OBVIOUS

(* What push_back adds. *)
LEMMA SeqPut ==
    ASSUME NEW S, NEW s \in Seq(S), NEW e \in S
    PROVE  /\ Append(s, e) \in Seq(S) /\ Append(s, e) # << >>
           /\ Len(Append(s, e)) = Len(s) + 1 /\ Append(s, e)[Len(s) + 1] = e
           /\ \A i \in 1..Len(s) : Append(s, e)[i] = s[i]
<1>1. /\ Append(s, e) \in Seq(S) /\ Len(s) \in Nat
      /\ Len(Append(s, e)) = Len(s) + 1 /\ Append(s, e)[Len(s) + 1] = e
      /\ \A i \in 1..Len(s) : Append(s, e)[i] = s[i]
  OBVIOUS
<1>2. Len(Append(s, e)) # 0
  BY <1>1
<1> QED BY Zenon, <1>1, <1>2, SeqNone

(* What is left after pop_front. *)
LEMMA SeqRest ==
    ASSUME NEW S, NEW s \in Seq(S), s # << >>
    PROVE  /\ Head(s) \in S /\ Head(s) = s[1]
           /\ Tail(s) \in Seq(S) /\ Len(Tail(s)) = Len(s) - 1
           /\ \A i \in 1..Len(Tail(s)) : Tail(s)[i] = s[i + 1]
OBVIOUS

(* One sequence after the other. *)
LEMMA SeqJoined ==
    ASSUME NEW S, NEW s \in Seq(S), NEW t \in Seq(S)
    PROVE  /\ s \o t \in Seq(S) /\ Len(s \o t) = Len(s) + Len(t)
           /\ \A i \in 1..(Len(s) + Len(t)) :
                 (s \o t)[i] = IF i <= Len(s) THEN s[i] ELSE t[i - Len(s)]
OBVIOUS

(* A part of a sequence. *)
LEMMA SeqPart ==
    ASSUME NEW S, NEW s, NEW m \in Int, NEW n \in Int, \A i \in m..n : s[i] \in S
    PROVE  /\ SubSeq(s, m, n) \in Seq(S)
           /\ Len(SubSeq(s, m, n)) = IF m <= n THEN n - m + 1 ELSE 0
           /\ \A i \in 1..(n - m + 1) : SubSeq(s, m, n)[i] = s[m + i - 1]
OBVIOUS

=============================================================================
