------------------------------ MODULE Tracks ------------------------------
(***************************************************************************)
(* M03: TrackManager::process_plots with the PlotAssociator it calls, and   *)
(* FusionEngine::fuse on the tracks it returns.                             *)
(*                                                                          *)
(* Geometry is abstracted to what it decides.  The associator gives each    *)
(* predicted track, in states_ order, at most one unused plot, so over all  *)
(* positions its outcome is any partial injection of tracks into plots.     *)
(* should_fuse compares positions, speeds and headings, so over all of them *)
(* it is any symmetric relation of the tracks, transitive or not.           *)
(* confidence is min(1, 0.2 * hits): the hits, capped.                      *)
(***************************************************************************)
EXTENDS Naturals, Sequences, FiniteSets

CONSTANTS ConfirmHits,  \* confirm_hits
          CoastAfter,   \* coast_after_misses
          LostAfter,    \* lost_after_misses
          FullHits,     \* the hits at which confidence reaches 1.0
          MaxPlots,     \* plots of one call
          MaxTracks     \* bound on states_, which nothing in the code bounds

ASSUME TracksAssumption ==
  /\ {ConfirmHits, CoastAfter, LostAfter, FullHits, MaxPlots, MaxTracks} \subseteq Nat \ {0}
  /\ CoastAfter < LostAfter /\ ConfirmHits <= FullHits

VARIABLES states,     \* states_: [id, life, hits, misses], with the history "coasted"
          nextTrack,  \* next_track_id_
          tracks,     \* tracks_
          link,       \* should_fuse on the ids of the tracks fused last
          fused       \* what fuse returned: [id, conf, handover]

trackVars == <<states, nextTrack, tracks, link, fused>>

TracksInit == /\ states = << >> /\ nextTrack = 1 /\ tracks = << >>
              /\ link = << >> /\ fused = << >>

Ids(seq) == {seq[i].id : i \in 1 .. Len(seq)}

AtMost(n, cap) == IF n < cap THEN n ELSE cap

(* Mutant: promotion one hit early *)
MutHitEarly(t) ==
  [t EXCEPT !.hits = AtMost(@ + 1, FullHits), !.misses = 0,
            !.life = IF \/ @ = "TENTATIVE" /\ t.hits + 2 >= ConfirmHits
                        \/ @ = "COASTING"
                     THEN "CONFIRMED" ELSE @]

(* A matched track; LOST is in neither branch of the promotion, and stays *)
Hit(t) ==
  [t EXCEPT !.hits = AtMost(@ + 1, FullHits), !.misses = 0,
            !.life = IF \/ @ = "TENTATIVE" /\ t.hits + 1 >= ConfirmHits
                        \/ @ = "COASTING"
                     THEN "CONFIRMED" ELSE @]

(* An unmatched track: the lifecycle follows misses alone *)
Miss(t) ==
  LET m == t.misses + 1
      life == IF m >= LostAfter THEN "LOST"
              ELSE IF m >= CoastAfter THEN "COASTING" ELSE t.life
  IN [t EXCEPT !.misses = AtMost(m, LostAfter), !.life = life,
               !.coasted = @ \/ life = "COASTING"]

NewTrack(id) == [id |-> id, life |-> "TENTATIVE", hits |-> 1, misses |-> 0,
                 coasted |-> FALSE]

(* associate: the tracks, by index, that get one of n plots; the others are left *)
Associations(n, left) == {M \in SUBSET (1 .. Len(states)) : Cardinality(M) = n - left}

(* The tracks shown: push_back of each one that is not LOST, in order *)
sync_snapshots(seq) ==
  LET shown[i \in 0 .. Len(seq)] ==
        IF i = 0 THEN << >>
        ELSE IF seq[i].life = "LOST" THEN shown[i - 1]
        ELSE Append(shown[i - 1], seq[i])
  IN shown[Len(seq)]

(* One call: hits, misses, a tentative track per unassociated plot, output *)
process_plots(n) ==
  \E born \in 0 .. n : \E M \in Associations(n, born) :
    LET kept == [i \in 1 .. Len(states) |-> IF i \in M THEN Hit(states[i]) ELSE Miss(states[i])]
        all == kept \o [k \in 1 .. born |-> NewTrack(nextTrack + k - 1)]
    IN /\ Len(states) + born <= MaxTracks
       /\ states' = all
       /\ nextTrack' = nextTrack + born
       /\ tracks' = sync_snapshots(all)
       /\ fused' = << >> /\ link' = << >>

Snapshot(t) == [id |-> t.id, conf |-> t.hits, handover |-> FALSE]

(* should_fuse(a, b) under the relation L *)
should_fuse(L, a, b) == L[a.id, b.id]

(* Mutant: the less confident of the two survives *)
MutAbsorb(L, snaps, i, merged) ==
  LET scan[j \in i .. Len(snaps)] ==
        IF j = i THEN [survivor |-> snaps[i], merged |-> merged]
        ELSE IF \/ j \in scan[j - 1].merged
                \/ ~should_fuse(L, scan[j - 1].survivor, snaps[j])
             THEN scan[j - 1]
        ELSE [survivor |-> [(IF snaps[j].conf < scan[j - 1].survivor.conf
                             THEN snaps[j] ELSE scan[j - 1].survivor) EXCEPT !.handover = TRUE],
              merged |-> scan[j - 1].merged \cup {j}]
  IN scan[Len(snaps)]

(* The inner loop of fuse from survivor i: [survivor, merged] *)
Absorb(L, snaps, i, merged) ==
  LET scan[j \in i .. Len(snaps)] ==
        IF j = i THEN [survivor |-> snaps[i], merged |-> merged]
        ELSE IF \/ j \in scan[j - 1].merged
                \/ ~should_fuse(L, scan[j - 1].survivor, snaps[j])
             THEN scan[j - 1]
        ELSE [survivor |-> [(IF snaps[j].conf > scan[j - 1].survivor.conf
                             THEN snaps[j] ELSE scan[j - 1].survivor) EXCEPT !.handover = TRUE],
              merged |-> scan[j - 1].merged \cup {j}]
  IN scan[Len(snaps)]

fuse(L, snaps) ==
  LET turn[i \in 0 .. Len(snaps)] ==
        IF i = 0 THEN [merged |-> {}, result |-> << >>]
        ELSE IF i \in turn[i - 1].merged THEN turn[i - 1]
        ELSE LET a == Absorb(L, snaps, i, turn[i - 1].merged)
             IN [merged |-> a.merged, result |-> Append(turn[i - 1].result, a.survivor)]
  IN turn[Len(snaps)].result

FuseRelations(S) ==
  {L \in [S \X S -> BOOLEAN] : \A x, y \in S : L[x, x] /\ L[x, y] = L[y, x]}

Fuse ==
  /\ tracks # << >> /\ fused = << >>
  /\ \E L \in FuseRelations(Ids(tracks)) :
       /\ link' = L
       /\ fused' = fuse(L, [i \in 1 .. Len(tracks) |-> Snapshot(tracks[i])])
  /\ UNCHANGED <<states, nextTrack, tracks>>

TracksNext == (\E n \in 0 .. MaxPlots : process_plots(n)) \/ Fuse

TracksSpec == TracksInit /\ [][TracksNext]_trackVars

--------------------------------------------------------------------------
Lives == {"TENTATIVE", "CONFIRMED", "COASTING", "LOST"}

(* Every variable keeps its range, and no LOST track is shown *)
TracksTypeOK ==
  /\ \A i \in 1 .. Len(states) :
       states[i] \in [id : 1 .. MaxTracks, life : Lives, hits : 1 .. FullHits,
                      misses : 0 .. LostAfter, coasted : BOOLEAN]
  /\ nextTrack \in 1 .. MaxTracks + 1
  /\ \A i \in 1 .. Len(tracks) : tracks[i].life \in Lives \ {"LOST"}

(* A CONFIRMED track was hit confirm_hits times, unless it coasted first: one
   hit confirms a COASTING track that never was confirmed before. *)
ConfirmedEarned ==
  \A i \in 1 .. Len(states) :
    states[i].life = "CONFIRMED" => states[i].hits >= ConfirmHits \/ states[i].coasted

(* b is in every set of ids that holds a and what L relates to its members *)
Joined(L, S, a, b) ==
  \A C \in SUBSET S :
    a \in C /\ (\A x \in C, y \in S : L[x, y] => y \in C) => b \in C

(* fuse keeps, for every track it was given, a survivor at least as confident
   that should_fuse connects it to, and returns no track twice.  Two survivors
   that should still fuse occur only when the first of them replaced a less
   confident one in mid scan, after the second was passed. *)
FusionKeepsBest ==
  fused # << >> =>
    /\ \A i, j \in 1 .. Len(fused) : i # j => fused[i].id # fused[j].id
    /\ \A i \in 1 .. Len(tracks) : \E k \in 1 .. Len(fused) :
         /\ Joined(link, Ids(tracks), tracks[i].id, fused[k].id)
         /\ fused[k].conf >= tracks[i].hits
    /\ \A i, j \in 1 .. Len(fused) :
         i < j /\ should_fuse(link, fused[i], fused[j])
           => \E k \in 1 .. Len(tracks) :
                tracks[k].id < fused[i].id /\ tracks[k].id \notin Ids(fused)

==========================================================================
