------------------------------ MODULE Gateway ------------------------------
(***************************************************************************)
(* M04: OutputThrottle, the TrackDataSerializer UdpSender uses, and         *)
(* HmiSessionManager.                                                       *)
(*                                                                          *)
(* A frame is [seq, cut, dropped, list], list the confidences of its        *)
(* tracks; the fields serialize copies unchanged and nothing branches on    *)
(* are left out.  A payload is the sequence of fields as they are appended, *)
(* one cell per field whatever its width.  Frames reach the throttle in any *)
(* order.  Time is uint64, its range cut to Span.                           *)
(***************************************************************************)
EXTENDS Naturals, Sequences, FiniteSets, Functions

CONSTANTS Seqs,       \* the frame_seq values offered, 0 among them
          Confidences,
          FrameTracks,\* tracks of a frame
          max_tracks,
          Sessions,
          timeout_ns,
          Span,       \* the modulus of uint64_t
          LastTime    \* bound on the clock

ASSUME GatewayAssumption ==
  /\ Seqs \subseteq Nat /\ Confidences \subseteq Nat
  /\ {FrameTracks, max_tracks, timeout_ns, LastTime} \subseteq Nat
  /\ Span \in Nat \ {0} /\ timeout_ns < Span /\ LastTime < Span

VARIABLES last_frame_seq,
          payload,      \* last_payload_
          sent,         \* the frame payload was made from; {} before any
          sessions,     \* sessions_: [last, alive] of those upserted
          now, sweptAt  \* the clock, and its value at the last sweep

gatewayVars == <<last_frame_seq, payload, sent, sessions, now, sweptAt>>

Frame(seq, list) == [seq |-> seq, cut |-> FALSE, dropped |-> 0, list |-> list]

GatewayInit ==
  /\ last_frame_seq = 0 /\ payload = << >> /\ sent = {}
  /\ sessions = [s \in {} |-> << >>] /\ now = 0 /\ sweptAt = 0

(* should_send: zero stands for "nothing sent yet"; the gap test can not fail
   once seq > last_frame_seq_ *)
should_send(seq) == last_frame_seq = 0 \/ seq > last_frame_seq

(* The orders std::sort may leave the tracks in: the confidence descends *)
Sorted(list) ==
  {s \in {[i \in DOMAIN list |-> list[p[i]]] : p \in Bijection(DOMAIN list, DOMAIN list)} :
     \A i, j \in DOMAIN list : i < j => s[i] >= s[j]}

(* The frame with the first max_tracks of the tracks in s *)
Cut(frame, s) == [frame EXCEPT !.list = SubSeq(s, 1, max_tracks), !.cut = TRUE,
                               !.dropped = Len(s) - max_tracks]

(* Mutant: the cut keeps the first tracks without sorting *)
MutTruncate(frame) ==
  IF Len(frame.list) <= max_tracks THEN {frame}
  ELSE {Cut(frame, frame.list)}

(* truncate: what it may answer *)
truncate(frame) ==
  IF Len(frame.list) <= max_tracks THEN {frame}
  ELSE {Cut(frame, s) : s \in Sorted(frame.list)}

serialize(frame) == <<frame.seq, Len(frame.list), frame.cut, frame.dropped>> \o frame.list

(* deserialize: {} where read_bytes throws, bytes beyond the tracks ignored *)
deserialize(data) ==
  IF Len(data) < 4 \/ Len(data) < 4 + data[2] THEN {}
  ELSE {[seq |-> data[1], cut |-> data[3], dropped |-> data[4],
         list |-> SubSeq(data, 5, 4 + data[2])]}

(* send_frame of a frame the throttle lets through and cuts *)
SendFrame(seq, list) ==
  /\ should_send(seq)
  /\ last_frame_seq' = seq
  /\ sent' = {Frame(seq, list)}
  /\ \E frame \in truncate(Frame(seq, list)) : payload' = serialize(frame)
  /\ UNCHANGED <<sessions, now, sweptAt>>

upsert(s) ==
  /\ sessions' = [x \in DOMAIN sessions \cup {s} |->
                    IF x = s THEN [last |-> now, alive |-> TRUE] ELSE sessions[x]]
  /\ UNCHANGED <<last_frame_seq, payload, sent, now, sweptAt>>

mark_pong(s) ==
  /\ s \in DOMAIN sessions
  /\ sessions' = [sessions EXCEPT ![s] = [last |-> now, alive |-> TRUE]]
  /\ UNCHANGED <<last_frame_seq, payload, sent, now, sweptAt>>

(* Mutant: the pong time is taken for the deadline *)
MutSweep ==
  /\ sessions' = [s \in DOMAIN sessions |->
                    [sessions[s] EXCEPT !.alive = @ /\ sessions[s].last >= now]]
  /\ sweptAt' = now
  /\ UNCHANGED <<last_frame_seq, payload, sent, now>>

sweep_timeouts ==
  /\ sessions' = [s \in DOMAIN sessions |->
                    [sessions[s] EXCEPT !.alive =
                       @ /\ (sessions[s].last + timeout_ns) % Span >= now]]
  /\ sweptAt' = now
  /\ UNCHANGED <<last_frame_seq, payload, sent, now>>

TimePasses == /\ now < LastTime /\ now' = now + 1
              /\ UNCHANGED <<last_frame_seq, payload, sent, sessions, sweptAt>>

GatewayNext ==
  \/ \E seq \in Seqs, n \in 0 .. FrameTracks :
       \E list \in [1 .. n -> Confidences] : SendFrame(seq, list)
  \/ \E s \in Sessions : upsert(s) \/ mark_pong(s)
  \/ sweep_timeouts \/ TimePasses

GatewaySpec == GatewayInit /\ [][GatewayNext]_gatewayVars

--------------------------------------------------------------------------
(* Every variable keeps its range *)
GatewayTypeOK ==
  /\ last_frame_seq \in Seqs \cup {0} /\ \A f \in sent : f.seq \in Seqs
  /\ now \in 0 .. LastTime /\ sweptAt \in 0 .. now
  /\ DOMAIN sessions \subseteq Sessions
  /\ \A s \in DOMAIN sessions : sessions[s] \in [last : 0 .. now, alive : BOOLEAN]

(* What is sent decodes to the frame it was made from, whole or cut to its
   max_tracks most confident tracks with the others counted, and no shorter
   payload decodes to anything. *)
PayloadDecodes ==
  \A f \in sent :
    /\ \A n \in 0 .. Len(payload) - 1 : deserialize(SubSeq(payload, 1, n)) = {}
    /\ \E g \in deserialize(payload) :
         /\ g.seq = f.seq /\ g.dropped = Len(f.list) - Len(g.list)
         /\ g.cut <=> g.dropped > 0
         /\ ~g.cut => g.list = f.list
         /\ g.cut => /\ Len(g.list) = max_tracks
                     /\ \A c \in Confidences :
                          LET above(l) == Cardinality({i \in DOMAIN l : l[i] >= c})
                          IN above(g.list) = IF above(f.list) < max_tracks
                                             THEN above(f.list) ELSE max_tracks

(* A session counts as alive after a sweep exactly when it answered within
   timeout_ns of it or since, unless last_pong_ns + timeout_ns overflows. *)
AliveIsFresh ==
  \A s \in DOMAIN sessions :
    sessions[s].last + timeout_ns < Span =>
      (sessions[s].alive <=> sessions[s].last + timeout_ns >= sweptAt)

==========================================================================
