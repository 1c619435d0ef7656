--------------------------- MODULE CaptureProofs ---------------------------
(***************************************************************************)
(* The capture for any number of receive threads, writers, packets and     *)
(* errors and any limits: what the files of a writer hold, and where a     *)
(* sealed file can be found.                                               *)
(***************************************************************************)
EXTENDS Capture, Loops

FileIds == Nat \X Nat

File == [open : BOOLEAN, named : BOOLEAN, recs : Seq(Nat), kept : Nat, bad : BOOLEAN]

Writer == [accepting : BOOLEAN, recording : BOOLEAN, pending : Seq(Nat),
           file : File, recent : Seq(FileIds)]

(* The state of the writers, of the mover and of the hooks, by its types. *)
CaptureTyped ==
    /\ writer \in [Writers -> Writer]
    /\ wpc \in [Writers -> {"none", "top", "tested", "asleep", "write", "seal", "exited"}]
    /\ wpkt \in [Writers -> Nat] /\ accepted \in [Writers -> Nat]
    /\ stopping \in [Writers -> {"no", "flag", "notify", "join", "done"}]
    /\ sealed \in [Writers -> Seq(Seq(Nat))]
    /\ curWriter \in 0..MaxWriters
    /\ href \in [Hooks -> 0..MaxWriters]
    /\ hpc \in [Hooks -> {"idle", "write", "drop", "destroy"}]
    /\ \A h \in Hooks : hpc[h] # "idle" => href[h] \in Writers

----------------------------------------------------------------------------
(* The number of the packets before the file that follows n full ones. *)
Before(n) == n * FileRecords

(* push_back and pop_front on a queue of members of S. *)
LEMMA PutFacts ==
    ASSUME NEW S, NEW s \in Seq(S), NEW e \in S
    PROVE  /\ Append(s, e) \in Seq(S) /\ Len(Append(s, e)) = Len(s) + 1 /\ Len(s) \in Nat
           /\ Append(s, e) # <<>>
           /\ \A i \in 1..Len(s) : Append(s, e)[i] = s[i]
           /\ Append(s, e)[Len(s) + 1] = e
<1>1. Len(s) \in Nat
  BY Zenon, SeqLen
<1> QED BY <1>1, SeqPut

(* What Head and Tail give of a sequence that is not empty. *)
LEMMA PopFacts ==
    ASSUME NEW S, NEW s \in Seq(S), s # <<>>
    PROVE  /\ Tail(s) \in Seq(S) /\ Len(Tail(s)) = Len(s) - 1 /\ Len(s) \in Nat \ {0}
           /\ Head(s) = s[1] /\ \A i \in 1..(Len(s) - 1) : Tail(s)[i] = s[i + 1]
<1>1. Len(s) \in Nat \ {0}
  BY Zenon, SeqNone
<1> QED BY Zenon, <1>1, SeqRest

(* A number below another is not that one. *)
LEMMA LessDiffers == \A a, b \in Nat : a < b => a # b
OBVIOUS

(* The file a writer begins with, and the lack of one. *)
LEMMA FixedFiles ==
    /\ NoFile \in File /\ EmptyFile \in File
    /\ ~NoFile.open /\ ~NoFile.named /\ NoFile.recs = <<>> /\ NoFile.kept = 0
    /\ EmptyFile.open /\ EmptyFile.named /\ EmptyFile.recs = <<>> /\ EmptyFile.kept = 0
<1>1. <<>> \in Seq(Nat)
  BY Zenon, SeqNone
<1>2. NoFile \in File
  BY <1>1 DEF NoFile, File
<1> QED BY Zenon, <1>1, <1>2 DEF EmptyFile, NoFile, File

(* What a file holds, when a step closes it, is what was given to it. *)
LEMMA LeftFields ==
    ASSUME NEW f \in File, NEW g \in Left(f) \cup Cut(f)
    PROVE  g \in File /\ g.named = f.named /\ g.recs = f.recs /\ ~g.open
<1>1. Len(f.recs) \in Nat
  <2>1. f.recs \in Seq(Nat)
    BY Zenon DEF File
  <2> QED BY Zenon, <2>1, SeqLen
<1>2. g = Flushed(f) \/ g \in Cut(f)
  BY Zenon DEF Left
<1>3. CASE g = Flushed(f)
  <2>1. PICK n \in Nat : g = [f EXCEPT !.open = FALSE, !.kept = n]
    BY Zenon, <1>1, <1>3 DEF Flushed, File
  <2> QED BY Zenon, <2>1 DEF File
<1>4. CASE g \in Cut(f)
  <2>1. PICK n \in 0..Len(f.recs) : g = [f EXCEPT !.open = FALSE, !.kept = n, !.bad = TRUE]
    BY Zenon, <1>4 DEF Cut
  <2>2. n \in Nat
    BY <1>1
  <2> QED BY Zenon, <2>1, <2>2 DEF File
<1> QED BY Zenon, <1>2, <1>3, <1>4

(* A writer whose file is closed, after an error or not. *)
LEMMA ClosedFields ==
    ASSUME NEW wr \in Writer, NEW f \in File
    PROVE  /\ Closed(wr, f) \in Writer /\ Closed(wr, f).file = f
           /\ Closed(wr, f).recent = wr.recent /\ Closed(wr, f).pending = wr.pending
           /\ Closed(wr, f).accepting = wr.accepting
           /\ Errored(wr, f) \in Writer /\ Errored(wr, f).file = f
           /\ Errored(wr, f).recent = wr.recent /\ Errored(wr, f).pending = wr.pending
           /\ ~Errored(wr, f).accepting
BY Zenon DEF Closed, Errored, Writer

(* Each file adds FileRecords records to those in the files before. *)
LEMMA BeforeFacts ==
    /\ Before(0) = 0
    /\ \A n \in Nat : Before(n) \in Nat /\ Before(n + 1) = Before(n) + FileRecords
BY CaptureAssumption DEF Before

(* The records w has written. *)
Count(w) ==
    IF writer[w].file.named THEN Before(Len(sealed[w])) + Len(writer[w].file.recs)
    ELSE IF sealed[w] = <<>> THEN 0
    ELSE Before(Len(sealed[w]) - 1) + Len(sealed[w][Len(sealed[w])])

(* The packet that the writer thread has popped and not yet written. *)
Popped(w) == IF wpc[w] = "write" THEN 1 ELSE 0

(* The records of the files of w are numbered by their place. *)
RecordsPlaced(w) ==
    /\ Len(writer[w].file.recs) <= FileRecords
    /\ \A k \in 1..Len(writer[w].file.recs) :
            writer[w].file.recs[k] = Before(Len(sealed[w])) + k
    /\ \A i \in 1..Len(sealed[w]) :
        /\ Len(sealed[w][i]) <= FileRecords
        /\ \A k \in 1..Len(sealed[w][i]) : sealed[w][i][k] = Before(i - 1) + k
        /\ i < Len(sealed[w]) \/ writer[w].file.named => Len(sealed[w][i]) = FileRecords
    /\ ~writer[w].file.named => writer[w].file.recs = <<>>

(* A writer thread that works has an open file, and the packets it still   *)
(* has to write are those after the written ones.                          *)
QueueFollows(w) ==
    /\ wpc[w] \in {"top", "tested", "asleep", "write"} =>
        /\ writer[w].file.open /\ writer[w].file.named
        /\ w \notin errored
        /\ wpc[w] = "write" => wpkt[w] = Count(w) + 1
        /\ accepted[w] = Count(w) + Popped(w) + Len(writer[w].pending)
        /\ \A k \in 1..Len(writer[w].pending) :
                writer[w].pending[k] = Count(w) + Popped(w) + k
    /\ wpc[w] = "none" =>
        /\ sealed[w] = <<>> /\ ~writer[w].file.named /\ accepted[w] = 0
        /\ ~writer[w].accepting /\ w \notin errored
    /\ wpc[w] \in {"seal", "exited"} =>
        /\ ~writer[w].accepting
        /\ Count(w) <= accepted[w]
        /\ w \notin errored => Count(w) = accepted[w] /\ writer[w].pending = <<>>
    /\ stopping[w] = "done" => wpc[w] = "exited"

(* The inductive invariant of the writers. *)
WriterInv(w) == RecordsPlaced(w) /\ QueueFollows(w)

WritersInv == CaptureTyped /\ \A w \in Writers : WriterInv(w)

----------------------------------------------------------------------------
(* A step that leaves the state of w alone keeps its invariant. *)
LEMMA Untouched ==
    ASSUME NEW w \in Writers, WriterInv(w),
           writer'[w] = writer[w], sealed'[w] = sealed[w], wpc'[w] = wpc[w],
           wpkt'[w] = wpkt[w], accepted'[w] = accepted[w],
           stopping'[w] = "done" => stopping[w] = "done" \/ wpc[w] = "exited",
           w \in errored' <=> w \in errored
    PROVE  WriterInv(w)'
BY DEF WriterInv, RecordsPlaced, QueueFollows, Count, Popped

(* seal_current_file on a file with a name, of a writer that is otherwise  *)
(* as wr says: the sealed files go on where they ended.                    *)
LEMMA SealFacts ==
    ASSUME NEW w \in Writers, CaptureTyped, RecordsPlaced(w), NEW wr \in Writer,
           NEW f \in File, wr.file.named = writer[w].file.named,
           wr.file.recs = writer[w].file.recs, wr.recent = writer[w].recent, Seal(w, wr, f)
    PROVE  /\ writer' \in [Writers -> Writer] /\ sealed' \in [Writers -> Seq(Seq(Nat))]
           /\ \A v \in Writers : v # w => writer'[v] = writer[v] /\ sealed'[v] = sealed[v]
           /\ writer'[w].file = f /\ writer'[w].pending = wr.pending
           /\ writer'[w].accepting = wr.accepting
           /\ wr.file.named => sealed'[w] = Append(sealed[w], writer[w].file.recs)
           /\ ~wr.file.named => sealed'[w] = sealed[w]
<1>1. w \in Nat /\ sealed[w] \in Seq(Seq(Nat)) /\ wr.file.recs = writer[w].file.recs
      /\ wr.file.recs \in Seq(Nat) /\ wr.recent \in Seq(FileIds)
  <2>1. w \in Nat /\ sealed[w] \in Seq(Seq(Nat)) /\ writer[w] \in Writer
    BY CaptureAssumption DEF CaptureTyped, Writers
  <2>2. writer[w].file \in File /\ wr.recent \in Seq(FileIds)
    BY Zenon, <2>1 DEF Writer
  <2> QED BY Zenon, <2>1, <2>2 DEF File
<1>2. CASE wr.file.named
  <2> DEFINE id == FileId(w, Len(sealed[w]) + 1)
             all == Append(wr.recent, id)
             out == IF Len(all) > KeepFiles THEN {Head(all)} ELSE {}
             rec == IF out = {} THEN all ELSE Tail(all)
  <2>1. /\ sealed' = [sealed EXCEPT ![w] = Append(sealed[w], wr.file.recs)]
        /\ writer' = [writer EXCEPT ![w] = [wr EXCEPT !.file = f, !.recent = rec]]
    BY Zenon, <1>2 DEF Seal
  <2>2. id \in FileIds
    BY <1>1 DEF FileId, FileIds
  <2>3. rec \in Seq(FileIds)
    <3> HIDE DEF id
    <3>1. all \in Seq(FileIds) /\ all # <<>> /\ Tail(all) \in Seq(FileIds)
      <4>1. wr.recent \in Seq(FileIds)
        BY Zenon, <1>1
      <4>2. all \in Seq(FileIds) /\ all # <<>>
        BY <4>1, <2>2, PutFacts
      <4> HIDE DEF all
      <4> QED BY Zenon, <4>2, PopFacts
    <3> QED BY Zenon, <3>1
  <2> HIDE DEF rec
  <2>4. [wr EXCEPT !.file = f, !.recent = rec] \in Writer
    BY Zenon, <2>3 DEF Writer
  <2>5. Append(sealed[w], wr.file.recs) \in Seq(Seq(Nat))
    BY <1>1
  <2> QED BY Zenon, <1>1, <1>2, <2>1, <2>4, <2>5 DEF CaptureTyped, Writer
<1>3. CASE ~wr.file.named
  <2>1. sealed' = sealed /\ writer' = [writer EXCEPT ![w] = [wr EXCEPT !.file = f]]
    BY Zenon, <1>3 DEF Seal
  <2>2. [wr EXCEPT !.file = f] \in Writer
    BY Zenon DEF Writer
  <2> QED BY <1>3, <2>1, <2>2 DEF CaptureTyped, Writer
<1> QED BY Zenon, <1>2, <1>3

(* What a step of the writer w, or of its stop, leaves of the others. *)
OthersKept(w) ==
    \A v \in Writers : v # w =>
        /\ writer'[v] = writer[v] /\ sealed'[v] = sealed[v] /\ wpc'[v] = wpc[v]
        /\ wpkt'[v] = wpkt[v] /\ accepted'[v] = accepted[v] /\ stopping'[v] = stopping[v]
        /\ v \in errored' <=> v \in errored

(* It is then enough to look at w. *)
LEMMA OneWriter ==
    ASSUME WritersInv, NEW w \in Writers, OthersKept(w), CaptureTyped', WriterInv(w)'
    PROVE  WritersInv'
<1>1. ASSUME NEW v \in Writers, v # w PROVE WriterInv(v)'
  BY Zenon, <1>1, Untouched DEF WritersInv, OthersKept
<1> QED BY Zenon, <1>1 DEF WritersInv

(* The fields of a writer. *)
LEMMA WriterFields ==
    ASSUME CaptureTyped, NEW w \in Writers
    PROVE  /\ writer[w] \in Writer /\ writer[w].file \in File
           /\ writer[w].file.recs \in Seq(Nat) /\ writer[w].pending \in Seq(Nat)
           /\ sealed[w] \in Seq(Seq(Nat)) /\ accepted[w] \in Nat /\ wpkt[w] \in Nat
           /\ {writer[w].accepting, writer[w].file.open, writer[w].file.named} \subseteq BOOLEAN
           /\ FileRecords \in Nat \ {0}
<1>1. writer[w] \in Writer /\ sealed[w] \in Seq(Seq(Nat)) /\ accepted[w] \in Nat
      /\ wpkt[w] \in Nat
  BY Zenon DEF CaptureTyped
<1>2. writer[w].file \in File /\ writer[w].pending \in Seq(Nat) /\ writer[w].accepting \in BOOLEAN
  BY Zenon, <1>1 DEF Writer
<1>3. writer[w].file.recs \in Seq(Nat) /\ writer[w].file.open \in BOOLEAN
      /\ writer[w].file.named \in BOOLEAN
  BY Zenon, <1>2 DEF File
<1> QED BY Zenon, <1>1, <1>2, <1>3, CaptureAssumption

(* The number of records a writer has written is a natural number. *)
LEMMA CountIsNat ==
    ASSUME CaptureTyped, NEW w \in Writers
    PROVE  Count(w) \in Nat
<1>1. writer[w].file.recs \in Seq(Nat) /\ sealed[w] \in Seq(Seq(Nat))
  BY Zenon, WriterFields
<1>2. sealed[w] # <<>> => /\ Len(sealed[w]) - 1 \in Nat
                          /\ sealed[w][Len(sealed[w])] \in Seq(Nat)
  BY <1>1
<1>3. sealed[w] # <<>> => /\ Before(Len(sealed[w]) - 1) \in Nat
                          /\ Len(sealed[w][Len(sealed[w])]) \in Nat
  <2> SUFFICES ASSUME sealed[w] # <<>> PROVE /\ Before(Len(sealed[w]) - 1) \in Nat
                                            /\ Len(sealed[w][Len(sealed[w])]) \in Nat
    BY Zenon
  <2>1. Len(sealed[w][Len(sealed[w])]) \in Nat
    BY Zenon, <1>2, SeqLen
  <2>2. Before(Len(sealed[w]) - 1) \in Nat
    BY Zenon, <1>2, BeforeFacts
  <2> QED BY Zenon, <2>1, <2>2
<1>4. Before(Len(sealed[w])) \in Nat /\ Len(writer[w].file.recs) \in Nat
  <2>1. Len(sealed[w]) \in Nat /\ Len(writer[w].file.recs) \in Nat
    BY Zenon, <1>1, SeqLen
  <2> QED BY Zenon, <2>1, BeforeFacts
<1> QED BY <1>3, <1>4 DEF Count

(* The wait and the pop. *)
LEMMA LoopTopStep ==
    ASSUME WritersInv, NEW w \in Writers, LoopTop(w)
    PROVE  WritersInv'
<1>0. CaptureTyped /\ RecordsPlaced(w) /\ QueueFollows(w)
  BY Zenon DEF WritersInv, WriterInv
<1>1. writer[w].pending \in Seq(Nat) /\ writer[w] \in Writer /\ Count(w) \in Nat
      /\ accepted[w] \in Nat
  BY Zenon, <1>0, WriterFields, CountIsNat
<1>2. /\ writer[w].file.open /\ writer[w].file.named /\ w \notin errored
      /\ accepted[w] = Count(w) + Len(writer[w].pending)
      /\ \A k \in 1..Len(writer[w].pending) : writer[w].pending[k] = Count(w) + k
      /\ wpc[w] = "top" /\ stopping[w] # "done"
  BY <1>0, <1>1 DEF LoopTop, QueueFollows, Popped
<1>3. UNCHANGED <<sealed, accepted, stopping, errored, curWriter, href, hpc>>
  BY Zenon DEF LoopTop
<1>4. CASE writer[w].pending # <<>>
  <2>1. /\ wpkt' = [wpkt EXCEPT ![w] = Head(writer[w].pending)]
        /\ writer' = [writer EXCEPT ![w].pending = Tail(@)]
        /\ wpc' = [wpc EXCEPT ![w] = "write"]
    BY Zenon, <1>4 DEF LoopTop
  <2>2. /\ Tail(writer[w].pending) \in Seq(Nat) /\ Head(writer[w].pending) = Count(w) + 1
        /\ Len(Tail(writer[w].pending)) = Len(writer[w].pending) - 1
        /\ \A k \in 1..Len(Tail(writer[w].pending)) :
              Tail(writer[w].pending)[k] = Count(w) + 1 + k
    <3>1. PICK q \in Seq(Nat), c \in Nat : q = writer[w].pending /\ c = Count(w)
      BY Zenon, <1>1
    <3>2. q # <<>> /\ \A k \in 1..Len(q) : q[k] = c + k
      BY Zenon, <3>1, <1>2, <1>4
    <3>3. /\ Head(q) = q[1] /\ Tail(q) \in Seq(Nat) /\ Len(Tail(q)) = Len(q) - 1
          /\ \A k \in 1..Len(Tail(q)) : Tail(q)[k] = q[k + 1]
      BY Zenon, <3>2, SeqRest
    <3>4. Len(q) \in Nat \ {0}
      BY Zenon, <3>2, SeqNone
    <3>5. 1 \in 1..Len(q) /\ \A k \in 1..Len(Tail(q)) : k + 1 \in 1..Len(q)
                                                       /\ c + (k + 1) = c + 1 + k
      BY <3>3, <3>4
    <3> QED BY Zenon, <3>1, <3>2, <3>3, <3>5
  <2>3. /\ writer'[w] \in Writer /\ writer'[w].pending = Tail(writer[w].pending)
        /\ writer'[w].file = writer[w].file
        /\ wpkt'[w] = Count(w) + 1 /\ wpc'[w] = "write"
    BY Zenon, <1>0, <1>1, <2>1, <2>2 DEF CaptureTyped, Writer
  <2>4. OthersKept(w)
    BY Zenon, <1>0, <1>3, <2>1 DEF OthersKept, CaptureTyped
  <2>5. CaptureTyped'
    <3>1. writer' \in [Writers -> Writer]
      BY Zenon, <1>0, <2>1, <2>3 DEF CaptureTyped
    <3>2. wpkt' \in [Writers -> Nat]
      <4>1. Count(w) + 1 \in Nat
        BY <1>1
      <4> QED BY Zenon, <4>1, <1>0, <2>1, <2>2 DEF CaptureTyped
    <3> QED BY Zenon, <1>0, <1>3, <2>1, <3>1, <3>2 DEF CaptureTyped
  <2>6. Count(w)' = Count(w)
    BY Zenon, <1>3, <2>3 DEF Count
  <2>7. RecordsPlaced(w)'
    BY Zenon, <1>0, <1>3, <2>3 DEF RecordsPlaced
  <2>8. QueueFollows(w)'
    <3>1. Popped(w)' = 1
      BY Zenon, <2>3 DEF Popped
    <3>2. accepted[w] = Count(w) + 1 + (Len(writer[w].pending) - 1)
      <4>1. Len(writer[w].pending) \in Nat
        BY Zenon, <1>1, SeqLen
      <4>2. accepted[w] = Count(w) + Len(writer[w].pending) /\ Count(w) \in Nat
        BY Zenon, <1>1, <1>2
      <4> HIDE DEF Count
      <4>3. \A c, a, l \in Nat : a = c + l => a = c + 1 + (l - 1)
        OBVIOUS
      <4> QED BY Zenon, <1>1, <4>1, <4>2, <4>3
    <3> QED BY ZenonT(30), <1>2, <1>3, <2>2, <2>3, <2>6, <3>1, <3>2 DEF QueueFollows
  <2> QED BY Zenon, <2>4, <2>5, <2>7, <2>8, OneWriter DEF WriterInv
<1>5. CASE writer[w].pending = <<>>
  <2>1. /\ writer' = writer /\ wpkt' = wpkt
        /\ wpc' = [wpc EXCEPT ![w] = IF writer[w].accepting THEN "tested" ELSE "seal"]
    BY Zenon, <1>5 DEF LoopTop
  <2>2. CaptureTyped' /\ OthersKept(w)
    BY Zenon, <1>0, <1>3, <2>1 DEF CaptureTyped, OthersKept
  <2>3. Count(w)' = Count(w) /\ RecordsPlaced(w)'
    BY Zenon, <1>0, <1>3, <2>1 DEF RecordsPlaced, Count
  <2>4. wpc'[w] = IF writer[w].accepting THEN "tested" ELSE "seal"
    BY Zenon, <1>0, <2>1 DEF CaptureTyped
  <2>5. QueueFollows(w)'
    <3>1. Len(writer[w].pending) = 0 /\ accepted[w] = Count(w)
      BY <1>1, <1>2, <1>5
    <3> QED BY <1>0, <1>1, <1>2, <1>3, <1>5, <2>1, <2>3, <2>4, <3>1 DEF QueueFollows, Popped
  <2> QED BY Zenon, <2>2, <2>3, <2>5, OneWriter DEF WriterInv
<1> QED BY Zenon, <1>4, <1>5

(* The files of w after its file has been sealed. *)
LEMMA AppendedFile ==
    ASSUME NEW w \in Writers, CaptureTyped, RecordsPlaced(w), writer[w].file.named,
           sealed'[w] = Append(sealed[w], writer[w].file.recs)
    PROVE  /\ Len(sealed'[w]) = Len(sealed[w]) + 1 /\ Len(sealed[w]) \in Nat
           /\ sealed'[w][Len(sealed'[w])] = writer[w].file.recs /\ sealed'[w] # <<>>
           /\ \A i \in 1..Len(sealed'[w]) :
                /\ Len(sealed'[w][i]) <= FileRecords
                /\ \A k \in 1..Len(sealed'[w][i]) : sealed'[w][i][k] = Before(i - 1) + k
                /\ i < Len(sealed'[w]) => Len(sealed'[w][i]) = FileRecords
<1>1. writer[w].file.recs \in Seq(Nat) /\ sealed[w] \in Seq(Seq(Nat))
  BY Zenon, WriterFields
<1>2. /\ Len(sealed'[w]) = Len(sealed[w]) + 1 /\ Len(sealed[w]) \in Nat /\ sealed'[w] # <<>>
      /\ \A i \in 1..Len(sealed[w]) : sealed'[w][i] = sealed[w][i]
      /\ sealed'[w][Len(sealed[w]) + 1] = writer[w].file.recs
  <2>1. PICK S : S = Seq(Nat)
    BY Zenon
  <2>2. writer[w].file.recs \in S /\ sealed[w] \in Seq(S)
    BY Zenon, <1>1, <2>1
  <2> QED BY <2>2, PutFacts
<1>3. ASSUME NEW i \in 1..Len(sealed[w])
      PROVE  /\ Len(sealed'[w][i]) <= FileRecords
             /\ \A k \in 1..Len(sealed'[w][i]) : sealed'[w][i][k] = Before(i - 1) + k
             /\ Len(sealed'[w][i]) = FileRecords
  BY <1>2, <1>3 DEF RecordsPlaced
<1>4. ASSUME NEW i \in Nat, i = Len(sealed[w]) + 1
      PROVE  /\ Len(sealed'[w][i]) <= FileRecords
             /\ \A k \in 1..Len(sealed'[w][i]) : sealed'[w][i][k] = Before(i - 1) + k
  <2>1. i - 1 = Len(sealed[w]) /\ sealed'[w][i] = writer[w].file.recs
    BY <1>2, <1>4
  <2> QED BY Zenon, <2>1 DEF RecordsPlaced
<1> QED BY <1>2, <1>3, <1>4

(* The last file of w is sealed, or there is none to seal. *)
LEMMA SealEnds ==
    ASSUME NEW w \in Writers, CaptureTyped, RecordsPlaced(w),
           NEW wr \in Writer, wr.recent = writer[w].recent,
           wr.file.named = writer[w].file.named, wr.file.recs = writer[w].file.recs,
           Seal(w, wr, NoFile)
    PROVE  RecordsPlaced(w)' /\ Count(w)' = Count(w)
<1>1. NoFile \in File /\ ~NoFile.named /\ NoFile.recs = <<>>
  BY Zenon, FixedFiles
<1>3. /\ writer'[w].file = NoFile
      /\ wr.file.named => sealed'[w] = Append(sealed[w], writer[w].file.recs)
      /\ ~wr.file.named => sealed'[w] = sealed[w]
  BY <1>1, SealFacts
<1>4. Len(<<>>) = 0 /\ FileRecords \in Nat
  BY Zenon, CaptureAssumption
<1>5. CASE writer[w].file.named
  <2>1. sealed'[w] = Append(sealed[w], writer[w].file.recs)
    BY Zenon, <1>3, <1>5
  <2>2. RecordsPlaced(w)'
    <3>1. 0 <= FileRecords /\ \A k : k \notin 1..0
      BY <1>4
    <3>2. Len(writer'[w].file.recs) = 0 /\ writer'[w].file.recs = <<>> /\ ~writer'[w].file.named
      BY Zenon, <1>1, <1>3, <1>4
    <3>3. \A i \in 1..Len(sealed'[w]) :
            /\ Len(sealed'[w][i]) <= FileRecords
            /\ \A k \in 1..Len(sealed'[w][i]) : sealed'[w][i][k] = Before(i - 1) + k
            /\ i < Len(sealed'[w]) => Len(sealed'[w][i]) = FileRecords
      BY Zenon, <2>1, <1>5, AppendedFile
    <3> QED BY Zenon, <3>1, <3>2, <3>3 DEF RecordsPlaced
  <2>3. Len(sealed'[w]) - 1 = Len(sealed[w])
        /\ sealed'[w][Len(sealed'[w])] = writer[w].file.recs /\ sealed'[w] # <<>>
    <3>1. Len(sealed'[w]) = Len(sealed[w]) + 1 /\ Len(sealed[w]) \in Nat
          /\ sealed'[w][Len(sealed'[w])] = writer[w].file.recs /\ sealed'[w] # <<>>
      BY Zenon, <2>1, <1>5, AppendedFile
    <3>2. Len(sealed'[w]) - 1 = Len(sealed[w])
      BY <3>1
    <3> QED BY Zenon, <3>1, <3>2
  <2>4. Count(w)' = Count(w)
    BY Zenon, <2>3, <1>1, <1>3, <1>5 DEF Count
  <2> QED BY Zenon, <2>2, <2>4
<1>6. CASE ~writer[w].file.named
  <2>1. sealed'[w] = sealed[w]
    BY Zenon, <1>3, <1>6
  <2> QED BY <2>1, <1>1, <1>3, <1>4, <1>6 DEF RecordsPlaced, Count
<1> QED BY Zenon, <1>5, <1>6

(* A full file is sealed, and the next one begins with the packet p. *)
LEMMA SealRotates ==
    ASSUME NEW w \in Writers, CaptureTyped, RecordsPlaced(w), writer[w].file.named,
           Len(writer[w].file.recs) = FileRecords, NEW p \in Nat, p = Count(w) + 1,
           NEW wr \in Writer, wr.recent = writer[w].recent,
           wr.file.named = writer[w].file.named, wr.file.recs = writer[w].file.recs,
           Seal(w, wr, Recorded(EmptyFile, p))
    PROVE  /\ RecordsPlaced(w)' /\ Count(w)' = Count(w) + 1
           /\ Recorded(EmptyFile, p) \in File /\ writer'[w].file = Recorded(EmptyFile, p)
           /\ writer'[w].file.open /\ writer'[w].file.named
<1> DEFINE f == Recorded(EmptyFile, p)
<1>1. f \in File /\ f.named /\ f.open /\ Len(f.recs) = 1 /\ f.recs[1] = p
  <2>1. EmptyFile \in File /\ EmptyFile.open /\ EmptyFile.named /\ EmptyFile.recs = <<>>
    BY Zenon, FixedFiles
  <2>2. Append(<<>>, p) \in Seq(Nat) /\ Len(Append(<<>>, p)) = 1 /\ Append(<<>>, p)[1] = p
    <3>1. <<>> \in Seq(Nat) /\ Len(<<>>) = 0
      BY Zenon, SeqNone
    <3> QED BY <3>1, PutFacts
  <2> QED BY Zenon, <2>1, <2>2 DEF File, Recorded
<1> HIDE DEF f
<1>2. writer'[w].file = f /\ sealed'[w] = Append(sealed[w], writer[w].file.recs)
  BY Zenon, <1>1, SealFacts DEF f
<1>3. FileRecords \in Nat \ {0}
  BY Zenon, CaptureAssumption
<1>4. /\ Len(sealed[w]) \in Nat /\ Len(sealed'[w]) = Len(sealed[w]) + 1
      /\ \A i \in 1..Len(sealed'[w]) :
                /\ Len(sealed'[w][i]) <= FileRecords
                /\ \A k \in 1..Len(sealed'[w][i]) : sealed'[w][i][k] = Before(i - 1) + k
                /\ i < Len(sealed'[w]) => Len(sealed'[w][i]) = FileRecords
  BY Zenon, <1>2, AppendedFile
<1>5. sealed'[w][Len(sealed'[w])] = writer[w].file.recs
  BY Zenon, <1>2, AppendedFile
<1>6. /\ Before(Len(sealed[w])) \in Nat
      /\ Before(Len(sealed[w]) + 1) = Before(Len(sealed[w])) + FileRecords
  BY Zenon, <1>4, BeforeFacts
<1>7. p = Before(Len(sealed'[w])) + 1
  BY Zenon, <1>3, <1>4, <1>6 DEF Count
<1>8. RecordsPlaced(w)'
  <2>1. Len(f.recs) <= FileRecords /\ \A k \in 1..Len(f.recs) : f.recs[k] = Before(Len(sealed'[w])) + k
    BY <1>1, <1>3, <1>7
  <2>2. \A i \in 1..Len(sealed'[w]) : Len(sealed'[w][i]) = FileRecords
    BY <1>4, <1>5
  <2> QED BY Zenon, <2>1, <2>2, <1>1, <1>2, <1>4 DEF RecordsPlaced
<1>9. Count(w)' = Count(w) + 1
  <2>1. Count(w)' = Before(Len(sealed'[w])) + 1
    BY Zenon, <1>1, <1>2 DEF Count
  <2> QED BY Zenon, <2>1, <1>7
<1> QED BY Zenon, <1>1, <1>2, <1>8, <1>9 DEF f

(* The record of the popped packet, after a rotation or not. *)
LEMMA WriteStep ==
    ASSUME WritersInv, NEW w \in Writers, WriteRecord(w)
    PROVE  WritersInv'
<1>0. CaptureTyped /\ RecordsPlaced(w) /\ QueueFollows(w)
  BY Zenon DEF WritersInv, WriterInv
<1>1. writer[w].pending \in Seq(Nat) /\ writer[w] \in Writer /\ Count(w) \in Nat
      /\ accepted[w] \in Nat /\ wpkt[w] \in Nat /\ writer[w].file \in File
      /\ FileRecords \in Nat \ {0} /\ writer[w].file.recs \in Seq(Nat)
  BY Zenon, <1>0, WriterFields, CountIsNat
<1>2. /\ writer[w].file.named /\ writer[w].file.open /\ w \notin errored
      /\ wpc[w] = "write" /\ stopping[w] # "done" /\ wpkt[w] = Count(w) + 1
      /\ accepted[w] = Count(w) + 1 + Len(writer[w].pending)
      /\ \A k \in 1..Len(writer[w].pending) : writer[w].pending[k] = Count(w) + 1 + k
  BY Zenon, <1>0, <1>1 DEF WriteRecord, QueueFollows, Popped
<1>3. /\ UNCHANGED <<accepted, stopping, errored, curWriter, href, hpc>>
      /\ wpc' = [wpc EXCEPT ![w] = "top"] /\ wpkt' = [wpkt EXCEPT ![w] = 0]
  BY Zenon DEF WriteRecord
<1>4. /\ writer' \in [Writers -> Writer] /\ sealed' \in [Writers -> Seq(Seq(Nat))]
      /\ \A v \in Writers : v # w => writer'[v] = writer[v] /\ sealed'[v] = sealed[v]
      /\ writer'[w].pending = writer[w].pending
      /\ writer'[w].file.open /\ writer'[w].file.named
      /\ RecordsPlaced(w)' /\ Count(w)' = Count(w) + 1
  <2>1. CASE Len(writer[w].file.recs) < FileRecords
    <3> DEFINE g == [writer[w].file EXCEPT !.recs = Append(@, wpkt[w])]
    <3>0. Len(writer[w].file.recs) # FileRecords
      BY Zenon, <2>1, <1>1, SeqLen, LessDiffers
    <3>1. writer' = [writer EXCEPT ![w].file = g] /\ sealed' = sealed
      BY Zenon, <3>0 DEF WriteRecord, Recorded
    <3>2. /\ Append(writer[w].file.recs, wpkt[w]) \in Seq(Nat)
          /\ Len(Append(writer[w].file.recs, wpkt[w])) = Len(writer[w].file.recs) + 1
          /\ \A i \in 1..Len(writer[w].file.recs) :
                Append(writer[w].file.recs, wpkt[w])[i] = writer[w].file.recs[i]
          /\ Append(writer[w].file.recs, wpkt[w])[Len(writer[w].file.recs) + 1] = wpkt[w]
          /\ Len(writer[w].file.recs) \in Nat
      <4>1. writer[w].file.recs \in Seq(Nat) /\ wpkt[w] \in Nat
        BY Zenon, <1>1
      <4>2. PICK r \in Seq(Nat), e \in Nat : r = writer[w].file.recs /\ e = wpkt[w]
        BY Zenon, <4>1
      <4>3. /\ Append(r, e) \in Seq(Nat) /\ Len(Append(r, e)) = Len(r) + 1
            /\ \A i \in 1..Len(r) : Append(r, e)[i] = r[i]
            /\ Append(r, e)[Len(r) + 1] = e /\ Len(r) \in Nat
        <5>1. Len(r) \in Nat
          BY Zenon, SeqLen
        <5>2. /\ Append(r, e) \in Seq(Nat) /\ Len(Append(r, e)) = Len(r) + 1
              /\ \A i \in 1..Len(r) : Append(r, e)[i] = r[i]
              /\ Append(r, e)[Len(r) + 1] = e
          OBVIOUS
        <5> QED BY Zenon, <5>1, <5>2
      <4> QED BY Zenon, <4>2, <4>3
    <3>3. g \in File /\ g.recs = Append(writer[w].file.recs, wpkt[w]) /\ g.named /\ g.open
      BY Zenon, <1>1, <1>2, <3>2 DEF File
    <3> HIDE DEF g
    <3>4. /\ writer' \in [Writers -> Writer] /\ writer'[w].file = g
          /\ writer'[w].pending = writer[w].pending
          /\ \A v \in Writers : v # w => writer'[v] = writer[v]
      <4>1. [writer[w] EXCEPT !.file = g] \in Writer
        BY Zenon, <1>1, <3>3 DEF Writer
      <4> QED BY <1>0, <1>1, <3>1, <4>1 DEF CaptureTyped, Writer
    <3>5. sealed[w] \in Seq(Seq(Nat)) /\ Len(sealed[w]) \in Nat
      <4>1. sealed[w] \in Seq(Seq(Nat))
        BY Zenon, <1>0, WriterFields
      <4> QED BY Zenon, <4>1, SeqLen
    <3>6. Before(Len(sealed[w])) \in Nat
          /\ Count(w) = Before(Len(sealed[w])) + Len(writer[w].file.recs)
      BY Zenon, <1>2, <3>5, BeforeFacts DEF Count
    <3>7. Count(w)' = Before(Len(sealed[w])) + (Len(writer[w].file.recs) + 1)
      BY <3>1, <3>2, <3>3, <3>4 DEF Count
    <3>8. Count(w)' = Count(w) + 1
      BY <3>2, <3>6, <3>7
    <3>9. \A k \in 1..Len(g.recs) : g.recs[k] = Before(Len(sealed[w])) + k
      <4>1. wpkt[w] = Before(Len(sealed[w])) + (Len(writer[w].file.recs) + 1)
        BY <1>2, <3>2, <3>6
      <4>2. \A k \in 1..Len(writer[w].file.recs) : g.recs[k] = Before(Len(sealed[w])) + k
        BY Zenon, <1>0, <3>2, <3>3 DEF RecordsPlaced
      <4>3. g.recs[Len(writer[w].file.recs) + 1] = wpkt[w]
            /\ Len(g.recs) = Len(writer[w].file.recs) + 1
        BY Zenon, <3>2, <3>3
      <4>4. ASSUME NEW k \in 1..Len(g.recs), k \notin 1..Len(writer[w].file.recs)
            PROVE  k = Len(writer[w].file.recs) + 1
        BY <4>3, <4>4, <3>2
      <4> QED BY Zenon, <4>1, <4>2, <4>3, <4>4
    <3>10. Len(g.recs) <= FileRecords
      BY <2>1, <1>1, <3>2, <3>3
    <3>11. RecordsPlaced(w)'
      <4>1. sealed' = sealed /\ writer'[w].file = g /\ g.named /\ writer[w].file.named
        BY Zenon, <1>2, <3>1, <3>3, <3>4
      <4> QED BY Zenon, <4>1, <1>0, <3>9, <3>10 DEF RecordsPlaced
    <3> QED BY <1>0, <3>1, <3>3, <3>4, <3>8, <3>11 DEF CaptureTyped
  <2>2. CASE ~(Len(writer[w].file.recs) < FileRecords)
    <3>1. /\ Len(writer[w].file.recs) = FileRecords
          /\ \E g \in Left(writer[w].file) :
                Seal(w, Closed(writer[w], g), Recorded(EmptyFile, wpkt[w]))
      BY Zenon, <2>2 DEF WriteRecord
    <3>2. PICK g \in Left(writer[w].file) :
             Seal(w, Closed(writer[w], g), Recorded(EmptyFile, wpkt[w]))
      BY Zenon, <3>1
    <3> DEFINE c == Closed(writer[w], g)
    <3>5. /\ c \in Writer /\ c.recent = writer[w].recent /\ c.pending = writer[w].pending
          /\ c.file.named = writer[w].file.named /\ c.file.recs = writer[w].file.recs
      <4>1. g \in File /\ g.named = writer[w].file.named /\ g.recs = writer[w].file.recs
        BY Zenon, <1>1, LeftFields
      <4> QED BY Zenon, <4>1, <1>1, ClosedFields
    <3>6. Seal(w, c, Recorded(EmptyFile, wpkt[w]))
      BY Zenon, <3>2
    <3> HIDE DEF c
    <3>3. /\ RecordsPlaced(w)' /\ Count(w)' = Count(w) + 1
          /\ Recorded(EmptyFile, wpkt[w]) \in File
          /\ writer'[w].file.open /\ writer'[w].file.named
      BY Zenon, <3>1, <3>5, <3>6, <1>0, <1>1, <1>2, SealRotates
    <3>4. /\ writer' \in [Writers -> Writer] /\ sealed' \in [Writers -> Seq(Seq(Nat))]
          /\ \A v \in Writers : v # w => writer'[v] = writer[v] /\ sealed'[v] = sealed[v]
          /\ writer'[w].pending = writer[w].pending
      BY Zenon, <3>3, <3>5, <3>6, <1>0, SealFacts
    <3> QED BY Zenon, <3>3, <3>4
  <2> QED BY Zenon, <2>1, <2>2
<1>5. wpc'[w] = "top" /\ Popped(w)' = 0
  BY Zenon, <1>0, <1>3 DEF CaptureTyped, Popped
<1>6. OthersKept(w)
  BY <1>0, <1>3, <1>4 DEF OthersKept, CaptureTyped
<1>7. CaptureTyped'
  <2>1. wpkt' \in [Writers -> Nat]
    BY Zenon, <1>0, <1>3 DEF CaptureTyped
  <2>2. wpc' \in [Writers -> {"none", "top", "tested", "asleep", "write", "seal", "exited"}]
    BY Zenon, <1>0, <1>3 DEF CaptureTyped
  <2> QED BY Zenon, <1>0, <1>3, <1>4, <2>1, <2>2 DEF CaptureTyped
<1>8. QueueFollows(w)'
  <2>1. /\ accepted[w] = Count(w) + 1 + 0 + Len(writer[w].pending)
        /\ \A k \in 1..Len(writer[w].pending) : writer[w].pending[k] = Count(w) + 1 + 0 + k
    BY <1>1, <1>2
  <2> QED BY <2>1, <1>2, <1>3, <1>4, <1>5 DEF QueueFollows
<1> QED BY Zenon, <1>4, <1>6, <1>7, <1>8, OneWriter DEF WriterInv

(* seal_current_file closes the file, as one of those Left has, whether it *)
(* can rename it or not.                                                   *)
LEMMA SealOrNotCloses ==
    ASSUME NEW w, NEW wr, SealOrNot(w, wr)
    PROVE  \E f \in Left(wr.file) : SealFails(w, Closed(wr, f)) \/ Seal(w, Closed(wr, f), NoFile)
BY Zenon DEF SealOrNot, Left

(* seal_current_file in the last steps of a writer: whether the rename     *)
(* works or not, the files hold what they held.                            *)
LEMMA SealOrNotKeeps ==
    ASSUME CaptureTyped, NEW w \in Writers, RecordsPlaced(w),
           NEW wr \in Writer, wr.recent = writer[w].recent, ~wr.accepting,
           wr.file.named = writer[w].file.named, wr.file.recs = writer[w].file.recs,
           SealFails(w, wr) \/ Seal(w, wr, NoFile)
    PROVE  /\ writer' \in [Writers -> Writer] /\ sealed' \in [Writers -> Seq(Seq(Nat))]
           /\ \A v \in Writers : v # w => writer'[v] = writer[v] /\ sealed'[v] = sealed[v]
           /\ RecordsPlaced(w)' /\ Count(w)' = Count(w)
           /\ ~writer'[w].accepting /\ writer'[w].pending = wr.pending
<1>1. CASE Seal(w, wr, NoFile)
  <2>1. NoFile \in File
    BY Zenon, FixedFiles
  <2> QED BY Zenon, <1>1, <2>1, SealFacts, SealEnds
<1>2. CASE SealFails(w, wr)
  <2>1. writer' = [writer EXCEPT ![w] = wr] /\ sealed' = sealed
    BY Zenon, <1>2 DEF SealFails
  <2>2. /\ writer' \in [Writers -> Writer] /\ writer'[w] = wr
        /\ \A v \in Writers : v # w => writer'[v] = writer[v]
    BY Zenon, <2>1 DEF CaptureTyped
  <2>3. RecordsPlaced(w)' /\ Count(w)' = Count(w)
    BY Zenon, <2>1, <2>2 DEF RecordsPlaced, Count
  <2> QED BY Zenon, <2>1, <2>2, <2>3 DEF CaptureTyped
<1> QED BY Zenon, <1>1, <1>2

(* A writer that has come to its end, in the terms of the invariant. *)
LEMMA EndsAt ==
    ASSUME WritersInv, NEW w \in Writers,
           writer' \in [Writers -> Writer], sealed' \in [Writers -> Seq(Seq(Nat))],
           \A v \in Writers : v # w => writer'[v] = writer[v] /\ sealed'[v] = sealed[v],
           RecordsPlaced(w)', Count(w)' = Count(w), ~writer'[w].accepting,
           Count(w) <= accepted[w],
           w \notin errored' => Count(w) = accepted[w] /\ writer'[w].pending = <<>>,
           \A v \in Writers : v # w => (v \in errored' <=> v \in errored),
           UNCHANGED <<accepted, curWriter, href, hpc>>,
           wpkt' = wpkt \/ wpkt' = [wpkt EXCEPT ![w] = 0],
           NEW pc \in {"seal", "exited"}, wpc' = [wpc EXCEPT ![w] = pc],
           stopping' = stopping
             \/ (pc = "exited" /\ stopping' = [stopping EXCEPT ![w] = "done"]),
           stopping[w] = "done" => pc = "exited"
    PROVE  WritersInv'
<1>0. CaptureTyped
  BY Zenon DEF WritersInv
<1>1. OthersKept(w)
  BY <1>0 DEF OthersKept, CaptureTyped
<1>2. CaptureTyped'
  <2>1. wpkt' \in [Writers -> Nat]
    <3>1. wpkt \in [Writers -> Nat]
      BY Zenon, <1>0 DEF CaptureTyped
    <3>2. [wpkt EXCEPT ![w] = 0] \in [Writers -> Nat]
      BY Zenon, <3>1
    <3> QED BY Zenon, <3>1, <3>2
  <2>2. wpc' \in [Writers -> {"none", "top", "tested", "asleep", "write", "seal", "exited"}]
    BY Zenon, <1>0 DEF CaptureTyped
  <2>3. stopping' \in [Writers -> {"no", "flag", "notify", "join", "done"}]
    BY Zenon, <1>0 DEF CaptureTyped
  <2> QED BY <1>0, <2>1, <2>2, <2>3 DEF CaptureTyped
<1>3. wpc'[w] = pc /\ (stopping'[w] = "done" => pc = "exited")
  BY Zenon, <1>0 DEF CaptureTyped
<1>4. QueueFollows(w)'
  BY Zenon, <1>3 DEF QueueFollows
<1> QED BY Zenon, <1>1, <1>2, <1>4, OneWriter DEF WriterInv

(* A file operation fails. *)
LEMMA WriteFailsStep ==
    ASSUME WritersInv, NEW w \in Writers, WriteFails(w)
    PROVE  WritersInv'
<1>0. CaptureTyped /\ RecordsPlaced(w) /\ QueueFollows(w)
  BY Zenon DEF WritersInv, WriterInv
<1>1. writer[w] \in Writer /\ Count(w) \in Nat /\ accepted[w] \in Nat /\ writer[w].file \in File
      /\ Len(writer[w].pending) \in Nat
  BY Zenon, <1>0, WriterFields, CountIsNat, SeqLen
<1>2. wpc[w] = "write" /\ stopping[w] # "done" /\ Count(w) <= accepted[w]
  BY <1>0, <1>1 DEF WriteFails, QueueFollows, Popped
<1>7. PICK f \in Left(writer[w].file) \cup Cut(writer[w].file) :
         \/ writer' = [writer EXCEPT ![w] = Errored(writer[w], f)] /\ sealed' = sealed
         \/ SealFails(w, Errored(writer[w], f))
         \/ Seal(w, Errored(writer[w], f), NoFile)
  BY Zenon DEF WriteFails
<1> DEFINE m == Errored(writer[w], f)
<1>3. /\ m \in Writer
      /\ m.file.named = writer[w].file.named /\ m.file.recs = writer[w].file.recs
      /\ m.recent = writer[w].recent /\ ~m.accepting
  <2>1. f \in File /\ f.named = writer[w].file.named /\ f.recs = writer[w].file.recs
    BY Zenon, <1>1, LeftFields
  <2> QED BY Zenon, <2>1, <1>1, ClosedFields
<1>4. \/ writer' = [writer EXCEPT ![w] = m] /\ sealed' = sealed
      \/ SealFails(w, m)
      \/ Seal(w, m, NoFile)
  BY Zenon, <1>7
<1> HIDE DEF m
<1>5. /\ writer' \in [Writers -> Writer] /\ sealed' \in [Writers -> Seq(Seq(Nat))]
      /\ \A v \in Writers : v # w => writer'[v] = writer[v] /\ sealed'[v] = sealed[v]
      /\ RecordsPlaced(w)' /\ Count(w)' = Count(w) /\ ~writer'[w].accepting
  <2>1. CASE SealFails(w, m) \/ Seal(w, m, NoFile)
    BY Zenon, <2>1, <1>0, <1>3, SealOrNotKeeps
  <2>2. CASE writer' = [writer EXCEPT ![w] = m] /\ sealed' = sealed
    <3>1. /\ writer' \in [Writers -> Writer] /\ writer'[w] = m
          /\ \A v \in Writers : v # w => writer'[v] = writer[v]
      BY Zenon, <2>2, <1>0, <1>3 DEF CaptureTyped
    <3> QED BY <3>1, <2>2, <1>0, <1>3 DEF RecordsPlaced, Count, CaptureTyped
  <2> QED BY Zenon, <2>1, <2>2, <1>4
<1>6. /\ UNCHANGED <<accepted, curWriter, href, hpc, stopping>>
      /\ wpkt' = [wpkt EXCEPT ![w] = 0] /\ wpc' = [wpc EXCEPT ![w] = "seal"]
      /\ errored' = errored \cup {w}
  BY Zenon DEF WriteFails
<1> QED BY Zenon, <1>2, <1>5, <1>6, EndsAt

(* The end of run_writer_loop. *)
LEMMA FinalSealStep ==
    ASSUME WritersInv, NEW w \in Writers, FinalSeal(w)
    PROVE  WritersInv'
<1>0. CaptureTyped /\ RecordsPlaced(w) /\ QueueFollows(w)
  BY Zenon DEF WritersInv, WriterInv
<1> DEFINE a == [writer[w] EXCEPT !.recording = FALSE]
<1>6. /\ a \in Writer /\ a.file = writer[w].file /\ a.recent = writer[w].recent
      /\ a.accepting = writer[w].accepting /\ a.pending = writer[w].pending
  BY Zenon, <1>0, WriterFields DEF Writer
<1>7. PICK f \in Left(a.file) : SealFails(w, Closed(a, f)) \/ Seal(w, Closed(a, f), NoFile)
  BY Zenon, SealOrNotCloses DEF FinalSeal
<1> HIDE DEF a
<1> DEFINE m == Closed(a, f)
<1>1. /\ m \in Writer /\ m.recent = writer[w].recent
      /\ m.file.named = writer[w].file.named /\ m.file.recs = writer[w].file.recs
      /\ m.accepting = writer[w].accepting /\ m.pending = writer[w].pending
  <2>1. a.file \in File
    BY Zenon, <1>0, <1>6, WriterFields
  <2>2. f \in File /\ f.named = a.file.named /\ f.recs = a.file.recs
    BY Zenon, <2>1, LeftFields
  <2> QED BY Zenon, <2>2, <1>6, ClosedFields
<1>2. SealFails(w, m) \/ Seal(w, m, NoFile)
  BY Zenon, <1>7
<1> HIDE DEF m
<1>3. /\ UNCHANGED <<accepted, curWriter, href, hpc, stopping, errored, wpkt>>
      /\ wpc' = [wpc EXCEPT ![w] = "exited"] /\ wpc[w] = "seal"
  BY Zenon DEF FinalSeal
<1>4. /\ ~writer[w].accepting /\ Count(w) <= accepted[w]
      /\ w \notin errored => Count(w) = accepted[w] /\ writer[w].pending = <<>>
  BY Zenon, <1>0, <1>3 DEF QueueFollows
<1>5. /\ writer' \in [Writers -> Writer] /\ sealed' \in [Writers -> Seq(Seq(Nat))]
      /\ \A v \in Writers : v # w => writer'[v] = writer[v] /\ sealed'[v] = sealed[v]
      /\ RecordsPlaced(w)' /\ Count(w)' = Count(w) /\ ~writer'[w].accepting
      /\ writer'[w].pending = writer[w].pending
  BY Zenon, <1>0, <1>1, <1>2, <1>4, SealOrNotKeeps
<1> QED BY Zenon, <1>1, <1>3, <1>4, <1>5, EndsAt

(* The end of stop(). *)
LEMMA StopJoinStep ==
    ASSUME WritersInv, NEW w \in Writers, StopJoin(w)
    PROVE  WritersInv'
<1>0. CaptureTyped /\ RecordsPlaced(w) /\ QueueFollows(w)
  BY Zenon DEF WritersInv, WriterInv
<1> DEFINE a == [writer[w] EXCEPT !.pending = <<>>, !.recording = FALSE]
<1>7. /\ a \in Writer /\ a.file = writer[w].file /\ a.recent = writer[w].recent
      /\ a.accepting = writer[w].accepting /\ a.pending = <<>>
  <2>1. writer[w] \in Writer /\ <<>> \in Seq(Nat)
    BY Zenon, <1>0, WriterFields, SeqNone
  <2> QED BY Zenon, <2>1 DEF Writer
<1>8. PICK f \in Left(a.file) : SealFails(w, Closed(a, f)) \/ Seal(w, Closed(a, f), NoFile)
  BY Zenon, SealOrNotCloses DEF StopJoin
<1> HIDE DEF a
<1> DEFINE m == Closed(a, f)
<1>1. /\ m \in Writer /\ m.recent = writer[w].recent
      /\ m.file.named = writer[w].file.named /\ m.file.recs = writer[w].file.recs
      /\ m.accepting = writer[w].accepting /\ m.pending = <<>>
  <2>1. a.file \in File
    BY Zenon, <1>0, <1>7, WriterFields
  <2>2. f \in File /\ f.named = a.file.named /\ f.recs = a.file.recs
    BY Zenon, <2>1, LeftFields
  <2> QED BY Zenon, <2>2, <1>7, ClosedFields
<1>2. SealFails(w, m) \/ Seal(w, m, NoFile)
  BY Zenon, <1>8
<1> HIDE DEF m
<1>3. /\ UNCHANGED <<accepted, curWriter, href, hpc, errored, wpkt, wpc>>
      /\ stopping' = [stopping EXCEPT ![w] = "done"] /\ wpc[w] = "exited"
  BY Zenon DEF StopJoin
<1>4. /\ ~writer[w].accepting /\ Count(w) <= accepted[w]
      /\ w \notin errored => Count(w) = accepted[w]
  BY Zenon, <1>0, <1>3 DEF QueueFollows
<1>5. /\ writer' \in [Writers -> Writer] /\ sealed' \in [Writers -> Seq(Seq(Nat))]
      /\ \A v \in Writers : v # w => writer'[v] = writer[v] /\ sealed'[v] = sealed[v]
      /\ RecordsPlaced(w)' /\ Count(w)' = Count(w) /\ ~writer'[w].accepting
      /\ writer'[w].pending = <<>>
  BY Zenon, <1>0, <1>1, <1>2, <1>4, SealOrNotKeeps
<1>6. wpc' = [wpc EXCEPT ![w] = "exited"]
  BY Zenon, <1>0, <1>3 DEF CaptureTyped
<1> QED BY Zenon, <1>1, <1>3, <1>4, <1>5, <1>6, EndsAt

(* The wait, and the beginning of stop(). *)
LEMMA QuietStep ==
    ASSUME WritersInv, NEW w \in Writers, Sleep(w) \/ StopFlag(w) \/ StopNotify(w)
    PROVE  WritersInv'
<1>0. CaptureTyped /\ RecordsPlaced(w) /\ QueueFollows(w) /\ writer[w] \in Writer
  BY Zenon, WriterFields DEF WritersInv, WriterInv
<1>1. UNCHANGED <<wpkt, sealed, accepted, curWriter, href, hpc, errored>>
  BY Zenon DEF Sleep, StopFlag, StopNotify
<1>2. /\ stopping' = stopping \/ stopping' = [stopping EXCEPT ![w] = "notify"]
         \/ stopping' = [stopping EXCEPT ![w] = "join"]
      /\ wpc' = wpc \/ (wpc[w] = "tested" /\ wpc' = [wpc EXCEPT ![w] = "asleep"])
         \/ (wpc[w] = "asleep" /\ wpc' = [wpc EXCEPT ![w] = "top"])
      /\ writer' = writer \/ writer' = [writer EXCEPT ![w].accepting = FALSE]
  BY Zenon DEF Sleep, StopFlag, StopNotify, Woken
<1>3. [writer[w] EXCEPT !.accepting = FALSE] \in Writer
  BY Zenon, <1>0 DEF Writer
<1>4. /\ writer' \in [Writers -> Writer] /\ writer'[w].file = writer[w].file
      /\ writer'[w].pending = writer[w].pending
      /\ writer'[w].accepting => writer[w].accepting
      /\ \A v \in Writers : v # w => writer'[v] = writer[v]
  <2>1. writer \in [Writers -> Writer]
    BY Zenon, <1>0 DEF CaptureTyped
  <2>2. CASE writer' = writer
    BY Zenon, <2>1, <2>2
  <2>3. CASE writer' = [writer EXCEPT ![w].accepting = FALSE]
    <3>1. /\ writer'[w] = [writer[w] EXCEPT !.accepting = FALSE]
          /\ \A v \in Writers : v # w => writer'[v] = writer[v]
          /\ writer' \in [Writers -> Writer]
      BY Zenon, <2>1, <2>3, <1>3
    <3> QED BY Zenon, <3>1, <1>0 DEF Writer
  <2> QED BY Zenon, <1>2, <2>2, <2>3
<1>5. /\ wpc'[w] = wpc[w] \/ (wpc[w] \in {"tested", "asleep"} /\ wpc'[w] \in {"top", "asleep"})
      /\ stopping'[w] = "done" => stopping[w] = "done"
      /\ \A v \in Writers : v # w => wpc'[v] = wpc[v] /\ stopping'[v] = stopping[v]
  BY <1>0, <1>2 DEF CaptureTyped
<1>6. OthersKept(w)
  BY Zenon, <1>1, <1>4, <1>5 DEF OthersKept
<1>7. CaptureTyped'
  <2>1. wpc' \in [Writers -> {"none", "top", "tested", "asleep", "write", "seal", "exited"}]
    <3>1. wpc \in [Writers -> {"none", "top", "tested", "asleep", "write", "seal", "exited"}]
      BY Zenon, <1>0 DEF CaptureTyped
    <3>2. wpc' = wpc \/ wpc' = [wpc EXCEPT ![w] = "asleep"] \/ wpc' = [wpc EXCEPT ![w] = "top"]
      BY Zenon, <1>2
    <3> QED BY Zenon, <3>1, <3>2
  <2>2. stopping' \in [Writers -> {"no", "flag", "notify", "join", "done"}]
    BY Zenon, <1>0, <1>2 DEF CaptureTyped
  <2> QED BY Zenon, <1>0, <1>1, <1>4, <2>1, <2>2 DEF CaptureTyped
<1>8. RecordsPlaced(w)' /\ Count(w)' = Count(w) /\ Popped(w)' = Popped(w)
  <2>1. RecordsPlaced(w)'
    BY Zenon, <1>0, <1>1, <1>4 DEF RecordsPlaced
  <2>2. Count(w)' = Count(w)
    BY Zenon, <1>1, <1>4 DEF Count
  <2>3. (wpc'[w] = "write") <=> (wpc[w] = "write")
    BY Zenon, <1>5
  <2>4. Popped(w)' = Popped(w)
    BY Zenon, <2>3 DEF Popped
  <2> QED BY Zenon, <2>1, <2>2, <2>4
<1>9. QueueFollows(w)'
  BY Zenon, <1>0, <1>1, <1>4, <1>5, <1>8 DEF QueueFollows
<1> QED BY Zenon, <1>6, <1>7, <1>8, <1>9, OneWriter DEF WriterInv

(* write_packet on a receive thread. *)
LEMMA PacketStep ==
    ASSUME WritersInv, NEW h \in Hooks, WritePacket(h)
    PROVE  WritersInv'
<1>1. PICK w \in Writers : w = href[h]
  BY Zenon DEF WritersInv, CaptureTyped, WritePacket
<1>2. CaptureTyped /\ RecordsPlaced(w) /\ QueueFollows(w)
  BY Zenon DEF WritersInv, WriterInv
<1>3. /\ UNCHANGED <<wpkt, sealed, curWriter, href, stopping, errored>>
      /\ hpc' = [hpc EXCEPT ![h] = "drop"] /\ hpc[h] # "idle"
  BY Zenon DEF WritePacket
<1>4. writer[w].pending \in Seq(Nat) /\ writer[w] \in Writer /\ Count(w) \in Nat
      /\ accepted[w] \in Nat
  BY <1>2, WriterFields, CountIsNat
<1>5. /\ hpc' \in [Hooks -> {"idle", "write", "drop", "destroy"}]
      /\ \A g \in Hooks : hpc'[g] # "idle" => href'[g] \in Writers
  BY <1>1, <1>2, <1>3 DEF CaptureTyped
<1>6. CASE writer[w].accepting /\ Len(writer[w].pending) < Pending
  <2> DEFINE q == Append(writer[w].pending, accepted[w] + 1)
  <2>1. /\ writer' = [writer EXCEPT ![w].pending = q]
        /\ accepted' = [accepted EXCEPT ![w] = @ + 1]
        /\ wpc' = Woken(wpc, w)
    BY Zenon, <1>1, <1>6 DEF WritePacket
  <2>2. /\ q \in Seq(Nat) /\ Len(q) = Len(writer[w].pending) + 1 /\ Len(writer[w].pending) \in Nat
        /\ \A i \in 1..Len(writer[w].pending) : q[i] = writer[w].pending[i]
        /\ q[Len(writer[w].pending) + 1] = accepted[w] + 1
    <3>1. accepted[w] + 1 \in Nat
      BY <1>4
    <3> QED BY <3>1, <1>4, PutFacts
  <2> HIDE DEF q
  <2>3. [writer[w] EXCEPT !.pending = q] \in Writer
    BY Zenon, <1>4, <2>2 DEF Writer
  <2>4. /\ writer' \in [Writers -> Writer] /\ writer'[w] = [writer[w] EXCEPT !.pending = q]
        /\ \A v \in Writers : v # w => writer'[v] = writer[v]
    BY Zenon, <1>2, <2>1, <2>3 DEF CaptureTyped
  <2>5. /\ writer'[w].file = writer[w].file /\ writer'[w].pending = q
        /\ writer'[w].accepting = writer[w].accepting
    BY Zenon, <1>4, <2>4 DEF Writer
  <2>6. /\ wpc' \in [Writers -> {"none", "top", "tested", "asleep", "write", "seal", "exited"}]
        /\ wpc'[w] = wpc[w] \/ (wpc[w] = "asleep" /\ wpc'[w] = "top")
        /\ \A v \in Writers : v # w => wpc'[v] = wpc[v]
    BY Zenon, <1>2, <2>1 DEF CaptureTyped, Woken
  <2>7. /\ accepted' \in [Writers -> Nat] /\ accepted'[w] = accepted[w] + 1
        /\ \A v \in Writers : v # w => accepted'[v] = accepted[v]
    BY <1>2, <1>4, <2>1 DEF CaptureTyped
  <2>8. OthersKept(w)
    BY Zenon, <1>3, <2>4, <2>6, <2>7 DEF OthersKept
  <2>9. CaptureTyped'
    BY Zenon, <1>2, <1>3, <1>5, <2>4, <2>6, <2>7 DEF CaptureTyped
  <2>10. RecordsPlaced(w)' /\ Count(w)' = Count(w) /\ Popped(w)' = Popped(w)
    BY <1>2, <1>3, <2>5, <2>6 DEF RecordsPlaced, Count, Popped
  <2>11. /\ wpc[w] \in {"top", "tested", "asleep", "write"}
         /\ wpc'[w] \in {"top", "tested", "asleep", "write"}
         /\ wpc'[w] = "write" <=> wpc[w] = "write"
    BY <1>2, <1>6, <2>6 DEF QueueFollows, CaptureTyped
  <2>12. /\ writer[w].file.open /\ writer[w].file.named /\ w \notin errored
         /\ wpc[w] = "write" => wpkt[w] = Count(w) + 1
         /\ accepted[w] = Count(w) + Popped(w) + Len(writer[w].pending)
         /\ \A k \in 1..Len(writer[w].pending) :
                writer[w].pending[k] = Count(w) + Popped(w) + k
         /\ stopping[w] # "done"
    BY Zenon, <1>2, <2>11 DEF QueueFollows
  <2>13. accepted'[w] = Count(w) + Popped(w) + Len(q)
    <3>1. Popped(w) \in Nat
      BY Zenon DEF Popped
    <3> QED BY <3>1, <2>12, <2>7, <2>2, <1>4
  <2>14. ASSUME NEW k \in 1..Len(q) PROVE q[k] = Count(w) + Popped(w) + k
    <3>1. CASE k \in 1..Len(writer[w].pending)
      BY Zenon, <3>1, <2>2, <2>12
    <3>2. CASE k \notin 1..Len(writer[w].pending)
      <4>1. k = Len(writer[w].pending) + 1 /\ k = Len(q)
        <5>1. \A l \in Nat : \A m \in 1..(l + 1) : m \in 1..l \/ m = l + 1
          OBVIOUS
        <5> QED BY Zenon, <3>2, <2>14, <2>2, <5>1
      <4> QED BY Zenon, <4>1, <2>13, <2>7, <2>2
    <3> QED BY Zenon, <3>1, <3>2
  <2>15. QueueFollows(w)'
    BY <1>3, <2>5, <2>10, <2>11, <2>12, <2>13, <2>14 DEF QueueFollows
  <2> QED BY <2>8, <2>9, <2>10, <2>15, OneWriter DEF WriterInv
<1>7. CASE ~(writer[w].accepting /\ Len(writer[w].pending) < Pending)
  <2>1. UNCHANGED <<writer, accepted, wpc>>
    BY Zenon, <1>1, <1>7 DEF WritePacket
  <2>2. CaptureTyped'
    BY Zenon, <1>2, <1>3, <1>5, <2>1 DEF CaptureTyped
  <2>3. \A v \in Writers : WriterInv(v)'
    BY Zenon, <1>3, <2>1, Untouched DEF WritersInv
  <2> QED BY Zenon, <2>2, <2>3 DEF WritersInv
<1> QED BY Zenon, <1>6, <1>7

(* A reload that starts a writer, which has written nothing. *)
LEMMA ReloadStep ==
    ASSUME WritersInv, ReloadEnabled
    PROVE  WritersInv'
<1>1. PICK w \in Writers :
         /\ wpc[w] = "none"
         /\ writer' = [writer EXCEPT ![w] = NewWriter]
         /\ wpc' = [wpc EXCEPT ![w] = "top"]
         /\ curWriter' = w
  BY Zenon DEF ReloadEnabled, Created
<1>2. CaptureTyped /\ RecordsPlaced(w) /\ QueueFollows(w)
  BY Zenon DEF WritersInv, WriterInv
<1>3. /\ UNCHANGED <<wpkt, hpc, href, accepted, sealed, errored>>
      /\ stopping' = stopping \/ (curWriter # 0 /\ stopping' = [stopping EXCEPT ![curWriter] = "flag"])
  BY Zenon DEF ReloadEnabled
<1>4. /\ stopping' \in [Writers -> {"no", "flag", "notify", "join", "done"}]
      /\ \A v \in Writers : stopping'[v] = "done" => stopping[v] = "done"
  BY Zenon, <1>2, <1>3 DEF CaptureTyped, Writers
<1>5. NewWriter \in Writer /\ NewWriter.file = EmptyFile /\ NewWriter.pending = <<>>
  <2>1. <<>> \in Seq(Nat) /\ <<>> \in Seq(FileIds)
    BY Zenon, SeqNone
  <2> QED BY Zenon, <2>1, FixedFiles DEF NewWriter, Writer
<1>6. EmptyFile.open /\ EmptyFile.named /\ EmptyFile.recs = <<>>
  BY Zenon, FixedFiles
<1>7. /\ writer' \in [Writers -> Writer] /\ writer'[w] = NewWriter
      /\ \A v \in Writers : v # w => writer'[v] = writer[v]
  BY Zenon, <1>1, <1>2, <1>5 DEF CaptureTyped
<1>8. /\ wpc' \in [Writers -> {"none", "top", "tested", "asleep", "write", "seal", "exited"}]
      /\ wpc'[w] = "top" /\ \A v \in Writers : v # w => wpc'[v] = wpc[v]
  BY Zenon, <1>1, <1>2 DEF CaptureTyped
<1>9. CaptureTyped'
  <2>1. curWriter' \in 0..MaxWriters
    BY <1>1, CaptureAssumption DEF Writers
  <2> QED BY <2>1, <1>2, <1>3, <1>4, <1>7, <1>8 DEF CaptureTyped
<1>10. ASSUME NEW v \in Writers, v # w PROVE WriterInv(v)'
  <2>1. WriterInv(v)
    BY Zenon DEF WritersInv
  <2> QED BY <2>1, <1>3, <1>4, <1>7, <1>8, <1>10, Untouched
<1>11. WriterInv(w)'
  <2>1. sealed[w] = <<>> /\ accepted[w] = 0 /\ w \notin errored /\ stopping[w] # "done"
    BY Zenon, <1>1, <1>2 DEF QueueFollows
  <2>2. Len(<<>>) = 0 /\ Before(0) = 0 /\ FileRecords \in Nat
    BY Zenon, BeforeFacts, CaptureAssumption
  <2>3. Count(w)' = 0 /\ Popped(w)' = 0
    BY <2>1, <2>2, <1>3, <1>5, <1>6, <1>7, <1>8 DEF Count, Popped
  <2>4. RecordsPlaced(w)'
    <3>1. 1..0 = {} /\ 0 <= FileRecords
      BY <2>2
    <3> QED BY Zenon, <3>1, <2>1, <2>2, <1>3, <1>5, <1>6, <1>7 DEF RecordsPlaced
  <2>5. QueueFollows(w)'
    BY <2>1, <2>2, <2>3, <1>3, <1>4, <1>5, <1>6, <1>7, <1>8 DEF QueueFollows
  <2> QED BY Zenon, <2>4, <2>5 DEF WriterInv
<1> QED BY Zenon, <1>9, <1>10, <1>11 DEF WritersInv

(* The steps that leave every writer alone or only ask one to stop. *)
LEMMA OtherStep ==
    ASSUME WritersInv,
           \/ \E h \in Hooks : HookLoad(h) \/ HookDrop(h) \/ HookDestroyed(h)
           \/ ReloadDisabled \/ ShutdownCapture \/ ShutdownDone \/ Mover
           \/ UNCHANGED capVars
    PROVE  WritersInv'
<1>1. CaptureTyped
  BY Zenon DEF WritersInv
<1>2. UNCHANGED <<writer, wpc, wpkt, accepted, sealed, errored>>
  BY Zenon DEF HookLoad, HookDrop, HookDestroyed, ReloadDisabled, ShutdownCapture, ShutdownDone,
         Mover, MoverPick, MoverCopy, MoverSeal, MoverRemove, MoverRestart, moverElse, capVars
<1>3. /\ CaptureTyped'
      /\ \A v \in Writers : stopping'[v] = "done" => stopping[v] = "done"
  <2>1. ASSUME NEW h \in Hooks, HookLoad(h)
        PROVE  CaptureTyped' /\ stopping' = stopping
    <3>1. curWriter \in Writers
      <4>1. curWriter # 0 /\ curWriter \in 0..MaxWriters /\ MaxWriters \in Nat
        BY ZenonT(30), <1>1, <2>1, CaptureAssumption DEF HookLoad, CaptureTyped
      <4> QED BY <4>1 DEF Writers
    <3> QED BY Zenon, <1>1, <1>2, <2>1, <3>1 DEF HookLoad, CaptureTyped
  <2>2. ASSUME NEW h \in Hooks, HookDrop(h)
        PROVE  /\ CaptureTyped'
               /\ \A v \in Writers : stopping'[v] = "done" => stopping[v] = "done"
    <3>1. href[h] \in Writers
      BY Zenon, <1>1, <2>2 DEF HookDrop, CaptureTyped
    <3>2. CASE LastRef(href[h], h)
      <4>1. /\ stopping' = [stopping EXCEPT ![href[h]] = "flag"]
            /\ hpc' = [hpc EXCEPT ![h] = "destroy"] /\ UNCHANGED <<href, curWriter>>
        BY Zenon, <2>2, <3>2 DEF HookDrop
      <4> QED BY Zenon, <1>1, <1>2, <3>1, <4>1 DEF CaptureTyped
    <3>3. CASE ~LastRef(href[h], h)
      <4>1. /\ href' = [href EXCEPT ![h] = 0]
            /\ hpc' = [hpc EXCEPT ![h] = "idle"] /\ UNCHANGED <<stopping, curWriter>>
        BY Zenon, <2>2, <3>3 DEF HookDrop
      <4>2. 0 \in 0..MaxWriters
        BY CaptureAssumption
      <4> QED BY <1>1, <1>2, <3>1, <4>1, <4>2 DEF CaptureTyped
    <3> QED BY Zenon, <3>2, <3>3
  <2>3. ASSUME NEW h \in Hooks, HookDestroyed(h)
        PROVE  CaptureTyped' /\ stopping' = stopping
    <3>1. 0 \in 0..MaxWriters
      BY CaptureAssumption
    <3> QED BY <1>1, <1>2, <2>3, <3>1 DEF HookDestroyed, CaptureTyped
  <2>4. ASSUME ReloadDisabled \/ ShutdownCapture
        PROVE  /\ CaptureTyped'
               /\ \A v \in Writers : stopping'[v] = "done" => stopping[v] = "done"
    <3>1. /\ UNCHANGED <<hpc, href>> /\ curWriter' = 0
          /\ stopping' = stopping
             \/ (curWriter # 0 /\ stopping' = [stopping EXCEPT ![curWriter] = "flag"])
      BY Zenon, <2>4 DEF ReloadDisabled, ShutdownCapture
    <3>2. 0 \in 0..MaxWriters
      BY CaptureAssumption
    <3>3. /\ stopping' \in [Writers -> {"no", "flag", "notify", "join", "done"}]
          /\ \A v \in Writers : stopping'[v] = "done" => stopping[v] = "done"
      BY Zenon, <1>1, <3>1 DEF CaptureTyped
    <3> QED BY Zenon, <1>1, <1>2, <3>1, <3>2, <3>3 DEF CaptureTyped
  <2>5. ASSUME UNCHANGED <<stopping, curWriter, hpc, href>>
        PROVE  CaptureTyped' /\ stopping' = stopping
    BY Zenon, <1>1, <1>2, <2>5 DEF CaptureTyped
  <2>6. Mover \/ ShutdownDone \/ UNCHANGED capVars => UNCHANGED <<stopping, curWriter, hpc, href>>
    BY Zenon DEF ShutdownDone, Mover, MoverPick, MoverCopy, MoverSeal, MoverRemove, MoverRestart,
           moverElse, capVars
  <2> QED BY Zenon, <2>1, <2>2, <2>3, <2>4, <2>5, <2>6
<1>4. ASSUME NEW v \in Writers PROVE WriterInv(v)'
  <2>1. WriterInv(v)
    BY Zenon DEF WritersInv
  <2> QED BY Zenon, <2>1, <1>2, <1>3, Untouched
<1> QED BY Zenon, <1>3, <1>4 DEF WritersInv

(* With no writer started the invariant holds. *)
LEMMA WritersStart == CaptureInit => WritersInv
<1> SUFFICES ASSUME CaptureInit PROVE WritersInv
  BY Zenon
<1>1. /\ NewWriter \in Writer /\ NewWriter.file = EmptyFile /\ NewWriter.pending = <<>>
      /\ NewWriter.recording
  <2>1. <<>> \in Seq(Nat) /\ <<>> \in Seq(FileIds)
    BY Zenon, SeqNone
  <2> QED BY Zenon, <2>1, FixedFiles DEF NewWriter, Writer
<1>2. /\ EmptyFile.open /\ EmptyFile.named /\ EmptyFile.recs = <<>>
      /\ NoFile \in File /\ ~NoFile.named /\ NoFile.recs = <<>>
  BY Zenon, FixedFiles
<1>3. Absent \in Writer /\ Absent.file = NoFile /\ ~Absent.accepting /\ Absent.pending = <<>>
  BY Zenon, <1>1, <1>2 DEF Absent, Writer
<1>4. Len(<<>>) = 0 /\ Before(0) = 0 /\ FileRecords \in Nat /\ <<>> \in Seq(Seq(Nat))
      /\ MaxWriters \in Nat \ {0}
  BY BeforeFacts, CaptureAssumption
<1>5. CaptureTyped
  <2>1. writer \in [Writers -> Writer]
    BY Zenon, <1>1, <1>3 DEF CaptureInit
  <2>2. wpc \in [Writers -> {"none", "top", "tested", "asleep", "write", "seal", "exited"}]
    BY Zenon DEF CaptureInit
  <2> QED BY <2>1, <2>2, <1>4 DEF CaptureInit, CaptureTyped
<1>6. ASSUME NEW w \in Writers PROVE WriterInv(w)
  <2>1. /\ sealed[w] = <<>> /\ accepted[w] = 0 /\ wpkt[w] = 0 /\ stopping[w] = "no"
        /\ w \notin errored
        /\ writer[w] = IF w = 1 THEN NewWriter ELSE Absent
        /\ wpc[w] = IF w = 1 THEN "top" ELSE "none"
    BY Zenon DEF CaptureInit
  <2>2. Count(w) = 0 /\ Popped(w) = 0
    BY <2>1, <1>1, <1>2, <1>3, <1>4 DEF Count, Popped
  <2>3. RecordsPlaced(w)
    BY <2>1, <1>1, <1>2, <1>3, <1>4 DEF RecordsPlaced
  <2>4. QueueFollows(w)
    BY <2>1, <2>2, <1>1, <1>2, <1>3, <1>4 DEF QueueFollows
  <2> QED BY Zenon, <2>3, <2>4 DEF WriterInv
<1> QED BY Zenon, <1>5, <1>6 DEF WritersInv

(* Every step of hooks, writers and mover keeps the invariant. *)
LEMMA WritersStep == WritersInv /\ [CaptureNext]_capVars => WritersInv'
<1> SUFFICES ASSUME WritersInv, [CaptureNext]_capVars PROVE WritersInv'
  BY Zenon
<1>1. ASSUME NEW w \in Writers, WriterStep(w) PROVE WritersInv'
  BY <1>1, LoopTopStep, QuietStep, WriteStep, FinalSealStep DEF WriterStep
<1>2. ASSUME NEW w \in Writers, StopStep(w) PROVE WritersInv'
  BY Zenon, <1>2, QuietStep, StopJoinStep DEF StopStep
<1>3. ASSUME NEW h \in Hooks, HookStep(h) PROVE WritersInv'
  BY Zenon, <1>3, PacketStep, OtherStep DEF HookStep
<1> QED BY Zenon, <1>1, <1>2, <1>3, WriteFailsStep, ReloadStep, OtherStep DEF CaptureNext

----------------------------------------------------------------------------
(* The n records of a closed file are on the disk, or a write was bad. *)
Written(d, n) == d.kept <= n /\ (d.bad \/ d.kept = n)

Kept == [kept : Nat, bad : BOOLEAN]

FileWritten(f) ==
    /\ f.kept <= Len(f.recs)
    /\ ~f.open => Written(OnDisk(f), Len(f.recs))

DiskWritten(w) ==
    /\ disk[w] \in Seq(Kept) /\ Len(disk[w]) = Len(sealed[w])
    /\ \A i \in 1..Len(sealed[w]) : Written(disk[w][i], Len(sealed[w][i]))
    /\ FileWritten(writer[w].file)

(* The inductive invariant of the disk: it has what the closed files were  *)
(* given, and a writer thread leaves none open.                            *)
DisksInv ==
    /\ disk \in [Writers -> Seq(Kept)]
    /\ \A w \in Writers : DiskWritten(w) /\ (wpc[w] = "exited" => ~writer[w].file.open)

(* What a step leaves in the place of the file is closed. *)
LEMMA LeftWritten ==
    ASSUME NEW f \in File, FileWritten(f), NEW g \in Left(f) \cup Cut(f)
    PROVE  Written(OnDisk(g), Len(g.recs))
<1>1. Len(f.recs) \in Nat
  <2>1. f.recs \in Seq(Nat)
    BY Zenon DEF File
  <2> QED BY Zenon, <2>1, SeqLen
<1>2. g.recs = f.recs
  BY Zenon, LeftFields
<1>3. CASE g \in Cut(f)
  <2>1. PICK n \in 0..Len(f.recs) : g = [f EXCEPT !.open = FALSE, !.kept = n, !.bad = TRUE]
    BY Zenon, <1>3 DEF Cut
  <2>2. g.kept = n /\ g.bad
    BY Zenon, <2>1 DEF File
  <2>3. n <= Len(f.recs)
    BY <1>1
  <2> QED BY Zenon, <1>2, <2>2, <2>3 DEF Written, OnDisk
<1>4. CASE g = Flushed(f) /\ f.open
  <2>1. g.kept = Len(f.recs)
    BY Zenon, <1>4 DEF Flushed, File
  <2>2. Len(f.recs) <= Len(f.recs)
    BY <1>1
  <2> QED BY Zenon, <1>2, <2>1, <2>2 DEF Written, OnDisk
<1>5. CASE g = Flushed(f) /\ ~f.open
  <2>1. g.kept = f.kept /\ g.bad = f.bad
    BY Zenon, <1>5 DEF Flushed, File
  <2> QED BY Zenon, <1>2, <1>5, <2>1 DEF FileWritten, Written, OnDisk
<1> QED BY Zenon, <1>3, <1>4, <1>5 DEF Left

(* What seal_current_file adds to the disk is a closed file. *)
LEMMA SealDisk ==
    ASSUME NEW w \in Writers, CaptureTyped, DisksInv, NEW wr \in Writer, NEW f \in File,
           Written(OnDisk(wr.file), Len(wr.file.recs)), FileWritten(f), Seal(w, wr, f)
    PROVE  /\ disk' \in [Writers -> Seq(Kept)] /\ DiskWritten(w)' /\ writer'[w].file = f
           /\ \A v \in Writers : v # w => /\ writer'[v] = writer[v] /\ sealed'[v] = sealed[v]
                                          /\ disk'[v] = disk[v]
<1>1. sealed[w] \in Seq(Seq(Nat)) /\ disk[w] \in Seq(Kept) /\ wr.file \in File
      /\ Len(disk[w]) = Len(sealed[w])
  BY Zenon, WriterFields DEF DisksInv, DiskWritten, Writer
<1>2. wr.file.recs \in Seq(Nat) /\ OnDisk(wr.file) \in Kept
  BY Zenon, <1>1 DEF File, OnDisk, Kept
<1>3. writer'[w].file = f /\ \A v \in Writers : v # w => writer'[v] = writer[v]
  <2>1. \/ \E r : writer' = [writer EXCEPT ![w] = [wr EXCEPT !.file = f, !.recent = r]]
        \/ writer' = [writer EXCEPT ![w] = [wr EXCEPT !.file = f]]
    BY Zenon DEF Seal
  <2>2. PICK m : m.file = f /\ writer' = [writer EXCEPT ![w] = m]
    BY Zenon, <2>1 DEF Writer
  <2> QED BY Zenon, <2>2 DEF CaptureTyped
<1>4. CASE wr.file.named
  <2> DEFINE s == Append(sealed[w], wr.file.recs)
             d == Append(disk[w], OnDisk(wr.file))
             n == Len(sealed[w])
  <2>1. sealed' = [sealed EXCEPT ![w] = s] /\ disk' = [disk EXCEPT ![w] = d]
    BY Zenon, <1>4 DEF Seal
  <2>2. PICK S : S = Seq(Nat)
    BY Zenon
  <2>3. sealed[w] \in Seq(S) /\ wr.file.recs \in S
    BY Zenon, <1>1, <1>2, <2>2
  <2>4. Len(s) = n + 1 /\ s[n + 1] = wr.file.recs /\ \A i \in 1..n : s[i] = sealed[w][i]
    BY <2>3, PutFacts
  <2>5. /\ d \in Seq(Kept) /\ Len(d) = n + 1 /\ d[n + 1] = OnDisk(wr.file)
        /\ \A i \in 1..n : d[i] = disk[w][i]
    <3>1. /\ d \in Seq(Kept) /\ Len(d) = Len(disk[w]) + 1
          /\ d[Len(disk[w]) + 1] = OnDisk(wr.file)
          /\ \A i \in 1..Len(disk[w]) : d[i] = disk[w][i]
      <4>1. PICK t \in Seq(Kept), e \in Kept : t = disk[w] /\ e = OnDisk(wr.file)
        BY Zenon, <1>1, <1>2
      <4>2. /\ Append(t, e) \in Seq(Kept) /\ Len(Append(t, e)) = Len(t) + 1
            /\ Append(t, e)[Len(t) + 1] = e
            /\ \A i \in 1..Len(t) : Append(t, e)[i] = t[i]
        BY PutFacts
      <4> QED BY Zenon, <4>1, <4>2
    <3> QED BY Zenon, <1>1, <3>1
  <2>6. n \in Nat
    BY Zenon, <1>1, SeqLen
  <2> HIDE DEF s, d, n
  <2>7. \A i \in 1..(n + 1) : i \in 1..n \/ i = n + 1
    BY <2>6
  <2>8. \A i \in 1..n : Written(disk[w][i], Len(sealed[w][i]))
    BY Zenon DEF DisksInv, DiskWritten, n
  <2>9. \A i \in 1..Len(s) : Written(d[i], Len(s[i]))
    BY Zenon, <2>4, <2>5, <2>7, <2>8
  <2>10. disk'[w] = d /\ sealed'[w] = s /\ disk' \in [Writers -> Seq(Kept)]
         /\ \A v \in Writers : v # w => sealed'[v] = sealed[v] /\ disk'[v] = disk[v]
    BY Zenon, <2>1, <2>5 DEF CaptureTyped, DisksInv
  <2>11. DiskWritten(w)'
    BY Zenon, <1>3, <2>4, <2>5, <2>9, <2>10 DEF DiskWritten
  <2> QED BY Zenon, <1>3, <2>10, <2>11
<1>5. CASE ~wr.file.named
  <2>1. sealed' = sealed /\ disk' = disk
    BY Zenon, <1>5 DEF Seal
  <2>2. DiskWritten(w)'
    BY Zenon, <1>3, <2>1 DEF DisksInv, DiskWritten
  <2> QED BY Zenon, <1>3, <2>1, <2>2 DEF DisksInv
<1> QED BY Zenon, <1>4, <1>5

(* A step of the writer w that leaves the others alone. *)
LEMMA OneDisk ==
    ASSUME DisksInv, NEW w \in Writers, disk' \in [Writers -> Seq(Kept)],
           DiskWritten(w)', wpc'[w] = "exited" => ~writer'[w].file.open,
           \A v \in Writers : v # w => /\ writer'[v] = writer[v] /\ sealed'[v] = sealed[v]
                                       /\ disk'[v] = disk[v] /\ wpc'[v] = wpc[v]
    PROVE  DisksInv'
<1>1. ASSUME NEW v \in Writers, v # w
      PROVE  DiskWritten(v)' /\ (wpc'[v] = "exited" => ~writer'[v].file.open)
  BY Zenon, <1>1 DEF DisksInv, DiskWritten
<1> QED BY Zenon, <1>1 DEF DisksInv

(* A closed file that is sealed, or that cannot be renamed. *)
LEMMA CloseDisk ==
    ASSUME NEW w \in Writers, CaptureTyped, DisksInv, NEW wr \in Writer,
           Written(OnDisk(wr.file), Len(wr.file.recs)), ~wr.file.open,
           \/ SealFails(w, wr) \/ Seal(w, wr, NoFile)
           \/ writer' = [writer EXCEPT ![w] = wr] /\ UNCHANGED <<sealed, disk>>,
           \A v \in Writers : v # w => wpc'[v] = wpc[v]
    PROVE  DisksInv'
<1>1. CASE Seal(w, wr, NoFile)
  <2>1. NoFile \in File /\ ~NoFile.open /\ FileWritten(NoFile)
    <3>1. NoFile \in File /\ ~NoFile.open /\ NoFile.kept = 0 /\ NoFile.recs = <<>> /\ Len(<<>>) = 0
      BY Zenon, FixedFiles
    <3>2. 0 <= 0
      OBVIOUS
    <3> QED BY Zenon, <3>1, <3>2 DEF FileWritten, Written, OnDisk
  <2>2. /\ disk' \in [Writers -> Seq(Kept)] /\ DiskWritten(w)' /\ writer'[w].file = NoFile
        /\ \A v \in Writers : v # w => /\ writer'[v] = writer[v] /\ sealed'[v] = sealed[v]
                                       /\ disk'[v] = disk[v]
    BY Zenon, <1>1, <2>1, SealDisk
  <2> QED BY Zenon, <2>1, <2>2, OneDisk
<1>2. CASE writer' = [writer EXCEPT ![w] = wr] /\ UNCHANGED <<sealed, disk>>
  <2>1. writer'[w] = wr /\ \A v \in Writers : v # w => writer'[v] = writer[v]
    BY Zenon, <1>2 DEF CaptureTyped
  <2>2. FileWritten(wr.file)
    BY Zenon DEF FileWritten, Written, OnDisk
  <2>3. DiskWritten(w)'
    BY Zenon, <1>2, <2>1, <2>2 DEF DisksInv, DiskWritten
  <2>4. disk' \in [Writers -> Seq(Kept)] /\ sealed' = sealed /\ disk' = disk
    BY Zenon, <1>2 DEF DisksInv
  <2> QED BY Zenon, <2>1, <2>3, <2>4, OneDisk
<1> QED BY Zenon, <1>1, <1>2 DEF SealFails

(* Nothing is on the disk at first. *)
LEMMA DisksStart == CaptureInit => DisksInv
<1>0. CaptureInit => disk \in [Writers -> Seq(Kept)]
  <2>1. CaptureInit => disk = [w \in Writers |-> <<>>]
    BY Zenon DEF CaptureInit
  <2>2. <<>> \in Seq(Kept)
    BY Zenon, SeqNone
  <2> QED BY Zenon, <2>1, <2>2
<1> SUFFICES ASSUME CaptureInit, NEW w \in Writers
             PROVE  DiskWritten(w) /\ wpc[w] # "exited"
  BY Zenon, <1>0 DEF DisksInv
<1>1. disk[w] = <<>> /\ sealed[w] = <<>> /\ <<>> \in Seq(Kept) /\ Len(<<>>) = 0
  BY Zenon, SeqNone DEF CaptureInit
<1>2. writer[w].file = EmptyFile \/ writer[w].file = NoFile
  BY Zenon DEF CaptureInit, NewWriter, Absent
<1>3. FileWritten(writer[w].file)
  <2>1. 0 <= 0
    OBVIOUS
  <2> QED BY Zenon, <1>1, <1>2, <2>1, FixedFiles DEF FileWritten, Written, OnDisk
<1>4. \A i : i \notin 1..0
  OBVIOUS
<1> QED BY Zenon, <1>1, <1>3, <1>4 DEF CaptureInit, DiskWritten

(* A record given to the stream, in the file that is open or in a new one. *)
LEMMA RecordDisk ==
    ASSUME NEW w \in Writers, CaptureTyped, DisksInv, WriteRecord(w)
    PROVE  DisksInv'
<1>1. writer[w] \in Writer /\ writer[w].file \in File /\ wpkt[w] \in Nat
      /\ writer[w].file.recs \in Seq(Nat) /\ FileWritten(writer[w].file)
  BY Zenon, WriterFields DEF DisksInv, DiskWritten
<1>2. /\ wpc' = [wpc EXCEPT ![w] = "top"] /\ writer[w].file.open
      /\ wpc'[w] # "exited" /\ \A v \in Writers : v # w => wpc'[v] = wpc[v]
  BY Zenon DEF WriteRecord, CaptureTyped
<1>3. ASSUME NEW f \in File, f.open, FileWritten(f)
      PROVE  FileWritten(Recorded(f, wpkt[w])) /\ Recorded(f, wpkt[w]) \in File
  <2>1. f.recs \in Seq(Nat) /\ f.kept \in Nat
    BY Zenon DEF File
  <2>2. /\ Append(f.recs, wpkt[w]) \in Seq(Nat) /\ Len(f.recs) \in Nat
        /\ Len(Append(f.recs, wpkt[w])) = Len(f.recs) + 1
    BY <1>1, <2>1, PutFacts
  <2>3. /\ Recorded(f, wpkt[w]) \in File /\ Recorded(f, wpkt[w]).kept = f.kept
        /\ Recorded(f, wpkt[w]).recs = Append(f.recs, wpkt[w]) /\ Recorded(f, wpkt[w]).open
    BY Zenon, <1>3, <2>2 DEF Recorded, File
  <2>4. f.kept <= Len(f.recs)
    BY Zenon, <1>3 DEF FileWritten
  <2>5. \A a, b \in Nat : a <= b => a <= b + 1
    OBVIOUS
  <2>6. f.kept <= Len(Append(f.recs, wpkt[w]))
    BY Zenon, <2>1, <2>2, <2>4, <2>5
  <2> QED BY Zenon, <2>3, <2>6 DEF FileWritten
<1>4. CASE /\ writer' = [writer EXCEPT ![w].file = Recorded(@, wpkt[w])]
           /\ UNCHANGED <<sealed, disk>>
  <2>1. writer'[w].file = Recorded(writer[w].file, wpkt[w])
        /\ \A v \in Writers : v # w => writer'[v] = writer[v]
    BY Zenon, <1>1, <1>4 DEF CaptureTyped, Writer
  <2>2. FileWritten(writer'[w].file)
    BY Zenon, <1>1, <1>2, <1>3, <2>1
  <2>3. DiskWritten(w)'
    BY Zenon, <1>4, <2>2 DEF DisksInv, DiskWritten
  <2>4. disk' \in [Writers -> Seq(Kept)] /\ sealed' = sealed /\ disk' = disk
    BY Zenon, <1>4 DEF DisksInv
  <2> QED BY Zenon, <1>2, <2>1, <2>3, <2>4, OneDisk
<1>5. CASE \E g \in Left(writer[w].file) :
              Seal(w, Closed(writer[w], g), Recorded(EmptyFile, wpkt[w]))
  <2>1. PICK g \in Left(writer[w].file) :
           Seal(w, Closed(writer[w], g), Recorded(EmptyFile, wpkt[w]))
    BY Zenon, <1>5
  <2>2. g \in File /\ Written(OnDisk(g), Len(g.recs))
    BY Zenon, <1>1, LeftFields, LeftWritten
  <2>3. Closed(writer[w], g) \in Writer /\ Closed(writer[w], g).file = g
    BY Zenon, <1>1, <2>2, ClosedFields
  <2>4. FileWritten(EmptyFile) /\ EmptyFile \in File /\ EmptyFile.open
    <3>1. /\ EmptyFile \in File /\ EmptyFile.open /\ EmptyFile.kept = 0 /\ EmptyFile.recs = <<>>
          /\ Len(<<>>) = 0
      BY Zenon, FixedFiles
    <3>2. 0 <= 0
      OBVIOUS
    <3> QED BY Zenon, <3>1, <3>2 DEF FileWritten
  <2>5. FileWritten(Recorded(EmptyFile, wpkt[w])) /\ Recorded(EmptyFile, wpkt[w]) \in File
    BY Zenon, <1>3, <2>4
  <2>6. /\ disk' \in [Writers -> Seq(Kept)] /\ DiskWritten(w)'
        /\ \A v \in Writers : v # w => /\ writer'[v] = writer[v] /\ sealed'[v] = sealed[v]
                                       /\ disk'[v] = disk[v]
    BY Zenon, <2>1, <2>2, <2>3, <2>5, SealDisk
  <2> QED BY Zenon, <1>2, <2>6, OneDisk
<1> QED BY Zenon, <1>4, <1>5 DEF WriteRecord

(* The queue and the flag of a writer are apart from its file. *)
LEMMA FileStays ==
    ASSUME CaptureTyped, NEW w \in Writers, NEW v \in Writers, NEW x,
           \/ writer' = [writer EXCEPT ![w].pending = x]
           \/ writer' = [writer EXCEPT ![w].accepting = x]
    PROVE  writer'[v].file = writer[v].file
<1>1. /\ \/ writer'[w] = [writer[w] EXCEPT !.pending = x]
         \/ writer'[w] = [writer[w] EXCEPT !.accepting = x]
      /\ v # w => writer'[v] = writer[v]
  BY Zenon DEF CaptureTyped
<1>2. writer[w] \in Writer
  BY Zenon, WriterFields
<1>3. writer'[w].file = writer[w].file
  BY Zenon, <1>1, <1>2 DEF Writer
<1> QED BY Zenon, <1>1, <1>3

(* Every step keeps on the disk what is there. *)
LEMMA DisksStep == WritersInv /\ DisksInv /\ [CaptureNext]_capVars => DisksInv'
<1> SUFFICES ASSUME WritersInv, DisksInv, [CaptureNext]_capVars PROVE DisksInv'
  BY Zenon
<1>0. CaptureTyped
  BY Zenon DEF WritersInv
<1>1. ASSUME NEW w \in Writers
      PROVE  writer[w] \in Writer /\ writer[w].file \in File /\ FileWritten(writer[w].file)
  BY Zenon, <1>0, WriterFields DEF DisksInv, DiskWritten
<1>2. ASSUME NEW w \in Writers, WriteRecord(w) PROVE DisksInv'
  BY Zenon, <1>0, <1>2, RecordDisk
<1>3. ASSUME NEW w \in Writers, WriteFails(w) PROVE DisksInv'
  <2>1. PICK f \in Left(writer[w].file) \cup Cut(writer[w].file) :
           \/ writer' = [writer EXCEPT ![w] = Errored(writer[w], f)] /\ UNCHANGED <<sealed, disk>>
           \/ SealFails(w, Errored(writer[w], f)) \/ Seal(w, Errored(writer[w], f), NoFile)
    BY Zenon, <1>3 DEF WriteFails
  <2> DEFINE m == Errored(writer[w], f)
  <2>2. f \in File /\ ~f.open /\ Written(OnDisk(f), Len(f.recs))
    BY Zenon, <1>1, LeftFields, LeftWritten
  <2>3. m \in Writer /\ m.file = f
    BY Zenon, <1>1, <2>2, ClosedFields
  <2>4. \/ SealFails(w, m) \/ Seal(w, m, NoFile)
        \/ writer' = [writer EXCEPT ![w] = m] /\ UNCHANGED <<sealed, disk>>
    BY Zenon, <2>1
  <2> HIDE DEF m
  <2>5. \A v \in Writers : v # w => wpc'[v] = wpc[v]
    BY Zenon, <1>0, <1>3 DEF WriteFails, CaptureTyped
  <2> QED BY Zenon, <1>0, <2>2, <2>3, <2>4, <2>5, CloseDisk
<1>4. ASSUME NEW w \in Writers, FinalSeal(w) \/ StopJoin(w) PROVE DisksInv'
  <2> DEFINE a == [writer[w] EXCEPT !.recording = FALSE]
             b == [writer[w] EXCEPT !.pending = <<>>, !.recording = FALSE]
  <2>1. a \in Writer /\ a.file = writer[w].file /\ b \in Writer /\ b.file = writer[w].file
    <3>1. <<>> \in Seq(Nat) /\ writer[w] \in Writer
      BY Zenon, <1>1, SeqNone
    <3> QED BY Zenon, <3>1 DEF Writer
  <2>2. SealOrNot(w, a) \/ SealOrNot(w, b)
    BY Zenon, <1>4 DEF FinalSeal, StopJoin
  <2> HIDE DEF a, b
  <2>3. PICK c \in Writer : c.file = writer[w].file /\ SealOrNot(w, c)
    BY Zenon, <2>1, <2>2
  <2>4. PICK f \in Left(c.file) : SealFails(w, Closed(c, f)) \/ Seal(w, Closed(c, f), NoFile)
    BY Zenon, <2>3, SealOrNotCloses
  <2>5. f \in File /\ ~f.open /\ Written(OnDisk(f), Len(f.recs))
    BY Zenon, <1>1, <2>3, LeftFields, LeftWritten
  <2>6. Closed(c, f) \in Writer /\ Closed(c, f).file = f
    BY Zenon, <2>5, ClosedFields
  <2>7. \A v \in Writers : v # w => wpc'[v] = wpc[v]
    BY Zenon, <1>0, <1>4 DEF FinalSeal, StopJoin, CaptureTyped
  <2> QED BY Zenon, <1>0, <2>4, <2>5, <2>6, <2>7, CloseDisk
<1>5. ASSUME UNCHANGED <<sealed, disk>>,
             \A w \in Writers : /\ writer'[w].file = writer[w].file
                                /\ wpc'[w] = "exited" => wpc[w] = "exited"
      PROVE  DisksInv'
  <2>1. ASSUME NEW w \in Writers
        PROVE  DiskWritten(w)' /\ (wpc'[w] = "exited" => ~writer'[w].file.open)
    BY Zenon, <1>5 DEF DisksInv, DiskWritten
  <2> QED BY Zenon, <1>5, <2>1 DEF DisksInv
<1>6. ASSUME NEW w \in Writers, LoopTop(w) \/ Sleep(w) \/ StopFlag(w) \/ StopNotify(w)
      PROVE  DisksInv'
  <2>1. UNCHANGED <<sealed, disk>>
    BY Zenon, <1>6 DEF LoopTop, Sleep, StopFlag, StopNotify
  <2>2. \/ writer' = writer
        \/ writer' = [writer EXCEPT ![w].pending = Tail(@)]
        \/ writer' = [writer EXCEPT ![w].accepting = FALSE]
    BY Zenon, <1>6 DEF LoopTop, Sleep, StopFlag, StopNotify
  <2>3. \A v \in Writers : writer'[v].file = writer[v].file
    <3>1. CASE writer' = writer
      BY Zenon, <3>1
    <3>2. CASE writer' = [writer EXCEPT ![w].pending = Tail(@)]
      BY <1>0, <3>2, FileStays
    <3>3. CASE writer' = [writer EXCEPT ![w].accepting = FALSE]
      BY <1>0, <3>3, FileStays
    <3> QED BY Zenon, <2>2, <3>1, <3>2, <3>3
  <2>4. \/ wpc' = wpc
        \/ \E x \in {"top", "tested", "asleep", "write", "seal"} : wpc' = [wpc EXCEPT ![w] = x]
    BY Zenon, <1>6 DEF LoopTop, Sleep, StopFlag, StopNotify, Woken
  <2>5. \A v \in Writers : wpc'[v] = "exited" => wpc[v] = "exited"
    BY Zenon, <1>0, <2>4 DEF CaptureTyped
  <2> QED BY Zenon, <1>5, <2>1, <2>3, <2>5
<1>7. ASSUME NEW h \in Hooks, WritePacket(h) PROVE DisksInv'
  <2>1. UNCHANGED <<sealed, disk>> /\ href[h] \in Writers
    BY Zenon, <1>0, <1>7 DEF WritePacket, CaptureTyped
  <2> DEFINE w == href[h]
  <2>2. writer' = writer \/ writer' = [writer EXCEPT ![w].pending = Append(@, accepted[w] + 1)]
    BY Zenon, <1>7 DEF WritePacket
  <2>3. \A v \in Writers : writer'[v].file = writer[v].file
    <3>1. CASE writer' = writer
      BY Zenon, <3>1
    <3>2. CASE writer' = [writer EXCEPT ![w].pending = Append(@, accepted[w] + 1)]
      BY <1>0, <2>1, <3>2, FileStays
    <3> QED BY Zenon, <2>2, <3>1, <3>2
  <2>4. wpc' = wpc \/ wpc' = [wpc EXCEPT ![w] = "top"]
    BY Zenon, <1>7 DEF WritePacket, Woken
  <2>5. \A v \in Writers : wpc'[v] = "exited" => wpc[v] = "exited"
    BY Zenon, <1>0, <2>4 DEF CaptureTyped
  <2> QED BY Zenon, <1>5, <2>1, <2>3, <2>5
<1>8. ASSUME ReloadEnabled PROVE DisksInv'
  <2>1. PICK w \in Writers : /\ writer' = [writer EXCEPT ![w] = NewWriter]
                             /\ wpc' = [wpc EXCEPT ![w] = "top"]
    BY Zenon, <1>8 DEF ReloadEnabled
  <2>2. UNCHANGED <<sealed, disk>>
    BY Zenon, <1>8 DEF ReloadEnabled
  <2>3. /\ writer'[w].file = EmptyFile /\ wpc'[w] # "exited"
        /\ \A v \in Writers : v # w => writer'[v] = writer[v] /\ wpc'[v] = wpc[v]
    BY Zenon, <1>0, <2>1 DEF CaptureTyped, NewWriter
  <2>4. FileWritten(EmptyFile)
    <3>1. EmptyFile.open /\ EmptyFile.kept = 0 /\ EmptyFile.recs = <<>> /\ Len(<<>>) = 0
      BY Zenon, FixedFiles
    <3>2. 0 <= 0
      OBVIOUS
    <3> QED BY Zenon, <3>1, <3>2 DEF FileWritten
  <2>5. DiskWritten(w)'
    BY Zenon, <2>2, <2>3, <2>4 DEF DisksInv, DiskWritten
  <2>6. disk' \in [Writers -> Seq(Kept)] /\ sealed' = sealed /\ disk' = disk
    BY Zenon, <2>2 DEF DisksInv
  <2> QED BY Zenon, <2>3, <2>5, <2>6, OneDisk
<1>9. ASSUME UNCHANGED <<writer, wpc, sealed, disk>> PROVE DisksInv'
  BY Zenon, <1>5, <1>9
<1>10. ASSUME NEW h \in Hooks, HookLoad(h) \/ HookDrop(h) \/ HookDestroyed(h) PROVE DisksInv'
  BY Zenon, <1>9, <1>10 DEF HookLoad, HookDrop, HookDestroyed
<1>11. ASSUME ReloadDisabled \/ ShutdownCapture \/ ShutdownDone PROVE DisksInv'
  BY Zenon, <1>9, <1>11 DEF ReloadDisabled, ShutdownCapture, ShutdownDone
<1>12. ASSUME Mover PROVE DisksInv'
  <2>1. UNCHANGED moverElse
    BY Zenon, <1>12 DEF Mover, MoverPick, MoverCopy, MoverSeal, MoverRemove, MoverRestart
  <2> QED BY Zenon, <1>9, <2>1 DEF moverElse
<1>13. ASSUME UNCHANGED capVars PROVE DisksInv'
  BY Zenon, <1>9, <1>13 DEF capVars
<1> QED BY Zenon, <1>2, <1>3, <1>4, <1>6, <1>7, <1>8, <1>10, <1>11, <1>12, <1>13
        DEF CaptureNext, WriterStep, StopStep, HookStep

(* Files of FileRecords records each come one after the other, and every   *)
(* number falls into one of them.                                          *)
LEMMA BeforeGrows ==
    ASSUME NEW a \in Nat, NEW b \in Nat, a <= b
    PROVE  Before(a) <= Before(b)
<1>1. FileRecords \in Nat /\ b - a \in Nat
  BY CaptureAssumption
<1>2. (b - a) * FileRecords \in Nat /\ b * FileRecords = a * FileRecords + (b - a) * FileRecords
  BY <1>1
<1>3. a * FileRecords \in Nat /\ b * FileRecords \in Nat
  BY <1>1
<1> QED BY <1>2, <1>3 DEF Before

(* Every record is the k-th of some file. *)
LEMMA PlaceOf ==
    ASSUME NEW m \in Nat \ {0}
    PROVE  \E q \in Nat, k \in 1..FileRecords : m = Before(q) + k
<1> DEFINE T == {q \in Nat : m <= Before(q + 1)}
<1>1. FileRecords \in Nat \ {0} /\ FileRecords - 1 \in Nat
  BY CaptureAssumption
<1>2. m \in T
  <2>1. m * (FileRecords - 1) \in Nat /\ m * FileRecords = m + m * (FileRecords - 1)
    BY <1>1
  <2>2. m <= Before(m)
    BY <2>1 DEF Before
  <2> QED BY <2>2, <1>1, BeforeFacts
<1>3. PICK q \in T : \A y \in T : q <= y
  BY Zenon, <1>2, LeastNat
<1>4. q \in Nat /\ Before(q) \in Nat /\ m <= Before(q) + FileRecords
  BY Zenon, <1>3, BeforeFacts
<1>5. Before(q) < m
  <2>1. CASE q = 0
    BY <2>1, BeforeFacts
  <2>2. CASE q # 0
    <3>1. q - 1 \in Nat /\ (q - 1) + 1 = q /\ ~(q <= q - 1)
      BY <2>2, <1>4
    <3>2. q - 1 \notin T
      BY Zenon, <3>1, <1>3
    <3>3. ~(m <= Before(q))
      BY Zenon, <3>1, <3>2
    <3> QED BY <3>3, <1>4
  <2> QED BY Zenon, <2>1, <2>2
<1>6. m - Before(q) \in 1..FileRecords /\ m = Before(q) + (m - Before(q))
  BY <1>1, <1>4, <1>5
<1> QED BY Zenon, <1>4, <1>6

(* The writers' invariant gives what the files hold. *)
LEMMA FilesHold ==
    ASSUME WritersInv, NEW w \in Writers
    PROVE  LET files == FilesBy(w) IN
           /\ \A i \in DOMAIN files :
               /\ Len(files[i]) <= FileRecords
               /\ \A k \in DOMAIN files[i] :
                    /\ files[i][k] = (i - 1) * FileRecords + k
                    /\ files[i][k] <= accepted[w]
               /\ \A j \in DOMAIN files :
                    i < j /\ files[j] # <<>> => Len(files[i]) = FileRecords
           /\ stopping[w] = "done" /\ w \notin errored =>
                \A n \in 1..accepted[w] :
                   \E i \in DOMAIN files : \E k \in DOMAIN files[i] : files[i][k] = n
<1> DEFINE files == FilesBy(w)
           n == Len(sealed[w])
<1>0. CaptureTyped /\ RecordsPlaced(w) /\ QueueFollows(w)
  BY Zenon DEF WritersInv, WriterInv
<1>1. writer[w].file.recs \in Seq(Nat) /\ sealed[w] \in Seq(Seq(Nat))
      /\ FileRecords \in Nat \ {0} /\ Count(w) \in Nat /\ accepted[w] \in Nat
      /\ Len(writer[w].file.recs) \in Nat
  BY Zenon, <1>0, WriterFields, CountIsNat, SeqLen
<1>2. PICK S : S = Seq(Nat)
  BY Zenon
<1>3. sealed[w] \in Seq(S) /\ writer[w].file.recs \in S
  BY Zenon, <1>1, <1>2
<1>4. /\ n \in Nat /\ files \in Seq(S) /\ Len(files) = n + 1
      /\ files[n + 1] = writer[w].file.recs
      /\ \A i \in 1..n : files[i] = sealed[w][i]
  BY <1>3, PutFacts DEF FilesBy
<1>5. DOMAIN files = 1..(n + 1) /\ \A i \in 1..(n + 1) : files[i] \in Seq(Nat)
  BY Zenon, <1>4, <1>2, SeqLen, SeqElement
<1>6. \A i \in 1..(n + 1) : Len(files[i]) \in Nat /\ DOMAIN files[i] = 1..Len(files[i])
  BY Zenon, <1>5, SeqLen
<1> HIDE DEF files
<1>7. ASSUME NEW i \in 1..(n + 1)
      PROVE  /\ Len(files[i]) <= FileRecords
             /\ \A k \in DOMAIN files[i] : files[i][k] = Before(i - 1) + k
             /\ \A j \in 1..(n + 1) : i < j /\ files[j] # <<>> => Len(files[i]) = FileRecords
  <2>1. CASE i = n + 1
    <3>1. i - 1 = n /\ files[i] = writer[w].file.recs
      BY <2>1, <1>4
    <3>2. Len(files[i]) <= FileRecords
          /\ \A k \in 1..Len(files[i]) : files[i][k] = Before(i - 1) + k
      BY Zenon, <3>1, <1>0 DEF RecordsPlaced
    <3>3. DOMAIN files[i] = 1..Len(files[i])
      BY Zenon, <1>6
    <3>4. \A j \in 1..(n + 1) : ~(i < j)
      BY <2>1, <1>4
    <3> QED BY Zenon, <3>2, <3>3, <3>4
  <2>2. CASE i # n + 1
    <3>1. i \in 1..n /\ files[i] = sealed[w][i]
      BY <2>2, <1>4
    <3>2. ASSUME NEW j \in 1..(n + 1), i < j, files[j] # <<>>
          PROVE  i < n \/ writer[w].file.named
      <4>1. j = n + 1 \/ i < n
        BY <3>2, <1>4
      <4> QED BY Zenon, <4>1, <3>2, <1>0, <1>4 DEF RecordsPlaced
    <3>3. /\ Len(files[i]) <= FileRecords
          /\ \A k \in 1..Len(files[i]) : files[i][k] = Before(i - 1) + k
          /\ i < n \/ writer[w].file.named => Len(files[i]) = FileRecords
      BY <3>1, <1>0 DEF RecordsPlaced
    <3>4. DOMAIN files[i] = 1..Len(files[i])
      BY Zenon, <1>6
    <3> QED BY Zenon, <3>2, <3>3, <3>4
  <2> QED BY Zenon, <2>1, <2>2
<1>8. ASSUME NEW i \in 1..(n + 1) PROVE Before(i - 1) \in Nat
  <2>1. n \in Nat
    BY Zenon, <1>4
  <2> HIDE DEF n
  <2>2. i - 1 \in Nat
    BY <2>1
  <2> QED BY Zenon, <2>2, BeforeFacts
<1>9. Count(w) <= accepted[w]
      /\ (stopping[w] = "done" /\ w \notin errored => Count(w) = accepted[w])
  <2>1. wpc[w] \in {"none", "top", "tested", "asleep", "write", "seal", "exited"}
    BY Zenon, <1>0 DEF CaptureTyped
  <2>2. CASE wpc[w] \in {"top", "tested", "asleep", "write"}
    <3>1. accepted[w] = Count(w) + Popped(w) + Len(writer[w].pending) /\ Popped(w) \in Nat
          /\ stopping[w] # "done"
      BY Zenon, <1>0, <2>2 DEF QueueFollows, Popped
    <3>2. Len(writer[w].pending) \in Nat
      BY Zenon, <1>0, WriterFields, SeqLen
    <3> QED BY <3>1, <3>2, <1>1
  <2>3. CASE wpc[w] = "none"
    <3>1. Count(w) = 0 /\ accepted[w] = 0
      BY Zenon, <1>0, <2>3 DEF QueueFollows, Count
    <3> QED BY <3>1
  <2>4. CASE wpc[w] \in {"seal", "exited"}
    BY Zenon, <1>0, <2>4 DEF QueueFollows
  <2> QED BY Zenon, <2>1, <2>2, <2>3, <2>4
<1>10. PICK last \in 0..(n + 1) :
         /\ last = 0 => Count(w) = 0 /\ \A i \in 1..(n + 1) : Len(files[i]) = 0
         /\ last # 0 => /\ Count(w) = Before(last - 1) + Len(files[last])
                        /\ \A i \in 1..(n + 1) : i < last => Len(files[i]) = FileRecords
                        /\ \A i \in 1..(n + 1) : i > last => Len(files[i]) = 0
  <2>1. CASE writer[w].file.named
    <3>1. Count(w) = Before(n) + Len(files[n + 1])
      BY Zenon, <2>1, <1>4 DEF Count
    <3>2. ASSUME NEW i \in 1..(n + 1), i < n + 1 PROVE Len(files[i]) = FileRecords
      <4>1. i \in 1..n /\ files[i] = sealed[w][i]
        BY <3>2, <1>4
      <4> QED BY Zenon, <4>1, <2>1, <1>0 DEF RecordsPlaced
    <3>3. n + 1 \in 0..(n + 1) /\ n + 1 # 0 /\ (n + 1) - 1 = n
      BY <1>4
    <3> HIDE DEF n
    <3>4. \A i \in 1..(n + 1) : ~(i > n + 1)
      BY <1>4
    <3> QED BY Zenon, <3>1, <3>2, <3>3, <3>4
  <2>2. CASE ~writer[w].file.named /\ n = 0
    <3>1. sealed[w] = <<>> /\ writer[w].file.recs = <<>>
      BY Zenon, <2>2, <1>0, <1>1, SeqNone DEF RecordsPlaced
    <3>2. Count(w) = 0 /\ Len(files[1]) = 0
      BY <3>1, <2>2, <1>4 DEF Count
    <3> QED BY <3>2, <2>2
  <2>3. CASE ~writer[w].file.named /\ n # 0
    <3>1. writer[w].file.recs = <<>> /\ sealed[w] # <<>> /\ Len(<<>>) = 0
      BY <2>3, <1>0 DEF RecordsPlaced
    <3>2. n \in 1..n /\ n \in 0..(n + 1)
      BY <2>3, <1>4
    <3>3. Count(w) = Before(n - 1) + Len(files[n])
      BY Zenon, <2>3, <3>1, <3>2, <1>4 DEF Count
    <3>4. ASSUME NEW i \in 1..(n + 1), i < n PROVE Len(files[i]) = FileRecords
      <4>1. i \in 1..n /\ files[i] = sealed[w][i]
        BY <3>4, <1>4
      <4> QED BY <4>1, <3>4, <1>0 DEF RecordsPlaced
    <3>5. ASSUME NEW i \in 1..(n + 1), i > n PROVE Len(files[i]) = 0
      <4>1. i = n + 1
        BY <3>5, <1>4
      <4> QED BY Zenon, <4>1, <1>4, <3>1
    <3> QED BY Zenon, <2>3, <3>2, <3>3, <3>4, <3>5
  <2> QED BY Zenon, <2>1, <2>2, <2>3
<1> HIDE DEF n
<1>11. ASSUME NEW i \in 1..(n + 1), NEW k \in DOMAIN files[i]
       PROVE  files[i][k] = (i - 1) * FileRecords + k /\ files[i][k] <= accepted[w]
  <2>1. k \in 1..Len(files[i]) /\ files[i][k] = Before(i - 1) + k /\ Len(files[i]) \in Nat
        /\ Before(i - 1) \in Nat
    BY Zenon, <1>6, <1>7, <1>8, <1>11
  <2>2. last # 0 /\ i <= last
    <3>1. Len(files[i]) # 0
      BY <2>1
    <3>2. last = 0 => Len(files[i]) = 0
      BY Zenon, <1>10
    <3>3. last # 0 /\ i > last => Len(files[i]) = 0
      BY Zenon, <1>10
    <3>4. last \in Nat /\ i \in Nat
      BY <1>4
    <3> QED BY <3>1, <3>2, <3>3, <3>4
  <2>3. ASSUME i = last PROVE files[i][k] <= accepted[w]
    <3>1. Count(w) = Before(i - 1) + Len(files[i])
      BY Zenon, <2>2, <2>3, <1>10
    <3>2. Count(w) <= accepted[w] /\ accepted[w] \in Nat
      BY Zenon, <1>1, <1>9
    <3> QED BY <3>1, <3>2, <2>1
  <2>4. ASSUME i < last PROVE files[i][k] <= accepted[w]
    <3>1. Before(i - 1) + k <= Before(i - 1) + FileRecords
      <4>1. Len(files[i]) = FileRecords
        BY Zenon, <2>2, <2>4, <1>10
      <4> QED BY <4>1, <2>1
    <3>2. i - 1 \in Nat /\ last - 1 \in Nat /\ i \in Nat /\ i <= last - 1 /\ (i - 1) + 1 = i
      BY <2>4, <1>4
    <3>3. Before(i) = Before(i - 1) + FileRecords /\ Before(i) \in Nat
      BY Zenon, <3>2, BeforeFacts
    <3>4. Before(i) <= Before(last - 1) /\ Before(last - 1) \in Nat
      BY Zenon, <3>2, BeforeGrows, BeforeFacts
    <3>5. Count(w) >= Before(last - 1)
      <4>1. Len(files[last]) \in Nat
        BY <2>2, <1>6, <1>4
      <4>2. Count(w) = Before(last - 1) + Len(files[last])
        BY Zenon, <2>2, <1>10
      <4> QED BY <4>1, <4>2, <3>4
    <3>6. Count(w) <= accepted[w] /\ accepted[w] \in Nat /\ Count(w) \in Nat
      BY Zenon, <1>1, <1>9
    <3> QED BY <2>1, <3>1, <3>3, <3>4, <3>5, <3>6
  <2>5. files[i][k] = (i - 1) * FileRecords + k
    BY Zenon, <2>1 DEF Before
  <2>6. last \in Int /\ i \in Int
    BY <1>4
  <2> QED BY <2>2, <2>3, <2>4, <2>5, <2>6
<1>12. ASSUME stopping[w] = "done", w \notin errored, NEW m \in 1..accepted[w]
       PROVE  \E i \in 1..(n + 1) : \E k \in DOMAIN files[i] : files[i][k] = m
  <2>1. m \in Nat \ {0} /\ m <= Count(w) /\ last # 0 /\ last - 1 \in Nat /\ last \in 1..(n + 1)
    BY <1>1, <1>4, <1>9, <1>10, <1>12
  <2>2. PICK q \in Nat, k \in 1..FileRecords : m = Before(q) + k
    BY Zenon, <2>1, PlaceOf
  <2>3. Before(q) \in Nat /\ Before(last - 1) \in Nat /\ Len(files[last]) \in Nat
        /\ Len(files[last]) <= FileRecords
    BY Zenon, <2>1, <1>6, <1>7, BeforeFacts
  <2>4. q <= last - 1
    <3> SUFFICES ASSUME last <= q PROVE FALSE
      BY <2>1
    <3>1. Before(last) <= Before(q) /\ last \in Nat
      BY <2>1, BeforeGrows
    <3>2. Before(last) = Before(last - 1) + FileRecords
      <4>1. (last - 1) + 1 = last
        BY <2>1
      <4> QED BY Zenon, <4>1, <2>1, BeforeFacts
    <3>3. Count(w) = Before(last - 1) + Len(files[last]) /\ FileRecords \in Nat
      BY Zenon, <2>1, <1>1, <1>10
    <3> QED BY <3>1, <3>2, <3>3, <2>1, <2>2, <2>3
  <2>5. q + 1 \in 1..(n + 1) /\ (q + 1) - 1 = q
    BY <2>1, <2>4, <1>4
  <2>6. k <= Len(files[q + 1])
    <3>1. CASE q + 1 < last
      <4>1. Len(files[q + 1]) = FileRecords
        BY Zenon, <3>1, <2>1, <2>5, <1>10
      <4> QED BY <4>1
    <3>2. CASE q + 1 = last
      <4>1. Count(w) = Before(last - 1) + Len(files[last]) /\ last - 1 = q
        BY Zenon, <3>2, <2>1, <2>5, <1>10
      <4> QED BY <4>1, <3>2, <2>1, <2>2, <2>3
    <3> QED BY <3>1, <3>2, <2>1, <2>4
  <2>7. k \in DOMAIN files[q + 1] /\ files[q + 1][k] = m
    BY <2>2, <2>5, <2>6, <1>6, <1>7
  <2> QED BY Zenon, <2>5, <2>7
<1> QED BY Zenon, <1>5, <1>7, <1>11, <1>12 DEF files

(* The invariant of the disk gives what is left of the files. *)
LEMMA DisksHold ==
    ASSUME WritersInv, DisksInv, NEW w \in Writers
    PROVE  LET files == FilesBy(w)
               disks == DiskBy(w) IN
           \A i \in DOMAIN files :
               /\ disks[i].kept <= Len(files[i])
               /\ Len(files[i]) \in Nat /\ DOMAIN files[i] = 1..Len(files[i])
               /\ \A j \in DOMAIN files : i < j => Written(disks[i], Len(files[i]))
               /\ stopping[w] = "done" => Written(disks[i], Len(files[i]))
<1> DEFINE files == FilesBy(w)
           disks == DiskBy(w)
           n == Len(sealed[w])
<1>1. /\ CaptureTyped /\ QueueFollows(w) /\ DiskWritten(w)
      /\ wpc[w] = "exited" => ~writer[w].file.open
  BY Zenon DEF WritersInv, WriterInv, DisksInv
<1>2. /\ writer[w].file \in File /\ writer[w].file.recs \in Seq(Nat)
      /\ sealed[w] \in Seq(Seq(Nat)) /\ n \in Nat
      /\ disk[w] \in Seq(Kept) /\ Len(disk[w]) = n
  BY Zenon, <1>1, WriterFields, SeqLen DEF DiskWritten
<1>3. OnDisk(writer[w].file) \in Kept
  BY Zenon, <1>2 DEF OnDisk, File, Kept
<1>4. PICK S : S = Seq(Nat)
  BY Zenon
<1>5. sealed[w] \in Seq(S) /\ writer[w].file.recs \in S
  BY Zenon, <1>2, <1>4
<1>6. /\ files \in Seq(S) /\ Len(files) = n + 1 /\ files[n + 1] = writer[w].file.recs
      /\ \A i \in 1..n : files[i] = sealed[w][i]
  BY <1>5, PutFacts DEF FilesBy
<1>7. disks[n + 1] = OnDisk(writer[w].file) /\ \A i \in 1..n : disks[i] = disk[w][i]
  BY <1>2, <1>3, PutFacts DEF DiskBy
<1>8. DOMAIN files = 1..(n + 1) /\ \A i \in 1..(n + 1) : files[i] \in Seq(Nat)
  BY Zenon, <1>4, <1>6, SeqLen, SeqElement
<1> HIDE DEF files, disks
<1>9. \A i \in 1..n : Written(disks[i], Len(files[i]))
  BY Zenon, <1>1, <1>6, <1>7 DEF DiskWritten
<1> HIDE DEF n
<1>10. ASSUME NEW i \in 1..(n + 1)
       PROVE  /\ disks[i].kept <= Len(files[i])
              /\ Len(files[i]) \in Nat /\ DOMAIN files[i] = 1..Len(files[i])
              /\ \A j \in 1..(n + 1) : i < j => Written(disks[i], Len(files[i]))
              /\ stopping[w] = "done" => Written(disks[i], Len(files[i]))
  <2>1. Len(files[i]) \in Nat /\ DOMAIN files[i] = 1..Len(files[i])
    BY Zenon, <1>8, SeqLen
  <2>2. CASE i \in 1..n
    BY Zenon, <1>9, <2>1, <2>2 DEF Written
  <2>3. CASE i = n + 1
    <3>1. FileWritten(writer[w].file) /\ (stopping[w] = "done" => ~writer[w].file.open)
      BY Zenon, <1>1 DEF DiskWritten, QueueFollows
    <3>4. files[i] = writer[w].file.recs /\ disks[i] = OnDisk(writer[w].file)
      BY Zenon, <2>3, <1>6, <1>7
    <3>2. disks[i].kept = writer[w].file.kept
      <4>1. OnDisk(writer[w].file).kept = writer[w].file.kept
        BY Zenon DEF OnDisk
      <4> QED BY Zenon, <3>4, <4>1
    <3>3. \A j \in 1..(n + 1) : ~(i < j)
      BY <2>3, <1>2
    <3> QED BY Zenon, <2>1, <3>1, <3>2, <3>3, <3>4 DEF FileWritten
  <2>4. i \in 1..n \/ i = n + 1
    BY <1>2
  <2> QED BY Zenon, <2>2, <2>3, <2>4
<1> QED BY Zenon, <1>8, <1>10 DEF files, disks

(* Both invariants together give the property. *)
LEMMA CaptureHolds == WritersInv /\ DisksInv => CaptureContiguous
<1> SUFFICES ASSUME WritersInv, DisksInv, NEW w \in Writers
             PROVE  LET files == FilesBy(w)
                        disks == DiskBy(w) IN
        /\ \A i \in DOMAIN files :
            /\ Len(files[i]) <= FileRecords /\ disks[i].kept <= Len(files[i])
            /\ \A k \in DOMAIN files[i] : /\ files[i][k] = (i - 1) * FileRecords + k
                                          /\ files[i][k] <= accepted[w]
            /\ \A j \in DOMAIN files : i < j /\ files[j] # <<>> =>
                 /\ Len(files[i]) = FileRecords
                 /\ disks[i].bad \/ disks[i].kept = FileRecords
        /\ stopping[w] = "done" /\ w \notin errored =>
             \A n \in 1..accepted[w] :
                \E i \in DOMAIN files : \E k \in DOMAIN files[i] :
                    files[i][k] = n /\ (disks[i].bad \/ k <= disks[i].kept)
  BY Zenon DEF CaptureContiguous
<1> DEFINE files == FilesBy(w)
           disks == DiskBy(w)
<1>1. /\ \A i \in DOMAIN files :
           /\ Len(files[i]) <= FileRecords
           /\ \A k \in DOMAIN files[i] :
                files[i][k] = (i - 1) * FileRecords + k /\ files[i][k] <= accepted[w]
           /\ \A j \in DOMAIN files : i < j /\ files[j] # <<>> => Len(files[i]) = FileRecords
      /\ stopping[w] = "done" /\ w \notin errored =>
           \A n \in 1..accepted[w] :
              \E i \in DOMAIN files : \E k \in DOMAIN files[i] : files[i][k] = n
  BY Zenon, FilesHold
<1>2. \A i \in DOMAIN files :
           /\ disks[i].kept <= Len(files[i])
           /\ Len(files[i]) \in Nat /\ DOMAIN files[i] = 1..Len(files[i])
           /\ \A j \in DOMAIN files : i < j => Written(disks[i], Len(files[i]))
           /\ stopping[w] = "done" => Written(disks[i], Len(files[i]))
  BY Zenon, DisksHold
<1> HIDE DEF files, disks
<1>3. ASSUME NEW i \in DOMAIN files, NEW j \in DOMAIN files, i < j, files[j] # <<>>
      PROVE  Len(files[i]) = FileRecords /\ (disks[i].bad \/ disks[i].kept = FileRecords)
  BY Zenon, <1>1, <1>2, <1>3 DEF Written
<1>4. ASSUME stopping[w] = "done", w \notin errored, NEW n \in 1..accepted[w]
      PROVE  \E i \in DOMAIN files : \E k \in DOMAIN files[i] :
                    files[i][k] = n /\ (disks[i].bad \/ k <= disks[i].kept)
  <2>1. PICK i \in DOMAIN files : \E k \in DOMAIN files[i] : files[i][k] = n
    BY Zenon, <1>1, <1>4
  <2>2. PICK k \in DOMAIN files[i] : files[i][k] = n
    BY Zenon, <2>1
  <2>3. Written(disks[i], Len(files[i])) /\ Len(files[i]) \in Nat /\ k \in 1..Len(files[i])
    BY Zenon, <1>2, <1>4
  <2>4. k <= Len(files[i])
    BY <2>3
  <2> QED BY Zenon, <2>2, <2>3, <2>4 DEF Written
<1> QED BY Zenon, <1>1, <1>2, <1>3, <1>4 DEF files, disks

(***************************************************************************)
(* PcapWriter loses no packet it has enqueued and writes none twice or out *)
(* of order, and what it has written is on the disk unless a write of that *)
(* very file was bad, for every size of the queue and of the files, any    *)
(* number of receive threads, reloads and stops, and wherever a file       *)
(* operation fails.                                                        *)
(***************************************************************************)
THEOREM CaptureIsContiguous == CaptureSpec => []CaptureContiguous
BY WritersStart, WritersStep, DisksStart, DisksStep, CaptureHolds, PTL DEF CaptureSpec

----------------------------------------------------------------------------
(* recent_files of w are the files it sealed last, at most max_files. *)
RecentLast(w) ==
    LET r == writer[w].recent IN
    /\ Len(r) <= Len(sealed[w]) /\ Len(r) <= KeepFiles
    /\ Len(r) = Len(sealed[w]) \/ Len(r) = KeepFiles
    /\ \A k \in 1..Len(r) : r[k] = FileId(w, Len(sealed[w]) - Len(r) + k)

(* The files of w that its retention has not removed. *)
Young(w) == {FileId(w, i) : i \in (Len(sealed[w]) - Len(writer[w].recent) + 1)..Len(sealed[w])}

NoneLost == \A w \in Writers : \A i \in 1..Len(sealed[w]) :
                FileId(w, i) \in spool \cup archive \cup expired

(* The inductive invariant of the files: the spool holds young files only, *)
(* and the mover removes what it has archived.                             *)
SpoolInv ==
    /\ \A w \in Writers : RecentLast(w)
    /\ \A id \in spool : \E w \in Writers : id \in Young(w)
    /\ NoneLost
    /\ mover = "remove" => mfile \in archive

(* The files and the list of recent ones of every writer stay. *)
ListsKept == \A w \in Writers : writer'[w].recent = writer[w].recent /\ sealed'[w] = sealed[w]

(* A step that neither seals nor moves a file keeps the invariant of the spool. *)
LEMMA ListsKeptInv ==
    ASSUME SpoolInv, ListsKept, UNCHANGED capFiles
    PROVE  SpoolInv'
<1>1. \A w \in Writers : RecentLast(w)' /\ Young(w)' = Young(w)
  BY Zenon DEF SpoolInv, ListsKept, RecentLast, Young
<1>2. UNCHANGED <<spool, archive, expired, mover, mfile>>
  BY Zenon DEF capFiles
<1>3. NoneLost'
  BY Zenon, <1>2 DEF NoneLost, SpoolInv, ListsKept
<1> QED BY Zenon, <1>1, <1>2, <1>3 DEF SpoolInv

(* seal_current_file, with the removal of the oldest file. *)
LEMMA SealSpool ==
    ASSUME CaptureTyped, SpoolInv, NEW w \in Writers, NEW wr \in Writer, NEW f \in File,
           wr.recent = writer[w].recent, Seal(w, wr, f), UNCHANGED <<archive, mover, mfile>>
    PROVE  SpoolInv'
<1> DEFINE n == Len(sealed[w])
           id == FileId(w, n + 1)
           r == writer[w].recent
           all == Append(r, id)
           out == IF Len(all) > KeepFiles THEN {Head(all)} ELSE {}
           rec == IF out = {} THEN all ELSE Tail(all)
<1>1. w \in Nat /\ KeepFiles \in Nat \ {0} /\ n \in Nat /\ r \in Seq(FileIds)
      /\ Len(r) \in Nat
  <2>1. writer[w] \in Writer /\ sealed[w] \in Seq(Seq(Nat)) /\ KeepFiles \in Nat \ {0} /\ w \in Nat
    BY WriterFields, CaptureAssumption DEF Writers
  <2>2. r \in Seq(FileIds)
    BY Zenon, <2>1 DEF Writer
  <2> QED BY Zenon, <2>1, <2>2, SeqLen
<1>2. RecentLast(w)
  BY Zenon DEF SpoolInv
<1>5. n \in Nat /\ Len(r) \in Nat /\ KeepFiles \in Nat \ {0}
  BY Zenon, <1>1
<1>3. CASE ~wr.file.named
  <2>1. /\ writer' = [writer EXCEPT ![w] = [wr EXCEPT !.file = f]]
        /\ UNCHANGED <<sealed, spool, expired>>
    BY Zenon, <1>3 DEF Seal
  <2>2. ListsKept
    BY Zenon, <2>1 DEF ListsKept, CaptureTyped, Writer
  <2> QED BY Zenon, <2>1, <2>2, ListsKeptInv DEF capFiles
<1>4. CASE wr.file.named
  <2>1. /\ sealed' = [sealed EXCEPT ![w] = Append(sealed[w], wr.file.recs)]
        /\ writer' = [writer EXCEPT ![w] = [wr EXCEPT !.file = f, !.recent = rec]]
        /\ spool' = (spool \cup {id}) \ out
        /\ expired' = expired \cup out
    BY Zenon, <1>4 DEF Seal
  <2>2. /\ sealed'[w] = Append(sealed[w], wr.file.recs)
        /\ \A v \in Writers : v # w => sealed'[v] = sealed[v]
    BY Zenon, <2>1 DEF CaptureTyped
  <2>3. Len(sealed'[w]) = n + 1
    <3>1. PICK S : S = Seq(Nat)
      BY Zenon
    <3>2. wr.file \in File
      BY Zenon DEF Writer
    <3>3. wr.file.recs \in S /\ sealed[w] \in Seq(S)
      BY Zenon, <3>1, <3>2, WriterFields DEF File
    <3> QED BY <3>3, <2>2, PutFacts
  <2>4. /\ writer'[w].recent = rec
        /\ \A v \in Writers : v # w => writer'[v] = writer[v]
    <3> HIDE DEF rec
    <3> QED BY Zenon, <2>1 DEF CaptureTyped, Writer
  <2>5. id \in FileIds
    BY <1>1 DEF FileId, FileIds
  <2>6. /\ all \in Seq(FileIds) /\ Len(all) = Len(r) + 1 /\ all # <<>>
        /\ \A k \in 1..Len(r) : all[k] = r[k]
        /\ all[Len(r) + 1] = id
    <3> HIDE DEF id, r
    <3> QED BY <1>1, <2>5, PutFacts
  <2>7. \A k \in 1..(Len(r) + 1) : all[k] = FileId(w, n - Len(r) + k)
    <3>1. ASSUME NEW k \in 1..Len(r) PROVE all[k] = FileId(w, n - Len(r) + k)
      BY ZenonT(30), <3>1, <2>6, <1>2 DEF RecentLast
    <3>2. n - Len(r) + (Len(r) + 1) = n + 1
      <4> HIDE DEF n, r
      <4> QED BY <1>5
    <3>3. ASSUME NEW k \in 1..(Len(r) + 1), k \notin 1..Len(r) PROVE k = Len(r) + 1
      BY <3>3, <1>5
    <3> QED BY Zenon, <3>1, <3>2, <3>3, <2>6
  <2>8. /\ Len(rec) \in Nat /\ Len(rec) <= n + 1 /\ Len(rec) <= KeepFiles
        /\ Len(rec) = n + 1 \/ Len(rec) = KeepFiles
        /\ \A k \in 1..Len(rec) : rec[k] = FileId(w, (n + 1) - Len(rec) + k)
        /\ \/ out = {} /\ Len(rec) = Len(r) + 1
           \/ out = {FileId(w, n - Len(r) + 1)} /\ Len(rec) = Len(r)
    <3>0. /\ Len(r) <= n /\ Len(r) <= KeepFiles /\ (Len(r) = n \/ Len(r) = KeepFiles)
      BY Zenon, <1>2 DEF RecentLast
    <3>1. CASE Len(all) > KeepFiles
      <4>1. Len(r) = KeepFiles /\ out = {Head(all)} /\ rec = Tail(all)
        <5>1. out = {Head(all)} /\ rec = Tail(all)
          BY Zenon, <3>1
        <5>2. Len(r) + 1 > KeepFiles
          BY Zenon, <3>1, <2>6
        <5> HIDE DEF all, out, rec, n, r
        <5> QED BY <5>1, <5>2, <3>0, <1>5
      <4>2. /\ Head(all) = all[1] /\ Len(Tail(all)) = Len(r)
            /\ \A k \in 1..Len(r) : Tail(all)[k] = all[k + 1]
        <5>1. /\ Len(Tail(all)) = Len(all) - 1 /\ Head(all) = all[1]
              /\ \A k \in 1..(Len(all) - 1) : Tail(all)[k] = all[k + 1]
          <6> HIDE DEF all
          <6> QED BY Zenon, <2>6, PopFacts
        <5> HIDE DEF all
        <5> QED BY <5>1, <2>6, <1>1
      <4>3. Head(all) = FileId(w, n - Len(r) + 1)
        <5>1. 1 \in 1..(Len(r) + 1)
          BY <1>5
        <5> HIDE DEF all, n, r
        <5> QED BY Zenon, <5>1, <4>2, <2>7
      <4>4. ASSUME NEW k \in 1..Len(r) PROVE Tail(all)[k] = FileId(w, (n + 1) - Len(r) + k)
        <5> HIDE DEF all, n, r
        <5>1. k + 1 \in 1..(Len(r) + 1) /\ n - Len(r) + (k + 1) = (n + 1) - Len(r) + k
          BY <1>5
        <5> QED BY Zenon, <5>1, <4>2, <2>7
      <4> HIDE DEF all, out, rec, n, r
      <4>5. out = {FileId(w, n - Len(r) + 1)} /\ Len(rec) = Len(r)
        BY Zenon, <4>1, <4>2, <4>3
      <4>6. \A k \in 1..Len(rec) : rec[k] = FileId(w, (n + 1) - Len(rec) + k)
        BY ZenonT(30), <4>1, <4>4, <4>5
      <4>7. Len(rec) \in Nat /\ Len(rec) <= n + 1 /\ Len(rec) <= KeepFiles /\ Len(rec) = KeepFiles
        BY <4>1, <4>5, <3>0, <1>5
      <4> QED BY Zenon, <4>5, <4>6, <4>7
    <3>2. CASE ~(Len(all) > KeepFiles)
      <4>1. out = {} /\ rec = all
        BY Zenon, <3>2
      <4>4. ~(Len(r) + 1 > KeepFiles)
        BY Zenon, <3>2, <2>6
      <4> HIDE DEF all, out, rec, n, r
      <4>2. Len(r) = n /\ Len(r) + 1 <= KeepFiles
        BY <3>0, <4>4, <1>5
      <4>3. (n + 1) - (Len(r) + 1) = n - Len(r)
        BY <1>5
      <4> QED BY <4>1, <4>2, <4>3, <2>6, <2>7, <1>1
    <3> QED BY Zenon, <3>1, <3>2
  <2> HIDE DEF rec, out
  <2>9. ASSUME NEW v \in Writers PROVE RecentLast(v)'
    <3>1. CASE v = w
      BY Zenon, <3>1, <2>3, <2>4, <2>8 DEF RecentLast
    <3>2. CASE v # w
      BY Zenon, <3>2, <2>2, <2>4 DEF RecentLast, SpoolInv
    <3> QED BY <3>1, <3>2
  <2>10. ASSUME NEW x \in spool' PROVE \E v \in Writers : x \in Young(v)'
    <3>1. x = id \/ x \in spool
      BY Zenon, <2>1, <2>10
    <3>2. Young(w)' = {FileId(w, i) : i \in ((n + 1) - Len(rec) + 1)..(n + 1)}
      BY Zenon, <2>3, <2>4 DEF Young
    <3>3. CASE x = id
      <4>1. n + 1 \in ((n + 1) - Len(rec) + 1)..(n + 1)
        BY <1>1, <2>8
      <4> QED BY Zenon, <3>2, <3>3, <4>1
    <3>4. CASE x \in spool
      <4>1. PICK v \in Writers : x \in Young(v)
        BY Zenon, <3>4 DEF SpoolInv
      <4>2. CASE v # w
        BY Zenon, <4>1, <4>2, <2>2, <2>4 DEF Young
      <4>3. CASE v = w
        <5>1. PICK i \in (n - Len(r) + 1)..n : x = FileId(w, i)
          BY Zenon, <4>1, <4>3 DEF Young
        <5>2. i \in ((n + 1) - Len(rec) + 1)..(n + 1)
          <6> HIDE DEF n, r
          <6>1. CASE out = {} /\ Len(rec) = Len(r) + 1
            BY <6>1, <1>5
          <6>2. CASE out = {FileId(w, n - Len(r) + 1)} /\ Len(rec) = Len(r)
            <7>1. i # n - Len(r) + 1
              BY Zenon, <5>1, <6>2, <2>1, <2>10
            <7> QED BY <7>1, <6>2, <1>5
          <6> QED BY Zenon, <6>1, <6>2, <2>8
        <5> QED BY Zenon, <3>2, <5>1, <5>2
      <4> QED BY Zenon, <4>2, <4>3
    <3> QED BY Zenon, <3>1, <3>3, <3>4
  <2>11. NoneLost'
    <3> SUFFICES ASSUME NEW v \in Writers, NEW i \in 1..Len(sealed'[v])
                 PROVE  FileId(v, i) \in spool' \cup archive' \cup expired'
      BY Zenon DEF NoneLost
    <3>1. (spool \cup {id}) \cup archive \cup expired \subseteq spool' \cup archive' \cup expired'
      BY Zenon, <2>1
    <3>2. CASE v = w /\ i = n + 1
      BY Zenon, <3>1, <3>2
    <3>3. CASE ~(v = w /\ i = n + 1)
      <4>1. i \in 1..Len(sealed[v])
        BY <3>3, <2>2, <2>3, <1>1
      <4> QED BY Zenon, <4>1, <3>1 DEF SpoolInv, NoneLost
    <3> QED BY Zenon, <3>2, <3>3
  <2> QED BY Zenon, <2>9, <2>10, <2>11 DEF SpoolInv
<1> QED BY Zenon, <1>3, <1>4

(* A step of the mover keeps the files. *)
LEMMA MoverStep ==
    ASSUME SpoolInv, Mover
    PROVE  SpoolInv'
<1>1. /\ writer' = writer /\ sealed' = sealed /\ expired' = expired
      /\ spool' \subseteq spool /\ archive \subseteq archive'
      /\ spool \subseteq spool' \cup archive'
      /\ mover' = "remove" => mfile' \in archive'
  BY Zenon DEF SpoolInv, Mover, MoverPick, MoverCopy, MoverSeal, MoverRemove, MoverRestart, moverElse
<1>2. \A w \in Writers : RecentLast(w)' /\ Young(w)' = Young(w)
  BY Zenon, <1>1 DEF SpoolInv, RecentLast, Young
<1>3. NoneLost'
  BY Zenon, <1>1 DEF SpoolInv, NoneLost
<1> QED BY Zenon, <1>1, <1>2, <1>3 DEF SpoolInv

(* With no file sealed the invariant of the spool holds. *)
LEMMA SpoolStart == CaptureInit => SpoolInv
<1> SUFFICES ASSUME CaptureInit PROVE SpoolInv
  BY Zenon
<1>1. Len(<<>>) = 0 /\ KeepFiles \in Nat
  BY Zenon, CaptureAssumption
<1>2. ASSUME NEW w \in Writers PROVE sealed[w] = <<>> /\ writer[w].recent = <<>>
  BY Zenon DEF CaptureInit, NewWriter, Absent
<1>3. ASSUME NEW w \in Writers PROVE RecentLast(w)
  <2>1. Len(writer[w].recent) = 0 /\ Len(sealed[w]) = 0
    BY Zenon, <1>1, <1>2
  <2> QED BY <2>1, <1>1 DEF RecentLast
<1>4. NoneLost
  BY <1>1, <1>2 DEF NoneLost
<1> QED BY Zenon, <1>3, <1>4 DEF SpoolInv, CaptureInit

(* Every step keeps the files: those that seal one, those of the mover,    *)
(* and those that touch no file.                                           *)
LEMMA SpoolStep == WritersInv /\ SpoolInv /\ [CaptureNext]_capVars => SpoolInv'
<1> SUFFICES ASSUME WritersInv, SpoolInv, [CaptureNext]_capVars PROVE SpoolInv'
  BY Zenon
<1>0. CaptureTyped /\ NoFile \in File
  BY Zenon, FixedFiles DEF WritersInv
<1>1. ASSUME NEW w \in Writers, LoopTop(w) \/ Sleep(w) \/ StopFlag(w) \/ StopNotify(w)
      PROVE  SpoolInv'
  <2>1. /\ UNCHANGED <<sealed, capFiles>>
        /\ \/ writer' = writer
           \/ writer' = [writer EXCEPT ![w].pending = Tail(@)]
           \/ writer' = [writer EXCEPT ![w].accepting = FALSE]
    BY Zenon, <1>1 DEF LoopTop, Sleep, StopFlag, StopNotify
  <2>2. ListsKept
    <3>1. writer \in [Writers -> Writer]
      BY Zenon, <1>0 DEF CaptureTyped
    <3>2. CASE writer' = writer
      BY Zenon, <3>2, <2>1 DEF ListsKept
    <3>3. CASE writer' = [writer EXCEPT ![w].pending = Tail(@)]
      BY <3>1, <3>3, <2>1 DEF ListsKept, Writer
    <3>4. CASE writer' = [writer EXCEPT ![w].accepting = FALSE]
      BY Zenon, <3>1, <3>4, <2>1 DEF ListsKept, Writer
    <3> QED BY Zenon, <2>1, <3>2, <3>3, <3>4
  <2> QED BY Zenon, <2>1, <2>2, ListsKeptInv
<1>2. ASSUME NEW w \in Writers, WriteRecord(w) PROVE SpoolInv'
  <2>1. UNCHANGED <<archive, mover, mfile>> /\ writer[w] \in Writer /\ wpkt[w] \in Nat
    BY Zenon, <1>0, <1>2, WriterFields DEF WriteRecord
  <2>2. CASE Len(writer[w].file.recs) < FileRecords
    <3>0. Len(writer[w].file.recs) # FileRecords
      BY Zenon, <2>2, <1>0, WriterFields, SeqLen, LessDiffers
    <3>1. /\ UNCHANGED <<sealed, spool, expired>>
          /\ writer' = [writer EXCEPT ![w].file = Recorded(@, wpkt[w])]
      BY Zenon, <1>2, <3>0 DEF WriteRecord
    <3>2. ListsKept
      BY <3>1, <1>0 DEF ListsKept, CaptureTyped, Writer
    <3> QED BY Zenon, <2>1, <3>1, <3>2, ListsKeptInv DEF capFiles
  <2>3. CASE ~(Len(writer[w].file.recs) < FileRecords)
    <3>1. PICK g \in Left(writer[w].file) :
             Seal(w, Closed(writer[w], g), Recorded(EmptyFile, wpkt[w]))
      BY Zenon, <1>2, <2>3 DEF WriteRecord
    <3>2. Recorded(EmptyFile, wpkt[w]) \in File
      <4>1. Append(<<>>, wpkt[w]) \in Seq(Nat)
        BY Zenon, <2>1, SeqNone, PutFacts
      <4>2. EmptyFile \in File /\ EmptyFile.recs = <<>>
        BY Zenon, FixedFiles
      <4> QED BY Zenon, <4>1, <4>2 DEF Recorded, File
    <3>3. Closed(writer[w], g) \in Writer /\ Closed(writer[w], g).recent = writer[w].recent
      <4>1. writer[w].file \in File
        BY Zenon, <1>0, WriterFields
      <4>2. g \in File
        BY Zenon, <4>1, LeftFields
      <4> QED BY Zenon, <4>2, <2>1, ClosedFields
    <3> QED BY Zenon, <1>0, <2>1, <3>1, <3>2, <3>3, SealSpool
  <2> QED BY Zenon, <2>2, <2>3
<1>3. ASSUME NEW w \in Writers, NEW wr \in Writer, wr.recent = writer[w].recent,
             SealFails(w, wr) \/ Seal(w, wr, NoFile), UNCHANGED <<archive, mover, mfile>>
      PROVE  SpoolInv'
  <2>1. CASE Seal(w, wr, NoFile)
    BY Zenon, <2>1, <1>0, <1>3, SealSpool
  <2>2. CASE SealFails(w, wr)
    <3>1. /\ writer' = [writer EXCEPT ![w] = wr]
          /\ UNCHANGED <<sealed, spool, expired>>
      BY Zenon, <2>2 DEF SealFails
    <3>2. ListsKept
      BY Zenon, <3>1, <1>0, <1>3 DEF ListsKept, CaptureTyped, Writer
    <3> QED BY Zenon, <3>1, <3>2, <1>3, ListsKeptInv DEF capFiles
  <2> QED BY Zenon, <1>3, <2>1, <2>2
<1>4. ASSUME NEW w \in Writers, WriteFails(w) PROVE SpoolInv'
  <2>1. UNCHANGED <<archive, mover, mfile>> /\ writer[w] \in Writer
    BY Zenon, <1>0, <1>4, WriterFields DEF WriteFails
  <2>5. PICK f \in Left(writer[w].file) \cup Cut(writer[w].file) :
           \/ /\ writer' = [writer EXCEPT ![w] = Errored(writer[w], f)]
              /\ UNCHANGED <<sealed, spool, expired>>
           \/ SealFails(w, Errored(writer[w], f)) \/ Seal(w, Errored(writer[w], f), NoFile)
    BY Zenon, <1>4 DEF WriteFails
  <2> DEFINE m == Errored(writer[w], f)
  <2>2. m \in Writer /\ m.recent = writer[w].recent
    <3>1. writer[w].file \in File
      BY Zenon, <1>0, WriterFields
    <3>2. f \in File
      BY Zenon, <3>1, LeftFields
    <3> QED BY Zenon, <3>2, <2>1, ClosedFields
  <2>6. \/ writer' = [writer EXCEPT ![w] = m] /\ UNCHANGED <<sealed, spool, expired>>
        \/ SealFails(w, m) \/ Seal(w, m, NoFile)
    BY Zenon, <2>5
  <2> HIDE DEF m
  <2>3. CASE SealFails(w, m) \/ Seal(w, m, NoFile)
    BY Zenon, <1>3, <2>1, <2>2, <2>3
  <2>4. CASE writer' = [writer EXCEPT ![w] = m] /\ UNCHANGED <<sealed, spool, expired>>
    <3>1. ListsKept
      BY Zenon, <1>0, <2>2, <2>4 DEF ListsKept, CaptureTyped
    <3> QED BY Zenon, <3>1, <2>1, <2>4, ListsKeptInv DEF capFiles
  <2> QED BY Zenon, <2>3, <2>4, <2>6
<1>5. ASSUME NEW w \in Writers, FinalSeal(w) \/ StopJoin(w) PROVE SpoolInv'
  <2>1. writer[w] \in Writer /\ <<>> \in Seq(Nat)
    BY <1>0, WriterFields
  <2>2. PICK wr \in Writer :
           wr.recent = writer[w].recent /\ (SealFails(w, wr) \/ Seal(w, wr, NoFile))
    <3> DEFINE a == [writer[w] EXCEPT !.recording = FALSE]
               b == [writer[w] EXCEPT !.pending = <<>>, !.recording = FALSE]
    <3>1. a \in Writer /\ a.recent = writer[w].recent /\ b \in Writer /\ b.recent = writer[w].recent
      BY Zenon, <2>1 DEF Writer
    <3>2. SealOrNot(w, a) \/ SealOrNot(w, b)
      BY Zenon, <1>5 DEF FinalSeal, StopJoin
    <3> HIDE DEF a, b
    <3>3. PICK c \in Writer : c.recent = writer[w].recent /\ SealOrNot(w, c)
      BY Zenon, <3>1, <3>2
    <3>4. PICK f \in Left(c.file) : SealFails(w, Closed(c, f)) \/ Seal(w, Closed(c, f), NoFile)
      BY Zenon, <3>3, SealOrNotCloses
    <3>5. c.file \in File
      BY Zenon DEF Writer
    <3>6. f \in File
      BY Zenon, <3>5, LeftFields
    <3>7. Closed(c, f) \in Writer /\ Closed(c, f).recent = c.recent
      BY Zenon, <3>6, ClosedFields
    <3> QED BY Zenon, <3>3, <3>4, <3>7
  <2>3. UNCHANGED <<archive, mover, mfile>>
    BY Zenon, <1>5 DEF FinalSeal, StopJoin
  <2> QED BY Zenon, <1>3, <2>2, <2>3
<1>6. ASSUME NEW h \in Hooks, WritePacket(h) PROVE SpoolInv'
  <2>1. UNCHANGED <<sealed, capFiles>>
    BY Zenon, <1>6 DEF WritePacket
  <2>2. PICK w : w = href[h]
    BY Zenon
  <2>3. \/ writer' = writer
        \/ writer' = [writer EXCEPT ![w].pending = Append(@, accepted[w] + 1)]
    BY Zenon, <1>6, <2>2 DEF WritePacket
  <2>4. writer \in [Writers -> Writer]
    BY Zenon, <1>0 DEF CaptureTyped
  <2>5. ListsKept
    <3>1. CASE writer' = writer
      BY Zenon, <3>1, <2>1 DEF ListsKept
    <3>2. CASE writer' = [writer EXCEPT ![w].pending = Append(@, accepted[w] + 1)]
      BY Zenon, <3>2, <2>1, <2>4 DEF ListsKept, Writer
    <3> QED BY Zenon, <2>3, <3>1, <3>2
  <2> QED BY Zenon, <2>1, <2>5, ListsKeptInv
<1>7. CASE ReloadEnabled
  <2>1. PICK w \in Writers : wpc[w] = "none" /\ writer' = [writer EXCEPT ![w] = NewWriter]
    BY ZenonT(30), <1>7 DEF ReloadEnabled, Created
  <2>2. UNCHANGED <<sealed, capFiles>>
    BY Zenon, <1>7 DEF ReloadEnabled
  <2>3. writer[w].recent = <<>>
    <3>1. sealed[w] = <<>>
      BY Zenon, <2>1 DEF WritersInv, WriterInv, QueueFollows
    <3>2. writer[w].recent \in Seq(FileIds)
      <4>1. writer[w] \in Writer
        BY Zenon, <1>0, WriterFields
      <4> QED BY Zenon, <4>1 DEF Writer
    <3>3. Len(writer[w].recent) <= 0 /\ Len(writer[w].recent) \in Nat
      BY Zenon, <3>1, <3>2, SeqLen DEF SpoolInv, RecentLast
    <3>4. Len(writer[w].recent) = 0
      BY <3>3
    <3> QED BY Zenon, <3>2, <3>4, SeqNone
  <2>4. ListsKept
    BY Zenon, <1>0, <2>1, <2>2, <2>3 DEF ListsKept, CaptureTyped, NewWriter
  <2> QED BY Zenon, <2>2, <2>4, ListsKeptInv
<1>8. ASSUME \/ \E h \in Hooks : HookLoad(h) \/ HookDrop(h) \/ HookDestroyed(h)
             \/ ReloadDisabled \/ ShutdownCapture \/ ShutdownDone \/ UNCHANGED capVars
      PROVE  SpoolInv'
  <2>1. UNCHANGED <<writer, sealed, capFiles>>
    BY Zenon, <1>8 DEF HookLoad, HookDrop, HookDestroyed, ReloadDisabled, ShutdownCapture,
                ShutdownDone, capVars
  <2> QED BY Zenon, <2>1, ListsKeptInv DEF ListsKept
<1> QED BY Zenon, <1>1, <1>2, <1>4, <1>5, <1>6, <1>7, <1>8, MoverStep
        DEF CaptureNext, WriterStep, StopStep, HookStep

(* The files in the spool are young, and a writer has at most max_files of those. *)
LEMMA SpoolBounded == WritersInv /\ SpoolInv => NoFileLost
<1> SUFFICES ASSUME WritersInv, SpoolInv, NEW w \in Writers
             PROVE  /\ \A i \in DOMAIN sealed[w] : FileId(w, i) \in spool \cup archive \cup expired
                    /\ \A id \in spool : id[1] = w =>
                          \E i \in DOMAIN sealed[w] :
                              id = FileId(w, i) /\ i > Len(sealed[w]) - KeepFiles
  BY Zenon DEF NoFileLost
<1> DEFINE n == Len(sealed[w])
           l == Len(writer[w].recent)
<1>1. CaptureTyped /\ sealed[w] \in Seq(Seq(Nat)) /\ writer[w] \in Writer
  BY Zenon, WriterFields DEF WritersInv
<1>2. n \in Nat /\ DOMAIN sealed[w] = 1..n
  BY Zenon, <1>1, SeqLen
<1>3. l \in Nat
  <2>1. writer[w].recent \in Seq(FileIds)
    BY Zenon, <1>1 DEF Writer
  <2> QED BY Zenon, <2>1, SeqLen
<1>4. KeepFiles \in Nat /\ l <= KeepFiles /\ l <= n
  BY Zenon, CaptureAssumption DEF SpoolInv, RecentLast
<1>5. ASSUME NEW id \in spool, id[1] = w
      PROVE  \E i \in 1..n : id = FileId(w, i) /\ i > n - KeepFiles
  <2>1. PICK v \in Writers : id \in Young(v)
    BY Zenon DEF SpoolInv
  <2>2. v = w
    <3>1. PICK i : id = <<v, i>>
      BY Zenon, <2>1 DEF Young, FileId
    <3> QED BY <3>1, <1>5
  <2>3. PICK i \in (n - l + 1)..n : id = FileId(w, i)
    BY Zenon, <2>1, <2>2 DEF Young
  <2> HIDE DEF n, l
  <2>4. i \in 1..n /\ i > n - KeepFiles
    BY <1>2, <1>3, <1>4
  <2> QED BY Zenon, <2>3, <2>4
<1>6. \A i \in 1..n : FileId(w, i) \in spool \cup archive \cup expired
  BY Zenon DEF SpoolInv, NoneLost
<1> QED BY Zenon, <1>2, <1>5, <1>6

(***************************************************************************)
(* No sealed file is lost between a writer and the archive, for every      *)
(* limit, any number of writers, and wherever the mover is killed; and the *)
(* spool holds only the last max_files files of a writer.                  *)
(***************************************************************************)
THEOREM SealedFilesAreKept == CaptureSpec => []NoFileLost
BY WritersStart, WritersStep, SpoolStart, SpoolStep, SpoolBounded, PTL DEF CaptureSpec
=============================================================================
