------------------------------ MODULE Capture -------------------------------
(***************************************************************************)
(* Packet capture: PcapWriter (capture/pcap_writer.cpp) with its writer    *)
(* thread, the capture hook of the receive threads, the replacement of the *)
(* writer by a configuration reload and the stop at the end (app_run.cpp), *)
(* and the spool mover that archives sealed files                          *)
(* (tools/pcap_spool_mover.sh).                                            *)
(*                                                                         *)
(* A writer is created by each (re)start of capture; writers are numbered  *)
(* from 1.  One action is one critical section under mutex_, or one step   *)
(* outside of it.  A writer numbers its packets; all records are alike,    *)
(* so that a file holds FileRecords of them.  Packets that the filters or  *)
(* an empty length turn away leave no trace and are not modelled.          *)
(*                                                                         *)
(* current_file_ is a buffered ofstream: what was given to it is on the    *)
(* disk for certain when it was flushed and closed, and a write or flush   *)
(* that fails leaves some whole records of it, and anything after them.    *)
(***************************************************************************)
EXTENDS Integers, Sequences

CONSTANTS
    Hooks,         \* the receive threads that call the hook
    Pending,       \* pending_queue_capacity, at least 1
    FileRecords,   \* the records that fit a file
    KeepFiles,     \* max_files, at least 1
    MaxWriters,    \* bound: the writers created
    MaxPackets,    \* bound: the packets captured
    MaxErrors      \* bound: the steps in which file operations fail

ASSUME CaptureAssumption ==
    /\ {Pending, FileRecords, KeepFiles, MaxWriters} \subseteq Nat \ {0}
    /\ {MaxPackets, MaxErrors} \subseteq Nat

VARIABLES
    writer,        \* the writers that exist, by number
    wpc, wpkt,     \* the writer threads and the packet each has popped
    curWriter,       \* ctx.pcap_writer, 0 for null
    hooked,        \* the capture hook is set
    hpc, href,     \* the receive threads and the writer each refers to
    stopping,      \* how far stop() of each writer has come
    capmain,       \* what the main thread does: "run", "stop" or "over"
    spool,         \* the sealed files in spool_dir
    archive,       \* the *.pcap files in archive_dir
    mover, mfile,  \* the spool mover and the file it works on
    accepted,      \* enqueued_packets_ of each writer, which number its packets
    sealed,        \* history: the files each writer has sealed, as given to the stream,
    disk,          \* history: and what of each is on the disk
    expired,       \* history: the files the retention of a writer removed
    errored,       \* history: the writers with a write error
    npackets, nerrors

capFiles == <<spool, archive, mover, mfile, expired>>

capVars == <<writer, wpc, wpkt, curWriter, hooked, hpc, href, stopping, capmain,
             capFiles, accepted, sealed, disk, errored, npackets, nerrors>>

Writers == 1..MaxWriters

(* recs was given to the stream; once the file is closed its first kept    *)
(* records are on the disk, and nothing else unless a write was bad.       *)
NoFile == [open |-> FALSE, named |-> FALSE, recs |-> <<>>, kept |-> 0, bad |-> FALSE]

EmptyFile == [NoFile EXCEPT !.open = TRUE, !.named = TRUE]

NewWriter == [accepting |-> TRUE, recording |-> TRUE, pending |-> <<>>,
              file |-> EmptyFile, recent |-> <<>>]

Absent == [NewWriter EXCEPT !.accepting = FALSE, !.recording = FALSE,
                            !.file = NoFile]

(* app_init has started the first writer and set the hook. *)
CaptureInit ==
    /\ writer = [w \in Writers |-> IF w = 1 THEN NewWriter ELSE Absent]
    /\ wpc = [w \in Writers |-> IF w = 1 THEN "top" ELSE "none"]
    /\ wpkt = [w \in Writers |-> 0]
    /\ curWriter = 1 /\ hooked = TRUE
    /\ hpc = [h \in Hooks |-> "idle"]
    /\ href = [h \in Hooks |-> 0]
    /\ stopping = [w \in Writers |-> "no"]
    /\ capmain = "run"
    /\ spool = {} /\ archive = {}
    /\ mover = "scan" /\ mfile = <<>>
    /\ accepted = [w \in Writers |-> 0]
    /\ sealed = [w \in Writers |-> <<>>]
    /\ disk = [w \in Writers |-> <<>>]
    /\ expired = {} /\ errored = {}
    /\ npackets = 0 /\ nerrors = 0

(* mutex_ of w is held between the test of the predicate and the wait. *)
Free(w) == wpc[w] # "tested"

Fails == nerrors < MaxErrors /\ nerrors' = nerrors + 1

Works == nerrors' = nerrors

----------------------------------------------------------------------------
(* Files *)

FileId(w, i) == <<w, i>>

OnDisk(f) == [kept |-> f.kept, bad |-> f.bad]

(* flush() and close(), when both work ... *)
Flushed(f) == [f EXCEPT !.open = FALSE, !.kept = IF f.open THEN Len(f.recs) ELSE @]

(* ... and when not, or when a write has failed before.  Neither is checked. *)
Cut(f) == {[f EXCEPT !.open = FALSE, !.kept = n, !.bad = TRUE] : n \in 0..Len(f.recs)}

(* How a file may be left by a step in which something fails. *)
Left(f) == {Flushed(f)} \cup IF f.open THEN Cut(f) ELSE {}

(***************************************************************************)
(* seal_current_file of a closed file when the rename works: the file gets *)
(* its final name and joins recent_files, whose oldest members are         *)
(* removed.  Without a name there is nothing to seal.  f is the file that  *)
(* follows.                                                                *)
(***************************************************************************)
Seal(w, wr, f) ==
    IF wr.file.named
    THEN LET id == FileId(w, Len(sealed[w]) + 1)
             all == Append(wr.recent, id)
             out == IF Len(all) > KeepFiles THEN {Head(all)} ELSE {}
         IN  /\ sealed' = [sealed EXCEPT ![w] = Append(@, wr.file.recs)]
             /\ disk' = [disk EXCEPT ![w] = Append(@, OnDisk(wr.file))]
             /\ writer' = [writer EXCEPT ![w] =
                    [wr EXCEPT !.file = f,
                               !.recent = IF out = {} THEN all ELSE Tail(all)]]
             /\ spool' = (spool \cup {id}) \ out
             /\ expired' = expired \cup out
    ELSE /\ writer' = [writer EXCEPT ![w] = [wr EXCEPT !.file = f]]
         /\ UNCHANGED <<sealed, disk, spool, expired>>

(* The rename fails: the closed file keeps its .partial name. *)
SealFails(w, wr) ==
    /\ wr.file.named
    /\ writer' = [writer EXCEPT ![w] = wr]
    /\ UNCHANGED <<sealed, disk, spool, expired>>

Closed(wr, f) == [wr EXCEPT !.file = f]

SealOrNot(w, wr) ==
    \/ Works /\ Seal(w, Closed(wr, Flushed(wr.file)), NoFile)
    \/ /\ Fails /\ wr.file.named
       /\ \E f \in Left(wr.file) :
             Seal(w, Closed(wr, f), NoFile) \/ SealFails(w, Closed(wr, f))

(* mark_write_error, which leaves the file closed as f. *)
Errored(wr, f) == [wr EXCEPT !.accepting = FALSE, !.recording = FALSE, !.file = f]

----------------------------------------------------------------------------
(* The writer thread: run_writer_loop *)

Woken(s, w) == IF s[w] = "asleep" THEN [s EXCEPT ![w] = "top"] ELSE s

(* The predicate of cv_.wait, under the lock, and the pop if it holds. *)
LoopTop(w) ==
    /\ wpc[w] = "top"
    /\ IF writer[w].pending # <<>>
       THEN /\ wpkt' = [wpkt EXCEPT ![w] = Head(writer[w].pending)]
            /\ writer' = [writer EXCEPT ![w].pending = Tail(@)]
            /\ wpc' = [wpc EXCEPT ![w] = "write"]
       ELSE /\ wpc' = [wpc EXCEPT ![w] =
                          IF writer[w].accepting THEN "tested" ELSE "seal"]
            /\ UNCHANGED <<writer, wpkt>>
    /\ UNCHANGED <<curWriter, hooked, hpc, href, stopping, capmain, capFiles,
                   accepted, sealed, disk, errored, npackets, nerrors>>

(* The wait itself: unlock and sleep. *)
Sleep(w) ==
    /\ wpc[w] = "tested"
    /\ wpc' = [wpc EXCEPT ![w] = "asleep"]
    /\ UNCHANGED <<writer, wpkt, curWriter, hooked, hpc, href, stopping, capmain,
                   capFiles, accepted, sealed, disk, errored, npackets,
                   nerrors>>

Recorded(f, p) == [f EXCEPT !.recs = Append(@, p)]

(* Mutant: the record that fills a file is written before the rotation too. *)
MutWriteRecord(w) ==
    LET wr == writer[w]
    IN  /\ wpc[w] = "write" /\ wr.file.open
        /\ Works
        /\ IF Len(wr.file.recs) < FileRecords
           THEN /\ writer' = [writer EXCEPT ![w].file = Recorded(@, wpkt[w])]
                /\ UNCHANGED <<sealed, disk, spool, expired>>
           ELSE Seal(w, Closed(wr, Flushed(Recorded(wr.file, wpkt[w]))),
                     Recorded(EmptyFile, wpkt[w]))
        /\ wpc' = [wpc EXCEPT ![w] = "top"]
        /\ wpkt' = [wpkt EXCEPT ![w] = 0]
        /\ UNCHANGED <<curWriter, hooked, hpc, href, stopping, capmain, archive,
                       mover, mfile, accepted, errored, npackets>>

(***************************************************************************)
(* rotate_file_if_needed and the record of the popped packet, given to the *)
(* stream.  At a rotation the flush of the full file may fail: nothing     *)
(* looks at it, the file is renamed and the next one is written.           *)
(***************************************************************************)
WriteRecord(w) ==
    LET wr == writer[w]
    IN  /\ wpc[w] = "write" /\ wr.file.open
        /\ \/ /\ Len(wr.file.recs) < FileRecords
              /\ Works
              /\ writer' = [writer EXCEPT ![w].file = Recorded(@, wpkt[w])]
              /\ UNCHANGED <<sealed, disk, spool, expired>>
           \/ /\ Len(wr.file.recs) = FileRecords
              /\ \E f \in Left(wr.file) :
                    /\ IF f.bad THEN Fails ELSE Works
                    /\ Seal(w, Closed(wr, f), Recorded(EmptyFile, wpkt[w]))
        /\ wpc' = [wpc EXCEPT ![w] = "top"]
        /\ wpkt' = [wpkt EXCEPT ![w] = 0]
        /\ UNCHANGED <<curWriter, hooked, hpc, href, stopping, capmain, archive,
                       mover, mfile, accepted, errored, npackets>>

(***************************************************************************)
(* The same when an operation that is looked at fails: the record cannot   *)
(* be written (and with it the buffered ones before it), the full file     *)
(* cannot be renamed, or no new file can be opened after it.  The popped   *)
(* packet is lost and the loop ends.                                       *)
(***************************************************************************)
WriteFails(w) ==
    LET wr == writer[w]
        full == Len(wr.file.recs) = FileRecords
    IN  /\ wpc[w] = "write"
        /\ Fails
        /\ \/ /\ ~full
              /\ \E f \in Cut(wr.file) : writer' = [writer EXCEPT ![w] = Errored(wr, f)]
              /\ UNCHANGED <<sealed, disk, spool, expired>>
           \/ /\ full
              /\ \E f \in Left(wr.file) :
                    SealFails(w, Errored(wr, f)) \/ Seal(w, Errored(wr, f), NoFile)
        /\ wpc' = [wpc EXCEPT ![w] = "seal"]
        /\ wpkt' = [wpkt EXCEPT ![w] = 0]
        /\ errored' = errored \cup {w}
        /\ UNCHANGED <<curWriter, hooked, hpc, href, stopping, capmain, archive,
                       mover, mfile, accepted, npackets>>

(* After the loop. *)
FinalSeal(w) ==
    /\ wpc[w] = "seal"
    /\ SealOrNot(w, [writer[w] EXCEPT !.recording = FALSE])
    /\ wpc' = [wpc EXCEPT ![w] = "exited"]
    /\ UNCHANGED <<wpkt, curWriter, hooked, hpc, href, stopping, capmain, archive,
                   mover, mfile, accepted, errored, npackets>>

WriterStep(w) == LoopTop(w) \/ Sleep(w) \/ WriteRecord(w) \/ FinalSeal(w)

----------------------------------------------------------------------------
(* stop(): called by the main thread or by the destructor *)

(* accepting_packets_ is cleared without the lock. *)
StopFlag(w) ==
    /\ stopping[w] = "flag"
    /\ writer' = [writer EXCEPT ![w].accepting = FALSE]
    /\ stopping' = [stopping EXCEPT ![w] = "notify"]
    /\ UNCHANGED <<wpc, wpkt, curWriter, hooked, hpc, href, capmain, capFiles,
                   accepted, sealed, disk, errored, npackets, nerrors>>

(* notify_all, without the lock: a thread about to sleep does not hear it. *)
StopNotify(w) ==
    /\ stopping[w] = "notify"
    /\ wpc' = Woken(wpc, w)
    /\ stopping' = [stopping EXCEPT ![w] = "join"]
    /\ UNCHANGED <<writer, wpkt, curWriter, hooked, hpc, href, capmain, capFiles,
                   accepted, sealed, disk, errored, npackets, nerrors>>

(* The thread is joined; what is left is sealed and cleared. *)
StopJoin(w) ==
    /\ stopping[w] = "join" /\ wpc[w] = "exited"
    /\ SealOrNot(w, [writer[w] EXCEPT !.pending = <<>>, !.recording = FALSE])
    /\ stopping' = [stopping EXCEPT ![w] = "done"]
    /\ UNCHANGED <<wpc, wpkt, curWriter, hooked, hpc, href, capmain, archive,
                   mover, mfile, accepted, errored, npackets>>

StopStep(w) == StopFlag(w) \/ StopNotify(w) \/ StopJoin(w)

----------------------------------------------------------------------------
(* The capture hook on a receive thread *)

(* The hook loads ctx.pcap_writer and holds a reference to it. *)
HookLoad(h) ==
    /\ hpc[h] = "idle" /\ hooked /\ curWriter # 0
    /\ npackets < MaxPackets
    /\ href' = [href EXCEPT ![h] = curWriter]
    /\ hpc' = [hpc EXCEPT ![h] = "write"]
    /\ npackets' = npackets + 1
    /\ UNCHANGED <<writer, wpc, wpkt, curWriter, hooked, stopping, capmain,
                   capFiles, accepted, sealed, disk, errored, nerrors>>

(***************************************************************************)
(* write_packet.  A writer that does not accept, or whose queue is full,   *)
(* leaves the packet out.  notify_one follows the critical section; one    *)
(* that comes late does no harm.                                           *)
(***************************************************************************)
WritePacket(h) ==
    LET w == href[h]
    IN  /\ hpc[h] = "write" /\ Free(w)
        /\ IF writer[w].accepting /\ Len(writer[w].pending) < Pending
           THEN /\ writer' = [writer EXCEPT ![w].pending =
                                                Append(@, accepted[w] + 1)]
                /\ accepted' = [accepted EXCEPT ![w] = @ + 1]
                /\ wpc' = Woken(wpc, w)
           ELSE UNCHANGED <<writer, accepted, wpc>>
        /\ hpc' = [hpc EXCEPT ![h] = "drop"]
        /\ UNCHANGED <<wpkt, curWriter, hooked, href, stopping, capmain, capFiles,
                       sealed, disk, errored, npackets, nerrors>>

(* No other reference to w is left: the one that goes runs the destructor. *)
LastRef(w, h) ==
    /\ w # curWriter
    /\ stopping[w] = "no"
    /\ \A g \in Hooks \ {h} : href[g] # w

(* The reference goes; the destructor may run here, on the receive thread. *)
HookDrop(h) ==
    /\ hpc[h] = "drop"
    /\ IF LastRef(href[h], h)
       THEN /\ stopping' = [stopping EXCEPT ![href[h]] = "flag"]
            /\ hpc' = [hpc EXCEPT ![h] = "destroy"]
            /\ href' = href
       ELSE /\ hpc' = [hpc EXCEPT ![h] = "idle"]
            /\ href' = [href EXCEPT ![h] = 0]
            /\ stopping' = stopping
    /\ UNCHANGED <<writer, wpc, wpkt, curWriter, hooked, capmain, capFiles,
                   accepted, sealed, disk, errored, npackets, nerrors>>

HookDestroyed(h) ==
    /\ hpc[h] = "destroy" /\ stopping[href[h]] = "done"
    /\ hpc' = [hpc EXCEPT ![h] = "idle"]
    /\ href' = [href EXCEPT ![h] = 0]
    /\ UNCHANGED <<writer, wpc, wpkt, curWriter, hooked, stopping, capmain,
                   capFiles, accepted, sealed, disk, errored, npackets,
                   nerrors>>

HookStep(h) == WritePacket(h) \/ HookDrop(h) \/ HookDestroyed(h)

----------------------------------------------------------------------------
(* The main thread *)

(* Main is not inside a stop() of its own. *)
MainFree == \A w \in Writers :
    stopping[w] \in {"no", "done"} \/ (\E h \in Hooks :
                                        hpc[h] = "destroy" /\ href[h] = w)

Created(w) == wpc[w] # "none"

(***************************************************************************)
(* A reload with capture enabled: a new writer is started and published.   *)
(* The old one is not stopped: it goes with its last reference, which may  *)
(* be the one given up here.                                               *)
(***************************************************************************)
ReloadEnabled ==
    /\ capmain = "run" /\ MainFree
    /\ \E w \in Writers :
        /\ ~Created(w) /\ (w > 1 => Created(w - 1))
        /\ writer' = [writer EXCEPT ![w] = NewWriter]
        /\ wpc' = [wpc EXCEPT ![w] = "top"]
        /\ curWriter' = w
    /\ hooked' = TRUE
    /\ stopping' = IF curWriter # 0 /\ \A h \in Hooks : href[h] # curWriter
                   THEN [stopping EXCEPT ![curWriter] = "flag"] ELSE stopping
    /\ UNCHANGED <<wpkt, hpc, href, capmain, capFiles, accepted, sealed, disk,
                   errored, npackets, nerrors>>

(* A reload with capture disabled: the hook goes and the writer is stopped. *)
ReloadDisabled ==
    /\ capmain = "run" /\ MainFree
    /\ hooked \/ curWriter # 0
    /\ hooked' = FALSE
    /\ curWriter' = 0
    /\ stopping' = IF curWriter # 0 THEN [stopping EXCEPT ![curWriter] = "flag"]
                   ELSE stopping
    /\ UNCHANGED <<writer, wpc, wpkt, hpc, href, capmain, capFiles, accepted,
                   sealed, disk, errored, npackets, nerrors>>

(* app_shutdown: the receive threads have been joined; stage 2. *)
ShutdownCapture ==
    /\ capmain = "run" /\ MainFree
    /\ \A h \in Hooks : hpc[h] = "idle"
    /\ capmain' = "stop"
    /\ hooked' = FALSE
    /\ curWriter' = 0
    /\ stopping' = IF curWriter # 0 THEN [stopping EXCEPT ![curWriter] = "flag"]
                   ELSE stopping
    /\ UNCHANGED <<writer, wpc, wpkt, hpc, href, capFiles, accepted, sealed, disk,
                   errored, npackets, nerrors>>

(* The stage has returned; the time limit is only looked at here. *)
ShutdownDone ==
    /\ capmain = "stop" /\ MainFree
    /\ capmain' = "over"
    /\ UNCHANGED <<writer, wpc, wpkt, curWriter, hooked, hpc, href, stopping,
                   capFiles, accepted, sealed, disk, errored, npackets,
                   nerrors>>

----------------------------------------------------------------------------
(* The spool mover, a process of its own that is restarted when it exits *)

moverElse == <<writer, wpc, wpkt, curWriter, hooked, hpc, href, stopping, capmain,
               accepted, sealed, disk, errored, npackets, nerrors, expired>>

(* main_loop: the next *.pcap of the spool; a .partial does not match. *)
MoverPick ==
    /\ mover = "scan"
    /\ \E id \in spool : mfile' = id
    /\ mover' = "copy"
    /\ UNCHANGED <<spool, archive, moverElse>>

(* Mutant: the source is removed before the copy has its final name. *)
MutMoverCopy ==
    /\ mover = "copy"
    /\ mover' = IF mfile \in spool THEN "seal" ELSE "scan"
    /\ spool' = spool \ {mfile}
    /\ UNCHANGED <<mfile, archive, moverElse>>

(* cp into a hidden file; a file that the writer has removed is skipped. *)
MoverCopy ==
    /\ mover = "copy"
    /\ mover' = IF mfile \in spool THEN "seal" ELSE "scan"
    /\ UNCHANGED <<mfile, spool, archive, moverElse>>

(* mv to the final name; a name that is taken gets a stamp. *)
MoverSeal ==
    /\ mover = "seal"
    /\ archive' = archive \cup {mfile}
    /\ mover' = "remove"
    /\ UNCHANGED <<mfile, spool, moverElse>>

MoverRemove ==
    /\ mover = "remove"
    /\ spool' = spool \ {mfile}
    /\ mover' = "scan"
    /\ UNCHANGED <<mfile, archive, moverElse>>

(***************************************************************************)
(* A command fails and the script ends (set -e), or it is killed; systemd  *)
(* starts it again.  What it had copied stays.                             *)
(***************************************************************************)
MoverRestart ==
    /\ mover # "scan"
    /\ mover' = "scan"
    /\ UNCHANGED <<mfile, spool, archive, moverElse>>

Mover == MoverPick \/ MoverCopy \/ MoverSeal \/ MoverRemove \/ MoverRestart

----------------------------------------------------------------------------
CaptureNext ==
    \/ \E w \in Writers : WriterStep(w) \/ WriteFails(w) \/ StopStep(w)
    \/ \E h \in Hooks : HookLoad(h) \/ HookStep(h)
    \/ ReloadEnabled \/ ReloadDisabled \/ ShutdownCapture \/ ShutdownDone
    \/ Mover

(* Every thread that can run runs; new work need not come. *)
CaptureFairness ==
    /\ \A w \in Writers : WF_capVars(WriterStep(w)) /\ WF_capVars(StopStep(w))
    /\ \A h \in Hooks : WF_capVars(HookStep(h))
    /\ WF_capVars(ShutdownDone)

CaptureSpec == CaptureInit /\ [][CaptureNext]_capVars /\ CaptureFairness

----------------------------------------------------------------------------
CaptureTypeOK ==
    /\ \A w \in Writers :
        /\ {writer[w].accepting, writer[w].recording} \subseteq BOOLEAN
        /\ Len(writer[w].pending) <= Pending
        /\ Len(writer[w].recent) <= KeepFiles
    /\ wpc \in [Writers -> {"none", "top", "tested", "asleep", "write", "seal",
                            "exited"}]
    /\ curWriter \in 0..MaxWriters
    /\ href \in [Hooks -> 0..MaxWriters]
    /\ stopping \in [Writers -> {"no", "flag", "notify", "join", "done"}]
    /\ mover \in {"scan", "copy", "seal", "remove"}

(* The files of w in the order it opened them, the one it writes last. *)
FilesBy(w) == Append(sealed[w], writer[w].file.recs)

(* What of each is on the disk for certain. *)
DiskBy(w) == Append(disk[w], OnDisk(writer[w].file))

(***************************************************************************)
(* The files of a writer hold what it has enqueued, in order, without a    *)
(* gap or a repetition, across rotations and errors: record k of the i-th  *)
(* file is packet (i - 1) * FileRecords + k, and a file is full, also on   *)
(* the disk, before the next one gets a record.  Without a write error,    *)
(* stop() leaves every enqueued packet on the disk.  A flush that fails,   *)
(* which no code looks at, is the only exception: it may cost records of   *)
(* the end of the file it is for, and only of that one.                    *)
(***************************************************************************)
CaptureContiguous ==
    \A w \in Writers : LET files == FilesBy(w)
                           disks == DiskBy(w) IN
        /\ \A i \in DOMAIN files :
            /\ Len(files[i]) <= FileRecords /\ disks[i].kept <= Len(files[i])
            /\ \A k \in DOMAIN files[i] : /\ files[i][k] = (i - 1) * FileRecords + k
                                          /\ files[i][k] <= accepted[w]
            /\ \A j \in DOMAIN files : i < j /\ files[j] # <<>> =>
                 /\ Len(files[i]) = FileRecords
                 /\ disks[i].bad \/ disks[i].kept = FileRecords
        /\ stopping[w] = "done" /\ w \notin errored =>
             \A n \in 1..accepted[w] :
                \E i \in DOMAIN files : \E k \in DOMAIN files[i] :
                    files[i][k] = n /\ (disks[i].bad \/ k <= disks[i].kept)

(***************************************************************************)
(* A sealed file is in the spool or in the archive, unless the retention   *)
(* of its writer removed it, wherever the mover fails or is killed; and    *)
(* what a writer has in the spool is among the max_files it sealed last.   *)
(***************************************************************************)
NoFileLost ==
    \A w \in Writers :
        /\ \A i \in DOMAIN sealed[w] : FileId(w, i) \in spool \cup archive \cup expired
        /\ \A id \in spool : id[1] = w =>
             \E i \in DOMAIN sealed[w] : id = FileId(w, i) /\ i > Len(sealed[w]) - KeepFiles

(* The stop of capture in app_shutdown comes to an end. *)
ShutdownEnds == capmain = "stop" ~> capmain = "over"
=============================================================================
