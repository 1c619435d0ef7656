----------------------------- MODULE PcapTools ------------------------------
(***************************************************************************)
(* The two tools that read the capture files: tools/pcap_analyze.cpp,      *)
(* which reports on one file, and tools/pcap_replay.cpp, which sends its    *)
(* packets again.  Here the analysis runs first and the replay after it,   *)
(* on the same file.                                                       *)
(*                                                                         *)
(* A record has a time stamp and a number; the number is not reduced: the  *)
(* sequence number in the packet is num % Numbers.  Its kind is "packet",  *)
(* "junk" (the parser rejects the payload), "badlen" (the lengths in the   *)
(* record header are impossible) or "cut" (the file ends inside of it).    *)
(* Printing, the JSON text and the sleeps of the replay are left out.      *)
(***************************************************************************)
EXTENDS Integers, Sequences, FiniteSets

LOCAL INSTANCE SequencesExt

CONSTANTS
    Numbers,       \* 2^32 in the code, even
    FirstNumber,   \* bound: the number of the first record
    Steps,         \* bound: from one record's number to the next one's
    Stamps,        \* bound: the time stamps
    MaxRecords,    \* bound: the records of the file
    ArgLists,      \* bound: the arguments given to the replay
    MaxPasses,     \* bound: the passes of a replay that loops for ever
    MaxUnsent      \* bound: the sends that fail

ASSUME PcapAssumption ==
    /\ {Numbers, MaxPasses} \subseteq Nat \ {0} /\ Numbers % 2 = 0
    /\ \A d \in Steps : d \in Nat \ {0} /\ 2 * d < Numbers
    /\ Stamps \subseteq Nat /\ {FirstNumber, MaxRecords, MaxUnsent} \subseteq Nat

VARIABLES
    pcap,          \* the file: its header and its records
    tool,          \* what is running
    at,            \* the records read, of this pass
    report, prevSeq, prevTs,    \* of analyze_file
    ropt,          \* the options of the replay
    iteration, perPass, total,  \* of the replay's main
    aired,         \* history: the sends, as <<pass, record>>
    unsent         \* history: the sends that failed

pcapVars == <<pcap, tool, at, report, prevSeq, prevTs, ropt, iteration, perPass,
              total, aired, unsent>>

replayVars == <<ropt, iteration, perPass, total, aired, unsent>>

Magics == {"usec", "nsec", "swapped_usec", "swapped_nsec"}

None == -1

NoReport == [packets |-> 0, invalid |-> 0, typed |-> 0, gaps |-> 0, wraps |-> 0,
             delays |-> <<>>]

NoReplay == [file |-> 0, filtered |-> 0, sent |-> 0]

DefaultOptions == [loop |-> FALSE, count |-> None, start |-> None, end |-> None]

(* A file whose records carry rising numbers; one of them may be spoilt.  *)
(* Only the last record can be cut.                                        *)
FilesOf(n) ==
    {[magic |-> m, recs |-> [i \in 1..n |->
        [num |-> FoldLeft(LAMBDA a, d : a + d, FirstNumber, SubSeq(ds, 2, i)),
         ts |-> ts[i],
         kind |-> IF i = k THEN what ELSE "packet"]]] :
     m \in {"usec", "other"}, ds \in [1..n -> Steps], ts \in [1..n -> Stamps],
     k \in 0..n, what \in {"junk", "badlen"}}
    \cup
    {[magic |-> "nsec", recs |-> [i \in 1..n |->
        [num |-> FirstNumber + i, ts |-> i,
         kind |-> IF i = n THEN "cut" ELSE "packet"]]]}

PcapInit ==
    /\ \E n \in 1..MaxRecords : pcap \in FilesOf(n)
    /\ tool = "analyze"
    /\ at = 0
    /\ report = NoReport /\ prevSeq = None /\ prevTs = None
    /\ ropt = DefaultOptions
    /\ iteration = 0 /\ perPass = NoReplay /\ total = NoReplay
    /\ aired = <<>> /\ unsent = 0

----------------------------------------------------------------------------
(* Reading the file: both tools have the same code *)

read_global_header == pcap.magic \in Magics

(* No byte is left; or the header or the payload is cut, or the lengths     *)
(* are refused, which throws; or there is a record.                        *)
read_record ==
    IF at = Len(pcap.recs) THEN "end"
    ELSE IF pcap.recs[at + 1].kind \in {"cut", "badlen"} THEN "throws"
    ELSE "record"

Rec == pcap.recs[at + 1]

(* The sequence_number field of the packet's header *)
SequenceNumber(num) == num % Numbers

----------------------------------------------------------------------------
(* pcap_analyze *)

(* Mutant: any step back in the numbers counts as a wraparound. *)
MutSequence(r, seq) ==
    IF prevSeq = None THEN r
    ELSE IF prevSeq > seq THEN [r EXCEPT !.wraps = @ + 1, !.gaps = @ + 1]
    ELSE [r EXCEPT !.gaps = IF seq - prevSeq > 1 THEN @ + 1 ELSE @]

(* The comparison of a sequence number with the one before it. *)
Sequence(r, seq) ==
    IF prevSeq = None THEN r
    ELSE IF prevSeq > seq
    THEN [r EXCEPT !.wraps = IF prevSeq - seq > Numbers \div 2 THEN @ + 1 ELSE @]
    ELSE [r EXCEPT !.gaps = IF seq - prevSeq > 1 THEN @ + 1 ELSE @]

(* Opening the file and its header; main returns 1 if that fails. *)
AnalyzeRefused ==
    /\ tool = "analyze" /\ at = 0 /\ ~read_global_header
    /\ tool' = "analyze_failed"
    /\ UNCHANGED <<pcap, at, report, prevSeq, prevTs, replayVars>>

(* One pass of analyze_file's loop. *)
AnalyzeRecord ==
    /\ tool = "analyze" /\ read_global_header /\ read_record = "record"
    /\ LET seen == [report EXCEPT
               !.packets = @ + 1,
               !.delays = IF prevTs = None THEN @ ELSE Append(@, Rec.ts - prevTs)]
           seq == SequenceNumber(Rec.num)
       IN  IF Rec.kind = "junk"
           THEN report' = [seen EXCEPT !.invalid = @ + 1] /\ prevSeq' = prevSeq
           ELSE /\ report' = Sequence([seen EXCEPT !.typed = @ + 1], seq)
                /\ prevSeq' = seq
    /\ prevTs' = Rec.ts
    /\ at' = at + 1
    /\ UNCHANGED <<pcap, tool, replayVars>>

(* Mutant: the report covers what was read before the exception. *)
MutAnalyzeThrows ==
    /\ tool = "analyze" /\ read_global_header /\ read_record = "throws"
    /\ tool' = "analyzed"
    /\ UNCHANGED <<pcap, at, report, prevSeq, prevTs, replayVars>>

(* The exception is caught in main, which returns 1 without a report. *)
AnalyzeThrows ==
    /\ tool = "analyze" /\ read_global_header /\ read_record = "throws"
    /\ tool' = "analyze_failed"
    /\ report' = NoReport
    /\ UNCHANGED <<pcap, at, prevSeq, prevTs, replayVars>>

AnalyzeEnds ==
    /\ tool = "analyze" /\ read_global_header /\ read_record = "end"
    /\ tool' = "analyzed"
    /\ UNCHANGED <<pcap, at, report, prevSeq, prevTs, replayVars>>

(* Interpolated between two neighbours of the sorted s, times 1000. *)
percentile_sorted(s, permille) ==
    LET pos == permille * (Len(s) - 1)
        idx == pos \div 1000
        next == IF idx + 1 < Len(s) - 1 THEN idx + 1 ELSE Len(s) - 1
        frac == pos % 1000
    IN  s[idx + 1] * (1000 - frac) + s[next + 1] * frac

(* min, p50, p99 and max, times 1000 *)
compute_delay_stats(delays) ==
    IF delays = <<>> THEN <<0, 0, 0, 0>>
    ELSE LET s == SortSeq(delays, <)
         IN  <<1000 * s[1], percentile_sorted(s, 500), percentile_sorted(s, 990),
               1000 * s[Len(s)]>>

----------------------------------------------------------------------------
(* pcap_replay *)

(* One option of parse_args; an option that is refused ends the parsing.   *)
(* An option is a name and a value; None stands for a missing value.       *)
Option(o, a) ==
    CASE ~o.ok -> o
      [] a[1] = "loop" -> [o EXCEPT !.opt.loop = TRUE]
      [] a[1] = "count" ->
            IF a[2] \in {None, 0} THEN [o EXCEPT !.ok = FALSE]
            ELSE [o EXCEPT !.opt.count = a[2]]
      [] a[1] = "start" ->
            IF a[2] = None THEN [o EXCEPT !.ok = FALSE]
            ELSE [o EXCEPT !.opt.start = a[2]]
      [] a[1] = "end" ->
            IF a[2] = None THEN [o EXCEPT !.ok = FALSE]
            ELSE [o EXCEPT !.opt.end = a[2]]
      [] OTHER -> [o EXCEPT !.ok = FALSE]

parse_args(args) ==
    LET o == FoldLeft(Option, [ok |-> TRUE, opt |-> DefaultOptions], args)
    IN  [o EXCEPT !.ok = @ /\ (o.opt.start # None /\ o.opt.end # None
                                   => o.opt.start <= o.opt.end)]

(* 0 stands for no limit. *)
iterations_target ==
    IF ropt.count # None THEN ropt.count ELSE IF ropt.loop THEN 0 ELSE 1

(* main up to the first pass: bad arguments, no socket or a target that is *)
(* no address leave with 1.                                                *)
ReplayStart ==
    /\ tool \in {"analyzed", "analyze_failed"}
    /\ \E args \in ArgLists :
        LET o == parse_args(args)
        IN  /\ ropt' = o.opt
            /\ tool' \in IF o.ok THEN {"pass", "no_target"} ELSE {"usage"}
    /\ UNCHANGED <<pcap, at, report, prevSeq, prevTs, iteration, perPass, total,
                   aired, unsent>>

(* replay_once opens the file again for every pass. *)
PassBegins ==
    /\ tool = "pass"
    /\ iterations_target = 0 => iteration < MaxPasses
    /\ IF read_global_header
       THEN tool' = "replay" /\ at' = 0 /\ perPass' = NoReplay
       ELSE tool' = "replay_failed" /\ UNCHANGED <<at, perPass>>
    /\ UNCHANGED <<pcap, report, prevSeq, prevTs, ropt, iteration, total, aired,
                   unsent>>

should_send(ts) ==
    /\ ropt.start # None => ts >= ropt.start
    /\ ropt.end # None => ts <= ropt.end

(* One pass of replay_once's loop; a send that fails skips the packet. *)
ReplayRecord ==
    /\ tool = "replay" /\ read_record = "record"
    /\ LET read == [perPass EXCEPT !.file = @ + 1]
       IN  \/ /\ ~should_send(Rec.ts)
              /\ perPass' = [read EXCEPT !.filtered = @ + 1]
              /\ UNCHANGED <<aired, unsent>>
           \/ /\ should_send(Rec.ts)
              /\ perPass' = [read EXCEPT !.sent = @ + 1]
              /\ aired' = Append(aired, <<iteration + 1, at + 1>>)
              /\ unsent' = unsent
           \/ /\ should_send(Rec.ts) /\ unsent < MaxUnsent
              /\ perPass' = read
              /\ unsent' = unsent + 1
              /\ aired' = aired
    /\ at' = at + 1
    /\ UNCHANGED <<pcap, tool, report, prevSeq, prevTs, ropt, iteration, total>>

(* main has no handler: the exception ends the process. *)
ReplayThrows ==
    /\ tool = "replay" /\ read_record = "throws"
    /\ tool' = "terminated"
    /\ UNCHANGED <<pcap, at, report, prevSeq, prevTs, replayVars>>

(* The end of a pass and the loop of main. *)
PassEnds ==
    /\ tool = "replay" /\ read_record = "end"
    /\ total' = [file |-> total.file + perPass.file,
                 filtered |-> total.filtered + perPass.filtered,
                 sent |-> total.sent + perPass.sent]
    /\ iteration' = iteration + 1
    /\ tool' = IF iterations_target = 0 \/ iteration + 1 < iterations_target
               THEN "pass" ELSE "replayed"
    /\ UNCHANGED <<pcap, at, report, prevSeq, prevTs, ropt, perPass, aired,
                   unsent>>

PcapNext ==
    \/ AnalyzeRefused \/ AnalyzeRecord \/ AnalyzeThrows \/ AnalyzeEnds
    \/ ReplayStart \/ PassBegins \/ ReplayRecord \/ ReplayThrows \/ PassEnds

PcapSpec == PcapInit /\ [][PcapNext]_pcapVars

----------------------------------------------------------------------------
(* The records whose packets the analyzer numbers, in the file's order. *)
Numbered == SelectSeq(pcap.recs, LAMBDA r : r.kind = "packet")

(* The neighbours of Numbered with a new round of numbers between them. *)
NewRounds == {i \in 1..Len(Numbered) - 1 :
                Numbered[i].num \div Numbers # Numbered[i + 1].num \div Numbers}

(* The neighbours with numbers missing between them. *)
Holes == {i \in 1..Len(Numbered) - 1 : Numbered[i + 1].num - Numbered[i].num > 1}

(***************************************************************************)
(* On the packets of one source, in the order of sending, the report       *)
(* counts every new round of the numbers, and every hole except the ones   *)
(* that fall on a new round, whatever junk stands between the packets      *)
(* (pcap_analyze.cpp:453-472).  Every packet is typed or invalid, and the  *)
(* delay percentiles ascend.                                               *)
(***************************************************************************)
GapsExact ==
    tool = "analyzed" /\ (\A i \in 1..Len(Numbered) - 1 :
            2 * (Numbered[i + 1].num - Numbered[i].num) < Numbers)
        => /\ report.wraps = Cardinality(NewRounds)
           /\ report.gaps = Cardinality(Holes \ NewRounds)
           /\ report.packets = report.typed + report.invalid
           /\ LET s == compute_delay_stats(report.delays)
              IN  \A i \in 1..3 : s[i] <= s[i + 1]

(* The records of pass p that went out. *)
AiredIn(p) == {i \in DOMAIN pcap.recs : \E k \in DOMAIN aired : aired[k] = <<p, i>>}

(***************************************************************************)
(* A file the analyzer reports on is replayed to its end, with as many     *)
(* packets as reported in every pass, and one it refuses is not; a cut or  *)
(* malformed record stops the replay after the records before it.  The     *)
(* replay sends each record at most once in a pass and in the file's       *)
(* order; a finished replay made the passes asked for, its totals are the  *)
(* sums over them, and only a failed send keeps a record of the time       *)
(* window from going out.                                                  *)
(***************************************************************************)
ToolsAgree ==
    /\ tool = "replayed" => total.file = iteration * report.packets
    /\ tool \in {"terminated", "replay_failed"} => report = NoReport
    /\ tool = "terminated" =>
        \E i \in DOMAIN pcap.recs :
            /\ at = i - 1 /\ pcap.recs[i].kind \in {"cut", "badlen"}
            /\ \A k \in DOMAIN aired : aired[k][2] < i
    /\ \A j \in 2..Len(aired) :
        \/ aired[j - 1][1] < aired[j][1]
        \/ aired[j - 1][1] = aired[j][1] /\ aired[j - 1][2] < aired[j][2]
    /\ tool = "replayed" =>
        /\ iteration = (IF ropt.count # None THEN ropt.count ELSE 1)
        /\ total.file = iteration * Len(pcap.recs)
        /\ total.file = total.filtered + total.sent + unsent
        /\ total.sent = Len(aired)
        /\ unsent = 0 => \A p \in 1..iteration :
             AiredIn(p) = {i \in DOMAIN pcap.recs :
                 /\ ropt.start # None => pcap.recs[i].ts >= ropt.start
                 /\ ropt.end # None => pcap.recs[i].ts <= ropt.end}

PcapTypeOK ==
    /\ tool \in {"analyze", "analyzed", "analyze_failed", "usage", "no_target", "pass",
                 "replay", "replay_failed", "terminated", "replayed"}
    /\ at \in 0..Len(pcap.recs)
    /\ prevSeq \in None..Numbers - 1
    /\ report.packets <= Len(pcap.recs)
    /\ Len(report.delays) <= report.packets
    /\ iteration \in Nat /\ unsent \in 0..MaxUnsent
=============================================================================
