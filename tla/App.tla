-------------------------------- MODULE App ---------------------------------
(***************************************************************************)
(* The life of the receiver process: main (main.cpp), app_init, app_run    *)
(* and app_shutdown, the signal handlers, and the threads they start and   *)
(* join: one receive thread per face (UdpReceiver), one processing thread  *)
(* per face, one StubConsumer per face and the metrics server.             *)
(*                                                                         *)
(* What the threads do to data is in Face, RawPath and Capture; here they  *)
(* only run and end.  Of the capture it matters which thread is in a       *)
(* PcapWriter::stop(), whose join ends, or never does when the writer's    *)
(* thread missed its wake-up (Capture shows how).                          *)
(***************************************************************************)
EXTENDS Integers, FiniteSets

CONSTANTS
    NumFaces,      \* num_faces: 1 or 3 in the code
    MaxEvents      \* bound: the increments of a pipeline counter

ASSUME AppAssumption == NumFaces \in Nat \ {0} /\ MaxEvents \in Nat

FaceIds == 1..NumFaces

VARIABLES
    main,          \* where the main thread is
    code,          \* how the process ended: "none", "0", "1", "2", "killed"...
    cli,           \* the command line: "help", "bad", "dry" or "normal"
    g_running, g_reload_requested, handlers,      \* signal_handler.cpp
    rx,            \* per face: "none", "runs", "told" to stop, "gone"
    proc,          \* the processing threads not joined yet
    procRun,       \* ctx.processing_running
    cons,          \* the running consumers
    launched,       \* ctx.started
    capturing,     \* ctx.pcap_writer is set
    stops,         \* per thread, 0 for main and f for the receive thread of face f: the
                   \* stop() of a writer it is in: "no", "told" or "deaf" (no wake-up)
    reasmFlushed, reordFlushed, delivFlushed,     \* stages 3 to 5
    metricsOn,     \* MetricsCollector: impl->started
    server,        \* where its thread is
    listenFd,      \* impl->listen_fd >= 0
    closes,        \* history: close() calls on the listening socket
    counter, lastSeen, reported       \* a pipeline counter and its metric

sigVars == <<g_running, g_reload_requested, handlers>>
flushVars == <<reasmFlushed, reordFlushed, delivFlushed>>
serverVars == <<metricsOn, server, listenFd, closes>>
captureVars == <<capturing, stops>>
countVars == <<counter, lastSeen, reported>>
appVars == <<main, code, cli, sigVars, rx, proc, procRun, cons, launched, captureVars,
             flushVars, serverVars, countVars>>

AppInitial ==
    /\ main = "cli" /\ code = "none"
    /\ cli \in {"help", "bad", "dry", "normal"}
    /\ g_running = TRUE /\ g_reload_requested = FALSE /\ handlers = FALSE
    /\ rx = [f \in FaceIds |-> "none"] /\ proc = {} /\ procRun = FALSE
    /\ cons = {} /\ launched = FALSE
    /\ capturing = FALSE /\ stops = [t \in 0..NumFaces |-> "no"]
    /\ reasmFlushed = {} /\ reordFlushed = {} /\ delivFlushed = FALSE
    /\ metricsOn = FALSE /\ server = "none" /\ listenFd = FALSE /\ closes = 0
    /\ counter = 0 /\ lastSeen = 0 /\ reported = 0

Alive == code = "none"

Ends(c) == main' = "exited" /\ code' = c

(* Thread t enters the stop() of a writer. *)
StopsWriter(t) == \E s \in {"told", "deaf"} : stops' = [stops EXCEPT ![t] = s]

(* The main thread goes on from one place to the next. *)
Goes(from, to) == Alive /\ main = from /\ main' = to /\ code' = code

----------------------------------------------------------------------------
(* main.cpp and app_init.cpp *)

(* parse_cli_options: --help leaves with 0, a bad option with 2.           *)
parse_cli_options ==
    /\ Alive /\ main = "cli"
    /\ CASE cli = "help" -> Ends("0")
         [] cli = "bad" -> Ends("2")
         [] OTHER -> main' = "init" /\ code' = code
    /\ UNCHANGED <<cli, sigVars, rx, proc, procRun, cons, launched, captureVars, flushVars,
                   serverVars, countVars>>

(* app_init: the configuration is refused, or the components are made and  *)
(* the capture writer, when configured, is started.                       *)
app_init ==
    /\ Alive /\ main = "init"
    /\ \/ Ends("1") /\ capturing' = capturing
       \/ main' = "run" /\ code' = code /\ capturing' \in BOOLEAN
    /\ UNCHANGED <<stops, cli, sigVars, rx, proc, procRun, cons, launched, flushVars,
                   serverVars, countVars>>

----------------------------------------------------------------------------
(* app_run: the start *)

(* The dry run returns; else the flags are reset and the handlers set.     *)
RunBegins ==
    /\ Alive /\ main = "run" /\ code' = code
    /\ IF cli = "dry"
       THEN main' = "return" /\ UNCHANGED sigVars
       ELSE /\ main' = "metrics"
            /\ g_running' = TRUE /\ g_reload_requested' = FALSE /\ handlers' = TRUE
    /\ UNCHANGED <<cli, rx, proc, procRun, cons, launched, captureVars, flushVars,
                   serverVars, countVars>>

(* MetricsCollector::start; it answers true before the server has a socket. *)
MetricsStart ==
    /\ Goes("metrics", "udp")
    /\ metricsOn' = TRUE /\ server' = "setup"
    /\ UNCHANGED <<cli, sigVars, rx, proc, procRun, cons, launched, captureVars, flushVars,
                   listenFd, closes, countVars>>

(* UdpReceiver::start: the faces in turn; a face without a socket is       *)
(* dropped, and stop() takes back the ones before it.                      *)
UdpStartFace ==
    /\ Alive /\ main = "udp" /\ code' = code
    /\ \E f \in FaceIds :
        /\ rx[f] = "none" /\ \A e \in 1..(f - 1) : rx[e] # "none"
        /\ \/ rx' = [rx EXCEPT ![f] = "runs"]
              /\ main' = IF f = NumFaces THEN "proc" ELSE "udp"
           \/ main' = "undo udp" /\ rx' = rx
    /\ UNCHANGED <<cli, sigVars, proc, procRun, cons, launched, captureVars, flushVars,
                   serverVars, countVars>>

ProcStart ==
    /\ Goes("proc", "cons")
    /\ procRun' = TRUE /\ proc' = FaceIds
    /\ UNCHANGED <<cli, sigVars, rx, cons, launched, captureVars, flushVars, serverVars,
                   countVars>>

(* The consumers in turn; the first that fails undoes the start.           *)
ConsStart ==
    /\ Alive /\ main = "cons" /\ code' = code
    /\ \/ /\ cons # FaceIds
          /\ cons' = cons \cup {Cardinality(cons) + 1}
          /\ UNCHANGED <<main, launched>>
       \/ /\ cons # FaceIds
          /\ cons' = {} /\ main' = "undo proc" /\ launched' = launched
       \/ /\ cons = FaceIds
          /\ main' = "loop" /\ launched' = TRUE /\ cons' = cons
    /\ UNCHANGED <<cli, sigVars, rx, proc, procRun, captureVars, flushVars, serverVars,
                   countVars>>

(* Mutant: the undone start leaves the processing threads behind. *)
MutUndoProc ==
    /\ Goes("undo proc", "undo udp")
    /\ procRun' = FALSE
    /\ UNCHANGED <<cli, sigVars, rx, proc, cons, launched, captureVars, flushVars, serverVars,
                   countVars>>

UndoProc ==
    /\ Alive /\ main = "undo proc" /\ code' = code
    /\ IF procRun
       THEN procRun' = FALSE /\ main' = main
       ELSE proc = {} /\ main' = "undo udp" /\ procRun' = procRun
    /\ UNCHANGED <<cli, sigVars, rx, proc, cons, launched, captureVars, flushVars, serverVars,
                   countVars>>

----------------------------------------------------------------------------
(* app_run: the main loop *)

(* apply_capture_runtime_config, after a reload that worked.  Capture may  *)
(* stay as it is (off, or the new writer does not start), be switched off, *)
(* which stops the writer, be switched on, or get a new writer: then the   *)
(* old one is destroyed by the thread that held it last.                   *)
apply_capture_runtime_config ==
    \/ UNCHANGED captureVars
    \/ capturing /\ capturing' = FALSE /\ StopsWriter(0)
    \/ ~capturing /\ capturing' = TRUE /\ stops' = stops
    \/ /\ capturing /\ capturing' = TRUE
       /\ \E t \in 0..NumFaces :
             stops[t] = "no" /\ (t # 0 => rx[t] = "runs") /\ StopsWriter(t)

(* The top of the loop: the request to reload is taken.  The reload is     *)
(* refused, works, or throws what load_from_file does not catch.           *)
LoopPass ==
    /\ Alive /\ main = "loop" /\ g_running
    /\ g_reload_requested' = FALSE
    /\ \/ /\ main' = "scan" /\ code' = code
          /\ IF g_reload_requested THEN apply_capture_runtime_config ELSE UNCHANGED captureVars
       \/ /\ g_reload_requested /\ Ends("uncaught")
          /\ UNCHANGED captureVars
    /\ UNCHANGED <<cli, g_running, handlers, rx, proc, procRun, cons, launched, flushVars,
                   serverVars, countVars>>

(* The rest of the pass: the growth of the counters is reported. *)
ReportCounters ==
    /\ Goes("scan", "loop")
    /\ lastSeen' = counter
    /\ reported' = reported + (counter - lastSeen)
    /\ UNCHANGED <<cli, sigVars, rx, proc, procRun, cons, launched, captureVars, flushVars,
                   serverVars, counter>>

(* The loop is left; app_shutdown begins. *)
LoopLeft ==
    /\ Goes("loop", "s0") /\ ~g_running
    /\ UNCHANGED <<cli, sigVars, rx, proc, procRun, cons, launched, captureVars, flushVars,
                   serverVars, countVars>>

----------------------------------------------------------------------------
(* app_shutdown; each stage ends in enforce_shutdown_timeout.              *)

StopConsumers ==
    /\ Goes("s0", "s1")
    /\ cons' = {}
    /\ UNCHANGED <<cli, sigVars, rx, proc, procRun, launched, captureVars, flushVars,
                   serverVars, countVars>>

(* UdpReceiver::stop: the faces in turn, each told to stop and joined.     *)
UdpStop ==
    /\ Alive /\ main \in {"s1", "undo udp"} /\ code' = code
    /\ \A f \in FaceIds : rx[f] # "told"
    /\ \/ /\ \E f \in FaceIds : rx[f] = "runs"
          /\ LET f == CHOOSE f \in FaceIds :
                        rx[f] = "runs" /\ \A e \in 1..(f - 1) : rx[e] # "runs"
             IN  rx' = [rx EXCEPT ![f] = "told"]
          /\ main' = main
       \/ /\ \A f \in FaceIds : rx[f] # "runs"
          /\ main' = IF main = "s1" THEN "s1.5" ELSE "return"
          /\ rx' = rx
    /\ UNCHANGED <<cli, sigVars, proc, procRun, cons, launched, captureVars, flushVars,
                   serverVars, countVars>>

StopProcessing ==
    /\ Goes("s1.5", "join")
    /\ procRun' = FALSE
    /\ UNCHANGED <<cli, sigVars, rx, proc, cons, launched, captureVars, flushVars, serverVars,
                   countVars>>

(* Mutant: stages 3 to 5 do not wait for the processing threads. *)
MutJoinProcessing ==
    /\ Goes("join", "s2")
    /\ UNCHANGED <<cli, sigVars, rx, proc, procRun, cons, launched, captureVars, flushVars,
                   serverVars, countVars>>

JoinProcessing ==
    /\ Goes("join", "s2") /\ proc = {}
    /\ UNCHANGED <<cli, sigVars, rx, proc, procRun, cons, launched, captureVars, flushVars,
                   serverVars, countVars>>

(* Stage 2: pcap_writer->stop(), from which main may not come back. *)
StopCapture ==
    /\ Alive /\ main = "s2" /\ code' = code
    /\ IF capturing
       THEN capturing' = FALSE /\ StopsWriter(0) /\ main' = main
       ELSE main' = "s3" /\ UNCHANGED captureVars
    /\ UNCHANGED <<cli, sigVars, rx, proc, procRun, cons, launched, flushVars,
                   serverVars, countVars>>

FlushPipelines ==
    /\ Alive /\ main \in {"s3", "s4"} /\ code' = code
    /\ IF main = "s3"
       THEN reasmFlushed' = FaceIds /\ main' = "s4" /\ reordFlushed' = reordFlushed
       ELSE reordFlushed' = FaceIds /\ main' = "s5" /\ reasmFlushed' = reasmFlushed
    /\ UNCHANGED <<cli, sigVars, rx, proc, procRun, cons, launched, captureVars, delivFlushed,
                   serverVars, countVars>>

FlushDelivery ==
    /\ Goes("s5", "s6")
    /\ delivFlushed' = TRUE
    /\ UNCHANGED <<cli, sigVars, rx, proc, procRun, cons, launched, captureVars,
                   reasmFlushed, reordFlushed, serverVars, countVars>>

(* A stage took more than the three seconds, which is seen when it is      *)
(* over: std::_Exit(1).                                                    *)
enforce_shutdown_timeout ==
    /\ Alive /\ stops[0] = "no" /\ main \in {"s1", "s1.5", "s2", "s3", "s4", "s5", "s6", "s6 done"}
    /\ Ends("1")
    /\ UNCHANGED <<cli, sigVars, rx, proc, procRun, cons, launched, captureVars, flushVars,
                   serverVars, countVars>>

(***************************************************************************)
(* MetricsCollector::stop, from stage 6 and again from the destructor of   *)
(* the static collector: the flag; a look at listen_fd and its close; the  *)
(* join.  The server thread closes the socket too, when it sees the flag.  *)
(***************************************************************************)
MetricsStop ==
    /\ Alive /\ code' = code
    /\ \/ /\ main \in {"s6", "destroy"}
          /\ metricsOn' = FALSE
          /\ main' = IF server = "none"
                     THEN IF main = "s6" THEN "s6 done" ELSE "over"
                     ELSE IF main = "s6" THEN "s6 look" ELSE "d look"
          /\ UNCHANGED <<listenFd, closes>>
       \/ /\ main \in {"s6 look", "d look"}
          /\ main' = IF main = "s6 look"
                     THEN IF listenFd THEN "s6 close" ELSE "s6 join"
                     ELSE IF listenFd THEN "d close" ELSE "d join"
          /\ UNCHANGED <<metricsOn, listenFd, closes>>
       \/ /\ main \in {"s6 close", "d close"}
          /\ listenFd' = FALSE /\ closes' = closes + 1
          /\ main' = IF main = "s6 close" THEN "s6 join" ELSE "d join"
          /\ metricsOn' = metricsOn
    /\ UNCHANGED <<cli, sigVars, rx, proc, procRun, cons, launched, captureVars, flushVars,
                   server, countVars>>

MetricsJoin ==
    /\ Alive /\ code' = code
    /\ main \in {"s6 join", "d join"} /\ server = "ended"
    /\ main' = IF main = "s6 join" THEN "s6 done" ELSE "over"
    /\ server' = "none"
    /\ UNCHANGED <<cli, sigVars, rx, proc, procRun, cons, launched, captureVars, flushVars,
                   metricsOn, listenFd, closes, countVars>>

AppShutdownDone ==
    /\ Goes("s6 done", "return")
    /\ launched' = FALSE
    /\ UNCHANGED <<cli, sigVars, rx, proc, procRun, cons, captureVars, flushVars, serverVars,
                   countVars>>

(* main returns: ~AppContext destroys the writer, aborts on a thread that  *)
(* was not joined, and then the static collector goes.                     *)
MainReturns ==
    /\ Alive /\ main = "return"
    /\ IF capturing
       THEN capturing' = FALSE /\ StopsWriter(0) /\ UNCHANGED <<main, code>>
       ELSE /\ IF proc # {} THEN Ends("abort") ELSE main' = "destroy" /\ code' = code
            /\ UNCHANGED captureVars
    /\ UNCHANGED <<cli, sigVars, rx, proc, procRun, cons, launched, flushVars,
                   serverVars, countVars>>

(* The exit code: app_run failed when the start was undone.                *)
ProcessEnds ==
    /\ Alive /\ main = "over"
    /\ Ends(IF cli = "dry" \/ delivFlushed THEN "0" ELSE "1")
    /\ UNCHANGED <<cli, sigVars, rx, proc, procRun, cons, launched, captureVars, flushVars,
                   serverVars, countVars>>

----------------------------------------------------------------------------
(* The other threads, and the signals *)

(* The thread of a writer ends, and the stop() that waits for it. *)
WriterEnds ==
    /\ Alive
    /\ \E t \in 0..NumFaces : stops[t] = "told" /\ stops' = [stops EXCEPT ![t] = "no"]
    /\ UNCHANGED <<main, code, cli, sigVars, rx, proc, procRun, cons, launched, capturing,
                   flushVars, serverVars, countVars>>

RxEnds ==
    /\ Alive
    /\ \E f \in FaceIds : rx[f] = "told" /\ stops[f] = "no" /\ rx' = [rx EXCEPT ![f] = "gone"]
    /\ UNCHANGED <<main, code, cli, sigVars, proc, procRun, cons, launched, captureVars,
                   flushVars, serverVars, countVars>>

ProcEnds ==
    /\ Alive /\ ~procRun
    /\ \E f \in proc : proc' = proc \ {f}
    /\ UNCHANGED <<main, code, cli, sigVars, rx, procRun, cons, launched, captureVars,
                   flushVars, serverVars, countVars>>

(* A processing thread counts something. *)
ProcCounts ==
    /\ Alive /\ proc # {} /\ counter < MaxEvents
    /\ counter' = counter + 1
    /\ UNCHANGED <<main, code, cli, sigVars, rx, proc, procRun, cons, launched, captureVars,
                   flushVars, serverVars, lastSeen, reported>>

(* run_http_server: the socket, then its address and listen().  What fails *)
(* clears the flag; listen_fd is set before, and stop() may have taken it. *)
ServerSetup ==
    /\ Alive
    /\ \/ server = "setup" /\ server' = "bind" /\ listenFd' = TRUE /\ UNCHANGED <<metricsOn, closes>>
       \/ server = "setup" /\ server' = "ended" /\ metricsOn' = FALSE /\ UNCHANGED <<listenFd, closes>>
       \/ /\ server = "bind" /\ listenFd
          /\ server' \in {"top", "drop"}
          /\ UNCHANGED <<metricsOn, listenFd, closes>>
       \/ /\ server = "bind" /\ ~listenFd
          /\ server' = "ended" /\ metricsOn' = FALSE
          /\ UNCHANGED <<listenFd, closes>>
       \/ /\ server = "drop" /\ server' = "ended"
          /\ listenFd' = FALSE /\ closes' = closes + 1 /\ metricsOn' = FALSE
    /\ UNCHANGED <<main, code, cli, sigVars, rx, proc, procRun, cons, launched, captureVars,
                   flushVars, countVars>>

(* Mutant: the server does not look at the flag between two accepts. *)
MutServerLoop ==
    /\ Alive
    /\ \/ server = "top" /\ server' = "accept" /\ UNCHANGED <<listenFd, closes>>
       \/ server = "accept" /\ server' = "top" /\ UNCHANGED <<listenFd, closes>>
    /\ UNCHANGED <<main, code, cli, sigVars, rx, proc, procRun, cons, launched, captureVars,
                   flushVars, metricsOn, countVars>>

(* The loop: the flag, accept() until it times out or fails; in the end    *)
(* the socket is looked at and closed.                                     *)
ServerLoop ==
    /\ Alive
    /\ \/ /\ server = "top" /\ server' = IF metricsOn THEN "accept" ELSE "leave"
          /\ UNCHANGED <<listenFd, closes>>
       \/ server = "accept" /\ server' = "top" /\ UNCHANGED <<listenFd, closes>>
       \/ /\ server = "leave" /\ server' = IF listenFd THEN "close" ELSE "ended"
          /\ UNCHANGED <<listenFd, closes>>
       \/ /\ server = "close" /\ server' = "ended"
          /\ listenFd' = FALSE /\ closes' = closes + 1
    /\ UNCHANGED <<main, code, cli, sigVars, rx, proc, procRun, cons, launched, captureVars,
                   flushVars, metricsOn, countVars>>

(* A client, served with recv() and send() for as long as it likes: there  *)
(* is no time limit.  SIGPIPE, which send() may raise, has no handler.     *)
ServeClient ==
    /\ Alive
    /\ \/ server = "accept" /\ listenFd /\ server' = "serve" /\ UNCHANGED <<main, code>>
       \/ server = "serve" /\ server' = "top" /\ UNCHANGED <<main, code>>
       \/ server = "serve" /\ server' = server /\ Ends("killed")
    /\ UNCHANGED <<cli, sigVars, rx, proc, procRun, cons, launched, captureVars,
                   flushVars, metricsOn, listenFd, closes, countVars>>

(* SIGINT, SIGTERM or SIGHUP: the default action before the handlers are   *)
(* set, signal_handler_impl after.                                         *)
Signal ==
    /\ Alive /\ main # "cli"
    /\ IF ~handlers
       THEN Ends("killed") /\ UNCHANGED sigVars
       ELSE /\ \/ g_running' = FALSE /\ g_reload_requested' = g_reload_requested
               \/ g_reload_requested' = TRUE /\ g_running' = g_running
            /\ UNCHANGED <<main, code, handlers>>
    /\ UNCHANGED <<cli, rx, proc, procRun, cons, launched, captureVars, flushVars, serverVars,
                   countVars>>

MainStep ==
    /\ stops[0] = "no"
    /\ \/ parse_cli_options \/ app_init
       \/ RunBegins \/ MetricsStart \/ UdpStartFace \/ ProcStart \/ ConsStart
       \/ UndoProc \/ LoopPass \/ ReportCounters \/ LoopLeft
       \/ StopConsumers \/ UdpStop \/ StopProcessing \/ JoinProcessing \/ StopCapture
       \/ FlushPipelines \/ FlushDelivery \/ MetricsStop \/ MetricsJoin
       \/ AppShutdownDone \/ MainReturns \/ ProcessEnds

AppNext ==
    \/ MainStep \/ enforce_shutdown_timeout
    \/ WriterEnds \/ RxEnds \/ ProcEnds \/ ProcCounts
    \/ ServerSetup \/ ServerLoop \/ ServeClient \/ Signal

(* Every thread keeps running; recvmmsg and accept time out, but a client  *)
(* may keep the server as long as it likes.                                *)
AppFairness ==
    /\ WF_appVars(MainStep) /\ WF_appVars(WriterEnds)
    /\ WF_appVars(RxEnds) /\ WF_appVars(ProcEnds)
    /\ WF_appVars(ServerSetup) /\ WF_appVars(ServerLoop)

AppSpec == AppInitial /\ [][AppNext]_appVars /\ AppFairness

----------------------------------------------------------------------------
AppTypeOK ==
    /\ code \in {"none", "0", "1", "2", "killed", "abort", "uncaught"}
    /\ \A f \in FaceIds : rx[f] \in {"none", "runs", "told", "gone"}
    /\ proc \subseteq FaceIds /\ cons \subseteq FaceIds
    /\ stops \in [0..NumFaces -> {"no", "told", "deaf"}]
    /\ server \in {"none", "setup", "bind", "drop", "top", "accept", "serve", "leave", "close",
                   "ended"}
    /\ closes \in 0..2

Receiving == \E f \in FaceIds : rx[f] \in {"runs", "told"}

(***************************************************************************)
(* The stages of app_shutdown follow the data: the pipelines are flushed   *)
(* when no receive thread can call the capture hook and no writer is left  *)
(* or being stopped; a face's reassembler and reorderer when no processing *)
(* thread can feed them; the delivery last.                                *)
(***************************************************************************)
FlushOrder ==
    Alive =>
        /\ main \in {"s3", "s4", "s5"} =>
              /\ ~Receiving /\ proc = {} /\ ~capturing
              /\ \A t \in 0..NumFaces : stops[t] = "no"
        /\ reordFlushed # {} => reasmFlushed = FaceIds
        /\ delivFlushed => reordFlushed = FaceIds

(***************************************************************************)
(* However the start or the run ends, main returns with every thread it    *)
(* started joined, so no destructor meets a running one, and 0 is only     *)
(* returned after a run that was shut down in full.                        *)
(***************************************************************************)
ThreadsJoined ==
    /\ main \in {"return", "destroy", "over"} =>
            ~Receiving /\ proc = {} /\ cons = {} /\ ~launched
    /\ main \in {"destroy", "over"} => ~capturing /\ stops[0] = "no"
    /\ main = "over" => server = "none" /\ ~listenFd
    /\ code = "0" /\ cli = "normal" => delivFlushed
    /\ code # "abort"

(***************************************************************************)
(* stop() and the server thread may both close the listening socket.  When *)
(* they do, no other thread of the receiver is left whose descriptor could *)
(* have taken the number in between.                                       *)
(***************************************************************************)
DoubleCloseIsLate ==
    closes = 2 => ~Receiving /\ proc = {} /\ cons = {}

(***************************************************************************)
(* A stop signal that a handler has taken ends the process, unless a       *)
(* client keeps the metrics server for ever or a capture writer has missed *)
(* its wake-up: nothing else that main joins or calls can hold it.         *)
(***************************************************************************)
SignalEnds ==
    []<>(server # "serve") =>
        (~g_running ~> (main = "exited" \/ \E t \in 0..NumFaces : stops[t] = "deaf"))
=============================================================================
