--------------------------- MODULE ServiceProofs ----------------------------
(***************************************************************************)
(* The life of the process: the control plane, start and shutdown, the     *)
(* configuration and the connection of its Unix socket.                    *)
(***************************************************************************)
EXTENDS Control, App, UdsDelivery, Config, Loops, FiniteSetTheorems

----------------------------------------------------------------------------
(***************************************************************************)
(* The safety of the control plane, for every number of modules.           *)
(***************************************************************************)
(***************************************************************************)
(* Every reachable state is well typed, and the started modules are a      *)
(* prefix of the order in which the orchestrator registered them.          *)
(***************************************************************************)
IInv == ControlTypeOK /\ StartedInOrder

(* The control plane starts in the invariant: no module is up. *)
LEMMA InitIsIInv == ControlInit => IInv
<1> SUFFICES ASSUME ControlInit PROVE IInv
  BY Zenon
<1>1. started = 1..0 /\ 0 \in 0..N
  BY ModulesAssumption DEF ControlInit
<1> QED
  BY <1>1, ModulesAssumption
  DEF ControlInit, IInv, ControlTypeOK, StartedInOrder, SystemState, Commands

(* Every call of the control plane preserves the invariant. *)
LEMMA StepKeepsIInv == IInv /\ [ControlNext]_controlVars => IInv'
<1> SUFFICES ASSUME IInv, [ControlNext]_controlVars PROVE IInv'
  BY Zenon
<1> USE ModulesAssumption DEF IInv, ControlTypeOK, StartedInOrder, Modules, SystemState
<1>1. CASE boot
  BY Zenon, <1>1 DEF boot, After, monitor
<1>2. CASE \E command \in Commands : handle(command)
  <2>1. PICK command \in Commands : handle(command)
    BY Zenon, <1>2
  <2>2. PICK k \in 0..N : started = 1..k
    BY Zenon
  <2>3. UNCHANGED monitor
    BY Zenon, <2>1 DEF handle
  <2>4. CASE start_completes
    <3>1. started' = 1..N
      BY Zenon, <2>2, <2>4 DEF start_completes
    <3> QED
      BY <3>1, <2>3, <2>4
      DEF start_completes, monitor, After, is_transition_allowed, Commands
  <2>5. CASE start_fails
    <3>1. PICK f \in Modules : started' = started \cup 1..(f - 1)
      BY Zenon, <2>5 DEF start_fails
    <3>2. \E j \in 0..N : started' = 1..j
      <4>1. CASE k <= f - 1
        <5>1. started' = 1..(f - 1) /\ f - 1 \in 0..N
          BY <4>1, <3>1, <2>2
        <5> QED BY Zenon, <5>1
      <4>2. CASE ~(k <= f - 1)
        <5>1. started' = 1..k
          BY <4>2, <3>1, <2>2
        <5> QED BY Zenon, <5>1
      <4> QED BY Zenon, <4>1, <4>2
    <3>3. started' \in SUBSET Modules
      <4>1. PICK j \in 0..N : started' = 1..j
        BY Zenon, <3>2
      <4> QED BY <4>1
    <3>4. state' = state /\ ack' = [command |-> "START", ok |-> FALSE]
          /\ healthy' = healthy /\ unhealthy_ms' = unhealthy_ms
      BY Zenon, <2>3, <2>5 DEF start_fails, monitor
    <3>5. ack' \in [command : Commands \cup {"none"}, ok : BOOLEAN]
      BY Zenon, <3>4 DEF Commands
    <3> QED BY Zenon, <3>2, <3>3, <3>4, <3>5
  <2>6. CASE stop
    <3>1. started' = 1..0 /\ 0 \in 0..N
      BY <2>6 DEF stop
    <3> QED
      BY Zenon, <3>1, <2>3, <2>6 DEF stop, monitor, After, Commands
  <2>7. CASE reset
    <3>1. started' = 1..0 /\ 0 \in 0..N
      BY <2>7 DEF reset
    <3> QED
      BY Zenon, <3>1, <2>3, <2>7
      DEF reset, monitor, After, is_transition_allowed, Commands
  <2>8. CASE /\ command \in {"QUERY_STATE", "other"}
             /\ ack' = [command |-> command, ok |-> command = "QUERY_STATE"]
             /\ UNCHANGED <<state, started>>
    BY Zenon, <2>3, <2>8 DEF monitor, Commands
  <2> QED
    BY <2>1, <2>4, <2>5, <2>6, <2>7, <2>8 DEF handle, start
<1>3. CASE \E h \in BOOLEAN, ms \in 0..2 : report_health(h, ms)
  BY Zenon, <1>3 DEF report_health
<1>4. CASE tick
  BY Zenon, <1>4 DEF tick, After, monitor
<1>5. CASE UNCHANGED controlVars
  BY Zenon, <1>5 DEF controlVars
<1> QED
  BY Zenon, <1>1, <1>2, <1>3, <1>4, <1>5 DEF ControlNext

(***************************************************************************)
(* However STARTs fail and commands repeat, no module is up without all    *)
(* those registered before it (orchestrator.cpp, start and stop).          *)
(***************************************************************************)
THEOREM ModulesStartInOrder == ControlSpec => []StartedInOrder
<1>1. ControlInit => IInv
  BY Zenon, InitIsIInv
<1>2. IInv => StartedInOrder
  BY Zenon DEF IInv
<1> QED
  BY <1>1, <1>2, StepKeepsIInv, PTL DEF ControlSpec

(***************************************************************************)
(* The state Running is entered from Degraded, or by an acknowledged START *)
(* after which every module is up (orchestrator.cpp, start; the table).    *)
(***************************************************************************)
THEOREM OperationIsComplete == ControlSpec => RunsComplete
<1>1. IInv /\ [ControlNext]_controlVars => [RunsCompleteStep]_controlVars
  <2> SUFFICES ASSUME IInv, ControlNext, state' = "Running",
                      state \notin {"Running", "Degraded"}
               PROVE  /\ started' = Modules
                      /\ ack' = [command |-> "START", ok |-> TRUE]
    BY Zenon DEF RunsCompleteStep
  <2> USE DEF After, is_transition_allowed, TRANSITION_TABLE
  <2>1. ~boot /\ ~tick
    BY Zenon DEF boot, tick
  <2>2. ~\E h \in BOOLEAN, ms \in 0..2 : report_health(h, ms)
    BY Zenon DEF report_health
  <2>3. PICK command \in Commands : handle(command)
    BY Zenon, <2>1, <2>2 DEF ControlNext
  <2>4. ~stop /\ ~reset /\ ~start_fails
    BY Zenon DEF stop, reset, start_fails
  <2>5. start_completes
    BY Zenon, <2>3, <2>4 DEF handle, start
  <2>6. started \subseteq Modules
    BY Zenon DEF IInv, ControlTypeOK
  <2>7. is_transition_allowed(state, "Running") = TRUE
    BY Zenon, <2>5 DEF start_completes
  <2> QED
    BY Zenon, <2>5, <2>6, <2>7 DEF start_completes
<1>2. ControlInit => IInv
  BY Zenon, InitIsIInv
<1> QED
  BY <1>1, <1>2, StepKeepsIInv, PTL DEF ControlSpec, RunsComplete

(***************************************************************************)
(* A fault ends by boot, STOP or RESET only, and not in operation: the     *)
(* monitor never ends it (runtime_monitor.cpp, tick; system_state.cpp).    *)
(***************************************************************************)
THEOREM FaultIsHeld == ControlSpec => FaultHeld
<1>1. [ControlNext]_controlVars => [FaultHeldStep]_controlVars
  <2> SUFFICES ASSUME ControlNext, state = "Fault", state' # "Fault"
               PROVE  /\ state' \in {"Init", "Standby"}
                      /\ boot \/ handle("STOP") \/ handle("RESET")
    BY Zenon DEF FaultHeldStep
  <2> USE DEF After, is_transition_allowed, TRANSITION_TABLE
  <2>1. ~tick /\ ~\E h \in BOOLEAN, ms \in 0..2 : report_health(h, ms)
    BY Zenon DEF tick, report_health
  <2>2. CASE boot
    BY Zenon, <2>2 DEF boot
  <2>3. CASE \E command \in Commands : handle(command)
    <3>1. PICK command \in Commands : handle(command)
      BY Zenon, <2>3
    <3>2. ~start
      BY Zenon DEF start, start_completes, start_fails
    <3>3. command \in {"STOP", "RESET"}
      BY Zenon, <3>1, <3>2 DEF handle
    <3>4. stop \/ reset
      BY Zenon, <3>1, <3>3 DEF handle
    <3>5. state' = "Standby"
      BY Zenon, <3>4 DEF stop, reset
    <3> QED
      BY Zenon, <3>1, <3>3, <3>5
  <2> QED
    BY <2>1, <2>2, <2>3 DEF ControlNext
<1> QED
  BY <1>1, PTL DEF ControlSpec, FaultHeld

----------------------------------------------------------------------------
(***************************************************************************)
(* The life of the receiver process, for any number of faces: the stages   *)
(* of app_shutdown follow the data, no way out leaves a thread behind, and *)
(* the metrics socket is closed twice only when nothing else runs.         *)
(***************************************************************************)
(* The places of the main thread, by what has to hold there. *)
Before == {"cli", "init", "run", "metrics"}
Stage6 == {"s6", "s6 look", "s6 close", "s6 join", "s6 done"}
Ending == {"return", "destroy", "d look", "d close", "d join", "over"}
Flushing == {"s2", "s3", "s4", "s5"} \cup Stage6
NoRx == Before \cup {"s1.5", "join"} \cup Flushing \cup Ending
NoProc == Before \cup {"udp", "proc", "undo udp"} \cup Flushing \cup Ending
NoCons == NoProc \cup {"undo proc", "s1", "s1.5", "join"}
NotLaunched == Before \cup {"udp", "proc", "cons", "undo proc", "undo udp"} \cup Ending
NoCapture == {"s3", "s4", "s5"} \cup Stage6 \cup (Ending \ {"return"})
Places == NoCons \cup {"cons", "loop", "scan", "s0", "exited"}

(* Where the main thread may be once the metrics server was told to stop. *)
Late == (Stage6 \ {"s6"}) \cup Ending \cup {"exited"}

Shape ==
    /\ main \in Places /\ (Alive <=> main # "exited")
    /\ cli \in {"help", "bad", "dry", "normal"}
    /\ rx \in [FaceIds -> {"none", "runs", "told", "gone"}]
    /\ closes \in Nat
    /\ stops \in [0..NumFaces -> {"no", "told", "deaf"}]

(* Who may be in the stop() of a writer. *)
StopsKnown ==
    /\ stops[0] # "no" => main \in {"scan", "s2", "return", "exited"}
    /\ \A f \in FaceIds : stops[f] # "no" => rx[f] \in {"runs", "told"}

(* What the main thread knows of the other threads at each place. *)
ThreadsKnown ==
    /\ main \in NoRx => ~Receiving
    /\ main \in NoProc => proc = {}
    /\ main \in NoCons => cons = {}
    /\ main \in NotLaunched => ~launched
    /\ main \in NoCapture => ~capturing

FlushesKnown ==
    /\ main \in {"s4", "s5"} => reasmFlushed = FaceIds
    /\ main = "s5" => reordFlushed = FaceIds
    /\ reordFlushed # {} => reasmFlushed = FaceIds
    /\ delivFlushed => reordFlushed = FaceIds

(* The server closes its socket once, when it ends; main does so late. *)
ClosesKnown ==
    closes # 0 => \/ main \in Late /\ ~Receiving /\ proc = {} /\ cons = {}
                  \/ server \in {"none", "ended"} /\ ~listenFd /\ closes = 1

ServerKnown ==
    /\ main \in Before => server = "none" /\ closes = 0
    /\ main = "over" => server = "none"
    /\ listenFd => server \in {"bind", "drop", "top", "accept", "serve", "leave", "close"}

CodeKnown ==
    /\ code = "0" /\ cli = "normal" => delivFlushed
    /\ code # "abort"

(* The inductive invariant. *)
AppIInv ==
    /\ Shape /\ ThreadsKnown /\ FlushesKnown
    /\ StopsKnown /\ ClosesKnown /\ ServerKnown /\ CodeKnown
----------------------------------------------------------------------------
(* The main thread is none of the faces. *)
LEMMA NotZero == 0 \in 0..NumFaces /\ \A f \in FaceIds : f \in 0..NumFaces /\ f # 0
BY AppAssumption DEF FaceIds

(* Before main parses its options nothing runs. *)
LEMMA AppStartsSound == AppInitial => AppIInv
<1> SUFFICES ASSUME AppInitial PROVE AppIInv
  BY Zenon
<1>2. Shape
  BY DEF AppInitial, Shape, Alive, Places, NoCons, NoProc, Before
<1>3. ThreadsKnown
  BY Zenon DEF AppInitial, ThreadsKnown, Receiving, NoCapture, Stage6, Ending
<1>4. StopsKnown
  BY Zenon, NotZero DEF AppInitial, StopsKnown
<1> QED
  BY Zenon, <1>2, <1>3, <1>4 DEF AppInitial, AppIInv, FlushesKnown, ClosesKnown, ServerKnown, CodeKnown

(* Among the faces of a kind there is a first one. *)
LEMMA FirstFace ==
    ASSUME \E f \in FaceIds : rx[f] = "runs"
    PROVE  \E f \in FaceIds : rx[f] = "runs" /\ \A e \in 1..(f - 1) : rx[e] # "runs"
<1> DEFINE S == {f \in FaceIds : rx[f] = "runs"}
<1>1. S \in SUBSET Nat /\ S # {}
  BY DEF FaceIds
<1>2. PICK f \in S : \A e \in S : f <= e
  BY Zenon, <1>1, LeastNat
<1>3. \A e \in 1..(f - 1) : e \in FaceIds /\ ~(f <= e)
  BY <1>2, AppAssumption DEF FaceIds
<1> QED BY Zenon, <1>2, <1>3

(* The main thread goes from one place to another, and what it does there  *)
(* concerns neither the receive threads, nor the server, nor the flushes.  *)
LEMMA MainMoves ==
    ASSUME AppIInv, Alive, code' = code, main' \in Places \ {"exited", "s4", "s5", "over"},
           UNCHANGED <<cli, rx, stops, serverVars, flushVars>>, stops[0] = "no",
           main' \in Before => main \in Before,
           main \in Late => main' \in Late /\ UNCHANGED <<proc, cons>>,
           ThreadsKnown'
    PROVE  AppIInv'
<1> USE DEF serverVars, flushVars
<1>1. Shape'
  BY Zenon DEF AppIInv, Shape, Alive
<1>2. StopsKnown' /\ FlushesKnown' /\ CodeKnown'
  BY Zenon DEF AppIInv, StopsKnown, FlushesKnown, CodeKnown
<1>3. ServerKnown'
  BY Zenon DEF AppIInv, ServerKnown
<1>4. ClosesKnown'
  BY Zenon DEF AppIInv, ClosesKnown, Receiving
<1> QED BY Zenon, <1>1, <1>2, <1>3, <1>4 DEF AppIInv

(* The process ends, whatever the threads are doing. *)
LEMMA ProcessExits ==
    ASSUME AppIInv, NEW c \in {"0", "1", "2", "killed", "uncaught"}, Ends(c),
           UNCHANGED <<cli, rx, proc, cons, launched, captureVars, flushVars, serverVars>>,
           c = "0" /\ cli = "normal" => delivFlushed
    PROVE  AppIInv'
<1> USE DEF serverVars, flushVars, captureVars, Ends
<1>1. Shape'
  BY Zenon DEF AppIInv, Shape, Alive, Places
<1>2. ThreadsKnown'
  BY Zenon DEF ThreadsKnown, NoRx, NoProc, NoCons, NotLaunched, NoCapture, Flushing, Stage6,
               Ending, Before
<1>3. StopsKnown' /\ FlushesKnown' /\ CodeKnown'
  BY Zenon DEF AppIInv, StopsKnown, FlushesKnown, CodeKnown
<1>4. ServerKnown'
  BY Zenon DEF AppIInv, ServerKnown, Before
<1>5. ClosesKnown'
  BY Zenon DEF AppIInv, ClosesKnown, Receiving, Late
<1> QED BY Zenon, <1>1, <1>2, <1>3, <1>4, <1>5 DEF AppIInv

(* Another thread does something that touches none of the others and is    *)
(* not the server's.                                                       *)
LEMMA OthersMove ==
    ASSUME AppIInv, UNCHANGED <<main, code, cli, cons, launched, capturing, flushVars, serverVars>>,
           proc' \subseteq proc, Receiving' => Receiving,
           rx' \in [FaceIds -> {"none", "runs", "told", "gone"}],
           stops' \in [0..NumFaces -> {"no", "told", "deaf"}], StopsKnown'
    PROVE  AppIInv'
<1> USE DEF serverVars, flushVars
<1>1. Shape'
  BY Zenon DEF AppIInv, Shape, Alive
<1>2. ThreadsKnown'
  BY Zenon DEF AppIInv, ThreadsKnown
<1>3. FlushesKnown' /\ CodeKnown' /\ ServerKnown'
  BY Zenon DEF AppIInv, FlushesKnown, CodeKnown, ServerKnown
<1>4. ClosesKnown'
  BY Zenon DEF AppIInv, ClosesKnown
<1> QED BY Zenon, <1>1, <1>2, <1>3, <1>4 DEF AppIInv

(* What no thread looks at may change. *)
LEMMA NothingMoves ==
    ASSUME AppIInv,
           UNCHANGED <<main, code, cli, rx, proc, cons, launched, captureVars, flushVars, serverVars>>
    PROVE  AppIInv'
<1>1. /\ rx' \in [FaceIds -> {"none", "runs", "told", "gone"}] /\ (Receiving' => Receiving)
      /\ stops' \in [0..NumFaces -> {"no", "told", "deaf"}] /\ StopsKnown'
  BY Zenon DEF AppIInv, Shape, Receiving, StopsKnown, captureVars
<1> QED BY Zenon, <1>1, OthersMove DEF captureVars

(* The server thread goes on; it opens or closes its socket at most once. *)
LEMMA ServerMoves ==
    ASSUME AppIInv, Alive, server \notin {"none", "ended"},
           UNCHANGED <<main, code, cli, rx, proc, cons, launched, captureVars, flushVars>>,
           server' # "none",
           listenFd' => server' \in {"bind", "drop", "top", "accept", "serve", "leave", "close"},
           closes' = closes \/ (closes' = closes + 1 /\ server' = "ended" /\ ~listenFd')
    PROVE  AppIInv'
<1> USE DEF captureVars, flushVars
<1>1. closes \in Nat /\ closes' \in Nat /\ (closes = 0 /\ closes' # closes => closes' = 1)
  BY DEF AppIInv, Shape
<1>2. Shape'
  BY Zenon, <1>1 DEF AppIInv, Shape, Alive
<1>a. ThreadsKnown'
  BY Zenon DEF AppIInv, ThreadsKnown, Receiving
<1>b. StopsKnown' /\ FlushesKnown' /\ CodeKnown'
  BY Zenon DEF AppIInv, StopsKnown, FlushesKnown, CodeKnown
<1>4. main \notin Before /\ main # "over"
  BY Zenon DEF AppIInv, ServerKnown
<1>5. ServerKnown'
  BY Zenon, <1>4 DEF ServerKnown
<1>6. ClosesKnown'
  <2>1. CASE closes = 0
    BY Zenon, <1>1, <2>1 DEF ClosesKnown
  <2>2. CASE closes # 0
    BY Zenon, <2>2 DEF AppIInv, ClosesKnown, Receiving
  <2> QED BY Zenon, <2>1, <2>2
<1> QED BY Zenon, <1>2, <1>a, <1>b, <1>5, <1>6 DEF AppIInv

(* Starting up, running and undoing a start. *)
LEMMA StartSound ==
    ASSUME AppIInv, stops[0] = "no",
           \/ RunBegins \/ MetricsStart \/ UdpStartFace \/ ProcStart \/ ConsStart
           \/ UndoProc \/ LoopPass \/ ReportCounters \/ LoopLeft
    PROVE  AppIInv'
<1> USE DEF Places, Before, Stage6, Ending, Flushing, NoRx, NoProc, NoCons, NotLaunched, NoCapture,
            Late, serverVars, flushVars, captureVars, Goes
<1>1. CASE RunBegins
  <2>1. ThreadsKnown'
    BY Zenon, <1>1 DEF RunBegins, AppIInv, ThreadsKnown, Receiving
  <2> QED BY Zenon, <1>1, <2>1, MainMoves DEF RunBegins
<1>2. CASE MetricsStart
  <2>1. closes = 0 /\ ~listenFd
    BY Zenon, <1>2 DEF MetricsStart, AppIInv, ServerKnown
  <2>2. Shape' /\ StopsKnown' /\ FlushesKnown' /\ CodeKnown'
    BY Zenon, <1>2 DEF MetricsStart, AppIInv, Shape, StopsKnown, FlushesKnown, CodeKnown, Alive
  <2>3. ThreadsKnown'
    BY Zenon, <1>2 DEF MetricsStart, AppIInv, ThreadsKnown, Receiving
  <2>4. ServerKnown' /\ ClosesKnown'
    BY Zenon, <1>2, <2>1 DEF MetricsStart, ServerKnown, ClosesKnown
  <2> QED BY Zenon, <2>2, <2>3, <2>4 DEF AppIInv
<1>3. CASE UdpStartFace
  <2>1. PICK f \in FaceIds :
            /\ rx[f] = "none"
            /\ \/ rx' = [rx EXCEPT ![f] = "runs"] /\ main' \in {"udp", "proc"}
               \/ main' = "undo udp" /\ rx' = rx
    BY Zenon, <1>3 DEF UdpStartFace
  <2>2. rx' \in [FaceIds -> {"none", "runs", "told", "gone"}]
    BY Zenon, <2>1 DEF AppIInv, Shape
  <2>0. /\ main = "udp" /\ main' \in {"udp", "proc", "undo udp"} /\ Alive /\ code' = code
        /\ UNCHANGED <<cli, proc, cons, launched, captureVars, flushVars, serverVars>>
    BY Zenon, <1>3, <2>1 DEF UdpStartFace
  <2>a. Shape'
    BY Zenon, <2>0, <2>2 DEF AppIInv, Shape, Alive
  <2>b. FlushesKnown' /\ CodeKnown'
    BY Zenon, <2>0 DEF AppIInv, FlushesKnown, CodeKnown
  <2>c. ServerKnown'
    BY Zenon, <2>0 DEF AppIInv, ServerKnown
  <2>3. Shape' /\ FlushesKnown' /\ CodeKnown' /\ ServerKnown'
    BY Zenon, <2>a, <2>b, <2>c
  <2>4. ThreadsKnown'
    BY Zenon, <1>3, <2>1 DEF UdpStartFace, AppIInv, ThreadsKnown
  <2>5. StopsKnown'
    BY Zenon, <1>3, <2>1 DEF UdpStartFace, AppIInv, Shape, StopsKnown
  <2>6. ClosesKnown'
    BY Zenon, <1>3 DEF UdpStartFace, AppIInv, ClosesKnown
  <2> QED BY Zenon, <2>3, <2>4, <2>5, <2>6 DEF AppIInv
<1>4. CASE ProcStart
  <2>1. ThreadsKnown'
    BY Zenon, <1>4 DEF ProcStart, AppIInv, ThreadsKnown
  <2> QED BY Zenon, <1>4, <2>1, MainMoves DEF ProcStart
<1>5. CASE ConsStart
  <2>0. /\ main = "cons"
        /\ \/ main' = "cons" /\ UNCHANGED launched
           \/ main' = "undo proc" /\ UNCHANGED launched /\ cons' = {}
           \/ main' = "loop"
        /\ UNCHANGED <<rx, proc, captureVars>>
    BY Zenon, <1>5 DEF ConsStart
  <2>1. ThreadsKnown'
    <3>1. ~launched
      BY Zenon, <2>0 DEF AppIInv, ThreadsKnown
    <3>2. main' = "undo proc" => cons' = {}
      BY Zenon, <2>0
    <3>3. main' \in {"cons", "undo proc", "loop"}
      BY Zenon, <2>0
    <3>4. main' = "loop" \/ ~launched'
      BY Zenon, <2>0, <3>1
    <3> QED BY Zenon, <3>2, <3>3, <3>4 DEF ThreadsKnown
  <2> QED BY Zenon, <1>5, <2>1, MainMoves DEF ConsStart
<1>6. CASE UndoProc
  <2>1. ThreadsKnown'
    BY Zenon, <1>6 DEF UndoProc, AppIInv, ThreadsKnown
  <2> QED BY Zenon, <1>6, <2>1, MainMoves DEF UndoProc
<1>7. CASE LoopPass
  <2>1. CASE main' = "exited"
    BY Zenon, <1>7, <2>1, ProcessExits DEF LoopPass, Ends
  <2>2. CASE main' = "scan" /\ code' = code
    <3>1. /\ main = "loop" /\ Alive
          /\ UNCHANGED <<cli, rx, proc, cons, launched, flushVars, serverVars>>
      BY Zenon, <1>7 DEF LoopPass
    <3>2. \/ stops' = stops
          \/ \E t \in 0..NumFaces : (t # 0 => rx[t] = "runs") /\ StopsWriter(t)
      BY Zenon, <1>7, <2>2, NotZero DEF LoopPass, apply_capture_runtime_config, Alive, Ends
    <3>3. stops' \in [0..NumFaces -> {"no", "told", "deaf"}] /\ StopsKnown'
      <4>1. CASE stops' = stops
        BY Zenon, <2>2, <3>1, <4>1 DEF AppIInv, Shape, StopsKnown
      <4>2. CASE \E t \in 0..NumFaces : (t # 0 => rx[t] = "runs") /\ StopsWriter(t)
        <5>1. PICK t \in 0..NumFaces, v \in {"told", "deaf"} :
                  (t # 0 => rx[t] = "runs") /\ stops' = [stops EXCEPT ![t] = v]
          BY Zenon, <4>2 DEF StopsWriter
        <5> QED
          BY Zenon, <2>2, <3>1, <5>1, NotZero DEF AppIInv, Shape, StopsKnown
      <4> QED BY Zenon, <3>2, <4>1, <4>2
    <3>4. Shape' /\ FlushesKnown' /\ CodeKnown' /\ ServerKnown'
      BY Zenon, <2>2, <3>1, <3>3 DEF AppIInv, Shape, FlushesKnown, CodeKnown, ServerKnown, Alive
    <3>5. ThreadsKnown'
      BY Zenon, <2>2 DEF ThreadsKnown
    <3>6. ClosesKnown'
      BY Zenon, <3>1 DEF AppIInv, ClosesKnown
    <3> QED BY Zenon, <3>3, <3>4, <3>5, <3>6 DEF AppIInv
  <2> QED BY Zenon, <1>7, <2>1, <2>2 DEF LoopPass, Ends
<1>8. CASE ReportCounters
  <2>1. ThreadsKnown'
    BY Zenon, <1>8 DEF ReportCounters, ThreadsKnown
  <2> QED BY Zenon, <1>8, <2>1, MainMoves DEF ReportCounters
<1>9. CASE LoopLeft
  <2>1. ThreadsKnown'
    BY Zenon, <1>9 DEF LoopLeft, ThreadsKnown
  <2> QED BY Zenon, <1>9, <2>1, MainMoves DEF LoopLeft
<1> QED
  BY Zenon, <1>1, <1>2, <1>3, <1>4, <1>5, <1>6, <1>7, <1>8, <1>9

(* The stages of app_shutdown, up to the delivery. *)
LEMMA StagesSound ==
    ASSUME AppIInv, stops[0] = "no",
           \/ StopConsumers \/ UdpStop \/ StopProcessing \/ JoinProcessing \/ StopCapture
           \/ FlushPipelines \/ FlushDelivery
    PROVE  AppIInv'
<1> USE DEF Places, Before, Stage6, Ending, Flushing, NoRx, NoProc, NoCons, NotLaunched, NoCapture,
            Late, serverVars, flushVars, captureVars, Goes
<1>1. CASE StopConsumers
  <2>1. ThreadsKnown'
    BY Zenon, <1>1 DEF StopConsumers, AppIInv, ThreadsKnown
  <2> QED BY Zenon, <1>1, <2>1, MainMoves DEF StopConsumers
<1>2. CASE UdpStop
  <2>1. CASE \A f \in FaceIds : rx[f] # "runs"
    <3>0. \A f \in FaceIds : rx[f] # "told"
      BY Zenon, <1>2 DEF UdpStop
    <3>3. /\ main \in {"s1", "undo udp"} /\ main' = IF main = "s1" THEN "s1.5" ELSE "return"
          /\ Alive /\ code' = code
          /\ UNCHANGED <<cli, rx, proc, cons, launched, captureVars, flushVars, serverVars>>
      BY Zenon, <1>2, <2>1 DEF UdpStop
    <3>1. ~Receiving'
      BY Zenon, <2>1, <3>0, <3>3 DEF Receiving
    <3>2. ThreadsKnown'
      BY Zenon, <3>1, <3>3 DEF AppIInv, ThreadsKnown
    <3> QED BY Zenon, <3>2, <3>3, MainMoves
  <2>2. CASE main' = main /\ \E f \in FaceIds : rx[f] = "runs" /\ rx' = [rx EXCEPT ![f] = "told"]
    <3>1. PICK f \in FaceIds : rx[f] = "runs" /\ rx' = [rx EXCEPT ![f] = "told"]
      BY Zenon, <2>2
    <3>2. rx' \in [FaceIds -> {"none", "runs", "told", "gone"}] /\ Receiving
      BY Zenon, <3>1 DEF AppIInv, Shape, Receiving
    <3>3. StopsKnown'
      BY Zenon, <1>2, <2>2, <3>1 DEF UdpStop, AppIInv, Shape, StopsKnown
    <3>4. UNCHANGED <<main, code, cli, proc, cons, launched, capturing, stops, flushVars, serverVars>>
      BY Zenon, <1>2, <2>2 DEF UdpStop
    <3>5. stops' \in [0..NumFaces -> {"no", "told", "deaf"}]
      BY Zenon, <3>4 DEF AppIInv, Shape
    <3> QED BY Zenon, <3>2, <3>3, <3>4, <3>5, OthersMove
  <2>3. (\E f \in FaceIds : rx[f] = "runs") =>
            LET f == CHOOSE f \in FaceIds : rx[f] = "runs" /\ \A e \in 1..(f - 1) : rx[e] # "runs"
            IN  f \in FaceIds /\ rx[f] = "runs"
    <3> SUFFICES ASSUME \E f \in FaceIds : rx[f] = "runs"
                 PROVE  \E f \in FaceIds : rx[f] = "runs" /\ \A e \in 1..(f - 1) : rx[e] # "runs"
      BY Zenon
    <3> QED BY FirstFace
  <2> QED BY Zenon, <1>2, <2>1, <2>2, <2>3 DEF UdpStop
<1>3. CASE StopProcessing
  <2>1. ThreadsKnown'
    BY Zenon, <1>3 DEF StopProcessing, AppIInv, ThreadsKnown, Receiving
  <2> QED BY Zenon, <1>3, <2>1, MainMoves DEF StopProcessing
<1>4. CASE JoinProcessing
  <2>1. ThreadsKnown'
    BY Zenon, <1>4 DEF JoinProcessing, AppIInv, ThreadsKnown, Receiving
  <2> QED BY Zenon, <1>4, <2>1, MainMoves DEF JoinProcessing
<1>5. CASE StopCapture
  <2>1. CASE capturing
    <3>1. PICK v \in {"told", "deaf"} : stops' = [stops EXCEPT ![0] = v]
      BY Zenon, <1>5, <2>1 DEF StopCapture, StopsWriter
    <3>2. ThreadsKnown'
      BY Zenon, <1>5, <2>1 DEF StopCapture, AppIInv, ThreadsKnown, Receiving
    <3>3. stops' \in [0..NumFaces -> {"no", "told", "deaf"}] /\ StopsKnown'
      BY Zenon, <1>5, <2>1, <3>1, NotZero DEF StopCapture, AppIInv, Shape, StopsKnown
    <3>0. UNCHANGED <<main, code, cli, rx, proc, cons, flushVars, serverVars>>
      BY Zenon, <1>5, <2>1 DEF StopCapture
    <3>6. Shape'
      BY Zenon, <3>0, <3>3 DEF AppIInv, Shape, Alive
    <3>4. FlushesKnown' /\ CodeKnown'
      BY Zenon, <3>0 DEF AppIInv, FlushesKnown, CodeKnown
    <3>5. ServerKnown' /\ ClosesKnown'
      BY Zenon, <3>0 DEF AppIInv, ServerKnown, ClosesKnown, Receiving
    <3> QED BY Zenon, <3>2, <3>3, <3>4, <3>5, <3>6 DEF AppIInv
  <2>2. CASE ~capturing
    <3>1. ThreadsKnown'
      BY Zenon, <1>5, <2>2 DEF StopCapture, AppIInv, ThreadsKnown, Receiving
    <3> QED BY Zenon, <1>5, <2>2, <3>1, MainMoves DEF StopCapture
  <2> QED BY Zenon, <2>1, <2>2
<1>6. CASE FlushPipelines \/ FlushDelivery
  <2>1. /\ main \in {"s3", "s4", "s5"} /\ main' \in {"s4", "s5", "s6"} /\ code' = code /\ Alive
        /\ UNCHANGED <<cli, rx, proc, cons, launched, captureVars, serverVars>>
    BY Zenon, <1>6 DEF FlushPipelines, FlushDelivery
  <2>2. Shape' /\ StopsKnown' /\ ServerKnown'
    BY Zenon, <2>1 DEF AppIInv, Shape, StopsKnown, ServerKnown, Alive
  <2>3. ThreadsKnown'
    BY Zenon, <2>1 DEF AppIInv, ThreadsKnown, Receiving
  <2>4. ClosesKnown'
    BY Zenon, <2>1 DEF AppIInv, ClosesKnown
  <2>5. FlushesKnown'
    <3>1. CASE FlushPipelines
      BY Zenon, <3>1 DEF FlushPipelines, AppIInv, FlushesKnown
    <3>2. CASE FlushDelivery
      BY Zenon, <3>2 DEF FlushDelivery, AppIInv, FlushesKnown
    <3> QED BY Zenon, <1>6, <3>1, <3>2
  <2>6. CodeKnown'
    BY Zenon, <1>6, <2>1 DEF FlushPipelines, FlushDelivery, AppIInv, CodeKnown, Alive
  <2> QED BY Zenon, <2>2, <2>3, <2>4, <2>5, <2>6 DEF AppIInv
<1> QED
  BY Zenon, <1>1, <1>2, <1>3, <1>4, <1>5, <1>6

(* The end of the metrics server, of app_shutdown and of main. *)
LEMMA EndSound ==
    ASSUME AppIInv, stops[0] = "no",
           MetricsStop \/ MetricsJoin \/ AppShutdownDone \/ MainReturns \/ ProcessEnds
    PROVE  AppIInv'
<1> USE DEF Places, Before, Stage6, Ending, Flushing, NoRx, NoProc, NoCons, NotLaunched, NoCapture,
            Late, serverVars, flushVars, captureVars, Goes
<1>1. CASE MetricsStop
  <2>1. /\ Alive /\ code' = code /\ main' \in (Stage6 \ {"s6"}) \cup (Ending \ {"return", "destroy"})
        /\ UNCHANGED <<cli, rx, proc, cons, launched, captureVars, flushVars, server>>
        /\ main' = "over" => server = "none"
    BY Zenon, <1>1 DEF MetricsStop
  <2>2. main \in Stage6 \cup (Ending \ {"return"}) /\ (main \in Ending \/ main' \in Stage6)
    BY Zenon, <1>1 DEF MetricsStop
  <2>3. ThreadsKnown'
    BY Zenon, <2>1, <2>2 DEF AppIInv, ThreadsKnown, Receiving
  <2>4. closes' \in Nat /\ (listenFd' => listenFd)
    <3>1. \/ closes' = closes /\ listenFd' = listenFd
          \/ closes' = closes + 1 /\ listenFd' = FALSE
      BY Zenon, <1>1 DEF MetricsStop
    <3>2. closes \in Nat
      BY Zenon DEF AppIInv, Shape
    <3> QED BY <3>1, <3>2
  <2>5. Shape' /\ StopsKnown'
    BY Zenon, <2>1, <2>4 DEF AppIInv, Shape, StopsKnown, Alive
  <2>8. FlushesKnown' /\ CodeKnown'
    BY Zenon, <2>1 DEF AppIInv, FlushesKnown, CodeKnown
  <2>6. ServerKnown'
    BY Zenon, <2>1, <2>4 DEF AppIInv, ServerKnown
  <2>7. ClosesKnown'
    BY Zenon, <2>1, <2>2 DEF AppIInv, ThreadsKnown, ClosesKnown, Receiving
  <2> QED BY Zenon, <2>3, <2>5, <2>6, <2>7, <2>8 DEF AppIInv
<1>2. CASE MetricsJoin
  <2>1. /\ Alive /\ code' = code /\ server = "ended" /\ server' = "none"
        /\ \/ main = "s6 join" /\ main' = "s6 done"
           \/ main = "d join" /\ main' = "over"
        /\ UNCHANGED <<cli, rx, proc, cons, launched, captureVars, flushVars, listenFd, closes>>
    BY Zenon, <1>2 DEF MetricsJoin
  <2>2. ThreadsKnown'
    BY Zenon, <2>1 DEF AppIInv, ThreadsKnown, Receiving
  <2>3. Shape' /\ StopsKnown' /\ FlushesKnown' /\ CodeKnown'
    BY Zenon, <2>1 DEF AppIInv, Shape, StopsKnown, FlushesKnown, CodeKnown, Alive
  <2>4. ServerKnown' /\ ClosesKnown'
    BY Zenon, <2>1 DEF AppIInv, ServerKnown, ClosesKnown, Receiving
  <2> QED BY Zenon, <2>2, <2>3, <2>4 DEF AppIInv
<1>3. CASE AppShutdownDone
  <2>1. ThreadsKnown'
    BY Zenon, <1>3 DEF AppShutdownDone, AppIInv, ThreadsKnown, Receiving
  <2> QED BY Zenon, <1>3, <2>1, MainMoves DEF AppShutdownDone
<1>4. CASE MainReturns
  <2>1. proc = {}
    BY Zenon, <1>4 DEF MainReturns, AppIInv, ThreadsKnown
  <2>2. CASE capturing
    <3>1. PICK v \in {"told", "deaf"} : stops' = [stops EXCEPT ![0] = v]
      BY Zenon, <1>4, <2>2 DEF MainReturns, StopsWriter
    <3>2. ThreadsKnown'
      BY Zenon, <1>4, <2>2 DEF MainReturns, AppIInv, ThreadsKnown, Receiving
    <3>3. stops' \in [0..NumFaces -> {"no", "told", "deaf"}] /\ StopsKnown'
      BY Zenon, <1>4, <2>2, <3>1, NotZero DEF MainReturns, AppIInv, Shape, StopsKnown
    <3>0. UNCHANGED <<main, code, cli, rx, proc, cons, flushVars, serverVars>>
      BY Zenon, <1>4, <2>2 DEF MainReturns
    <3>6. Shape'
      BY Zenon, <3>0, <3>3 DEF AppIInv, Shape, Alive
    <3>4. FlushesKnown' /\ CodeKnown'
      BY Zenon, <3>0 DEF AppIInv, FlushesKnown, CodeKnown
    <3>5. ServerKnown' /\ ClosesKnown'
      BY Zenon, <3>0 DEF AppIInv, ServerKnown, ClosesKnown, Receiving
    <3> QED BY Zenon, <3>2, <3>3, <3>4, <3>5, <3>6 DEF AppIInv
  <2>3. CASE ~capturing
    <3>1. ThreadsKnown'
      BY Zenon, <1>4, <2>1, <2>3 DEF MainReturns, AppIInv, ThreadsKnown, Receiving
    <3> QED BY Zenon, <1>4, <2>1, <2>3, <3>1, MainMoves DEF MainReturns
  <2> QED BY Zenon, <2>2, <2>3
<1>5. CASE ProcessEnds
  <2>1. PICK c \in {"0", "1"} : Ends(c) /\ (c = "0" => cli = "dry" \/ delivFlushed)
    BY Zenon, <1>5 DEF ProcessEnds
  <2> QED BY Zenon, <1>5, <2>1, ProcessExits DEF ProcessEnds
<1> QED
  BY Zenon, <1>1, <1>2, <1>3, <1>4, <1>5

(* No step of any thread, and no signal, breaks the invariant. *)
LEMMA AppStepSound == AppIInv /\ [AppNext]_appVars => AppIInv'
<1> SUFFICES ASSUME AppIInv, [AppNext]_appVars PROVE AppIInv'
  BY Zenon
<1> USE DEF serverVars, flushVars, captureVars
<1>1. CASE parse_cli_options
  <2>1. CASE main' = "exited"
    BY Zenon, <1>1, <2>1, ProcessExits DEF parse_cli_options, Ends
  <2>2. CASE main' = "init" /\ code' = code
    <3>1. main = "cli" /\ Alive
          /\ UNCHANGED <<cli, rx, proc, cons, launched, captureVars, flushVars, serverVars>>
      BY Zenon, <1>1 DEF parse_cli_options
    <3>2. ThreadsKnown' /\ stops[0] = "no" /\ main \notin Late
      BY Zenon, <2>2, <3>1 DEF AppIInv, ThreadsKnown, StopsKnown, Receiving, NoRx, NoProc, NoCons,
             NotLaunched, NoCapture, Flushing, Stage6, Ending, Before, Late
    <3> QED BY Zenon, <2>2, <3>1, <3>2, MainMoves DEF Places, NoCons, NoProc, Before
  <2> QED BY Zenon, <1>1, <2>1, <2>2 DEF parse_cli_options, Ends
<1>2. CASE app_init
  <2>1. CASE main' = "exited"
    BY Zenon, <1>2, <2>1, ProcessExits DEF app_init, Ends
  <2>2. CASE main' = "run" /\ code' = code
    <3>1. main = "init" /\ Alive
          /\ UNCHANGED <<cli, rx, proc, cons, launched, stops, flushVars, serverVars>>
      BY Zenon, <1>2 DEF app_init
    <3>2. ThreadsKnown' /\ stops[0] = "no" /\ main \notin Late
      BY Zenon, <2>2, <3>1 DEF AppIInv, ThreadsKnown, StopsKnown, Receiving, NoRx, NoProc, NoCons,
             NotLaunched, NoCapture, Flushing, Stage6, Ending, Before, Late
    <3> QED BY Zenon, <2>2, <3>1, <3>2, MainMoves DEF Places, NoCons, NoProc, Before
  <2> QED BY Zenon, <1>2, <2>1, <2>2 DEF app_init, Ends
<1>3. CASE enforce_shutdown_timeout
  BY Zenon, <1>3, ProcessExits DEF enforce_shutdown_timeout
<1>4. CASE WriterEnds
  <2>1. PICK t \in 0..NumFaces : stops[t] = "told" /\ stops' = [stops EXCEPT ![t] = "no"]
    BY Zenon, <1>4 DEF WriterEnds
  <2>2. stops' \in [0..NumFaces -> {"no", "told", "deaf"}]
    BY Zenon, <2>1 DEF AppIInv, Shape
  <2>3. \A u \in 0..NumFaces : stops'[u] # "no" => stops[u] # "no"
    BY Zenon, <2>1 DEF AppIInv, Shape
  <2>4. StopsKnown'
    <3>1. UNCHANGED <<main, rx>>
      BY Zenon, <1>4 DEF WriterEnds
    <3>2. StopsKnown
      BY Zenon DEF AppIInv
    <3> QED BY Zenon, <3>1, <3>2, <2>3, NotZero DEF StopsKnown
  <2>5. rx' \in [FaceIds -> {"none", "runs", "told", "gone"}] /\ (Receiving' => Receiving)
    BY Zenon, <1>4 DEF WriterEnds, AppIInv, Shape, Receiving
  <2> QED BY Zenon, <1>4, <2>2, <2>4, <2>5, OthersMove DEF WriterEnds
<1>5. CASE RxEnds
  <2>1. PICK f \in FaceIds : stops[f] = "no" /\ rx' = [rx EXCEPT ![f] = "gone"]
    BY Zenon, <1>5 DEF RxEnds
  <2>2. rx' \in [FaceIds -> {"none", "runs", "told", "gone"}] /\ (Receiving' => Receiving)
    BY Zenon, <2>1 DEF AppIInv, Shape, Receiving
  <2>3. stops' \in [0..NumFaces -> {"no", "told", "deaf"}] /\ StopsKnown'
    BY Zenon, <1>5, <2>1 DEF RxEnds, AppIInv, Shape, StopsKnown
  <2> QED BY Zenon, <1>5, <2>2, <2>3, OthersMove DEF RxEnds
<1>6. CASE ProcEnds \/ ProcCounts
  <2>1. /\ UNCHANGED <<main, code, cli, rx, cons, launched, captureVars, flushVars, serverVars>>
        /\ proc' \subseteq proc
    BY Zenon, <1>6 DEF ProcEnds, ProcCounts
  <2>2. /\ rx' \in [FaceIds -> {"none", "runs", "told", "gone"}] /\ (Receiving' => Receiving)
        /\ stops' \in [0..NumFaces -> {"no", "told", "deaf"}] /\ StopsKnown'
    BY Zenon, <2>1 DEF AppIInv, Shape, Receiving, StopsKnown
  <2> QED BY Zenon, <2>1, <2>2, OthersMove
<1>7. CASE ServerSetup
  <2>1. server = "setup" => ~listenFd
    BY Zenon DEF AppIInv, ServerKnown
  <2>2. /\ Alive /\ server \in {"setup", "bind", "drop"} /\ server' \in {"bind", "top", "drop", "ended"}
        /\ closes' = closes \/ (closes' = closes + 1 /\ server' = "ended" /\ listenFd' = FALSE)
    BY Zenon, <1>7 DEF ServerSetup
  <2>3. UNCHANGED <<main, code, cli, rx, proc, cons, launched, captureVars, flushVars>>
    BY Zenon, <1>7 DEF ServerSetup
  <2>4. \/ server' # "ended" \/ listenFd' = FALSE
        \/ listenFd' = listenFd /\ ~listenFd
    BY Zenon, <1>7, <2>1 DEF ServerSetup
  <2>5. ~listenFd' \/ server' # "ended"
    BY Zenon, <2>4
  <2>6. listenFd' => server' \in {"bind", "drop", "top", "accept", "serve", "leave", "close"}
    BY Zenon, <2>2, <2>5
  <2>7. closes' = closes \/ (closes' = closes + 1 /\ server' = "ended" /\ ~listenFd')
    BY Zenon, <2>2
  <2> QED BY Zenon, <2>2, <2>3, <2>6, <2>7, ServerMoves
<1>8. CASE ServerLoop
  <2>1. /\ Alive /\ server \in {"top", "accept", "leave", "close"}
        /\ server' \in {"top", "accept", "leave", "close", "ended"}
        /\ closes' = closes \/ (closes' = closes + 1 /\ server' = "ended" /\ listenFd' = FALSE)
    BY Zenon, <1>8 DEF ServerLoop
  <2>3. \/ server' # "ended" \/ listenFd' = FALSE
        \/ listenFd' = listenFd /\ ~listenFd
    BY Zenon, <1>8 DEF ServerLoop
  <2>2. UNCHANGED <<main, code, cli, rx, proc, cons, launched, captureVars, flushVars>>
    BY Zenon, <1>8 DEF ServerLoop
  <2>4. ~listenFd' \/ server' # "ended"
    BY Zenon, <2>3
  <2>5. listenFd' => server' \in {"bind", "drop", "top", "accept", "serve", "leave", "close"}
    BY Zenon, <2>1, <2>4
  <2>6. closes' = closes \/ (closes' = closes + 1 /\ server' = "ended" /\ ~listenFd')
    BY Zenon, <2>1
  <2> QED BY Zenon, <2>1, <2>2, <2>5, <2>6, ServerMoves
<1>9. CASE ServeClient
  <2>1. CASE Ends("killed")
    BY Zenon, <1>9, <2>1, ProcessExits DEF ServeClient, Alive, Ends
  <2>2. CASE UNCHANGED <<main, code>>
    BY Zenon, <1>9, <2>2, ServerMoves DEF ServeClient
  <2> QED BY Zenon, <1>9, <2>1, <2>2 DEF ServeClient
<1>10. CASE Signal
  <2>1. CASE ~handlers
    BY Zenon, <1>10, <2>1, ProcessExits DEF Signal
  <2>2. CASE handlers
    <3>1. UNCHANGED <<main, code, cli, rx, proc, cons, launched, captureVars, flushVars, serverVars>>
      BY Zenon, <1>10, <2>2 DEF Signal
    <3> QED BY Zenon, <3>1, NothingMoves
  <2> QED BY Zenon, <2>1, <2>2
<1>11. CASE UNCHANGED appVars
  BY Zenon, <1>11, NothingMoves DEF appVars
<1> QED
  BY Zenon, StartSound, StagesSound, EndSound,
     <1>1, <1>2, <1>3, <1>4, <1>5, <1>6, <1>7, <1>8, <1>9, <1>10, <1>11 DEF AppNext, MainStep

(* AppIInv holds in every state of app_init, app_run and app_shutdown. *)
LEMMA AppInvariant == AppSpec => []AppIInv
BY AppStartsSound, AppStepSound, PTL DEF AppSpec

(***************************************************************************)
(* app_shutdown stops and flushes along the path of the data, whichever    *)
(* threads are still running when it begins.                               *)
(***************************************************************************)
THEOREM ShutdownFollowsData == AppSpec => []FlushOrder
<1>1. AppIInv => FlushOrder
  <2> SUFFICES ASSUME AppIInv, Alive PROVE FlushOrder
    BY Zenon DEF FlushOrder
  <2>1. main \in {"s3", "s4", "s5"} => ~Receiving /\ proc = {} /\ ~capturing
    BY Zenon DEF AppIInv, ThreadsKnown, NoRx, NoProc, NoCapture, Flushing
  <2>2. main \in {"s3", "s4", "s5"} => \A t \in 0..NumFaces : stops[t] = "no"
    <3> SUFFICES ASSUME main \in {"s3", "s4", "s5"}, NEW t \in 0..NumFaces PROVE stops[t] = "no"
      BY Zenon
    <3>1. t = 0 \/ t \in FaceIds
      BY AppAssumption DEF FaceIds
    <3> QED BY Zenon, <2>1, <3>1 DEF AppIInv, StopsKnown, Receiving
  <2> QED BY Zenon, <2>1, <2>2 DEF FlushOrder, AppIInv, FlushesKnown
<1> QED
  BY <1>1, AppInvariant, PTL

(***************************************************************************)
(* However the start, the run or a rollback of app_run ends, main returns  *)
(* with every thread joined and the metrics socket closed, and returns 0   *)
(* only after a complete shutdown.                                         *)
(***************************************************************************)
THEOREM NoThreadLeftBehind == AppSpec => []ThreadsJoined
<1>1. AppIInv => ThreadsJoined
  <2> SUFFICES ASSUME AppIInv PROVE ThreadsJoined
    BY Zenon
  <2>1. main \in {"return", "destroy", "over"} => ~Receiving /\ proc = {} /\ cons = {} /\ ~launched
    BY Zenon DEF AppIInv, ThreadsKnown, NoRx, NoProc, NoCons, NotLaunched, Ending
  <2>2. main \in {"destroy", "over"} => ~capturing /\ stops[0] = "no"
    BY Zenon DEF AppIInv, ThreadsKnown, StopsKnown, NoCapture, Ending
  <2> QED BY Zenon, <2>1, <2>2 DEF ThreadsJoined, AppIInv, ServerKnown, CodeKnown
<1> QED
  BY <1>1, AppInvariant, PTL

(***************************************************************************)
(* MetricsCollector::stop and the server thread close the same descriptor  *)
(* twice only when no other thread could have been given its number.       *)
(***************************************************************************)
THEOREM SocketClosedTwiceLate == AppSpec => []DoubleCloseIsLate
<1>1. AppIInv => DoubleCloseIsLate
  <2>1. closes = 2 => closes # 0 /\ closes # 1
    OBVIOUS
  <2> QED BY Zenon, <2>1 DEF DoubleCloseIsLate, AppIInv, ClosesKnown
<1> QED
  BY <1>1, AppInvariant, PTL

----------------------------------------------------------------------------
(***************************************************************************)
(* The reconnection delay of UnixSocketDelivery, for every configured      *)
(* interval and limit.                                                     *)
(***************************************************************************)
(* The inductive invariant: the next delay is within the limit too. *)
DelayInv == UdsTypeOK /\ WaitBounded

(* Doubling a delay and cutting it keeps it in its range. *)
LEMMA BackoffInRange ==
    ASSUME NEW b \in 1..UdsMax(Interval, BackoffCap)
    PROVE  NextBackoff(b) \in 1..UdsMax(Interval, BackoffCap)
BY UdsAssumption DEF NextBackoff, UdsMin, UdsMax

(* The delivery starts connected or with its first wait. *)
LEMMA DelayStarts == UdsInit => DelayInv
<1> SUFFICES ASSUME UdsInit PROVE DelayInv
  BY Zenon
<1>1. Interval \in 1..UdsMax(Interval, BackoffCap)
  BY UdsAssumption DEF UdsMax
<1>2. NextBackoff(Interval) \in 1..UdsMax(Interval, BackoffCap)
  BY <1>1, BackoffInRange
<1> QED
  BY <1>1, <1>2, UdsAssumption DEF UdsInit, DelayInv, UdsTypeOK, WaitBounded, UdsMax

(* Every attempt, loss, flush and tick keeps the delay bounded. *)
LEMMA DelayStep == DelayInv /\ [UdsNext]_udsVars => DelayInv'
<1> SUFFICES ASSUME DelayInv, [UdsNext]_udsVars PROVE DelayInv'
  BY Zenon
<1>1. NextBackoff(backoff) \in 1..UdsMax(Interval, BackoffCap)
  BY Zenon, BackoffInRange DEF DelayInv, UdsTypeOK
<1>2. ASSUME schedule_reconnect, conn' = "none"
      PROVE  DelayInv'
  BY <1>1, <1>2, UdsAssumption DEF schedule_reconnect, DelayInv, UdsTypeOK, WaitBounded, UdsMax
<1>3. CASE DeliverConnect
  <2>1. CASE peerUp
    BY <1>3, <2>1, UdsAssumption DEF DeliverConnect, connect_with_backoff, DelayInv, UdsTypeOK,
                                     WaitBounded, UdsMax
  <2>2. CASE ~peerUp
    BY <1>2, <1>3, <2>2 DEF DeliverConnect, connect_with_backoff
  <2> QED
    BY Zenon, <2>1, <2>2
<1>4. CASE DeliverBroken
  BY Zenon, <1>2, <1>4 DEF DeliverBroken
<1>5. CASE UdsFlush
  BY Zenon, <1>5 DEF UdsFlush, DelayInv, UdsTypeOK, WaitBounded
<1>6. CASE UdsTick
  BY <1>6, UdsAssumption DEF UdsTick, DelayInv, UdsTypeOK, WaitBounded, UdsMax
<1>7. CASE PeerChanges
  BY Zenon, <1>7 DEF PeerChanges, DelayInv, UdsTypeOK, WaitBounded
<1>8. CASE UNCHANGED udsVars
  BY Zenon, <1>8 DEF udsVars, DelayInv, UdsTypeOK, WaitBounded
<1> QED
  BY <1>3, <1>4, <1>5, <1>6, <1>7, <1>8 DEF UdsNext

(***************************************************************************)
(* For every reconnect_interval_ms, also one above the limit of 5000:      *)
(* deliver never waits longer than the larger of the two, and never with a *)
(* connection in hand.                                                     *)
(***************************************************************************)
THEOREM DelayBounded == UdsSpec => []WaitBounded
<1>1. DelayInv => WaitBounded
  BY Zenon DEF DelayInv
<1> QED
  BY <1>1, DelayStarts, DelayStep, PTL DEF UdsSpec

----------------------------------------------------------------------------
(***************************************************************************)
(* ConfigManager and app_init, for any files and any edits of them: the    *)
(* faces never share an address, a source or a CPU, and what runs is what  *)
(* passed validate.                                                        *)
(***************************************************************************)
(* No element of s occurs twice. *)
Injective(s) == \A i, j \in DOMAIN s : i # j => s[i] # s[j]

(* The numbers from 1 to n are n. *)
LEMMA CountTo ==
    ASSUME NEW n \in Nat
    PROVE  IsFiniteSet(1..n) /\ Cardinality(1..n) = n
<1>1. 1 \in Int /\ n \in Int
  OBVIOUS
<1> QED BY <1>1, FS_Interval

(* A list has as many members as entries exactly if no entry is repeated. *)
LEMMA DistinctIsInjective ==
    ASSUME NEW n \in Nat, NEW S, NEW s \in [1..n -> S]
    PROVE  /\ Cardinality(Members(s)) = n <=> Injective(s)
           /\ IsFiniteSet(Members(s))
<1>1. s \in Surjection(1..n, Members(s))
  BY Zenon DEF Surjection, Members
<1>2. IsFiniteSet(1..n) /\ Cardinality(1..n) = n
  BY Zenon, CountTo
<1>3. /\ IsFiniteSet(Members(s))
      /\ Cardinality(Members(s)) = Cardinality(1..n) <=> s \in Injection(1..n, Members(s))
  BY <1>1, <1>2, FS_Surjection
<1>4. s \in Injection(1..n, Members(s)) <=> Injective(s)
  BY Zenon, <1>1 DEF Injection, Surjection, Injective, IsInjective
<1> QED BY Zenon, <1>2, <1>3, <1>4

(* The same for the test that validate makes. *)
LEMMA DistinctSeq ==
    ASSUME NEW S, NEW s \in Seq(S)
    PROVE  /\ Distinct(s) <=> Injective(s)
           /\ Len(s) \in Nat /\ s \in [1..Len(s) -> S] /\ DOMAIN s = 1..Len(s)
<1>1. Len(s) \in Nat /\ s \in [1..Len(s) -> S] /\ DOMAIN s = 1..Len(s)
  BY Zenon, SeqLen
<1> QED BY Zenon, <1>1, DistinctIsInjective DEF Distinct

(* Three different numbers of 17..19 are all of them. *)
LEMMA ThreeSources ==
    ASSUME NEW s \in [1..3 -> 17..19], Injective(s), NEW x \in 17..19
    PROVE  Cardinality({i \in 1..3 : s[i] = x}) = 1
<1>1. {s[1], s[2], s[3]} \subseteq 17..19 /\ s[1] # s[2] /\ s[1] # s[3] /\ s[2] # s[3]
  BY DEF Injective
<1>2. PICK i \in 1..3 : s[i] = x
  <2>1. 1..3 = {1, 2, 3}
    OBVIOUS
  <2>2. s[1] = x \/ s[2] = x \/ s[3] = x
    BY <1>1
  <2> QED BY Zenon, <2>1, <2>2
<1>3. {j \in 1..3 : s[j] = x} = {i}
  BY Zenon, <1>2 DEF Injective
<1> QED BY Zenon, <1>3, FS_Singleton

(* The search for free CPUs, by the function that the loop computes. *)
FreeCpus(R, n, s, cpu) ==
    /\ s \in Seq(Nat) /\ Len(s) <= n
    /\ \A i \in 1..Len(s) : s[i] \in 16..cpu /\ s[i] \notin R
    /\ \A i, j \in 1..Len(s) : i < j => s[i] < s[j]
    /\ Len(s) = n \/ \A x \in 16..cpu : x \in R \/ \E i \in 1..Len(s) : s[i] = x

(* The search finds as many as are asked for, different from each other and *)
(* from the CPUs R, which leave enough of the sixteen.                      *)
LEMMA UnreservedFacts ==
    ASSUME NEW n \in Nat, NEW k \in Nat, NEW R, IsFiniteSet(R), Cardinality(R) = k, k + n <= 16
    PROVE  LET s == Unreserved(R, n)
           IN  /\ s \in Seq(Nat) /\ Len(s) = n
               /\ \A i \in 1..n : s[i] \notin R
               /\ \A i, j \in 1..n : i < j => s[i] < s[j]
<1> DEFINE A == Seq(Nat)
           Body(cpu, acc) == IF Len(acc) = n \/ cpu \in R THEN acc ELSE Append(acc, cpu)
           F(f) == [cpu \in 15..31 |-> IF cpu = 15 THEN <<>> ELSE Body(cpu, f[cpu - 1])]
           g == [p \in (15..31) \X A |-> IF p[1] = 15 THEN <<>> ELSE Body(p[1], p[2])]
           h == CHOOSE f : f = F(f)
<1>0. <<>> \in A /\ 15 \in 15..31 /\ 31 \in 15..31
  BY SeqNone
<1>1. g \in Turns(15, 31, A)
  <2> SUFFICES ASSUME NEW cpu \in 15..31, NEW acc \in A PROVE Body(cpu, acc) \in A
    BY Zenon, <1>0 DEF Turns
  <2> QED BY SeqPut
<1>2. PICK f \in [15..31 -> A] :
         f[15] = <<>> /\ \A cpu \in 15..31 : cpu # 15 => f[cpu] = g[<<cpu, f[cpu - 1]>>]
  <2>1. 15 \in Nat /\ 31 \in Nat /\ 15 <= 31
    OBVIOUS
  <2> HIDE DEF g, A
  <2>2. \E f : f \in Runs(15, 31, A, <<>>, g)
    BY Zenon, <2>1, <1>0, <1>1, LoopExists
  <2> QED BY Zenon, <2>2 DEF Runs
<1>3. f = F(f)
  <2>1. ASSUME NEW cpu \in 15..31, cpu # 15 PROVE f[cpu] = Body(cpu, f[cpu - 1])
    <3>1. cpu - 1 \in 15..31
      BY <2>1
    <3>2. f[cpu - 1] \in A
      BY Zenon, <1>2, <3>1
    <3> QED BY Zenon, <1>2, <2>1, <3>2
  <2> HIDE DEF A, g, Body
  <2> QED BY <1>2, <2>1
<1>4. h = F(h)
  <2> HIDE DEF F
  <2> QED BY Zenon, <1>3
<1>6. /\ h[15] = <<>>
      /\ \A cpu \in 15..31 : cpu # 15 => h[cpu] = Body(cpu, h[cpu - 1])
  <2> HIDE DEF h
  <2>1. ASSUME NEW cpu \in 15..31
        PROVE  h[cpu] = IF cpu = 15 THEN <<>> ELSE Body(cpu, h[cpu - 1])
    <3>1. h[cpu] = F(h)[cpu]
      BY Zenon, <1>4
    <3> QED BY Zenon, <3>1
  <2> QED BY Zenon, <1>0, <2>1
<1>5. Unreserved(R, n) = h[31]
  BY Zenon DEF Unreserved
<1> HIDE DEF h, F, g, Body, A
<1> DEFINE T == {cpu \in 15..31 : FreeCpus(R, n, h[cpu], cpu)}
<1>7. 15 \in T /\ T \in SUBSET (15..31)
  <2>1. Len(h[15]) = 0 /\ h[15] \in A /\ 15 \in 15..31
    BY <1>0, <1>6, SeqNone
  <2>2. h[15] \in Seq(Nat)
    BY Zenon, <2>1 DEF A
  <2>3. 1..0 = {} /\ 16..15 = {}
    OBVIOUS
  <2>4. FreeCpus(R, n, h[15], 15)
    BY <2>1, <2>2, <2>3 DEF FreeCpus
  <2> QED BY Zenon, <2>1, <2>4
<1>8. ASSUME NEW cpu \in 15..31, cpu # 15, cpu - 1 \in T PROVE cpu \in T
  <2> DEFINE old == h[cpu - 1]
             new == h[cpu]
  <2>1. FreeCpus(R, n, old, cpu - 1) /\ cpu \in 16..31
    BY <1>8 DEF T
  <2>2. new = Body(cpu, old)
    BY Zenon, <1>6, <1>8
  <2>3. Len(old) \in Nat
    BY Zenon, <2>1, SeqLen DEF FreeCpus
  <2> HIDE DEF T, old, new
  <2>4. 16..(cpu - 1) \subseteq 16..cpu /\ \A x \in 16..cpu : x = cpu \/ x \in 16..(cpu - 1)
    BY <2>1
  <2>7. \A x \in 16..(cpu - 1) : x < cpu
    BY <2>1
  <2>5. CASE Len(old) = n \/ cpu \in R
    <3>1. new = old
      BY Zenon, <2>2, <2>5 DEF Body
    <3>2. FreeCpus(R, n, new, cpu)
      BY Zenon, <2>1, <2>4, <2>5, <3>1 DEF FreeCpus
    <3> QED BY <3>2 DEF T, new
  <2>6. CASE ~(Len(old) = n \/ cpu \in R)
    <3>1. /\ new \in Seq(Nat) /\ Len(new) = Len(old) + 1
          /\ \A i \in 1..Len(old) : new[i] = old[i]
          /\ new[Len(old) + 1] = cpu
      <4>1. new = Append(old, cpu) /\ old \in Seq(Nat) /\ cpu \in Nat
        <5>1. new = Append(old, cpu)
          BY Zenon, <2>2, <2>6 DEF Body
        <5>2. cpu \in Nat
          BY <2>1
        <5> QED BY Zenon, <5>1, <5>2, <2>1 DEF FreeCpus
      <4> QED BY <4>1, <2>3, SeqPut
    <3>0. Len(new) = Len(old) + 1
      BY Zenon, <3>1
    <3>2. \A i \in 1..Len(new) : i \in 1..Len(old) \/ i = Len(old) + 1
      <4>1. PICK l \in Nat : l = Len(old)
        BY Zenon, <2>3
      <4>2. \A i \in 1..(l + 1) : i \in 1..l \/ i = l + 1
        OBVIOUS
      <4> QED BY Zenon, <4>1, <4>2, <3>0
    <3>3. Len(new) <= n
      BY <2>1, <2>3, <2>6, <3>1 DEF FreeCpus
    <3>4. \A i \in 1..Len(new) : new[i] \in 16..cpu /\ new[i] \notin R
      <4>1. ASSUME NEW i \in 1..Len(old) PROVE new[i] \in 16..cpu /\ new[i] \notin R
        <5>1. new[i] = old[i]
          BY Zenon, <3>1
        <5>2. old[i] \in 16..(cpu - 1) /\ old[i] \notin R
          BY Zenon, <2>1 DEF FreeCpus
        <5> QED BY Zenon, <5>1, <5>2, <2>4
      <4>2. cpu \in 16..cpu
        BY <2>1
      <4> QED BY Zenon, <4>1, <4>2, <2>6, <3>1, <3>2
    <3>5. ASSUME NEW i \in 1..Len(new), NEW j \in 1..Len(new), i < j PROVE new[i] < new[j]
      <4>1. i \in 1..Len(old)
        BY <2>3, <3>1, <3>5
      <4>2. CASE j \in 1..Len(old)
        BY Zenon, <4>1, <4>2, <2>1, <3>1, <3>5 DEF FreeCpus
      <4>3. CASE j = Len(old) + 1
        <5>1. new[i] = old[i] /\ new[j] = cpu
          BY Zenon, <4>1, <4>3, <3>1
        <5>2. old[i] \in 16..(cpu - 1)
          BY Zenon, <4>1, <2>1 DEF FreeCpus
        <5>3. old[i] < cpu
          BY Zenon, <5>2, <2>7
        <5> QED BY Zenon, <5>1, <5>3
      <4> QED BY Zenon, <4>2, <4>3, <3>2
    <3>6. \A x \in 16..cpu : x \in R \/ \E i \in 1..Len(new) : new[i] = x
      <4>1. 1..Len(old) \subseteq 1..Len(new) /\ Len(old) + 1 \in 1..Len(new)
        <5>1. PICK l \in Nat : l = Len(old)
          BY Zenon, <2>3
        <5>2. 1..l \subseteq 1..(l + 1) /\ l + 1 \in 1..(l + 1)
          OBVIOUS
        <5> QED BY <5>1, <5>2, <3>0
      <4> QED BY Zenon, <4>1, <2>1, <2>4, <2>6, <3>1 DEF FreeCpus
    <3>7. FreeCpus(R, n, new, cpu)
      BY <3>1, <3>3, <3>4, <3>5, <3>6 DEF FreeCpus
    <3> QED BY Zenon, <3>7 DEF T, new
  <2> QED BY Zenon, <2>5, <2>6
<1> HIDE DEF T
<1>9. 31 \in T
  <2>1. 15 \in Nat /\ 31 \in Nat
    BY Zenon
  <2> QED BY <2>1, <1>0, <1>7, <1>8, FromTo
<1> DEFINE s == h[31]
<1>10. FreeCpus(R, n, s, 31)
  BY Zenon, <1>9 DEF T
<1> HIDE DEF s
<1>11. s \in Seq(Nat) /\ Len(s) \in Nat /\ Len(s) <= n /\ s \in [1..Len(s) -> Nat]
  BY Zenon, <1>10, SeqLen DEF FreeCpus
<1>14. Len(s) \in Nat /\ Len(s) <= n
  BY Zenon, <1>11
<1>12. Len(s) = n
  <2> SUFFICES ASSUME Len(s) # n PROVE FALSE
    BY Zenon
  <2> DEFINE M == Members(s)
  <2>1. 16..31 \subseteq R \cup M
    BY Zenon, <1>10, <1>11 DEF FreeCpus, Members
  <2>2. IsFiniteSet(M) /\ Cardinality(M) <= Len(s)
    <3>1. s \in Surjection(1..Len(s), M)
      BY Zenon, <1>11 DEF Surjection, Members
    <3>2. IsFiniteSet(1..Len(s)) /\ Cardinality(1..Len(s)) = Len(s)
      BY Zenon, <1>14, CountTo
    <3> HIDE DEF M
    <3>3. Cardinality(M) <= Cardinality(1..Len(s)) /\ IsFiniteSet(M)
      BY Zenon, <3>1, <3>2, FS_Surjection
    <3> QED BY Zenon, <3>2, <3>3
  <2> HIDE DEF M
  <2>3. IsFiniteSet(R \cup M)
        /\ Cardinality(R \cup M) = Cardinality(R) + Cardinality(M) - Cardinality(R \cap M)
        /\ Cardinality(R \cap M) \in Nat /\ Cardinality(R) \in Nat /\ Cardinality(M) \in Nat
    <3>1. IsFiniteSet(R \cap M)
      BY Zenon, <2>2, FS_Intersection
    <3> QED BY Zenon, <3>1, <2>2, FS_Union, FS_CardinalityType
  <2>4. Cardinality(16..31) = 16
    <3>1. 16 \in Int /\ 31 \in Int
      OBVIOUS
    <3>2. Cardinality(16..31) = IF 16 > 31 THEN 0 ELSE 31 - 16 + 1
      BY Zenon, <3>1, FS_Interval
    <3> QED BY <3>2
  <2>5. Cardinality(16..31) <= Cardinality(R \cup M)
    BY Zenon, <2>1, <2>3, FS_Subset
  <2>6. PICK m \in Nat : m = Cardinality(M)
    BY <2>3
  <2>7. PICK d \in Nat : d = Cardinality(R \cap M)
    BY Zenon, <2>3
  <2>8. PICK u \in Nat : u = Cardinality(R \cup M)
    BY Zenon, <2>3, FS_CardinalityType
  <2>9. PICK l \in Nat : l = Len(s)
    BY <1>14
  <2>10. u = k + m - d
    BY <2>3, <2>6, <2>7, <2>8
  <2>11. 16 <= u /\ m <= l /\ l <= n /\ l # n
    BY <2>2, <2>4, <2>5, <2>6, <2>8, <2>9, <1>14
  <2> QED BY <2>10, <2>11
<1> QED BY Zenon, <1>5, <1>10, <1>11, <1>12 DEF FreeCpus, s

(* What a configuration read from the file holds. *)
Configs ==
    [text : {"good", "yaml", "number"}, port : Nat, filter : BOOLEAN,
     ips : Seq(STRING), ids : Seq(Nat), cpus : Seq(Int), proc : Seq(Int),
     inRange : BOOLEAN, low : Nat, high : Nat, max : Nat,
     captureOn : BOOLEAN, spool : BOOLEAN, timeouts : Nat]

(* What parsing makes of a file is a configuration. *)
LEMMA ParsedIsConfig ==
    ASSUME NEW f \in Configs PROVE Parsed(f) \in Configs
<1> DEFINE ids == [i \in DOMAIN f.ids |-> Byte(f.ids[i])]
<1>1. f.ids \in Seq(Nat)
  BY Zenon DEF Configs
<1>2. Len(f.ids) \in Nat /\ DOMAIN f.ids = 1..Len(f.ids) /\ \A i \in DOMAIN f.ids : f.ids[i] \in Nat
  BY Zenon, <1>1, SeqLen, SeqElement
<1>3. \A x \in Nat : Byte(x) \in Nat
  BY DEF Byte
<1>4. ids \in [1..Len(f.ids) -> Nat]
  BY Zenon, <1>2, <1>3
<1>5. ids \in Seq(Nat)
  <2> HIDE DEF ids
  <2> QED BY Zenon, <1>2, <1>4, SeqMade
<1> HIDE DEF ids
<1>6. [f EXCEPT !.ids = ids] \in Configs
  BY Zenon, <1>5 DEF Configs
<1> QED BY Zenon, <1>6 DEF Parsed, ids

(* Three faces, from a configuration that passed validate. *)
LEMMA ThreeFaces ==
    ASSUME NEW c \in Configs, validate_config(c), Len(c.ips) = 3
    PROVE  /\ c.ips \in [1..3 -> STRING] /\ c.ids \in [1..3 -> 17..19] /\ c.cpus \in [1..3 -> Int]
           /\ Injective(c.ips) /\ Injective(c.ids) /\ Injective(c.cpus)
           /\ Len(c.cpus) = 3
           /\ c.proc = <<>> \/ (Distinct(c.proc) /\ Len(c.proc) = 3)
<1>1. c.ips \in Seq(STRING) /\ c.ids \in Seq(Nat) /\ c.cpus \in Seq(Int)
  BY Zenon DEF Configs
<1>2. validate_network(c) /\ validate_limits(c)
  BY Zenon DEF validate_config
<1>3. Len(c.ids) = 3 /\ Len(c.cpus) = 3
  <2>1. \/ {Len(c.ips), Len(c.ids), Len(c.cpus)} = {0}
        \/ {Len(c.ips), Len(c.ids), Len(c.cpus)} = {3}
    BY Zenon, <1>2 DEF validate_network
  <2>2. Len(c.ips) # 0
    OBVIOUS
  <2> QED BY Zenon, <2>1, <2>2
<1>4. Distinct(c.ips) /\ Distinct(c.ids) /\ Distinct(c.cpus) /\ \A i \in Members(c.ids) : i \in 17..19
  BY Zenon, <1>2 DEF validate_network
<1>5. /\ c.ips \in [1..3 -> STRING] /\ c.ids \in [1..3 -> Nat] /\ c.cpus \in [1..3 -> Int]
      /\ Injective(c.ips) /\ Injective(c.ids) /\ Injective(c.cpus)
  BY Zenon, <1>1, <1>3, <1>4, DistinctSeq
<1>6. c.ids \in [1..3 -> 17..19]
  BY Zenon, <1>4, <1>5 DEF Members
<1>7. c.proc = <<>> \/ (Distinct(c.proc) /\ Len(c.proc) = 3)
  <2>1. c.ips # <<>>
    <3>1. Len(<<>>) = 0 /\ 0 # 3
      OBVIOUS
    <3> QED BY Zenon, <3>1
  <2>2. c.proc # <<>> => Distinct(c.proc)
    BY <1>2, Zenon DEF validate_limits
  <2>3. c.proc # <<>> => Len(c.proc) = IF c.ips = <<>> THEN 1 ELSE Len(c.ips)
    BY <1>2, Zenon DEF validate_limits
  <2>4. c.proc # <<>> => Len(c.proc) = 3
    BY <2>1, <2>3, Zenon
  <2> QED BY Zenon, <2>2, <2>4
<1> QED BY Zenon, <1>3, <1>5, <1>6, <1>7

(* FacesApart, of values. *)
Apart(fs, cpus, given) ==
    /\ Len(fs) = 3 => \A s \in 17..19 : Cardinality({i \in 1..3 : fs[i].source = s}) = 1
    /\ \A i, j \in DOMAIN fs : i # j => fs[i].ip # fs[j].ip /\ fs[i].cpu # fs[j].cpu
    /\ Distinct(cpus)
    /\ Len(fs) = 3 /\ ~given => Members(cpus) \cap {fs[i].cpu : i \in DOMAIN fs} = {}

(* An ascending list repeats nothing. *)
LEMMA AscendingIsDistinct ==
    ASSUME NEW n \in Nat, NEW s \in Seq(Nat), Len(s) = n,
           \A i, j \in 1..n : i < j => s[i] < s[j]
    PROVE  Distinct(s)
<1>1. s \in [1..n -> Nat] /\ DOMAIN s = 1..n
  BY Zenon, SeqLen
<1>2. Injective(s)
  <2> SUFFICES ASSUME NEW i \in 1..n, NEW j \in 1..n, i # j PROVE s[i] # s[j]
    BY Zenon, <1>1 DEF Injective
  <2>1. s[i] \in Nat /\ s[j] \in Nat
    BY Zenon, <1>1
  <2>2. i < j \/ j < i
    OBVIOUS
  <2> QED BY <2>1, <2>2
<1> QED BY Zenon, <1>2, DistinctSeq

(* The CPUs app_init resolves are those of the search, when there are enough. *)
LEMMA ResolvedFacts ==
    ASSUME NEW c \in Configs, NEW n \in Nat, c.proc = <<>>, n # 0,
           NEW k \in Nat, k <= 3, n <= 3, Len(c.cpus) = k
    PROVE  LET s == resolve_processing_cpu_affinity_map(c, n)
           IN  Distinct(s) /\ Members(s) \cap Members(c.cpus) = {}
<1> DEFINE R == Members(c.cpus)
           s == Unreserved(R, n)
<1>1. c.cpus \in [1..k -> Int]
  <2>1. c.cpus \in Seq(Int)
    BY Zenon DEF Configs
  <2> QED BY Zenon, <2>1, SeqLen
<1>2. IsFiniteSet(R) /\ Cardinality(R) <= k /\ Cardinality(R) \in Nat
  <2>1. c.cpus \in Surjection(1..k, R)
    BY Zenon, <1>1 DEF Surjection, Members
  <2> HIDE DEF R
  <2>2. IsFiniteSet(R) /\ Cardinality(R) <= Cardinality(1..k)
    BY Zenon, <2>1, CountTo, FS_Surjection
  <2> QED BY <2>2, CountTo, FS_CardinalityType
<1> HIDE DEF R
<1>3. PICK m \in Nat : m = Cardinality(R)
  BY Zenon, <1>2
<1>4. m + n <= 16
  BY <1>2, <1>3
<1>5. /\ s \in Seq(Nat) /\ Len(s) = n
      /\ \A i \in 1..n : s[i] \notin R
      /\ \A i, j \in 1..n : i < j => s[i] < s[j]
  BY ZenonT(30), <1>2, <1>3, <1>4, UnreservedFacts
<1> HIDE DEF s
<1>6. Len(c.proc) # n
  BY Zenon, SeqNone
<1>7. resolve_processing_cpu_affinity_map(c, n) = s
  <2>1. s \in [1..n -> Nat]
    BY Zenon, <1>5, SeqLen
  <2>2. [i \in 1..n |-> IF i <= n THEN s[i]
                        ELSE IF c.cpus = <<>> THEN 15 + i
                        ELSE c.cpus[((i - 1) % Len(c.cpus)) + 1]] = s
    BY <2>1
  <2> QED BY <1>5, <1>6, <2>2 DEF resolve_processing_cpu_affinity_map, s, R
<1>8. Distinct(s)
  BY Zenon, <1>5, AscendingIsDistinct
<1>9. Members(s) \cap R = {}
  <2>1. DOMAIN s = 1..n
    BY Zenon, <1>5, SeqLen
  <2> QED BY Zenon, <2>1, <1>5 DEF Members
<1> QED BY Zenon, <1>7, <1>8, <1>9 DEF R

(* The faces of a configuration that passed validate are apart. *)
LEMMA LoadedFacesApart ==
    ASSUME NEW c \in Configs, validate_config(c)
    PROVE  Apart(FacesOf(c), resolve_processing_cpu_affinity_map(c, Len(FacesOf(c))), c.proc # <<>>)
<1> DEFINE fs == FacesOf(c)
           cpus == resolve_processing_cpu_affinity_map(c, Len(fs))
<1>1. CASE Len(c.ips) = 3
  <2>1. fs = [i \in 1..3 |-> [ip |-> c.ips[i], source |-> c.ids[i], cpu |-> c.cpus[i],
                              filter |-> c.filter]]
    BY Zenon, <1>1 DEF FacesOf
  <2>2. /\ c.ips \in [1..3 -> STRING] /\ c.ids \in [1..3 -> 17..19] /\ c.cpus \in [1..3 -> Int]
        /\ Injective(c.ips) /\ Injective(c.ids) /\ Injective(c.cpus)
        /\ Len(c.cpus) = 3
        /\ c.proc = <<>> \/ (Distinct(c.proc) /\ Len(c.proc) = 3)
    BY <1>1, ThreeFaces
  <2>3. Len(fs) = 3 /\ DOMAIN fs = 1..3
    BY <2>1
  <2>4. \A i \in 1..3 : fs[i].ip = c.ips[i] /\ fs[i].source = c.ids[i] /\ fs[i].cpu = c.cpus[i]
    BY <2>1
  <2> HIDE DEF fs
  <2>5. \A s \in 17..19 : Cardinality({i \in 1..3 : fs[i].source = s}) = 1
    <3> TAKE s \in 17..19
    <3>1. {i \in 1..3 : fs[i].source = s} = {i \in 1..3 : c.ids[i] = s}
      BY Zenon, <2>4
    <3> QED BY Zenon, <3>1, <2>2, ThreeSources
  <2>6. \A i, j \in DOMAIN fs : i # j => fs[i].ip # fs[j].ip /\ fs[i].cpu # fs[j].cpu
    <3>1. DOMAIN c.ips = 1..3 /\ DOMAIN c.cpus = 1..3
      BY Zenon, <2>2
    <3>2. ASSUME NEW i \in 1..3, NEW j \in 1..3, i # j
          PROVE  c.ips[i] # c.ips[j] /\ c.cpus[i] # c.cpus[j]
      BY Zenon, <3>1, <3>2, <2>2 DEF Injective
    <3>3. ASSUME NEW i \in DOMAIN fs, NEW j \in DOMAIN fs, i # j
          PROVE  fs[i].ip # fs[j].ip /\ fs[i].cpu # fs[j].cpu
      <4>1. i \in 1..3 /\ j \in 1..3
        BY Zenon, <2>3
      <4>2. c.ips[i] # c.ips[j] /\ c.cpus[i] # c.cpus[j]
        BY Zenon, <3>2, <3>3, <4>1
      <4>3. /\ fs[i].ip = c.ips[i] /\ fs[i].cpu = c.cpus[i]
            /\ fs[j].ip = c.ips[j] /\ fs[j].cpu = c.cpus[j]
        BY Zenon, <2>4, <4>1
      <4> QED BY Zenon, <4>2, <4>3
    <3> QED BY Zenon, <3>3
  <2>7. {fs[i].cpu : i \in DOMAIN fs} = Members(c.cpus)
    BY <2>2, <2>3, <2>4 DEF Members
  <2>8. CASE c.proc = <<>>
    <3>1. Distinct(cpus) /\ Members(cpus) \cap Members(c.cpus) = {}
      <4>1. 3 \in Nat /\ 3 # 0 /\ 3 <= 3 /\ Len(c.cpus) = 3 /\ Len(fs) = 3
        BY <2>2, <2>3
      <4> QED BY Zenon, <4>1, <2>8, ResolvedFacts
    <3> QED BY Zenon, <2>3, <2>5, <2>6, <2>7, <2>8, <3>1 DEF Apart, fs
  <2>9. CASE c.proc # <<>>
    <3>1. cpus = c.proc
      BY <2>2, <2>3, <2>9 DEF resolve_processing_cpu_affinity_map
    <3> QED BY ZenonT(30), <2>2, <2>3, <2>5, <2>6, <2>9, <3>1 DEF Apart, fs
  <2> QED BY <2>8, <2>9
<1>2. CASE Len(c.ips) # 3
  <2>1. fs = <<[ip |-> "any", source |-> 17, cpu |-> 16, filter |-> FALSE]>>
    BY Zenon, <1>2 DEF FacesOf
  <2>2. Len(fs) = 1 /\ DOMAIN fs = 1..1
    BY <2>1
  <2>3. Len(c.cpus) = 0 /\ Len(c.ips) = 0
    <3>1. \/ {Len(c.ips), Len(c.ids), Len(c.cpus)} = {0}
          \/ {Len(c.ips), Len(c.ids), Len(c.cpus)} = {3}
      BY Zenon DEF validate_config, validate_network
    <3> QED BY Zenon, <3>1, <1>2
  <2> HIDE DEF fs
  <2>4. \A i, j \in DOMAIN fs : i = j
    BY <2>2
  <2>5. Distinct(cpus)
    <3>1. CASE c.proc = <<>>
      BY <2>2, <2>3, <3>1, ResolvedFacts
    <3>2. CASE c.proc # <<>>
      <4>1. c.ips = <<>>
        <5>1. c.ips \in Seq(STRING)
          BY Zenon DEF Configs
        <5> QED BY Zenon, <5>1, <2>3, SeqNone
      <4>2. Distinct(c.proc) /\ Len(c.proc) = 1
        BY Zenon, <3>2, <4>1 DEF validate_config, validate_limits
      <4> QED BY Zenon, <4>2, <2>2 DEF resolve_processing_cpu_affinity_map
    <3> QED BY Zenon, <3>1, <3>2
  <2>6. ~(Len(fs) = 3)
    BY <2>2
  <2> HIDE DEF cpus
  <2>7. Apart(fs, cpus, c.proc # <<>>)
    BY Zenon, <2>4, <2>5, <2>6 DEF Apart
  <2> QED BY Zenon, <2>7 DEF fs, cpus
<1> QED BY Zenon, <1>1, <1>2

(***************************************************************************)
(* Before the load nothing is in use; from then on the faces are apart and *)
(* what is applied is what passed validate.  The file is one of Files.     *)
(***************************************************************************)
ConfigInv ==
    /\ file \in Configs
    /\ current = <<>> \/ \E c \in Configs : current = <<c>> /\ validate_config(c)
    /\ current # <<>> => applied[1].timeouts = current[1].timeouts
    /\ current # <<>> => (applied[1].captureOn => current[1].captureOn)
    /\ Apart(faces, procCpus, named)

(* The files of the instance are configurations. *)
LEMMA FilesAreConfigs == Files \subseteq Configs
  BY Zenon, ConfigAssumption DEF Configs

(* The configuration loaded at the start satisfies the invariant. *)
LEMMA ConfigInvInit == ConfigInit => ConfigInv
<1> SUFFICES ASSUME ConfigInit PROVE ConfigInv
  BY Zenon
<1>1. Distinct(<<>>)
  <2>1. Members(<<>>) = {} /\ Len(<<>>) = 0
    BY DEF Members
  <2> QED BY Zenon, <2>1, FS_EmptySet DEF Distinct
<1>2. Len(<<>>) = 0 /\ DOMAIN <<>> = {}
  OBVIOUS
<1>3. Apart(<<>>, <<>>, FALSE)
  BY <1>1, <1>2 DEF Apart
<1> QED BY Zenon, <1>3, FilesAreConfigs DEF ConfigInit, ConfigInv

(* The settings made from a configuration never capture when it says not to. *)
LEMMA SettingsFacts ==
    ASSUME NEW c \in Configs, NEW before, NEW starts \in BOOLEAN
    PROVE  /\ Settings(c, before, starts).timeouts = c.timeouts
           /\ Settings(c, before, starts).captureOn => c.captureOn
BY Zenon DEF Settings, Configs

(* An edit and a reload keep the invariant. *)
LEMMA ConfigInvNext == ConfigInv /\ [ConfigNext]_configVars => ConfigInv'
<1> SUFFICES ASSUME ConfigInv, [ConfigNext]_configVars PROVE ConfigInv'
  BY Zenon
<1>0. file \in Configs /\ Apart(faces, procCpus, named)
  BY Zenon DEF ConfigInv
<1>p. Parsed(file) \in Configs
  BY Zenon, <1>0, ParsedIsConfig
<1> DEFINE c == Parsed(file)
<1>n. ASSUME NEW starts \in BOOLEAN, NEW before, Loads(file), current' = <<c>>,
             applied' = <<Settings(c, before, starts)>>
      PROVE  /\ \E d \in Configs : current' = <<d>> /\ validate_config(d)
             /\ applied'[1].timeouts = current'[1].timeouts
             /\ applied'[1].captureOn => current'[1].captureOn
  <2>1. validate_config(c)
    BY Zenon, <1>n DEF Loads
  <2>2. current'[1] = c /\ applied'[1] = Settings(c, before, starts)
    BY Zenon, <1>n
  <2> HIDE DEF c
  <2>3. c \in Configs
    BY Zenon, <1>p DEF c
  <2>4. Settings(c, before, starts).timeouts = c.timeouts
        /\ (Settings(c, before, starts).captureOn => c.captureOn)
    BY Zenon, <2>3, SettingsFacts
  <2> QED BY <1>n, <2>1, <2>2, <2>3, <2>4
<1>1. CASE ConfigLoad
  <2>1. CASE UNCHANGED <<current, faces, procCpus, named, applied>>
    <3>1. file' = file
      BY Zenon, <1>1 DEF ConfigLoad
    <3>2. Apart(faces', procCpus', named')
      BY Zenon, <1>0, <2>1
    <3> QED BY Zenon, <2>1, <3>1, <3>2 DEF ConfigInv
  <2>2. CASE ~UNCHANGED <<current, faces, procCpus, named, applied>>
    <3>1. /\ Loads(file) /\ current' = <<c>> /\ faces' = FacesOf(c) /\ named' = (c.proc # <<>>)
          /\ procCpus' = resolve_processing_cpu_affinity_map(c, Len(FacesOf(c)))
          /\ file' = file
          /\ \E starts \in BOOLEAN : applied' = <<Settings(c, FALSE, starts)>>
      BY Zenon, <1>1, <2>2 DEF ConfigLoad
    <3>2. Apart(faces', procCpus', named')
      <4>1. validate_config(c)
        BY Zenon, <3>1 DEF Loads
      <4>2. Apart(FacesOf(c), resolve_processing_cpu_affinity_map(c, Len(FacesOf(c))), c.proc # <<>>)
        BY Zenon, <1>p, <4>1, LoadedFacesApart
      <4> HIDE DEF c
      <4> QED BY Zenon, <3>1, <4>2
    <3> HIDE DEF c
    <3>3. PICK starts \in BOOLEAN : applied' = <<Settings(c, FALSE, starts)>>
      BY Zenon, <3>1
    <3>4. /\ \E d \in Configs : current' = <<d>> /\ validate_config(d)
          /\ applied'[1].timeouts = current'[1].timeouts
          /\ applied'[1].captureOn => current'[1].captureOn
      BY Zenon, <1>n, <3>1, <3>3
    <3> QED BY Zenon, <1>0, <3>1, <3>2, <3>4 DEF ConfigInv
  <2> QED BY Zenon, <2>1, <2>2
<1>2. CASE ConfigReload
  <2>0. UNCHANGED <<file, faces, procCpus, named>>
    BY Zenon, <1>2 DEF ConfigReload
  <2>k. Apart(faces', procCpus', named')
    BY Zenon, <1>0, <2>0
  <2>1. CASE UNCHANGED <<current, applied>>
    BY Zenon, <2>0, <2>1, <2>k DEF ConfigInv
  <2>2. CASE ~UNCHANGED <<current, applied>>
    <3>1. /\ Loads(file) /\ current' = <<c>>
          /\ \E starts \in BOOLEAN : applied' = <<Settings(c, applied[1].captureOn, starts)>>
      BY Zenon, <1>2, <2>2 DEF ConfigReload
    <3> HIDE DEF c
    <3>2. PICK starts \in BOOLEAN : applied' = <<Settings(c, applied[1].captureOn, starts)>>
      BY Zenon, <3>1
    <3>3. /\ \E d \in Configs : current' = <<d>> /\ validate_config(d)
          /\ applied'[1].timeouts = current'[1].timeouts
          /\ applied'[1].captureOn => current'[1].captureOn
      BY Zenon, <1>n, <3>1, <3>2
    <3> QED BY Zenon, <1>0, <2>0, <2>k, <3>3 DEF ConfigInv
  <2> QED BY Zenon, <2>1, <2>2
<1>3. CASE EditFile
  <2>1. Apart(faces', procCpus', named')
    BY Zenon, <1>0, <1>3 DEF EditFile
  <2> QED BY Zenon, <1>3, <2>1, FilesAreConfigs DEF EditFile, ConfigInv
<1>4. CASE UNCHANGED configVars
  <2>1. Apart(faces', procCpus', named')
    BY Zenon, <1>0, <1>4 DEF configVars
  <2> QED BY Zenon, <1>4, <2>1 DEF configVars, ConfigInv
<1> QED BY Zenon, <1>1, <1>2, <1>3, <1>4 DEF ConfigNext

(* The invariant holds in every reachable state. *)
LEMMA ConfigInvariant == ConfigSpec => []ConfigInv
  BY ConfigInvInit, ConfigInvNext, PTL DEF ConfigSpec

(***************************************************************************)
(* AppliedIsCurrent: whatever the file is edited to and whenever it is     *)
(* reloaded, the threads use settings that passed validate and that        *)
(* get_config() answers.                                                   *)
(***************************************************************************)
THEOREM ReloadIsSafe == ConfigSpec => []AppliedIsCurrent
<1>1. ConfigInv => AppliedIsCurrent
  <2> SUFFICES ASSUME ConfigInv, current # <<>>
               PROVE  /\ applied[1].timeouts = current[1].timeouts
                      /\ applied[1].captureOn => current[1].captureOn
                      /\ validate_config(current[1])
    BY Zenon DEF AppliedIsCurrent
  <2>1. PICK c \in Configs : current = <<c>> /\ validate_config(c)
    BY Zenon DEF ConfigInv
  <2>2. current[1] = c
    BY <2>1
  <2> QED BY Zenon, <2>1, <2>2 DEF ConfigInv
<1> QED BY <1>1, ConfigInvariant, PTL

(***************************************************************************)
(* FacesApart: no file that passes validate gives two faces one address,   *)
(* one source or one receive CPU, or two processing threads one CPU.       *)
(***************************************************************************)
THEOREM FacesStayApart == ConfigSpec => []FacesApart
<1>1. ConfigInv => FacesApart
  BY Zenon DEF ConfigInv, Apart, FacesApart
<1> QED BY <1>1, ConfigInvariant, PTL
=============================================================================
