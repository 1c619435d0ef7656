------------------------------ MODULE Control ------------------------------
(***************************************************************************)
(* The control plane (src/control, src/common/system_state.cpp): the state *)
(* machine with its table, the orchestrator that starts and stops the      *)
(* modules, the command bridge in front of it, and the runtime monitor.    *)
(*                                                                         *)
(* Modules are numbered in the order of their registration.  Each action   *)
(* is one whole call.  How long the system has been unhealthy is told      *)
(* apart by the two thresholds only: 0, 1 for T1_DEGRADED_MS and 2 for     *)
(* T2_FAULT_MS.  Only unit tests create these objects: no thread of the    *)
(* program calls tick() or handle(), so every call may or may not come and *)
(* no fairness is assumed.  Calls are atomic as commands are to be         *)
(* serialised by the orchestrator.  Events and transition callbacks have   *)
(* no handler in src/ and are left out, and so is BootChecker, which       *)
(* boot() does not consult.                                                *)
(***************************************************************************)
EXTENDS Integers

CONSTANT N    \* the number of registered modules

ASSUME ModulesAssumption == N \in Nat

VARIABLES
    state,          \* fsm_.current()
    started,        \* the modules whose start() succeeded, not stopped since
    healthy, unhealthy_ms,    \* what was reported to the monitor last
    ack             \* the last call of handle: command and success

controlVars == <<state, started, healthy, unhealthy_ms, ack>>

monitor == <<healthy, unhealthy_ms>>

SystemState == {"Init", "Standby", "Running", "Degraded", "Fault"}

Commands == {"START", "STOP", "RESET", "QUERY_STATE", "other"}

Modules == 1..N

----------------------------------------------------------------------------
(* The table, as the transitions it allows whatever the event. *)
TRANSITION_TABLE ==
    {<<"Init", "Standby">>, <<"Init", "Fault">>, <<"Standby", "Running">>,
     <<"Running", "Degraded">>, <<"Running", "Fault">>,
     <<"Degraded", "Running">>, <<"Degraded", "Fault">>,
     <<"Fault", "Init">>, <<"Fault", "Standby">>}

is_transition_allowed(from, to) ==
    to = "Fault" \/ <<from, to>> \in TRANSITION_TABLE

(* The state after transition(to) is tried in state s. *)
After(s, to) == IF is_transition_allowed(s, to) THEN to ELSE s

----------------------------------------------------------------------------
ControlInit ==
    /\ state = "Init"
    /\ started = {}
    /\ healthy = TRUE /\ unhealthy_ms = 0
    /\ ack = [command |-> "none", ok |-> TRUE]

boot ==
    /\ state' = After(state, "Standby")
    /\ UNCHANGED <<started, monitor, ack>>

(* Every module starts, but the table may still refuse the transition. *)
start_completes ==
    /\ started' = started \cup Modules
    /\ state' = After(state, "Running")
    /\ ack' = [command |-> "START",
               ok |-> is_transition_allowed(state, "Running")]

(* Mutant: the loop goes on after a module that fails. *)
MutStartFails ==
    \E failing \in Modules :
        /\ started' = started \cup (Modules \ {failing})
        /\ state' = After(state, "Running")
        /\ ack' = [command |-> "START",
                   ok |-> is_transition_allowed(state, "Running")]

(* A module fails: those registered before it stay started. *)
start_fails ==
    \E failing \in Modules :
        /\ started' = started \cup 1..(failing - 1)
        /\ ack' = [command |-> "START", ok |-> FALSE]
        /\ UNCHANGED state

start == start_completes \/ start_fails

(* Every module is stopped, and the transition may fail unnoticed. *)
stop ==
    /\ started' = {}
    /\ state' = After(state, "Standby")
    /\ ack' = [command |-> "STOP", ok |-> TRUE]

(* stop() and then a transition to Init. *)
reset ==
    LET stopped == After(state, "Standby")
    IN  /\ started' = {}
        /\ state' = After(stopped, "Init")
        /\ ack' = [command |-> "RESET",
                   ok |-> is_transition_allowed(stopped, "Init")]

handle(command) ==
    /\ \/ command = "START" /\ start
       \/ command = "STOP" /\ stop
       \/ command = "RESET" /\ reset
       \/ /\ command \in {"QUERY_STATE", "other"}
          /\ ack' = [command |-> command, ok |-> command = "QUERY_STATE"]
          /\ UNCHANGED <<state, started>>
    /\ UNCHANGED monitor

report_health(h, ms) ==
    /\ healthy' = h
    /\ unhealthy_ms' = ms
    /\ UNCHANGED <<state, started, ack>>

tick ==
    /\ state' = IF healthy
                THEN IF state = "Degraded" THEN After(state, "Running")
                                           ELSE state
                ELSE IF unhealthy_ms = 2 THEN After(state, "Fault")
                ELSE IF unhealthy_ms = 1 /\ state = "Running"
                THEN After(state, "Degraded")
                ELSE state
    /\ UNCHANGED <<started, monitor, ack>>

ControlNext ==
    \/ boot
    \/ \E command \in Commands : handle(command)
    \/ \E h \in BOOLEAN, ms \in 0..2 : report_health(h, ms)
    \/ tick

ControlSpec == ControlInit /\ [][ControlNext]_controlVars

----------------------------------------------------------------------------
(* Every variable has its type. *)
ControlTypeOK ==
    /\ state \in SystemState
    /\ started \in SUBSET Modules
    /\ healthy \in BOOLEAN /\ unhealthy_ms \in 0..2
    /\ ack \in [command : Commands \cup {"none"}, ok : BOOLEAN]

(***************************************************************************)
(* Whatever mixture of complete, failed and repeated STARTs, STOPs and     *)
(* RESETs there was, the started modules are a prefix of the order of      *)
(* registration: none is up without all those registered before it.        *)
(***************************************************************************)
StartedInOrder == \E k \in 0..N : started = 1..k

(***************************************************************************)
(* The system goes into operation only with every module started: the      *)
(* state Running is entered from Degraded, or by an acknowledged START     *)
(* that has brought up all modules.                                        *)
(***************************************************************************)
RunsCompleteStep ==
    state' = "Running" /\ state \notin {"Running", "Degraded"} =>
        started' = Modules /\ ack' = [command |-> "START", ok |-> TRUE]

RunsComplete == [][RunsCompleteStep]_controlVars

(***************************************************************************)
(* A fault is held: it is left by a call of boot, STOP or RESET only, and  *)
(* not into operation.  Health that returns does not end it.               *)
(***************************************************************************)
FaultHeldStep ==
    state = "Fault" /\ state' # "Fault" =>
        /\ state' \in {"Init", "Standby"}
        /\ boot \/ handle("STOP") \/ handle("RESET")

FaultHeld == [][FaultHeldStep]_controlVars

(***************************************************************************)
(* system_state.cpp, lines 28 and 38: a manual stop leads out of Running   *)
(* and out of Degraded.                                                    *)
(***************************************************************************)
StopStops ==
    [][handle("STOP") => state' \notin {"Running", "Degraded"}]_controlVars

(***************************************************************************)
(* system_state.cpp, line 40, rule 16: a manual reset leads from Fault to  *)
(* Init.                                                                   *)
(***************************************************************************)
ResetResets ==
    [][handle("RESET") /\ state = "Fault" => state' = "Init"]_controlVars
=============================================================================
