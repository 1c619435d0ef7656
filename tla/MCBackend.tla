------------------------------ MODULE MCBackend ------------------------------
(***************************************************************************)
(* The stages a packet goes through, and the process around them: the      *)
(* reorderer with zero fill, the reorderer without it and with a wide      *)
(* window, the reassembler and the gateway; the control plane, the         *)
(* application's start, run and end and the connection to its Unix socket. *)
(* A behaviour exercises the part that part names and leaves the others in *)
(* an initial state.                                                       *)
(***************************************************************************)
EXTENDS Reorderer, Gateway, Control, App, UdsDelivery

CONSTANTS OnePayload, Keys, NoKey

VARIABLES
    part,
    \* the second reorderer
    wInit, wNext, wBase, wRing, wBits, wSize, wTimeout, wElapsed, wFlushed, wOut,
    \* the reassembler
    contexts, frozen_keys_ring, frozen_keys_next_insert, aTimeout, aFlushed, aOut,
    promise, lowered

(* A window wider than the distance that counts as newer, no zero fill. *)
Wide == INSTANCE Reorderer WITH
    Window <- 5, SeqMod <- 8, Payloads <- OnePayload, ZeroFill <- FALSE,
    initialized <- wInit, next_expected_seq <- wNext, base_index <- wBase,
    ring_slots <- wRing, occupancy_bitmap <- wBits, current_buffer_size <- wSize,
    timeout_ms <- wTimeout, elapsed <- wElapsed, flushed <- wFlushed, out <- wOut

Asm == INSTANCE Reassembler WITH
    MaxContexts <- 1, MaxTotal <- 2, MaxBytes <- 2, DefaultSize <- 1,
    Totals <- {2}, BodySizes <- {0, 1}, TailSizes <- {0, 1}, TailBytes <- {0, 1},
    timeout_ms <- aTimeout, flushed <- aFlushed, out <- aOut

wideVars == <<wInit, wNext, wBase, wRing, wBits, wSize, wTimeout, wElapsed, wFlushed, wOut>>
asmVars == <<contexts, frozen_keys_ring, frozen_keys_next_insert, aTimeout, aFlushed, aOut,
             promise, lowered>>
allVars == <<part, vars, wideVars, asmVars, gatewayVars, controlVars, appVars,
             udsVars>>

BackendInit ==
    /\ part \in {"reorderer", "wide", "reassembler", "gateway",
                "control", "app", "uds"}
    /\ Init /\ Wide!Init /\ Asm!Init /\ GatewayInit
    /\ ControlInit /\ AppInitial /\ UdsInit
    /\ part # "reorderer" => timeout_ms = MaxTimeout
    /\ part # "wide" => wTimeout = MaxTimeout
    /\ part # "reassembler" => aTimeout = MaxTimeout
    /\ part # "app" => cli = "normal"
    /\ part # "uds" => peerUp

BackendNext ==
    \/ /\ part = "reorderer" /\ Next
       /\ UNCHANGED <<part, wideVars, asmVars, gatewayVars,
                      controlVars, appVars, udsVars>>
    \/ /\ part = "wide" /\ Wide!Next
       /\ UNCHANGED <<part, vars, asmVars, gatewayVars,
                      controlVars, appVars, udsVars>>
    \/ /\ part = "reassembler" /\ Asm!Next
       /\ UNCHANGED <<part, vars, wideVars, gatewayVars,
                      controlVars, appVars, udsVars>>
    \/ /\ part = "gateway" /\ GatewayNext
       /\ UNCHANGED <<part, vars, wideVars, asmVars,
                      controlVars, appVars, udsVars>>
    \/ /\ part = "control" /\ ControlNext
       /\ UNCHANGED <<part, vars, wideVars, asmVars,
                      gatewayVars, appVars, udsVars>>
    \/ /\ part = "app" /\ AppNext
       /\ UNCHANGED <<part, vars, wideVars, asmVars,
                      gatewayVars, controlVars, udsVars>>
    \/ /\ part = "uds" /\ UdsNext
       /\ UNCHANGED <<part, vars, wideVars, asmVars,
                      gatewayVars, controlVars, appVars>>

(* The fairness of the part that runs. *)
BackendSpec ==
    /\ BackendInit /\ [][BackendNext]_allVars
    /\ WF_wideVars(part = "wide" /\ Wide!check_timeout)
    /\ WF_wideVars(part = "wide" /\ Wide!Tick)
    /\ WF_asmVars(part = "reassembler" /\ Asm!check_timeouts)
    /\ WF_asmVars(part = "reassembler" /\ Asm!Tick)
    /\ WF_appVars(part = "app" /\ MainStep) /\ WF_appVars(part = "app" /\ RxEnds)
    /\ WF_appVars(part = "app" /\ ProcEnds) /\ WF_appVars(part = "app" /\ WriterEnds)
    /\ WF_appVars(part = "app" /\ ServerSetup) /\ WF_appVars(part = "app" /\ ServerLoop)
    /\ WF_udsVars(part = "uds" /\ UdsTick)
    /\ WF_udsVars(part = "uds" /\ DeliverConnect)
    /\ WF_udsVars(part = "uds" /\ DeliverBroken)

----------------------------------------------------------------------------
(* A packet the reorderer with the wide window holds is output at last. *)
WideBufferedIsOutput == Wide!BufferedIsOutput

(* Every context the reassembler opens is closed at last. *)
ContextCloses == Asm!ContextCloses
=============================================================================
