------------------------------- MODULE MCLinks -------------------------------
(***************************************************************************)
(* What passes items from one thread or scan to the next: the ring whose   *)
(* producer drops the oldest item, the ring with try_push, the GPU         *)
(* dispatcher between its queues, the emulator, whose threads share one    *)
(* link, the wiring of a face and the data processor; and the              *)
(* configuration they run with.  A behaviour exercises the part that part  *)
(* names and leaves the others in an initial state.                        *)
(***************************************************************************)
EXTENDS SPSCQueue, Gpu, Emulator, FacePipeline, Tracks, Config

CONSTANTS f1, f2, f3, f4

VARIABLES
    part,
    \* the ring of a producer that uses try_push
    tHead, tTail, tBuffer, tDropCount, tPpc, tPhead, tPushed,
    tCpc, tChead, tCitem, tLast, tPopped, tLapped

Try == INSTANCE SPSCQueue WITH
    MaxItems <- 12,
    head <- tHead, tail <- tTail, buffer <- tBuffer, drop_count <- tDropCount,
    ppc <- tPpc, phead <- tPhead, pushed <- tPushed, cpc <- tCpc, chead <- tChead,
    citem <- tCitem, last <- tLast, popped <- tPopped, lapped <- tLapped

tryVars == <<tHead, tTail, tBuffer, tDropCount, tPpc, tPhead, tPushed,
              tCpc, tChead, tCitem, tLast, tPopped, tLapped>>
allVars == <<part, vars, tryVars, gpuVars, emuVars, fpVars, trackVars, configVars>>

(* The numbers wrap after the first frame, and two frames have one number. *)
MCCounter == [k \in FrameKeys |-> IF k = f1 THEN 7 ELSE IF k = f4 THEN 1 ELSE 0]

(* The configuration files: a good one, and what may be wrong with it. *)
Good ==
    [text |-> "good", port |-> 1, filter |-> TRUE, ips |-> <<"a", "b", "c">>,
     ids |-> <<17, 18, 19>>, cpus |-> <<16, 17, 18>>, proc |-> <<>>, inRange |-> TRUE,
     low |-> 1, high |-> 2, max |-> 2, captureOn |-> FALSE, spool |-> TRUE, timeouts |-> 1]

MCFiles ==
    {[Good EXCEPT !.text = t] : t \in {"yaml", "number"}}
    \cup {[Good EXCEPT !.ids = t] : t \in {<<>>, <<17>>, <<17, 18, 18>>, <<18, 19, 273>>,
                                           <<17, 18, 20>>, <<19, 18, 17>>}}
    \cup {[Good EXCEPT !.cpus = t] : t \in {<<>>, <<16, 16, 17>>, <<-1, 2, 3>>,
                                            <<17, 19, 21>>, <<0, 1, 2>>}}
    \cup {[Good EXCEPT !.ips = t, !.ids = u, !.cpus = v] :
            t \in {<<>>, <<"a", "a", "b">>, <<"a", "", "b">>},
            u \in {<<>>, <<17, 18, 19>>}, v \in {<<>>, <<16, 17, 18>>}}
    \cup {[Good EXCEPT !.filter = FALSE]}
    \cup {[Good EXCEPT !.proc = t] : t \in {<<19>>, <<19, 20, 21>>, <<16, 17, 18>>,
                                            <<19, 19, 20>>}}
    \cup {[Good EXCEPT !.timeouts = 2, !.captureOn = b, !.spool = s, !.inRange = r,
                       !.high = h, !.port = p] :
            b \in BOOLEAN, s \in BOOLEAN, r \in BOOLEAN, h \in {0, 1, 3}, p \in 0..1}

LinksInit ==
    /\ part \in {"try", "drop", "gpu", "emulator", "wiring", "tracks", "config"}
    /\ Init /\ Try!Init /\ GpuInit /\ EmuInit /\ FpInit /\ TracksInit /\ ConfigInit
    /\ part # "emulator" => mode = "cpi"
    /\ part # "config" => file = [Good EXCEPT !.filter = FALSE]

LinksNext ==
    \/ /\ part = "drop" /\ DropNext
       /\ UNCHANGED <<part, tryVars, gpuVars, emuVars,
                      fpVars, trackVars, configVars>>
    \/ /\ part = "try" /\ Try!TryNext
       /\ UNCHANGED <<part, vars, gpuVars, emuVars,
                      fpVars, trackVars, configVars>>
    \/ /\ part = "gpu" /\ GpuNext
       /\ UNCHANGED <<part, vars, tryVars, emuVars,
                      fpVars, trackVars, configVars>>
    \/ /\ part = "emulator" /\ EmuNext
       /\ UNCHANGED <<part, vars, tryVars, gpuVars,
                      fpVars, trackVars, configVars>>
    \/ /\ part = "wiring" /\ FpNext
       /\ UNCHANGED <<part, vars, tryVars, gpuVars,
                      emuVars, trackVars, configVars>>
    \/ /\ part = "tracks" /\ TracksNext
       /\ UNCHANGED <<part, vars, tryVars, gpuVars,
                      emuVars, fpVars, configVars>>
    \/ /\ part = "config" /\ ConfigNext
       /\ UNCHANGED <<part, vars, tryVars, gpuVars,
                      emuVars, fpVars, trackVars>>

(* The fairness of the part that runs. *)
LinksSpec ==
    /\ LinksInit /\ [][LinksNext]_allVars
    /\ WF_gpuVars(part = "gpu" /\ Visit)

----------------------------------------------------------------------------
(* ImplementsQueue of the ring whose producer uses try_push. *)
TryImplementsQueue == Try!ImplementsQueue

=============================================================================
