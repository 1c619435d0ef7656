---------------------------- MODULE UdsDelivery -----------------------------
(***************************************************************************)
(* UnixSocketDelivery (delivery/delivery_interface.cpp): frames go to a    *)
(* peer over a SEQPACKET socket that is connected again, with a growing    *)
(* delay, after it is lost.  A unit of time is a step of UdsTick.          *)
(***************************************************************************)
EXTENDS Integers

CONSTANTS
    Interval,     \* reconnect_interval_ms, not 0
    BackoffCap    \* 5000

ASSUME UdsAssumption == {Interval, BackoffCap} \subseteq Nat \ {0}

VARIABLES
    conn,         \* sock_fd: "none", "live", or "stale" (its peer has gone)
    backoff,      \* current_backoff_ms
    wait,         \* the time left until next_reconnect
    peerUp        \* the peer accepts connections

udsVars == <<conn, backoff, wait, peerUp>>

UdsMin(a, b) == IF a < b THEN a ELSE b

UdsMax(a, b) == IF a < b THEN b ELSE a

NextBackoff(b) == UdsMin(2 * b, BackoffCap)

(* schedule_reconnect *)
schedule_reconnect ==
    /\ wait' = backoff
    /\ backoff' = NextBackoff(backoff)

(* connect_with_backoff when the time has come: connected or scheduled again. *)
connect_with_backoff ==
    IF peerUp
    THEN conn' = "live" /\ backoff' = Interval /\ wait' = 0
    ELSE conn' = "none" /\ schedule_reconnect

(* The constructor makes the first attempt. *)
UdsInit ==
    /\ peerUp \in BOOLEAN
    /\ conn = IF peerUp THEN "live" ELSE "none"
    /\ wait = IF peerUp THEN 0 ELSE Interval
    /\ backoff = IF peerUp THEN Interval ELSE NextBackoff(Interval)

(* Mutant: no attempt is made any more once the delay is at its limit. *)
MutDeliverConnect ==
    /\ conn = "none" /\ wait = 0 /\ backoff < BackoffCap
    /\ connect_with_backoff
    /\ peerUp' = peerUp

(***************************************************************************)
(* deliver without a connection: before next_reconnect it only counts an   *)
(* error; later it connects, and sends when that works.                    *)
(***************************************************************************)
DeliverConnect ==
    /\ conn = "none" /\ wait = 0
    /\ connect_with_backoff
    /\ peerUp' = peerUp

(***************************************************************************)
(* deliver over a connection whose peer has gone: on EPIPE and ECONNRESET  *)
(* the socket is closed and a reconnection scheduled.  (Linux raises       *)
(* SIGPIPE for SOCK_STREAM only; this socket is SOCK_SEQPACKET.)  A live   *)
(* connection, or EAGAIN, changes nothing here.                            *)
(***************************************************************************)
DeliverBroken ==
    /\ conn = "stale"
    /\ conn' = "none" /\ schedule_reconnect
    /\ peerUp' = peerUp

(* flush sends the end record and closes; a later deliver connects. *)
UdsFlush ==
    /\ conn # "none"
    /\ conn' = "none"
    /\ UNCHANGED <<backoff, wait, peerUp>>

UdsTick ==
    /\ wait > 0
    /\ wait' = wait - 1
    /\ UNCHANGED <<conn, backoff, peerUp>>

(* The peer goes, and its connection with it, or comes back. *)
PeerChanges ==
    /\ peerUp' = ~peerUp
    /\ conn' = IF conn = "live" THEN "stale" ELSE conn
    /\ UNCHANGED <<backoff, wait>>

UdsNext == DeliverConnect \/ DeliverBroken \/ UdsFlush \/ UdsTick \/ PeerChanges

(* Time passes, and frames keep coming: deliver is called again and again. *)
UdsFairness ==
    /\ WF_udsVars(UdsTick)
    /\ WF_udsVars(DeliverConnect)
    /\ WF_udsVars(DeliverBroken)

UdsSpec == UdsInit /\ [][UdsNext]_udsVars /\ UdsFairness

----------------------------------------------------------------------------
UdsTypeOK ==
    /\ conn \in {"none", "live", "stale"}
    /\ wait \in Nat /\ backoff \in 1..UdsMax(Interval, BackoffCap)

(***************************************************************************)
(* A frame is only dropped for want of a connection while the delay runs   *)
(* (no connection waits), and the delay never exceeds the larger of the    *)
(* interval and the cap.                                                   *)
(***************************************************************************)
WaitBounded ==
    /\ wait > 0 => conn = "none"
    /\ wait <= UdsMax(Interval, BackoffCap)

(* A peer that stays up is connected to again, however it went before. *)
PeerFound == (<>[]peerUp) => []<>(conn = "live")
=============================================================================
