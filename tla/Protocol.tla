------------------------------ MODULE Protocol ------------------------------
(***************************************************************************)
(* What the receive path reads of a datagram, and what it accepts:         *)
(* PacketParser, Validator (scope DATA_AND_HEARTBEAT), the classification  *)
(* of ArrayFaceReceiver and the checks Dispatcher repeats.                 *)
(*                                                                         *)
(* A datagram is a record                                                  *)
(*   len      the bytes received                                           *)
(*   magic, major, source, dest, type, payload_len                         *)
(*            the header fields; meaningless beyond len                    *)
(*   crc      the CRC word of a heartbeat: "good", "bad" or "zero"         *)
(*   cs6      the IP header carries DSCP 48                                *)
(* A "zero" word is a CRC of 0 that does not match the payload.            *)
(***************************************************************************)
EXTENDS Integers

CONSTANTS
    HeaderSize,      \* COMMON_HEADER_SIZE
    SourceOffset,    \* offsetof(CommonHeader, source_id)
    TypeOffset,      \* offsetof(CommonHeader, packet_type)
    MaxPayload,      \* MAX_PAYLOAD_SIZE
    HeartbeatSize,   \* HEARTBEAT_PAYLOAD_SIZE
    LocalId,         \* local_device_id_
    ExpectedSource   \* expected_source_id of the face

ASSUME ProtocolAssumption ==
    /\ {HeaderSize, SourceOffset, TypeOffset, MaxPayload, HeartbeatSize}
            \subseteq Nat
    /\ SourceOffset < HeaderSize /\ TypeOffset < HeaderSize

BroadcastId == 16

ReservedId == 255

(* ArrayFaceReceiver: the datagram passes the source filter. *)
PassesFilter(p) == p.len > SourceOffset /\ p.source = ExpectedSource

(* classify_priority(p) = HIGH *)
IsHigh(p) == p.cs6 \/ (p.len > TypeOffset /\ p.type = "HEARTBEAT")

(* PacketParser::basic_validation *)
basic_validation(p) ==
    /\ p.magic
    /\ p.major
    /\ p.payload_len <= MaxPayload
    /\ HeaderSize + p.payload_len = p.len

(* PacketParser::parse returns a packet. *)
parse(p) == p.len >= HeaderSize /\ basic_validation(p)

check_dest_id(d) == d # ReservedId /\ d \in {LocalId, BroadcastId}

verify_heartbeat_crc(p) == p.payload_len >= HeartbeatSize /\ p.crc = "good"

validate_payload_by_type(p) ==
    \/ p.type = "DATA"
    \/ p.type = "HEARTBEAT" /\ verify_heartbeat_crc(p)

(* Validator::validate returns OK. *)
validate(p) ==
    /\ p.magic
    /\ p.major
    /\ check_dest_id(p.dest)
    /\ p.type \in {"DATA", "HEARTBEAT"}
    /\ p.len = HeaderSize + p.payload_len
    /\ validate_payload_by_type(p)

(* Dispatcher::dispatch_heartbeat_direct gets past its early returns. *)
HeartbeatTaken(p) ==
    /\ p.payload_len >= HeartbeatSize
    /\ p.crc \in {"good", "zero"}
=============================================================================
