------------------------------- MODULE MCFace -------------------------------
(***************************************************************************)
(* The receive and the processing thread of one face with five kinds of    *)
(* datagrams: accepted data, a heartbeat, data marked urgent, data from a  *)
(* source that the face filters out, and a heartbeat with a wrong CRC.     *)
(***************************************************************************)
EXTENDS Face

Plain == [len |-> 4, magic |-> TRUE, major |-> TRUE, source |-> 17,
          dest |-> 1, type |-> "DATA", payload_len |-> 2, crc |-> "bad",
          cs6 |-> FALSE]

Beat == [Plain EXCEPT !.type = "HEARTBEAT", !.crc = "good"]

MCDatagrams ==
    { Plain, Beat,
      [Plain EXCEPT !.cs6 = TRUE],
      [Plain EXCEPT !.source = 18],
      [Beat EXCEPT !.crc = "bad"] }
=============================================================================
