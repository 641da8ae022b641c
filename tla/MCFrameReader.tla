--------------------------- MODULE MCFrameReader ---------------------------
(* Frames for FrameReader: every kind of data frame with whole and cut     *)
(* characters, and one or two frames of every other kind.  The lengths     *)
(* take all three forms of the header: up to ThresholdV1, up to            *)
(* ThresholdV2, and beyond.                                                *)
EXTENDS FrameReader

Frames(Fin, Rsv1, Opcode, Payload) ==
    [fin : Fin, rsv1 : Rsv1, rsv23 : {FALSE}, opcode : Opcode, mask : {isServer},
     key : {<<1, 0, 0, 1>>}, code : {NoCode}, payload : Payload]

Characters(n) == [i \in 1..n |-> IF i % 2 = 1 THEN Lead ELSE Trail]

(* A payload of the longest length that ReadMaxPayloadSize allows. *)
Long == Characters(ReadMaxPayloadSize)

DataFrames ==
    Frames(BOOLEAN, {FALSE}, {Continuation, Text}, {<<Lead>>, <<Trail>>, Characters(ThresholdV1 + 1)})
      \cup Frames(BOOLEAN, BOOLEAN, {Text, Binary}, {Characters(2)})
      \cup Frames({TRUE}, {FALSE}, {Binary}, {Characters(n) : n \in {ThresholdV1, 10, ThresholdV2}})
      \cup Frames({TRUE}, {TRUE}, {Text}, {<<Trail>>, <<Lead>>, Long})
      \cup Frames(BOOLEAN, {FALSE}, {Continuation, Text}, {Long})

(* Pings, whole and fragmented and too long, and a reserved opcode. *)
ControlFrames ==
    Frames(BOOLEAN, {FALSE}, {Ping}, {<<>>}) \cup Frames({TRUE}, {FALSE}, {Ping, 11}, {Characters(ThresholdV1 + 1)})

(* Codes at the edges of the ranges that emitClose tells apart. *)
Close(Code, Reason) ==
    [fin : {TRUE}, rsv1 : {FALSE}, rsv23 : {FALSE}, opcode : {CloseConnection}, mask : {isServer},
     key : {<<0, 1, 1, 1>>}, code : Code, payload : Reason]

CloseFrames ==
    Close({NoCode, OneByte, 0, 999, 1000, 1003, 1004, 1013, 1015, 1016, 2999, 3000, 4999, 5000, 65535}, {<<>>})
      \cup Close({1000, 1004}, {<<Trail>>, <<Lead, Trail>>})

Template ==
    [fin |-> TRUE, rsv1 |-> FALSE, rsv23 |-> FALSE, opcode |-> Text, mask |-> isServer,
     key |-> <<1, 1, 0, 0>>, code |-> NoCode, payload |-> <<Lead, Trail>>]

BadHeaders ==
    { [Template EXCEPT !.mask = ~isServer],
      [Template EXCEPT !.payload = Characters(ReadMaxPayloadSize + 1)],
      [Template EXCEPT !.rsv23 = TRUE] }

AllFrames == DataFrames \cup ControlFrames \cup CloseFrames \cup BadHeaders
=============================================================================
