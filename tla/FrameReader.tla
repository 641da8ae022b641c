---------------------------- MODULE FrameReader ----------------------------
(***************************************************************************)
(* Conn.readMessage and what it calls (reader.go; emitError and emitClose  *)
(* of conn.go): the checks on a frame header, the reassembly of fragmented *)
(* messages, the decompression and UTF-8 checks, the answer to a close     *)
(* frame.  ReadLoop calls it until it returns an error, so one frame is    *)
(* one step.                                                               *)
(*                                                                         *)
(* The peer sends frames; the reader sees their bytes, as genFrame of the  *)
(* peer lays them out, and knows of a frame what Parse and the getters of  *)
(* c.fh tell it (FrameHeader).                                             *)
(*                                                                         *)
(* Payloads are sequences over two bytes, the lead and the trail byte of a *)
(* two-byte UTF-8 character: a text is valid when it is made of whole      *)
(* characters, which a fragment need not be.                               *)
(***************************************************************************)
EXTENDS FrameHeader, SequencesExt

CONSTANTS isServer, Enabled,        \* c.isServer, c.pd.Enabled
          CheckUtf8Enabled,         \* c.config.CheckUtf8Enabled
          ReadMaxPayloadSize,       \* c.config.ReadMaxPayloadSize
          Inputs,                   \* the frames the peer may send
          MaxFrames                 \* bound: frames read in a behaviour

Lead  == 0
Trail == 1

(* A close frame's payload is empty, or one byte, or a code of two bytes   *)
(* and a reason; any other frame has no code, its payload is f.payload.    *)
NoCode   == -2
OneByte  == -1

(* Status codes (internal/error.go) that readMessage returns. *)
CloseNormalClosure   == 1000
CloseProtocolError   == 1002
CloseUnsupportedData == 1007
CloseMessageTooLarge == 1009
CloseInternalErr     == 1011

Continuation == 0
Text == 1
Binary == 2
CloseConnection == 8
Ping == 9
Pong == 10

ASSUME ReaderAssumption ==
    /\ isServer \in BOOLEAN /\ Enabled \in BOOLEAN /\ CheckUtf8Enabled \in BOOLEAN
    /\ ReadMaxPayloadSize \in Nat /\ MaxFrames \in Nat
    /\ Inputs \subseteq [fin : BOOLEAN, rsv1 : BOOLEAN, rsv23 : BOOLEAN, opcode : 0..15,
                         mask : BOOLEAN, key : Keys, code : NoCode..65535, payload : Seq({Lead, Trail})]
    /\ \A f \in Inputs : f.opcode # CloseConnection => f.code = NoCode
    /\ \A f \in Inputs : IntLength(Len(f.payload) + 2)   \* len is an int

VARIABLES fh,                 \* c.fh: the last header, overwritten by the next
          unread,             \* history: bytes of the last frame that were left unread
          continuationFrame,  \* c.continuationFrame
          status,             \* Reading, or the code sent when the loop was left, 0 for an empty body
          messages,           \* messages given to OnMessage
          controls,           \* number of OnPing and OnPong calls
          accepted,           \* history: the data frames sent that were read without an error
          frames              \* counter for the bound

vars == <<fh, unread, continuationFrame, status, messages, controls, accepted, frames>>

Reading == -1

NoFrame == [initialized |-> FALSE, compressed |-> FALSE, opcode |-> 0, buffer |-> <<>>]

Init ==
    /\ fh = ZeroHeader
    /\ unread = 0
    /\ continuationFrame = NoFrame
    /\ status = Reading
    /\ messages = <<>>
    /\ controls = 0
    /\ accepted = <<>>
    /\ frames = 0

-----------------------------------------------------------------------------

isDataFrame(opcode) == opcode <= Binary

(* utf8.Valid *)
ValidUtf8(s) ==
    /\ Len(s) % 2 = 0
    /\ \A i \in 1..Len(s) : s[i] = IF i % 2 = 1 THEN Lead ELSE Trail

CheckEncoding(opcode, s) ==
    CheckUtf8Enabled /\ opcode \in {Text, CloseConnection} => ValidUtf8(s)

(* deflater.Decompress: flate rejects some data, here what begins with a   *)
(* trail byte, and expands the rest, here to twice its length; limitReader *)
(* stops at the limit.                                                     *)
InflateFails_NoLimit(s) == s # <<>> /\ s[1] = Trail
InflateFails(s) == (s # <<>> /\ s[1] = Trail) \/ 2 * Len(s) > ReadMaxPayloadSize
Inflate(s) == s \o s

(* The code emitError puts on the wire when readMessage fails. *)
Leave(code) ==
    /\ status' = code
    /\ UNCHANGED <<messages, controls, accepted>>

(* emitMessage: decompress, check the encoding of the whole message, then  *)
(* OnMessage.                                                              *)
EmitMessage_CheckedRaw(d, opcode, compressed, data) ==
    LET body == IF compressed THEN Inflate(data) ELSE data
    IN  \/ compressed /\ InflateFails(data) /\ Leave(CloseInternalErr)
        \/ /\ ~(compressed /\ InflateFails(data))
           /\ ~CheckEncoding(opcode, d.payload)
           /\ Leave(CloseUnsupportedData)
        \/ /\ ~(compressed /\ InflateFails(data))
           /\ CheckEncoding(opcode, d.payload)
           /\ messages' = Append(messages, [opcode |-> opcode, data |-> body])
           /\ accepted' = Append(accepted, d.sent)
           /\ UNCHANGED <<status, controls>>

EmitMessage(d, opcode, compressed, data) ==
    LET body == IF compressed THEN Inflate(data) ELSE data
    IN  \/ compressed /\ InflateFails(data) /\ Leave(CloseInternalErr)
        \/ /\ ~(compressed /\ InflateFails(data))
           /\ ~CheckEncoding(opcode, body)
           /\ Leave(CloseUnsupportedData)
        \/ /\ ~(compressed /\ InflateFails(data))
           /\ CheckEncoding(opcode, body)
           /\ messages' = Append(messages, [opcode |-> opcode, data |-> body])
           /\ accepted' = Append(accepted, d.sent)
           /\ UNCHANGED <<status, controls>>

(* The frame on the wire.  A close frame's code is its first two bytes,    *)
(* carried beside them; the bits RSV2 and RSV3 are never set by gws.       *)
Content(f) ==
    (CASE f.code = NoCode -> <<>> [] f.code = OneByte -> <<0>> [] OTHER -> <<0, 0>>) \o f.payload

Wire(f) ==
    LET frame == GenFrame(~f.mask, f.fin, f.rsv1, f.opcode, Content(f), f.key)
    IN  IF f.rsv23 THEN [frame EXCEPT ![1] = @ + 32] ELSE frame

(* What readMessage takes a frame for: Parse into c.fh, then as many bytes *)
(* as the header says, unmasked with the key in c.fh.                      *)
DecodeBytes(f, bytes, p) ==
    LET end  == p.read + p.length
        body == SubSeq(bytes, p.read + 1, IF end <= Len(bytes) THEN end ELSE Len(bytes))
        data == IF GetMask(p.header) THEN MaskXOR(body, GetMaskKey(p.header)) ELSE body
    IN  [sent |-> f, header |-> p.header, fin |-> GetFIN(p.header), rsv1 |-> GetRSV1(p.header),
         rsv23 |-> GetRSV2(p.header) \/ GetRSV3(p.header), opcode |-> GetOpcode(p.header),
         mask |-> GetMask(p.header), lengthCode |-> GetLengthCode(p.header), length |-> p.length,
         unread |-> Len(bytes) - end,
         code |-> f.code, payload |-> IF f.code >= 0 THEN SubSeq(data, 3, Len(data)) ELSE data]

Decode(f) == DecodeBytes(f, Wire(f), Parse(fh, Wire(f)))

(* The checks on the header in the order of readMessage. *)
HeaderError(d) ==
    IF d.length > ReadMaxPayloadSize THEN CloseMessageTooLarge
    ELSE IF ~Enabled /\ (d.rsv1 \/ d.rsv23) THEN CloseProtocolError
    ELSE IF d.mask # isServer THEN CloseProtocolError
    ELSE 0

(* Read the header of a frame, decoded as d; go on if it is good. *)
ReadHeader(d) ==
    /\ frames' = frames + 1
    /\ fh' = d.header

Accepts(d) ==
    /\ ReadHeader(d)
    /\ unread' = d.unread
    /\ HeaderError(d) = 0

ReadBadHeader(d) ==
    /\ ReadHeader(d)
    /\ HeaderError(d) # 0
    /\ Leave(HeaderError(d))
    /\ UNCHANGED <<unread, continuationFrame>>

(* readControl: no fragments, at most ThresholdV1 bytes, and no opcode but *)
(* the three of RFC 6455.                                                  *)
ControlOK(d) == d.fin /\ d.lengthCode <= ThresholdV1

ReadControl(d) ==
    /\ Accepts(d)
    /\ ~isDataFrame(d.opcode)
    /\ d.opcode # CloseConnection
    /\ \/ /\ ControlOK(d) /\ d.opcode \in {Ping, Pong}
          /\ controls' = controls + 1
          /\ UNCHANGED <<status, messages, accepted>>
       \/ ~(ControlOK(d) /\ d.opcode \in {Ping, Pong}) /\ Leave(CloseProtocolError)
    /\ UNCHANGED continuationFrame

(* emitClose: the code answered to a close frame, 0 for an empty answer.   *)
Reserved == {1004, 1005, 1006, 1014, 1015}

ResponseCode_RangeOnly(d) ==
    CASE d.code = NoCode  -> 0
      [] d.code = OneByte -> CloseProtocolError
      [] d.code >= 0 /\ ~CheckEncoding(CloseConnection, d.payload) -> CloseUnsupportedData
      [] d.code < 1000 \/ d.code >= 5000 -> CloseProtocolError
      [] OTHER -> d.code

ResponseCode(d) ==
    CASE d.code = NoCode  -> 0
      [] d.code = OneByte -> CloseProtocolError
      [] d.code >= 0 /\ ~CheckEncoding(CloseConnection, d.payload) -> CloseUnsupportedData
      [] d.code >= 0 /\ CheckEncoding(CloseConnection, d.payload) ->
            IF d.code \in Reserved \/ d.code < 1000 \/ d.code >= 5000 \/ (d.code >= 1016 /\ d.code < 3000)
            THEN CloseProtocolError
            ELSE IF d.code < 1016 THEN CloseNormalClosure ELSE d.code

ReadClose(d) ==
    /\ Accepts(d)
    /\ d.opcode = CloseConnection
    /\ Leave(IF ControlOK(d) THEN ResponseCode(d) ELSE CloseProtocolError)
    /\ UNCHANGED continuationFrame

(* A message in one frame. *)
ReadWhole(d) ==
    /\ Accepts(d)
    /\ d.fin /\ d.opcode \in {Text, Binary}
    /\ \/ continuationFrame.initialized /\ Leave(CloseProtocolError)
       \/ ~continuationFrame.initialized /\ EmitMessage(d, d.opcode, Enabled /\ d.rsv1, d.payload)
    /\ UNCHANGED continuationFrame

(* A fragment: the first sets up continuationFrame, the last resets it     *)
(* before the message is emitted.                                          *)
Extend(cf, d) == [cf EXCEPT !.buffer = @ \o d.payload]

ReadFirst(d) ==
    /\ Accepts(d)
    /\ ~d.fin /\ d.opcode \in {Text, Binary}
    /\ \/ continuationFrame.initialized /\ Leave(CloseProtocolError) /\ UNCHANGED continuationFrame
       \/ /\ ~continuationFrame.initialized
          /\ continuationFrame' = Extend([initialized |-> TRUE, compressed |-> Enabled /\ d.rsv1,
                                          opcode |-> d.opcode, buffer |-> <<>>], d)
          /\ accepted' = Append(accepted, d.sent)
          /\ UNCHANGED <<status, messages, controls>>

ReadContinuation_NoReset(d) ==
    /\ Accepts(d)
    /\ d.opcode = Continuation
    /\ LET cf == Extend(continuationFrame, d)
       IN  \/ /\ ~cf.initialized \/ Len(cf.buffer) > ReadMaxPayloadSize
              /\ Leave(IF ~cf.initialized THEN CloseProtocolError ELSE CloseMessageTooLarge)
              /\ UNCHANGED continuationFrame
           \/ /\ cf.initialized /\ Len(cf.buffer) <= ReadMaxPayloadSize
              /\ IF d.fin
                 THEN EmitMessage(d, cf.opcode, cf.compressed, cf.buffer) /\ UNCHANGED continuationFrame
                 ELSE /\ continuationFrame' = cf
                      /\ accepted' = Append(accepted, d.sent)
                      /\ UNCHANGED <<status, messages, controls>>

ReadContinuation(d) ==
    /\ Accepts(d)
    /\ d.opcode = Continuation
    /\ LET cf == Extend(continuationFrame, d)
       IN  \/ ~cf.initialized /\ Leave(CloseProtocolError) /\ UNCHANGED continuationFrame
           \/ /\ cf.initialized /\ Len(cf.buffer) > ReadMaxPayloadSize
              /\ Leave(CloseMessageTooLarge)
              /\ continuationFrame' = cf
           \/ /\ cf.initialized /\ Len(cf.buffer) <= ReadMaxPayloadSize /\ ~d.fin
              /\ continuationFrame' = cf
              /\ accepted' = Append(accepted, d.sent)
              /\ UNCHANGED <<status, messages, controls>>
           \/ /\ cf.initialized /\ Len(cf.buffer) <= ReadMaxPayloadSize /\ d.fin
              /\ continuationFrame' = NoFrame
              /\ EmitMessage(d, cf.opcode, cf.compressed, cf.buffer)

(* ReadN fails: the error of the network is answered with 1000. *)
ReadIOError ==
    /\ status = Reading
    /\ Leave(CloseNormalClosure)
    /\ UNCHANGED <<fh, unread, continuationFrame, frames>>

(* ReadLoop calls readMessage as long as it has returned no error. *)
Next ==
    \/ /\ status = Reading /\ frames < MaxFrames
       /\ \E f \in Inputs : \E d \in {Decode(f)} :
             \/ ReadBadHeader(d) \/ ReadControl(d) \/ ReadClose(d)
             \/ ReadWhole(d) \/ ReadFirst(d) \/ ReadContinuation(d)
    \/ ReadIOError

Spec == Init /\ [][Next]_vars

-----------------------------------------------------------------------------
(* The messages the data frames s make up, by RFC 6455 5.4: one for every  *)
(* frame with FIN, its payload those of the frames since the last FIN, its *)
(* opcode and its compression those of the first of them.                  *)
LastFin(s, k) == SelectLastInSubSeq(s, 1, k, LAMBDA f : f.fin)
Payloads(s, i, j) == FlattenSeq([k \in 1..(j - i + 1) |-> s[i + k - 1].payload])

MessageEndingAt(s, k) ==
    LET first == s[LastFin(s, k - 1) + 1]
        raw   == Payloads(s, LastFin(s, k - 1) + 1, k)
    IN  [opcode |-> first.opcode, data |-> IF Enabled /\ first.rsv1 THEN Inflate(raw) ELSE raw]

Fins(s, k) == Cardinality({j \in 1..k : s[j].fin})

(* Whatever control frames come between them, the data frames sent and     *)
(* read without an error, whose bytes went through genFrame, masking and   *)
(* Parse, are delivered to OnMessage as exactly the messages they make     *)
(* up, in order, and the rest of an unfinished message is in               *)
(* continuationFrame.                                                      *)
Reassembly ==
    LET n == Len(accepted)
    IN  /\ Len(messages) = Fins(accepted, n)
        /\ \A k \in 1..n : accepted[k].fin =>
              messages[Fins(accepted, k)] = MessageEndingAt(accepted, k)
        /\ status = Reading =>
              continuationFrame.buffer = Payloads(accepted, LastFin(accepted, n) + 1, n)

(* A text given to OnMessage is valid UTF-8 as a whole, however it was     *)
(* fragmented and compressed, when CheckUtf8Enabled is set (emitMessage).  *)
TextIsValid ==
    CheckUtf8Enabled => \A m \in ToSet(messages) : m.opcode = Text => ValidUtf8(m.data)

(* ReadMaxPayloadSize bounds what OnMessage is given and what is kept for  *)
(* an unfinished message: neither many small fragments nor a small frame   *)
(* that expands gets past it.                                              *)
WithinLimit ==
    /\ \A m \in ToSet(messages) : Len(m.data) <= ReadMaxPayloadSize
    /\ status = Reading => Len(continuationFrame.buffer) <= ReadMaxPayloadSize

(* The code answered to the peer is one that RFC 6455 7.4 lets an endpoint *)
(* put in a close frame, whatever the peer's close frame carried.          *)
Sendable(code) ==
    \/ code = 0
    \/ code >= 1000 /\ code < 1016 /\ code \notin Reserved
    \/ code >= 3000 /\ code < 5000

CloseCodeSendable == status # Reading => Sendable(status)

(* The reader stays on frame boundaries: as long as it goes on, it has     *)
(* consumed each frame to its last byte, whichever of the three forms its  *)
(* length took and whatever earlier frames left in c.fh (Parse,            *)
(* SetLength).                                                             *)
InSync == status = Reading => unread = 0
=============================================================================
