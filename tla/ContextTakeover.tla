--------------------------- MODULE ContextTakeover ---------------------------
(***************************************************************************)
(* One direction of a connection that negotiated permessage-deflate: the   *)
(* sender's cpsWindow (writer.go, writefile.go, compress.go), the frames   *)
(* in flight, the receiver's dpsWindow (reader.go).  Writes are whole      *)
(* steps, since doWrite, doWriteFile and writeFrame hold Conn.mu.          *)
(*                                                                         *)
(* A frame that is compressed with a dictionary can only be decompressed   *)
(* with one that ends in it, so the two windows have to stay equal.        *)
(***************************************************************************)
EXTENDS SlideWindow

CONSTANTS Bytes,
          Payloads,            \* what the application sends
          PingPayloads,        \* what it sends in pings and pongs
          size,                \* slideWindow.size, equal at both ends
          Threshold,           \* PermessageDeflate.Threshold of the options
          BroadcastThreshold,  \* pd.Threshold of the socket a Broadcaster met first
          MaxWrites            \* bound: frames sent in a behaviour

ASSUME TakeoverAssumption ==
    /\ Payloads \subseteq Seq(Bytes)
    /\ PingPayloads \subseteq Seq(Bytes)
    /\ size \in Nat
    /\ Threshold \in Nat /\ BroadcastThreshold \in Nat /\ MaxWrites \in Nat

VARIABLES enabled,  \* slideWindow.enabled at both ends: takeover was negotiated
          cps,      \* the sender's cpsWindow.dict
          dps,      \* the receiver's dpsWindow.dict
          channel,  \* frames in flight
          stream,   \* history: all that was written to cpsWindow
          broken,   \* Decompress has failed, the connection is closed
          stray,    \* history: bytes of pings, pongs and uncompressed broadcasts
          writes    \* counter for the bound

vars == <<enabled, cps, dps, channel, stream, broken, stray, writes>>

(* before and after are history: cps around the write. *)
Frames == [compressed : BOOLEAN, dict : Seq(Bytes), payload : Seq(Bytes),
           before : Seq(Bytes), after : Seq(Bytes)]

(* slideWindow.Write; a window that is not enabled stays empty. *)
WriteWindow(dict, p) == IF enabled THEN Write(dict, p, size) ELSE dict

(* setThreshold. *)
PdThreshold_Kept == Threshold
PdThreshold == IF enabled THEN 0 ELSE Threshold

Init ==
    /\ enabled \in BOOLEAN
    /\ cps = <<>>
    /\ dps = <<>>
    /\ channel = <<>>
    /\ stream = <<>>
    /\ broken = FALSE
    /\ stray = 0
    /\ writes = 0

(* The frame goes out, then cpsWindow is updated, whatever the opcode and  *)
(* whether or not the frame is compressed.                                 *)
Send(compressed, dict, payload, window) ==
    /\ ~broken
    /\ writes < MaxWrites
    /\ writes' = writes + 1
    /\ channel' = Append(channel, [compressed |-> compressed, dict |-> dict, payload |-> payload,
                                   before |-> cps, after |-> window])
    /\ cps' = window
    /\ stream' = stream \o payload
    /\ UNCHANGED <<enabled, dps, broken>>

(* genFrame: compressed with the window as dictionary, or sent as it is. *)
SendData(p, window) ==
    /\ \/ Len(p) >= PdThreshold /\ Send(TRUE, cps, p, window)
       \/ Len(p) < PdThreshold /\ Send(FALSE, <<>>, p, window)
    /\ UNCHANGED stray

(* doWrite with a payload of type internal.Bytes. *)
WriteMessage(p) == SendData(p, WriteWindow(cps, p))

(* doWrite with internal.Buffers, whose WriteTo feeds cpsWindow slice by   *)
(* slice.                                                                  *)
Writev_FirstSliceOnly(p, r) == SendData(p \o r, WriteWindow(cps, p))
Writev(p, r) == SendData(p \o r, WriteWindow(WriteWindow(cps, p), r))

(* doWriteFile compresses any length; readerWrapper feeds cpsWindow read   *)
(* by read.                                                                *)
WriteFile(p, r) ==
    /\ Send(TRUE, cps, p \o r, WriteWindow(WriteWindow(cps, p), r))
    /\ UNCHANGED stray

(* WritePing, WritePong: control frames are never compressed. *)
WriteControl(p) ==
    /\ Send(FALSE, <<>>, p, WriteWindow(cps, p))
    /\ stray' = stray + Len(p)

(* Broadcaster: one frame for all sockets with compression, compressed     *)
(* without a dictionary and by the threshold of the socket that came first.*)
Broadcast(p) ==
    \/ /\ Len(p) >= BroadcastThreshold
       /\ Send(TRUE, <<>>, p, WriteWindow(cps, p))
       /\ UNCHANGED stray
    \/ /\ Len(p) < BroadcastThreshold
       /\ Send(FALSE, <<>>, p, WriteWindow(cps, p))
       /\ stray' = stray + Len(p)

(* flate: a dictionary that ends in the one of the compressor will do. *)
Decompresses(frame) ==
    /\ Len(frame.dict) <= Len(dps)
    /\ frame.dict = Drop(dps, Len(dps) - Len(frame.dict))

(* readMessage, emitMessage: only compressed messages reach dpsWindow. *)
Receive ==
    /\ ~broken
    /\ channel # <<>>
    /\ channel' = Tail(channel)
    /\ LET frame == Head(channel)
       IN  \/ ~frame.compressed /\ UNCHANGED <<dps, broken>>
           \/ /\ frame.compressed /\ Decompresses(frame)
              /\ dps' = WriteWindow(dps, frame.payload)
              /\ UNCHANGED broken
           \/ /\ frame.compressed /\ ~Decompresses(frame)
              /\ broken' = TRUE
              /\ UNCHANGED dps
    /\ UNCHANGED <<enabled, cps, stream, stray, writes>>

Next ==
    \/ \E p \in Payloads : WriteMessage(p) \/ Broadcast(p)
    \/ \E p, r \in Payloads : Writev(p, r) \/ WriteFile(p, r)
    \/ \E p \in PingPayloads : WriteControl(p)
    \/ Receive

Spec == Init /\ [][Next]_vars

-----------------------------------------------------------------------------

(* Types; a window never exceeds the negotiated size. *)
TypeOK ==
    /\ enabled \in BOOLEAN
    /\ cps \in Seq(Bytes) /\ Len(cps) <= size
    /\ dps \in Seq(Bytes) /\ Len(dps) <= size
    /\ channel \in Seq(Frames)
    /\ stream \in Seq(Bytes)
    /\ broken \in BOOLEAN
    /\ stray \in Nat
    /\ writes \in Nat

(* The in-place updates of slideWindow.Write, over any sequence of writes, *)
(* leave the last `size` bytes of all that was written.                    *)
WindowIsTail == enabled => cps = LastN(stream, size)

(* Every byte that reached cpsWindow was part of a message that the        *)
(* receiver writes to dpsWindow as well: no ping or pong had a payload, no *)
(* broadcast frame was made by a socket with another threshold.            *)
NothingStray == enabled => stray = 0

(* When nothing is in flight, both ends hold the same dictionary, however  *)
(* messages, slices, files and broadcasts were mixed.                      *)
DictInSync == NothingStray /\ channel = <<>> /\ ~broken => cps = dps

(* No message fails to decompress at the peer. *)
Decodable == NothingStray => ~broken

(* What doWrite's comment promises, proper maintenance of the dictionary:  *)
(* the two ends agree after control frames with a payload as well.         *)
DictMaintained == channel = <<>> /\ ~broken => cps = dps
==============================================================================
