----------------------------- MODULE FileWriter -----------------------------
(***************************************************************************)
(* WriteFile (writefile.go): a file of unknown length leaves as the frames *)
(* of one message.  Without compression splitReader sends what each Read   *)
(* returned; with it the compressor writes pieces to a flateWriter, which  *)
(* gathers them in segments, sends a segment once the next ones hold four  *)
(* bytes, and takes the compressor's end marker off the last one.  All of  *)
(* them, and a reader of another connection, share one pool of buffers.    *)
(*                                                                         *)
(* The k-th byte of the file, or of what the compressor makes of it, is k. *)
(* What the compressor writes, and in what pieces, is external.  The lock  *)
(* that doWriteFile holds and the closing of the connection after an error *)
(* are in Conn, the window that compression fills in ContextTakeover.      *)
(***************************************************************************)
EXTENDS BufferPool

CONSTANTS SegmentSize,          \* 128 KiB
          HeaderSize,           \* frameHeaderSize: 14
          WriteMaxPayloadSize,  \* the option
          ChunkSizes,           \* how much a Read of the file returns
          PieceSizes,           \* how much the compressor writes at a time
          ReadSizes,            \* how much the reader of another connection asks for
          MaxBytes              \* bound: the length of the file

ASSUME FileAssumption ==
    /\ HeaderSize \in Nat /\ WriteMaxPayloadSize \in Nat /\ MaxBytes \in Nat
    /\ SegmentSize \in (HeaderSize + 4)..Half
    /\ ChunkSizes \subseteq 0..SegmentSize
    /\ PieceSizes \subseteq 1..(SegmentSize - HeaderSize)
    /\ ReadSizes \subseteq 0..Half

VARIABLES heap,         \* BufferPool's
          compress,     \* pd.Enabled
          pc,           \* where doWriteFile is
          rbuf,         \* the buffer that the file is read into, 0: none
          buffers,      \* flateWriter.buffers
          index,        \* of the next frame
          frame,        \* the frame that cb has generated, 0: none
          eof,          \* readerWrapper has met io.EOF
          fin,          \* the fin bit of the frame under way
          data,         \* how many bytes the file, or its compressed form, has so far
          marker,       \* how many bytes of the end marker the compressor has written
          sent,         \* the frames on the wire
          result,       \* what doWriteFile has returned: none, ok or error
          other         \* [buf, size]: the buffer of another connection's reader

vars == <<heap, compress, pc, rbuf, buffers, index, frame, eof, fin, data, marker, sent, result, other>>

Marker == <<0, 0, -1, -1>>      \* 00 00 ff ff
Scribble == -9                  \* a byte of someone else

Held == {rbuf, frame, other.buf} \cup Range(buffers)

Contents(b) == heap.mem[b]

Bytes(from, to) == [i \in 1..(to - from + 1) |-> from + i - 1]

Init ==
    /\ heap = EmptyHeap
    /\ compress \in BOOLEAN
    /\ pc = "start" /\ rbuf = 0 /\ buffers = <<>> /\ index = 0 /\ frame = 0
    /\ eof = FALSE /\ fin = FALSE /\ data = 0 /\ marker = 0 /\ sent = <<>>
    /\ result = "none" /\ other = [buf |-> 0, size |-> 0]

-----------------------------------------------------------------------------
(* splitReader and readerWrapper.WriteTo start alike, with a buffer to     *)
(* read into, which both return when they leave their loop.                *)
Start ==
    /\ pc = "start" /\ pc' = "read"
    /\ \E g \in Get(heap, SegmentSize, Held) : rbuf' = g.buf /\ heap' = g.heap
    /\ UNCHANGED <<compress, fin, buffers, index, frame, eof, data, marker, sent, result, other>>

(* One Read of splitReader: n bytes, the last ones perhaps with io.EOF. *)
ReadChunk ==
    /\ pc = "read" /\ ~compress
    /\ \E n \in ChunkSizes, end \in BOOLEAN :
         /\ data + n <= MaxBytes
         /\ n = 0 /\ ~end => index = 0       \* bound: an empty Read only at first
         /\ heap' = [heap EXCEPT !.mem[rbuf] = Bytes(data + 1, data + n)]
         /\ data' = data + n /\ fin' = end
    /\ pc' = "gen"
    /\ UNCHANGED <<compress, rbuf, buffers, index, frame, eof, marker, sent, result, other>>

(* One Read of readerWrapper: the compressor takes the bytes and will      *)
(* write what it makes of them when it likes.                              *)
ReadForFlate ==
    /\ pc = "read" /\ compress
    /\ eof' \in BOOLEAN
    /\ pc' = "flate"
    /\ UNCHANGED <<heap, compress, fin, rbuf, buffers, index, frame, data, marker, sent, result, other>>

(* Read fails: both loops end, and the message with them, unfinished. *)
ReadFails ==
    /\ pc = "read"
    /\ heap' = Put(heap, rbuf) /\ rbuf' = 0
    /\ pc' = "done" /\ result' = "error"
    /\ UNCHANGED <<compress, fin, buffers, index, frame, eof, data, marker, sent, other>>

-----------------------------------------------------------------------------
Joined(h, bs) == FlattenSeq([i \in 1..Len(bs) |-> h.mem[bs[i]]])

(* flateWriter.shouldCall, of the buffers as they are after write. *)
ShouldCall_AnyByte(h, bs) ==
    Len(bs) >= 2 /\ Len(Joined(h, Tail(bs))) >= 1

ShouldCall_SecondBuffer(h, bs) ==
    Len(bs) >= 2 /\ Len(h.mem[bs[2]]) >= 4

ShouldCall(h, bs) ==
    Len(bs) >= 2 /\ Len(Joined(h, Tail(bs))) >= 4

(* flateWriter.Write(p) up to the callback: p goes to the last buffer, or  *)
(* to a new one if the last has no room for it and a header.               *)
FlateWrite(p) ==
    LET size == Max({SegmentSize, Len(p)})
        first == IF buffers = <<>>
                 THEN {[heap |-> g.heap, bs |-> <<g.buf>>] : g \in Get(heap, size, Held)}
                 ELSE {[heap |-> heap, bs |-> buffers]}
    IN  \E f \in first :
          LET tail == Last(f.bs)
              more == IF Len(f.heap.mem[tail]) + Len(p) + HeaderSize > f.heap.cap[tail]
                      THEN {[heap |-> g.heap, bs |-> Append(f.bs, g.buf)] :
                              g \in Get(f.heap, size, Held \cup {tail})}
                      ELSE {f}
          IN  \E m \in more :
                LET h == Write(m.heap, Last(m.bs), p)
                IN  /\ heap' = h /\ buffers' = m.bs /\ fin' = FALSE
                    /\ pc' = IF ShouldCall(h, m.bs) THEN "gen" ELSE "flate"

(* The compressor writes a piece of the data, while it has some, and after *)
(* the end of the file a piece of the marker.                              *)
FlatePiece ==
    /\ pc = "flate" /\ marker = 0
    /\ \E n \in PieceSizes :
         /\ data + n <= MaxBytes
         /\ FlateWrite(Bytes(data + 1, data + n))
         /\ data' = data + n
    /\ UNCHANGED <<compress, rbuf, index, frame, eof, marker, sent, result, other>>

FlateMarker ==
    /\ pc = "flate" /\ eof /\ rbuf = 0 /\ marker < 4
    /\ \E n \in 1..(4 - marker) :
         /\ FlateWrite(SubSeq(Marker, marker + 1, marker + n))
         /\ marker' = marker + n
    /\ UNCHANGED <<compress, rbuf, index, frame, eof, data, sent, result, other>>

(* The compressor asks for more, or WriteTo has read all and returns. *)
FlateReturns ==
    /\ pc = "flate" /\ rbuf # 0
    /\ IF eof THEN heap' = Put(heap, rbuf) /\ rbuf' = 0 /\ pc' = pc
              ELSE pc' = "read" /\ UNCHANGED <<heap, rbuf>>
    /\ UNCHANGED <<compress, fin, buffers, index, frame, eof, data, marker, sent, result, other>>

(* flateWriter.Flush up to the callback: join the buffers, drop the marker. *)
Flush_PutsAll ==
    /\ pc = "flate" /\ marker = 4
    /\ LET all  == Joined(heap, buffers)
           n    == Len(all)
           kept == IF n >= 4 /\ SubSeq(all, n - 3, n) = Marker THEN SubSeq(all, 1, n - 4) ELSE all
           h    == Write(heap, buffers[1], SubSeq(all, Len(Contents(buffers[1])) + 1, n))
       IN  heap' = [FoldLeft(Put, h, buffers) EXCEPT !.mem[buffers[1]] = kept]
    /\ buffers' = <<buffers[1]>>
    /\ fin' = TRUE /\ pc' = "gen"
    /\ UNCHANGED <<compress, rbuf, index, frame, eof, data, marker, sent, result, other>>

Flush ==
    /\ pc = "flate" /\ marker = 4
    /\ LET all  == Joined(heap, buffers)
           n    == Len(all)
           kept == IF n >= 4 /\ SubSeq(all, n - 3, n) = Marker THEN SubSeq(all, 1, n - 4) ELSE all
           h    == Write(heap, buffers[1], SubSeq(all, Len(Contents(buffers[1])) + 1, n))
       IN  heap' = [FoldLeft(Put, h, Tail(buffers)) EXCEPT !.mem[buffers[1]] = kept]
    /\ buffers' = <<buffers[1]>>
    /\ fin' = TRUE /\ pc' = "gen"
    /\ UNCHANGED <<compress, rbuf, index, frame, eof, data, marker, sent, result, other>>

-----------------------------------------------------------------------------
(* What follows cb, with the heap it leaves: flateWriter gives its first   *)
(* buffer back whatever cb returned; an error ends the loop that reads.    *)
Return(h, ok) ==
    LET h1 == IF compress THEN Put(h, buffers[1]) ELSE h
        end == ~ok \/ fin
    IN  /\ heap' = IF end /\ rbuf # 0 THEN Put(h1, rbuf) ELSE h1
        /\ rbuf' = IF end THEN 0 ELSE rbuf
        /\ buffers' = IF compress THEN Tail(buffers) ELSE buffers
        /\ index' = index + 1
        /\ pc' = IF end THEN "done" ELSE IF compress THEN "flate" ELSE "read"
        /\ result' = IF ~ok THEN "error" ELSE IF fin THEN "ok" ELSE result
        /\ frame' = 0

(* cb: generate the frame, in a buffer of its own. *)
Source == IF compress THEN buffers[1] ELSE rbuf

GenFrame ==
    /\ pc = "gen"
    /\ IF Len(Contents(Source)) > WriteMaxPayloadSize
       THEN Return(heap, FALSE)
       ELSE /\ \E g \in Get(heap, Len(Contents(Source)) + HeaderSize, Held) :
                 /\ frame' = g.buf
                 /\ heap' = [g.heap EXCEPT !.mem[g.buf] = Contents(Source)]
            /\ pc' = "send"
            /\ UNCHANGED <<rbuf, buffers, index, result>>
    /\ UNCHANGED <<compress, eof, fin, data, marker, sent, other>>

(* ... and write it, unless isClosed: another goroutine may have closed    *)
(* the connection by now (that frame is left to the garbage collector).    *)
FrameOf_RSV1(i) ==
    [opcode |-> IF i > 0 THEN "continuation" ELSE "data", rsv1 |-> compress,
     fin |-> fin, payload |-> Contents(frame)]

FrameOf(i) ==
    [opcode |-> IF i > 0 THEN "continuation" ELSE "data", rsv1 |-> compress /\ i = 0,
     fin |-> fin, payload |-> Contents(frame)]

SendFrame ==
    /\ pc = "send"
    /\ \/ Return(heap, FALSE) /\ UNCHANGED sent                                         \* isClosed
       \/ Return(Put(heap, frame), TRUE) /\ sent' = Append(sent, FrameOf(index))
       \/ Return(Put(heap, frame), FALSE) /\ UNCHANGED sent                             \* WriteN fails
    /\ UNCHANGED <<compress, eof, fin, data, marker, other>>

(* The reader of another connection gets a buffer, fills it with its own   *)
(* bytes (readMessage), and puts it back when the message is closed.       *)
OtherReads ==
    /\ other.buf = 0
    /\ \E n \in ReadSizes : \E g \in Get(heap, n, Held) :
         /\ other' = [buf |-> g.buf, size |-> n]
         /\ heap' = [g.heap EXCEPT !.mem[g.buf] = <<Scribble>>]
    /\ UNCHANGED <<compress, pc, rbuf, buffers, index, frame, eof, fin, data, marker, sent, result>>

OtherCloses ==
    /\ other.buf # 0
    /\ heap' = Put(heap, other.buf) /\ other' = [buf |-> 0, size |-> 0]
    /\ UNCHANGED <<compress, pc, rbuf, buffers, index, frame, eof, fin, data, marker, sent, result>>

Next ==
    \/ Start \/ ReadChunk \/ ReadForFlate \/ ReadFails
    \/ FlatePiece \/ FlateMarker \/ FlateReturns \/ Flush
    \/ GenFrame \/ SendFrame
    \/ OtherReads \/ OtherCloses

Spec == Init /\ [][Next]_vars

-----------------------------------------------------------------------------
(* The peer receives the file: every frame carries on where the frames     *)
(* before it ended, with the data in order, without a byte of the end      *)
(* marker or of someone else's buffer; and all of the data has been sent   *)
(* once WriteFile has returned nil.  The marker may lie across two         *)
(* segments; splitReader's and flateWriter's buffers go through the pool   *)
(* while frames are still made from them.                                  *)
SentBefore(i) == UNION {Range(sent[j].payload) : j \in 1..(i - 1)}

FileIntact ==
    /\ \A i \in 1..Len(sent) : \E from \in 0..data :
         /\ SentBefore(i) = 1..from
         /\ sent[i].payload = Bytes(from + 1, from + Len(sent[i].payload))
    /\ SentBefore(Len(sent) + 1) \subseteq 1..data
    /\ result = "ok" => SentBefore(Len(sent) + 1) = 1..data

(* The frames are one message (RFC 7692: only the first has RSV1): a data  *)
(* frame, then continuations, the last and only the last with fin; and     *)
(* WriteFile returns nil only for a message that is complete.              *)
OneMessage ==
    /\ \A i \in 1..Len(sent) :
         /\ sent[i].opcode = (IF i = 1 THEN "data" ELSE "continuation")
         /\ sent[i].rsv1 = (compress /\ i = 1)
         /\ sent[i].fin => i = Len(sent) /\ result = "ok"
    /\ result = "ok" => sent # <<>> /\ Last(sent).fin

(* Nobody shares a buffer: one that the pool holds is held there once and  *)
(* by no one else, and the holders hold different ones.                    *)
Exclusive ==
    /\ \A b \in Buf : heap.idle[b] <= 1 /\ (heap.idle[b] = 1 => b \notin Held)
    /\ LET held == <<rbuf, frame, other.buf>> \o buffers
       IN  \A i, j \in DOMAIN held : i # j /\ held[i] # 0 => held[i] # held[j]

(* A reader has room for the message it announced: Get returns at least    *)
(* the bytes asked for (readMessage slices the buffer to that length).     *)
RoomToRead == other.buf # 0 => heap.cap[other.buf] >= other.size

(* WriteFile keeps at most two segments in memory between two pieces, and  *)
(* sends the others: the memory it needs does not grow with the file.      *)
TwoSegments == pc = "flate" => Len(buffers) <= 2
=============================================================================
