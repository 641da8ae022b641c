-------------------------------- MODULE Conn --------------------------------
(***************************************************************************)
(* One gws connection (conn.go, writer.go, writefile.go, reader.go): the   *)
(* goroutines that write on it, the one that runs ReadLoop, and the        *)
(* OnMessage goroutines of the parallel mode.  They share c.mu, the flag   *)
(* c.closed (a compare-and-swap), c.ev (an atomic.Value) and the network   *)
(* connection.                                                             *)
(*                                                                         *)
(* A step is what runs between two points where another goroutine can be   *)
(* observed: a mutex acquisition with the test that follows it, a          *)
(* compare-and-swap, a store of c.ev, a call of the network.  Payloads are *)
(* dropped; a frame is the part it plays in its message.                   *)
(***************************************************************************)
EXTENDS Integers, Sequences, FiniteSets

CONSTANTS Callers,      \* goroutines of the application
          Worker,       \* the goroutine that runs the jobs of writeQueue
          ReadLoop,     \* the goroutine that runs Conn.ReadLoop
          Handlers,     \* readQueue's slots; {} when ParallelEnabled is false
          Nobody,       \* mu is free
          NoErr,        \* c.ev holds nothing
          Ops,          \* the operations the application uses
          Reasons,      \* lengths of the code and text that a close frame may be given
          WriteMaxPayloadSize,  \* the option; genFrame rejects what is longer
          MaxCalls,     \* bound: operations called in a behaviour
          MaxReads,     \* bound: frames the peer sends
          MaxSegments   \* bound: segments WriteFile cuts a file into

Goroutines == Callers \cup {Worker, ReadLoop} \cup Handlers

AllOps == {"message", "file", "broadcast", "close", "deadline"}

(* Why an operation or readMessage failed. *)
Errors == {"ErrConnClosed", "invalid", "io", "StatusCode", "CloseError"}

ThresholdV1 == 125      \* what writeClose keeps of a reason

(* What c.ev can hold (atomic.Value panics on a nil), with the length of   *)
(* the reason that its close frame carries.                                *)
Stored == [by : Goroutines, error : Errors, reason : 0..ThresholdV1]

ASSUME ConnAssumption ==
    /\ Worker \notin Callers \cup Handlers
    /\ ReadLoop \notin Callers \cup Handlers \cup {Worker}
    /\ Callers \cap Handlers = {}
    /\ Nobody \notin Goroutines
    /\ NoErr \notin Stored
    /\ Ops \subseteq AllOps
    /\ Reasons \subseteq Nat /\ WriteMaxPayloadSize \in Nat \ {0}
    /\ MaxCalls \in Nat /\ MaxReads \in Nat /\ MaxSegments \in Nat

VARIABLES closed,       \* c.closed
          ev,           \* c.ev: NoErr, or the error, who stored it and its reason's length
          mu,           \* c.mu: its holder, or Nobody
          netClosed,    \* c.conn.Close has been called
          wire,         \* frames written to c.conn, in order
          failed,       \* history: a write failed on an open network connection
          pc,           \* where each goroutine is in the library's code
          err,          \* the error each goroutine carries to emitError
          segment,      \* index of the next segment of the file being written, or 0
          rl,           \* where ReadLoop is
          active,       \* the parallel OnMessage goroutines that are running
          seen,         \* the error ReadLoop loaded for OnClose
          reclaimed,    \* cpsWindow.dict is back in cswPool
          calls, reads  \* counters for the bounds

lifecycle == <<closed, ev, netClosed>>
output    == <<wire, failed>>
reader    == <<rl, active, seen, reclaimed, reads>>
vars      == <<closed, ev, mu, netClosed, wire, failed, pc, err, segment, rl,
               active, seen, reclaimed, calls, reads>>

(* "data" is a message of one frame, "first", "cont" and "last" the frames *)
(* of a segmented one, "bcast" a Broadcaster's frame, "cut" one that a     *)
(* failing write left incomplete.                                          *)
Frames == {"data", "first", "cont", "last", "bcast", "close", "cut"}

InMutex == {"write", "segment", "segmentWrite", "lastWrite", "bcastWrite", "closeWrite"}
Closing == {"store", "closeLock", "closeWrite", "netClose"}
Locations == {"idle", "lock", "fileLock", "check", "bcastLock", "emit"}
               \cup InMutex \cup Closing

ReaderLocations == {"callback", "read", "dispatch", "load", "onClose", "done"}

Init ==
    /\ closed = FALSE
    /\ ev = NoErr
    /\ mu = Nobody
    /\ netClosed = FALSE
    /\ wire = <<>>
    /\ failed = FALSE
    /\ pc = [g \in Goroutines |-> "idle"]
    /\ err = [g \in Goroutines |-> "nil"]
    /\ segment = 0
    /\ rl = "callback"                 \* in OnOpen
    /\ active = {}
    /\ seen = NoErr
    /\ reclaimed = FALSE
    /\ calls = 0
    /\ reads = 0

-----------------------------------------------------------------------------
(***************************************************************************)
(* Calls.  Code outside the library runs in the callers, in the callbacks  *)
(* of ReadLoop and in the parallel OnMessage goroutines.                   *)
(***************************************************************************)

InUserCode(g) ==
    /\ pc[g] = "idle"
    /\ g = ReadLoop => rl \in {"callback", "onClose"}
    /\ g \in Handlers => g \in active

Goto(g, location) == pc' = [pc EXCEPT ![g] = location]

(* The goroutine leaves with an error for emitError. *)
FailWith(g, e) == Goto(g, "emit") /\ err' = [err EXCEPT ![g] = e]

(* ... and the error is no longer needed. *)
Forget(g) == err' = [err EXCEPT ![g] = "nil"]

StartCall(g, op) ==
    /\ op \in Ops
    /\ InUserCode(g)
    /\ calls < MaxCalls
    /\ calls' = calls + 1
    /\ UNCHANGED <<mu, output, segment, reader>>

(* WriteMessage, Writev, WriteString, WritePing, WritePong; run by Worker, *)
(* WriteAsync and WritevAsync.                                             *)
CallWriteMessage(g) ==
    /\ StartCall(g, "message")
    /\ Goto(g, "lock")
    /\ UNCHANGED <<lifecycle, err>>

CallWriteFile(g) ==
    /\ StartCall(g, "file")
    /\ Goto(g, "fileLock")
    /\ UNCHANGED <<lifecycle, err>>

(* The job Broadcast pushes; its frame exists already. *)
CallBroadcastJob ==
    /\ StartCall(Worker, "broadcast")
    /\ Goto(Worker, "check")
    /\ UNCHANGED <<lifecycle, err>>

CallWriteClose_NoCAS(g) ==
    /\ StartCall(g, "close")
    /\ closed' = TRUE
    /\ Goto(g, "store")
    /\ err' = [err EXCEPT ![g] = "StatusCode"]
    /\ UNCHANGED <<ev, netClosed>>

(* WriteClose: the loser of the compare-and-swap gets ErrConnClosed. *)
CallWriteClose(g) ==
    /\ StartCall(g, "close")
    /\ \/ /\ ~closed
          /\ closed' = TRUE
          /\ Goto(g, "store")
          /\ err' = [err EXCEPT ![g] = "StatusCode"]
       \/ closed /\ UNCHANGED <<closed, pc, err>>
    /\ UNCHANGED <<ev, netClosed>>

(* SetDeadline, SetReadDeadline, SetWriteDeadline: on success only the     *)
(* network connection changes.                                             *)
CallSetDeadline(g) ==
    /\ StartCall(g, "deadline")
    /\ \/ FailWith(g, "io")
       \/ ~netClosed /\ UNCHANGED <<pc, err>>
    /\ UNCHANGED lifecycle

-----------------------------------------------------------------------------
(***************************************************************************)
(* Writing.  internal.WriteN on c.conn either writes the whole frame or    *)
(* fails, perhaps after a part of it.                                      *)
(***************************************************************************)

WriteOK(frame) ==
    /\ ~netClosed
    /\ wire' = Append(wire, frame)
    /\ UNCHANGED failed

WriteFails ==
    \/ netClosed /\ UNCHANGED output
    \/ ~netClosed /\ failed' = TRUE /\ wire' \in {wire, Append(wire, "cut")}

(* doWrite's lock and its checks; genFrame may reject the payload. *)
LockToWrite_NoCheck(g) ==
    /\ pc[g] = "lock"
    /\ mu = Nobody
    /\ \/ mu' = g /\ Goto(g, "write") /\ UNCHANGED err
       \/ FailWith(g, "invalid") /\ UNCHANGED mu
    /\ UNCHANGED <<lifecycle, output, segment, reader, calls>>

LockToWrite(g) ==
    /\ pc[g] = "lock"
    /\ mu = Nobody
    /\ \/ closed /\ FailWith(g, "ErrConnClosed") /\ UNCHANGED mu
       \/ ~closed /\ FailWith(g, "invalid") /\ UNCHANGED mu
       \/ ~closed /\ mu' = g /\ Goto(g, "write") /\ UNCHANGED err
    /\ UNCHANGED <<lifecycle, output, segment, reader, calls>>

(* The rest of doWrite: WriteN, the update of cpsWindow, the unlock. *)
WriteFrame_ErrorDropped(g) ==
    /\ pc[g] = "write"
    /\ (WriteOK("data") \/ WriteFails) /\ Goto(g, "idle") /\ UNCHANGED err
    /\ mu' = Nobody
    /\ UNCHANGED <<lifecycle, segment, reader, calls>>

WriteFrame_NilEmitted(g) ==
    /\ pc[g] = "write"
    /\ \/ WriteOK("data") /\ Goto(g, "emit") /\ UNCHANGED err
       \/ WriteFails /\ FailWith(g, "io")
    /\ mu' = Nobody
    /\ UNCHANGED <<lifecycle, segment, reader, calls>>

WriteFrame_KeepsLock(g) ==
    /\ pc[g] = "write"
    /\ \/ WriteOK("data") /\ Goto(g, "idle") /\ mu' = Nobody /\ UNCHANGED err
       \/ WriteFails /\ FailWith(g, "io") /\ UNCHANGED mu
    /\ UNCHANGED <<lifecycle, segment, reader, calls>>

WriteFrame(g) ==
    /\ pc[g] = "write"
    /\ \/ WriteOK("data") /\ Goto(g, "idle") /\ UNCHANGED err
       \/ WriteFails /\ FailWith(g, "io")
    /\ mu' = Nobody
    /\ UNCHANGED <<lifecycle, segment, reader, calls>>

(* Broadcaster.writeFrame tests isClosed first and locks afterwards. *)
CheckBroadcast ==
    /\ pc[Worker] = "check"
    /\ \/ closed /\ FailWith(Worker, "ErrConnClosed")
       \/ ~closed /\ Goto(Worker, "bcastLock") /\ UNCHANGED err
    /\ UNCHANGED <<lifecycle, mu, output, segment, reader, calls>>

LockBroadcast ==
    /\ pc[Worker] = "bcastLock"
    /\ mu = Nobody
    /\ mu' = Worker
    /\ Goto(Worker, "bcastWrite")
    /\ UNCHANGED <<lifecycle, output, err, segment, reader, calls>>

WriteBroadcast ==
    /\ pc[Worker] = "bcastWrite"
    /\ \/ WriteOK("bcast") /\ Goto(Worker, "idle") /\ UNCHANGED err
       \/ WriteFails /\ FailWith(Worker, "io")
    /\ mu' = Nobody
    /\ UNCHANGED <<lifecycle, segment, reader, calls>>

(* doWriteFile keeps mu from its first segment to its last. *)
LockFile(g) ==
    /\ pc[g] = "fileLock"
    /\ mu = Nobody
    /\ mu' = g
    /\ Goto(g, "segment")
    /\ UNCHANGED <<lifecycle, output, err, segment, reader, calls>>

NextSegment_KeepsLock(g) ==
    /\ pc[g] = "segment"
    /\ \/ /\ \/ FailWith(g, "invalid")
             \/ closed /\ FailWith(g, "ErrConnClosed")
          /\ segment' = 0
          /\ UNCHANGED mu
       \/ /\ ~closed
          /\ \/ segment < MaxSegments - 1 /\ Goto(g, "segmentWrite")
             \/ Goto(g, "lastWrite")
          /\ UNCHANGED <<mu, err, segment>>
    /\ UNCHANGED <<lifecycle, output, reader, calls>>

(* Before a segment is written: the reader may fail, genFrame may reject   *)
(* the segment, and then isClosed is tested.                               *)
NextSegment(g) ==
    /\ pc[g] = "segment"
    /\ \/ /\ \/ FailWith(g, "invalid")
             \/ closed /\ FailWith(g, "ErrConnClosed")
          /\ mu' = Nobody
          /\ segment' = 0
       \/ /\ ~closed
          /\ \/ segment < MaxSegments - 1 /\ Goto(g, "segmentWrite")
             \/ Goto(g, "lastWrite")
          /\ UNCHANGED <<mu, err, segment>>
    /\ UNCHANGED <<lifecycle, output, reader, calls>>

WriteSegment_Unlocks(g) ==
    /\ pc[g] = "segmentWrite"
    /\ \/ /\ WriteOK(IF segment = 0 THEN "first" ELSE "cont")
          /\ segment' = segment + 1
          /\ Goto(g, "segment")
          /\ UNCHANGED err
       \/ WriteFails /\ FailWith(g, "io") /\ segment' = 0
    /\ mu' = Nobody
    /\ UNCHANGED <<lifecycle, reader, calls>>

(* A segment other than the last. *)
WriteSegment(g) ==
    /\ pc[g] = "segmentWrite"
    /\ \/ /\ WriteOK(IF segment = 0 THEN "first" ELSE "cont")
          /\ segment' = segment + 1
          /\ Goto(g, "segment")
          /\ UNCHANGED <<mu, err>>
       \/ WriteFails /\ FailWith(g, "io") /\ mu' = Nobody /\ segment' = 0
    /\ UNCHANGED <<lifecycle, reader, calls>>

WriteLastSegment(g) ==
    /\ pc[g] = "lastWrite"
    /\ \/ WriteOK(IF segment = 0 THEN "data" ELSE "last") /\ Goto(g, "idle") /\ UNCHANGED err
       \/ WriteFails /\ FailWith(g, "io")
    /\ mu' = Nobody
    /\ segment' = 0
    /\ UNCHANGED <<lifecycle, reader, calls>>

-----------------------------------------------------------------------------
(***************************************************************************)
(* Closing.  emitError and WriteClose race for c.closed; the winner runs   *)
(* writeClose: store c.ev, write the close frame under mu (doWrite does    *)
(* not test isClosed for it), close the network connection.  genFrame      *)
(* rejects a reason longer than WriteMaxPayloadSize; the network           *)
(* connection is then closed without a close frame.                        *)
(***************************************************************************)

EmitError_NoCAS(g) ==
    /\ pc[g] = "emit"
    /\ closed' = TRUE /\ Goto(g, "store")
    /\ UNCHANGED <<ev, mu, netClosed, output, err, segment, reader, calls>>

EmitError(g) ==
    /\ pc[g] = "emit"
    /\ \/ ~closed /\ closed' = TRUE /\ Goto(g, "store") /\ UNCHANGED err
       \/ closed /\ Goto(g, "idle") /\ Forget(g) /\ UNCHANGED closed
    /\ UNCHANGED <<ev, mu, netClosed, output, segment, reader, calls>>

(* emitClose answers with a status code or nothing. *)
ReasonsOf(error) == IF error = "CloseError" THEN {0, 2} ELSE Reasons

StoreError(g) ==
    /\ pc[g] = "store"
    /\ \E n \in ReasonsOf(err[g]) :
         ev' = [by |-> g, error |-> err[g], reason |-> IF n > ThresholdV1 THEN ThresholdV1 ELSE n]
    /\ Forget(g)
    /\ Goto(g, "closeLock")
    /\ UNCHANGED <<closed, mu, netClosed, output, segment, reader, calls>>

LockToClose(g) ==
    /\ pc[g] = "closeLock"
    /\ mu = Nobody
    /\ IF ev.reason > WriteMaxPayloadSize
       THEN Goto(g, "netClose") /\ UNCHANGED mu
       ELSE Goto(g, "closeWrite") /\ mu' = g
    /\ UNCHANGED <<lifecycle, output, err, segment, reader, calls>>

WriteCloseFrame_AfterNetClose(g) ==
    /\ pc[g] = "closeWrite"
    /\ netClosed' = TRUE
    /\ UNCHANGED output
    /\ mu' = Nobody
    /\ Goto(g, "netClose")
    /\ UNCHANGED <<closed, ev, err, segment, reader, calls>>

WriteCloseFrame(g) ==
    /\ pc[g] = "closeWrite"
    /\ WriteOK("close") \/ WriteFails
    /\ mu' = Nobody
    /\ Goto(g, "netClose")
    /\ UNCHANGED <<lifecycle, err, segment, reader, calls>>

CloseNetConn(g) ==
    /\ pc[g] = "netClose"
    /\ netClosed' = TRUE
    /\ Goto(g, "idle")
    /\ UNCHANGED <<closed, ev, mu, output, err, segment, reader, calls>>

-----------------------------------------------------------------------------
(***************************************************************************)
(* ReadLoop.  What the buffered reader still holds can be read after the   *)
(* network connection is closed.                                           *)
(***************************************************************************)

Reading == rl = "read" /\ pc[ReadLoop] = "idle"

unreader == <<ev, mu, netClosed, output, segment, calls>>

(* OnOpen, OnPing, OnPong or a sequential OnMessage returns. *)
CallbackReturns ==
    /\ rl = "callback"
    /\ pc[ReadLoop] = "idle"
    /\ rl' = "read"
    /\ UNCHANGED <<unreader, closed, pc, err, active, seen, reclaimed, reads>>

(* A frame that completes no message. *)
ReadFragment ==
    /\ Reading
    /\ reads < MaxReads
    /\ reads' = reads + 1
    /\ UNCHANGED <<unreader, closed, pc, err, rl, active, seen, reclaimed>>

ReadPingPong ==
    /\ Reading
    /\ reads < MaxReads
    /\ reads' = reads + 1
    /\ rl' = "callback"
    /\ UNCHANGED <<unreader, closed, pc, err, active, seen, reclaimed>>

(* emitMessage: OnMessage here, or in a goroutine once readQueue has room. *)
ReadData ==
    /\ Reading
    /\ reads < MaxReads
    /\ reads' = reads + 1
    /\ rl' = IF Handlers = {} THEN "callback" ELSE "dispatch"
    /\ UNCHANGED <<unreader, closed, pc, err, active, seen, reclaimed>>

Dispatch(h) ==
    /\ rl = "dispatch"
    /\ h \notin active
    /\ active' = active \cup {h}
    /\ rl' = "read"
    /\ UNCHANGED <<unreader, closed, pc, err, seen, reclaimed, reads>>

HandlerReturns_OnlyOpen(h) ==
    /\ h \in active
    /\ pc[h] = "idle"
    /\ ~closed
    /\ active' = active \ {h}
    /\ UNCHANGED <<unreader, closed, pc, err, rl, seen, reclaimed, reads>>

HandlerReturns(h) ==
    /\ h \in active
    /\ pc[h] = "idle"
    /\ active' = active \ {h}
    /\ UNCHANGED <<unreader, closed, pc, err, rl, seen, reclaimed, reads>>

(* emitClose.  readMessage then returns an error, for which emitError      *)
(* finds the connection closed already, whoever won.                       *)
ReadClose ==
    /\ Reading
    /\ reads < MaxReads
    /\ reads' = reads + 1
    /\ \/ /\ ~closed
          /\ closed' = TRUE
          /\ Goto(ReadLoop, "store")
          /\ err' = [err EXCEPT ![ReadLoop] = "CloseError"]
       \/ closed /\ UNCHANGED <<closed, pc, err>>
    /\ rl' = "load"
    /\ UNCHANGED <<unreader, active, seen, reclaimed>>

(* Any other error of readMessage: the network's, or a protocol error. *)
ReadFails ==
    /\ Reading
    /\ \E e \in {"io", "StatusCode"} : FailWith(ReadLoop, e)
    /\ rl' = "load"
    /\ UNCHANGED <<unreader, closed, active, seen, reclaimed, reads>>

LoadError_TooEarly ==
    /\ rl = "load"
    /\ pc[ReadLoop] \in {"idle", "store"}
    /\ seen' = ev
    /\ rl' = "onClose"
    /\ UNCHANGED <<unreader, closed, pc, err, active, reclaimed, reads>>

(* The loop is left: load c.ev (errEmpty for NoErr) and call OnClose. *)
LoadError ==
    /\ rl = "load"
    /\ pc[ReadLoop] = "idle"
    /\ seen' = ev
    /\ rl' = "onClose"
    /\ UNCHANGED <<unreader, closed, pc, err, active, reclaimed, reads>>

(* OnClose returns and a server's ReadLoop reclaims br and the windows. *)
ReclaimResources ==
    /\ rl = "onClose"
    /\ pc[ReadLoop] = "idle"
    /\ rl' = "done"
    /\ reclaimed' = TRUE
    /\ UNCHANGED <<unreader, closed, pc, err, active, seen, reads>>

-----------------------------------------------------------------------------

(* A write on the network: the only step of an operation that can wait for *)
(* the peer.                                                               *)
NetworkStep(g) ==
    \/ WriteFrame(g) \/ WriteSegment(g) \/ WriteLastSegment(g) \/ WriteCloseFrame(g)
    \/ g = Worker /\ WriteBroadcast

OtherStep(g) ==
    \/ LockToWrite(g) \/ LockFile(g) \/ NextSegment(g)
    \/ EmitError(g) \/ StoreError(g) \/ LockToClose(g) \/ CloseNetConn(g)
    \/ g = Worker /\ (CheckBroadcast \/ LockBroadcast)

Call(g) ==
    \/ CallWriteMessage(g) \/ CallWriteFile(g) \/ CallWriteClose(g) \/ CallSetDeadline(g)
    \/ g = Worker /\ CallBroadcastJob

ReadStep ==
    \/ CallbackReturns \/ LoadError \/ ReclaimResources
    \/ \E h \in Handlers : Dispatch(h) \/ HandlerReturns(h)

PeerStep == ReadFragment \/ ReadPingPong \/ ReadData \/ ReadClose \/ ReadFails

Next ==
    \/ \E g \in Goroutines : Call(g) \/ NetworkStep(g) \/ OtherStep(g)
    \/ ReadStep
    \/ PeerStep

(***************************************************************************)
(* Fairness.  Goroutines are scheduled, mu is granted to whoever waits     *)
(* for it (sync.Mutex's starvation mode), callbacks return, a closed       *)
(* network connection fails the reads and writes on it.  The peer owes     *)
(* nothing.  Spec adds that a write ends: the peer reads, or a write       *)
(* deadline is set.                                                        *)
(***************************************************************************)
Scheduling ==
    /\ \A g \in Goroutines : SF_vars(OtherStep(g)) /\ WF_vars(netClosed /\ NetworkStep(g))
    /\ WF_vars(ReadStep)
    /\ \A h \in Handlers : WF_vars(HandlerReturns(h))
    /\ WF_vars(netClosed /\ ReadFails)

WritesEnd == \A g \in Goroutines : WF_vars(NetworkStep(g))

Spec == Init /\ [][Next]_vars /\ Scheduling /\ WritesEnd

-----------------------------------------------------------------------------

(* Types; in particular c.ev never stores a nil error, which would panic. *)
TypeOK ==
    /\ closed \in BOOLEAN
    /\ ev \in {NoErr} \cup Stored
    /\ mu \in Goroutines \cup {Nobody}
    /\ netClosed \in BOOLEAN
    /\ wire \in Seq(Frames)
    /\ failed \in BOOLEAN
    /\ pc \in [Goroutines -> Locations]
    /\ err \in [Goroutines -> Errors \cup {"nil"}]
    /\ segment \in Nat
    /\ rl \in ReaderLocations
    /\ active \in SUBSET Handlers
    /\ seen \in {NoErr} \cup Stored
    /\ reclaimed \in BOOLEAN
    /\ calls \in Nat
    /\ reads \in Nat

(* The close frame ends the stream and is sent once (RFC 6455, 5.5.1):     *)
(* doWrite and doWriteFile test isClosed under mu.  Broadcaster.writeFrame *)
(* tests it before it locks, so at most one frame of its kind, on its way  *)
(* when the connection closed, may still follow.                           *)
CloseIsLast ==
    \A i \in 1..Len(wire) :
        wire[i] = "close" =>
            /\ Len(wire) <= i + 1
            /\ \A j \in 1..Len(wire) : j > i => wire[j] \in {"bcast", "cut"}

(* A closed connection whose network connection is still open is being     *)
(* closed by exactly one goroutine: nobody else would ever close it, and   *)
(* two would write two close frames and store c.ev twice.                  *)
OneCloser ==
    /\ \A g, h \in Goroutines : pc[g] \in Closing /\ pc[h] \in Closing => g = h
    /\ closed /\ ~netClosed => \E g \in Goroutines : pc[g] \in Closing
    /\ (\E g \in Goroutines : pc[g] \in Closing) => closed /\ ~netClosed

(* c.ev is written once (a second Store of another type panics) and closed *)
(* is never taken back.                                                    *)
EvStoredOnce == [][(ev # NoErr => ev' = ev) /\ (closed => closed')]_vars

(* The network connection is closed without a close frame on the wire only *)
(* if a write failed or the reason of whoever closed is longer than        *)
(* WriteMaxPayloadSize: otherwise the peer learns why.                     *)
GracefulClose ==
    netClosed =>
        \/ \E i \in 1..Len(wire) : wire[i] = "close"
        \/ failed
        \/ ev.reason > WriteMaxPayloadSize

(* OnClose runs on a closed connection, with the error of the goroutine    *)
(* that closed it; only if ReadLoop did not close it itself can the error  *)
(* still be missing.                                                       *)
OnCloseError ==
    rl \in {"onClose", "done"} =>
        /\ closed
        /\ seen # NoErr => seen = ev
        /\ seen = NoErr /\ ev # NoErr => ev.by # ReadLoop

(* Frames of a segmented message are contiguous: a continuation directly   *)
(* follows a frame of its message.                                         *)
SegmentsContiguous ==
    \A i \in 1..Len(wire) :
        wire[i] \in {"cont", "last"} => i > 1 /\ wire[i - 1] \in {"first", "cont"}

(* Positions where a message is left unfinished on the wire. *)
Torn(i) ==
    \/ wire[i] = "cut"
    \/ /\ wire[i] \in {"first", "cont"}
       /\ IF i = Len(wire) THEN \A g \in Goroutines : pc[g] \notin {"segment", "segmentWrite", "lastWrite"}
                           ELSE wire[i + 1] \notin {"cont", "last"}

(* Once a message is left unfinished the stream is unusable, and the       *)
(* connection is closed or the goroutine that failed is about to do it.    *)
TornIsClosed ==
    (\E i \in 1..Len(wire) : Torn(i)) =>
        closed \/ \E g \in Goroutines : pc[g] = "emit"

(* Closing completes: OnClose is called, and ReadLoop ends. *)
CloseCompletes == closed ~> rl = "done"

(* Every operation returns, whatever it waits for. *)
CallsReturn == \A g \in Goroutines : pc[g] # "idle" ~> pc[g] = "idle"

(* The dictionary goes back to the pool, for another connection, only when *)
(* nobody is compressing with it or updating it.                           *)
DictNotShared == reclaimed => \A g \in Goroutines : pc[g] \notin InMutex
==============================================================================
