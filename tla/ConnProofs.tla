----------------------------- MODULE ConnProofs -----------------------------
(***************************************************************************)
(* Proofs about Conn, for any number of goroutines and any sequence of     *)
(* calls.  The inductive invariant has layers, each proved with the help   *)
(* of the first: Lifecycle, about the mutex, the race for c.closed and     *)
(* c.ev; what follows the close frame; what precedes the end of the        *)
(* network connection; the messages on the wire.                           *)
(***************************************************************************)
EXTENDS Conn, TLAPS

-----------------------------------------------------------------------------

(* mu is held exactly inside the critical sections. *)
MutexHeld == \A g \in Goroutines : pc[g] \in InMutex <=> mu = g

(* Whoever goes to emitError, or has won there, carries an error. *)
ErrorCarried ==
    \A g \in Goroutines : pc[g] \in {"emit", "store"} => err[g] \in Errors

(* c.ev is filled by the closer, right after its compare-and-swap. *)
EvFilled ==
    /\ ev # NoErr => closed
    /\ netClosed => closed
    /\ \A g \in Goroutines : pc[g] = "store" => ev = NoErr
    /\ closed => ev # NoErr \/ \E g \in Goroutines : pc[g] = "store"

(* Once ReadLoop has left its loop, the connection is closed or ReadLoop   *)
(* is on its way into emitError.                                           *)
LoopLeft ==
    /\ rl = "load" => closed \/ pc[ReadLoop] = "emit"
    /\ rl \in {"onClose", "done"} => pc[ReadLoop] # "store"

Lifecycle ==
    /\ TypeOK
    /\ MutexHeld
    /\ ErrorCarried
    /\ OneCloser
    /\ EvFilled
    /\ LoopLeft
    /\ OnCloseError

LEMMA RolesDistinct ==
    /\ Nobody \notin Goroutines
    /\ NoErr \notin Stored
    /\ Worker \in Goroutines
    /\ ReadLoop \in Goroutines
    /\ Worker # ReadLoop
    /\ Handlers \subseteq Goroutines
    /\ ReadLoop \notin Handlers
BY ConnAssumption DEF Goroutines

LEMMA LifecycleInit == Init => Lifecycle
<1> SUFFICES ASSUME Init PROVE Lifecycle
  OBVIOUS
<1>0. wire \in Seq(Frames)
  BY DEF Init
<1>1. TypeOK
  BY <1>0, RolesDistinct DEF Init, TypeOK, Locations, ReaderLocations
<1>2. MutexHeld /\ ErrorCarried /\ OneCloser /\ EvFilled /\ LoopLeft /\ OnCloseError
  BY RolesDistinct DEF Init, MutexHeld, ErrorCarried, OneCloser, EvFilled, LoopLeft,
     OnCloseError, InMutex, Closing
<1> QED BY <1>1, <1>2 DEF Lifecycle

-----------------------------------------------------------------------------

LEMMA WireTyped ==
    ASSUME TypeOK, NEW f \in Frames, WriteOK(f) \/ WriteFails
    PROVE  wire' \in Seq(Frames) /\ failed' \in BOOLEAN
<1>1. Append(wire, f) \in Seq(Frames) /\ Append(wire, "cut") \in Seq(Frames)
  BY DEF TypeOK, Frames
<1> QED BY <1>1 DEF WriteOK, WriteFails, output, TypeOK

LEMMA CallStep ==
    ASSUME Lifecycle, NEW g \in Goroutines, Call(g)
    PROVE  Lifecycle'
<1> USE RolesDistinct
<1>1. CASE CallWriteMessage(g) \/ CallWriteFile(g) \/ (g = Worker /\ CallBroadcastJob)
  <2>1. TypeOK'
    BY <1>1 DEF Lifecycle, TypeOK, CallWriteMessage, CallWriteFile, CallBroadcastJob, StartCall,
       Goto, lifecycle, output, reader, Locations
  <2>2. MutexHeld' /\ ErrorCarried'
    BY <1>1 DEF Lifecycle, TypeOK, MutexHeld, ErrorCarried, CallWriteMessage, CallWriteFile,
       CallBroadcastJob, StartCall, InUserCode, Goto, lifecycle, output, reader, InMutex
  <2>3. OneCloser' /\ EvFilled'
    BY <1>1 DEF Lifecycle, TypeOK, OneCloser, EvFilled, CallWriteMessage, CallWriteFile,
       CallBroadcastJob, StartCall, InUserCode, Goto, lifecycle, output, reader, Closing
  <2>4. LoopLeft' /\ OnCloseError'
    BY <1>1 DEF Lifecycle, TypeOK, LoopLeft, OnCloseError, CallWriteMessage, CallWriteFile,
       CallBroadcastJob, StartCall, InUserCode, Goto, lifecycle, output, reader
  <2> QED BY <2>1, <2>2, <2>3, <2>4 DEF Lifecycle
<1>2. CASE CallWriteClose(g)
  <2>0. closed' \in BOOLEAN
    BY <1>2, Zenon DEF Lifecycle, TypeOK, CallWriteClose
  <2>1. TypeOK'
    BY <1>2, <2>0 DEF Lifecycle, TypeOK, CallWriteClose, StartCall, Goto, lifecycle, output, reader,
       Locations, Closing, Errors
  <2>2. MutexHeld' /\ ErrorCarried'
    BY <1>2 DEF Lifecycle, TypeOK, MutexHeld, ErrorCarried, CallWriteClose, StartCall,
       InUserCode, Goto, output, reader, InMutex, Errors
  <2>3. OneCloser' /\ EvFilled'
    BY <1>2 DEF Lifecycle, TypeOK, OneCloser, EvFilled, CallWriteClose, StartCall,
       InUserCode, Goto, output, reader, Closing
  <2>4. LoopLeft' /\ OnCloseError'
    BY <1>2 DEF Lifecycle, TypeOK, LoopLeft, OnCloseError, CallWriteClose, StartCall,
       InUserCode, Goto, output, reader
  <2> QED BY <2>1, <2>2, <2>3, <2>4 DEF Lifecycle
<1>3. CASE CallSetDeadline(g)
  <2>1. TypeOK'
    BY <1>3 DEF Lifecycle, TypeOK, CallSetDeadline, FailWith, StartCall, Goto, lifecycle, output,
       reader, Locations, Errors
  <2>2. MutexHeld' /\ ErrorCarried'
    BY <1>3 DEF Lifecycle, TypeOK, MutexHeld, ErrorCarried, CallSetDeadline, FailWith, StartCall,
       InUserCode, Goto, lifecycle, output, reader, InMutex, Errors
  <2>3. OneCloser' /\ EvFilled'
    BY <1>3 DEF Lifecycle, TypeOK, OneCloser, EvFilled, CallSetDeadline, FailWith, StartCall,
       InUserCode, Goto, lifecycle, output, reader, Closing
  <2>4. LoopLeft' /\ OnCloseError'
    BY <1>3 DEF Lifecycle, TypeOK, LoopLeft, OnCloseError, CallSetDeadline, FailWith, StartCall,
       InUserCode, Goto, lifecycle, output, reader
  <2> QED BY <2>1, <2>2, <2>3, <2>4 DEF Lifecycle
<1> QED BY <1>1, <1>2, <1>3 DEF Call

LEMMA NetworkStepInv ==
    ASSUME Lifecycle, NEW g \in Goroutines, NetworkStep(g)
    PROVE  Lifecycle'
<1> USE RolesDistinct
<1>1. CASE WriteFrame(g)
  <2>0. wire' \in Seq(Frames) /\ failed' \in BOOLEAN
    BY <1>1, WireTyped DEF Lifecycle, WriteFrame, Frames
  <2>1. TypeOK'
    BY <1>1, <2>0 DEF Lifecycle, TypeOK, WriteFrame, FailWith, WriteOK, WriteFails, Goto,
       lifecycle, output, reader, Locations, InMutex, Closing, Errors
  <2>2. MutexHeld' /\ ErrorCarried'
    BY <1>1 DEF Lifecycle, TypeOK, MutexHeld, ErrorCarried, WriteFrame, FailWith, WriteOK,
       WriteFails, Goto, lifecycle, output, reader, InMutex, Errors
  <2>3. OneCloser' /\ EvFilled'
    BY <1>1 DEF Lifecycle, TypeOK, OneCloser, EvFilled, WriteFrame, FailWith, WriteOK,
       WriteFails, Goto, lifecycle, output, reader, Closing, Stored
  <2>4. LoopLeft' /\ OnCloseError'
    BY <1>1 DEF Lifecycle, TypeOK, LoopLeft, OnCloseError, WriteFrame, FailWith, WriteOK,
       WriteFails, Goto, lifecycle, output, reader, Stored
  <2> QED BY <2>1, <2>2, <2>3, <2>4 DEF Lifecycle
<1>2. CASE WriteSegment(g)
  <2>0. wire' \in Seq(Frames) /\ failed' \in BOOLEAN
    BY <1>2, WireTyped DEF Lifecycle, WriteSegment, Frames
  <2>1. TypeOK'
    BY <1>2, <2>0 DEF Lifecycle, TypeOK, WriteSegment, FailWith, WriteOK, WriteFails, Goto,
       lifecycle, output, reader, Locations, InMutex, Closing, Errors
  <2>2. MutexHeld' /\ ErrorCarried'
    BY <1>2 DEF Lifecycle, TypeOK, MutexHeld, ErrorCarried, WriteSegment, FailWith, WriteOK,
       WriteFails, Goto, lifecycle, output, reader, InMutex, Errors
  <2>3. OneCloser' /\ EvFilled'
    BY <1>2 DEF Lifecycle, TypeOK, OneCloser, EvFilled, WriteSegment, FailWith, WriteOK,
       WriteFails, Goto, lifecycle, output, reader, Closing, Stored
  <2>4. LoopLeft' /\ OnCloseError'
    BY <1>2 DEF Lifecycle, TypeOK, LoopLeft, OnCloseError, WriteSegment, FailWith, WriteOK,
       WriteFails, Goto, lifecycle, output, reader, Stored
  <2> QED BY <2>1, <2>2, <2>3, <2>4 DEF Lifecycle
<1>3. CASE WriteLastSegment(g)
  <2>0. wire' \in Seq(Frames) /\ failed' \in BOOLEAN
    BY <1>3, WireTyped DEF Lifecycle, WriteLastSegment, Frames
  <2>1. TypeOK'
    BY <1>3, <2>0 DEF Lifecycle, TypeOK, WriteLastSegment, FailWith, WriteOK, WriteFails, Goto,
       lifecycle, output, reader, Locations, InMutex, Closing, Errors
  <2>2. MutexHeld' /\ ErrorCarried'
    BY <1>3 DEF Lifecycle, TypeOK, MutexHeld, ErrorCarried, WriteLastSegment, FailWith, WriteOK,
       WriteFails, Goto, lifecycle, output, reader, InMutex, Errors
  <2>3. OneCloser' /\ EvFilled'
    BY <1>3 DEF Lifecycle, TypeOK, OneCloser, EvFilled, WriteLastSegment, FailWith, WriteOK,
       WriteFails, Goto, lifecycle, output, reader, Closing, Stored
  <2>4. LoopLeft' /\ OnCloseError'
    BY <1>3 DEF Lifecycle, TypeOK, LoopLeft, OnCloseError, WriteLastSegment, FailWith, WriteOK,
       WriteFails, Goto, lifecycle, output, reader, Stored
  <2> QED BY <2>1, <2>2, <2>3, <2>4 DEF Lifecycle
<1>4. CASE g = Worker /\ WriteBroadcast
  <2>0. wire' \in Seq(Frames) /\ failed' \in BOOLEAN
    BY <1>4, WireTyped DEF Lifecycle, WriteBroadcast, Frames
  <2>1. TypeOK'
    BY <1>4, <2>0 DEF Lifecycle, TypeOK, WriteBroadcast, FailWith, WriteOK, WriteFails, Goto,
       lifecycle, output, reader, Locations, InMutex, Closing, Errors
  <2>2. MutexHeld' /\ ErrorCarried'
    BY <1>4 DEF Lifecycle, TypeOK, MutexHeld, ErrorCarried, WriteBroadcast, FailWith, WriteOK,
       WriteFails, Goto, lifecycle, output, reader, InMutex, Errors
  <2>3. OneCloser' /\ EvFilled'
    BY <1>4 DEF Lifecycle, TypeOK, OneCloser, EvFilled, WriteBroadcast, FailWith, WriteOK,
       WriteFails, Goto, lifecycle, output, reader, Closing, Stored
  <2>4. LoopLeft' /\ OnCloseError'
    BY <1>4 DEF Lifecycle, TypeOK, LoopLeft, OnCloseError, WriteBroadcast, FailWith, WriteOK,
       WriteFails, Goto, lifecycle, output, reader, Stored
  <2> QED BY <2>1, <2>2, <2>3, <2>4 DEF Lifecycle
<1>5. CASE WriteCloseFrame(g)
  <2>0. wire' \in Seq(Frames) /\ failed' \in BOOLEAN
    BY <1>5, WireTyped DEF Lifecycle, WriteCloseFrame, Frames
  <2>1. TypeOK'
    BY <1>5, <2>0 DEF Lifecycle, TypeOK, WriteCloseFrame, FailWith, WriteOK, WriteFails, Goto,
       lifecycle, output, reader, Locations, InMutex, Closing, Errors
  <2>2. MutexHeld' /\ ErrorCarried'
    BY <1>5 DEF Lifecycle, TypeOK, MutexHeld, ErrorCarried, WriteCloseFrame, FailWith, WriteOK,
       WriteFails, Goto, lifecycle, output, reader, InMutex, Errors
  <2>3. OneCloser' /\ EvFilled'
    BY <1>5 DEF Lifecycle, TypeOK, OneCloser, EvFilled, WriteCloseFrame, FailWith, WriteOK,
       WriteFails, Goto, lifecycle, output, reader, Closing, Stored
  <2>4. LoopLeft' /\ OnCloseError'
    BY <1>5 DEF Lifecycle, TypeOK, LoopLeft, OnCloseError, WriteCloseFrame, FailWith, WriteOK,
       WriteFails, Goto, lifecycle, output, reader, Stored
  <2> QED BY <2>1, <2>2, <2>3, <2>4 DEF Lifecycle
<1> QED BY <1>1, <1>2, <1>3, <1>4, <1>5 DEF NetworkStep

LEMMA OtherStepInv ==
    ASSUME Lifecycle, NEW g \in Goroutines, OtherStep(g)
    PROVE  Lifecycle'
<1> USE RolesDistinct
<1>1. CASE LockToWrite(g) \/ LockFile(g) \/ NextSegment(g)
  <2>1. TypeOK'
    BY <1>1 DEF Lifecycle, TypeOK, ErrorCarried, LockToWrite, LockFile, NextSegment, FailWith,
       Goto, lifecycle, output, reader, Locations, ReaderLocations, InMutex, Closing, Errors,
       Stored
  <2>2. MutexHeld' /\ ErrorCarried'
    BY <1>1 DEF Lifecycle, TypeOK, MutexHeld, ErrorCarried, LockToWrite, LockFile, NextSegment,
       FailWith, Goto, lifecycle, output, reader, InMutex, Errors
  <2>3. OneCloser' /\ EvFilled'
    BY <1>1 DEF Lifecycle, TypeOK, OneCloser, EvFilled, LockToWrite, LockFile, NextSegment,
       FailWith, Goto, lifecycle, output, reader, Closing, Stored
  <2>4. LoopLeft' /\ OnCloseError'
    BY <1>1 DEF Lifecycle, TypeOK, LoopLeft, OnCloseError, LockToWrite, LockFile, NextSegment,
       FailWith, Goto, lifecycle, output, reader, Stored
  <2> QED BY <2>1, <2>2, <2>3, <2>4 DEF Lifecycle
<1>2. CASE g = Worker /\ (CheckBroadcast \/ LockBroadcast)
  <2>1. TypeOK'
    BY <1>2 DEF Lifecycle, TypeOK, ErrorCarried, CheckBroadcast, LockBroadcast, FailWith, Goto,
       lifecycle, output, reader, Locations, ReaderLocations, InMutex, Closing, Errors, Stored
  <2>2. MutexHeld' /\ ErrorCarried'
    BY <1>2 DEF Lifecycle, TypeOK, MutexHeld, ErrorCarried, CheckBroadcast, LockBroadcast,
       FailWith, Goto, lifecycle, output, reader, InMutex, Errors
  <2>3. OneCloser' /\ EvFilled'
    BY <1>2 DEF Lifecycle, TypeOK, OneCloser, EvFilled, CheckBroadcast, LockBroadcast, FailWith,
       Goto, lifecycle, output, reader, Closing, Stored
  <2>4. LoopLeft' /\ OnCloseError'
    BY <1>2 DEF Lifecycle, TypeOK, LoopLeft, OnCloseError, CheckBroadcast, LockBroadcast,
       FailWith, Goto, lifecycle, output, reader, Stored
  <2> QED BY <2>1, <2>2, <2>3, <2>4 DEF Lifecycle
<1>3. CASE EmitError(g)
  <2>0. closed' \in BOOLEAN
    BY <1>3, Zenon DEF Lifecycle, TypeOK, EmitError
  <2>1. TypeOK'
    BY <1>3, <2>0 DEF Lifecycle, TypeOK, ErrorCarried, EmitError, Forget, Goto, lifecycle,
       output, reader, Locations, ReaderLocations, InMutex, Closing, Errors, Stored
  <2>2. MutexHeld' /\ ErrorCarried'
    BY <1>3 DEF Lifecycle, TypeOK, MutexHeld, ErrorCarried, EmitError, Forget, Goto, lifecycle,
       output, reader, InMutex, Errors
  <2>3. OneCloser' /\ EvFilled'
    BY <1>3 DEF Lifecycle, TypeOK, OneCloser, EvFilled, EmitError, Forget, Goto, lifecycle,
       output, reader, Closing, Stored
  <2>4. LoopLeft' /\ OnCloseError'
    BY <1>3 DEF Lifecycle, TypeOK, LoopLeft, OnCloseError, EmitError, Forget, Goto, lifecycle,
       output, reader, Stored
  <2> QED BY <2>1, <2>2, <2>3, <2>4 DEF Lifecycle
<1>4. CASE StoreError(g)
  <2>0. ev' \in Stored /\ ev'.by = g /\ ev' # NoErr
    <3>1. PICK n \in ReasonsOf(err[g]) :
            ev' = [by |-> g, error |-> err[g], reason |-> IF n > ThresholdV1 THEN ThresholdV1 ELSE n]
      BY <1>4 DEF StoreError
    <3>2. n \in Nat
      BY ConnAssumption DEF ReasonsOf
    <3>3. (IF n > ThresholdV1 THEN ThresholdV1 ELSE n) \in 0..ThresholdV1
      BY <3>2 DEF ThresholdV1
    <3>4. err[g] \in Errors
      BY <1>4 DEF Lifecycle, ErrorCarried, StoreError
    <3> QED BY <3>1, <3>3, <3>4 DEF Stored
  <2>1. TypeOK'
    BY <1>4, <2>0 DEF Lifecycle, TypeOK, StoreError, Forget, Goto, output, reader, Locations,
       Closing
  <2>2. MutexHeld' /\ ErrorCarried'
    BY <1>4 DEF Lifecycle, TypeOK, MutexHeld, ErrorCarried, StoreError, Forget, Goto, lifecycle,
       output, reader, InMutex, Errors
  <2>3. OneCloser' /\ EvFilled'
    BY <1>4, <2>0 DEF Lifecycle, TypeOK, OneCloser, EvFilled, StoreError, Forget, Goto,
       lifecycle, output, reader, Closing
  <2>4. LoopLeft' /\ OnCloseError'
    BY <1>4, <2>0 DEF Lifecycle, EvFilled, TypeOK, LoopLeft, OnCloseError, StoreError, Forget,
       Goto, lifecycle, output, reader
  <2> QED BY <2>1, <2>2, <2>3, <2>4 DEF Lifecycle
<1>5. CASE LockToClose(g)
  <2>1. TypeOK'
    BY <1>5 DEF Lifecycle, TypeOK, ErrorCarried, LockToClose, Goto, lifecycle, output, reader,
       Locations, ReaderLocations, InMutex, Closing, Errors, Stored
  <2>2. MutexHeld' /\ ErrorCarried'
    BY <1>5 DEF Lifecycle, TypeOK, MutexHeld, ErrorCarried, LockToClose, Goto, lifecycle,
       output, reader, InMutex, Errors
  <2>3. OneCloser' /\ EvFilled'
    BY <1>5 DEF Lifecycle, TypeOK, OneCloser, EvFilled, LockToClose, Goto, lifecycle, output,
       reader, Closing, Stored
  <2>4. LoopLeft' /\ OnCloseError'
    BY <1>5 DEF Lifecycle, TypeOK, LoopLeft, OnCloseError, LockToClose, Goto, lifecycle, output,
       reader, Stored
  <2> QED BY <2>1, <2>2, <2>3, <2>4 DEF Lifecycle
<1>6. CASE CloseNetConn(g)
  <2>1. TypeOK'
    BY <1>6 DEF Lifecycle, TypeOK, ErrorCarried, CloseNetConn, Goto, lifecycle, output, reader,
       Locations, ReaderLocations, InMutex, Closing, Errors, Stored
  <2>2. MutexHeld' /\ ErrorCarried'
    BY <1>6 DEF Lifecycle, TypeOK, MutexHeld, ErrorCarried, CloseNetConn, Goto, lifecycle,
       output, reader, InMutex, Errors
  <2>3. OneCloser' /\ EvFilled'
    BY <1>6 DEF Lifecycle, TypeOK, OneCloser, EvFilled, CloseNetConn, Goto, lifecycle, output,
       reader, Closing, Stored
  <2>4. LoopLeft' /\ OnCloseError'
    BY <1>6 DEF Lifecycle, TypeOK, LoopLeft, OnCloseError, CloseNetConn, Goto, lifecycle,
       output, reader, Stored
  <2> QED BY <2>1, <2>2, <2>3, <2>4 DEF Lifecycle
<1> QED BY <1>1, <1>2, <1>3, <1>4, <1>5, <1>6 DEF OtherStep

LEMMA ReadStepInv ==
    ASSUME Lifecycle, ReadStep \/ PeerStep
    PROVE  Lifecycle'
<1> USE RolesDistinct
<1>1. CASE CallbackReturns \/ LoadError \/ ReclaimResources
  <2>1. TypeOK'
    BY <1>1 DEF Lifecycle, TypeOK, ErrorCarried, CallbackReturns, LoadError, ReclaimResources,
       Goto, unreader, output, Locations, ReaderLocations, InMutex, Closing, Errors, Stored
  <2>2. MutexHeld' /\ ErrorCarried'
    BY <1>1 DEF Lifecycle, TypeOK, MutexHeld, ErrorCarried, CallbackReturns, LoadError,
       ReclaimResources, Goto, unreader, output, InMutex, Errors
  <2>3. OneCloser' /\ EvFilled'
    BY <1>1 DEF Lifecycle, TypeOK, OneCloser, EvFilled, CallbackReturns, LoadError,
       ReclaimResources, Goto, unreader, output, Closing, Stored
  <2>4. LoopLeft' /\ OnCloseError'
    BY <1>1 DEF Lifecycle, TypeOK, LoopLeft, OnCloseError, CallbackReturns, LoadError,
       ReclaimResources, Goto, unreader, output, Stored
  <2> QED BY <2>1, <2>2, <2>3, <2>4 DEF Lifecycle
<1>2. CASE \E h \in Handlers : Dispatch(h) \/ HandlerReturns(h)
  <2>1. TypeOK'
    BY <1>2 DEF Lifecycle, TypeOK, ErrorCarried, Dispatch, HandlerReturns, Goto, unreader,
       output, Locations, ReaderLocations, InMutex, Closing, Errors, Stored
  <2>2. MutexHeld' /\ ErrorCarried'
    BY <1>2 DEF Lifecycle, TypeOK, MutexHeld, ErrorCarried, Dispatch, HandlerReturns, Goto,
       unreader, output, InMutex, Errors
  <2>3. OneCloser' /\ EvFilled'
    BY <1>2 DEF Lifecycle, TypeOK, OneCloser, EvFilled, Dispatch, HandlerReturns, Goto,
       unreader, output, Closing, Stored
  <2>4. LoopLeft' /\ OnCloseError'
    BY <1>2 DEF Lifecycle, TypeOK, LoopLeft, OnCloseError, Dispatch, HandlerReturns, Goto,
       unreader, output, Stored
  <2> QED BY <2>1, <2>2, <2>3, <2>4 DEF Lifecycle
<1>3. CASE ReadFragment \/ ReadPingPong \/ ReadData
  <2>1. TypeOK'
    BY <1>3 DEF Lifecycle, TypeOK, ErrorCarried, ReadFragment, ReadPingPong, ReadData, Reading,
       Goto, unreader, output, Locations, ReaderLocations, InMutex, Closing, Errors, Stored
  <2>2. MutexHeld' /\ ErrorCarried'
    BY <1>3 DEF Lifecycle, TypeOK, MutexHeld, ErrorCarried, ReadFragment, ReadPingPong,
       ReadData, Reading, Goto, unreader, output, InMutex, Errors
  <2>3. OneCloser' /\ EvFilled'
    BY <1>3 DEF Lifecycle, TypeOK, OneCloser, EvFilled, ReadFragment, ReadPingPong, ReadData,
       Reading, Goto, unreader, output, Closing, Stored
  <2>4. LoopLeft' /\ OnCloseError'
    BY <1>3 DEF Lifecycle, TypeOK, LoopLeft, OnCloseError, ReadFragment, ReadPingPong, ReadData,
       Reading, Goto, unreader, output, Stored
  <2> QED BY <2>1, <2>2, <2>3, <2>4 DEF Lifecycle
<1>4. CASE ReadClose
  <2>0. closed' \in BOOLEAN
    BY <1>4, Zenon DEF Lifecycle, TypeOK, ReadClose
  <2>1. TypeOK'
    BY <1>4, <2>0 DEF Lifecycle, TypeOK, ErrorCarried, ReadClose, Reading, Goto, unreader,
       output, Locations, ReaderLocations, InMutex, Closing, Errors, Stored
  <2>2. MutexHeld' /\ ErrorCarried'
    BY <1>4 DEF Lifecycle, TypeOK, MutexHeld, ErrorCarried, ReadClose, Reading, Goto, unreader,
       output, InMutex, Errors
  <2>3. OneCloser' /\ EvFilled'
    BY <1>4 DEF Lifecycle, TypeOK, OneCloser, EvFilled, ReadClose, Reading, Goto, unreader,
       output, Closing, Stored
  <2>4. LoopLeft' /\ OnCloseError'
    BY <1>4 DEF Lifecycle, TypeOK, LoopLeft, OnCloseError, ReadClose, Reading, Goto, unreader,
       output, Stored
  <2> QED BY <2>1, <2>2, <2>3, <2>4 DEF Lifecycle
<1>5. CASE ReadFails
  <2>1. TypeOK'
    BY <1>5 DEF Lifecycle, TypeOK, ErrorCarried, ReadFails, FailWith, Reading, Goto, unreader,
       output, Locations, ReaderLocations, InMutex, Closing, Errors, Stored
  <2>2. MutexHeld' /\ ErrorCarried'
    BY <1>5 DEF Lifecycle, TypeOK, MutexHeld, ErrorCarried, ReadFails, FailWith, Reading, Goto,
       unreader, output, InMutex, Errors
  <2>3. OneCloser' /\ EvFilled'
    BY <1>5 DEF Lifecycle, TypeOK, OneCloser, EvFilled, ReadFails, FailWith, Reading, Goto,
       unreader, output, Closing, Stored
  <2>4. LoopLeft' /\ OnCloseError'
    BY <1>5 DEF Lifecycle, TypeOK, LoopLeft, OnCloseError, ReadFails, FailWith, Reading, Goto,
       unreader, output, Stored
  <2> QED BY <2>1, <2>2, <2>3, <2>4 DEF Lifecycle
<1> QED BY <1>1, <1>2, <1>3, <1>4, <1>5 DEF ReadStep, PeerStep

LEMMA LifecycleStep == Lifecycle /\ [Next]_vars => Lifecycle'
<1> SUFFICES ASSUME Lifecycle, [Next]_vars PROVE Lifecycle'
  OBVIOUS
<1>1. ASSUME NEW g \in Goroutines, Call(g) \/ NetworkStep(g) \/ OtherStep(g)
      PROVE  Lifecycle'
  BY <1>1, CallStep, NetworkStepInv, OtherStepInv
<1>2. CASE ReadStep \/ PeerStep
  BY <1>2, ReadStepInv
<1>3. CASE UNCHANGED vars
  BY <1>3 DEF vars, Lifecycle, TypeOK, MutexHeld, ErrorCarried, OneCloser, EvFilled, LoopLeft,
     OnCloseError
<1> QED BY <1>1, <1>2, <1>3 DEF Next

(* The lifecycle invariant holds in every behaviour. *)
THEOREM LifecycleTheorem == Spec => []Lifecycle
<1>1. QED
  BY LifecycleInit, LifecycleStep, PTL DEF Spec

(* Types are respected, and c.ev.Store is never given a nil error. *)
THEOREM TypeCorrect == Spec => []TypeOK
<1>1. Lifecycle => TypeOK
  BY DEF Lifecycle
<1> QED BY <1>1, LifecycleTheorem, PTL

(* However emitError, emitClose and WriteClose interleave, exactly one     *)
(* goroutine closes the connection, and one that is closed is never left   *)
(* without the goroutine that will close the network connection.           *)
THEOREM OneCloserTheorem == Spec => []OneCloser
<1>1. Lifecycle => OneCloser
  BY DEF Lifecycle
<1> QED BY <1>1, LifecycleTheorem, PTL

(* OnClose is given the error of the goroutine that closed the connection. *)
THEOREM OnCloseErrorTheorem == Spec => []OnCloseError
<1>1. Lifecycle => OnCloseError
  BY DEF Lifecycle
<1> QED BY <1>1, LifecycleTheorem, PTL

-----------------------------------------------------------------------------
(***************************************************************************)
(* c.ev and the close frame.                                               *)
(***************************************************************************)

LEMMA EvStep ==
    ASSUME Lifecycle, [Next]_vars
    PROVE  (ev # NoErr => ev' = ev) /\ (closed => closed')
<1>1. ASSUME NEW g \in Goroutines, Call(g) \/ NetworkStep(g)
      PROVE  ev' = ev /\ (closed => closed')
  BY <1>1 DEF Call, NetworkStep, CallWriteMessage, CallWriteFile, CallBroadcastJob,
     CallWriteClose, CallSetDeadline, WriteFrame, WriteSegment, WriteLastSegment,
     WriteBroadcast, WriteCloseFrame, lifecycle
<1>2. ASSUME NEW g \in Goroutines, OtherStep(g)
      PROVE  (ev # NoErr => ev' = ev) /\ (closed => closed')
  BY <1>2 DEF OtherStep, LockToWrite, LockFile, NextSegment, CheckBroadcast, LockBroadcast,
     EmitError, StoreError, LockToClose, CloseNetConn, lifecycle, Lifecycle, EvFilled
<1>3. CASE ReadStep \/ PeerStep
  BY <1>3 DEF ReadStep, PeerStep, CallbackReturns, LoadError, ReclaimResources, Dispatch,
     HandlerReturns, ReadFragment, ReadPingPong, ReadData, ReadClose, ReadFails, unreader
<1>4. CASE UNCHANGED vars
  BY <1>4 DEF vars
<1> QED BY <1>1, <1>2, <1>3, <1>4 DEF Next

(* c.ev is stored at most once, so atomic.Value.Store never sees a second  *)
(* type, and a closed connection stays closed.                             *)
THEOREM EvStoredOnceTheorem == Spec => EvStoredOnce
<1>1. Lifecycle /\ [Next]_vars => [(ev # NoErr => ev' = ev) /\ (closed => closed')]_vars
  BY EvStep
<1> QED BY <1>1, LifecycleTheorem, PTL DEF Spec, EvStoredOnce

CloseOnWire == \E i \in 1..Len(wire) : wire[i] = "close"

(* Once the close frame is on the wire, nobody is past a test of isClosed  *)
(* under mu or in the closing sequence before conn.Close.                  *)
WireClosed ==
    CloseOnWire =>
        /\ closed
        /\ \A g \in Goroutines :
              pc[g] \notin {"write", "segmentWrite", "lastWrite", "store", "closeLock",
                 "closeWrite"}

(* A frame is behind the close frame ... *)
CloseBehind == \E i \in 1..Len(wire) : wire[i] = "close" /\ i < Len(wire)

(* ... and then the broadcast job that was past its test is over.          *)
BroadcastOver == CloseBehind => pc[Worker] \notin {"bcastLock", "bcastWrite"}

WireInv == CloseIsLast /\ WireClosed /\ BroadcastOver

LEMMA AppendFrame ==
    ASSUME wire \in Seq(Frames), NEW f \in Frames, wire' = Append(wire, f), ~CloseOnWire
    PROVE  CloseIsLast' /\ (CloseOnWire' => f = "close") /\ ~CloseBehind'
<1>1. Len(wire') = Len(wire) + 1 /\ Len(wire) \in Nat
  OBVIOUS
<1>2. \A i \in 1..Len(wire) : wire'[i] = wire[i]
  OBVIOUS
<1>3. wire'[Len(wire) + 1] = f
  OBVIOUS
<1> QED BY <1>1, <1>2, <1>3 DEF CloseIsLast, CloseOnWire, CloseBehind

LEMMA WriteKeepsCloseLast ==
    ASSUME TypeOK, CloseIsLast, ~CloseOnWire, NEW f \in Frames, WriteOK(f) \/ WriteFails
    PROVE  CloseIsLast' /\ (CloseOnWire' => f = "close") /\ ~CloseBehind'
<1>1. wire \in Seq(Frames) /\ "cut" \in Frames
  BY DEF TypeOK, Frames
<1>2. CASE wire' = Append(wire, f)
  BY <1>1, <1>2, AppendFrame
<1>3. CASE wire' = Append(wire, "cut")
  <2>1. CloseIsLast' /\ (CloseOnWire' => "cut" = "close") /\ ~CloseBehind'
    BY <1>1, <1>3, AppendFrame
  <2> QED BY <2>1
<1>4. CASE wire' = wire
  BY <1>4 DEF CloseIsLast, CloseOnWire, CloseBehind
<1> QED BY <1>2, <1>3, <1>4 DEF WriteOK, WriteFails, output

(* The frame of a broadcast directly behind the close frame. *)
LEMMA AppendBroadcast ==
    ASSUME wire \in Seq(Frames), NEW f \in {"bcast", "cut"}, wire' = Append(wire, f), ~CloseBehind
    PROVE  CloseIsLast' /\ (CloseOnWire' => CloseOnWire)
<1>1. Len(wire') = Len(wire) + 1 /\ Len(wire) \in Nat
  OBVIOUS
<1>2. \A i \in 1..Len(wire) : wire'[i] = wire[i]
  OBVIOUS
<1>3. wire'[Len(wire) + 1] = f
  OBVIOUS
<1>4. ASSUME NEW i \in 1..Len(wire'), wire'[i] = "close"
      PROVE  i = Len(wire) /\ wire[i] = "close" /\ i \in 1..Len(wire)
  BY <1>1, <1>2, <1>3, <1>4 DEF CloseBehind
<1> QED BY <1>1, <1>3, <1>4 DEF CloseIsLast, CloseOnWire

LEMMA WireCallStep ==
    ASSUME Lifecycle, WireInv, NEW g \in Goroutines, Call(g)
    PROVE  WireInv'
<1>1. UNCHANGED wire
  BY DEF Call, CallWriteMessage, CallWriteFile, CallBroadcastJob, CallWriteClose,
     CallSetDeadline, StartCall, output
<1>2. WireClosed'
  BY <1>1 DEF Call, CallWriteMessage, CallWriteFile, CallBroadcastJob, CallWriteClose,
     CallSetDeadline, FailWith, Goto, lifecycle, WireInv, WireClosed, CloseOnWire, Lifecycle, TypeOK
<1>3. BroadcastOver'
  BY <1>1, RolesDistinct DEF Call, CallWriteMessage, CallWriteFile, CallBroadcastJob, CallWriteClose,
     CallSetDeadline, FailWith, Goto, WireInv, BroadcastOver, CloseBehind, Lifecycle, TypeOK
<1> QED BY <1>1, <1>2, <1>3 DEF WireInv, CloseIsLast

LEMMA WireBroadcast ==
    ASSUME Lifecycle, WireInv, WriteBroadcast
    PROVE  WireInv'
<1>1. wire \in Seq(Frames) /\ ~CloseBehind /\ Worker \in Goroutines
  BY DEF Lifecycle, TypeOK, WireInv, BroadcastOver, WriteBroadcast, Goroutines
<1>3. \/ wire' = wire
      \/ wire' = Append(wire, "bcast")
      \/ wire' = Append(wire, "cut")
  BY DEF WriteBroadcast, WriteOK, WriteFails, output
<1>4. CloseIsLast' /\ (CloseOnWire' => CloseOnWire)
  <2>1. CASE wire' = wire
    BY <2>1 DEF WireInv, CloseIsLast, CloseOnWire
  <2>2. CASE wire' = Append(wire, "bcast")
    BY <1>1, <2>2, AppendBroadcast
  <2>3. CASE wire' = Append(wire, "cut")
    BY <1>1, <2>3, AppendBroadcast
  <2> QED BY <1>3, <2>1, <2>2, <2>3
<1>5. closed' = closed /\ \E l \in {"idle", "emit"} : pc' = [pc EXCEPT ![Worker] = l]
  BY DEF WriteBroadcast, FailWith, Goto, lifecycle
<1>6. WireClosed' /\ BroadcastOver'
  BY <1>1, <1>4, <1>5 DEF WireInv, WireClosed, BroadcastOver, Lifecycle, TypeOK
<1> QED BY <1>4, <1>6 DEF WireInv

LEMMA WireNetworkStep ==
    ASSUME Lifecycle, WireInv, NEW g \in Goroutines, NetworkStep(g)
    PROVE  WireInv'
<1> USE DEF Lifecycle, WireInv
<1>1. CASE WriteFrame(g) \/ WriteSegment(g) \/ WriteLastSegment(g)
  <2>1. ~CloseOnWire
    BY <1>1 DEF WireClosed, WriteFrame, WriteSegment, WriteLastSegment
  <2>2. \E f \in Frames \ {"close"} : WriteOK(f) \/ WriteFails
    BY <1>1 DEF WriteFrame, WriteSegment, WriteLastSegment, Frames
  <2>3. CloseIsLast' /\ ~CloseOnWire' /\ ~CloseBehind'
    BY <2>1, <2>2, WriteKeepsCloseLast
  <2> QED BY <2>3 DEF WireClosed, BroadcastOver
<1>2. CASE WriteCloseFrame(g)
  <2>0. ~CloseOnWire
    BY <1>2 DEF WireClosed, WriteCloseFrame
  <2>1. CloseIsLast' /\ ~CloseBehind'
    BY <1>2, <2>0, WriteKeepsCloseLast DEF WriteCloseFrame, Frames
  <2>2. closed'
    BY <1>2 DEF WriteCloseFrame, OneCloser, Closing, lifecycle
  <2>3. mu = g
    BY <1>2 DEF WriteCloseFrame, MutexHeld, InMutex
  <2>4. \A h \in Goroutines \ {g} : pc[h] \notin InMutex /\ pc[h] \notin Closing
    BY <1>2, <2>3 DEF WriteCloseFrame, MutexHeld, OneCloser, Closing
  <2>5. pc' = [pc EXCEPT ![g] = "netClose"]
    BY <1>2 DEF WriteCloseFrame, Goto
  <2>6. WireClosed'
    BY <2>2, <2>4, <2>5 DEF WireClosed, InMutex, Closing, TypeOK
  <2> QED BY <2>1, <2>6 DEF BroadcastOver
<1>3. CASE WriteBroadcast
  BY <1>3, WireBroadcast
<1> QED BY <1>1, <1>2, <1>3 DEF NetworkStep

LEMMA WireOtherStep ==
    ASSUME Lifecycle, WireInv, NEW g \in Goroutines, OtherStep(g)
    PROVE  WireInv'
<1>1. UNCHANGED wire
  BY DEF OtherStep, LockToWrite, LockFile, NextSegment, EmitError, StoreError, LockToClose,
     CloseNetConn, CheckBroadcast, LockBroadcast, output
<1>2. CloseIsLast' /\ (CloseOnWire' => CloseOnWire) /\ (CloseBehind' => CloseBehind)
  BY <1>1 DEF WireInv, CloseIsLast, CloseOnWire, CloseBehind
<1>0. Worker \in Goroutines
  BY DEF Goroutines
<1>3. CASE LockToWrite(g) \/ LockFile(g) \/ NextSegment(g)
  <2>1. WireClosed'
    BY <1>2, <1>3 DEF LockToWrite, LockFile, NextSegment, FailWith, Goto, lifecycle, WireInv,
       WireClosed, Lifecycle, TypeOK
  <2>2. BroadcastOver'
    BY <1>0, <1>2, <1>3 DEF LockToWrite, LockFile, NextSegment, FailWith, Goto, WireInv, BroadcastOver,
       Lifecycle, TypeOK
  <2> QED BY <1>2, <2>1, <2>2 DEF WireInv
<1>4. CASE EmitError(g) \/ StoreError(g) \/ LockToClose(g) \/ CloseNetConn(g)
  <2>1. WireClosed'
    BY <1>2, <1>4 DEF EmitError, StoreError, LockToClose, CloseNetConn, Goto, lifecycle, WireInv,
       WireClosed, Lifecycle, TypeOK
  <2>2. BroadcastOver'
    BY <1>0, <1>2, <1>4 DEF EmitError, StoreError, LockToClose, CloseNetConn, Goto, WireInv,
       BroadcastOver, Lifecycle, TypeOK
  <2> QED BY <1>2, <2>1, <2>2 DEF WireInv
<1>5. CASE CheckBroadcast
  <2>1. CloseBehind => CloseOnWire
    BY DEF CloseBehind, CloseOnWire
  <2> QED BY <1>2, <1>5, <2>1 DEF CheckBroadcast, FailWith, Goto, lifecycle, WireInv, WireClosed,
     BroadcastOver, Lifecycle, TypeOK
<1>6. CASE LockBroadcast
  BY <1>2, <1>6 DEF LockBroadcast, Goto, lifecycle, WireInv, WireClosed, BroadcastOver, Lifecycle,
     TypeOK
<1> QED BY <1>3, <1>4, <1>5, <1>6 DEF OtherStep

LEMMA WireReadStep ==
    ASSUME Lifecycle, WireInv, ReadStep \/ PeerStep
    PROVE  WireInv'
<1>1. UNCHANGED wire
  BY DEF ReadStep, PeerStep, CallbackReturns, LoadError, ReclaimResources, Dispatch,
     HandlerReturns, ReadFragment, ReadPingPong, ReadData, ReadClose, ReadFails, unreader, output
<1>2. CASE ReadClose \/ ReadFails
  BY <1>1, <1>2, RolesDistinct DEF ReadClose, ReadFails, FailWith, Goto, WireInv, CloseIsLast,
     WireClosed, BroadcastOver, CloseBehind, CloseOnWire, Lifecycle, TypeOK
<1>3. CASE UNCHANGED <<closed, pc>>
  BY <1>1, <1>3 DEF WireInv, CloseIsLast, WireClosed, BroadcastOver, CloseBehind, CloseOnWire
<1> QED BY <1>2, <1>3 DEF ReadStep, PeerStep, CallbackReturns, LoadError, ReclaimResources,
     Dispatch, HandlerReturns, ReadFragment, ReadPingPong, ReadData

(* Nothing but one frame of a broadcast job that was under way follows the *)
(* close frame, for any number of writers: doWrite and doWriteFile test    *)
(* isClosed under mu, and the close frame is written under mu after closed *)
(* is set.                                                                 *)
THEOREM CloseIsLastTheorem == Spec => []CloseIsLast
<1>1. Init => WireInv
  BY DEF Init, WireInv, CloseIsLast, WireClosed, CloseOnWire, BroadcastOver, CloseBehind
<1>2. Lifecycle /\ WireInv /\ [Next]_vars => WireInv'
  <2> SUFFICES ASSUME Lifecycle, WireInv, [Next]_vars PROVE WireInv'
    OBVIOUS
  <2>1. CASE UNCHANGED vars
    BY <2>1 DEF vars, WireInv, CloseIsLast, WireClosed, CloseOnWire, BroadcastOver, CloseBehind
  <2> QED BY <2>1, WireCallStep, WireNetworkStep, WireOtherStep, WireReadStep DEF Next
<1>3. WireInv => CloseIsLast
  BY DEF WireInv
<1> QED BY <1>1, <1>2, <1>3, LifecycleTheorem, PTL DEF Spec

-----------------------------------------------------------------------------
(***************************************************************************)
(* What is on the wire when the network connection is closed, and what a   *)
(* message under way has left there.                                       *)
(***************************************************************************)

(* A write leaves the wire as it is or appends one frame to it. *)
LEMMA WriteAppends ==
    ASSUME TypeOK, NEW f \in Frames, WriteOK(f) \/ WriteFails
    PROVE  \/ wire' = wire
           \/ \E e \in {f, "cut"} :
                /\ Len(wire) \in Nat /\ Len(wire') = Len(wire) + 1
                /\ \A i \in 1..Len(wire) : wire'[i] = wire[i]
                /\ wire'[Len(wire) + 1] = e
                /\ (e = f /\ WriteOK(f)) \/ (e = "cut" /\ WriteFails)
<1>1. \/ wire' = wire
      \/ wire' = Append(wire, f) /\ WriteOK(f)
      \/ wire' = Append(wire, "cut") /\ WriteFails
  BY DEF WriteOK, WriteFails, output
<1>2. wire \in Seq(Frames)
  BY DEF TypeOK
<1>3. \A e \in Frames : wire' = Append(wire, e) =>
        /\ Len(wire) \in Nat /\ Len(wire') = Len(wire) + 1
        /\ \A i \in 1..Len(wire) : wire'[i] = wire[i]
        /\ wire'[Len(wire) + 1] = e
  BY <1>2
<1>4. "cut" \in Frames
  BY DEF Frames
<1> QED BY <1>1, <1>3, <1>4, Zenon

(* No other step touches it. *)
LEMMA WireKept ==
    ASSUME [Next]_vars, ~ \E g \in Goroutines : NetworkStep(g)
    PROVE  UNCHANGED <<wire, failed>>
<1>1. ASSUME NEW g \in Goroutines, Call(g)
      PROVE  UNCHANGED <<wire, failed>>
  BY <1>1 DEF Call, CallWriteMessage, CallWriteFile, CallBroadcastJob, CallWriteClose,
     CallSetDeadline, StartCall, output
<1>2. ASSUME NEW g \in Goroutines, OtherStep(g)
      PROVE  UNCHANGED <<wire, failed>>
  BY <1>2 DEF OtherStep, LockToWrite, LockFile, NextSegment, EmitError, StoreError, LockToClose,
     CloseNetConn, CheckBroadcast, LockBroadcast, output
<1>3. CASE ReadStep \/ PeerStep
  BY <1>3 DEF ReadStep, PeerStep, CallbackReturns, LoadError, ReclaimResources, Dispatch,
     HandlerReturns, ReadFragment, ReadPingPong, ReadData, ReadClose, ReadFails, unreader, output
<1>4. CASE UNCHANGED vars
  BY <1>4 DEF vars
<1> QED BY <1>1, <1>2, <1>3, <1>4 DEF Next

(* The network connection is closed or a goroutine is about to close it. *)
Leaving == netClosed \/ \E g \in Goroutines : pc[g] = "netClose"

(* Why it may be: the close frame is out, or could not be written. *)
Excused == CloseOnWire \/ failed \/ ev.reason > WriteMaxPayloadSize

GraceInv == Leaving => Excused

(* The closer stored c.ev before it came there, and nobody stores it again. *)
LEMMA LeavingKeepsEv ==
    ASSUME Lifecycle, [Next]_vars, Leaving
    PROVE  ev' = ev
<1>1. closed /\ \A g \in Goroutines : pc[g] # "store"
  BY DEF Leaving, Lifecycle, OneCloser, EvFilled, Closing
<1>2. ev # NoErr
  BY <1>1 DEF Lifecycle, EvFilled
<1> QED BY <1>2, EvStep

(* Frames stay on the wire, and a failure remains one. *)
LEMMA OutputKept ==
    ASSUME TypeOK, [Next]_vars
    PROVE  (CloseOnWire => CloseOnWire') /\ (failed => failed')
<1>1. ASSUME NEW g \in Goroutines, NetworkStep(g)
      PROVE  (CloseOnWire => CloseOnWire') /\ (failed => failed')
  <2>1. PICK f \in Frames : WriteOK(f) \/ WriteFails
    BY <1>1 DEF NetworkStep, WriteFrame, WriteSegment, WriteLastSegment, WriteBroadcast,
       WriteCloseFrame, Frames
  <2> QED BY <2>1, WriteAppends DEF CloseOnWire, WriteOK, WriteFails, output
<1>2. CASE ~ \E g \in Goroutines : NetworkStep(g)
  BY <1>2, WireKept DEF CloseOnWire
<1> QED BY <1>1, <1>2

(* Only the two ends of doWrite for a close frame bring a goroutine there. *)
LEMMA LeavingStarts ==
    ASSUME Lifecycle, [Next]_vars, ~Leaving, Leaving'
    PROVE  \E g \in Goroutines : WriteCloseFrame(g) \/ LockToClose(g)
<1>1. TypeOK
  BY DEF Lifecycle
<1>2. ASSUME NEW g \in Goroutines, NEW l \in Locations \ {"netClose"}, netClosed' = netClosed,
             pc' = [pc EXCEPT ![g] = l]
      PROVE  FALSE
  BY <1>1, <1>2 DEF Leaving, TypeOK
<1>3. ASSUME NEW g \in Goroutines, Call(g)
      PROVE  FALSE
  <2>1. netClosed' = netClosed /\ \E l \in Locations \ {"netClose"} : pc' = [pc EXCEPT ![g] = l]
    BY <1>1, <1>3 DEF Call, CallWriteMessage, CallWriteFile, CallBroadcastJob, CallWriteClose, StartCall,
       InUserCode, CallSetDeadline, FailWith, Goto, lifecycle, Locations, Closing, TypeOK
  <2> QED BY <1>2, <2>1
<1>4. ASSUME NEW g \in Goroutines, NetworkStep(g), ~WriteCloseFrame(g)
      PROVE  FALSE
  <2>1. netClosed' = netClosed /\ \E l \in Locations \ {"netClose"} : pc' = [pc EXCEPT ![g] = l]
    BY <1>4 DEF NetworkStep, WriteFrame, WriteSegment, WriteLastSegment, WriteBroadcast, FailWith, Goto,
       lifecycle, Locations, InMutex
  <2> QED BY <1>2, <2>1
<1>5. ASSUME NEW g \in Goroutines, OtherStep(g), ~LockToClose(g)
      PROVE  FALSE
  <2>1. ~CloseNetConn(g)
    BY DEF CloseNetConn, Leaving
  <2>2. netClosed' = netClosed /\ \E l \in Locations \ {"netClose"} : pc' = [pc EXCEPT ![g] = l]
    BY <1>5, <2>1 DEF OtherStep, LockToWrite, LockFile, NextSegment, EmitError, StoreError,
       CheckBroadcast, LockBroadcast, FailWith, Goto, lifecycle, Locations, InMutex, Closing
  <2> QED BY <1>2, <2>2
<1>6. CASE ReadStep \/ PeerStep \/ UNCHANGED vars
  <2>1. netClosed' = netClosed
    BY <1>6 DEF ReadStep, PeerStep, CallbackReturns, LoadError, ReclaimResources, Dispatch,
       HandlerReturns, ReadFragment, ReadPingPong, ReadData, ReadClose, ReadFails, unreader, vars
  <2>2. pc' = pc \/ \E l \in {"store", "emit"} : pc' = [pc EXCEPT ![ReadLoop] = l]
    BY <1>6 DEF ReadStep, PeerStep, CallbackReturns, LoadError, ReclaimResources, Dispatch,
       HandlerReturns, ReadFragment, ReadPingPong, ReadData, ReadClose, ReadFails, FailWith, Goto, vars
  <2>3. CASE pc' = pc
    BY <2>1, <2>3 DEF Leaving
  <2>4. CASE \E l \in {"store", "emit"} : pc' = [pc EXCEPT ![ReadLoop] = l]
    BY <1>2, <2>1, <2>4, RolesDistinct DEF Locations, Closing
  <2> QED BY <2>2, <2>3, <2>4
<1> QED BY <1>3, <1>4, <1>5, <1>6 DEF Next

LEMMA GraceStep ==
    ASSUME Lifecycle, GraceInv, [Next]_vars
    PROVE  GraceInv'
<1>1. TypeOK
  BY DEF Lifecycle
<1>2. CASE Leaving
  <2>1. ev' = ev
    BY <1>2, LeavingKeepsEv
  <2>2. Excused'
    BY <1>1, <1>2, <2>1, OutputKept DEF GraceInv, Excused
  <2> QED BY <2>2 DEF GraceInv
<1>3. CASE ~Leaving /\ Leaving'
  <2>1. PICK g \in Goroutines : WriteCloseFrame(g) \/ LockToClose(g)
    BY <1>3, LeavingStarts
  <2>2. CASE WriteCloseFrame(g)
    <3>1. ASSUME wire' = Append(wire, "close") PROVE CloseOnWire'
      <4>1. wire \in Seq(Frames)
        BY <1>1 DEF TypeOK
      <4>2. Len(wire') \in 1..Len(wire') /\ wire'[Len(wire')] = "close"
        BY <3>1, <4>1
      <4> QED BY <4>2 DEF CloseOnWire
    <3>2. CloseOnWire' \/ failed'
      BY <1>3, <2>2, <3>1 DEF WriteCloseFrame, WriteOK, WriteFails, Leaving
    <3> QED BY <3>2 DEF GraceInv, Excused
  <2>3. CASE LockToClose(g)
    <3>1. CASE ev.reason > WriteMaxPayloadSize
      BY <2>3, <3>1 DEF LockToClose, lifecycle, GraceInv, Excused
    <3>2. CASE ~(ev.reason > WriteMaxPayloadSize)
      <4>1. netClosed' = netClosed /\ pc' = [pc EXCEPT ![g] = "closeWrite"]
        BY <2>3, <3>2 DEF LockToClose, Goto, lifecycle
      <4>2. ~Leaving'
        BY <1>1, <1>3, <4>1 DEF Leaving, TypeOK
      <4> QED BY <1>3, <4>2
    <3> QED BY <3>1, <3>2
  <2> QED BY <2>1, <2>2, <2>3
<1>4. CASE ~Leaving'
  BY <1>4 DEF GraceInv
<1> QED BY <1>2, <1>3, <1>4

(* The network connection is closed behind the close frame, however many   *)
(* goroutines write, unless a write has failed or genFrame has rejected    *)
(* the reason: writeClose comes to conn.Close through doWrite, and nobody  *)
(* else calls it.                                                          *)
THEOREM GracefulCloseTheorem == Spec => []GracefulClose
<1>1. Init => GraceInv
  BY DEF Init, GraceInv, Leaving
<1>2. Lifecycle /\ GraceInv /\ [Next]_vars => GraceInv'
  BY GraceStep
<1>3. GraceInv => GracefulClose
  BY DEF GraceInv, Leaving, Excused, CloseOnWire, GracefulClose
<1> QED BY <1>1, <1>2, <1>3, LifecycleTheorem, PTL DEF Spec

InFile == {"segment", "segmentWrite", "lastWrite"}

(* The last frame on the wire leaves a message unfinished. *)
OpenEnd == Len(wire) > 0 /\ wire[Len(wire)] \in {"first", "cont"}

(* c.closed is set, or a goroutine is on its way to set it. *)
Doomed == closed \/ \E g \in Goroutines : pc[g] = "emit"

(* A file of which a segment was written is under way. *)
FileUnderWay == segment > 0 => OpenEnd /\ \E g \in Goroutines : pc[g] \in InFile

(* Nothing is torn, and only a file under way is unfinished. *)
Whole ==
    /\ \A i \in 1..Len(wire) : wire[i] # "cut"
    /\ \A i \in 1..(Len(wire) - 1) : wire[i] \in {"first", "cont"} => wire[i + 1] \in {"cont", "last"}
    /\ OpenEnd => segment > 0

MessageInv == SegmentsContiguous /\ FileUnderWay /\ (~Doomed => Whole)

(* A frame is appended to a wire that is whole. *)
LEMMA AppendWhole ==
    ASSUME Whole, segment \in Nat, Len(wire) \in Nat, Len(wire') = Len(wire) + 1,
           \A i \in 1..Len(wire) : wire'[i] = wire[i],
           NEW e \in Frames \ {"cut"}, wire'[Len(wire) + 1] = e,
           segment > 0 => e \in {"cont", "last"},
           e \in {"first", "cont"} => segment' > 0
    PROVE  Whole'
<1>1. \A i \in 1..Len(wire') : wire'[i] # "cut"
  BY DEF Whole
<1>2. ASSUME NEW i \in 1..(Len(wire') - 1), wire'[i] \in {"first", "cont"}
      PROVE  wire'[i + 1] \in {"cont", "last"}
  <2>1. CASE i = Len(wire)
    <3>1. OpenEnd
      BY <1>2, <2>1 DEF OpenEnd
    <3> QED BY <2>1, <3>1 DEF Whole
  <2>2. CASE i < Len(wire)
    BY <1>2, <2>2 DEF Whole
  <2> QED BY <2>1, <2>2
<1>3. OpenEnd' => segment' > 0
  BY DEF OpenEnd
<1> QED BY <1>1, <1>2, <1>3 DEF Whole

(* A continuation is appended to an unfinished message, any other frame to *)
(* any wire.                                                               *)
LEMMA AppendContiguous ==
    ASSUME SegmentsContiguous, Len(wire) \in Nat, Len(wire') = Len(wire) + 1,
           \A i \in 1..Len(wire) : wire'[i] = wire[i],
           NEW e, wire'[Len(wire) + 1] = e,
           e \in {"cont", "last"} => OpenEnd
    PROVE  SegmentsContiguous'
<1> SUFFICES ASSUME NEW i \in 1..Len(wire'), wire'[i] \in {"cont", "last"}
             PROVE  i > 1 /\ wire'[i - 1] \in {"first", "cont"}
  BY DEF SegmentsContiguous
<1>1. CASE i <= Len(wire)
  BY <1>1 DEF SegmentsContiguous
<1>2. CASE i = Len(wire) + 1
  BY <1>2 DEF OpenEnd
<1> QED BY <1>1, <1>2

(* Steps that leave the wire, the segment counter and the goroutines in a  *)
(* file alone, and do not undo what dooms the connection.                  *)
LEMMA MessageKept ==
    ASSUME MessageInv, wire' = wire, segment' = segment, Doomed => Doomed',
           \A g \in Goroutines : pc[g] \in InFile => pc'[g] \in InFile
    PROVE  MessageInv'
<1>1. SegmentsContiguous' /\ OpenEnd' = OpenEnd
  BY DEF MessageInv, SegmentsContiguous, OpenEnd
<1>2. FileUnderWay'
  BY <1>1 DEF MessageInv, FileUnderWay
<1>3. ~Doomed' => Whole'
  BY <1>1 DEF MessageInv, Whole
<1> QED BY <1>1, <1>2, <1>3 DEF MessageInv

(* Writes of whole frames, which hold mu: no file is under way. *)
LEMMA MessageWrite ==
    ASSUME Lifecycle, MessageInv, NEW g \in Goroutines, pc[g] \in InMutex \ InFile,
           NEW f \in {"data", "bcast", "close"}, WriteOK(f) \/ WriteFails,
           segment' = segment, closed' = closed, WriteFails => closed \/ pc'[g] = "emit",
           WriteOK(f) => f # "close" \/ closed,
           NEW l, pc' = [pc EXCEPT ![g] = l]
    PROVE  MessageInv'
<1>1. mu = g /\ segment = 0
  <2>1. mu = g
    BY DEF Lifecycle, MutexHeld
  <2>2. \A h \in Goroutines : pc[h] \in InFile => h = g
    BY <2>1 DEF Lifecycle, MutexHeld, InFile, InMutex
  <2> QED BY <2>1, <2>2 DEF MessageInv, FileUnderWay, Lifecycle, TypeOK
<1>2. FileUnderWay'
  BY <1>1 DEF FileUnderWay
<1>3. TypeOK /\ f \in Frames
  BY DEF Lifecycle, Frames
<1>4. SegmentsContiguous'
  <2>1. CASE wire' = wire
    BY <2>1 DEF MessageInv, SegmentsContiguous
  <2>2. CASE wire' # wire
    BY <1>3, <2>2, WriteAppends, AppendContiguous DEF MessageInv
  <2> QED BY <2>1, <2>2
<1>5. ASSUME ~Doomed' PROVE Whole'
  <2>1. ~closed /\ ~WriteFails /\ WriteOK(f)
    BY <1>5 DEF Doomed
  <2>2. ~Doomed
    BY <1>5, <2>1 DEF Doomed, Lifecycle, TypeOK, InMutex
  <2>3. Whole /\ segment \in Nat
    BY <1>3, <2>2 DEF MessageInv, TypeOK
  <2>4. CASE wire' = wire
    BY <2>3, <2>4 DEF Whole, OpenEnd
  <2>5. CASE wire' # wire
    <3>1. /\ Len(wire) \in Nat /\ Len(wire') = Len(wire) + 1
          /\ \A i \in 1..Len(wire) : wire'[i] = wire[i]
          /\ wire'[Len(wire) + 1] = f
      BY <1>3, <2>1, <2>5, WriteAppends
    <3> QED BY <1>1, <1>3, <2>3, <3>1, AppendWhole
  <2> QED BY <2>4, <2>5
<1> QED BY <1>2, <1>4, <1>5 DEF MessageInv

LEMMA MessageSegment ==
    ASSUME Lifecycle, MessageInv, NEW g \in Goroutines, WriteSegment(g)
    PROVE  MessageInv'
<1> DEFINE f == IF segment = 0 THEN "first" ELSE "cont"
<1>1. TypeOK /\ f \in Frames /\ segment \in Nat /\ closed' = closed
  BY DEF Lifecycle, TypeOK, Frames, WriteSegment, lifecycle
<1>2. CASE WriteOK(f) /\ segment' = segment + 1 /\ Goto(g, "segment")
  <2>1. /\ Len(wire) \in Nat /\ Len(wire') = Len(wire) + 1
        /\ \A i \in 1..Len(wire) : wire'[i] = wire[i]
        /\ wire'[Len(wire) + 1] = f
    <3>1. wire' = Append(wire, f) /\ wire \in Seq(Frames)
      BY <1>1, <1>2 DEF WriteOK, TypeOK
    <3> HIDE DEF f
    <3> QED BY <1>1, <3>1
  <2>2. OpenEnd' /\ segment' > 0
    BY <1>1, <1>2, <2>1 DEF OpenEnd
  <2>3. FileUnderWay'
    <3>1. pc'[g] \in InFile
      BY <1>1, <1>2 DEF Goto, TypeOK, InFile
    <3> QED BY <2>2, <3>1 DEF FileUnderWay
  <2>4. SegmentsContiguous'
    <3>1. f \in {"cont", "last"} => OpenEnd
      BY <1>1 DEF MessageInv, FileUnderWay
    <3> QED BY <2>1, <3>1, AppendContiguous DEF MessageInv
  <2>5. ASSUME ~Doomed' PROVE Whole'
    <3>1. ~Doomed
      BY <1>1, <1>2, <2>5 DEF Doomed, Goto, TypeOK, WriteSegment
    <3>2. Whole
      BY <3>1 DEF MessageInv
    <3>3. f \in Frames \ {"cut"} /\ (segment > 0 => f \in {"cont", "last"})
      BY <1>1 DEF Frames
    <3> QED BY <1>1, <2>1, <2>2, <3>2, <3>3, AppendWhole
  <2> QED BY <2>3, <2>4, <2>5 DEF MessageInv
<1>3. CASE WriteFails /\ FailWith(g, "io") /\ segment' = 0
  <2>1. Doomed'
    BY <1>1, <1>3 DEF Doomed, FailWith, Goto, TypeOK
  <2>2. FileUnderWay'
    BY <1>3 DEF FileUnderWay
  <2>3. SegmentsContiguous'
    <3>1. CASE wire' = wire
      BY <3>1 DEF MessageInv, SegmentsContiguous
    <3>2. CASE wire' # wire
      <4>1. /\ Len(wire) \in Nat /\ Len(wire') = Len(wire) + 1
            /\ \A i \in 1..Len(wire) : wire'[i] = wire[i]
            /\ wire'[Len(wire) + 1] = "cut"
        <5>1. wire' = Append(wire, "cut") /\ wire \in Seq(Frames)
          BY <1>1, <1>3, <3>2 DEF WriteFails, output, TypeOK
        <5> QED BY <5>1
      <4> QED BY <4>1, AppendContiguous DEF MessageInv
    <3> QED BY <3>1, <3>2
  <2> QED BY <2>1, <2>2, <2>3 DEF MessageInv
<1> QED BY <1>2, <1>3 DEF WriteSegment

LEMMA MessageLast ==
    ASSUME Lifecycle, MessageInv, NEW g \in Goroutines, WriteLastSegment(g)
    PROVE  MessageInv'
<1> DEFINE f == IF segment = 0 THEN "data" ELSE "last"
<1>1. TypeOK /\ f \in Frames /\ segment \in Nat /\ closed' = closed /\ segment' = 0
  BY DEF Lifecycle, TypeOK, Frames, WriteLastSegment, lifecycle
<1>2. FileUnderWay'
  BY <1>1 DEF FileUnderWay
<1>3. \/ wire' = wire /\ WriteFails
      \/ \E e \in {f, "cut"} :
           /\ Len(wire) \in Nat /\ Len(wire') = Len(wire) + 1
           /\ \A i \in 1..Len(wire) : wire'[i] = wire[i]
           /\ wire'[Len(wire) + 1] = e
           /\ (e = f /\ WriteOK(f)) \/ (e = "cut" /\ WriteFails)
  <2>1. WriteOK(f) \/ WriteFails
    BY DEF WriteLastSegment
  <2>2. WriteOK(f) => wire' # wire
    <3>1. wire \in Seq(Frames)
      BY <1>1 DEF TypeOK
    <3>2. Len(Append(wire, f)) = Len(wire) + 1
      BY <1>1, <3>1
    <3> QED BY <3>1, <3>2 DEF WriteOK
  <2> QED BY <1>1, <2>1, <2>2, WriteAppends
<1>4. SegmentsContiguous'
  <2>1. CASE wire' = wire
    BY <2>1 DEF MessageInv, SegmentsContiguous
  <2>2. CASE wire' # wire
    <3>1. f \in {"cont", "last"} => OpenEnd
      BY <1>1 DEF MessageInv, FileUnderWay
    <3> QED BY <1>3, <2>2, <3>1, AppendContiguous DEF MessageInv
  <2> QED BY <2>1, <2>2
<1>5. ASSUME ~Doomed' PROVE Whole'
  <2>1. WriteOK(f) /\ Goto(g, "idle")
    BY <1>1, <1>5 DEF WriteLastSegment, Doomed, FailWith, Goto, TypeOK
  <2>2. ~Doomed
    BY <1>1, <1>5, <2>1 DEF Doomed, Goto, TypeOK, WriteLastSegment
  <2>3. Whole
    BY <2>2 DEF MessageInv
  <2>4. /\ Len(wire) \in Nat /\ Len(wire') = Len(wire) + 1
        /\ \A i \in 1..Len(wire) : wire'[i] = wire[i]
        /\ wire'[Len(wire) + 1] = f
    <3>1. wire' = Append(wire, f) /\ wire \in Seq(Frames)
      BY <1>1, <2>1 DEF WriteOK, TypeOK
    <3> HIDE DEF f
    <3> QED BY <1>1, <3>1
  <2>5. f \in Frames \ {"cut"} /\ (segment > 0 => f \in {"cont", "last"}) /\ f \notin {"first", "cont"}
    BY <1>1 DEF Frames
  <2> QED BY <1>1, <2>3, <2>4, <2>5, AppendWhole
<1> QED BY <1>2, <1>4, <1>5 DEF MessageInv

(* A write that succeeds is not one that fails. *)
LEMMA OneOutcome ==
    ASSUME TypeOK, NEW f \in Frames \ {"cut"}, WriteOK(f)
    PROVE  ~WriteFails
<1>1. wire \in Seq(Frames) /\ "cut" \in Frames
  BY DEF TypeOK, Frames
<1>2. /\ Len(Append(wire, f)) = Len(wire) + 1 /\ Len(wire) \in Nat
      /\ Append(wire, f)[Len(wire) + 1] = f /\ Append(wire, "cut")[Len(wire) + 1] = "cut"
  BY <1>1
<1> QED BY <1>1, <1>2 DEF WriteOK, WriteFails, output

LEMMA MessageNetworkStep ==
    ASSUME Lifecycle, MessageInv, NEW g \in Goroutines, NetworkStep(g)
    PROVE  MessageInv'
<1>1. ASSUME NEW f \in {"data", "bcast"}, pc[g] \in {"write", "bcastWrite"},
             segment' = segment, closed' = closed,
             \/ WriteOK(f) /\ Goto(g, "idle")
             \/ WriteFails /\ Goto(g, "emit")
      PROVE  MessageInv'
  <2>1. pc[g] \in InMutex \ InFile /\ f \in Frames \ {"cut"} /\ TypeOK
    BY <1>1 DEF InMutex, InFile, Frames, Lifecycle
  <2>2. CASE WriteOK(f) /\ Goto(g, "idle")
    BY <1>1, <2>1, <2>2, OneOutcome, MessageWrite DEF Goto
  <2>3. CASE WriteFails /\ Goto(g, "emit")
    <3>1. pc' = [pc EXCEPT ![g] = "emit"] /\ pc'[g] = "emit"
      BY <2>1, <2>3 DEF Goto, TypeOK
    <3> QED BY <1>1, <2>1, <2>3, <3>1, MessageWrite
  <2> QED BY <1>1, <2>2, <2>3
<1>2. CASE WriteSegment(g)
  BY <1>2, MessageSegment
<1>3. CASE WriteLastSegment(g)
  BY <1>3, MessageLast
<1>4. CASE WriteFrame(g) \/ (g = Worker /\ WriteBroadcast)
  BY <1>1, <1>4 DEF WriteFrame, WriteBroadcast, FailWith, lifecycle
<1>5. CASE WriteCloseFrame(g)
  <2>1. pc[g] \in InMutex \ InFile /\ closed
    BY <1>5 DEF WriteCloseFrame, InMutex, InFile, Lifecycle, OneCloser, Closing
  <2>2. WriteOK("close") \/ WriteFails
    BY <1>5 DEF WriteCloseFrame
  <2>3. segment' = segment /\ closed' = closed /\ pc' = [pc EXCEPT ![g] = "netClose"]
    BY <1>5 DEF WriteCloseFrame, lifecycle, Goto
  <2> QED BY <2>1, <2>2, <2>3, MessageWrite
<1> QED BY <1>2, <1>3, <1>4, <1>5 DEF NetworkStep

LEMMA MessageOtherStep ==
    ASSUME Lifecycle, MessageInv, NEW g \in Goroutines, OtherStep(g)
    PROVE  MessageInv'
<1>1. TypeOK /\ wire' = wire
  BY DEF Lifecycle, OtherStep, LockToWrite, LockFile, NextSegment, EmitError, StoreError, LockToClose,
     CloseNetConn, CheckBroadcast, LockBroadcast, output
<1>2. CASE NextSegment(g)
  <2>1. CASE segment' = 0 /\ Goto(g, "emit")
    <3>1. Doomed' /\ FileUnderWay'
      BY <1>1, <2>1 DEF Doomed, FileUnderWay, Goto, TypeOK
    <3>2. SegmentsContiguous'
      BY <1>1 DEF MessageInv, SegmentsContiguous
    <3> QED BY <3>1, <3>2 DEF MessageInv
  <2>2. CASE segment' = segment /\ \E l \in {"segmentWrite", "lastWrite"} : Goto(g, l)
    <3>1. \A h \in Goroutines : pc[h] \in InFile => pc'[h] \in InFile
      BY <1>1, <2>2 DEF InFile, Goto, TypeOK
    <3>2. Doomed => Doomed'
      BY <1>1, <1>2, <2>2 DEF NextSegment, Doomed, Goto, lifecycle, TypeOK
    <3> QED BY <1>1, <2>2, <3>1, <3>2, MessageKept
  <2> QED BY <1>2, <2>1, <2>2 DEF NextSegment, FailWith
<1>3. CASE ~NextSegment(g)
  <2>1. segment' = segment
    BY <1>3 DEF OtherStep, LockToWrite, LockFile, EmitError, StoreError, LockToClose,
       CloseNetConn, CheckBroadcast, LockBroadcast
  <2>2. \A h \in Goroutines : pc[h] \in InFile => pc'[h] \in InFile
    BY <1>1, <1>3 DEF OtherStep, LockToWrite, LockFile, EmitError, StoreError, LockToClose,
       CloseNetConn, CheckBroadcast, LockBroadcast, FailWith, Goto, InFile, TypeOK
  <2>3. Doomed => Doomed'
    BY <1>1, <1>3 DEF OtherStep, LockToWrite, LockFile, EmitError, StoreError, LockToClose,
       CloseNetConn, CheckBroadcast, LockBroadcast, FailWith, Goto, Doomed, lifecycle, TypeOK
  <2> QED BY <1>1, <2>1, <2>2, <2>3, MessageKept
<1> QED BY <1>2, <1>3

LEMMA MessageStep ==
    ASSUME Lifecycle, MessageInv, [Next]_vars
    PROVE  MessageInv'
<1>1. TypeOK
  BY DEF Lifecycle
<1>2. ASSUME NEW g \in Goroutines, Call(g)
      PROVE  MessageInv'
  <2>1. pc[g] = "idle" /\ wire' = wire /\ segment' = segment /\ (closed => closed')
    BY <1>2 DEF Call, CallWriteMessage, CallWriteFile, CallBroadcastJob, CallWriteClose,
       CallSetDeadline, StartCall, InUserCode, lifecycle, output
  <2>2. \E l \in Locations : pc' = [pc EXCEPT ![g] = l]
    BY <1>1, <1>2 DEF Call, CallWriteMessage, CallWriteFile, CallBroadcastJob, CallWriteClose, StartCall,
       InUserCode, CallSetDeadline, FailWith, Goto, Locations, Closing, TypeOK
  <2> QED BY <1>1, <2>1, <2>2, MessageKept DEF InFile, Doomed, TypeOK
<1>3. CASE ReadStep \/ PeerStep \/ UNCHANGED vars
  <2>1. wire' = wire /\ segment' = segment /\ (closed => closed')
    BY <1>3 DEF ReadStep, PeerStep, CallbackReturns, LoadError, ReclaimResources, Dispatch,
       HandlerReturns, ReadFragment, ReadPingPong, ReadData, ReadClose, ReadFails, unreader, output, vars
  <2>2. pc' = pc \/ (pc[ReadLoop] = "idle" /\ \E l \in {"store", "emit"} : pc' = [pc EXCEPT ![ReadLoop] = l])
    BY <1>3 DEF ReadStep, PeerStep, CallbackReturns, LoadError, ReclaimResources, Dispatch, Reading,
       HandlerReturns, ReadFragment, ReadPingPong, ReadData, ReadClose, ReadFails, FailWith, Goto, vars
  <2> QED BY <1>1, <2>1, <2>2, MessageKept, RolesDistinct DEF InFile, Doomed, TypeOK
<1> QED BY <1>2, <1>3, MessageNetworkStep, MessageOtherStep DEF Next

LEMMA MessageInvariant == Spec => []MessageInv
<1>1. Init => MessageInv
  BY DEF Init, MessageInv, SegmentsContiguous, FileUnderWay, Whole, OpenEnd
<1>2. Lifecycle /\ MessageInv /\ [Next]_vars => MessageInv'
  BY MessageStep
<1> QED BY <1>1, <1>2, LifecycleTheorem, PTL DEF Spec

(* No frame of another writer comes between two segments of a file:        *)
(* doWriteFile holds mu from the first segment to the last.                *)
THEOREM SegmentsContiguousTheorem == Spec => []SegmentsContiguous
<1>1. MessageInv => SegmentsContiguous
  BY DEF MessageInv
<1> QED BY <1>1, MessageInvariant, PTL

(* Whatever leaves a message torn on the wire, a failed write or a file    *)
(* that ends early, its goroutine brings to emitError, and no goroutine    *)
(* writes behind it on a connection that stays open.                       *)
THEOREM TornIsClosedTheorem == Spec => []TornIsClosed
<1>1. Lifecycle /\ MessageInv => TornIsClosed
  <2> SUFFICES ASSUME Lifecycle, MessageInv, ~Doomed, NEW i \in 1..Len(wire), Torn(i)
               PROVE  FALSE
    BY DEF TornIsClosed, Doomed
  <2>1. Whole /\ Len(wire) \in Nat
    BY DEF MessageInv, Lifecycle, TypeOK
  <2>2. wire[i] \in {"first", "cont"}
    BY <2>1 DEF Torn, Whole
  <2>3. CASE i = Len(wire)
    <3>1. OpenEnd
      BY <2>1, <2>2, <2>3 DEF OpenEnd
    <3>2. \E g \in Goroutines : pc[g] \in InFile
      BY <2>1, <3>1 DEF Whole, MessageInv, FileUnderWay
    <3> QED BY <2>1, <2>3, <3>2 DEF Torn, Whole, InFile
  <2>4. CASE i # Len(wire)
    BY <2>1, <2>2, <2>4 DEF Torn, Whole
  <2> QED BY <2>3, <2>4
<1> QED BY <1>1, MessageInvariant, LifecycleTheorem, PTL
==============================================================================
