------------------------------ MODULE Deflater ------------------------------
(***************************************************************************)
(* The compressors (compress.go) and who uses them at the same time.  The  *)
(* connections of a server share the deflaters of a pool, each of them a   *)
(* compressor under cpsLocker and a decompressor under dpsLocker; a client *)
(* has a deflater of its own.  WriteMessage compresses under its           *)
(* connection's mu and cpsLocker, Broadcast under cpsLocker only, without  *)
(* a dictionary; WriteFile under mu with a compressor of a pool of its own *)
(* on a server and, on a client, with the compressor of the deflater, but  *)
(* without cpsLocker.                                                      *)
(*                                                                         *)
(* flate.Writer and flate.Reader are external: where they write to or read *)
(* from, their dictionary and what they have not yet passed on.  A piece   *)
(* of payload is the call it belongs to.  A call is [kind, conn], a        *)
(* goroutine that makes it once.                                           *)
(***************************************************************************)
EXTENDS Integers, Sequences, FiniteSets

CONSTANTS Conns,    \* connections
          MayStall, \* those whose peer may stop reading: a write then never returns
          Calls,    \* the calls, of Kinds \X Conns as records
          PoolSize, \* of deflaters on a server: a power of two (option.go)
          Pieces    \* bound: pieces of a payload

Kinds == {"message", "broadcast", "file", "read"}

ASSUME DeflaterAssumption ==
    /\ MayStall \subseteq Conns
    /\ Calls \subseteq [kind : Kinds, conn : Conns]
    /\ PoolSize \in Nat \ {0} /\ Pieces \in Nat \ {0}

NoCall == [kind |-> "none", conn |-> "none"]

NoDeflater   == <<"none", 0>>
Pooled(i)    == <<"pooled", i>>
Own(c)       == <<"own", c>>
Deflaters    == {Pooled(i) : i \in 0..(PoolSize - 1)} \cup {Own(c) : c \in Conns}
BigDeflaters == {<<"big", i>> : i \in 1..Cardinality(Conns)}

VARIABLES isServer, serial,
          stalled,      \* the connections whose peer does not read
          deflater,     \* of each connection, none before the handshake
          mu,           \* the call that holds a connection's mu
          cpsLocker, dpsLocker,
          bdPool,       \* the big deflaters that are idle
          engine,       \* the compressor a call is using
          writer,       \* a compressor's state: dst, dict, pending
          reader,       \* a decompressor's state: src, dict, and dpsBuffer
          pc, fed,      \* where a call is, and how many pieces it has passed on
          out,          \* what a call has produced: [piece, dict] each
          clash         \* clients on which a file and a broadcast compressed at one time

vars == <<isServer, stalled, serial, deflater, mu, cpsLocker, dpsLocker, bdPool, engine, writer, reader, pc, fed, out, clash>>

Engines == Deflaters \cup BigDeflaters

Init ==
    /\ isServer \in BOOLEAN /\ stalled \in SUBSET MayStall /\ serial = 0
    /\ deflater = [c \in Conns |-> NoDeflater]
    /\ mu = [c \in Conns |-> NoCall]
    /\ cpsLocker = [d \in Deflaters |-> NoCall] /\ dpsLocker = [d \in Deflaters |-> NoCall]
    /\ bdPool = BigDeflaters
    /\ engine = [t \in Calls |-> NoDeflater]
    /\ writer = [e \in Engines |-> [dst |-> NoCall, dict |-> "none", pending |-> <<>>]]
    /\ reader = [d \in Deflaters |-> [src |-> NoCall, dict |-> "none", buffer |-> <<>>]]
    /\ pc = [t \in Calls |-> "idle"] /\ fed = [t \in Calls |-> 0]
    /\ out = [t \in Calls |-> <<>>] /\ clash = {}

Goto(t, l) == pc' = [pc EXCEPT ![t] = l]

(* deflaterPool.Select on a server (PoolSize is a power of two: & is %),   *)
(* new(deflater) on a client.                                              *)
Connect(c) ==
    /\ deflater[c] = NoDeflater
    /\ IF isServer
       THEN serial' = serial + 1 /\ deflater' = [deflater EXCEPT ![c] = Pooled(serial' % PoolSize)]
       ELSE deflater' = [deflater EXCEPT ![c] = Own(c)] /\ UNCHANGED serial
    /\ UNCHANGED <<isServer, stalled, mu, cpsLocker, dpsLocker, bdPool, engine, writer, reader, pc, fed, out, clash>>

-----------------------------------------------------------------------------
(* doWrite and doWriteFile take mu. *)
LockMu(t) ==
    /\ pc[t] = "idle" /\ deflater[t.conn] # NoDeflater /\ t.kind \in {"message", "file"}
    /\ mu[t.conn] = NoCall /\ mu' = [mu EXCEPT ![t.conn] = t]
    /\ Goto(t, IF t.kind = "message" THEN "compress" ELSE "borrow")
    /\ UNCHANGED <<isServer, stalled, serial, deflater, cpsLocker, dpsLocker, bdPool, engine, writer, reader, fed, out, clash>>

(* deflater.Compress: of compressData, so of a message or of a broadcast. *)
Compress_Unlocked(t) ==
    /\ pc[t] = (IF t.kind = "message" THEN "compress" ELSE "idle")
    /\ deflater[t.conn] # NoDeflater /\ t.kind \in {"message", "broadcast"}
    /\ engine' = [engine EXCEPT ![t] = deflater[t.conn]]
    /\ Goto(t, "reset")
    /\ UNCHANGED <<isServer, stalled, serial, deflater, mu, cpsLocker, dpsLocker, bdPool, writer, reader, fed, out, clash>>

Compress(t) ==
    /\ pc[t] = (IF t.kind = "message" THEN "compress" ELSE "idle")
    /\ deflater[t.conn] # NoDeflater /\ t.kind \in {"message", "broadcast"}
    /\ LET d == deflater[t.conn]
       IN  /\ cpsLocker[d] = NoCall /\ cpsLocker' = [cpsLocker EXCEPT ![d] = t]
           /\ engine' = [engine EXCEPT ![t] = d]
    /\ Goto(t, "reset")
    /\ UNCHANGED <<isServer, stalled, serial, deflater, mu, dpsLocker, bdPool, writer, reader, fed, out, clash>>

(* getBigDeflater: from bdPool, which makes a new one when it has none, or *)
(* the compressor of the client's own deflater.                            *)
GetBigDeflater_Shared(t) ==
    /\ pc[t] = "borrow"
    /\ LET d == deflater[t.conn]
       IN  /\ cpsLocker[d] = NoCall /\ cpsLocker' = [cpsLocker EXCEPT ![d] = t]
           /\ engine' = [engine EXCEPT ![t] = d]
    /\ Goto(t, "reset")
    /\ UNCHANGED <<isServer, stalled, serial, deflater, mu, dpsLocker, bdPool, writer, reader, fed, out, clash>>

GetBigDeflater(t) ==
    /\ pc[t] = "borrow"
    /\ IF isServer
       THEN \E e \in bdPool : bdPool' = bdPool \ {e} /\ engine' = [engine EXCEPT ![t] = e]
       ELSE engine' = [engine EXCEPT ![t] = deflater[t.conn]] /\ UNCHANGED bdPool
    /\ Goto(t, "reset")
    /\ UNCHANGED <<isServer, stalled, serial, deflater, mu, cpsLocker, dpsLocker, writer, reader, fed, out, clash>>

-----------------------------------------------------------------------------
(* compressTo: ResetDict, then the pieces of the payload, then Flush. *)
Compressing(t) == pc[t] \in {"reset", "feed", "segment"}

ResetDict(t) ==
    /\ pc[t] = "reset"
    /\ writer' = [writer EXCEPT ![engine[t]] =
                    [dst |-> t, dict |-> IF t.kind = "broadcast" THEN "none" ELSE t.conn, pending |-> <<>>]]
    /\ clash' = IF \E u \in Calls \ {t} : /\ Compressing(u) /\ engine[u] = engine[t]
                                          /\ {t.kind, u.kind} = {"file", "broadcast"}
                THEN clash \cup {t.conn}
                ELSE clash
    /\ Goto(t, "feed")
    /\ UNCHANGED <<isServer, stalled, serial, deflater, mu, cpsLocker, dpsLocker, bdPool, engine, reader, fed, out>>

Feed(t) ==
    /\ pc[t] = "feed" /\ fed[t] < Pieces
    /\ writer' = [writer EXCEPT ![engine[t]].pending = Append(@, t)]
    /\ fed' = [fed EXCEPT ![t] = @ + 1]
    /\ UNCHANGED <<isServer, stalled, serial, deflater, mu, cpsLocker, dpsLocker, bdPool, engine, reader, pc, out, clash>>

(* What a compressor has pending goes to where it was last reset to. *)
PassOn(e) ==
    LET w == writer[e]
    IN  /\ out' = [out EXCEPT ![w.dst] = @ \o [i \in 1..Len(w.pending) |-> [piece |-> w.pending[i], dict |-> w.dict]]]
        /\ writer' = [writer EXCEPT ![e].pending = <<>>]

(* The compressor of a file fills a segment: flateWriter's cb writes it to *)
(* the connection before the compressor goes on.                           *)
Segment(t) ==
    /\ pc[t] = "feed" /\ t.kind = "file" /\ writer[engine[t]].pending # <<>>
    /\ PassOn(engine[t])
    /\ Goto(t, "segment")
    /\ UNCHANGED <<isServer, stalled, serial, deflater, mu, cpsLocker, dpsLocker, bdPool, engine, reader, fed, clash>>

SegmentWritten(t) ==
    /\ pc[t] = "segment" /\ t.conn \notin stalled
    /\ Goto(t, "feed")
    /\ UNCHANGED <<isServer, stalled, serial, deflater, mu, cpsLocker, dpsLocker, bdPool, engine, writer, reader, fed, out, clash>>

(* Flush, and the unlocking that follows it.  A broadcast's frame is then  *)
(* made; a message and the last segment of a file go to the connection.    *)
Flush(t) ==
    /\ pc[t] = "feed" /\ fed[t] = Pieces
    /\ PassOn(engine[t])
    /\ cpsLocker' = [d \in Deflaters |-> IF cpsLocker[d] = t THEN NoCall ELSE cpsLocker[d]]
    /\ Goto(t, IF t.kind = "broadcast" THEN "done" ELSE "write")
    /\ UNCHANGED <<isServer, stalled, serial, deflater, mu, dpsLocker, bdPool, engine, reader, fed, clash>>

(* The write returns; putBigDeflater of a server; unlock mu. *)
Written(t) ==
    /\ pc[t] = "write" /\ t.conn \notin stalled
    /\ bdPool' = IF engine[t] \in BigDeflaters THEN bdPool \cup {engine[t]} ELSE bdPool
    /\ mu' = [mu EXCEPT ![t.conn] = NoCall]
    /\ Goto(t, "done")
    /\ UNCHANGED <<isServer, stalled, serial, deflater, cpsLocker, dpsLocker, engine, writer, reader, fed, out, clash>>

-----------------------------------------------------------------------------
(* deflater.Decompress, on the goroutine that reads: lock, resetFR, copy   *)
(* through dpsBuffer, copy that to a buffer of the pool, unlock.           *)
Decompress(t) ==
    /\ pc[t] = "idle" /\ t.kind = "read" /\ deflater[t.conn] # NoDeflater
    /\ LET d == deflater[t.conn]
       IN  /\ dpsLocker[d] = NoCall /\ dpsLocker' = [dpsLocker EXCEPT ![d] = t]
           /\ reader' = [reader EXCEPT ![d] = [src |-> t, dict |-> t.conn, buffer |-> <<>>]]
    /\ Goto(t, "copy")
    /\ UNCHANGED <<isServer, stalled, serial, deflater, mu, cpsLocker, bdPool, engine, writer, fed, out, clash>>

Copy(t) ==
    /\ pc[t] = "copy" /\ fed[t] < Pieces
    /\ LET d == deflater[t.conn]
           r == reader[d]
       IN  reader' = [reader EXCEPT ![d].buffer = Append(@, [piece |-> r.src, dict |-> r.dict])]
    /\ fed' = [fed EXCEPT ![t] = @ + 1]
    /\ UNCHANGED <<isServer, stalled, serial, deflater, mu, cpsLocker, dpsLocker, bdPool, engine, writer, pc, out, clash>>

(* CopyBuffer ends with the message, or with an error (a corrupt stream,   *)
(* or more than the limit), which leaves dpsBuffer as it is.               *)
Decompressed(t) ==
    /\ pc[t] = "copy"
    /\ LET d == deflater[t.conn]
       IN  /\ \/ fed[t] = Pieces /\ out' = [out EXCEPT ![t] = reader[d].buffer] /\ Goto(t, "done")
              \/ fed[t] < Pieces /\ Goto(t, "failed") /\ UNCHANGED out
           /\ dpsLocker' = [dpsLocker EXCEPT ![d] = NoCall]
    /\ UNCHANGED <<isServer, stalled, serial, deflater, mu, cpsLocker, bdPool, engine, writer, reader, fed, clash>>

-----------------------------------------------------------------------------
Step(t) ==
    \/ LockMu(t) \/ Compress(t) \/ GetBigDeflater(t)
    \/ ResetDict(t) \/ Feed(t) \/ Segment(t) \/ SegmentWritten(t) \/ Flush(t) \/ Written(t)
    \/ Decompress(t) \/ Copy(t) \/ Decompressed(t)

Next == (\E c \in Conns : Connect(c)) \/ (\E t \in Calls : Step(t))

(* The scheduler runs every goroutine that can go on. *)
Spec ==
    /\ Init /\ [][Next]_vars
    /\ \A c \in Conns : WF_vars(Connect(c))
    /\ \A t \in Calls : WF_vars(Step(t))

-----------------------------------------------------------------------------
(* A call's bytes are its own: whatever runs at the same time on the same  *)
(* deflater, what Compress and Decompress return is the caller's payload,  *)
(* all of it, with the caller's dictionary (none for a broadcast).  The    *)
(* exception is a client that broadcasts while it writes a file: the file  *)
(* uses deflater.cpsWriter without cpsLocker.                              *)
OwnBytes ==
    \A t \in Calls :
      pc[t] \in {"write", "done"} /\ t.conn \notin clash =>
        out[t] = [i \in 1..Pieces |->
                    [piece |-> t, dict |-> IF t.kind = "broadcast" THEN "none" ELSE t.conn]]

(* A peer that does not read stalls its own connection only: every call on *)
(* another connection returns, though both use one deflater, and so does   *)
(* every read and every broadcast's compression.  (A client's WriteFile    *)
(* and a server's keep a compressor while they write, but none that        *)
(* another call waits for.)                                                *)
StallIsLocal ==
    \A t \in Calls :
      t.conn \notin stalled \/ t.kind \in {"read", "broadcast"} => <>(pc[t] \in {"done", "failed"})
=============================================================================
