--------------------------- MODULE DeflaterProofs ---------------------------
(***************************************************************************)
(* What Compress and Decompress return is the caller's own, for any number *)
(* of connections, deflaters and pieces.  Locks decides who has which      *)
(* compressor; Clashing, who may share one; Contents, what is in it.       *)
(***************************************************************************)
EXTENDS Deflater, TLAPS

PooledDeflaters == {Pooled(i) : i \in 0..(PoolSize - 1)}
Places == {"idle", "compress", "borrow", "reset", "feed", "segment", "write", "copy", "done", "failed"}
Dict(t) == IF t.kind = "broadcast" THEN "none" ELSE t.conn
Mine(t) == [piece |-> t, dict |-> Dict(t)]

AnyCall == Calls \cup {NoCall}
AnyDict == Conns \cup {"none"}
Chunks  == [piece : AnyCall, dict : AnyDict]

Types ==
    /\ isServer \in BOOLEAN /\ serial \in Nat
    /\ deflater \in [Conns -> Deflaters \cup {NoDeflater}]
    /\ mu \in [Conns -> AnyCall]
    /\ cpsLocker \in [Deflaters -> AnyCall]
    /\ dpsLocker \in [Deflaters -> AnyCall]
    /\ bdPool \subseteq BigDeflaters
    /\ engine \in [Calls -> Engines \cup {NoDeflater}]
    /\ pc \in [Calls -> Places]
    /\ clash \subseteq Conns

Writers == [dst : AnyCall, dict : AnyDict, pending : Seq(Calls)]
Readers == [src : AnyCall, dict : AnyDict, buffer : Seq(Chunks)]

DataTypes ==
    /\ writer \in [Engines -> Writers]
    /\ reader \in [Deflaters -> Readers]
    /\ fed \in [Calls -> Nat]
    /\ out \in [Calls -> Seq(Chunks)]

(* A server's connections have deflaters of the pool, a client its own. *)
Selected ==
    \A c \in Conns : deflater[c] # NoDeflater =>
        deflater[c] \in IF isServer THEN PooledDeflaters ELSE {Own(c)}

(* Where a call can be depends on what it is. *)
Path(kind) ==
    CASE kind = "message"   -> {"idle", "compress", "reset", "feed", "write", "done"}
      [] kind = "broadcast" -> {"idle", "reset", "feed", "done"}
      [] kind = "file"      -> {"idle", "borrow", "reset", "feed", "segment", "write", "done"}
      [] kind = "read"      -> {"idle", "copy", "done", "failed"}

OnPath ==
    \A t \in Calls :
        /\ pc[t] \in Path(t.kind)
        /\ pc[t] # "idle" => deflater[t.conn] # NoDeflater

HoldsMu ==
    \A t \in Calls :
        t.kind \in {"message", "file"} /\ pc[t] \notin {"idle", "done"} => mu[t.conn] = t

HoldsLockers ==
    \A t \in Calls :
        /\ t.kind \in {"message", "broadcast"} /\ pc[t] \notin {"idle", "compress"} => engine[t] = deflater[t.conn]
        /\ t.kind \in {"message", "broadcast"} /\ pc[t] \in {"reset", "feed"} => cpsLocker[deflater[t.conn]] = t
        /\ pc[t] = "copy" => dpsLocker[deflater[t.conn]] = t

Borrowing(t) == t.kind = "file" /\ pc[t] \in {"reset", "feed", "segment", "write"}
Borrowed ==
    \A t \in Calls : Borrowing(t) =>
        /\ engine[t] \in IF isServer THEN BigDeflaters \ bdPool ELSE {Own(t.conn)}
        /\ isServer => \A u \in Calls \ {t} : Borrowing(u) => engine[u] # engine[t]

Locks == Types /\ Selected /\ OnPath /\ HoldsMu /\ HoldsLockers /\ Borrowed

PastReset(t) == pc[t] \in {"feed", "segment"}

(* Two calls have one compressor only on a client that clashed. *)
Clashing ==
    /\ isServer => clash = {}
    /\ \A t, u \in Calls : t # u /\ PastReset(t) /\ PastReset(u) /\ engine[t] = engine[u] => t.conn \in clash

(* What is in a compressor, and what its call has got out of it. *)
Feeds(t, w) ==
    /\ w.dst = t /\ w.dict = Dict(t)
    /\ \A i \in 1..Len(w.pending) : w.pending[i] = t
    /\ \A i \in 1..Len(out[t]) : out[t][i] = Mine(t)
    /\ Len(out[t]) + Len(w.pending) = fed[t]

Full(t) == [i \in 1..Pieces |-> Mine(t)]

Early == {"idle", "compress", "borrow", "reset"}

Content(t) ==
    /\ PastReset(t) => writer[engine[t]].dst \in Calls /\ writer[engine[t]].dst.conn = t.conn
    /\ pc[t] \in Early => fed[t] = 0
    /\ t.conn \notin clash =>
          /\ pc[t] \in Early => out[t] = <<>>
          /\ PastReset(t) => Feeds(t, writer[engine[t]])
          /\ pc[t] \in {"write", "done"} => out[t] = Full(t)

Contents == \A t \in Calls : Content(t)

Reading(t) ==
    pc[t] = "copy" =>
        LET r == reader[deflater[t.conn]]
        IN  /\ r.src = t /\ r.dict = t.conn
            /\ r.buffer = [i \in 1..fed[t] |-> Mine(t)]
            /\ fed[t] <= Pieces

Reads == \A t \in Calls : Reading(t)

Inv == Locks /\ DataTypes /\ Clashing /\ Contents /\ Reads

-----------------------------------------------------------------------------
LEMMA CallTyped ==
    ASSUME NEW t \in Calls
    PROVE  t.kind \in Kinds /\ t.conn \in Conns /\ t # NoCall
BY DeflaterAssumption DEF Kinds, NoCall

LEMMA NoCallFacts == NoCall \notin Calls /\ NoCall \in AnyCall /\ Calls \subseteq AnyCall
BY CallTyped DEF AnyCall

LEMMA EngineFacts ==
    /\ NoDeflater \notin Deflaters /\ NoDeflater \notin BigDeflaters
    /\ PooledDeflaters \subseteq Deflaters
    /\ Deflaters \cap BigDeflaters = {}
    /\ \A c \in Conns : Own(c) \in Deflaters /\ Own(c) \notin PooledDeflaters
    /\ \A c, e \in Conns : Own(c) = Own(e) => c = e
    /\ Deflaters \subseteq Engines /\ BigDeflaters \subseteq Engines
BY DEF NoDeflater, Deflaters, BigDeflaters, PooledDeflaters, Pooled, Own, Engines

(* What a place tells of the call. *)
LEMMA PathFacts ==
    ASSUME OnPath, NEW t \in Calls
    PROVE  /\ pc[t] = "compress" => t.kind = "message"
           /\ pc[t] \in {"reset", "feed"} => t.kind \in {"message", "broadcast", "file"}
           /\ pc[t] \in {"borrow", "segment"} => t.kind = "file"
           /\ pc[t] = "write" => t.kind \in {"message", "file"}
           /\ pc[t] \in {"copy", "failed"} => t.kind = "read"
           /\ pc[t] # "idle" => deflater[t.conn] # NoDeflater
<1>1. t.kind \in Kinds
  BY CallTyped
<1> QED BY <1>1 DEF OnPath, Path, Kinds

LEMMA LocksInit == Init => Locks /\ DataTypes /\ Clashing /\ Contents /\ Reads
<1> SUFFICES ASSUME Init PROVE Locks /\ DataTypes /\ Clashing /\ Contents /\ Reads
  OBVIOUS
<1> USE DEF Init
<1>1. Types
  BY NoCallFacts DEF Types, Places
<1>2. DataTypes
  <2>1. [dst |-> NoCall, dict |-> "none", pending |-> <<>>] \in Writers
    BY NoCallFacts DEF Writers, AnyDict
  <2>2. [src |-> NoCall, dict |-> "none", buffer |-> <<>>] \in Readers
    BY NoCallFacts DEF Readers, AnyDict
  <2> QED BY <2>1, <2>2 DEF DataTypes
<1>3. Selected
  BY DEF Selected
<1>4. OnPath
  BY CallTyped DEF OnPath, Path, Kinds
<1>5. HoldsMu /\ HoldsLockers /\ Borrowed
  BY DEF HoldsMu, HoldsLockers, Borrowed, Borrowing
<1>6. Clashing /\ Contents /\ Reads
  BY DEF Clashing, Contents, Content, Reads, Reading, PastReset
<1> QED BY <1>1, <1>2, <1>3, <1>4, <1>5, <1>6 DEF Locks

-----------------------------------------------------------------------------
(* Locks is kept. *)

LEMMA ConnectLocks ==
    ASSUME Locks, NEW c \in Conns, Connect(c)
    PROVE  Locks'
<1> USE DEF Connect, Locks
<1>0. PoolSize \in Nat \ {0}
  BY DeflaterAssumption
<1>1. \A e \in Conns : e # c => deflater'[e] = deflater[e]
  BY DEF Types
<1>2. deflater'[c] \in IF isServer THEN PooledDeflaters ELSE {Own(c)}
  <2>1. serial' % PoolSize \in 0..(PoolSize - 1) \/ ~isServer
    BY <1>0 DEF Types
  <2> QED BY <2>1 DEF Types, PooledDeflaters
<1>3. \A t \in Calls : t.conn = c => pc[t] = "idle"
  BY DEF OnPath
<1>4. deflater' \in [Conns -> Deflaters \cup {NoDeflater}]
  BY <1>2, EngineFacts DEF Types
<1>5. serial' \in Nat
  BY DEF Types
<1>6. Types'
  BY <1>4, <1>5 DEF Types
<1>7. Selected'
  BY <1>1, <1>2 DEF Selected
<1>8. OnPath'
  BY <1>1, <1>3, CallTyped DEF OnPath
<1>9. HoldsMu' /\ Borrowed'
  BY DEF HoldsMu, Borrowed, Borrowing
<1>10. HoldsLockers'
  BY <1>1, <1>3, CallTyped DEF HoldsLockers
<1> QED BY <1>6, <1>7, <1>8, <1>9, <1>10

LEMMA LockMuLocks ==
    ASSUME Locks, NEW t \in Calls, LockMu(t)
    PROVE  Locks'
<1> USE DEF LockMu, Locks, Goto
<1>0. t.kind \in Kinds /\ t.conn \in Conns
  BY CallTyped
<1>1. pc'[t] # pc[t] => \A u \in Calls : u # t => pc'[u] = pc[u]
  BY DEF Types
<1>2. Types'
  BY <1>0, NoCallFacts, EngineFacts DEF Types, Places
<1>3. Selected'
  BY DEF Selected
<1>4. OnPath'
  BY <1>0, PathFacts DEF OnPath, Path, Types
<1>5. HoldsMu'
  BY <1>0, NoCallFacts, PathFacts DEF HoldsMu, Types
<1>6. HoldsLockers'
  BY <1>0, NoCallFacts, PathFacts DEF HoldsLockers, Types
<1>7. Borrowed'
  BY <1>0, EngineFacts, PathFacts DEF Borrowed, Borrowing, Types
<1> QED BY <1>2, <1>3, <1>4, <1>5, <1>6, <1>7

LEMMA CompressLocks ==
    ASSUME Locks, NEW t \in Calls, Compress(t)
    PROVE  Locks'
<1> USE DEF Compress, Locks, Goto
<1>0. t.kind \in Kinds /\ t.conn \in Conns
  BY CallTyped
<1>1. pc'[t] # pc[t] => \A u \in Calls : u # t => pc'[u] = pc[u]
  BY DEF Types
<1>2. Types'
  BY <1>0, NoCallFacts, EngineFacts DEF Types, Places
<1>3. Selected'
  BY DEF Selected
<1>4. OnPath'
  BY <1>0, PathFacts DEF OnPath, Path, Types
<1>5. HoldsMu'
  BY <1>0, NoCallFacts, PathFacts DEF HoldsMu, Types
<1>6. HoldsLockers'
  BY <1>0, NoCallFacts, PathFacts DEF HoldsLockers, Types
<1>7. Borrowed'
  BY <1>0, EngineFacts, PathFacts DEF Borrowed, Borrowing, Types
<1> QED BY <1>2, <1>3, <1>4, <1>5, <1>6, <1>7

LEMMA GetBigDeflaterLocks ==
    ASSUME Locks, NEW t \in Calls, GetBigDeflater(t)
    PROVE  Locks'
<1> USE DEF GetBigDeflater, Locks, Goto
<1>0. t.kind \in Kinds /\ t.conn \in Conns
  BY CallTyped
<1>1. pc'[t] # pc[t] => \A u \in Calls : u # t => pc'[u] = pc[u]
  BY DEF Types
<1>2. Types'
  BY <1>0, NoCallFacts, EngineFacts DEF Types, Places
<1>3. Selected'
  BY DEF Selected
<1>4. OnPath'
  BY <1>0, PathFacts DEF OnPath, Path, Types
<1>5. HoldsMu'
  BY <1>0, NoCallFacts, PathFacts DEF HoldsMu, Types
<1>6. HoldsLockers'
  BY <1>0, NoCallFacts, PathFacts DEF HoldsLockers, Types
<1>7. Borrowed'
  <2>1. t.kind = "file" /\ pc[t] = "borrow" /\ engine' = [engine EXCEPT ![t] = engine'[t]] /\ ~Borrowing(t)
    BY PathFacts DEF Types, Borrowing
  <2>2. \A u \in Calls : u # t => engine'[u] = engine[u] /\ (Borrowing(u)' <=> Borrowing(u))
    BY <2>1 DEF Types, Borrowing
  <2>3. CASE isServer
    <3>1. PICK e \in bdPool : bdPool' = bdPool \ {e} /\ engine'[t] = e
      BY <2>3 DEF Types
    <3>2. e \in BigDeflaters /\ isServer'
      BY <2>3, <3>1 DEF Types
    <3>3. \A u \in Calls : u # t /\ Borrowing(u) => engine[u] \in BigDeflaters \ bdPool
      BY <2>3 DEF Borrowed
    <3>4. \A u, v \in Calls : u # v /\ Borrowing(u) /\ Borrowing(v) => engine[u] # engine[v]
      BY <2>3 DEF Borrowed
    <3> QED BY <2>2, <2>3, <3>1, <3>2, <3>3, <3>4 DEF Borrowed
  <2>4. CASE ~isServer
    <3>1. engine'[t] = Own(t.conn)
      BY <1>0, <2>4, PathFacts DEF Types, Selected
    <3> QED BY <2>2, <2>4, <3>1 DEF Borrowed
  <2> QED BY <2>3, <2>4
<1> QED BY <1>2, <1>3, <1>4, <1>5, <1>6, <1>7

LEMMA ResetDictLocks ==
    ASSUME Locks, NEW t \in Calls, ResetDict(t)
    PROVE  Locks'
<1> USE DEF ResetDict, Locks, Goto
<1>0. t.kind \in Kinds /\ t.conn \in Conns
  BY CallTyped
<1>1. pc'[t] # pc[t] => \A u \in Calls : u # t => pc'[u] = pc[u]
  BY DEF Types
<1>2. Types'
  BY <1>0, NoCallFacts, EngineFacts DEF Types, Places
<1>3. Selected'
  BY DEF Selected
<1>4. OnPath'
  BY <1>0, PathFacts DEF OnPath, Path, Types
<1>5. HoldsMu'
  BY <1>0, NoCallFacts, PathFacts DEF HoldsMu, Types
<1>6. HoldsLockers'
  BY <1>0, NoCallFacts, PathFacts DEF HoldsLockers, Types
<1>7. Borrowed'
  BY <1>0, EngineFacts, PathFacts DEF Borrowed, Borrowing, Types
<1> QED BY <1>2, <1>3, <1>4, <1>5, <1>6, <1>7

LEMMA FeedLocks ==
    ASSUME Locks, NEW t \in Calls, Feed(t)
    PROVE  Locks'
<1> USE DEF Feed, Locks, Goto
<1>0. t.kind \in Kinds /\ t.conn \in Conns
  BY CallTyped
<1>1. pc'[t] # pc[t] => \A u \in Calls : u # t => pc'[u] = pc[u]
  BY DEF Types
<1>2. Types'
  BY <1>0, NoCallFacts, EngineFacts DEF Types, Places
<1>3. Selected'
  BY DEF Selected
<1>4. OnPath'
  BY <1>0, PathFacts DEF OnPath, Path, Types
<1>5. HoldsMu'
  BY <1>0, NoCallFacts, PathFacts DEF HoldsMu, Types
<1>6. HoldsLockers'
  BY <1>0, NoCallFacts, PathFacts DEF HoldsLockers, Types
<1>7. Borrowed'
  BY <1>0, EngineFacts, PathFacts DEF Borrowed, Borrowing, Types
<1> QED BY <1>2, <1>3, <1>4, <1>5, <1>6, <1>7

LEMMA SegmentLocks ==
    ASSUME Locks, NEW t \in Calls, Segment(t)
    PROVE  Locks'
<1> USE DEF Segment, Locks, Goto
<1>0. t.kind \in Kinds /\ t.conn \in Conns
  BY CallTyped
<1>1. pc'[t] # pc[t] => \A u \in Calls : u # t => pc'[u] = pc[u]
  BY DEF Types
<1>2. Types'
  BY <1>0, NoCallFacts, EngineFacts DEF Types, Places
<1>3. Selected'
  BY DEF Selected
<1>4. OnPath'
  BY <1>0, PathFacts DEF OnPath, Path, Types
<1>5. HoldsMu'
  BY <1>0, NoCallFacts, PathFacts DEF HoldsMu, Types
<1>6. HoldsLockers'
  BY <1>0, NoCallFacts, PathFacts DEF HoldsLockers, Types
<1>7. Borrowed'
  BY <1>0, EngineFacts, PathFacts DEF Borrowed, Borrowing, Types
<1> QED BY <1>2, <1>3, <1>4, <1>5, <1>6, <1>7

LEMMA SegmentWrittenLocks ==
    ASSUME Locks, NEW t \in Calls, SegmentWritten(t)
    PROVE  Locks'
<1> USE DEF SegmentWritten, Locks, Goto
<1>0. t.kind \in Kinds /\ t.conn \in Conns
  BY CallTyped
<1>1. pc'[t] # pc[t] => \A u \in Calls : u # t => pc'[u] = pc[u]
  BY DEF Types
<1>2. Types'
  BY <1>0, NoCallFacts, EngineFacts DEF Types, Places
<1>3. Selected'
  BY DEF Selected
<1>4. OnPath'
  BY <1>0, PathFacts DEF OnPath, Path, Types
<1>5. HoldsMu'
  BY <1>0, NoCallFacts, PathFacts DEF HoldsMu, Types
<1>6. HoldsLockers'
  BY <1>0, NoCallFacts, PathFacts DEF HoldsLockers, Types
<1>7. Borrowed'
  BY <1>0, EngineFacts, PathFacts DEF Borrowed, Borrowing, Types
<1> QED BY <1>2, <1>3, <1>4, <1>5, <1>6, <1>7

LEMMA FlushLocks ==
    ASSUME Locks, NEW t \in Calls, Flush(t)
    PROVE  Locks'
<1> USE DEF Flush, Locks, Goto
<1>0. t.kind \in Kinds /\ t.conn \in Conns
  BY CallTyped
<1>1. pc'[t] # pc[t] => \A u \in Calls : u # t => pc'[u] = pc[u]
  BY DEF Types
<1>2. Types'
  BY <1>0, NoCallFacts, EngineFacts DEF Types, Places
<1>3. Selected'
  BY DEF Selected
<1>4. OnPath'
  BY <1>0, PathFacts DEF OnPath, Path, Types
<1>5. HoldsMu'
  BY <1>0, NoCallFacts, PathFacts DEF HoldsMu, Types
<1>6. HoldsLockers'
  <2> SUFFICES ASSUME NEW u \in Calls
               PROVE  /\ u.kind \in {"message", "broadcast"} /\ pc'[u] \notin {"idle", "compress"} => engine[u] = deflater[u.conn]
                      /\ u.kind \in {"message", "broadcast"} /\ pc'[u] \in {"reset", "feed"} => cpsLocker'[deflater[u.conn]] = u
                      /\ pc'[u] = "copy" => dpsLocker[deflater[u.conn]] = u
    BY DEF HoldsLockers
  <2>1. CASE u = t
    <3>1. pc'[u] \in {"write", "done"} /\ pc[u] = "feed"
      BY <2>1 DEF Types
    <3> QED BY <2>1, <3>1 DEF HoldsLockers
  <2>2. CASE u # t
    <3>1. pc'[u] = pc[u]
      BY <2>2 DEF Types
    <3>2. pc[u] # "idle" => deflater[u.conn] \in Deflaters
      BY CallTyped DEF OnPath, Types
    <3>3. \A d \in Deflaters : cpsLocker[d] = u => cpsLocker'[d] = u
      BY <2>2
    <3> QED BY <3>1, <3>2, <3>3 DEF HoldsLockers
  <2> QED BY <2>1, <2>2
<1>7. Borrowed'
  BY <1>0, EngineFacts, PathFacts DEF Borrowed, Borrowing, Types
<1> QED BY <1>2, <1>3, <1>4, <1>5, <1>6, <1>7

LEMMA WrittenLocks ==
    ASSUME Locks, NEW t \in Calls, Written(t)
    PROVE  Locks'
<1> USE DEF Written, Locks, Goto
<1>0. t.kind \in Kinds /\ t.conn \in Conns
  BY CallTyped
<1>1. pc'[t] # pc[t] => \A u \in Calls : u # t => pc'[u] = pc[u]
  BY DEF Types
<1>2. Types'
  BY <1>0, NoCallFacts, EngineFacts DEF Types, Places
<1>3. Selected'
  BY DEF Selected
<1>4. OnPath'
  BY <1>0, PathFacts DEF OnPath, Path, Types
<1>5. HoldsMu'
  BY <1>0, NoCallFacts, PathFacts DEF HoldsMu, Types
<1>6. HoldsLockers'
  BY <1>0, NoCallFacts, PathFacts DEF HoldsLockers, Types
<1>7. Borrowed'
  <2>1. /\ ~Borrowing(t)'
        /\ \A u \in Calls : u # t => (Borrowing(u)' <=> Borrowing(u))
    BY DEF Types, Borrowing
  <2>2. engine[t] \in BigDeflaters => Borrowing(t)
    <3>1. t.kind = "message" => engine[t] \in Deflaters
      BY <1>0, PathFacts DEF HoldsLockers, Types
    <3> QED BY <3>1, EngineFacts, PathFacts DEF Borrowing
  <2>3. \A e : e \in bdPool' => e \in bdPool \/ (e = engine[t] /\ Borrowing(t))
    BY <2>2
  <2>4. \A u \in Calls : u # t /\ Borrowing(u) /\ isServer =>
            engine[u] \in BigDeflaters \ bdPool /\ (Borrowing(t) => engine[u] # engine[t])
    BY DEF Borrowed
  <2>5. \A u \in Calls : u # t /\ Borrowing(u) /\ isServer => engine[u] \notin bdPool'
    BY <2>3, <2>4
  <2> QED BY <2>1, <2>4, <2>5 DEF Borrowed
<1> QED BY <1>2, <1>3, <1>4, <1>5, <1>6, <1>7

LEMMA DecompressLocks ==
    ASSUME Locks, NEW t \in Calls, Decompress(t)
    PROVE  Locks'
<1> USE DEF Decompress, Locks, Goto
<1>0. t.kind \in Kinds /\ t.conn \in Conns
  BY CallTyped
<1>1. pc'[t] # pc[t] => \A u \in Calls : u # t => pc'[u] = pc[u]
  BY DEF Types
<1>2. Types'
  BY <1>0, NoCallFacts, EngineFacts DEF Types, Places
<1>3. Selected'
  BY DEF Selected
<1>4. OnPath'
  BY <1>0, PathFacts DEF OnPath, Path, Types
<1>5. HoldsMu'
  BY <1>0, NoCallFacts, PathFacts DEF HoldsMu, Types
<1>6. HoldsLockers'
  BY <1>0, NoCallFacts, PathFacts DEF HoldsLockers, Types
<1>7. Borrowed'
  BY <1>0, EngineFacts, PathFacts DEF Borrowed, Borrowing, Types
<1> QED BY <1>2, <1>3, <1>4, <1>5, <1>6, <1>7

LEMMA CopyLocks ==
    ASSUME Locks, NEW t \in Calls, Copy(t)
    PROVE  Locks'
<1> USE DEF Copy, Locks, Goto
<1>0. t.kind \in Kinds /\ t.conn \in Conns
  BY CallTyped
<1>1. pc'[t] # pc[t] => \A u \in Calls : u # t => pc'[u] = pc[u]
  BY DEF Types
<1>2. Types'
  BY <1>0, NoCallFacts, EngineFacts DEF Types, Places
<1>3. Selected'
  BY DEF Selected
<1>4. OnPath'
  BY <1>0, PathFacts DEF OnPath, Path, Types
<1>5. HoldsMu'
  BY <1>0, NoCallFacts, PathFacts DEF HoldsMu, Types
<1>6. HoldsLockers'
  BY <1>0, NoCallFacts, PathFacts DEF HoldsLockers, Types
<1>7. Borrowed'
  BY <1>0, EngineFacts, PathFacts DEF Borrowed, Borrowing, Types
<1> QED BY <1>2, <1>3, <1>4, <1>5, <1>6, <1>7

LEMMA DecompressedLocks ==
    ASSUME Locks, NEW t \in Calls, Decompressed(t)
    PROVE  Locks'
<1> USE DEF Decompressed, Locks, Goto
<1>0. t.kind \in Kinds /\ t.conn \in Conns
  BY CallTyped
<1>1. pc'[t] # pc[t] => \A u \in Calls : u # t => pc'[u] = pc[u]
  BY DEF Types
<1>2. Types'
  BY <1>0, NoCallFacts, EngineFacts DEF Types, Places
<1>3. Selected'
  BY DEF Selected
<1>4. OnPath'
  BY <1>0, PathFacts DEF OnPath, Path, Types
<1>5. HoldsMu'
  BY <1>0, NoCallFacts, PathFacts DEF HoldsMu, Types
<1>6. HoldsLockers'
  BY <1>0, NoCallFacts, PathFacts DEF HoldsLockers, Types
<1>7. Borrowed'
  BY <1>0, EngineFacts, PathFacts DEF Borrowed, Borrowing, Types
<1> QED BY <1>2, <1>3, <1>4, <1>5, <1>6, <1>7

LEMMA LocksStep == Locks /\ [Next]_vars => Locks'
<1> SUFFICES ASSUME Locks, [Next]_vars PROVE Locks'
  OBVIOUS
<1>1. CASE UNCHANGED vars
  BY <1>1 DEF vars, Locks, Types, Selected, OnPath, HoldsMu, HoldsLockers, Borrowed, Borrowing
<1>2. ASSUME NEW t \in Calls, Step(t) PROVE Locks'
  BY <1>2, LockMuLocks, CompressLocks, GetBigDeflaterLocks, ResetDictLocks, FeedLocks, SegmentLocks,
     SegmentWrittenLocks, FlushLocks, WrittenLocks, DecompressLocks, CopyLocks, DecompressedLocks, Zenon DEF Step
<1> QED BY <1>1, <1>2, ConnectLocks, Zenon DEF Next

-----------------------------------------------------------------------------
(* Who shares a compressor. *)

LEMMA Holders ==
    ASSUME Locks, NEW t \in Calls, Compressing(t)
    PROVE  /\ t.kind \in {"message", "broadcast", "file"} /\ t.conn \in Conns
           /\ t.kind \in {"message", "file"} => mu[t.conn] = t
           /\ t.kind # "file" => cpsLocker[engine[t]] = t /\ engine[t] \in Deflaters
           /\ t.kind # "file" /\ ~isServer => engine[t] = Own(t.conn)
           /\ t.kind = "file" /\ ~isServer => engine[t] = Own(t.conn)
           /\ t.kind = "file" /\ isServer => engine[t] \in BigDeflaters
           /\ t.kind = "file" /\ isServer =>
                 \A u \in Calls \ {t} : u.kind = "file" /\ Compressing(u) => engine[u] # engine[t]
<1> USE DEF Locks, Compressing
<1>1. t.kind \in {"message", "broadcast", "file"} /\ t.conn \in Conns /\ deflater[t.conn] # NoDeflater
      /\ (t.kind # "file" => pc[t] \in {"reset", "feed"})
  BY PathFacts, CallTyped
<1>2. t.kind \in {"message", "file"} => mu[t.conn] = t
  BY DEF HoldsMu
<1>3. t.kind # "file" => cpsLocker[engine[t]] = t /\ engine[t] = deflater[t.conn]
  BY <1>1 DEF HoldsLockers
<1>4. deflater[t.conn] \in Deflaters /\ (~isServer => deflater[t.conn] = Own(t.conn))
  BY <1>1, EngineFacts DEF Types, Selected
<1>5. t.kind = "file" => Borrowing(t)
  BY DEF Borrowing
<1>6. \A u \in Calls : u.kind = "file" /\ Compressing(u) => Borrowing(u)
  BY DEF Borrowing
<1> QED BY <1>1, <1>2, <1>3, <1>4, <1>5, <1>6 DEF Borrowed

LEMMA SharedEngine ==
    ASSUME Locks, NEW t \in Calls, NEW u \in Calls, t # u, Compressing(t), Compressing(u),
           engine[t] = engine[u]
    PROVE  ~isServer /\ t.conn = u.conn /\ {t.kind, u.kind} = {"file", "broadcast"}
<1>1. CASE t.kind # "file" /\ u.kind # "file"
  BY <1>1, Holders
<1>2. CASE t.kind = "file" /\ u.kind = "file"
  BY <1>2, Holders, EngineFacts
<1>3. CASE t.kind = "file" /\ u.kind # "file"
  BY <1>3, Holders, EngineFacts
<1>4. CASE t.kind # "file" /\ u.kind = "file"
  BY <1>4, Holders, EngineFacts
<1> QED BY <1>1, <1>2, <1>3, <1>4

LEMMA ClashingStep == Locks /\ Clashing /\ [Next]_vars => Clashing' /\ clash \subseteq clash'
<1> SUFFICES ASSUME Locks, Clashing, [Next]_vars PROVE Clashing' /\ clash \subseteq clash'
  OBVIOUS
<1>1. CASE UNCHANGED vars
  BY <1>1 DEF vars, Clashing, PastReset
<1>2. ASSUME NEW c \in Conns, Connect(c) PROVE Clashing' /\ clash \subseteq clash'
  BY <1>2 DEF Connect, Clashing, PastReset
<1>3. ASSUME NEW t \in Calls, ResetDict(t) PROVE Clashing' /\ clash \subseteq clash'
  <2>1. Compressing(t) /\ \A u \in Calls : PastReset(u) => Compressing(u)
    BY <1>3 DEF ResetDict, Compressing, PastReset
  <2>2. \A u \in Calls : u # t => (PastReset(u)' <=> PastReset(u))
    BY <1>3 DEF ResetDict, Goto, PastReset, Locks, Types
  <2>3. engine' = engine /\ isServer' = isServer /\ clash \subseteq clash'
    BY <1>3 DEF ResetDict
  <2>4. ASSUME NEW u \in Calls \ {t}, PastReset(u), engine[t] = engine[u]
        PROVE  ~isServer /\ t.conn = u.conn /\ t.conn \in clash'
    <3>1. ~isServer /\ t.conn = u.conn /\ {t.kind, u.kind} = {"file", "broadcast"}
      BY <2>1, <2>4, SharedEngine
    <3> QED BY <1>3, <2>1, <2>4, <3>1 DEF ResetDict
  <2>5. isServer => clash' = clash
    <3>1. ASSUME NEW u \in Calls \ {t}, Compressing(u), engine[u] = engine[t] PROVE ~isServer
      BY <2>1, <3>1, SharedEngine
    <3> QED BY <1>3, <3>1 DEF ResetDict
  <2> QED BY <2>2, <2>3, <2>4, <2>5 DEF Clashing
<1>4. ASSUME NEW t \in Calls,
             \/ LockMu(t) \/ Compress(t) \/ GetBigDeflater(t) \/ Feed(t) \/ Segment(t) \/ SegmentWritten(t)
             \/ Flush(t) \/ Written(t) \/ Decompress(t) \/ Copy(t) \/ Decompressed(t)
      PROVE  Clashing' /\ clash \subseteq clash'
  <2>1. clash' = clash /\ isServer' = isServer
    BY <1>4 DEF LockMu, Compress, GetBigDeflater, Feed, Segment, SegmentWritten, Flush, Written,
       Decompress, Copy, Decompressed
  <2>2. \A u \in Calls : PastReset(u)' => PastReset(u) /\ engine'[u] = engine[u]
    BY <1>4 DEF LockMu, Compress, GetBigDeflater, Feed, Segment, SegmentWritten, Flush, Written,
       Decompress, Copy, Decompressed, Goto, PastReset, Locks, Types
  <2> QED BY <2>1, <2>2 DEF Clashing
<1> QED BY <1>1, <1>2, <1>3, <1>4 DEF Next, Step

(* A call of a connection that did not clash has its compressor alone. *)
LEMMA Alone ==
    ASSUME Locks, Clashing, NEW t \in Calls, PastReset(t), t.conn \notin clash,
           NEW u \in Calls, u # t, PastReset(u)
    PROVE  engine[u] # engine[t]
BY DEF Clashing

-----------------------------------------------------------------------------
(* What is in a compressor. *)

LEMMA PassOnTypes ==
    ASSUME DataTypes, NEW e \in Engines, PassOn(e)
    PROVE  /\ writer' \in [Engines -> Writers]
           /\ out' \in [Calls -> Seq(Chunks)]
<1> DEFINE w == writer[e]
           passed == [i \in 1..Len(w.pending) |-> [piece |-> w.pending[i], dict |-> w.dict]]
<1>1. w \in Writers /\ w.dst \in AnyCall /\ w.dict \in AnyDict /\ w.pending \in Seq(Calls)
  BY DEF DataTypes, Writers
<1>2. passed \in Seq(Chunks)
  <2>1. \A i \in 1..Len(w.pending) : w.pending[i] \in AnyCall
    BY <1>1, NoCallFacts
  <2>2. \A i \in 1..Len(w.pending) : [piece |-> w.pending[i], dict |-> w.dict] \in Chunks
    BY <1>1, <2>1 DEF Chunks
  <2>3. Len(w.pending) \in Nat
    BY <1>1
  <2> QED BY <2>2, <2>3
<1>3. out' = [out EXCEPT ![w.dst] = @ \o passed]
  BY DEF PassOn
<1>4. writer' = [writer EXCEPT ![e].pending = <<>>]
  BY DEF PassOn
<1> HIDE DEF w, passed
<1>5. out' \in [Calls -> Seq(Chunks)]
  <2>1. w.dst \in Calls => out[w.dst] \o passed \in Seq(Chunks)
    BY <1>2 DEF DataTypes
  <2> QED BY <1>3, <2>1 DEF DataTypes
<1>6. writer' \in [Engines -> Writers]
  <2>1. ASSUME NEW v \in Writers PROVE [v EXCEPT !.pending = <<>>] \in Writers
    <3>1. <<>> \in Seq(Calls)
      OBVIOUS
    <3> QED BY <3>1 DEF Writers
  <2> QED BY <1>4, <2>1 DEF DataTypes
<1> QED BY <1>5, <1>6

LEMMA DataTypesStep == Locks /\ DataTypes /\ [Next]_vars => DataTypes'
<1> SUFFICES ASSUME Locks, DataTypes, [Next]_vars PROVE DataTypes'
  OBVIOUS
<1>1. CASE UNCHANGED vars
  BY <1>1 DEF vars, DataTypes
<1>2. ASSUME NEW c \in Conns, Connect(c) PROVE DataTypes'
  BY <1>2 DEF Connect, DataTypes
<1>3. ASSUME NEW t \in Calls, Step(t) PROVE DataTypes'
  <2>0. t.kind \in Kinds /\ t.conn \in Conns /\ t \in AnyCall
    BY CallTyped, NoCallFacts
  <2>1. CASE LockMu(t) \/ Compress(t) \/ GetBigDeflater(t) \/ SegmentWritten(t) \/ Written(t)
    BY <2>1 DEF LockMu, Compress, GetBigDeflater, SegmentWritten, Written, DataTypes
  <2>2. CASE ResetDict(t)
    <3>1. [dst |-> t, dict |-> Dict(t), pending |-> <<>>] \in Writers
      BY <2>0 DEF Writers, AnyDict, Dict
    <3> QED BY <2>2, <3>1 DEF ResetDict, DataTypes, Dict
  <2>3. CASE Feed(t)
    <3>1. ASSUME NEW v \in Writers PROVE [v EXCEPT !.pending = Append(@, t)] \in Writers
      <4>1. v.pending \in Seq(Calls)
        BY DEF Writers
      <4>2. Append(v.pending, t) \in Seq(Calls)
        BY <4>1
      <4> QED BY <4>2 DEF Writers
    <3>2. writer' \in [Engines -> Writers]
      BY <2>3, <3>1 DEF Feed, DataTypes
    <3>3. fed' \in [Calls -> Nat]
      BY <2>3 DEF Feed, DataTypes
    <3> QED BY <2>3, <3>2, <3>3 DEF Feed, DataTypes
  <2>4. CASE Segment(t) \/ Flush(t)
    <3>1. engine[t] \in Engines
      BY <2>4, <2>0, Holders, EngineFacts DEF Segment, Flush, Compressing
    <3>2. PassOn(engine[t]) /\ reader' = reader /\ fed' = fed
      BY <2>4 DEF Segment, Flush
    <3> QED BY <3>1, <3>2, PassOnTypes DEF DataTypes
  <2>5. CASE Decompress(t)
    <3>1. [src |-> t, dict |-> t.conn, buffer |-> <<>>] \in Readers
      BY <2>0 DEF Readers, AnyDict
    <3> QED BY <2>5, <3>1 DEF Decompress, DataTypes
  <2>6. CASE Copy(t)
    <3>1. deflater[t.conn] \in Deflaters
      BY <2>6, <2>0, PathFacts DEF Copy, Locks, Types
    <3> DEFINE d == deflater[t.conn]
               chunk == [piece |-> reader[d].src, dict |-> reader[d].dict]
    <3>2. reader[d] \in Readers
      BY <3>1 DEF DataTypes
    <3>3. chunk \in Chunks
      BY <3>2 DEF Chunks, Readers
    <3>4. reader' = [reader EXCEPT ![d].buffer = Append(@, chunk)]
      BY <2>6 DEF Copy
    <3>5. fed' \in [Calls -> Nat] /\ writer' = writer /\ out' = out
      BY <2>6 DEF Copy, DataTypes
    <3> HIDE DEF d, chunk
    <3>6. \A r \in Readers : [r EXCEPT !.buffer = Append(@, chunk)] \in Readers
      BY <3>3 DEF Readers
    <3>7. reader' \in [Deflaters -> Readers]
      BY <3>4, <3>6 DEF DataTypes
    <3> QED BY <3>5, <3>7 DEF DataTypes
  <2>7. CASE Decompressed(t)
    <3>1. reader[deflater[t.conn]].buffer \in Seq(Chunks)
      BY <2>7, <2>0, PathFacts DEF Decompressed, Locks, Types, DataTypes, Readers
    <3> QED BY <2>7, <3>1 DEF Decompressed, DataTypes
  <2> QED BY <1>3, <2>1, <2>2, <2>3, <2>4, <2>5, <2>6, <2>7 DEF Step
<1> QED BY <1>1, <1>2, <1>3 DEF Next

(* A call that a step does not touch keeps its contents. *)
LEMMA Untouched ==
    ASSUME Contents, NEW u \in Calls, clash \subseteq clash', fed'[u] = fed[u],
           pc'[u] \in Early => pc[u] \in Early,
           PastReset(u)' => PastReset(u),
           pc'[u] \in {"write", "done"} => pc[u] \in {"write", "done"},
           PastReset(u)' => writer'[engine'[u]].dst \in Calls /\ writer'[engine'[u]].dst.conn = u.conn,
           u.conn \notin clash' => out'[u] = out[u],
           u.conn \notin clash' /\ PastReset(u)' => writer'[engine'[u]] = writer[engine[u]]
    PROVE  Content(u)'
<1>0. Content(u)
  BY DEF Contents
<1>1. u.conn \notin clash' => u.conn \notin clash
  OBVIOUS
<1>2. u.conn \notin clash' /\ PastReset(u)' => Feeds(u, writer[engine[u]])'
  BY <1>0, <1>1 DEF Content, Feeds
<1>3. u.conn \notin clash' => /\ pc'[u] \in Early => out'[u] = <<>>
                              /\ pc'[u] \in {"write", "done"} => out'[u] = Full(u)
  BY <1>0, <1>1 DEF Content
<1> QED BY <1>0, <1>2, <1>3 DEF Content, Full

LEMMA QuietContents ==
    ASSUME Contents, Locks, clash \subseteq clash', writer' = writer, out' = out, fed' = fed,
           \A u \in Calls : /\ pc'[u] \in Early => pc[u] \in Early
                            /\ PastReset(u)' => PastReset(u) /\ engine'[u] = engine[u]
                            /\ pc'[u] \in {"write", "done"} => pc[u] \in {"write", "done"}
    PROVE  Contents'
<1> SUFFICES ASSUME NEW u \in Calls PROVE Content(u)'
  BY DEF Contents
<1>1. PastReset(u)' => writer'[engine'[u]] = writer[engine[u]] /\ PastReset(u)
  OBVIOUS
<1>2. PastReset(u)' => writer'[engine'[u]].dst \in Calls /\ writer'[engine'[u]].dst.conn = u.conn
  BY <1>1 DEF Contents, Content
<1> QED BY <1>1, <1>2, Untouched

LEMMA Concat ==
    ASSUME NEW S, NEW x \in Seq(S), NEW y \in Seq(S)
    PROVE  /\ x \o y \in Seq(S) /\ Len(x \o y) = Len(x) + Len(y)
           /\ \A i \in 1..Len(x \o y) :
                (x \o y)[i] = IF i <= Len(x) THEN x[i] ELSE y[i - Len(x)]
           /\ Len(x) \in Nat /\ Len(y) \in Nat
OBVIOUS

LEMMA UsesEngine ==
    ASSUME Locks, NEW t \in Calls, Compressing(t)
    PROVE  engine[t] \in Engines
BY Holders, EngineFacts

LEMMA ResetDictContents ==
    ASSUME Locks, DataTypes, Clashing, Contents, NEW t \in Calls, ResetDict(t)
    PROVE  Contents'
<1> DEFINE fresh == [dst |-> t, dict |-> Dict(t), pending |-> <<>>]
<1>1. Clashing' /\ clash \subseteq clash'
  BY ClashingStep DEF Next, Step
<1>2. /\ writer' = [writer EXCEPT ![engine[t]] = fresh]
      /\ out' = out /\ fed' = fed /\ engine' = engine /\ pc' = [pc EXCEPT ![t] = "feed"] /\ pc[t] = "reset"
  BY DEF ResetDict, Goto, Dict
<1>3. engine[t] \in Engines /\ Compressing(t)
  BY <1>2, UsesEngine DEF Compressing
<1>4. pc'[t] = "feed" /\ \A u \in Calls : u # t => pc'[u] = pc[u]
  BY <1>2 DEF Locks, Types
<1>5. writer'[engine[t]] = fresh /\ \A e \in Engines : e # engine[t] => writer'[e] = writer[e]
  BY <1>2, <1>3 DEF DataTypes
<1> HIDE DEF fresh
<1>f. fresh.dst = t /\ fresh.dict = Dict(t) /\ fresh.pending = <<>>
  BY DEF fresh
<1>6. Content(t)'
  <2>1. fed'[t] = 0 /\ (t.conn \notin clash' => out'[t] = <<>>)
    BY <1>1, <1>2 DEF Contents, Content, Early
  <2>2. t.conn \notin clash' => Feeds(t, writer[engine[t]])'
    <3>1. writer'[engine'[t]] = fresh
      BY <1>2, <1>5
    <3>2. t.conn \notin clash' => out'[t] = <<>> /\ Len(out'[t]) = 0
      BY <2>1
    <3>3. Len(fresh.pending) = 0
      BY <1>f
    <3>4. \A i \in 1..0 : FALSE
      OBVIOUS
    <3> SUFFICES ASSUME t.conn \notin clash' PROVE Feeds(t, writer[engine[t]])'
      OBVIOUS
    <3>5. /\ \A i \in 1..Len(fresh.pending) : fresh.pending[i] = t
          /\ \A i \in 1..Len(out'[t]) : out'[t][i] = Mine(t)
          /\ Len(out'[t]) + Len(fresh.pending) = fed'[t]
      BY <2>1, <3>2, <3>3, <3>4
    <3> QED BY <1>f, <3>1, <3>5 DEF Feeds
  <2> QED BY <1>2, <1>4, <1>5, <1>f, <2>2 DEF Content, Early
<1>7. ASSUME NEW u \in Calls, u # t PROVE Content(u)'
  <2>1. PastReset(u)' <=> PastReset(u)
    BY <1>4, <1>7 DEF PastReset
  <2>2. PastReset(u) => Compressing(u) /\ engine[u] \in Engines
    BY UsesEngine DEF PastReset, Compressing
  <2>3. PastReset(u)' => writer'[engine'[u]].dst \in Calls /\ writer'[engine'[u]].dst.conn = u.conn
    <3>1. CASE engine[u] = engine[t]
      <4>1. PastReset(u) => t.conn = u.conn
        BY <1>3, <1>7, <2>2, <3>1, SharedEngine
      <4> QED BY <1>2, <1>5, <1>f, <2>1, <3>1, <4>1
    <3>2. CASE engine[u] # engine[t]
      BY <1>2, <1>5, <2>1, <2>2, <3>2 DEF Contents, Content
    <3> QED BY <3>1, <3>2
  <2>4. u.conn \notin clash' /\ PastReset(u)' => writer'[engine'[u]] = writer[engine[u]]
    <3>1. PastReset(u) /\ engine[u] = engine[t] => u.conn \in clash'
      BY <1>1, <1>2, <1>4, <1>7, <2>1 DEF Clashing, PastReset
    <3> QED BY <1>2, <1>5, <2>1, <2>2, <3>1
  <2> QED BY <1>1, <1>2, <1>4, <1>7, <2>1, <2>3, <2>4, Untouched
<1> QED BY <1>6, <1>7 DEF Contents

LEMMA FeedContents ==
    ASSUME Locks, DataTypes, Clashing, Contents, NEW t \in Calls, Feed(t)
    PROVE  Contents'
<1> DEFINE w == writer[engine[t]]
           more == [w EXCEPT !.pending = Append(@, t)]
<1>1. /\ writer' = [writer EXCEPT ![engine[t]] = more]
      /\ out' = out /\ engine' = engine /\ pc' = pc /\ clash' = clash /\ fed' = [fed EXCEPT ![t] = @ + 1]
      /\ PastReset(t)
  BY DEF Feed, PastReset
<1>2. engine[t] \in Engines
  BY <1>1, UsesEngine DEF PastReset, Compressing
<1>3. w \in Writers /\ w.pending \in Seq(Calls)
  BY <1>2 DEF DataTypes, Writers
<1>4. more.dst = w.dst /\ more.dict = w.dict /\ more.pending = Append(w.pending, t)
  BY <1>3 DEF Writers
<1>5. writer'[engine[t]] = more /\ \A e \in Engines : e # engine[t] => writer'[e] = writer[e]
  BY <1>1, <1>2 DEF DataTypes
<1>6. fed'[t] = fed[t] + 1 /\ fed[t] \in Nat /\ \A u \in Calls : u # t => fed'[u] = fed[u]
  BY <1>1 DEF DataTypes
<1>7. Len(out[t]) \in Nat
  BY DEF DataTypes
<1> HIDE DEF more
<1>8. Content(t)'
  <2>1. ASSUME t.conn \notin clash PROVE Feeds(t, writer[engine[t]])'
    <3>1. Feeds(t, w)
      BY <1>1, <2>1 DEF Contents, Content
    <3>2. Len(more.pending) = Len(w.pending) + 1 /\ Len(w.pending) \in Nat
      BY <1>3, <1>4
    <3>3. \A i \in 1..Len(more.pending) : more.pending[i] = t
      BY <1>3, <1>4, <3>1, <3>2 DEF Feeds
    <3>4. Len(out[t]) + Len(more.pending) = fed'[t]
      <4>1. Len(out[t]) + Len(w.pending) = fed[t]
        BY <3>1 DEF Feeds
      <4> HIDE DEF w
      <4> DEFINE n == Len(out[t])
                 k == Len(w.pending)
      <4>2. n \in Nat /\ k \in Nat /\ n + k = fed[t] /\ Len(more.pending) = k + 1
        BY <1>7, <3>2, <4>1
      <4> HIDE DEF n, k
      <4>3. n + Len(more.pending) = fed'[t]
        BY <1>6, <4>2
      <4> QED BY <4>3 DEF n
    <3> QED BY <1>1, <1>4, <1>5, <3>1, <3>3, <3>4 DEF Feeds
  <2>2. writer'[engine'[t]].dst \in Calls /\ writer'[engine'[t]].dst.conn = t.conn
    BY <1>1, <1>4, <1>5 DEF Contents, Content
  <2> QED BY <1>1, <2>1, <2>2 DEF Content, PastReset, Early
<1>9. ASSUME NEW u \in Calls, u # t PROVE Content(u)'
  <2>1. PastReset(u)' <=> PastReset(u)
    BY <1>1 DEF PastReset
  <2>2. PastReset(u) => engine[u] \in Engines
    BY UsesEngine DEF PastReset, Compressing
  <2>3. PastReset(u)' => writer'[engine'[u]].dst \in Calls /\ writer'[engine'[u]].dst.conn = u.conn
    <3>1. CASE engine[u] = engine[t]
      BY <1>1, <1>4, <1>5, <2>1, <3>1 DEF Contents, Content
    <3>2. CASE engine[u] # engine[t]
      BY <1>1, <1>5, <2>1, <2>2, <3>2 DEF Contents, Content
    <3> QED BY <3>1, <3>2
  <2>4. u.conn \notin clash' /\ PastReset(u)' => writer'[engine'[u]] = writer[engine[u]]
    <3>1. PastReset(u) /\ u.conn \notin clash => engine[u] # engine[t]
      BY <1>1, <1>9, Alone
    <3> QED BY <1>1, <1>5, <2>1, <2>2, <3>1
  <2> QED BY <1>1, <1>6, <1>9, <2>1, <2>3, <2>4, Untouched
<1> QED BY <1>8, <1>9 DEF Contents

(* PassOn moves what is pending to its call. *)
LEMMA PassOnContents ==
    ASSUME Locks, DataTypes, Clashing, Contents, NEW t \in Calls, PastReset(t), PassOn(engine[t]),
           fed' = fed, engine' = engine, clash' = clash,
           NEW l, pc' = [pc EXCEPT ![t] = l],
           l = "segment" \/ (l \in {"write", "done"} /\ fed[t] = Pieces)
    PROVE  Contents'
<1> DEFINE w == writer[engine[t]]
           less == [w EXCEPT !.pending = <<>>]
           passed == [i \in 1..Len(w.pending) |-> [piece |-> w.pending[i], dict |-> w.dict]]
<1>1. /\ writer' = [writer EXCEPT ![engine[t]] = less]
      /\ out' = [out EXCEPT ![w.dst] = @ \o passed]
  BY DEF PassOn
<1>2. engine[t] \in Engines
  BY UsesEngine DEF PastReset, Compressing
<1>3. w \in Writers /\ w.pending \in Seq(Calls)
  BY <1>2 DEF DataTypes, Writers
<1>4. less.dst = w.dst /\ less.dict = w.dict /\ less.pending = <<>>
  BY <1>3 DEF Writers
<1>5. writer'[engine[t]] = less /\ \A e \in Engines : e # engine[t] => writer'[e] = writer[e]
  BY <1>1, <1>2 DEF DataTypes
<1>6. w.dst \in Calls /\ w.dst.conn = t.conn
  BY DEF Contents, Content
<1>7. out'[w.dst] = out[w.dst] \o passed /\ \A u \in Calls : u # w.dst => out'[u] = out[u]
  BY <1>1, <1>6 DEF DataTypes
<1>8. pc'[t] = l /\ \A u \in Calls : u # t => pc'[u] = pc[u]
  BY DEF Locks, Types
<1>9. Len(passed) = Len(w.pending) /\ Len(w.pending) \in Nat /\ passed \in Seq(Chunks)
  <2>1. \A i \in 1..Len(w.pending) : [piece |-> w.pending[i], dict |-> w.dict] \in Chunks
    BY <1>3, NoCallFacts DEF Chunks, Writers
  <2>2. Len(w.pending) \in Nat
    BY <1>3
  <2> QED BY <2>1, <2>2
<1>10. \A i \in 1..Len(w.pending) : passed[i] = [piece |-> w.pending[i], dict |-> w.dict]
  OBVIOUS
<1> HIDE DEF less, passed, w
<1>11. Content(t)'
  <2>1. ASSUME t.conn \notin clash
        PROVE  /\ Len(out'[t]) = fed[t] /\ out'[t] \in Seq(Chunks)
               /\ \A i \in 1..Len(out'[t]) : out'[t][i] = Mine(t)
               /\ w.dst = t /\ w.dict = Dict(t)
    <3>1. Feeds(t, w)
      BY <2>1 DEF Contents, Content, w
    <3>2. w.dst = t /\ w.dict = Dict(t) /\ \A i \in 1..Len(w.pending) : passed[i] = Mine(t)
      BY <1>10, <3>1 DEF Feeds, Mine
    <3>3. out'[t] = out[t] \o passed /\ out[t] \in Seq(Chunks)
      BY <1>7, <3>2 DEF DataTypes
    <3>4. /\ Len(out'[t]) = Len(out[t]) + Len(passed) /\ out'[t] \in Seq(Chunks)
          /\ \A i \in 1..Len(out'[t]) :
               out'[t][i] = IF i <= Len(out[t]) THEN out[t][i] ELSE passed[i - Len(out[t])]
          /\ Len(out[t]) \in Nat
      <4> DEFINE a == out[t]
      <4>1. /\ a \o passed \in Seq(Chunks) /\ Len(a \o passed) = Len(a) + Len(passed)
            /\ \A i \in 1..Len(a \o passed) :
                 (a \o passed)[i] = IF i <= Len(a) THEN a[i] ELSE passed[i - Len(a)]
            /\ Len(a) \in Nat
        <5>1. a \in Seq(Chunks) /\ passed \in Seq(Chunks)
          BY <1>9, <3>3
        <5> HIDE DEF a
        <5> QED BY <5>1, Concat
      <4> HIDE DEF a
      <4>2. out'[t] = a \o passed
        BY <3>3 DEF a
      <4>3. /\ Len(out'[t]) = Len(a) + Len(passed) /\ out'[t] \in Seq(Chunks)
            /\ \A i \in 1..Len(out'[t]) :
                 out'[t][i] = IF i <= Len(a) THEN a[i] ELSE passed[i - Len(a)]
            /\ Len(a) \in Nat
        BY <4>1, <4>2, Zenon
      <4> QED BY <4>3, Zenon DEF a
    <3>5. ASSUME NEW i \in 1..Len(out'[t]) PROVE out'[t][i] = Mine(t)
      <4>1. CASE i <= Len(out[t])
        <5>1. i \in 1..Len(out[t]) /\ out'[t][i] = out[t][i]
          BY <3>4, <4>1
        <5> QED BY <3>1, <5>1 DEF Feeds
      <4>2. CASE i > Len(out[t])
        <5>1. i - Len(out[t]) \in 1..Len(passed)
          <6> DEFINE n == Len(out[t])
                     k == Len(passed)
                     m == Len(out'[t])
          <6>1. n \in Nat /\ k \in Nat /\ m = n + k /\ i \in 1..m /\ i > n
            BY <1>9, <3>4, <4>2
          <6> HIDE DEF n, k, m
          <6>2. i - n \in 1..k
            BY <6>1
          <6> QED BY <6>2 DEF n, k
        <5>2. out'[t][i] = passed[i - Len(out[t])]
          BY <3>4, <4>2
        <5> QED BY <1>9, <3>2, <5>1, <5>2
      <4> QED BY <3>4, <4>1, <4>2
    <3> QED BY <1>9, <3>1, <3>2, <3>4, <3>5 DEF Feeds
  <2>2. ASSUME l = "segment", t.conn \notin clash PROVE Feeds(t, writer[engine[t]])'
    <3>1. writer'[engine'[t]] = less
      BY <1>5
    <3>2. Len(less.pending) = 0 /\ \A i \in 1..0 : FALSE
      BY <1>4
    <3>3. /\ Len(out'[t]) + Len(less.pending) = fed'[t]
          /\ \A i \in 1..Len(less.pending) : less.pending[i] = t
      <4>1. fed[t] \in Nat
        BY DEF DataTypes
      <4> QED BY <2>1, <2>2, <3>2, <4>1
    <3> QED BY <1>4, <2>1, <2>2, <3>1, <3>3 DEF Feeds
  <2>3. ASSUME l \in {"write", "done"}, t.conn \notin clash PROVE out'[t] = Full(t)
    <3>1. Len(out'[t]) = Pieces /\ out'[t] \in Seq(Chunks)
      BY <2>1, <2>3
    <3> QED BY <2>1, <2>3, <3>1 DEF Full
  <2>4. writer'[engine'[t]].dst \in Calls /\ writer'[engine'[t]].dst.conn = t.conn
    BY <1>4, <1>5, <1>6
  <2>5. pc'[t] \notin Early
    BY <1>8 DEF Early
  <2>6. PastReset(t)' => l = "segment"
    BY <1>8 DEF PastReset
  <2>7. Full(t)' = Full(t)
    BY DEF Full
  <2> QED BY <1>8, <2>2, <2>3, <2>4, <2>5, <2>6, <2>7 DEF Content
<1>12. ASSUME NEW u \in Calls, u # t PROVE Content(u)'
  <2>1. (PastReset(u)' <=> PastReset(u)) /\ (PastReset(u) => engine[u] \in Engines)
    BY <1>8, <1>12, UsesEngine DEF PastReset, Compressing
  <2>2. PastReset(u)' => writer'[engine'[u]].dst \in Calls /\ writer'[engine'[u]].dst.conn = u.conn
    <3>1. CASE engine[u] = engine[t]
      BY <1>4, <1>5, <2>1, <3>1 DEF Contents, Content, w
    <3>2. CASE engine[u] # engine[t]
      BY <1>5, <2>1, <3>2 DEF Contents, Content
    <3> QED BY <3>1, <3>2
  <2>3. u.conn \notin clash => out'[u] = out[u]
    <3>1. t.conn \notin clash => w.dst = t
      BY DEF Contents, Content, Feeds, w
    <3> QED BY <1>6, <1>7, <1>12, <3>1
  <2>4. u.conn \notin clash /\ PastReset(u)' => writer'[engine'[u]] = writer[engine[u]]
    <3>1. PastReset(u) /\ u.conn \notin clash => engine[u] # engine[t]
      BY <1>12, Alone
    <3> QED BY <1>5, <2>1, <3>1
  <2> QED BY <1>8, <1>12, <2>1, <2>2, <2>3, <2>4, Untouched
<1> QED BY <1>11, <1>12 DEF Contents

LEMMA ReadContents ==
    ASSUME Locks, DataTypes, Contents, Reads, NEW t \in Calls, Copy(t) \/ Decompressed(t)
    PROVE  Contents'
<1>1. pc[t] = "copy" /\ writer' = writer /\ engine' = engine /\ clash' = clash
  BY DEF Copy, Decompressed
<1>2. \A u \in Calls : u # t => pc'[u] = pc[u] /\ fed'[u] = fed[u] /\ out'[u] = out[u]
  BY DEF Copy, Decompressed, Goto, Locks, Types, DataTypes
<1>3. ASSUME NEW u \in Calls, u # t PROVE Content(u)'
  <2>1. PastReset(u)' <=> PastReset(u)
    BY <1>2, <1>3 DEF PastReset
  <2>2. PastReset(u)' => writer'[engine'[u]].dst \in Calls /\ writer'[engine'[u]].dst.conn = u.conn
    BY <1>1, <2>1 DEF Contents, Content
  <2> QED BY <1>1, <1>2, <1>3, <2>1, <2>2, Untouched
<1>4. Content(t)'
  <2>1. pc'[t] \in {"copy", "failed"} \/ (pc'[t] = "done" /\ fed[t] = Pieces /\ out'[t] = reader[deflater[t.conn]].buffer)
    BY <1>1 DEF Copy, Decompressed, Goto, Locks, Types, DataTypes
  <2>2. pc'[t] = "done" => out'[t] = Full(t)
    BY <1>1, <2>1 DEF Reads, Reading, Full
  <2> QED BY <2>1, <2>2 DEF Content, PastReset, Early, Full, Mine, Dict
<1> QED BY <1>3, <1>4 DEF Contents

LEMMA ContentsStep == Locks /\ DataTypes /\ Clashing /\ Contents /\ Reads /\ [Next]_vars => Contents'
<1> SUFFICES ASSUME Locks, DataTypes, Clashing, Contents, Reads, [Next]_vars PROVE Contents'
  OBVIOUS
<1>0. clash \subseteq clash'
  BY ClashingStep
<1>1. CASE UNCHANGED vars
  BY <1>0, <1>1, QuietContents DEF vars, PastReset
<1>2. ASSUME NEW c \in Conns, Connect(c) PROVE Contents'
  BY <1>0, <1>2, QuietContents DEF Connect, PastReset
<1>3. ASSUME NEW t \in Calls,
             LockMu(t) \/ Compress(t) \/ GetBigDeflater(t) \/ SegmentWritten(t) \/ Written(t) \/ Decompress(t)
      PROVE  Contents'
  <2>1. writer' = writer /\ out' = out /\ fed' = fed
    BY <1>3 DEF LockMu, Compress, GetBigDeflater, SegmentWritten, Written, Decompress
  <2>2. \A u \in Calls : /\ pc'[u] \in Early => pc[u] \in Early
                         /\ PastReset(u)' => PastReset(u) /\ engine'[u] = engine[u]
                         /\ pc'[u] \in {"write", "done"} => pc[u] \in {"write", "done"}
    BY <1>3, PathFacts DEF LockMu, Compress, GetBigDeflater, SegmentWritten, Written, Decompress, Goto,
       PastReset, Early, Locks, Types
  <2> QED BY <1>0, <2>1, <2>2, QuietContents
<1>4. ASSUME NEW t \in Calls, Segment(t) PROVE Contents'
  BY <1>4, PassOnContents DEF Segment, Goto, PastReset
<1>5. ASSUME NEW t \in Calls, Flush(t) PROVE Contents'
  BY <1>5, PassOnContents DEF Flush, Goto, PastReset
<1>6. ASSUME NEW t \in Calls, Step(t) PROVE Contents'
  BY <1>3, <1>4, <1>5, <1>6, ResetDictContents, FeedContents, ReadContents, Zenon DEF Step
<1> QED BY <1>1, <1>2, <1>6, Zenon DEF Next

-----------------------------------------------------------------------------
(* What is in dpsBuffer. *)

LEMMA ReadsStep == Locks /\ DataTypes /\ Contents /\ Reads /\ [Next]_vars => Reads'
<1> SUFFICES ASSUME Locks, DataTypes, Contents, Reads, [Next]_vars, NEW u \in Calls, pc'[u] = "copy"
             PROVE  Reading(u)'
  BY DEF Reads, Reading
<1> DEFINE d == deflater[u.conn]
<1>0. pc[u] = "copy" => /\ u.kind = "read" /\ d \in Deflaters /\ d # NoDeflater /\ dpsLocker[d] = u
  BY CallTyped, PathFacts, EngineFacts DEF Locks, HoldsLockers, Types
<1>k. ASSUME pc[u] = "copy", deflater'[u.conn] = d, reader'[d] = reader[d], fed'[u] = fed[u]
      PROVE  Reading(u)'
  BY <1>k DEF Reads, Reading, Mine, Dict
<1>1. CASE UNCHANGED vars
  BY <1>1, <1>k DEF vars
<1>2. ASSUME NEW c \in Conns, Connect(c) PROVE Reading(u)'
  <2>1. pc[u] = "copy" /\ deflater[c] = NoDeflater /\ reader' = reader /\ fed' = fed
    BY <1>2 DEF Connect
  <2>2. d # NoDeflater
    BY <1>0, <2>1
  <2>3. \A e \in Conns : e # c => deflater'[e] = deflater[e]
    BY <1>2 DEF Connect, Locks, Types
  <2>4. deflater'[u.conn] = d
    BY <2>1, <2>2, <2>3, CallTyped
  <2> QED BY <1>k, <2>1, <2>4
<1>3. ASSUME NEW t \in Calls,
             \/ LockMu(t) \/ Compress(t) \/ GetBigDeflater(t) \/ ResetDict(t) \/ Feed(t) \/ Segment(t)
             \/ SegmentWritten(t) \/ Flush(t) \/ Written(t) \/ Decompressed(t)
      PROVE  Reading(u)'
  <2>1. pc[u] = "copy" /\ deflater' = deflater /\ reader' = reader
    BY <1>3 DEF LockMu, Compress, GetBigDeflater, ResetDict, Feed, Segment, SegmentWritten, Flush, Written,
       Decompressed, Goto, Locks, Types
  <2>2. fed'[u] = fed[u]
    BY <1>3, <2>1 DEF LockMu, Compress, GetBigDeflater, ResetDict, Feed, Segment, SegmentWritten, Flush, Written,
       Decompressed, DataTypes
  <2> QED BY <1>k, <2>1, <2>2
<1>4. ASSUME NEW t \in Calls, Decompress(t) PROVE Reading(u)'
  <2>0. deflater[t.conn] \in Deflaters /\ dpsLocker[deflater[t.conn]] = NoCall
    BY <1>4, CallTyped DEF Decompress, Locks, Types
  <2>1. CASE u = t
    <3>1. fed'[u] = 0 /\ u.kind = "read" /\ deflater' = deflater
      BY <1>4, <2>1 DEF Decompress, Contents, Content, Early
    <3>2. reader'[d] = [src |-> u, dict |-> u.conn, buffer |-> <<>>]
      BY <1>4, <2>0, <2>1 DEF Decompress, DataTypes
    <3>3. <<>> = [i \in 1..0 |-> Mine(u)]
      OBVIOUS
    <3>4. 0 <= Pieces
      BY DeflaterAssumption
    <3> QED BY <3>1, <3>2, <3>3, <3>4 DEF Reading, Mine, Dict
  <2>2. CASE u # t
    <3>1. pc[u] = "copy" /\ deflater' = deflater /\ fed' = fed
      BY <1>4, <2>2 DEF Decompress, Goto, Locks, Types
    <3>2. d # deflater[t.conn]
      BY <1>0, <2>0, <3>1, NoCallFacts
    <3>3. reader'[d] = reader[d]
      BY <1>0, <1>4, <3>1, <3>2 DEF Decompress, DataTypes
    <3> QED BY <1>k, <3>1, <3>3
  <2> QED BY <2>1, <2>2
<1>5. ASSUME NEW t \in Calls, Copy(t) PROVE Reading(u)'
  <2>1. pc[u] = "copy" /\ pc[t] = "copy" /\ deflater' = deflater
    BY <1>5 DEF Copy
  <2>2. deflater[t.conn] \in Deflaters /\ dpsLocker[deflater[t.conn]] = t
    BY <2>1, CallTyped, PathFacts, EngineFacts DEF Locks, HoldsLockers, Types
  <2>3. CASE u = t
    <3> DEFINE n == fed[u]
               b == reader[d].buffer
    <3>1. /\ reader[d].src = u /\ reader[d].dict = u.conn /\ b = [i \in 1..n |-> Mine(u)]
          /\ Mine(u) = [piece |-> u, dict |-> u.conn]
      BY <1>0, <2>1 DEF Reads, Reading, Mine, Dict
    <3>2. n \in Nat /\ n < Pieces /\ fed'[u] = n + 1
      BY <1>5, <2>3 DEF Copy, DataTypes
    <3>3. reader[d] \in Readers
      BY <2>2, <2>3 DEF DataTypes
    <3>4. reader'[d] = [reader[d] EXCEPT !.buffer = Append(b, Mine(u))]
      BY <1>5, <2>2, <2>3, <3>1 DEF Copy, DataTypes
    <3>5. reader'[d].src = u /\ reader'[d].dict = u.conn /\ reader'[d].buffer = Append(b, Mine(u))
      BY <3>1, <3>3, <3>4 DEF Readers
    <3> HIDE DEF n, b
    <3>6. Append(b, Mine(u)) = [i \in 1..(n + 1) |-> Mine(u)]
      BY <3>1, <3>2
    <3>7. n + 1 <= Pieces
      BY <3>2, DeflaterAssumption
    <3> QED BY <2>1, <3>2, <3>5, <3>6, <3>7 DEF Reading, Mine, Dict
  <2>4. CASE u # t
    <3>1. d # deflater[t.conn] /\ d \in Deflaters
      BY <1>0, <2>1, <2>2, <2>4
    <3>2. reader'[d] = reader[d] /\ fed'[u] = fed[u]
      BY <1>5, <2>4, <3>1 DEF Copy, DataTypes
    <3> QED BY <1>k, <2>1, <3>2
  <2> QED BY <2>3, <2>4
<1> QED BY <1>1, <1>2, <1>3, <1>4, <1>5, Zenon DEF Next, Step

-----------------------------------------------------------------------------
(* compress.go: whatever runs at the same time on the same deflater, what  *)
(* Compress and Decompress return is the caller's payload, all of it, with *)
(* the caller's dictionary; but for a client that broadcasts while it      *)
(* writes a file, and no server is ever in that case.                      *)
THEOREM OwnBytesTheorem == Spec => []OwnBytes /\ [](isServer => clash = {})
<1>1. Init => Inv
  BY LocksInit DEF Inv
<1>2. Inv /\ [Next]_vars => Inv'
  BY LocksStep, DataTypesStep, ClashingStep, ContentsStep, ReadsStep, Zenon DEF Inv
<1>3. Inv => OwnBytes
  BY DEF Inv, Contents, Content, OwnBytes, Full, Mine, Dict
<1>4. Inv => (isServer => clash = {})
  BY DEF Inv, Clashing
<1> QED BY <1>1, <1>2, <1>3, <1>4, PTL DEF Spec
=============================================================================
