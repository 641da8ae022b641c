-------------------------- MODULE BinaryPoolProofs --------------------------
(***************************************************************************)
(* The two components that pass buffers of binaryPool around.  WriteFile   *)
(* sends the file as one message and shares no buffer, for any sizes and   *)
(* lengths (FileWriter).  The frames of a Broadcaster are freed once and   *)
(* not while they are in use, for any number of sockets and any            *)
(* interleaving of their jobs (Broadcaster).                               *)
(***************************************************************************)
EXTENDS FileWriter, Broadcaster, FiniteSetTheorems, WellFoundedInduction, TLAPS

-----------------------------------------------------------------------------
(* The inductive invariant of FileWriter. *)
Heaps == [cap : [Buf -> Nat], mem : [Buf -> Seq(Int)], idle : [Buf -> Nat]]
Frames == [opcode : {"data", "continuation"}, rsv1 : BOOLEAN, fin : BOOLEAN, payload : Seq(Int)]
Locations == {"start", "read", "flate", "gen", "send", "done"}

FileTypeOK ==
    /\ compress \in BOOLEAN /\ eof \in BOOLEAN /\ fin \in BOOLEAN
    /\ pc \in Locations
    /\ index \in Nat /\ data \in Nat /\ marker \in 0..4
    /\ sent \in Seq(Frames)
    /\ result \in {"none", "ok", "error"}

(* The pool holds a buffer at most once and none that is in use; the       *)
(* segments are different buffers, and no one else's.                      *)
Private(h, outer, bs) ==
    /\ \A b \in Buf : h.idle[b] <= 1 /\ (h.idle[b] = 1 => b \notin outer \cup Range(bs))
    /\ \A i \in 1..Len(bs) : bs[i] \notin outer
    /\ \A i, j \in 1..Len(bs) : i # j => bs[i] # bs[j]

(* What the heap h is to a reader's buffer rb, a frame fr, the buffer o of *)
(* the other connection and the segments bs.                               *)
Owned(h, rb, fr, o, bs) ==
    /\ h \in Heaps
    /\ rb \in Buf \cup {0} /\ fr \in Buf \cup {0}
    /\ o \in [buf : Buf \cup {0}, size : Nat]
    /\ bs \in Seq(Buf)
    /\ Private(h, {rb, fr, o.buf}, bs)
    /\ rb # 0 => rb # fr /\ rb # o.buf
    /\ fr # 0 => fr # o.buf
    /\ o.buf # 0 => h.cap[o.buf] >= o.size
    /\ \A i \in 1..Len(bs) : h.cap[bs[i]] >= SegmentSize

(* What each place of doWriteFile implies for the buffers it has. *)
Places ==
    /\ pc = "start" => rbuf = 0 /\ buffers = <<>> /\ data = 0 /\ marker = 0
    /\ pc = "done" <=> result # "none"
    /\ pc = "read" => rbuf # 0
    /\ pc = "send" <=> frame # 0
    /\ pc # "done" => index = Len(sent)
    /\ ~compress => pc # "flate" /\ buffers = <<>> /\ marker = 0 /\ (pc \in {"gen", "send"} => rbuf # 0)
    /\ compress /\ pc \in {"start", "read", "flate"} => Len(buffers) <= 2
    /\ compress /\ pc \in {"gen", "send"} => IF fin THEN Len(buffers) = 1 ELSE Len(buffers) \in {2, 3}

(* What the compressor writes: the data, d bytes so far, then the marker.  *)
Stream(d, k) == IF k <= d THEN k ELSE Marker[k - d]
Run(d, from, to) == [k \in 1..(to - from) |-> Stream(d, from + k)]

(* The segments bs hold the stream from a to t. *)
Segments(h, bs, d, a, t) ==
    \E at \in [0..Len(bs) -> a..t] :
        /\ at[0] = a /\ at[Len(bs)] = t
        /\ \A i \in 1..Len(bs) : at[i - 1] <= at[i] /\ h.mem[bs[i]] = Run(d, at[i - 1], at[i])

(* The a bytes that were sent, and where the bytes after them are. *)
Progress(a) ==
    /\ SentBefore(Len(sent) + 1) = 1..a
    /\ result = "ok" => a = data
    /\ ~compress /\ pc \in {"start", "read"} => a = data
    /\ ~compress /\ pc \in {"gen", "send"} => heap.mem[rbuf] = Run(data, a, data)
    /\ compress /\ pc \in {"start", "read", "flate"} => Segments(heap, buffers, data, a, data + marker)
    /\ compress /\ pc \in {"gen", "send"} =>
         IF fin THEN heap.mem[buffers[1]] = Run(data, a, data)
         ELSE /\ Segments(heap, buffers, data, a, data + marker)
              /\ a + Len(heap.mem[buffers[1]]) + 4 <= data + marker
    /\ pc = "send" => heap.mem[frame] = heap.mem[Source]

(* Every frame went on where the frames before it ended. *)
Past ==
    \A i \in 1..Len(sent) : \E from \in 0..data :
        /\ SentBefore(i) = 1..from
        /\ sent[i].payload = Bytes(from + 1, from + Len(sent[i].payload))

FileInv ==
    /\ FileTypeOK
    /\ Owned(heap, rbuf, frame, other, buffers)
    /\ Places /\ OneMessage /\ Past
    /\ \E a \in 0..data : Progress(a)

-----------------------------------------------------------------------------
(* The pool.  A size class is at least what was asked for. *)
LEMMA HalfIsInt == Half \in Int /\ Half > 0 /\ Powers \subseteq Int
<1>1. \A k \in Nat : 2^k \in Int
  BY SMT
<1>2. Half \in Int /\ Powers \subseteq Int
  BY <1>1, PoolAssumption DEF Half, Powers
<1>3. QED BY <1>2, FileAssumption

(* A set of sizes has a least one. *)
LEMMA LeastSize ==
    ASSUME NEW S \in SUBSET Nat, S # {}
    PROVE  \E i \in S : \A j \in S : i <= j
<1>1. PICK i \in S : \A j \in S : ~(<<j, i>> \in OpToRel(<, Nat))
  BY WFMin, NatLessThanWellFounded
<1>2. \A j \in S : ~(j < i)
  BY <1>1 DEF OpToRel
<1>3. QED BY <1>2

(* Up to the highest power of two a size is at most its size class. *)
LEMMA CeilBounds ==
    ASSUME NEW v \in Nat
    PROVE  BinaryCeil(v) \in Nat /\ (v <= Half => v <= BinaryCeil(v))
<1> DEFINE F == {c \in Powers : v <= c}
<1>1. F \in SUBSET Nat
  <2>1. \A c \in F : c \in Int /\ v <= c
    BY HalfIsInt, Zenon
  <2> HIDE DEF F
  <2>2. \A c \in F : c \in Nat
    BY <2>1
  <2>3. QED BY <2>2
<1>2. F # {} => Min(F) \in F
  BY <1>1, LeastSize DEF Min
<1>3. v <= Half => F # {}
  <2>1. Width - 1 \in 0..(Width - 1)
    BY PoolAssumption
  <2>2. Half \in Powers
    BY <2>1, Zenon DEF Half, Powers
  <2>3. QED BY <2>2, Zenon
<1> HIDE DEF F
<1>4. BinaryCeil(v) = IF v = 0 \/ F = {} THEN 0 ELSE Min(F)
  BY DEF BinaryCeil, F
<1>5. \A c \in F : c \in Nat /\ v <= c
  BY <1>1 DEF F
<1>6. QED BY <1>2, <1>3, <1>4, <1>5

LEMMA MaxOfTwo ==
    ASSUME NEW x \in Nat, NEW y \in Nat
    PROVE  Max({x, y}) \in {x, y} /\ Max({x, y}) >= x /\ Max({x, y}) >= y
<1>1. \E m \in {x, y} : \A z \in {x, y} : m >= z
  OBVIOUS
<1>2. QED BY <1>1 DEF Max

LEMMA EmptySeq == <<>> \in Seq(Int)
  OBVIOUS

(* What Get does to the heap. *)
LEMMA GetSpec ==
    ASSUME NEW h \in Heaps, NEW n \in Nat, NEW held,
           \A b \in Buf : h.idle[b] <= 1 /\ (h.idle[b] = 1 => b \notin held),
           NEW g \in Get(h, n, held)
    PROVE  /\ g.buf \in Buf \ held
           /\ g.heap \in Heaps
           /\ g.heap.idle[g.buf] = 0 /\ g.heap.mem[g.buf] = <<>>
           /\ n <= Half => n <= g.heap.cap[g.buf]
           /\ \A b \in Buf \ {g.buf} :
                /\ g.heap.idle[b] = h.idle[b]
                /\ g.heap.mem[b] = h.mem[b]
                /\ g.heap.cap[b] = h.cap[b]
<1> DEFINE size == Max({BinaryCeil(Uint32(n)), Begin})
           cap == IF size \in Shards THEN size ELSE n
<1>1. size \in Nat /\ (n <= Half => n <= size)
  <2>1. Uint32(n) \in Nat /\ (n <= Half => Uint32(n) = n)
    BY HalfIsInt DEF Uint32
  <2>2. BinaryCeil(Uint32(n)) \in Nat /\ (n <= Half => n <= BinaryCeil(Uint32(n)))
    BY <2>1, CeilBounds
  <2>3. Begin \in Nat
    BY CeilBounds, PoolAssumption DEF Begin
  <2> HIDE DEF size
  <2>4. size \in Nat /\ size >= BinaryCeil(Uint32(n))
    BY <2>2, <2>3, MaxOfTwo DEF size
  <2>5. QED BY <2>2, <2>4
<1>2. CASE \E b \in Buf : /\ h.idle[b] > 0 /\ h.cap[b] = size
                          /\ g = [buf |-> b, heap |-> [h EXCEPT !.idle[b] = @ - 1, !.mem[b] = <<>>]]
  <2> HIDE DEF size
  <2>1. PICK b \in Buf : /\ h.idle[b] > 0 /\ h.cap[b] = size
                         /\ g = [buf |-> b, heap |-> [h EXCEPT !.idle[b] = @ - 1, !.mem[b] = <<>>]]
    BY <1>2
  <2>2. h.idle[b] = 1
    BY <2>1 DEF Heaps
  <2>3. g.buf = b /\ g.heap = [h EXCEPT !.idle[b] = 0, !.mem[b] = <<>>]
    <3>1. g.buf = b /\ g.heap = [h EXCEPT !.idle[b] = h.idle[b] - 1, !.mem[b] = <<>>]
      BY <2>1, Zenon
    <3>2. h.idle[b] - 1 = 0
      BY <2>2
    <3>3. QED BY <3>1, <3>2, Zenon
  <2>4. g.heap = [cap  |-> h.cap,
                  mem  |-> [h.mem EXCEPT ![b] = <<>>],
                  idle |-> [h.idle EXCEPT ![b] = 0]]
    BY <2>3 DEF Heaps
  <2>5. g.buf \in Buf \ held
    BY <2>1, <2>2, <2>3, Zenon
  <2>6. n <= Half => n <= h.cap[b]
    BY <1>1, <2>1, Zenon
  <2>7. g.heap \in Heaps
    BY <2>4, EmptySeq DEF Heaps
  <2>8. /\ g.heap.idle[b] = 0 /\ g.heap.mem[b] = <<>> /\ g.heap.cap[b] = h.cap[b]
        /\ \A c \in Buf \ {b} :
             /\ g.heap.idle[c] = h.idle[c]
             /\ g.heap.mem[c] = h.mem[c]
             /\ g.heap.cap[c] = h.cap[c]
    BY <2>4 DEF Heaps
  <2>9. QED BY <2>3, <2>5, <2>6, <2>7, <2>8
<1>3. CASE \E b \in Buf \ held :
             g = [buf |-> b, heap |-> [h EXCEPT !.idle[b] = 0, !.mem[b] = <<>>, !.cap[b] = cap]]
  <2> HIDE DEF size
  <2>1. PICK b \in Buf \ held :
             g = [buf |-> b, heap |-> [h EXCEPT !.idle[b] = 0, !.mem[b] = <<>>, !.cap[b] = cap]]
    BY <1>3
  <2>2. cap \in Nat /\ (n <= Half => n <= cap)
    BY <1>1
  <2> HIDE DEF cap
  <2>3. g.buf = b /\ g.heap = [h EXCEPT !.idle[b] = 0, !.mem[b] = <<>>, !.cap[b] = cap]
    BY <2>1
  <2>4. g.heap = [cap  |-> [h.cap EXCEPT ![b] = cap],
                  mem  |-> [h.mem EXCEPT ![b] = <<>>],
                  idle |-> [h.idle EXCEPT ![b] = 0]]
    BY <2>3 DEF Heaps
  <2>5. QED BY <2>1, <2>2, <2>3, <2>4, EmptySeq DEF Heaps
<1>4. QED
  <2> HIDE DEF size
  <2>1. \/ g \in {[buf |-> b, heap |-> [h EXCEPT !.idle[b] = @ - 1, !.mem[b] = <<>>]] :
                    b \in Lowest({c \in Buf : size \in Shards /\ h.idle[c] > 0 /\ h.cap[c] = size})}
        \/ \E S \in SUBSET (Buf \ held) :
             g \in {[buf |-> b, heap |-> [h EXCEPT !.idle[b] = 0, !.mem[b] = <<>>, !.cap[b] = cap]] :
                    b \in Lowest(S)}
    BY Zenon DEF Get, size
  <2>2. QED BY <1>2, <1>3, <2>1, Zenon DEF Lowest

(* What Put and Write do to the heap. *)
LEMMA PutSpec ==
    ASSUME NEW h \in Heaps, NEW b \in Buf
    PROVE  /\ Put(h, b) \in Heaps
           /\ Put(h, b).idle[b] \in {h.idle[b], h.idle[b] + 1}
           /\ \A c \in Buf \ {b} :
                /\ Put(h, b).idle[c] = h.idle[c]
                /\ Put(h, b).mem[c] = h.mem[c]
                /\ Put(h, b).cap[c] = h.cap[c]
<1>1. CASE h.cap[b] \in Shards
  <2>1. Put(h, b) = [cap  |-> h.cap,
                     mem  |-> [h.mem EXCEPT ![b] = <<>>],
                     idle |-> [h.idle EXCEPT ![b] = @ + 1]]
    BY <1>1 DEF Put, Heaps
  <2>2. QED BY <2>1, EmptySeq DEF Heaps
<1>2. CASE h.cap[b] \notin Shards
  BY <1>2, EmptySeq DEF Put, Heaps
<1>3. QED BY <1>1, <1>2

(* Write appends to one buffer, which then has room for what it holds. *)
LEMMA WriteSpec ==
    ASSUME NEW h \in Heaps, NEW b \in Buf, NEW s \in Seq(Int)
    PROVE  /\ Write(h, b, s) \in Heaps
           /\ Write(h, b, s).idle = h.idle
           /\ Write(h, b, s).mem[b] = h.mem[b] \o s
           /\ \A c \in Buf \ {b} :
                Write(h, b, s).mem[c] = h.mem[c] /\ Write(h, b, s).cap[c] = h.cap[c]
           /\ Write(h, b, s).cap[b] >= h.cap[b]
<1> DEFINE n == Len(h.mem[b]) + Len(s)
           cap == IF n > h.cap[b] THEN Max({n, 2 * h.cap[b]}) ELSE h.cap[b]
<1>1. n \in Nat /\ h.cap[b] \in Nat /\ h.mem[b] \o s \in Seq(Int)
  BY DEF Heaps
<1>2. cap \in Nat /\ cap >= h.cap[b]
  <2> HIDE DEF n
  <2>1. Max({n, 2 * h.cap[b]}) \in Nat /\ Max({n, 2 * h.cap[b]}) >= 2 * h.cap[b]
    <3>1. 2 * h.cap[b] \in Nat
      BY <1>1
    <3>2. QED BY <1>1, <3>1, MaxOfTwo
  <2>2. QED BY <1>1, <2>1
<1>3. Write(h, b, s) = [h EXCEPT !.mem[b] = @ \o s, !.cap[b] = cap]
  BY Zenon DEF Write
<1> HIDE DEF cap
<1>4. Write(h, b, s) = [cap  |-> [h.cap EXCEPT ![b] = cap],
                        mem  |-> [h.mem EXCEPT ![b] = @ \o s],
                        idle |-> h.idle]
  BY <1>3 DEF Heaps
<1>5. QED BY <1>1, <1>2, <1>4 DEF Heaps

-----------------------------------------------------------------------------
(* Who holds what.  Private depends on the counts of the pool only, and    *)
(* holds for fewer holders.                                                *)
LEMMA RangeOf ==
    ASSUME NEW bs \in Seq(Buf), NEW b
    PROVE  b \in Range(bs) <=> \E i \in 1..Len(bs) : bs[i] = b
  BY DEF Range

LEMMA PrivateFewer ==
    ASSUME NEW h, NEW h2, h2.idle = h.idle, NEW outer, NEW outer2 \in SUBSET (outer \cup {0}),
           NEW bs \in Seq(Buf), Private(h, outer, bs)
    PROVE  Private(h2, outer2, bs)
<1>1. 0 \notin Buf /\ \A i \in 1..Len(bs) : bs[i] \in Buf
  BY PoolAssumption
<1>2. \A b \in Buf : b \notin outer \cup Range(bs) => b \notin outer2 \cup Range(bs)
  BY <1>1, Zenon
<1>3. \A i \in 1..Len(bs) : bs[i] \notin outer => bs[i] \notin outer2
  BY <1>1, Zenon
<1>4. QED BY <1>2, <1>3, Zenon DEF Private

(* A buffer from Get is new to all holders: it may join either of them. *)
LEMMA PrivateGet ==
    ASSUME NEW h \in Heaps, NEW n \in Nat, NEW outer, NEW bs \in Seq(Buf),
           Private(h, outer, bs),
           NEW g \in Get(h, n, outer \cup Range(bs))
    PROVE  /\ Private(g.heap, outer \cup {g.buf}, bs)
           /\ Private(g.heap, outer, Append(bs, g.buf))
<1> DEFINE held == outer \cup Range(bs)
<1>1. /\ g.buf \in Buf \ held
      /\ g.heap.idle[g.buf] = 0
      /\ \A b \in Buf \ {g.buf} : g.heap.idle[b] = h.idle[b]
  <2>1. \A b \in Buf : h.idle[b] <= 1 /\ (h.idle[b] = 1 => b \notin held)
    BY Zenon DEF Private
  <2> HIDE DEF held
  <2>2. g \in Get(h, n, held)
    BY DEF held
  <2>3. QED BY <2>1, <2>2, GetSpec
<1>2. \A b \in Buf : g.heap.idle[b] <= 1 /\ (g.heap.idle[b] = 1 => b \notin held \cup {g.buf})
  <2>1. ASSUME NEW b \in Buf
        PROVE  g.heap.idle[b] <= 1 /\ (g.heap.idle[b] = 1 => b \notin held \cup {g.buf})
    <3>1. CASE b = g.buf
      BY <1>1, <3>1
    <3>2. CASE b # g.buf
      BY <1>1, <3>2 DEF Private
    <3>3. QED BY <3>1, <3>2
  <2>2. QED BY <2>1
<1>3. Private(g.heap, outer \cup {g.buf}, bs)
  BY <1>1, <1>2, RangeOf DEF Private
<1>4. Private(g.heap, outer, Append(bs, g.buf))
  <2> DEFINE cs == Append(bs, g.buf)
  <2>1. cs \in Seq(Buf) /\ Len(cs) = Len(bs) + 1 /\ cs[Len(bs) + 1] = g.buf
        /\ \A i \in 1..Len(bs) : cs[i] = bs[i]
    BY <1>1
  <2> HIDE DEF cs
  <2>2. Range(cs) \subseteq Range(bs) \cup {g.buf}
    BY <2>1, RangeOf
  <2>3. \A i \in 1..Len(cs) : cs[i] \notin outer
    BY <1>1, <2>1 DEF Private
  <2>4. \A i \in 1..Len(bs) : bs[i] # g.buf
    BY <1>1, RangeOf
  <2>5. \A i, j \in 1..Len(cs) : i # j => cs[i] # cs[j]
    BY <2>1, <2>4 DEF Private
  <2>6. QED BY <1>2, <2>2, <2>3, <2>5, Zenon DEF Private, cs
<1>5. QED BY <1>3, <1>4

(* Put, by a holder who lets go of the buffer. *)
LEMMA PrivatePut ==
    ASSUME NEW h \in Heaps, NEW outer, NEW bs \in Seq(Buf), Private(h, outer, bs),
           NEW b \in Buf, b \in outer,
           NEW outer2 \in SUBSET ((outer \cup {0}) \ {b})
    PROVE  Private(Put(h, b), outer2, bs)
<1>0. 0 \notin Buf /\ \A i \in 1..Len(bs) : bs[i] \in Buf
  BY PoolAssumption
<1>1. h.idle[b] = 0
  BY DEF Private, Heaps
<1>2. \A i \in 1..Len(bs) : bs[i] # b
  BY DEF Private
<1>3. b \notin Range(bs)
  BY <1>2, RangeOf
<1>4. ASSUME NEW c \in Buf
      PROVE  Put(h, b).idle[c] <= 1 /\ (Put(h, b).idle[c] = 1 => c \notin outer2 \cup Range(bs))
  <2>1. CASE c = b
    <3>1. Put(h, b).idle[b] \in {h.idle[b], h.idle[b] + 1}
      BY PutSpec, Zenon
    <3>2. QED BY <1>1, <1>3, <2>1, <3>1
  <2>2. CASE c # b
    <3>1. Put(h, b).idle[c] = h.idle[c]
      BY <2>2, PutSpec, Zenon
    <3>2. c \notin outer \cup Range(bs) => c \notin outer2 \cup Range(bs)
      BY <1>0, Zenon
    <3>3. QED BY <3>1, <3>2 DEF Private
  <2>3. QED BY <2>1, <2>2
<1>5. \A i \in 1..Len(bs) : bs[i] \notin outer2
  BY <1>0, Zenon DEF Private
<1>6. QED BY <1>4, <1>5, Zenon DEF Private

(* The same for the first segment, which leaves the list. *)
LEMMA PrivatePutHead ==
    ASSUME NEW h \in Heaps, NEW outer, NEW bs \in Seq(Buf), Len(bs) > 0, Private(h, outer, bs)
    PROVE  Private(Put(h, bs[1]), outer, Tail(bs))
<1> DEFINE b == bs[1]
           cs == Tail(bs)
<1>1. b \in Buf /\ cs \in Seq(Buf) /\ Len(cs) = Len(bs) - 1 /\ \A i \in 1..Len(cs) : cs[i] = bs[i + 1]
  OBVIOUS
<1>2. b \in Range(bs) /\ b \notin outer
  BY RangeOf DEF Private
<1>3. h.idle[b] = 0
  <2>1. h.idle[b] \in Nat
    BY <1>1 DEF Heaps
  <2>2. h.idle[b] <= 1 /\ h.idle[b] # 1
    BY <1>1, <1>2, Zenon DEF Private
  <2>3. QED BY <2>1, <2>2
<1> HIDE DEF b, cs
<1>4. /\ \A i \in 1..Len(cs) : cs[i] \notin outer /\ cs[i] # b
      /\ \A i, j \in 1..Len(cs) : i # j => cs[i] # cs[j]
  <2>1. \A i \in 1..Len(cs) : i + 1 \in 1..Len(bs) /\ 1 \in 1..Len(bs) /\ i + 1 # 1
    BY <1>1
  <2>2. QED BY <1>1, <2>1 DEF Private, b
<1>5. b \notin Range(cs) /\ Range(cs) \subseteq Range(bs)
  BY <1>1, <1>4, RangeOf
<1>6. ASSUME NEW c \in Buf
      PROVE  Put(h, b).idle[c] <= 1 /\ (Put(h, b).idle[c] = 1 => c \notin outer \cup Range(cs))
  <2>1. CASE c = b
    <3>1. Put(h, b).idle[b] \in {h.idle[b], h.idle[b] + 1}
      BY <1>1, PutSpec, Zenon
    <3>2. QED BY <1>2, <1>3, <1>5, <2>1, <3>1
  <2>2. CASE c # b
    <3>1. Put(h, b).idle[c] = h.idle[c]
      BY <1>1, <2>2, PutSpec
    <3>2. QED BY <1>5, <3>1 DEF Private
  <2>3. QED BY <2>1, <2>2
<1>7. QED BY <1>4, <1>6, Zenon DEF Private, b, cs

-----------------------------------------------------------------------------
(* FlattenSeq and FoldLeft of at most two segments. *)
LEMMA JoinedOne ==
    ASSUME NEW x PROVE FlattenSeq(<<x>>) = x
<1> DEFINE w == [i \in 1..1 |-> x]
<1>1. w = [i \in 1..Len(<<x>>) |-> IF i = 1 THEN <<x>>[i] ELSE w[i - 1] \o <<x>>[i]]
  BY SMT
<1> HIDE DEF w
<1>2. QED BY <1>1 DEF FlattenSeq

LEMMA JoinedTwo ==
    ASSUME NEW x, NEW y PROVE FlattenSeq(<<x, y>>) = x \o y
<1> DEFINE w == [i \in 1..2 |-> IF i = 1 THEN x ELSE x \o y]
           P(f) == f = [i \in 1..Len(<<x, y>>) |-> IF i = 1 THEN <<x, y>>[i] ELSE f[i - 1] \o <<x, y>>[i]]
<1>1. P(w)
  BY SMT
<1>2. ASSUME NEW f, P(f) PROVE f[Len(<<x, y>>)] = x \o y
  <2>1. /\ Len(<<x, y>>) = 2 /\ <<x, y>>[1] = x /\ <<x, y>>[2] = y
        /\ 2 # 1 /\ 2 - 1 = 1 /\ 1 \in 1..2 /\ 2 \in 1..2
    OBVIOUS
  <2>2. \A i \in 1..2 : f[i] = IF i = 1 THEN <<x, y>>[i] ELSE f[i - 1] \o <<x, y>>[i]
    BY <1>2, <2>1, Zenon
  <2>3. f[1] = x /\ f[2] = f[1] \o y
    BY <2>1, <2>2, Zenon
  <2>4. QED BY <2>1, <2>3, Zenon
<1>3. FlattenSeq(<<x, y>>) = (CHOOSE f : P(f))[Len(<<x, y>>)]
  <2>1. Len(<<x, y>>) # 0
    OBVIOUS
  <2>2. QED BY <2>1, Zenon DEF FlattenSeq
<1> HIDE DEF P
<1>4. QED BY <1>1, <1>2, <1>3

LEMMA PutsNone ==
    ASSUME NEW h PROVE FoldLeft(Put, h, <<>>) = h
<1> DEFINE w == [s \in SUBSET {} |-> h]
           P(it) == it = [s \in SUBSET (DOMAIN <<>>) |->
                            IF s = {} THEN h ELSE Put(it[s \ {Max(s)}], <<>>[Max(s)])]
<1>1. DOMAIN <<>> = {}
  OBVIOUS
<1>2. P(w)
  <2>1. \A s \in SUBSET {} : s = {}
    BY Zenon
  <2>2. QED BY <1>1, <2>1, Zenon
<1>3. ASSUME NEW it, P(it) PROVE it[{}] = h
  <2>1. {} \in SUBSET {}
    BY Zenon
  <2>2. QED BY <1>1, <1>3, <2>1, Zenon
<1> HIDE DEF w
<1>4. FoldLeft(Put, h, <<>>) = (CHOOSE it : P(it))[{}]
  BY <1>1 DEF FoldLeft, MapThenFoldSet
<1> HIDE DEF P
<1>5. QED BY <1>2, <1>3, <1>4

LEMMA PutsOne ==
    ASSUME NEW h, NEW b PROVE FoldLeft(Put, h, <<b>>) = Put(h, b)
<1> DEFINE w == [s \in SUBSET {1} |-> IF s = {} THEN h ELSE Put(h, b)]
           P(it) == it = [s \in SUBSET (DOMAIN <<b>>) |->
                            IF s = {} THEN h ELSE Put(it[s \ {Max(s)}], <<b>>[Max(s)])]
<1>0. DOMAIN <<b>> = {1} /\ <<b>>[1] = b
  OBVIOUS
<1>1. Max({1}) = 1
  BY DEF Max
<1>2. P(w)
  <2>1. ASSUME NEW s \in SUBSET {1}, s # {} PROVE w[s] = Put(w[s \ {Max(s)}], <<b>>[Max(s)])
    <3>1. s = {1} /\ s \ {Max(s)} = {}
      BY <2>1, <1>1, Zenon
    <3>2. w[{}] = h /\ w[{1}] = Put(h, b)
      BY Zenon
    <3>3. QED BY <3>1, <3>2, <1>0, <1>1, Zenon
  <2>2. w = [s \in SUBSET {1} |-> IF s = {} THEN h ELSE Put(w[s \ {Max(s)}], <<b>>[Max(s)])]
    <3> HIDE DEF w
    <3>1. w = [s \in SUBSET {1} |-> w[s]] /\ w[{}] = h
      BY Zenon DEF w
    <3>2. QED BY <3>1, <2>1, Zenon
  <2>3. QED BY <2>2, <1>0, Zenon
<1>3. ASSUME NEW it, P(it) PROVE it[{1}] = Put(h, b)
  <2>1. \A s \in SUBSET {1} : it[s] = IF s = {} THEN h ELSE Put(it[s \ {Max(s)}], <<b>>[Max(s)])
    BY <1>3, <1>0, Zenon
  <2>2. it[{}] = h
    BY <2>1, Zenon
  <2>3. {1} # {} /\ {1} \ {Max({1})} = {} /\ <<b>>[Max({1})] = b
    BY <1>0, <1>1, Zenon
  <2>4. QED BY <2>1, <2>2, <2>3, Zenon
<1> HIDE DEF w
<1>4. FoldLeft(Put, h, <<b>>) = (CHOOSE it : P(it))[{1}]
  BY <1>0 DEF FoldLeft, MapThenFoldSet
<1> HIDE DEF P
<1>5. QED BY <1>2, <1>3, <1>4

-----------------------------------------------------------------------------
(* Runs of the stream. *)
LEMMA RunIs ==
    ASSUME NEW d \in Nat, NEW from \in Nat, NEW to \in Nat, from <= to, to <= d + 4
    PROVE  /\ Run(d, from, to) \in Seq(Int)
           /\ Len(Run(d, from, to)) = to - from
           /\ \A k \in 1..(to - from) : Run(d, from, to)[k] = Stream(d, from + k)
<1>1. ASSUME NEW k \in 1..(to - from) PROVE Stream(d, from + k) \in Int
  <2>1. CASE from + k <= d
    BY <2>1 DEF Stream
  <2>2. CASE ~(from + k <= d)
    <3>1. from + k - d \in 1..4
      BY <2>2
    <3>2. \A i \in 1..4 : Marker[i] \in Int
      BY DEF Marker
    <3> QED BY <2>2, <3>1, <3>2 DEF Stream
  <2>3. QED BY <2>1, <2>2
<1>2. to - from \in Nat
  OBVIOUS
<1>3. QED BY <1>1, <1>2 DEF Run

LEMMA ConcatRight ==
    ASSUME NEW u \in Seq(Int), NEW v \in Seq(Int), NEW k \in Nat, Len(u) < k, k <= Len(u) + Len(v)
    PROVE  (u \o v)[k] = v[k - Len(u)]
  OBVIOUS

(* Two runs that meet are one. *)
LEMMA RunJoin ==
    ASSUME NEW d \in Nat, NEW a \in Nat, NEW x \in Nat, NEW t \in Nat, a <= x, x <= t, t <= d + 4
    PROVE  Run(d, a, x) \o Run(d, x, t) = Run(d, a, t)
<1> DEFINE u == Run(d, a, x)
           v == Run(d, x, t)
           w == Run(d, a, t)
<1>1. /\ u \in Seq(Int) /\ Len(u) = x - a
      /\ v \in Seq(Int) /\ Len(v) = t - x
      /\ w \in Seq(Int) /\ Len(w) = t - a
  <2>1. x <= d + 4 /\ a <= t
    OBVIOUS
  <2> HIDE DEF u, v, w
  <2>2. u \in Seq(Int) /\ Len(u) = x - a
    BY <2>1, RunIs DEF u
  <2>3. v \in Seq(Int) /\ Len(v) = t - x
    BY <2>1, RunIs DEF v
  <2>4. w \in Seq(Int) /\ Len(w) = t - a
    BY <2>1, RunIs DEF w
  <2>5. QED BY <2>2, <2>3, <2>4
<1>0. /\ \A k \in 1..(x - a) : u[k] = Stream(d, a + k)
      /\ \A k \in 1..(t - x) : v[k] = Stream(d, x + k)
      /\ \A k \in 1..(t - a) : w[k] = Stream(d, a + k)
  BY Zenon DEF Run
<1> HIDE DEF u, v, w
<1>2. u \o v \in Seq(Int) /\ Len(u \o v) = t - a
  BY <1>1
<1>3. ASSUME NEW k \in 1..(t - a) PROVE (u \o v)[k] = w[k]
  <2>1. CASE k <= x - a
    <3>1. (u \o v)[k] = u[k] /\ k \in 1..(x - a)
      BY <1>1, <2>1
    <3>2. QED BY <1>0, <3>1
  <2>2. CASE ~(k <= x - a)
    <3>1. k - (x - a) \in 1..(t - x) /\ x + (k - (x - a)) = a + k
      BY <2>2
    <3>2. (u \o v)[k] = v[k - Len(u)]
      <4>1. k \in Nat /\ Len(u) < k /\ k <= Len(u) + Len(v)
        BY <1>1, <2>2
      <4>2. QED BY <1>1, <4>1, ConcatRight
    <3>3. QED BY <1>0, <1>1, <3>1, <3>2
  <2>3. QED BY <2>1, <2>2
<1>4. u \o v \in [1..(t - a) -> Int] /\ w \in [1..(t - a) -> Int]
  <2>1. \A s \in Seq(Int) : s \in [1..Len(s) -> Int]
    OBVIOUS
  <2>2. QED BY <1>1, <1>2, <2>1
<1>5. u \o v = w
  <2> DEFINE uv == u \o v
  <2> HIDE DEF uv
  <2>1. uv \in [1..(t - a) -> Int] /\ w \in [1..(t - a) -> Int] /\ \A k \in 1..(t - a) : uv[k] = w[k]
    BY <1>3, <1>4 DEF uv
  <2>2. uv = w
    BY <2>1
  <2>3. QED BY <2>2 DEF uv
<1>6. QED BY <1>5 DEF u, v, w

LEMMA RunOfData ==
    ASSUME NEW d \in Nat, NEW from \in Nat, NEW to \in Nat, to <= d
    PROVE  Run(d, from, to) = Bytes(from + 1, to)
<1>1. \A k \in 1..(to - from) : Stream(d, from + k) = from + 1 + k - 1
  BY DEF Stream
<1>2. to - (from + 1) + 1 = to - from
  OBVIOUS
<1>3. QED BY <1>1, <1>2 DEF Run, Bytes

(* More data moves the marker and changes no run that ends before it. *)
LEMMA RunGrows ==
    ASSUME NEW d \in Nat, NEW d2 \in Nat, NEW from \in Nat, NEW to \in Nat,
           d <= d2, to <= d \/ d2 = d
    PROVE  Run(d, from, to) = Run(d2, from, to)
<1>1. CASE d2 = d
  BY <1>1
<1>2. CASE to <= d
  BY <1>2, RunOfData
<1>3. QED BY <1>1, <1>2

(* The end marker, once the compressor has written all of it. *)
LEMMA RunMarker ==
    ASSUME NEW d \in Nat, NEW m \in 0..4, NEW n \in 0..(4 - m)
    PROVE  Run(d, d + m, d + m + n) = SubSeq(Marker, m + 1, m + n)
<1>1. \A k \in 1..n : Stream(d, d + m + k) = Marker[m + k]
  <2> SUFFICES ASSUME NEW k \in 1..n PROVE Stream(d, d + m + k) = Marker[m + k]
    OBVIOUS
  <2>1. ~(d + m + k <= d) /\ d + m + k - d = m + k
    OBVIOUS
  <2>2. QED BY <2>1 DEF Stream
<1>2. Run(d, d + m, d + m + n) = [k \in 1..n |-> Marker[m + k]]
  <2>1. d + m + n - (d + m) = n
    OBVIOUS
  <2>2. QED BY <1>1, <2>1 DEF Run
<1>3. SubSeq(Marker, m + 1, m + n) = [k \in 1..n |-> Marker[m + k]]
  BY DEF Marker
<1>4. QED BY <1>2, <1>3

-----------------------------------------------------------------------------
(* Segments. *)
LEMMA SegmentsNone ==
    ASSUME NEW h, NEW d, NEW a \in Nat, NEW t \in Nat
    PROVE  Segments(h, <<>>, d, a, t) <=> a = t
<1>1. a = t => Segments(h, <<>>, d, a, t)
  <2> SUFFICES ASSUME a = t PROVE Segments(h, <<>>, d, a, t)
    OBVIOUS
  <2> DEFINE at == [i \in 0..0 |-> a]
  <2>1. at \in [0..Len(<<>>) -> a..t] /\ at[0] = a /\ at[Len(<<>>)] = t
    OBVIOUS
  <2>2. \A i \in 1..Len(<<>>) : FALSE
    OBVIOUS
  <2>3. QED BY <2>1, <2>2 DEF Segments
<1>2. Segments(h, <<>>, d, a, t) => a = t
  BY DEF Segments
<1>3. QED BY <1>1, <1>2

(* Segments whose contents stay are the same segments. *)
LEMMA SegmentsSame ==
    ASSUME NEW h, NEW h2, NEW bs, NEW d, NEW a, NEW t, Segments(h, bs, d, a, t),
           \A i \in 1..Len(bs) : h2.mem[bs[i]] = h.mem[bs[i]]
    PROVE  Segments(h2, bs, d, a, t)
  BY Zenon DEF Segments

(* An empty segment may be added, *)
LEMMA SegmentsNew ==
    ASSUME NEW h, NEW h2, NEW bs \in Seq(Buf), NEW b \in Buf,
           NEW d \in Nat, NEW a \in Nat, NEW t \in Nat, a <= t, Segments(h, bs, d, a, t),
           \A i \in 1..Len(bs) : h2.mem[bs[i]] = h.mem[bs[i]],
           h2.mem[b] = <<>>
    PROVE  Segments(h2, Append(bs, b), d, a, t)
<1> DEFINE n == Len(bs)
           cs == Append(bs, b)
<1>1. n \in Nat /\ Len(cs) = n + 1 /\ cs[n + 1] = b /\ \A i \in 1..n : cs[i] = bs[i]
  OBVIOUS
<1>2. PICK at \in [0..n -> a..t] :
        /\ at[0] = a /\ at[n] = t
        /\ \A i \in 1..n : at[i - 1] <= at[i] /\ h.mem[bs[i]] = Run(d, at[i - 1], at[i])
  BY Zenon DEF Segments
<1> DEFINE at2 == [i \in 0..(n + 1) |-> IF i = n + 1 THEN t ELSE at[i]]
<1> HIDE DEF n, cs
<1>3. at2 \in [0..(n + 1) -> a..t] /\ at2[0] = a /\ at2[n + 1] = t
  BY <1>1, <1>2
<1>4. Run(d, t, t) = <<>>
  BY DEF Run
<1>5. ASSUME NEW i \in 1..(n + 1)
      PROVE  at2[i - 1] <= at2[i] /\ h2.mem[cs[i]] = Run(d, at2[i - 1], at2[i])
  <2>1. CASE i = n + 1
    <3>1. at2[i - 1] = t /\ at2[i] = t
      BY <1>1, <1>2, <2>1
    <3>2. QED BY <1>1, <1>4, <2>1, <3>1
  <2>2. CASE i # n + 1
    <3>1. i \in 1..n /\ at2[i - 1] = at[i - 1] /\ at2[i] = at[i]
      BY <1>1, <2>2
    <3>2. QED BY <1>1, <1>2, <3>1, Zenon DEF n
  <2>3. QED BY <2>1, <2>2
<1> HIDE DEF at2
<1>6. /\ at2 \in [0..Len(cs) -> a..t] /\ at2[0] = a /\ at2[Len(cs)] = t
      /\ \A i \in 1..Len(cs) : at2[i - 1] <= at2[i] /\ h2.mem[cs[i]] = Run(d, at2[i - 1], at2[i])
  BY <1>1, <1>3, <1>5
<1>7. QED BY <1>6, Zenon DEF Segments, cs

(* and the last one may grow. *)
LEMMA SegmentsWrite ==
    ASSUME NEW h \in Heaps, NEW bs \in Seq(Buf), Len(bs) > 0,
           \A i, j \in 1..Len(bs) : i # j => bs[i] # bs[j],
           NEW d \in Nat, NEW d2 \in Nat, NEW a \in Nat, NEW t \in Nat, NEW t2 \in Nat,
           d <= d2, t <= d \/ d2 = d, a <= t, t <= t2, t2 <= d2 + 4, Segments(h, bs, d, a, t)
    PROVE  Segments(Write(h, Last(bs), Run(d2, t, t2)), bs, d2, a, t2)
<1> DEFINE n == Len(bs)
           h2 == Write(h, Last(bs), Run(d2, t, t2))
<1>1. n \in Nat \ {0} /\ Last(bs) = bs[n] /\ bs[n] \in Buf /\ \A i \in 1..n : bs[i] \in Buf
  BY DEF Last
<1>2. PICK at \in [0..n -> a..t] :
        /\ at[0] = a /\ at[n] = t
        /\ \A i \in 1..n : at[i - 1] <= at[i] /\ h.mem[bs[i]] = Run(d, at[i - 1], at[i])
  BY Zenon DEF Segments
<1>3. /\ h2.mem[bs[n]] = h.mem[bs[n]] \o Run(d2, t, t2)
      /\ \A c \in Buf \ {bs[n]} : h2.mem[c] = h.mem[c]
  <2>1. Run(d2, t, t2) \in Seq(Int)
    BY RunIs
  <2> DEFINE s == Run(d2, t, t2)
             b == bs[n]
  <2> HIDE DEF s, b
  <2>2. Write(h, b, s).mem[b] = h.mem[b] \o s /\ \A c \in Buf \ {b} : Write(h, b, s).mem[c] = h.mem[c]
    <3>1. b \in Buf /\ s \in Seq(Int)
      BY <1>1, <2>1 DEF b, s
    <3>2. QED BY ONLY <3>1, WriteSpec, h \in Heaps
  <2>3. QED BY <1>1, <2>2 DEF b, s
<1> DEFINE at2 == [at EXCEPT ![n] = t2]
<1> HIDE DEF n, h2
<1>5. at2 \in [0..n -> a..t2] /\ at2[0] = a /\ at2[n] = t2
  <2>1. at \in [0..n -> a..t2] /\ t2 \in a..t2
    BY <1>2
  <2>2. QED BY <1>1, <1>2, <2>1
<1>6. ASSUME NEW i \in 1..n
      PROVE  at2[i - 1] <= at2[i] /\ h2.mem[bs[i]] = Run(d2, at2[i - 1], at2[i])
  <2>1. /\ i - 1 \in 0..n /\ i - 1 # n /\ i \in 0..n
        /\ at[i - 1] \in Nat /\ at[i] \in Nat /\ at[i - 1] <= at[i] /\ at[i] <= t
        /\ h.mem[bs[i]] = Run(d, at[i - 1], at[i])
    <3>1. i - 1 \in 0..n /\ i - 1 # n /\ i \in 0..n
      BY <1>1
    <3>2. at[i - 1] \in a..t /\ at[i] \in a..t
      BY <1>2, <3>1
    <3>3. QED BY <1>2, <3>1, <3>2
  <2>2. Run(d, at[i - 1], at[i]) = Run(d2, at[i - 1], at[i])
    BY <2>1, RunGrows
  <2>3. CASE i = n
    <3>1. at2[i - 1] = at[i - 1] /\ at2[i] = t2 /\ at[i] = t
      BY <1>2, <2>1, <2>3
    <3>2. h2.mem[bs[i]] = Run(d2, at[i - 1], t) \o Run(d2, t, t2)
      <4>1. h.mem[bs[n]] = Run(d2, at[i - 1], t)
        BY <2>1, <2>2, <2>3, <3>1
      <4>2. QED BY <1>3, <2>3, <4>1
    <3>3. Run(d2, at[i - 1], t) \o Run(d2, t, t2) = Run(d2, at[i - 1], t2)
      <4>1. at[i - 1] \in Nat /\ at[i - 1] <= t
        BY <2>1, <3>1
      <4>2. \A y \in Nat : y <= t => Run(d2, y, t) \o Run(d2, t, t2) = Run(d2, y, t2)
        <5> SUFFICES ASSUME NEW y \in Nat, y <= t
                     PROVE  Run(d2, y, t) \o Run(d2, t, t2) = Run(d2, y, t2)
          OBVIOUS
        <5> QED BY ONLY RunJoin, d2 \in Nat, t \in Nat, t2 \in Nat, y \in Nat, y <= t, t <= t2, t2 <= d2 + 4
      <4>3. QED BY <4>1, <4>2
    <3>4. QED BY <2>1, <3>1, <3>2, <3>3
  <2>4. CASE i # n
    <3>1. at2[i - 1] = at[i - 1] /\ at2[i] = at[i]
      BY <1>2, <2>1, <2>4
    <3>2. bs[i] # bs[n]
      BY <1>1, <2>4 DEF n
    <3>3. h2.mem[bs[i]] = h.mem[bs[i]]
      BY <1>1, <1>3, <3>2, Zenon
    <3>4. QED BY <2>1, <2>2, <3>1, <3>3
  <2>5. QED BY <2>3, <2>4
<1> HIDE DEF at2
<1>7. QED BY <1>5, <1>6, Zenon DEF Segments, n, h2

(* The first segment, and the others. *)
LEMMA SegmentsTail ==
    ASSUME NEW h, NEW bs \in Seq(Buf), Len(bs) > 0,
           NEW d \in Nat, NEW a \in Nat, NEW t \in Nat, a <= t, t <= d + 4, Segments(h, bs, d, a, t)
    PROVE  LET x == a + Len(h.mem[bs[1]])
           IN  /\ x \in a..t
               /\ h.mem[bs[1]] = Run(d, a, x)
               /\ Segments(h, Tail(bs), d, x, t)
<1> DEFINE n == Len(bs)
           cs == Tail(bs)
<1>1. n \in Nat \ {0} /\ Len(cs) = n - 1 /\ \A i \in 1..(n - 1) : cs[i] = bs[i + 1]
  OBVIOUS
<1>2. PICK at \in [0..n -> a..t] :
        /\ at[0] = a /\ at[n] = t
        /\ \A i \in 1..n : at[i - 1] <= at[i] /\ h.mem[bs[i]] = Run(d, at[i - 1], at[i])
  BY Zenon DEF Segments
<1> HIDE DEF n, cs
<1> DEFINE x == at[1]
<1>3. x \in a..t /\ h.mem[bs[1]] = Run(d, a, x)
  <2>1. 1 \in 1..n /\ 1 - 1 = 0 /\ at[1] \in a..t
    BY <1>1, <1>2
  <2>2. QED BY <1>2, <2>1, Zenon
<1>4. a + Len(h.mem[bs[1]]) = x
  <2>1. Len(Run(d, a, x)) = x - a
    <3>1. x \in Nat /\ a <= x /\ x <= d + 4
      BY <1>3
    <3>2. QED BY <3>1, RunIs
  <2>2. QED BY <1>3, <2>1
<1> DEFINE at2 == [i \in 0..(n - 1) |-> at[i + 1]]
<1>5. \A i \in 1..n : x <= at[i]
  <2>1. \A i \in 1..n : at[i] \in Nat /\ (i - 1 \in 1..n => at[i - 1] <= at[i])
    BY <1>1, <1>2
  <2>2. DEFINE Bad == {i \in 1..n : at[i] < x}
  <2>3. Bad \in SUBSET Nat
    BY <1>1
  <2>4. SUFFICES ASSUME Bad # {} PROVE FALSE
    BY <1>3, <2>1
  <2>5. PICK i \in Bad : \A j \in Bad : i <= j
    BY <2>3, <2>4, LeastSize
  <2>6. i \in 1..n /\ at[i] < x /\ i # 1
    BY <2>5
  <2>7. i - 1 \in 1..n /\ ~(i - 1 \in Bad)
    BY <1>1, <2>5, <2>6
  <2>8. QED BY <1>3, <2>1, <2>6, <2>7
<1>6. at2 \in [0..(n - 1) -> x..t] /\ at2[0] = x /\ at2[n - 1] = t
  <2>1. \A i \in 0..(n - 1) : i + 1 \in 1..n /\ at[i + 1] \in x..t
    <3> SUFFICES ASSUME NEW i \in 0..(n - 1) PROVE i + 1 \in 1..n /\ at[i + 1] \in x..t
      OBVIOUS
    <3>1. i + 1 \in 1..n /\ i + 1 \in 0..n
      BY <1>1
    <3>2. at[i + 1] \in a..t /\ x <= at[i + 1]
      BY <1>2, <1>5, <3>1, Zenon
    <3>3. QED BY <1>3, <3>1, <3>2
  <2>2. QED BY <1>1, <1>2, <2>1
<1>7. ASSUME NEW i \in 1..(n - 1)
      PROVE  at2[i - 1] <= at2[i] /\ h.mem[cs[i]] = Run(d, at2[i - 1], at2[i])
  <2>1. at2[i - 1] = at[i] /\ at2[i] = at[i + 1] /\ i + 1 \in 1..n /\ i + 1 - 1 = i
    BY <1>1
  <2>2. h.mem[bs[i + 1]] = Run(d, at[i], at[i + 1]) /\ at[i] <= at[i + 1]
    BY <1>2, <2>1
  <2>3. QED BY <1>1, <2>1, <2>2
<1> HIDE DEF at2, x
<1>8. Segments(h, cs, d, x, t)
  BY <1>1, <1>6, <1>7, Zenon DEF Segments
<1>9. QED BY <1>3, <1>4, <1>8 DEF cs

(* Joined, the segments are one run. *)
LEMMA SegmentsJoined ==
    ASSUME NEW h, NEW bs \in Seq(Buf), Len(bs) \in {1, 2},
           NEW d \in Nat, NEW a \in Nat, NEW t \in Nat, a <= t, t <= d + 4, Segments(h, bs, d, a, t)
    PROVE  Joined(h, bs) = Run(d, a, t)
<1>1. PICK at \in [0..Len(bs) -> a..t] :
        /\ at[0] = a /\ at[Len(bs)] = t
        /\ \A i \in 1..Len(bs) : at[i - 1] <= at[i] /\ h.mem[bs[i]] = Run(d, at[i - 1], at[i])
  BY Zenon DEF Segments
<1>2. CASE Len(bs) = 1
  <2>1. h.mem[bs[1]] = Run(d, a, t)
    <3>1. 1 \in 1..Len(bs) /\ 1 - 1 = 0
      BY <1>2
    <3>2. QED BY <1>1, <1>2, <3>1, Zenon
  <2>2. [i \in 1..Len(bs) |-> h.mem[bs[i]]] = <<h.mem[bs[1]]>>
    BY <1>2
  <2>3. QED BY <2>1, <2>2, JoinedOne DEF Joined
<1>3. CASE Len(bs) = 2
  <2>1. h.mem[bs[1]] = Run(d, a, at[1]) /\ h.mem[bs[2]] = Run(d, at[1], t) /\ at[1] \in a..t
    <3>1. 1 \in 1..Len(bs) /\ 1 - 1 = 0 /\ 2 \in 1..Len(bs) /\ 2 - 1 = 1 /\ 1 \in 0..Len(bs)
      BY <1>3
    <3>2. QED BY <1>1, <1>3, <3>1, Zenon
  <2>2. [i \in 1..Len(bs) |-> h.mem[bs[i]]] = <<h.mem[bs[1]], h.mem[bs[2]]>>
    BY <1>3
  <2>3. Joined(h, bs) = h.mem[bs[1]] \o h.mem[bs[2]]
    BY <2>2, JoinedTwo DEF Joined
  <2>4. Run(d, a, at[1]) \o Run(d, at[1], t) = Run(d, a, t)
    <3>1. at[1] \in Nat /\ a <= at[1] /\ at[1] <= t
      BY <2>1
    <3> DEFINE y == at[1]
    <3> HIDE DEF y
    <3>2. Run(d, a, y) \o Run(d, y, t) = Run(d, a, t)
      BY <3>1, RunJoin DEF y
    <3>3. QED BY <3>2 DEF y
  <2>5. QED BY <2>1, <2>3, <2>4
<1>4. QED BY <1>2, <1>3

-----------------------------------------------------------------------------
(* Taking a buffer from the pool, and giving one back: what is owned, and  *)
(* that the other buffers stay as they are.                                *)
SameElsewhere(h, h2, b) == \A c \in Buf \ {b} : h2.mem[c] = h.mem[c]

Taken(h, rb, fr, o, bs, n, g) ==
    /\ g.buf \in Buf \ {rb, fr, o.buf} /\ g.buf # 0 /\ g.buf \notin Range(bs)
    /\ g.heap \in Heaps /\ g.heap.mem[g.buf] = <<>> /\ SameElsewhere(h, g.heap, g.buf)
    /\ rb = 0 => Owned(g.heap, g.buf, fr, o, bs)
    /\ fr = 0 => Owned(g.heap, rb, g.buf, o, bs)
    /\ o.buf = 0 /\ n <= Half => Owned(g.heap, rb, fr, [buf |-> g.buf, size |-> n], bs)
    /\ SegmentSize <= n /\ n <= Half => Owned(g.heap, rb, fr, o, Append(bs, g.buf))

(* Get leaves all as it is owned, and its buffer has no owner yet; *)
LEMMA GetOwned ==
    ASSUME NEW h, NEW rb, NEW fr, NEW o, NEW bs, Owned(h, rb, fr, o, bs),
           NEW held, held = {rb, fr, o.buf} \cup Range(bs),
           NEW n \in Nat, NEW g \in Get(h, n, held)
    PROVE  Taken(h, rb, fr, o, bs, n, g)
<1> DEFINE outer == {rb, fr, o.buf}
<1>0. held = outer \cup Range(bs)
  OBVIOUS
<1>1. /\ h \in Heaps /\ bs \in Seq(Buf) /\ Private(h, outer, bs)
      /\ \A b \in Buf : h.idle[b] <= 1 /\ (h.idle[b] = 1 => b \notin held)
  BY <1>0, Zenon DEF Owned, Private
<1>2. /\ g.buf \in Buf \ held
      /\ g.heap \in Heaps
      /\ g.heap.mem[g.buf] = <<>>
      /\ n <= Half => n <= g.heap.cap[g.buf]
      /\ \A b \in Buf \ {g.buf} : g.heap.mem[b] = h.mem[b] /\ g.heap.cap[b] = h.cap[b]
  BY ONLY <1>1, g \in Get(h, n, held), n \in Nat, GetSpec
<1>3. Private(g.heap, outer \cup {g.buf}, bs) /\ Private(g.heap, outer, Append(bs, g.buf))
  <2> HIDE DEF outer
  <2>1. g \in Get(h, n, outer \cup Range(bs))
    BY <1>0
  <2>2. QED BY ONLY <1>1, <2>1, n \in Nat, PrivateGet
<1>4. g.buf \notin outer /\ g.buf # 0 /\ g.buf \in Buf
  BY <1>0, <1>2, PoolAssumption
<1>5. \A i \in 1..Len(bs) : bs[i] \in Buf /\ bs[i] # g.buf
  BY <1>0, <1>1, <1>2, RangeOf
<1>6. /\ o.buf # 0 => g.heap.cap[o.buf] >= o.size
      /\ \A i \in 1..Len(bs) : g.heap.cap[bs[i]] >= SegmentSize /\ g.heap.mem[bs[i]] = h.mem[bs[i]]
  BY <1>2, <1>4, <1>5 DEF Owned
<1>7. ASSUME NEW outer2 \in SUBSET (outer \cup {g.buf}) PROVE Private(g.heap, outer2, bs)
  <2> DEFINE S == outer \cup {g.buf}
             k == g.heap
  <2>1. outer2 \in SUBSET (S \cup {0}) /\ bs \in Seq(Buf) /\ Private(k, S, bs)
    BY <1>1, <1>3
  <2> HIDE DEF S, k
  <2>2. Private(k, outer2, bs)
    BY ONLY <2>1, PrivateFewer
  <2>3. QED BY <2>2 DEF k
<1>8. rb = 0 => Owned(g.heap, g.buf, fr, o, bs)
  <2>1. Private(g.heap, {g.buf, fr, o.buf}, bs)
    BY <1>7
  <2>2. QED BY <1>2, <1>4, <1>6, <2>1 DEF Owned
<1>9. fr = 0 => Owned(g.heap, rb, g.buf, o, bs)
  <2>1. Private(g.heap, {rb, g.buf, o.buf}, bs)
    BY <1>7
  <2>2. QED BY <1>2, <1>4, <1>6, <2>1 DEF Owned
<1>10. o.buf = 0 /\ n <= Half => Owned(g.heap, rb, fr, [buf |-> g.buf, size |-> n], bs)
  <2> DEFINE o2 == [buf |-> g.buf, size |-> n]
  <2>1. o2.buf = g.buf /\ o2.size = n /\ o2 \in [buf : Buf \cup {0}, size : Nat]
    BY <1>4
  <2> HIDE DEF o2
  <2>2. Private(g.heap, {rb, fr, o2.buf}, bs)
    BY <1>7, <2>1
  <2>3. o.buf = 0 /\ n <= Half => Owned(g.heap, rb, fr, o2, bs)
    BY <1>2, <1>4, <1>6, <2>1, <2>2 DEF Owned
  <2>4. QED BY <2>3 DEF o2
<1>11. SegmentSize <= n /\ n <= Half => Owned(g.heap, rb, fr, o, Append(bs, g.buf))
  <2> DEFINE cs == Append(bs, g.buf)
  <2>1. cs \in Seq(Buf) /\ Len(cs) = Len(bs) + 1 /\ cs[Len(bs) + 1] = g.buf
        /\ \A i \in 1..Len(bs) : cs[i] = bs[i]
    BY <1>1, <1>4
  <2> HIDE DEF cs
  <2>2. Private(g.heap, {rb, fr, o.buf}, cs)
    BY <1>3 DEF cs
  <2>3. SegmentSize <= n /\ n <= Half => \A i \in 1..Len(cs) : g.heap.cap[cs[i]] >= SegmentSize
    <3> SUFFICES ASSUME SegmentSize <= n, n <= Half, NEW i \in 1..Len(cs)
                 PROVE  g.heap.cap[cs[i]] >= SegmentSize
      OBVIOUS
    <3>1. CASE i = Len(bs) + 1
      <4>1. g.heap.cap[g.buf] \in Nat
        BY <1>2, <1>4 DEF Heaps
      <4>2. QED BY <1>2, <2>1, <3>1, <4>1, HalfIsInt, FileAssumption
    <3>2. CASE i # Len(bs) + 1
      BY <1>1, <1>6, <2>1, <3>2
    <3>3. QED BY <3>1, <3>2
  <2>4. SegmentSize <= n /\ n <= Half => Owned(g.heap, rb, fr, o, cs)
    BY <1>2, <1>6, <2>1, <2>2, <2>3 DEF Owned
  <2>5. QED BY <2>4 DEF cs
<1>12. SameElsewhere(h, g.heap, g.buf) /\ g.buf \notin Range(bs)
  BY <1>0, <1>2 DEF SameElsewhere
<1>13. QED BY <1>2, <1>4, <1>8, <1>9, <1>10, <1>11, <1>12 DEF Taken

None == [buf |-> 0, size |-> 0]

(* so does Put, of a buffer whose owner lets go of it. *)
LEMMA PutOwned ==
    ASSUME NEW h, NEW rb, NEW fr, NEW o, NEW bs, Owned(h, rb, fr, o, bs)
    PROVE  /\ rb # 0 => Owned(Put(h, rb), 0, fr, o, bs)
           /\ fr # 0 => Owned(Put(h, fr), rb, 0, o, bs)
           /\ o.buf # 0 => Owned(Put(h, o.buf), rb, fr, None, bs)
           /\ Len(bs) > 0 => Owned(Put(h, bs[1]), rb, fr, o, Tail(bs))
           /\ Owned(h, rb, 0, o, bs)
<1> DEFINE outer == {rb, fr, o.buf}
<1>1. /\ h \in Heaps /\ bs \in Seq(Buf) /\ Private(h, outer, bs)
      /\ rb \in Buf \cup {0} /\ fr \in Buf \cup {0} /\ o.buf \in Buf \cup {0}
      /\ 0 \notin Buf
  BY PoolAssumption DEF Owned
<1>2. ASSUME NEW b \in Buf PROVE /\ Put(h, b) \in Heaps
                                /\ \A c \in Buf \ {b} : Put(h, b).cap[c] = h.cap[c]
  BY <1>1, PutSpec
<1>3. ASSUME NEW b \in Buf, b \in outer, NEW outer2 \in SUBSET ((outer \cup {0}) \ {b})
      PROVE  Private(Put(h, b), outer2, bs)
  BY ONLY <1>1, <1>3, PrivatePut
<1>4. ASSUME NEW b \in Buf, b \in outer
      PROVE  \A i \in 1..Len(bs) : Put(h, b).cap[bs[i]] >= SegmentSize
  <2>1. \A i \in 1..Len(bs) : bs[i] \in Buf \ {b} /\ h.cap[bs[i]] >= SegmentSize
    BY <1>1, <1>4 DEF Owned, Private
  <2>2. QED BY <1>2, <2>1
<1>5. Owned(h, rb, 0, o, bs)
  <2>1. Private(h, {rb, 0, o.buf}, bs)
    BY <1>1, PrivateFewer
  <2>2. QED BY <2>1 DEF Owned
<1>6. rb # 0 => Owned(Put(h, rb), 0, fr, o, bs)
  <2> SUFFICES ASSUME rb # 0 PROVE Owned(Put(h, rb), 0, fr, o, bs)
    OBVIOUS
  <2>1. rb \in Buf /\ rb \in outer /\ rb # fr /\ rb # o.buf
    BY <1>1 DEF Owned
  <2>2. {0, fr, o.buf} \in SUBSET ((outer \cup {0}) \ {rb})
    BY <2>1
  <2>3. Private(Put(h, rb), {0, fr, o.buf}, bs)
    BY <1>3, <2>1, <2>2, Zenon
  <2>4. QED BY <1>1, <1>2, <1>4, <2>1, <2>3 DEF Owned
<1>7. fr # 0 => Owned(Put(h, fr), rb, 0, o, bs)
  <2> SUFFICES ASSUME fr # 0 PROVE Owned(Put(h, fr), rb, 0, o, bs)
    OBVIOUS
  <2>1. fr \in Buf /\ fr \in outer /\ rb # fr /\ fr # o.buf
    BY <1>1 DEF Owned
  <2>2. {rb, 0, o.buf} \in SUBSET ((outer \cup {0}) \ {fr})
    BY <2>1
  <2>3. Private(Put(h, fr), {rb, 0, o.buf}, bs)
    BY <1>3, <2>1, <2>2, Zenon
  <2>4. QED BY <1>1, <1>2, <1>4, <2>1, <2>3 DEF Owned
<1>8. o.buf # 0 => Owned(Put(h, o.buf), rb, fr, None, bs)
  <2> SUFFICES ASSUME o.buf # 0 PROVE Owned(Put(h, o.buf), rb, fr, None, bs)
    OBVIOUS
  <2>1. o.buf \in Buf /\ o.buf \in outer /\ rb # o.buf /\ fr # o.buf
    BY <1>1 DEF Owned
  <2>2. {rb, fr, 0} \in SUBSET ((outer \cup {0}) \ {o.buf})
    BY <2>1
  <2>3. Private(Put(h, o.buf), {rb, fr, 0}, bs)
    BY <1>3, <2>1, <2>2, Zenon
  <2>4. None.buf = 0 /\ None \in [buf : Buf \cup {0}, size : Nat]
    BY DEF None
  <2>5. QED BY <1>1, <1>2, <1>4, <2>1, <2>3, <2>4 DEF Owned
<1>9. Len(bs) > 0 => Owned(Put(h, bs[1]), rb, fr, o, Tail(bs))
  <2> SUFFICES ASSUME Len(bs) > 0 PROVE Owned(Put(h, bs[1]), rb, fr, o, Tail(bs))
    OBVIOUS
  <2> DEFINE b == bs[1]
             cs == Tail(bs)
  <2>1. Private(Put(h, b), outer, cs)
    BY ONLY <1>1, Len(bs) > 0, PrivatePutHead
  <2>2. /\ b \in Buf /\ cs \in Seq(Buf)
        /\ \A i \in 1..Len(cs) : i + 1 \in 1..Len(bs) /\ cs[i] = bs[i + 1] /\ 1 \in 1..Len(bs) /\ i + 1 # 1
    BY <1>1
  <2>3. b \notin outer /\ \A i \in 1..Len(cs) : cs[i] \in Buf \ {b}
    BY <1>1, <2>2 DEF Private
  <2> HIDE DEF b, cs
  <2>4. \A i \in 1..Len(cs) : h.cap[cs[i]] >= SegmentSize
    BY <2>2 DEF Owned
  <2>5. \A i \in 1..Len(cs) : Put(h, b).cap[cs[i]] >= SegmentSize
    BY <1>2, <2>2, <2>3, <2>4
  <2>6. o.buf # 0 => Put(h, b).cap[o.buf] >= o.size
    BY <1>1, <1>2, <2>2, <2>3 DEF Owned
  <2>7. Owned(Put(h, b), rb, fr, o, cs)
    BY <1>2, <2>1, <2>2, <2>5, <2>6 DEF Owned
  <2>8. QED BY <2>7 DEF b, cs
<1>10. QED BY <1>5, <1>6, <1>7, <1>8, <1>9

-----------------------------------------------------------------------------
(* The steps. *)
LEMMA FileInvInit == Init => FileInv
<1> SUFFICES ASSUME Init PROVE FileInv
  OBVIOUS
<1> USE DEF Init
<1>1. FileTypeOK
  <2>1. sent \in Seq(Frames)
    OBVIOUS
  <2>2. index \in Nat /\ data \in Nat /\ marker \in 0..4 /\ compress \in BOOLEAN
    OBVIOUS
  <2>3. QED BY <2>1, <2>2, Zenon DEF FileTypeOK, Locations
<1>2. Owned(heap, rbuf, frame, other, buffers)
  <2>1. heap \in Heaps /\ \A b \in Buf : heap.idle[b] = 0
    BY EmptySeq DEF EmptyHeap, Heaps
  <2>2. buffers \in Seq(Buf) /\ Len(buffers) = 0
    OBVIOUS
  <2>3. Private(heap, {rbuf, frame, other.buf}, buffers)
    BY <2>1, <2>2 DEF Private
  <2>4. QED BY <2>1, <2>2, <2>3 DEF Owned
<1>3. Places
  BY DEF Places
<1>4. OneMessage /\ Past
  BY DEF OneMessage, Past
<1>5. 0 \in 0..data /\ Progress(0)
  <2>1. SentBefore(Len(sent) + 1) = 1..0
    BY DEF SentBefore
  <2>2. Segments(heap, buffers, data, 0, data + marker)
    BY SegmentsNone
  <2>3. QED BY <2>1, <2>2 DEF Progress
<1>6. QED BY <1>1, <1>2, <1>3, <1>4, <1>5 DEF FileInv

(* What was sent stays in order while nothing is sent. *)
LEMMA NothingSent ==
    ASSUME FileInv, sent' = sent, compress' = compress, data' \in Nat, data <= data',
           result' = result \/ (result = "none" /\ result' = "error")
    PROVE  /\ OneMessage' /\ Past'
           /\ SentBefore(Len(sent) + 1)' = SentBefore(Len(sent) + 1)
<1>1. data \in Nat /\ OneMessage /\ Past
  BY DEF FileInv, FileTypeOK
<1>2. OneMessage'
  BY <1>1 DEF OneMessage
<1>3. \A i : SentBefore(i)' = SentBefore(i)
  BY DEF SentBefore
<1>4. Past'
  <2>1. 0..data \subseteq 0..data'
    BY <1>1
  <2>2. QED BY <1>1, <1>3, <2>1, Zenon DEF Past
<1>5. QED BY <1>2, <1>3, <1>4

(* splitReader and WriteTo take a buffer. *)
LEMMA StartInv == ASSUME FileInv, Start PROVE FileInv'
<1> USE DEF Start
<1>1. PICK g \in Get(heap, SegmentSize, Held) : rbuf' = g.buf /\ heap' = g.heap
  OBVIOUS
<1>2. SegmentSize \in Nat /\ Held = {rbuf, frame, other.buf} \cup Range(buffers)
  BY FileAssumption, HalfIsInt DEF Held
<1>3. Owned(heap, rbuf, frame, other, buffers) /\ Places /\ FileTypeOK
  BY DEF FileInv
<1>4. rbuf = 0 /\ buffers = <<>> /\ data = 0 /\ marker = 0
  BY <1>3 DEF Places
<1>5. /\ g.buf # 0
      /\ rbuf = 0 => Owned(g.heap, g.buf, frame, other, buffers)
  <2>1. Taken(heap, rbuf, frame, other, buffers, SegmentSize, g)
    BY ONLY <1>2, <1>3, g \in Get(heap, SegmentSize, Held), GetOwned
  <2>2. QED BY <2>1 DEF Taken
<1>6. Owned(heap, rbuf, frame, other, buffers)'
  BY <1>1, <1>4, <1>5
<1>7. FileTypeOK'
  BY <1>3 DEF FileTypeOK, Locations
<1>8. Places'
  BY <1>1, <1>3, <1>5 DEF Places
<1>9. OneMessage' /\ Past' /\ SentBefore(Len(sent) + 1)' = SentBefore(Len(sent) + 1)
  BY <1>3, NothingSent DEF FileTypeOK
<1>10. PICK a \in 0..data : Progress(a)
  BY DEF FileInv
<1>11. Progress(a)'
  <2>1. Segments(heap', buffers', data', a, data' + marker')
    BY <1>4, <1>10, SegmentsNone
  <2>2. QED BY <1>9, <1>10, <2>1 DEF Progress
<1>12. QED BY <1>6, <1>7, <1>8, <1>9, <1>10, <1>11 DEF FileInv

(* A Read for the compressor changes no buffer that counts. *)
LEMMA ReadForFlateInv == ASSUME FileInv, ReadForFlate PROVE FileInv'
<1> USE DEF ReadForFlate
<1>1. Owned(heap, rbuf, frame, other, buffers) /\ Places /\ FileTypeOK
  BY DEF FileInv
<1>2. Owned(heap, rbuf, frame, other, buffers)'
  BY <1>1
<1>3. FileTypeOK'
  BY <1>1 DEF FileTypeOK, Locations
<1>4. Places'
  BY <1>1 DEF Places
<1>5. OneMessage' /\ Past' /\ SentBefore(Len(sent) + 1)' = SentBefore(Len(sent) + 1)
  BY <1>1, NothingSent DEF FileTypeOK
<1>6. PICK a \in 0..data : Progress(a)
  BY DEF FileInv
<1>7. Progress(a)'
  BY <1>5, <1>6 DEF Progress
<1>8. QED BY <1>2, <1>3, <1>4, <1>5, <1>6, <1>7 DEF FileInv

(* A Read of splitReader: what it has read is due next. *)
LEMMA ReadChunkInv == ASSUME FileInv, ReadChunk PROVE FileInv'
<1> USE DEF ReadChunk
<1>1. Owned(heap, rbuf, frame, other, buffers) /\ Places /\ FileTypeOK
  BY DEF FileInv
<1>2. PICK n \in ChunkSizes, end \in BOOLEAN :
        /\ heap' = [heap EXCEPT !.mem[rbuf] = Bytes(data + 1, data + n)]
        /\ data' = data + n /\ fin' = end
  OBVIOUS
<1>3. n \in Nat /\ data \in Nat /\ data' \in Nat /\ data <= data'
  BY <1>1, <1>2, FileAssumption DEF FileTypeOK
<1>4. rbuf \in Buf /\ buffers = <<>> /\ pc # "flate" /\ marker = 0
  BY <1>1 DEF Places, Owned
<1>5. Bytes(data + 1, data + n) \in Seq(Int)
  <2> DEFINE d == data + n
  <2>1. d \in Nat /\ data <= d /\ d <= d + 4 /\ data \in Nat
    BY <1>3
  <2> HIDE DEF d
  <2>2. Run(d, data, d) \in Seq(Int) /\ Run(d, data, d) = Bytes(data + 1, d)
    BY ONLY <2>1, RunIs, RunOfData
  <2>3. QED BY <2>2 DEF d
<1> DEFINE bytes == Bytes(data + 1, data + n)
<1> HIDE DEF bytes
<1>6. /\ heap' \in Heaps /\ heap'.cap = heap.cap /\ heap'.idle = heap.idle
      /\ heap'.mem[rbuf] = bytes
  <2>1. bytes \in Seq(Int) /\ heap' = [heap EXCEPT !.mem[rbuf] = bytes] /\ heap \in Heaps
    BY <1>1, <1>2, <1>5 DEF bytes, Owned
  <2>2. QED BY <1>4, <2>1 DEF Heaps
<1>7. Owned(heap, rbuf, frame, other, buffers)'
  BY <1>1, <1>6, Zenon DEF Owned, Private
<1>8. FileTypeOK'
  BY <1>1, <1>2, <1>3 DEF FileTypeOK, Locations
<1>9. Places'
  BY <1>1, <1>4 DEF Places
<1>10. OneMessage' /\ Past' /\ SentBefore(Len(sent) + 1)' = SentBefore(Len(sent) + 1)
  BY <1>1, <1>3, NothingSent DEF FileTypeOK
<1>11. PICK a \in 0..data : Progress(a)
  BY DEF FileInv
<1>12. Progress(a)' /\ a \in 0..data'
  <2>1. a = data
    BY <1>11 DEF Progress
  <2>2. heap'.mem[rbuf'] = Run(data', a, data')
    BY <1>2, <1>3, <1>6, <2>1, RunOfData DEF bytes
  <2>3. result' = "none"
    BY <1>1 DEF Places, FileTypeOK
  <2>4. QED BY <1>3, <1>10, <1>11, <2>2, <2>3 DEF Progress
<1>13. QED BY <1>7, <1>8, <1>9, <1>10, <1>12 DEF FileInv

(* A Read fails. *)
LEMMA ReadFailsInv == ASSUME FileInv, ReadFails PROVE FileInv'
<1> USE DEF ReadFails
<1>1. Owned(heap, rbuf, frame, other, buffers) /\ Places /\ FileTypeOK
  BY DEF FileInv
<1>2. rbuf # 0 /\ result = "none"
  BY <1>1 DEF Places, FileTypeOK
<1>3. Owned(heap, rbuf, frame, other, buffers)'
  <2>1. Owned(Put(heap, rbuf), 0, frame, other, buffers)
    BY ONLY <1>1, <1>2, PutOwned
  <2>2. QED BY <2>1
<1>4. FileTypeOK'
  BY <1>1 DEF FileTypeOK, Locations
<1>5. Places'
  BY <1>1 DEF Places
<1>6. OneMessage' /\ Past' /\ SentBefore(Len(sent) + 1)' = SentBefore(Len(sent) + 1)
  BY <1>1, <1>2, NothingSent DEF FileTypeOK
<1>7. PICK a \in 0..data : Progress(a)
  BY DEF FileInv
<1>8. Progress(a)'
  BY <1>6, <1>7 DEF Progress
<1>9. QED BY <1>3, <1>4, <1>5, <1>6, <1>7, <1>8 DEF FileInv

(* WriteTo asks for more, or puts its buffer back. *)
LEMMA FlateReturnsInv == ASSUME FileInv, FlateReturns PROVE FileInv'
<1> USE DEF FlateReturns
<1>1. Owned(heap, rbuf, frame, other, buffers) /\ Places /\ FileTypeOK
  BY DEF FileInv
<1>2. /\ Owned(heap, rbuf, frame, other, buffers)'
      /\ \A i \in 1..Len(buffers) : heap'.mem[buffers[i]] = heap.mem[buffers[i]]
  <2>1. CASE ~eof
    BY <1>1, <2>1
  <2>2. CASE eof
    <3>1. Owned(Put(heap, rbuf), 0, frame, other, buffers)
      BY ONLY <1>1, rbuf # 0, PutOwned
    <3>2. rbuf \in Buf /\ heap \in Heaps /\ \A i \in 1..Len(buffers) : buffers[i] \in Buf \ {rbuf}
      BY <1>1 DEF Owned, Private
    <3>3. \A c \in Buf \ {rbuf} : Put(heap, rbuf).mem[c] = heap.mem[c]
      BY ONLY <3>2, PutSpec
    <3>4. QED BY <2>2, <3>1, <3>2, <3>3
  <2>3. QED BY <1>1, <2>1, <2>2 DEF FileTypeOK
<1>3. FileTypeOK'
  BY <1>1 DEF FileTypeOK, Locations
<1>4. Places'
  BY <1>1 DEF Places
<1>5. OneMessage' /\ Past' /\ SentBefore(Len(sent) + 1)' = SentBefore(Len(sent) + 1)
  BY <1>1, NothingSent DEF FileTypeOK
<1>6. PICK a \in 0..data : Progress(a)
  BY DEF FileInv
<1>7. Progress(a)'
  <2>1. compress /\ Segments(heap, buffers, data, a, data + marker)
    BY <1>1, <1>6 DEF Progress, Places, FileTypeOK
  <2>2. Segments(heap', buffers, data, a, data + marker)
    BY <1>2, <2>1, SegmentsSame
  <2>3. QED BY <1>5, <1>6, <2>1, <2>2 DEF Progress
<1>8. QED BY <1>2, <1>3, <1>4, <1>5, <1>6, <1>7 DEF FileInv

(* Contents do not matter to who owns what. *)
Filled(h, rb, fr, o, bs, b, v, h2) ==
    Owned(h2, rb, fr, o, bs) /\ h2.mem[b] = v /\ SameElsewhere(h, h2, b)

LEMMA FillOwned ==
    ASSUME NEW h, NEW rb, NEW fr, NEW o, NEW bs, Owned(h, rb, fr, o, bs),
           NEW b \in Buf, NEW v \in Seq(Int),
           NEW h2, h2 = [h EXCEPT !.mem[b] = v]
    PROVE  Filled(h, rb, fr, o, bs, b, v, h2)
<1>1. h \in Heaps
  BY DEF Owned
<1>2. h2 = [cap |-> h.cap, mem |-> [h.mem EXCEPT ![b] = v], idle |-> h.idle]
  BY <1>1 DEF Heaps
<1>3. h2 \in Heaps /\ h2.cap = h.cap /\ h2.idle = h.idle /\ h2.mem[b] = v
      /\ \A c \in Buf \ {b} : h2.mem[c] = h.mem[c]
  BY <1>1, <1>2 DEF Heaps
<1>4. Private(h2, {rb, fr, o.buf}, bs)
  BY <1>3, Zenon DEF Owned, Private
<1>5. Owned(h2, rb, fr, o, bs)
  BY <1>3, <1>4, Zenon DEF Owned
<1>6. QED BY <1>3, <1>5, Zenon DEF SameElsewhere, Filled

(* The other connection takes, fills and gives back a buffer b that        *)
(* WriteFile has not.                                                      *)
LEMMA OtherKeeps ==
    ASSUME FileInv,
           UNCHANGED <<compress, pc, rbuf, buffers, index, frame, eof, fin, data, marker, sent, result>>,
           Owned(heap', rbuf, frame, other', buffers),
           NEW b \in Buf, b # rbuf, b # frame, b \notin Range(buffers),
           SameElsewhere(heap, heap', b)
    PROVE  FileInv'
<1>1. Owned(heap, rbuf, frame, other, buffers) /\ Places /\ FileTypeOK
  BY DEF FileInv
<1>2. /\ rbuf # 0 => heap'.mem[rbuf] = heap.mem[rbuf]
      /\ frame # 0 => heap'.mem[frame] = heap.mem[frame]
      /\ \A i \in 1..Len(buffers) : heap'.mem[buffers[i]] = heap.mem[buffers[i]]
  <2>1. buffers \in Seq(Buf) /\ \A i \in 1..Len(buffers) : buffers[i] \in Buf \ {b}
    BY <1>1, RangeOf DEF Owned
  <2>2. rbuf \in Buf \cup {0} /\ frame \in Buf \cup {0}
    BY <1>1 DEF Owned
  <2>3. QED BY <2>1, <2>2 DEF SameElsewhere
<1>3. FileTypeOK'
  BY <1>1 DEF FileTypeOK, Locations
<1>4. Places'
  BY <1>1 DEF Places
<1>5. OneMessage' /\ Past' /\ SentBefore(Len(sent) + 1)' = SentBefore(Len(sent) + 1)
  BY <1>1, NothingSent DEF FileTypeOK
<1>6. PICK a \in 0..data : Progress(a)
  BY DEF FileInv
<1>7. Progress(a)'
  <2>1. /\ pc \in {"gen", "send"} /\ ~compress => rbuf # 0
        /\ pc \in {"gen", "send"} /\ compress => 1 \in 1..Len(buffers)
        /\ pc = "send" => frame # 0
    <3>1. pc \in {"gen", "send"} /\ compress => Len(buffers) \in {1, 2, 3}
      BY <1>1, Zenon DEF Places
    <3>2. pc \in {"gen", "send"} /\ compress => 1 \in 1..Len(buffers)
      BY <3>1
    <3>3. QED BY <1>1, <3>2, Zenon DEF Places
  <2>2. pc \in {"gen", "send"} => heap'.mem[Source] = heap.mem[Source]
    BY <1>2, <2>1 DEF Source
  <2>3. Segments(heap, buffers, data, a, data + marker) => Segments(heap', buffers, data, a, data + marker)
    BY <1>2, SegmentsSame
  <2>4. pc \in {"gen", "send"} /\ compress => heap'.mem[buffers[1]] = heap.mem[buffers[1]]
    BY <1>2, <2>1
  <2>5. Source' = Source
    BY DEF Source
  <2>6. /\ SentBefore(Len(sent) + 1)' = 1..a
        /\ result = "ok" => a = data
        /\ ~compress /\ pc \in {"start", "read"} => a = data
        /\ ~compress /\ pc \in {"gen", "send"} => heap'.mem[rbuf] = Run(data, a, data)
        /\ compress /\ pc \in {"start", "read", "flate"} => Segments(heap', buffers, data, a, data + marker)
    BY <1>2, <1>5, <1>6, <2>1, <2>3 DEF Progress
  <2>7. compress /\ pc \in {"gen", "send"} =>
          IF fin THEN heap'.mem[buffers[1]] = Run(data, a, data)
          ELSE /\ Segments(heap', buffers, data, a, data + marker)
               /\ a + Len(heap'.mem[buffers[1]]) + 4 <= data + marker
    BY <1>6, <2>3, <2>4 DEF Progress
  <2>8. pc = "send" => heap'.mem[frame] = heap'.mem[Source]
    BY <1>2, <1>6, <2>1, <2>2 DEF Progress
  <2>9. QED BY <2>5, <2>6, <2>7, <2>8 DEF Progress
<1>8. QED BY <1>3, <1>4, <1>5, <1>6, <1>7 DEF FileInv

(* The other connection takes a buffer and scribbles on it, *)
LEMMA OtherReadsInv == ASSUME FileInv, OtherReads PROVE FileInv'
<1>0. PICK n \in ReadSizes : \E g \in Get(heap, n, Held) :
        /\ other' = [buf |-> g.buf, size |-> n]
        /\ heap' = [g.heap EXCEPT !.mem[g.buf] = <<Scribble>>]
  BY Zenon DEF OtherReads
<1>1. PICK g \in Get(heap, n, Held) :
        /\ other' = [buf |-> g.buf, size |-> n]
        /\ heap' = [g.heap EXCEPT !.mem[g.buf] = <<Scribble>>]
  BY <1>0
<1>2. other.buf = 0 /\ UNCHANGED <<compress, pc, rbuf, buffers, index, frame, eof, fin, data, marker, sent, result>>
  BY DEF OtherReads
<1>3. /\ n \in Nat /\ n <= Half /\ Held = {rbuf, frame, other.buf} \cup Range(buffers)
      /\ Owned(heap, rbuf, frame, other, buffers)
  BY FileAssumption, HalfIsInt DEF Held, FileInv
<1>4. Taken(heap, rbuf, frame, other, buffers, n, g)
  BY ONLY <1>3, g \in Get(heap, n, Held), GetOwned
<1>5. /\ g.buf \in Buf \ {rbuf, frame} /\ g.buf \notin Range(buffers)
      /\ SameElsewhere(heap, g.heap, g.buf)
      /\ Owned(g.heap, rbuf, frame, other', buffers)
  BY <1>1, <1>2, <1>3, <1>4 DEF Taken
<1>6. <<Scribble>> \in Seq(Int)
  BY DEF Scribble
<1>7. Owned(heap', rbuf, frame, other', buffers) /\ SameElsewhere(g.heap, heap', g.buf)
  <2> DEFINE o2 == other'
             h2 == heap'
             k == g.heap
             b == g.buf
             v == <<Scribble>>
  <2>1. Owned(k, rbuf, frame, o2, buffers) /\ b \in Buf /\ v \in Seq(Int) /\ h2 = [k EXCEPT !.mem[b] = v]
    BY <1>1, <1>5, <1>6, Zenon
  <2> HIDE DEF o2, h2, k, b, v
  <2>2. Filled(k, rbuf, frame, o2, buffers, b, v, h2)
    BY ONLY <2>1, FillOwned
  <2>3. QED BY <2>2, Zenon DEF Filled, o2, h2, k, b, v
<1>8. SameElsewhere(heap, heap', g.buf)
  BY <1>5, <1>7 DEF SameElsewhere
<1>9. QED BY <1>2, <1>5, <1>7, <1>8, OtherKeeps

(* and puts it back. *)
LEMMA OtherClosesInv == ASSUME FileInv, OtherCloses PROVE FileInv'
<1>1. /\ other.buf # 0 /\ heap' = Put(heap, other.buf) /\ other' = None
      /\ UNCHANGED <<compress, pc, rbuf, buffers, index, frame, eof, fin, data, marker, sent, result>>
  BY DEF OtherCloses, None
<1>2. Owned(heap, rbuf, frame, other, buffers)
  BY DEF FileInv
<1>3. Owned(heap', rbuf, frame, other', buffers)
  <2>1. Owned(Put(heap, other.buf), rbuf, frame, None, buffers)
    BY ONLY <1>1, <1>2, PutOwned
  <2>2. QED BY <1>1, <2>1
<1>4. /\ other.buf \in Buf /\ other.buf # rbuf /\ other.buf # frame /\ heap \in Heaps
      /\ buffers \in Seq(Buf) /\ \A i \in 1..Len(buffers) : buffers[i] # other.buf
  BY <1>1, <1>2 DEF Owned, Private
<1>5. other.buf \notin Range(buffers)
  BY <1>4, RangeOf
<1>6. SameElsewhere(heap, heap', other.buf)
  BY <1>1, <1>4, PutSpec DEF SameElsewhere
<1>7. QED BY <1>1, <1>3, <1>4, <1>5, <1>6, OtherKeeps
-----------------------------------------------------------------------------
(* flateWriter.Write. *)
LEMMA WriteOwned ==
    ASSUME NEW h, NEW rb, NEW fr, NEW o, NEW bs, Owned(h, rb, fr, o, bs),
           NEW b \in Buf, NEW s \in Seq(Int)
    PROVE  Owned(Write(h, b, s), rb, fr, o, bs)
<1> DEFINE h2 == Write(h, b, s)
<1>1. h \in Heaps
  BY DEF Owned
<1>2. /\ h2 \in Heaps /\ h2.idle = h.idle /\ h2.cap[b] >= h.cap[b]
      /\ \A c \in Buf \ {b} : h2.cap[c] = h.cap[c]
  BY ONLY <1>1, b \in Buf, s \in Seq(Int), WriteSpec
<1> HIDE DEF h2
<1>3. \A c \in Buf : h2.cap[c] \in Nat /\ h.cap[c] \in Nat /\ h2.cap[c] >= h.cap[c]
  <2>1. \A c \in Buf : h2.cap[c] \in Nat /\ h.cap[c] \in Nat
    BY <1>1, <1>2 DEF Heaps
  <2> SUFFICES ASSUME NEW c \in Buf PROVE h2.cap[c] >= h.cap[c]
    BY <2>1
  <2>2. CASE c = b
    BY <1>2, <2>2
  <2>3. CASE c # b
    BY <1>2, <2>1, <2>3
  <2>4. QED BY <2>2, <2>3
<1>4. Private(h2, {rb, fr, o.buf}, bs)
  BY <1>2, Zenon DEF Owned, Private
<1>5. \A i \in 1..Len(bs) : h2.cap[bs[i]] >= SegmentSize
  <2>1. \A i \in 1..Len(bs) : bs[i] \in Buf /\ h.cap[bs[i]] >= SegmentSize
    BY DEF Owned
  <2>2. QED BY <1>3, <2>1, FileAssumption, HalfIsInt
<1>6. o.buf # 0 => h2.cap[o.buf] >= o.size
  <2>1. o.buf # 0 => o.buf \in Buf /\ o.size \in Nat /\ h.cap[o.buf] >= o.size
    BY DEF Owned
  <2>2. QED BY <1>3, <2>1
<1>7. Owned(h2, rb, fr, o, bs)
  BY <1>2, <1>4, <1>5, <1>6, Zenon DEF Owned
<1>8. QED BY <1>7 DEF h2

Added(h, rb, fr, o, bs, d, a, t, g) ==
    /\ Owned(g.heap, rb, fr, o, Append(bs, g.buf))
    /\ Segments(g.heap, Append(bs, g.buf), d, a, t)
    /\ g.buf \in Buf /\ g.buf \notin Range(bs) /\ SameElsewhere(h, g.heap, g.buf)

LEMMA SegmentAdded ==
    ASSUME NEW h, NEW rb, NEW fr, NEW o, NEW bs, Owned(h, rb, fr, o, bs),
           NEW d \in Nat, NEW a \in Nat, NEW t \in Nat, a <= t, Segments(h, bs, d, a, t),
           NEW held, held = {rb, fr, o.buf} \cup Range(bs),
           NEW g \in Get(h, SegmentSize, held)
    PROVE  Added(h, rb, fr, o, bs, d, a, t, g)
<1>1. SegmentSize \in Nat /\ SegmentSize <= SegmentSize /\ SegmentSize <= Half
  BY FileAssumption, HalfIsInt
<1>2. Taken(h, rb, fr, o, bs, SegmentSize, g)
  BY ONLY <1>1, Owned(h, rb, fr, o, bs), held = {rb, fr, o.buf} \cup Range(bs),
          g \in Get(h, SegmentSize, held), GetOwned
<1>3. /\ g.buf \in Buf /\ g.buf \notin Range(bs)
      /\ g.heap.mem[g.buf] = <<>> /\ SameElsewhere(h, g.heap, g.buf)
      /\ Owned(g.heap, rb, fr, o, Append(bs, g.buf))
  BY <1>1, <1>2 DEF Taken
<1>4. bs \in Seq(Buf) /\ \A i \in 1..Len(bs) : g.heap.mem[bs[i]] = h.mem[bs[i]]
  <2>1. bs \in Seq(Buf) /\ \A i \in 1..Len(bs) : bs[i] \in Buf \ {g.buf}
    BY <1>3, RangeOf DEF Owned
  <2>2. QED BY <1>3, <2>1 DEF SameElsewhere
<1>5. Segments(g.heap, Append(bs, g.buf), d, a, t)
  <2> DEFINE k == g.heap
             b == g.buf
  <2>1. b \in Buf /\ k.mem[b] = <<>> /\ \A i \in 1..Len(bs) : k.mem[bs[i]] = h.mem[bs[i]]
    BY <1>3, <1>4
  <2> HIDE DEF k, b
  <2>2. Segments(k, Append(bs, b), d, a, t)
    BY <1>4, <2>1, SegmentsNew
  <2>3. QED BY <2>2 DEF k, b
<1>6. QED BY <1>3, <1>5, Zenon DEF Added

(* What flateWriter.Write leaves: the segments hold the stream up to t,    *)
(* and if a frame is due then four bytes of it lie beyond the first one.   *)
Gathered(h, rb, fr, o, bs, d, a, t, l) ==
    /\ Owned(h, rb, fr, o, bs)
    /\ Segments(h, bs, d, a, t)
    /\ \/ l = "gen" /\ Len(bs) \in {2, 3} /\ a + Len(h.mem[bs[1]]) + 4 <= t
       \/ l = "flate" /\ Len(bs) <= 2

(* shouldCall, of two or three segments: what the others hold is what is   *)
(* in the stream beyond the first.                                         *)
LEMMA ShouldCallSpec ==
    ASSUME NEW h, NEW rb, NEW fr, NEW o, NEW bs, Owned(h, rb, fr, o, bs), Len(bs) \in {2, 3},
           NEW d \in Nat, NEW a \in Nat, NEW t \in Nat, a <= t, t <= d + 4, Segments(h, bs, d, a, t)
    PROVE  ShouldCall(h, bs) <=> a + Len(h.mem[bs[1]]) + 4 <= t
<1> DEFINE x == a + Len(h.mem[bs[1]])
           cs == Tail(bs)
<1>1. bs \in Seq(Buf) /\ cs \in Seq(Buf) /\ Len(cs) \in {1, 2} /\ Len(bs) > 0 /\ Len(bs) >= 2
  <2>1. bs \in Seq(Buf)
    BY DEF Owned
  <2>2. Len(bs) > 0 /\ Len(bs) >= 2
    OBVIOUS
  <2>3. cs \in Seq(Buf) /\ Len(cs) = Len(bs) - 1
    BY <2>1, <2>2
  <2>4. QED BY <2>1, <2>2, <2>3
<1>2. x \in a..t /\ Segments(h, cs, d, x, t)
  BY <1>1, SegmentsTail, Zenon
<1> HIDE DEF x, cs
<1>3. x \in Nat /\ x <= t
  BY <1>2
<1>4. Joined(h, cs) = Run(d, x, t)
  BY <1>1, <1>2, <1>3, SegmentsJoined
<1>5. Len(Run(d, x, t)) = t - x
  BY <1>3, RunIs
<1>6. Len(Joined(h, cs)) = t - x
  BY <1>4, <1>5
<1>7. ShouldCall(h, bs) <=> t - x >= 4
  BY <1>1, <1>6 DEF ShouldCall, cs
<1>8. (t - x >= 4) <=> x + 4 <= t
  BY <1>3
<1>9. QED BY <1>7, <1>8 DEF x

LEMMA OneTwoThree ==
    ASSUME NEW n
    PROVE  /\ n \in {1, 2} => n \in {1, 2, 3} /\ n # 3 /\ 1 \in 1..n /\ n \in Nat
           /\ n \in {1, 2} => n + 1 \in {1, 2, 3} /\ (n + 1 = 3 => n = 2)
           /\ n \in {1, 2, 3} => n > 0 /\ n \in 1..n
           /\ n \in Nat /\ n # 0 /\ n <= 2 => n \in {1, 2}
           /\ n \in {2, 3} => n - 1 <= 2
<1>1. ASSUME n \in {1, 2} PROVE n \in {1, 2, 3} /\ n # 3 /\ 1 \in 1..n /\ n \in Nat /\ n + 1 \in {1, 2, 3} /\ (n + 1 = 3 => n = 2)
  BY <1>1
<1>2. ASSUME n \in {1, 2, 3} PROVE n > 0 /\ n \in 1..n
  BY <1>2
<1>3. ASSUME n \in Nat, n # 0, n <= 2 PROVE n \in {1, 2}
  BY <1>3
<1>4. ASSUME n \in {2, 3} PROVE n - 1 <= 2
  BY <1>4
<1>5. QED BY <1>1, <1>2, <1>3, <1>4, Zenon

(* A piece goes to the last segment or to a new one, and the stream goes on. *)
LEMMA FlateWriteSpec ==
    ASSUME FileTypeOK, NEW p \in Seq(Int), FlateWrite(p),
           Owned(heap, rbuf, frame, other, buffers), Len(buffers) <= 2,
           NEW d \in Nat, NEW a \in Nat, NEW t \in Nat, NEW t2 \in Nat,
           data <= d, t <= data \/ d = data, a <= t, t <= t2, t2 <= d + 4,
           t2 - t <= SegmentSize - HeaderSize, p = Run(d, t, t2),
           Segments(heap, buffers, data, a, t)
    PROVE  Gathered(heap', rbuf, frame, other, buffers', d, a, t2, pc') /\ fin' = FALSE
<1> DEFINE size == Max({SegmentSize, Len(p)})
           First == IF buffers = <<>>
                    THEN {[heap |-> g.heap, bs |-> <<g.buf>>] : g \in Get(heap, size, Held)}
                    ELSE {[heap |-> heap, bs |-> buffers]}
           Full(f) == Len(f.heap.mem[Last(f.bs)]) + Len(p) + HeaderSize > f.heap.cap[Last(f.bs)]
           More(f) == IF Full(f)
                      THEN {[heap |-> g.heap, bs |-> Append(f.bs, g.buf)] :
                              g \in Get(f.heap, size, Held \cup {Last(f.bs)})}
                      ELSE {f}
           outer == {rbuf, frame, other.buf}
           Holds(h, bs, e, u) == Owned(h, rbuf, frame, other, bs) /\ Segments(h, bs, e, a, u)
<1>1. /\ data \in Nat /\ t <= data + 4 /\ HeaderSize \in Nat
      /\ SegmentSize \in Nat /\ SegmentSize <= Half /\ SegmentSize - HeaderSize >= 4
      /\ Len(p) = t2 - t /\ Len(p) \in Nat
  <2>1. data \in Nat /\ t <= data + 4 /\ HeaderSize \in Nat
    BY FileAssumption DEF FileTypeOK
  <2>2. SegmentSize \in Nat /\ SegmentSize <= Half /\ SegmentSize - HeaderSize >= 4
    BY <2>1, FileAssumption, HalfIsInt
  <2>3. Len(p) = t2 - t
    BY RunIs
  <2>4. QED BY <2>1, <2>2, <2>3
<1>2. size = SegmentSize
  <2>1. Len(p) <= SegmentSize
    BY <1>1
  <2>2. QED BY <1>1, <2>1, MaxOfTwo
<1>3. PICK f \in First : \E m \in More(f) :
        /\ heap' = Write(m.heap, Last(m.bs), p) /\ buffers' = m.bs /\ fin' = FALSE
        /\ pc' = IF ShouldCall(Write(m.heap, Last(m.bs), p), m.bs) THEN "gen" ELSE "flate"
  BY Zenon DEF FlateWrite
<1>4. PICK m \in More(f) :
        /\ heap' = Write(m.heap, Last(m.bs), p) /\ buffers' = m.bs /\ fin' = FALSE
        /\ pc' = IF ShouldCall(Write(m.heap, Last(m.bs), p), m.bs) THEN "gen" ELSE "flate"
  BY <1>3, Zenon
<1> DEFINE h == Write(m.heap, Last(m.bs), p)
<1>5. /\ Holds(f.heap, f.bs, data, t) /\ Len(f.bs) \in {1, 2}
      /\ Held \cup {Last(f.bs)} = outer \cup Range(f.bs)
  <2>1. buffers \in Seq(Buf)
    BY DEF Owned
  <2>2. CASE buffers # <<>>
    <3>1. f = [heap |-> heap, bs |-> buffers]
      BY <2>2, Zenon
    <3>2. f.heap = heap /\ f.bs = buffers
      BY <3>1, Zenon
    <3>3. Len(buffers) \in {1, 2}
      <4>1. Len(buffers) \in Nat /\ Len(buffers) # 0
        BY ONLY <2>1, <2>2
      <4>2. QED BY <4>1, OneTwoThree, Zenon
    <3>4. Last(buffers) \in Range(buffers)
      <4>1. Len(buffers) \in 1..Len(buffers)
        BY <3>3, OneTwoThree, Zenon
      <4>2. QED BY <2>1, <4>1, RangeOf, Zenon DEF Last
    <3>5. QED BY <3>2, <3>3, <3>4, Zenon DEF Held
  <2>3. CASE buffers = <<>>
    <3>1. PICK g \in Get(heap, SegmentSize, Held) : f = [heap |-> g.heap, bs |-> <<g.buf>>]
      BY <1>2, <2>3, Zenon
    <3>2. f.heap = g.heap /\ f.bs = <<g.buf>> /\ f.bs = Append(buffers, g.buf)
      BY <2>3, <3>1
    <3>3. Added(heap, rbuf, frame, other, buffers, data, a, t, g)
      <4>1. Held = outer \cup Range(buffers)
        BY DEF Held
      <4> HIDE DEF First, More
      <4>2. QED
        BY ONLY <1>1, <3>1, <4>1, SegmentAdded, Owned(heap, rbuf, frame, other, buffers),
                a \in Nat, t \in Nat, a <= t, Segments(heap, buffers, data, a, t)
    <3>4. Owned(f.heap, rbuf, frame, other, f.bs) /\ Segments(f.heap, f.bs, data, a, t) /\ g.buf \in Buf
      BY <3>2, <3>3, Zenon DEF Added
    <3>5. Len(f.bs) = 1 /\ Last(f.bs) = g.buf
      BY <3>2 DEF Last
    <3>6. Range(f.bs) = {g.buf} /\ Range(buffers) = {}
      BY <2>3, <3>2 DEF Range
    <3>7. QED BY <3>4, <3>5, <3>6, Zenon DEF Held
  <2>4. QED BY <2>2, <2>3
<1> HIDE DEF First, size
<1>6. /\ Holds(m.heap, m.bs, data, t) /\ Len(m.bs) \in {1, 2, 3}
      /\ Len(m.bs) = 3 => /\ Full(f) /\ Len(f.bs) = 2 /\ m.bs[1] = f.bs[1] /\ Last(m.bs) # m.bs[1]
                          /\ m.heap.mem[m.bs[1]] = f.heap.mem[f.bs[1]]
  <2>1. CASE ~Full(f)
    <3>1. m = f
      BY <2>1, Zenon
    <3>2. Len(m.bs) \in {1, 2}
      BY <1>5, <3>1, Zenon
    <3>3. Len(m.bs) \in {1, 2, 3} /\ Len(m.bs) # 3
      BY <3>2, OneTwoThree, Zenon
    <3>4. QED BY <1>5, <3>1, <3>3
  <2>2. CASE Full(f)
    <3>1. PICK g \in Get(f.heap, SegmentSize, Held \cup {Last(f.bs)}) :
            m = [heap |-> g.heap, bs |-> Append(f.bs, g.buf)]
      BY <1>2, <2>2, Zenon
    <3>2. m.heap = g.heap /\ m.bs = Append(f.bs, g.buf)
      BY <3>1, Zenon
    <3> DEFINE k == f.heap
               bs == f.bs
               held == Held \cup {Last(f.bs)}
    <3>3. Added(k, rbuf, frame, other, bs, data, a, t, g)
      <4>1. held = outer \cup Range(bs) /\ g \in Get(k, SegmentSize, held)
            /\ Owned(k, rbuf, frame, other, bs) /\ Segments(k, bs, data, a, t)
        BY <1>5, <3>1
      <4> HIDE DEF k, bs, held, More
      <4>2. QED
        BY ONLY <1>1, <4>1, SegmentAdded, a \in Nat, t \in Nat, a <= t
    <3>4. Holds(m.heap, m.bs, data, t) /\ g.buf \in Buf /\ g.buf \notin Range(bs)
          /\ SameElsewhere(k, g.heap, g.buf)
      BY <3>2, <3>3, Zenon DEF Added
    <3>5. bs \in Seq(Buf)
      BY <1>5 DEF Owned
    <3>6. /\ Len(m.bs) = Len(bs) + 1 /\ m.bs[1] = bs[1] /\ bs[1] \in Buf /\ Last(m.bs) = g.buf
          /\ bs[1] # g.buf
      <4>1. 1 \in 1..Len(bs) /\ Len(bs) \in Nat
        <5>1. Len(bs) \in {1, 2}
          BY <1>5, Zenon
        <5>2. QED BY <5>1, OneTwoThree, Zenon
      <4> HIDE DEF bs
      <4>2. g.buf # bs[1]
        BY <3>4, <3>5, <4>1, RangeOf
      <4>3. m.bs = Append(bs, g.buf)
        BY <3>2 DEF bs
      <4>4. QED BY <3>5, <4>1, <4>2, <4>3 DEF Last
    <3>7. m.heap.mem[m.bs[1]] = k.mem[bs[1]]
      BY <3>2, <3>4, <3>6 DEF SameElsewhere
    <3>8. Len(m.bs) \in {1, 2, 3} /\ (Len(m.bs) = 3 => Len(bs) = 2)
      <4>1. Len(bs) \in {1, 2} /\ Len(m.bs) = Len(bs) + 1
        BY <1>5, <3>6, Zenon
      <4>2. QED BY <4>1, OneTwoThree, Zenon
    <3>9. QED BY <2>2, <3>4, <3>6, <3>7, <3>8
  <2>3. QED BY <2>1, <2>2
<1> HIDE DEF More
<1> DEFINE b == Last(m.bs)
<1>7. m.bs \in Seq(Buf) /\ b \in Buf /\ Len(m.bs) > 0
      /\ \A i, j \in 1..Len(m.bs) : i # j => m.bs[i] # m.bs[j]
  <2>1. m.bs \in Seq(Buf) /\ \A i, j \in 1..Len(m.bs) : i # j => m.bs[i] # m.bs[j]
    BY <1>6, Zenon DEF Owned, Private
  <2>2. Len(m.bs) > 0 /\ Len(m.bs) \in 1..Len(m.bs)
    <3>1. Len(m.bs) \in {1, 2, 3}
      BY <1>6, Zenon
    <3>2. QED BY <3>1, OneTwoThree, Zenon
  <2>3. QED BY <2>1, <2>2 DEF Last
<1>8. m.heap \in Heaps
  BY <1>6 DEF Owned
<1>9. Holds(h, m.bs, d, t2)
  <2> DEFINE k == m.heap
             bs == m.bs
  <2>1. k \in Heaps /\ bs \in Seq(Buf) /\ Len(bs) > 0 /\ Last(bs) \in Buf
        /\ (\A i, j \in 1..Len(bs) : i # j => bs[i] # bs[j])
        /\ Owned(k, rbuf, frame, other, bs) /\ Segments(k, bs, data, a, t)
    BY <1>6, <1>7, <1>8
  <2> HIDE DEF k, bs
  <2>2. Owned(Write(k, Last(bs), p), rbuf, frame, other, bs)
    BY ONLY <2>1, p \in Seq(Int), WriteOwned
  <2>3. Segments(Write(k, Last(bs), Run(d, t, t2)), bs, d, a, t2)
    BY ONLY <1>1, <2>1, SegmentsWrite, d \in Nat, a \in Nat, t \in Nat, t2 \in Nat,
            data <= d, t <= data \/ d = data, a <= t, t <= t2, t2 <= d + 4
  <2>4. QED BY <2>2, <2>3 DEF k, bs
<1>10. CASE Len(m.bs) = 1
  <2>1. ~ShouldCall(h, m.bs)
    BY <1>10 DEF ShouldCall
  <2>2. QED BY <1>4, <1>9, <1>10, <2>1 DEF Gathered
<1>11. CASE Len(m.bs) \in {2, 3}
  <2>1. ShouldCall(h, m.bs) <=> a + Len(h.mem[m.bs[1]]) + 4 <= t2
    <3> DEFINE k == h
               bs == m.bs
    <3>1. Owned(k, rbuf, frame, other, bs) /\ Segments(k, bs, d, a, t2) /\ Len(bs) \in {2, 3}
      BY <1>9, <1>11
    <3>2. a <= t2
      OBVIOUS
    <3> HIDE DEF k, bs
    <3>3. ShouldCall(k, bs) <=> a + Len(k.mem[bs[1]]) + 4 <= t2
      BY ONLY <3>1, <3>2, ShouldCallSpec, d \in Nat, a \in Nat, t2 \in Nat, t2 <= d + 4
    <3>4. QED BY <3>3 DEF k, bs
  <2>2. CASE Len(m.bs) = 2
    BY <1>4, <1>9, <2>1, <2>2 DEF Gathered
  <2>3. CASE Len(m.bs) = 3
    <3> DEFINE x == a + Len(f.heap.mem[f.bs[1]])
    <3>1. h.mem[m.bs[1]] = f.heap.mem[f.bs[1]]
      <4>1. m.bs[1] \in Buf \ {b}
        BY <1>6, <1>7, <2>3
      <4>2. h.mem[m.bs[1]] = m.heap.mem[m.bs[1]]
        <5>1. \A c \in Buf \ {b} : h.mem[c] = m.heap.mem[c]
          BY ONLY <1>7, <1>8, p \in Seq(Int), WriteSpec
        <5>2. QED BY <4>1, <5>1
      <4>3. QED BY <1>6, <2>3, <4>2
    <3>2. f.bs \in Seq(Buf) /\ Len(f.bs) = 2 /\ Last(f.bs) = f.bs[2] /\ f.bs[2] \in Buf /\ f.heap \in Heaps
      <4>1. f.bs \in Seq(Buf) /\ Len(f.bs) = 2 /\ f.heap \in Heaps
        BY <1>5, <1>6, <2>3, Zenon DEF Owned
      <4>2. QED BY ONLY <4>1 DEF Last
    <3>3. x \in a..t /\ f.heap.mem[f.bs[2]] = Run(data, x, t)
      <4> DEFINE k == f.heap
                 bs == f.bs
                 cs == Tail(bs)
      <4>1. bs \in Seq(Buf) /\ Len(bs) > 0 /\ Segments(k, bs, data, a, t)
        BY <1>5, <3>2
      <4>2. Len(cs) = 1 /\ cs[1] = bs[2] /\ cs \in Seq(Buf)
        BY <3>2
      <4>3. x \in a..t /\ Segments(k, cs, data, x, t)
        <5> HIDE DEF k, bs
        <5>1. LET y == a + Len(k.mem[bs[1]]) IN y \in a..t /\ Segments(k, Tail(bs), data, y, t)
          BY ONLY <1>1, <4>1, SegmentsTail, a \in Nat, t \in Nat, a <= t
        <5>2. QED BY <5>1 DEF k, bs
      <4> HIDE DEF k, bs, cs, x
      <4>4. k.mem[cs[1]] = Run(data, x, t)
        <5>1. PICK at \in [0..1 -> x..t] :
                /\ at[0] = x /\ at[1] = t
                /\ \A i \in 1..1 : k.mem[cs[i]] = Run(data, at[i - 1], at[i])
          BY <4>2, <4>3, Zenon DEF Segments
        <5>2. 1 \in 1..1 /\ 1 - 1 = 0
          OBVIOUS
        <5>3. QED BY <5>1, <5>2, Zenon
      <4>5. QED BY <4>2, <4>3, <4>4 DEF k, bs, x
    <3>4. Len(f.heap.mem[f.bs[2]]) = t - x
      <4> HIDE DEF x
      <4>1. x \in Nat /\ x <= t
        BY ONLY <3>3, a \in Nat, t \in Nat
      <4>2. Len(Run(data, x, t)) = t - x
        BY ONLY <1>1, <4>1, t \in Nat, RunIs
      <4>3. QED BY <3>3, <4>2
    <3>5. f.heap.cap[f.bs[2]] \in Nat /\ f.heap.cap[f.bs[2]] >= SegmentSize
      <4>1. 2 \in 1..Len(f.bs)
        BY <3>2
      <4>2. QED BY <1>5, <3>2, <4>1 DEF Owned, Heaps
    <3>6. t - x + (t2 - t) + HeaderSize > f.heap.cap[f.bs[2]]
      BY <1>1, <1>6, <2>3, <3>2, <3>4
    <3> HIDE DEF x
    <3>7. x + 4 <= t2
      <4> DEFINE c == f.heap.cap[f.bs[2]]
      <4>1. x \in Nat /\ c \in Nat /\ c >= SegmentSize /\ t - x + (t2 - t) + HeaderSize > c
        BY <3>3, <3>5, <3>6
      <4> HIDE DEF c
      <4>2. HeaderSize \in Nat /\ SegmentSize \in Nat /\ SegmentSize - HeaderSize >= 4
        BY <1>1
      <4>3. QED BY <4>1, <4>2
    <3>8. ShouldCall(h, m.bs) /\ a + Len(h.mem[m.bs[1]]) + 4 <= t2
      BY <2>1, <3>1, <3>7 DEF x
    <3>9. QED BY <1>4, <1>9, <2>3, <3>8 DEF Gathered
  <2>4. QED BY <1>11, <2>2, <2>3
<1>12. QED BY <1>6, <1>10, <1>11

(* At most two segments wait for the next piece. *)
LEMMA FlateWriteInv ==
    ASSUME FileInv, pc = "flate", NEW d \in Nat, NEW n \in 0..4, data' = d, marker' = n,
           data <= d, marker <= n, marker = 0 \/ d = data,
           d + n - (data + marker) <= SegmentSize - HeaderSize,
           FlateWrite(Run(d, data + marker, d + n)),
           UNCHANGED <<compress, rbuf, index, frame, eof, sent, result, other>>
    PROVE  FileInv'
<1>1. Owned(heap, rbuf, frame, other, buffers) /\ Places /\ FileTypeOK
  BY DEF FileInv
<1>2. /\ data \in Nat /\ marker \in 0..4 /\ compress /\ result = "none" /\ frame = 0
      /\ index = Len(sent) /\ Len(buffers) <= 2
  <2>1. data \in Nat /\ marker \in 0..4
    BY <1>1, Zenon DEF FileTypeOK
  <2>2. result = "none"
    BY <1>1 DEF Places, FileTypeOK
  <2>3. compress /\ frame = 0 /\ index = Len(sent) /\ Len(buffers) <= 2
    BY <1>1 DEF Places, FileTypeOK
  <2>4. QED BY <2>1, <2>2, <2>3
<1>3. PICK a \in 0..data : Progress(a)
  BY DEF FileInv
<1>4. Gathered(heap', rbuf, frame, other, buffers', d, a, d + n, pc') /\ fin' = FALSE
  <2> DEFINE t == data + marker
             t2 == d + n
             p == Run(d, t, t2)
  <2>2. t \in Nat /\ t2 \in Nat /\ a \in Nat /\ a <= t /\ t <= t2 /\ t2 <= d + 4
    BY <1>2
  <2>3. t <= data \/ d = data
    BY <1>2
  <2>4. Segments(heap, buffers, data, a, t)
    BY <1>2, <1>3 DEF Progress
  <2>5. t2 - t <= SegmentSize - HeaderSize
    <3>1. SegmentSize \in Int /\ HeaderSize \in Int
      BY FileAssumption, HalfIsInt
    <3>2. QED BY <1>2, <3>1
  <2>6. FlateWrite(p)
    OBVIOUS
  <2> HIDE DEF t, t2
  <2>7. p \in Seq(Int)
    BY <2>2, RunIs
  <2>8. p = Run(d, t, t2)
    OBVIOUS
  <2> HIDE DEF p
  <2>9. Gathered(heap', rbuf, frame, other, buffers', d, a, t2, pc') /\ fin' = FALSE
    BY ONLY <1>1, <1>2, <2>2, <2>3, <2>4, <2>5, <2>6, <2>7, <2>8, d \in Nat, data <= d, FlateWriteSpec
  <2>10. QED BY <2>9 DEF t2
<1>5. Owned(heap, rbuf, frame, other, buffers)'
  BY <1>4, Zenon DEF Gathered
<1>6. FileTypeOK'
  <2>1. pc' \in {"gen", "flate"}
    BY <1>4 DEF Gathered
  <2>2. QED BY <1>1, <1>4, <2>1 DEF FileTypeOK, Locations
<1>7. Places'
  <2>1. \/ pc' = "gen" /\ Len(buffers') \in {2, 3}
        \/ pc' = "flate" /\ Len(buffers') <= 2
    BY <1>4, Zenon DEF Gathered
  <2>2. CASE pc' = "gen" /\ Len(buffers') \in {2, 3}
    BY <1>2, <1>4, <2>2 DEF Places
  <2>3. CASE pc' = "flate" /\ Len(buffers') <= 2
    BY <1>2, <2>3 DEF Places
  <2>4. QED BY <2>1, <2>2, <2>3
<1>8. OneMessage' /\ Past' /\ SentBefore(Len(sent) + 1)' = SentBefore(Len(sent) + 1)
  BY <1>1, NothingSent DEF FileTypeOK
<1>9. Progress(a)' /\ a \in 0..data'
  <2>1. a \in 0..data'
    BY <1>2
  <2>2. /\ Segments(heap', buffers', data', a, data' + marker')
        /\ pc' = "gen" => a + Len(heap'.mem[buffers'[1]]) + 4 <= data' + marker'
        /\ pc' \in {"gen", "flate"}
    BY <1>4 DEF Gathered
  <2>3. SentBefore(Len(sent) + 1)' = 1..a
    BY <1>3, <1>8 DEF Progress
  <2>4. QED BY <1>2, <1>4, <2>1, <2>2, <2>3 DEF Progress
<1>10. QED BY <1>5, <1>6, <1>7, <1>8, <1>9 DEF FileInv

(* The pieces are data, *)
LEMMA FlatePieceInv == ASSUME FileInv, FlatePiece PROVE FileInv'
<1>1. PICK n \in PieceSizes : FlateWrite(Bytes(data + 1, data + n)) /\ data' = data + n
  BY DEF FlatePiece
<1>2. /\ pc = "flate" /\ marker = 0 /\ marker' = 0
      /\ UNCHANGED <<compress, rbuf, index, frame, eof, sent, result, other>>
  BY DEF FlatePiece
<1>3. data \in Nat /\ n \in Nat /\ n <= SegmentSize - HeaderSize /\ data + n \in Nat
  BY FileAssumption, HalfIsInt DEF FileInv, FileTypeOK
<1> DEFINE d == data + n
<1>4. d \in Nat /\ data <= d /\ data + marker = data /\ d + 0 = d /\ d + 0 - (data + marker) <= SegmentSize - HeaderSize
  BY <1>2, <1>3, FileAssumption, HalfIsInt
<1>5. data' = d /\ FlateWrite(Bytes(data + 1, d))
  BY <1>1
<1> HIDE DEF d
<1>6. Run(d, data, d) = Bytes(data + 1, d)
  BY <1>3, <1>4, RunOfData
<1>7. FlateWrite(Run(d, data + marker, d + 0))
  BY <1>4, <1>5, <1>6
<1>8. 0 \in 0..4 /\ marker <= 0
  BY <1>2
<1>9. QED BY ONLY FileInv, <1>2, <1>4, <1>5, <1>7, <1>8, FlateWriteInv

(* and then the marker. *)
LEMMA FlateMarkerInv == ASSUME FileInv, FlateMarker PROVE FileInv'
<1>1. PICK k \in 1..(4 - marker) :
        FlateWrite(SubSeq(Marker, marker + 1, marker + k)) /\ marker' = marker + k
  BY DEF FlateMarker
<1>2. /\ pc = "flate" /\ data' = data
      /\ UNCHANGED <<compress, rbuf, index, frame, eof, sent, result, other>>
  BY DEF FlateMarker
<1> DEFINE n == marker + k
<1>3. /\ data \in Nat /\ marker \in 0..4 /\ n \in 0..4 /\ marker <= n /\ k \in 0..(4 - marker)
      /\ data + n - (data + marker) <= 4
  BY DEF FileInv, FileTypeOK
<1>4. data + n - (data + marker) <= SegmentSize - HeaderSize
  <2>1. SegmentSize - HeaderSize >= 4 /\ SegmentSize - HeaderSize \in Int
    BY FileAssumption, HalfIsInt
  <2>2. QED BY <1>3, <2>1
<1>5. Run(data, data + marker, data + marker + k) = SubSeq(Marker, marker + 1, marker + k)
  BY <1>3, RunMarker
<1>6. data + marker + k = data + n
  BY <1>3
<1>7. FlateWrite(Run(data, data + marker, data + n))
  BY <1>1, <1>5, <1>6
<1>8. marker' = n /\ data <= data
  BY <1>1, <1>3
<1> HIDE DEF n
<1>9. QED BY ONLY FileInv, <1>2, <1>3, <1>4, <1>7, <1>8, FlateWriteInv

-----------------------------------------------------------------------------
(* flateWriter.Flush. *)
LEMMA SubSeqIs ==
    ASSUME NEW s \in Seq(Int), NEW i \in Nat \ {0}, NEW j \in Nat, i <= j + 1, j <= Len(s)
    PROVE  /\ SubSeq(s, i, j) \in Seq(Int) /\ Len(SubSeq(s, i, j)) = j - i + 1
           /\ \A k \in 1..(j - i + 1) : SubSeq(s, i, j)[k] = s[i + k - 1]
  OBVIOUS

LEMMA SameSeq ==
    ASSUME NEW S, NEW s \in Seq(S), NEW u \in Seq(S), NEW n \in Nat, Len(s) = n, Len(u) = n,
           \A k \in 1..n : s[k] = u[k]
    PROVE  s = u
<1>1. s \in [1..n -> S] /\ u \in [1..n -> S]
  <2>1. \A w \in Seq(S) : w \in [1..Len(w) -> S]
    OBVIOUS
  <2>2. QED BY <2>1
<1>2. QED BY <1>1

LEMMA RunPart ==
    ASSUME NEW d \in Nat, NEW a \in Nat, NEW x \in Nat, NEW y \in Nat, NEW t \in Nat,
           a <= x, x <= y, y <= t, t <= d + 4
    PROVE  SubSeq(Run(d, a, t), x - a + 1, y - a) = Run(d, x, y)
<1> DEFINE s == Run(d, a, t)
           u == Run(d, x, y)
           i == x - a + 1
           j == y - a
           w == SubSeq(s, i, j)
<1>1. /\ s \in Seq(Int) /\ Len(s) = t - a
      /\ \A k \in 1..(t - a) : s[k] = Stream(d, a + k)
  <2>1. a <= t
    OBVIOUS
  <2> HIDE DEF s
  <2>2. QED BY <2>1, RunIs DEF s
<1>2. /\ u \in Seq(Int) /\ Len(u) = y - x
      /\ \A k \in 1..(y - x) : u[k] = Stream(d, x + k)
  <2>1. y <= d + 4
    OBVIOUS
  <2> HIDE DEF u
  <2>2. QED BY <2>1, RunIs DEF u
<1>3. i \in Nat \ {0} /\ j \in Nat /\ i <= j + 1 /\ j <= t - a /\ j - i + 1 = y - x
  OBVIOUS
<1> HIDE DEF s, u, i, j
<1>4. /\ w \in Seq(Int) /\ Len(w) = y - x
      /\ \A k \in 1..(y - x) : w[k] = s[i + k - 1]
  <2>1. j <= Len(s)
    BY <1>1, <1>3
  <2> HIDE DEF w
  <2>2. /\ w \in Seq(Int) /\ Len(w) = j - i + 1
        /\ \A k \in 1..(j - i + 1) : w[k] = s[i + k - 1]
    BY <1>1, <1>3, <2>1, SubSeqIs DEF w
  <2>3. QED BY <1>3, <2>2
<1> HIDE DEF w
<1>5. \A k \in 1..(y - x) : w[k] = u[k]
  <2> SUFFICES ASSUME NEW k \in 1..(y - x) PROVE w[k] = u[k]
    OBVIOUS
  <2>1. i + k - 1 \in 1..(t - a) /\ a + (i + k - 1) = x + k
    BY DEF i
  <2>2. w[k] = s[i + k - 1] /\ s[i + k - 1] = Stream(d, a + (i + k - 1)) /\ u[k] = Stream(d, x + k)
    BY <1>1, <1>2, <1>4, <2>1
  <2>3. QED BY <2>1, <2>2
<1>6. y - x \in Nat
  OBVIOUS
<1>7. w = u
  BY <1>2, <1>4, <1>5, <1>6, SameSeq
<1>8. QED BY <1>7 DEF w, u, s, i, j

(* The segments at the end: the data that was not sent, then the marker. *)
Ends(d, a, u, n) ==
    /\ SubSeq(u, n - 3, n) = Marker
    /\ SubSeq(u, 1, n - 4) = Run(d, a, d)
    /\ Run(d, a, d) \in Seq(Int)

LEMMA RunEnds ==
    ASSUME NEW d \in Nat, NEW a \in Nat, a <= d,
           NEW u, u = Run(d, a, d + 4), NEW n, n = d + 4 - a
    PROVE  Ends(d, a, u, n)
<1> DEFINE t == d + 4
<1>1. t \in Nat /\ d <= t /\ a <= t /\ t <= d + 4 /\ d <= d + 4 /\ a <= a /\ d <= d /\ t <= t
  OBVIOUS
<1>2. u = Run(d, a, t)
  OBVIOUS
<1>3. n - 3 = d - a + 1 /\ n = t - a /\ n - 4 = d - a /\ 1 = a - a + 1
  OBVIOUS
<1> HIDE DEF t
<1>4. SubSeq(Run(d, a, t), d - a + 1, t - a) = Run(d, d, t)
  BY ONLY <1>1, RunPart, d \in Nat, a \in Nat, a <= d
<1>5. SubSeq(Run(d, a, t), a - a + 1, d - a) = Run(d, a, d)
  BY ONLY <1>1, RunPart, d \in Nat, a \in Nat, a <= d
<1>6. Run(d, a, d) \in Seq(Int)
  BY ONLY <1>1, RunIs, d \in Nat, a \in Nat, a <= d
<1>7. Run(d, d, t) = Marker
  <2>1. Run(d, d + 0, d + 0 + 4) = SubSeq(Marker, 0 + 1, 0 + 4)
    <3>1. 0 \in 0..4 /\ 4 \in 0..(4 - 0)
      OBVIOUS
    <3>2. QED BY <3>1, RunMarker, Zenon
  <2>2. d + 0 = d /\ d + 0 + 4 = t /\ 0 + 1 = 1 /\ 0 + 4 = 4
    BY DEF t
  <2>3. SubSeq(Marker, 1, 4) = Marker
    <3> DEFINE m == Marker
               w == SubSeq(m, 1, 4)
    <3>1. m \in Seq(Int) /\ Len(m) = 4
      BY DEF Marker
    <3> HIDE DEF m
    <3>2. 1 \in Nat \ {0} /\ 4 \in Nat /\ 1 <= 4 + 1 /\ 4 <= Len(m) /\ 4 - 1 + 1 = 4
      BY ONLY <3>1
    <3>3. w \in Seq(Int) /\ Len(w) = 4 - 1 + 1 /\ \A i \in 1..(4 - 1 + 1) : w[i] = m[1 + i - 1]
      BY ONLY <3>1, <3>2, SubSeqIs
    <3>4. w \in Seq(Int) /\ Len(w) = 4 /\ \A i \in 1..4 : w[i] = m[i]
      BY ONLY <3>3
    <3> HIDE DEF w
    <3>5. w = m
      BY ONLY <3>1, <3>4, SameSeq
    <3>6. QED BY <3>5 DEF w, m
  <2>4. QED BY <2>1, <2>2, <2>3, Zenon
<1>8. QED BY <1>2, <1>3, <1>4, <1>5, <1>6, <1>7 DEF Ends

LEMMA OwnedSwap ==
    ASSUME NEW h, NEW rb, NEW fr, NEW o, NEW bs, Owned(h, rb, fr, o, bs), Len(bs) = 2
    PROVE  Owned(h, rb, fr, o, <<bs[2], bs[1]>>)
<1> DEFINE cs == <<bs[2], bs[1]>>
           outer == {rb, fr, o.buf}
<1>1. bs \in Seq(Buf) /\ Private(h, outer, bs) /\ \A i \in 1..Len(bs) : h.cap[bs[i]] >= SegmentSize
  BY DEF Owned
<1>2. /\ cs \in Seq(Buf) /\ Len(cs) = 2
      /\ \A i \in 1..2 : 3 - i \in 1..2 /\ cs[i] = bs[3 - i]
  BY <1>1
<1> HIDE DEF cs, outer
<1>3. \A b \in Range(cs) : b \in Range(bs)
  BY <1>1, <1>2, RangeOf
<1>4. \A b \in Buf : h.idle[b] <= 1 /\ (h.idle[b] = 1 => b \notin outer \cup Range(bs))
  BY <1>1, Zenon DEF Private
<1>5. \A b \in Range(bs) : b \in Range(cs)
  <2>1. \A i \in 1..2 : bs[i] = cs[3 - i] /\ 3 - i \in 1..2
    BY <1>2
  <2>2. QED BY <1>1, <1>2, <2>1, RangeOf
<1>6. /\ \A i \in 1..Len(cs) : cs[i] \notin outer /\ h.cap[cs[i]] >= SegmentSize
      /\ \A i, j \in 1..Len(cs) : i # j => cs[i] # cs[j]
  BY <1>1, <1>2 DEF Private
<1>7. Private(h, outer, cs)
  BY <1>3, <1>4, <1>6, Zenon DEF Private
<1>8. Owned(h, rb, fr, o, cs)
  BY <1>2, <1>6, <1>7, Zenon DEF Owned, outer
<1>9. QED BY <1>8 DEF cs

(* Flush joins the segments and cuts off exactly the marker. *)
LEMMA FlushInv == ASSUME FileInv, Flush PROVE FileInv'
<1> DEFINE all == Joined(heap, buffers)
           n == Len(all)
           kept == IF n >= 4 /\ SubSeq(all, n - 3, n) = Marker THEN SubSeq(all, 1, n - 4) ELSE all
           b == buffers[1]
           s == SubSeq(all, Len(Contents(b)) + 1, n)
           h == Write(heap, b, s)
           k == FoldLeft(Put, h, Tail(buffers))
<1>1. Owned(heap, rbuf, frame, other, buffers) /\ Places /\ FileTypeOK
  BY DEF FileInv
<1>2. /\ pc = "flate" /\ marker = 4 /\ fin' = TRUE /\ pc' = "gen" /\ buffers' = <<b>>
      /\ heap' = [k EXCEPT !.mem[b] = kept]
      /\ UNCHANGED <<compress, rbuf, index, frame, eof, data, marker, sent, result, other>>
  BY Zenon DEF Flush
<1>3. /\ data \in Nat /\ compress /\ result = "none" /\ frame = 0
      /\ index = Len(sent) /\ Len(buffers) <= 2
  <2>1. data \in Nat
    BY <1>1, Zenon DEF FileTypeOK
  <2>2. result = "none"
    BY <1>1, <1>2 DEF Places, FileTypeOK
  <2>3. compress /\ frame = 0 /\ index = Len(sent) /\ Len(buffers) <= 2
    BY <1>1, <1>2 DEF Places, FileTypeOK
  <2>4. QED BY <2>1, <2>2, <2>3
<1>4. PICK a \in 0..data : Progress(a)
  BY DEF FileInv
<1>5. Segments(heap, buffers, data, a, data + 4)
  BY <1>2, <1>3, <1>4 DEF Progress
<1>6. a \in Nat /\ a <= data /\ data + 4 \in Nat /\ a <= data + 4 /\ data <= data + 4
  BY <1>3
<1>7. buffers \in Seq(Buf) /\ Len(buffers) \in {1, 2} /\ b \in Buf
  <2>1. buffers \in Seq(Buf)
    BY <1>1 DEF Owned
  <2>2. buffers # <<>>
    <3>1. a # data + 4
      BY <1>3, <1>6
    <3>2. ~Segments(heap, <<>>, data, a, data + 4)
      BY <1>6, <3>1, SegmentsNone
    <3>3. QED BY <1>5, <3>2
  <2>3. Len(buffers) \in Nat /\ Len(buffers) # 0 /\ b \in Buf
    BY ONLY <2>1, <2>2
  <2>4. QED BY <1>3, <2>1, <2>3, OneTwoThree, Zenon
<1>8. all = Run(data, a, data + 4) /\ n = data + 4 - a /\ all \in Seq(Int)
  <2>1. Joined(heap, buffers) = Run(data, a, data + 4)
    BY <1>3, <1>5, <1>6, <1>7, SegmentsJoined
  <2>2. Len(Run(data, a, data + 4)) = data + 4 - a /\ Run(data, a, data + 4) \in Seq(Int)
    <3> DEFINE t == data + 4
    <3>1. t \in Nat /\ a <= t /\ t <= data + 4
      BY <1>3, <1>6
    <3> HIDE DEF t
    <3>2. Len(Run(data, a, t)) = t - a /\ Run(data, a, t) \in Seq(Int)
      BY ONLY <1>3, <1>6, <3>1, RunIs
    <3>3. QED BY ONLY <3>2, <1>3, <1>6 DEF t
  <2>3. QED BY <2>1, <2>2
<1>9. kept = Run(data, a, data) /\ kept \in Seq(Int)
  <2>1. /\ SubSeq(all, n - 3, n) = Marker /\ SubSeq(all, 1, n - 4) = Run(data, a, data)
        /\ Run(data, a, data) \in Seq(Int)
    <3> HIDE DEF all, n
    <3>1. data \in Nat /\ a \in Nat /\ a <= data
      BY <1>3, <1>6
    <3>2. Ends(data, a, all, n)
      BY ONLY <1>8, <3>1, RunEnds
    <3>3. QED BY <3>2, Zenon DEF Ends
  <2>2. n >= 4
    BY <1>3, <1>6, <1>8
  <2>3. QED BY <2>1, <2>2
<1>10. s \in Seq(Int)
  BY <1>8
<1> HIDE DEF kept, s
<1>11. Owned(h, rbuf, frame, other, buffers)
  <2> HIDE DEF b
  <2>1. QED BY ONLY <1>1, <1>7, <1>10, WriteOwned
<1> HIDE DEF h
<1>12. Owned(k, rbuf, frame, other, <<b>>)
  <2>1. CASE Len(buffers) = 1
    <3>1. Tail(buffers) = <<>> /\ buffers = <<b>>
      <4> DEFINE bs == buffers
      <4> HIDE DEF bs
      <4>1. bs \in Seq(Buf) /\ Len(bs) = 1
        BY <1>7, <2>1 DEF bs
      <4>2. Tail(bs) = <<>>
        <5> DEFINE ds == Tail(bs)
        <5>0. bs \in Seq(Buf) /\ Len(bs) > 0
          BY ONLY <4>1
        <5>1. ds \in Seq(Buf) /\ Len(ds) = Len(bs) - 1
          BY ONLY <5>0
        <5> HIDE DEF ds
        <5>2. ds \in Seq(Buf) /\ Len(ds) = 0
          BY ONLY <4>1, <5>1
        <5>3. ds = <<>>
          BY ONLY <5>2
        <5>4. QED BY <5>3 DEF ds
      <4>3. bs = <<bs[1]>>
        <5> DEFINE cs == <<bs[1]>>
        <5>1. cs \in Seq(Buf) /\ Len(cs) = 1 /\ cs[1] = bs[1]
          BY ONLY <4>1
        <5> HIDE DEF cs
        <5>2. bs = cs
          BY ONLY <4>1, <5>1, SameSeq
        <5>3. QED BY <5>2 DEF cs
      <4>4. QED BY <4>2, <4>3 DEF bs
    <3>2. k = h
      BY <3>1, PutsNone
    <3>3. QED BY <1>11, <3>1, <3>2
  <2>2. CASE Len(buffers) = 2
    <3> DEFINE c == buffers[2]
    <3>1. Tail(buffers) = <<c>>
      <4> DEFINE bs == buffers
      <4> HIDE DEF bs
      <4>1. bs \in Seq(Buf) /\ Len(bs) = 2
        BY <1>7, <2>2 DEF bs
      <4>2. Tail(bs) = <<bs[2]>>
        <5> DEFINE cs == <<bs[2]>>
                   ds == Tail(bs)
        <5>1. /\ cs \in Seq(Buf) /\ Len(cs) = 1 /\ cs[1] = bs[2]
              /\ ds \in Seq(Buf) /\ Len(ds) = 1 /\ ds[1] = bs[2]
          BY ONLY <4>1
        <5> HIDE DEF cs, ds
        <5>2. ds = cs
          BY ONLY <5>1, SameSeq
        <5>3. QED BY <5>2 DEF cs, ds
      <4>3. QED BY <4>2 DEF bs
    <3>2. k = Put(h, c)
      BY <3>1, PutsOne
    <3>3. Owned(h, rbuf, frame, other, <<c, b>>)
      BY ONLY <1>11, <2>2, OwnedSwap
    <3>4. Owned(Put(h, <<c, b>>[1]), rbuf, frame, other, Tail(<<c, b>>))
      <4> DEFINE cs == <<c, b>>
      <4>1. Len(cs) > 0
        OBVIOUS
      <4>2. Owned(h, rbuf, frame, other, cs)
        BY <3>3
      <4> HIDE DEF cs
      <4>3. Owned(Put(h, cs[1]), rbuf, frame, other, Tail(cs))
        BY ONLY <4>1, <4>2, PutOwned
      <4>4. QED BY <4>3 DEF cs
    <3>5. <<c, b>>[1] = c /\ Tail(<<c, b>>) = <<b>>
      OBVIOUS
    <3>6. QED BY <3>2, <3>4, <3>5
  <2>3. QED BY <1>7, <2>1, <2>2
<1> HIDE DEF k
<1>13. Owned(heap', rbuf, frame, other, <<b>>) /\ heap'.mem[b] = kept
  <2> DEFINE h2 == heap'
             bs == <<b>>
  <2>1. h2 = [k EXCEPT !.mem[b] = kept] /\ b \in Buf /\ kept \in Seq(Int) /\ Owned(k, rbuf, frame, other, bs)
    BY <1>2, <1>7, <1>9, <1>12, Zenon
  <2> HIDE DEF h2, bs, b
  <2>2. Filled(k, rbuf, frame, other, bs, b, kept, h2)
    BY ONLY <2>1, FillOwned
  <2>3. QED BY <2>2, Zenon DEF Filled, h2, bs
<1>14. Owned(heap, rbuf, frame, other, buffers)'
  BY <1>2, <1>13
<1>15. FileTypeOK'
  BY <1>1, <1>2, <1>3 DEF FileTypeOK, Locations
<1>16. Places'
  <2>1. Len(buffers') = 1
    BY <1>2
  <2>2. QED BY <1>2, <1>3, <2>1 DEF Places
<1>17. OneMessage' /\ Past' /\ SentBefore(Len(sent) + 1)' = SentBefore(Len(sent) + 1)
  BY <1>1, <1>2, NothingSent DEF FileTypeOK
<1>18. Progress(a)' /\ a \in 0..data'
  <2>1. SentBefore(Len(sent) + 1)' = 1..a
    BY <1>4, <1>17 DEF Progress
  <2>2. buffers'[1] = b
    BY <1>2
  <2>3. heap'.mem[buffers'[1]] = Run(data', a, data')
    BY <1>2, <1>9, <1>13, <2>2
  <2>4. QED BY <1>2, <1>3, <2>1, <2>3 DEF Progress
<1>19. QED BY <1>14, <1>15, <1>16, <1>17, <1>18 DEF FileInv

-----------------------------------------------------------------------------
(* The callback. *)
LEMMA ReturnOwned ==
    ASSUME NEW h, NEW ok, Owned(h, rbuf, 0, other, buffers), compress => Len(buffers) > 0, Return(h, ok)
    PROVE  Owned(heap', rbuf', 0, other, buffers')
<1> DEFINE h1 == IF compress THEN Put(h, buffers[1]) ELSE h
           end == ~ok \/ fin
<1>1. /\ heap' = IF end /\ rbuf # 0 THEN Put(h1, rbuf) ELSE h1
      /\ rbuf' = IF end THEN 0 ELSE rbuf
      /\ buffers' = IF compress THEN Tail(buffers) ELSE buffers
  BY Zenon DEF Return
<1>2. Owned(h1, rbuf, 0, other, buffers')
  <2>1. CASE compress
    <3>1. Owned(Put(h, buffers[1]), rbuf, 0, other, Tail(buffers))
      BY ONLY <2>1, compress => Len(buffers) > 0, Owned(h, rbuf, 0, other, buffers), PutOwned
    <3>2. QED BY <1>1, <2>1, <3>1, Zenon
  <2>2. CASE ~compress
    BY <1>1, <2>2, Zenon
  <2>3. QED BY <2>1, <2>2
<1> HIDE DEF h1
<1>3. CASE end /\ rbuf # 0
  <2> DEFINE bs == buffers'
  <2> HIDE DEF bs
  <2>1. Owned(h1, rbuf, 0, other, bs)
    BY <1>2 DEF bs
  <2>2. Owned(Put(h1, rbuf), 0, 0, other, bs)
    BY ONLY <1>3, <2>1, PutOwned
  <2>3. Owned(Put(h1, rbuf), 0, 0, other, buffers')
    BY <2>2 DEF bs
  <2>4. heap' = Put(h1, rbuf) /\ rbuf' = 0
    BY <1>1, <1>3, Zenon
  <2>5. QED BY <2>3, <2>4, Zenon
<1>4. CASE ~(end /\ rbuf # 0)
  <2>1. heap' = h1 /\ rbuf' = rbuf
    BY <1>1, <1>4, Zenon
  <2>2. QED BY <1>2, <2>1, Zenon
<1>5. QED BY <1>3, <1>4, Zenon

(* After an error no frame follows, and what was sent stays as it is. *)
LEMMA ReturnErrorInv ==
    ASSUME FileInv, pc \in {"gen", "send"}, NEW h, Owned(h, rbuf, 0, other, buffers),
           Return(h, FALSE), UNCHANGED <<compress, eof, fin, data, marker, sent, other>>
    PROVE  FileInv'
<1>1. Owned(heap, rbuf, frame, other, buffers) /\ Places /\ FileTypeOK
  BY DEF FileInv
<1>2. /\ pc' = "done" /\ result' = "error" /\ frame' = 0 /\ index' = index + 1
      /\ buffers' = IF compress THEN Tail(buffers) ELSE buffers
  BY Zenon DEF Return
<1>3. result = "none"
  BY <1>1 DEF Places, FileTypeOK
<1>4. compress => Len(buffers) \in {1, 2, 3} /\ Len(buffers) > 0
  <2>1. compress => Len(buffers) \in {1, 2, 3}
    BY <1>1, Zenon DEF Places
  <2>2. QED BY <2>1, OneTwoThree, Zenon
<1>5. Owned(heap', rbuf', 0, other, buffers')
  BY ONLY <1>4, Owned(h, rbuf, 0, other, buffers), Return(h, FALSE), ReturnOwned
<1>6. Owned(heap, rbuf, frame, other, buffers)'
  BY <1>2, <1>5
<1>7. FileTypeOK'
  BY <1>1, <1>2 DEF FileTypeOK, Locations
<1>8. Places'
  BY <1>1, <1>2 DEF Places
<1>9. OneMessage' /\ Past' /\ SentBefore(Len(sent) + 1)' = SentBefore(Len(sent) + 1)
  BY <1>1, <1>2, <1>3, NothingSent DEF FileTypeOK
<1>10. PICK a \in 0..data : Progress(a)
  BY DEF FileInv
<1>11. Progress(a)'
  <2>1. SentBefore(Len(sent) + 1)' = 1..a
    BY <1>9, <1>10 DEF Progress
  <2>2. QED BY <1>2, <2>1 DEF Progress
<1>12. QED BY <1>6, <1>7, <1>8, <1>9, <1>10, <1>11 DEF FileInv

(* The frame is a copy of the segment in a buffer of its own. *)
LEMMA GenFrameInv == ASSUME FileInv, GenFrame PROVE FileInv'
<1> DEFINE payload == Contents(Source)
           n == Len(payload) + HeaderSize
<1>1. Owned(heap, rbuf, frame, other, buffers) /\ Places /\ FileTypeOK
  BY DEF FileInv
<1>2. pc = "gen" /\ UNCHANGED <<compress, eof, fin, data, marker, sent, other>>
  BY DEF GenFrame
<1>3. frame = 0 /\ Owned(heap, rbuf, 0, other, buffers)
  BY <1>1, <1>2 DEF Places
<1>4. CASE Return(heap, FALSE)
  <2>1. pc \in {"gen", "send"}
    BY <1>2
  <2>2. QED BY ONLY FileInv, <1>2, <1>3, <1>4, <2>1, ReturnErrorInv
<1>5. CASE /\ \E g \in Get(heap, n, Held) :
                frame' = g.buf /\ heap' = [g.heap EXCEPT !.mem[g.buf] = payload]
           /\ pc' = "send" /\ UNCHANGED <<rbuf, buffers, index, result>>
  <2>1. PICK g \in Get(heap, n, Held) : frame' = g.buf /\ heap' = [g.heap EXCEPT !.mem[g.buf] = payload]
    BY <1>5
  <2>2. /\ Source \in Buf /\ Source \in {rbuf} \cup Range(buffers)
        /\ compress => Source = buffers[1] /\ 1 \in 1..Len(buffers)
        /\ ~compress => Source = rbuf
    <3>1. CASE compress
      <4>1. Len(buffers) \in {1, 2, 3} /\ buffers \in Seq(Buf)
        BY <1>1, <1>2, <3>1, Zenon DEF Places, Owned
      <4>2. 1 \in 1..Len(buffers)
        BY ONLY <4>1
      <4>3. Source = buffers[1]
        BY <3>1 DEF Source
      <4>4. QED BY <3>1, <4>1, <4>2, <4>3, RangeOf
    <3>2. CASE ~compress
      BY <1>1, <1>2, <3>2 DEF Places, Owned, Source
    <3>3. QED BY <3>1, <3>2
  <2>3. payload \in Seq(Int) /\ n \in Nat
    <3>1. payload \in Seq(Int)
      BY <1>1, <2>2 DEF Owned, Heaps, Contents
    <3>2. QED BY <3>1, FileAssumption
  <2> HIDE DEF payload, n
  <2>4. Taken(heap, rbuf, frame, other, buffers, n, g)
    <3>1. Held = {rbuf, frame, other.buf} \cup Range(buffers)
      BY DEF Held
    <3>2. QED BY ONLY <1>1, <2>1, <2>3, <3>1, GetOwned
  <2>5. /\ g.buf \in Buf \ {rbuf} /\ g.buf # 0 /\ g.buf \notin Range(buffers)
        /\ SameElsewhere(heap, g.heap, g.buf)
        /\ Owned(g.heap, rbuf, g.buf, other, buffers)
    BY <1>3, <2>4, Zenon DEF Taken
  <2>6. /\ Owned(heap', rbuf, g.buf, other, buffers) /\ heap'.mem[g.buf] = payload
        /\ SameElsewhere(g.heap, heap', g.buf)
    <3> DEFINE k == g.heap
               b == g.buf
               h2 == heap'
    <3>1. h2 = [k EXCEPT !.mem[b] = payload] /\ b \in Buf /\ Owned(k, rbuf, b, other, buffers)
      BY <2>1, <2>5
    <3> HIDE DEF k, b, h2
    <3>2. Filled(k, rbuf, b, other, buffers, b, payload, h2)
      BY ONLY <2>3, <3>1, FillOwned
    <3>3. QED BY <3>2, Zenon DEF Filled, k, b, h2
  <2>7. \A c \in Buf \ {g.buf} : heap'.mem[c] = heap.mem[c]
    BY <2>5, <2>6 DEF SameElsewhere
  <2>8. /\ heap'.mem[Source] = heap.mem[Source]
        /\ \A i \in 1..Len(buffers) : heap'.mem[buffers[i]] = heap.mem[buffers[i]]
    <3>1. Source \in Buf \ {g.buf}
      BY <2>2, <2>5
    <3>2. buffers \in Seq(Buf) /\ \A i \in 1..Len(buffers) : buffers[i] \in Buf \ {g.buf}
      BY <1>1, <2>5, RangeOf DEF Owned
    <3>3. QED BY <2>7, <3>1, <3>2
  <2>9. Owned(heap, rbuf, frame, other, buffers)'
    BY <1>2, <1>5, <2>1, <2>6
  <2>10. FileTypeOK'
    BY <1>1, <1>2, <1>5 DEF FileTypeOK, Locations
  <2>11. Places'
    BY <1>1, <1>2, <1>5, <2>1, <2>5 DEF Places
  <2>12. OneMessage' /\ Past' /\ SentBefore(Len(sent) + 1)' = SentBefore(Len(sent) + 1)
    BY <1>1, <1>2, <1>5, NothingSent DEF FileTypeOK
  <2>13. PICK a \in 0..data : Progress(a)
    BY DEF FileInv
  <2>14. Progress(a)'
    <3>1. SentBefore(Len(sent) + 1)' = 1..a /\ (result' = "ok" => a = data')
      BY <1>2, <1>5, <2>12, <2>13 DEF Progress
    <3>2. Source' = Source /\ compress' = compress /\ pc' = "send" /\ fin' = fin
          /\ buffers' = buffers /\ data' = data /\ marker' = marker /\ rbuf' = rbuf
      BY <1>2, <1>5 DEF Source
    <3>3. heap'.mem[frame'] = heap'.mem[Source']
      BY <2>1, <2>6, <2>8, <3>2 DEF payload, Contents
    <3>4. ~compress => heap'.mem[rbuf] = Run(data, a, data)
      BY <1>2, <2>2, <2>8, <2>13 DEF Progress
    <3>5. compress => IF fin THEN heap'.mem[buffers[1]] = Run(data, a, data)
                      ELSE /\ Segments(heap', buffers, data, a, data + marker)
                           /\ a + Len(heap'.mem[buffers[1]]) + 4 <= data + marker
      <4>1. Segments(heap, buffers, data, a, data + marker) => Segments(heap', buffers, data, a, data + marker)
        BY <2>8, SegmentsSame
      <4>2. QED BY <1>2, <2>2, <2>8, <2>13, <4>1 DEF Progress
    <3>6. QED BY <3>1, <3>2, <3>3, <3>4, <3>5, Zenon DEF Progress
  <2>15. QED BY <2>9, <2>10, <2>11, <2>12, <2>13, <2>14, <1>2 DEF FileInv
<1>6. QED BY <1>4, <1>5, Zenon DEF GenFrame

LEMMA RangeOfBytes ==
    ASSUME NEW a \in Nat, NEW x \in Nat, a <= x
    PROVE  Range(Bytes(a + 1, x)) = (a + 1)..x /\ Len(Bytes(a + 1, x)) = x - a
<1> DEFINE s == Bytes(a + 1, x)
<1>1. s = [i \in 1..(x - a) |-> a + i]
  <2>1. x - (a + 1) + 1 = x - a /\ \A i \in 1..(x - a) : a + 1 + i - 1 = a + i
    OBVIOUS
  <2>2. QED BY <2>1 DEF Bytes
<1>2. Len(s) = x - a
  BY <1>1
<1>3. DOMAIN s = 1..(x - a) /\ \A i \in 1..(x - a) : s[i] = a + i
  BY <1>1
<1> HIDE DEF s
<1>4. \A y \in Range(s) : y \in (a + 1)..x
  BY <1>3 DEF Range
<1>5. \A y \in (a + 1)..x : y \in Range(s)
  <2> SUFFICES ASSUME NEW y \in (a + 1)..x PROVE y \in Range(s)
    OBVIOUS
  <2>1. y - a \in 1..(x - a) /\ a + (y - a) = y
    OBVIOUS
  <2>2. QED BY <1>3, <2>1 DEF Range
<1>6. QED BY <1>2, <1>4, <1>5 DEF s

(* What a frame adds to what was sent. *)
LEMMA SentGrows ==
    ASSUME sent \in Seq(Frames), NEW f, sent' = Append(sent, f),
           NEW a \in Nat, NEW x \in Nat, a <= x,
           SentBefore(Len(sent) + 1) = 1..a, f.payload = Bytes(a + 1, x)
    PROVE  /\ \A i \in 1..(Len(sent) + 1) : SentBefore(i)' = SentBefore(i)
           /\ SentBefore(Len(sent) + 1)' = 1..x
<1> DEFINE L == Len(sent)
<1>1. /\ L \in Nat /\ Len(sent') = L + 1 /\ sent'[L + 1] = f
      /\ \A j \in 1..L : sent'[j] = sent[j]
  OBVIOUS
<1> HIDE DEF L
<1>2. ASSUME NEW i \in 1..(L + 1) PROVE SentBefore(i)' = SentBefore(i)
  <2>1. \A j \in 1..(i - 1) : sent'[j] = sent[j]
    BY <1>1
  <2>2. QED BY <2>1, Zenon DEF SentBefore
<1>3. SentBefore(Len(sent) + 1)' = 1..x
  <2>1. Len(sent') + 1 - 1 = L + 1 /\ L + 1 - 1 = L /\ \A j : j \in 1..(L + 1) <=> j \in 1..L \/ j = L + 1
    BY <1>1
  <2>2. \A y : y \in SentBefore(Len(sent) + 1)' <=> \E j \in 1..(L + 1) : y \in Range(sent'[j].payload)
    <3>1. \A y : y \in SentBefore(Len(sent) + 1)' <=>
                \E j \in 1..(Len(sent') + 1 - 1) : y \in Range(sent'[j].payload)
      BY DEF SentBefore
    <3>2. QED BY <2>1, <3>1, Zenon
  <2>3. \A y : y \in SentBefore(L + 1) <=> \E j \in 1..L : y \in Range(sent[j].payload)
    <3>1. \A i, y : y \in SentBefore(i) <=> \E j \in 1..(i - 1) : y \in Range(sent[j].payload)
      BY DEF SentBefore
    <3> DEFINE m == L + 1
    <3>2. m - 1 = L
      BY <1>1
    <3> HIDE DEF m
    <3>3. \A y : y \in SentBefore(m) <=> \E j \in 1..L : y \in Range(sent[j].payload)
      BY <3>1, <3>2
    <3>4. QED BY <3>3 DEF m
  <2>4. SentBefore(Len(sent) + 1)' = SentBefore(L + 1) \cup Range(f.payload)
    <3>1. \A y : (\E j \in 1..(L + 1) : y \in Range(sent'[j].payload)) <=>
                (\E j \in 1..L : y \in Range(sent[j].payload)) \/ y \in Range(f.payload)
      BY <1>1, <2>1, Zenon
    <3>2. QED BY <2>2, <2>3, <3>1, Zenon
  <2>5. Range(f.payload) = (a + 1)..x
    BY RangeOfBytes
  <2>6. (1..a) \cup ((a + 1)..x) = 1..x
    OBVIOUS
  <2>7. SentBefore(L + 1) = 1..a
    BY DEF L
  <2>8. QED BY <2>4, <2>5, <2>6, <2>7
<1>4. QED BY <1>2, <1>3 DEF L

(* What the frame holds: the data from a to x; and if it is not the last   *)
(* one then the other segments hold the rest.                              *)
Due(a, x) ==
    /\ x \in a..data
    /\ heap.mem[Source] = Run(data, a, x)
    /\ fin \/ ~compress => x = data
    /\ compress /\ ~fin => Segments(heap, Tail(buffers), data, x, data + marker)

(* The frame to be sent holds what comes next in the file. *)
LEMMA FrameDue ==
    ASSUME FileInv, pc = "send", NEW a \in 0..data, Progress(a)
    PROVE  \E x \in a..data : Due(a, x)
<1>1. Owned(heap, rbuf, frame, other, buffers) /\ Places /\ FileTypeOK
  BY DEF FileInv
<1>2. data \in Nat /\ a \in Nat /\ marker \in 0..4
  BY <1>1 DEF FileTypeOK
<1>3. CASE ~compress
  <2>1. Source = rbuf /\ heap.mem[rbuf] = Run(data, a, data)
    BY <1>3 DEF Progress, Source
  <2>2. QED BY <1>2, <1>3, <2>1 DEF Due
<1>4. CASE compress /\ fin
  <2>1. Source = buffers[1] /\ heap.mem[buffers[1]] = Run(data, a, data)
    BY <1>4 DEF Progress, Source
  <2>2. QED BY <1>2, <1>4, <2>1 DEF Due
<1>5. CASE compress /\ ~fin
  <2> DEFINE x == a + Len(heap.mem[buffers[1]])
             t == data + marker
             bs == buffers
             h == heap
  <2>1. /\ Source = buffers[1] /\ Segments(h, bs, data, a, t) /\ x + 4 <= t
    BY <1>5 DEF Progress, Source
  <2>2. t \in Nat /\ a <= t /\ t <= data + 4
    BY <1>2
  <2>3. bs \in Seq(Buf) /\ Len(bs) > 0
    <3>1. Len(buffers) \in {2, 3} /\ buffers \in Seq(Buf)
      BY <1>1, <1>5, Zenon DEF Places, Owned
    <3>2. QED BY ONLY <3>1
  <2>4. x \in a..t /\ h.mem[bs[1]] = Run(data, a, x) /\ Segments(h, Tail(bs), data, x, t)
    <3> HIDE DEF bs, h, t
    <3>1. LET y == a + Len(h.mem[bs[1]])
          IN  y \in a..t /\ h.mem[bs[1]] = Run(data, a, y) /\ Segments(h, Tail(bs), data, y, t)
      BY ONLY <1>2, <2>1, <2>2, <2>3, SegmentsTail
    <3>2. QED BY <3>1, Zenon DEF bs, h
  <2>5. x \in a..data
    BY <1>2, <2>1, <2>4
  <2> HIDE DEF x
  <2>6. QED BY <1>5, <2>1, <2>4, <2>5 DEF Due
<1>6. QED BY <1>3, <1>4, <1>5

(* A frame was written: the stream goes on behind it. *)
LEMMA FrameSentInv ==
    ASSUME FileInv, pc = "send", Return(Put(heap, frame), TRUE), sent' = Append(sent, FrameOf(index)),
           UNCHANGED <<compress, eof, fin, data, marker, other>>
    PROVE  FileInv'
<1> DEFINE f == FrameOf(index)
           L == Len(sent)
           h == Put(heap, frame)
<1>1. Owned(heap, rbuf, frame, other, buffers) /\ Places /\ FileTypeOK /\ OneMessage /\ Past
  BY DEF FileInv
<1>2. /\ data \in Nat /\ marker \in 0..4 /\ sent \in Seq(Frames) /\ L \in Nat
      /\ result = "none" /\ index = L /\ frame # 0 /\ compress \in BOOLEAN /\ fin \in BOOLEAN
  BY <1>1 DEF Places, FileTypeOK
<1>3. /\ frame' = 0 /\ index' = index + 1
      /\ pc' = IF fin THEN "done" ELSE IF compress THEN "flate" ELSE "read"
      /\ result' = IF fin THEN "ok" ELSE result
      /\ buffers' = IF compress THEN Tail(buffers) ELSE buffers
      /\ ~fin => rbuf' = rbuf /\ heap' = IF compress THEN Put(h, buffers[1]) ELSE h
  BY Zenon DEF Return
<1>4. compress => /\ Len(buffers) \in {1, 2, 3} /\ Len(buffers) > 0
                  /\ ~fin => Len(buffers) \in {2, 3}
  <2>1. compress => Len(buffers) \in {1, 2, 3} /\ (~fin => Len(buffers) \in {2, 3})
    BY <1>1, Zenon DEF Places
  <2>2. QED BY <2>1, OneTwoThree, Zenon
<1>5. Owned(h, rbuf, 0, other, buffers)
  BY ONLY <1>1, <1>2, PutOwned
<1>6. Owned(heap', rbuf', 0, other, buffers')
  <2> HIDE DEF h
  <2>1. Return(h, TRUE)
    BY DEF h
  <2>2. QED BY ONLY <1>4, <1>5, <2>1, ReturnOwned
<1>7. PICK a \in 0..data : Progress(a)
  BY DEF FileInv
<1>8. PICK x \in a..data : Due(a, x)
  BY <1>7, FrameDue
<1>9. /\ a \in Nat /\ x \in Nat /\ a <= x /\ x <= data /\ x \in 0..data
      /\ heap.mem[Source] = Run(data, a, x)
      /\ fin \/ ~compress => x = data
      /\ compress /\ ~fin => Segments(heap, Tail(buffers), data, x, data + marker)
  BY <1>2, <1>8 DEF Due
<1>10. /\ f.payload = Bytes(a + 1, x) /\ f.fin = fin
       /\ f.opcode = (IF L + 1 = 1 THEN "data" ELSE "continuation")
       /\ f.rsv1 = (compress /\ L + 1 = 1)
       /\ f \in Frames
  <2>1. heap.mem[frame] = Run(data, a, x)
    BY <1>7, <1>9 DEF Progress
  <2>2. Run(data, a, x) = Bytes(a + 1, x) /\ Run(data, a, x) \in Seq(Int)
    <3>1. x <= data + 4
      BY <1>2, <1>9
    <3>2. QED BY <1>2, <1>9, <3>1, RunIs, RunOfData
  <2>3. /\ f.payload = heap.mem[frame] /\ f.fin = fin
        /\ f.opcode = IF index > 0 THEN "continuation" ELSE "data"
        /\ f.rsv1 = (compress /\ index = 0)
        /\ f = [opcode |-> f.opcode, rsv1 |-> f.rsv1, fin |-> f.fin, payload |-> f.payload]
    BY DEF FrameOf, Contents
  <2> HIDE DEF f
  <2>4. (index > 0 <=> L + 1 # 1) /\ (index = 0 <=> L + 1 = 1)
    BY <1>2
  <2>5. f.opcode \in {"data", "continuation"} /\ f.rsv1 \in BOOLEAN /\ f.fin \in BOOLEAN /\ f.payload \in Seq(Int)
    BY <1>2, <2>1, <2>2, <2>3
  <2>6. f \in Frames
    BY <2>3, <2>5, Zenon DEF Frames
  <2>7. QED BY <2>1, <2>2, <2>3, <2>4, <2>6
<1> HIDE DEF f, h
<1>11. /\ sent' \in Seq(Frames) /\ Len(sent') = L + 1 /\ sent'[L + 1] = f
       /\ \A i \in 1..L : sent'[i] = sent[i]
  <2>1. sent' = Append(sent, f)
    BY DEF f
  <2>2. QED BY <1>2, <1>10, <2>1
<1>12. /\ \A i \in 1..(L + 1) : SentBefore(i)' = SentBefore(i)
       /\ SentBefore(Len(sent) + 1)' = 1..x
       /\ SentBefore(L + 1) = 1..a
  <2>1. sent' = Append(sent, f) /\ SentBefore(Len(sent) + 1) = 1..a
    BY <1>7 DEF f, Progress
  <2>2. QED BY <1>2, <1>9, <1>10, <2>1, SentGrows
<1>13. Owned(heap, rbuf, frame, other, buffers)'
  BY <1>3, <1>6
<1>14. FileTypeOK'
  BY <1>1, <1>2, <1>3, <1>11 DEF FileTypeOK, Locations
<1>15. Places'
  <2>1. compress => /\ ~fin => Len(buffers') <= 2
    <3> SUFFICES ASSUME compress, ~fin PROVE Len(buffers') <= 2
      OBVIOUS
    <3>1. buffers' = Tail(buffers)
      BY <1>3
    <3>2. Len(buffers) \in {2, 3} /\ buffers \in Seq(Buf) /\ Len(buffers) > 0
      BY <1>1, <1>4, Zenon DEF Owned
    <3>3. Len(Tail(buffers)) = Len(buffers) - 1
      BY ONLY <3>2
    <3>4. Len(buffers) - 1 <= 2
      BY <3>2, OneTwoThree, Zenon
    <3>5. QED BY <3>1, <3>3, <3>4
  <2>2. CASE fin
    BY <1>1, <1>2, <1>3, <2>2 DEF Places
  <2>3. CASE ~fin /\ compress
    BY <1>1, <1>2, <1>3, <1>11, <2>1, <2>3 DEF Places
  <2>4. CASE ~fin /\ ~compress
    BY <1>1, <1>2, <1>3, <1>11, <2>4 DEF Places
  <2>5. QED BY <2>2, <2>3, <2>4
<1>16. OneMessage'
  <2>1. \A i \in 1..L : /\ sent'[i] = sent[i] /\ ~sent[i].fin
                        /\ sent[i].opcode = (IF i = 1 THEN "data" ELSE "continuation")
                        /\ sent[i].rsv1 = (compress /\ i = 1)
    BY <1>1, <1>2, <1>11 DEF OneMessage
  <2>2. ASSUME NEW i \in 1..Len(sent')
        PROVE  /\ sent'[i].opcode = (IF i = 1 THEN "data" ELSE "continuation")
               /\ sent'[i].rsv1 = (compress' /\ i = 1)
               /\ sent'[i].fin => i = Len(sent') /\ result' = "ok"
    <3>1. CASE i = L + 1
      BY <1>3, <1>10, <1>11, <3>1
    <3>2. CASE i # L + 1
      <4>1. i \in 1..L
        BY <1>2, <1>11, <3>2
      <4>2. QED BY <2>1, <4>1
    <3>3. QED BY <3>1, <3>2
  <2>3. result' = "ok" => sent' # <<>> /\ Last(sent').fin
    BY <1>2, <1>3, <1>10, <1>11 DEF Last
  <2>4. QED BY <2>2, <2>3 DEF OneMessage
<1>17. Past'
  <2> SUFFICES ASSUME NEW i \in 1..Len(sent')
               PROVE  \E from \in 0..data' :
                        /\ SentBefore(i)' = 1..from
                        /\ sent'[i].payload = Bytes(from + 1, from + Len(sent'[i].payload))
    BY DEF Past
  <2>1. CASE i = L + 1
    <3>1. a + Len(Bytes(a + 1, x)) = x
      BY <1>9, RangeOfBytes
    <3>2. SentBefore(i)' = 1..a /\ i \in 1..(L + 1)
      BY <1>2, <1>12, <2>1
    <3>3. sent'[i].payload = Bytes(a + 1, x)
      BY <1>10, <1>11, <2>1
    <3>4. QED BY <3>1, <3>2, <3>3
  <2>2. CASE i # L + 1
    <3>1. i \in 1..L /\ i \in 1..(L + 1)
      BY <1>2, <1>11, <2>2
    <3>2. SentBefore(i)' = SentBefore(i) /\ sent'[i] = sent[i]
      BY <1>11, <1>12, <3>1
    <3>3. QED BY <1>1, <3>1, <3>2 DEF Past
  <2>3. QED BY <2>1, <2>2
<1>18. Progress(x)' /\ x \in 0..data'
  <2>1. SentBefore(Len(sent) + 1)' = 1..x
    BY <1>12
  <2>2. CASE fin
    BY <1>3, <1>9, <2>1, <2>2 DEF Progress
  <2>3. CASE ~fin /\ ~compress
    BY <1>2, <1>3, <1>9, <2>1, <2>3 DEF Progress
  <2>4. CASE ~fin /\ compress
    <3> DEFINE bs == Tail(buffers)
               b == buffers[1]
    <3>1. \A i \in 1..Len(bs) : bs[i] \in Buf \ {frame, b}
      <4>1. /\ buffers \in Seq(Buf) /\ Len(buffers) > 0 /\ frame \in Buf
            /\ \A i \in 1..Len(buffers) : buffers[i] # frame
            /\ \A i, j \in 1..Len(buffers) : i # j => buffers[i] # buffers[j]
        BY <1>1, <1>2, <1>4, <2>4 DEF Owned, Private
      <4>2. Len(bs) = Len(buffers) - 1 /\ \A i \in 1..Len(bs) : bs[i] = buffers[i + 1]
        BY <4>1
      <4> HIDE DEF bs
      <4>3. \A i \in 1..Len(bs) : i + 1 \in 1..Len(buffers) /\ 1 \in 1..Len(buffers) /\ i + 1 # 1
        BY <4>1, <4>2
      <4>4. QED BY <4>1, <4>2, <4>3
    <3>2. \A c \in Buf \ {frame, b} : heap'.mem[c] = heap.mem[c]
      <4>1. heap \in Heaps /\ frame \in Buf /\ h \in Heaps /\ b \in Buf
        <5>1. heap \in Heaps /\ frame \in Buf /\ h \in Heaps /\ buffers \in Seq(Buf)
          BY <1>1, <1>2, <1>5 DEF Owned
        <5>2. QED BY <1>4, <2>4, <5>1
      <4> HIDE DEF b
      <4>2. \A c \in Buf \ {frame} : h.mem[c] = heap.mem[c]
        BY ONLY <4>1, PutSpec DEF h
      <4>3. \A c \in Buf \ {b} : Put(h, b).mem[c] = h.mem[c]
        BY ONLY <4>1, PutSpec
      <4>4. heap' = Put(h, b)
        BY <1>3, <2>4 DEF b
      <4>5. QED BY <4>2, <4>3, <4>4
    <3> HIDE DEF b, bs
    <3>3. \A i \in 1..Len(bs) : heap'.mem[bs[i]] = heap.mem[bs[i]]
      BY <3>1, <3>2, Zenon
    <3>4. Segments(heap, bs, data, x, data + marker)
      BY <1>9, <2>4 DEF bs
    <3>5. Segments(heap', bs, data, x, data + marker)
      BY <3>3, <3>4, SegmentsSame
    <3>6. buffers' = bs /\ pc' = "flate" /\ result' # "ok"
      BY <1>2, <1>3, <2>4 DEF bs
    <3>7. Segments(heap', buffers', data', x, data' + marker')
      BY <3>5, <3>6
    <3>8. QED BY <2>1, <3>6, <3>7 DEF Progress
  <2>5. x \in 0..data'
    BY <1>9
  <2>6. QED BY <2>2, <2>3, <2>4, <2>5
<1>19. QED BY <1>13, <1>14, <1>15, <1>16, <1>17, <1>18 DEF FileInv

(* The three ways a write may end. *)
LEMMA SendFrameInv == ASSUME FileInv, SendFrame PROVE FileInv'
<1>1. pc = "send" /\ pc \in {"gen", "send"} /\ UNCHANGED <<compress, eof, fin, data, marker, other>>
  BY DEF SendFrame
<1>2. Owned(heap, rbuf, frame, other, buffers) /\ frame # 0
  BY <1>1 DEF FileInv, Places
<1>3. CASE Return(heap, FALSE) /\ UNCHANGED sent
  <2>1. Owned(heap, rbuf, 0, other, buffers)
    BY ONLY <1>2, PutOwned
  <2>2. QED BY <1>1, <1>3, <2>1, ReturnErrorInv
<1>4. CASE Return(Put(heap, frame), FALSE) /\ UNCHANGED sent
  <2>1. Owned(Put(heap, frame), rbuf, 0, other, buffers)
    BY ONLY <1>2, PutOwned
  <2>2. QED BY <1>1, <1>4, <2>1, ReturnErrorInv
<1>5. CASE Return(Put(heap, frame), TRUE) /\ sent' = Append(sent, FrameOf(index))
  BY <1>1, <1>5, FrameSentInv
<1>6. QED BY <1>3, <1>4, <1>5, Zenon DEF SendFrame

-----------------------------------------------------------------------------
(* Every step keeps the invariant. *)
LEMMA FileInvNext == ASSUME FileInv, [Next]_vars PROVE FileInv'
<1>1. CASE UNCHANGED vars
  <2>1. UNCHANGED <<heap, compress, pc, rbuf, buffers, index, frame, eof, fin, data, marker, sent, result, other>>
    BY <1>1 DEF vars
  <2>2. FileTypeOK /\ Owned(heap, rbuf, frame, other, buffers) /\ Places /\ OneMessage /\ Past
    BY DEF FileInv
  <2>3. FileTypeOK' /\ Owned(heap, rbuf, frame, other, buffers)'
    BY <2>1, <2>2 DEF FileTypeOK
  <2>4. Places'
    BY <2>1, <2>2 DEF Places
  <2>5. OneMessage' /\ Past' /\ SentBefore(Len(sent) + 1)' = SentBefore(Len(sent) + 1)
    BY <2>1, <2>2, NothingSent DEF FileTypeOK
  <2>6. PICK a \in 0..data : Progress(a)
    BY DEF FileInv
  <2>7. Progress(a)'
    BY <2>1, <2>5, <2>6 DEF Progress, Source
  <2>8. QED BY <2>1, <2>3, <2>4, <2>5, <2>6, <2>7 DEF FileInv
<1>2. CASE Next
  BY <1>2, StartInv, ReadChunkInv, ReadForFlateInv, ReadFailsInv, FlatePieceInv, FlateMarkerInv,
     FlateReturnsInv, FlushInv, GenFrameInv, SendFrameInv, OtherReadsInv, OtherClosesInv, Zenon DEF Next
<1>3. QED BY <1>1, <1>2

LEMMA FileInvariant == Spec => []FileInv
<1>1. FileInv /\ [Next]_vars => FileInv'
  BY FileInvNext
<1>2. QED BY <1>1, FileInvInit, PTL DEF Spec

(* WriteFile sends the file: every frame carries on where the frames       *)
(* before it ended, with the bytes of the file or of its compressed form   *)
(* in order and none of the end marker's, and when doWriteFile returns nil *)
(* all of them were sent; for files, chunks and pieces of any size and     *)
(* whatever the other connection does with the pool meanwhile.             *)
THEOREM FileIntactTheorem == Spec => []FileIntact
<1>1. FileInv => FileIntact
  <2> SUFFICES ASSUME FileInv PROVE FileIntact
    OBVIOUS
  <2>1. PICK a \in 0..data : Progress(a)
    BY DEF FileInv
  <2>2. data \in Nat /\ Past /\ SentBefore(Len(sent) + 1) = 1..a /\ (result = "ok" => a = data)
    BY <2>1 DEF FileInv, FileTypeOK, Progress
  <2>3. 1..a \subseteq 1..data
    BY <2>2
  <2>4. QED BY <2>2, <2>3 DEF FileIntact, Past
<1>2. QED BY <1>1, FileInvariant, PTL

(* The frames that doWriteFile's callback generates are one message: one   *)
(* data frame, then continuations, RSV1 on the first only, FIN on the last *)
(* only, which is there when it returns nil.                               *)
THEOREM OneMessageTheorem == Spec => []OneMessage
<1>1. FileInv => OneMessage
  BY DEF FileInv
<1>2. QED BY <1>1, FileInvariant, PTL

(* binaryPool, splitReader, flateWriter, the callback and the reader of    *)
(* another connection never share a buffer: every path of doWriteFile, the *)
(* failing ones included, puts back what it took at most once.             *)
THEOREM ExclusiveTheorem == Spec => []Exclusive
<1>1. FileInv => Exclusive
  <2> SUFFICES ASSUME FileInv PROVE Exclusive
    OBVIOUS
  <2> DEFINE outer == {rbuf, frame, other.buf}
             held == <<rbuf, frame, other.buf>> \o buffers
  <2>1. /\ buffers \in Seq(Buf) /\ Private(heap, outer, buffers)
        /\ rbuf \in Buf \cup {0} /\ frame \in Buf \cup {0} /\ other.buf \in Buf \cup {0}
        /\ rbuf # 0 => rbuf # frame /\ rbuf # other.buf
        /\ frame # 0 => frame # other.buf
    BY DEF FileInv, Owned
  <2>2. \A b \in Buf : heap.idle[b] <= 1 /\ (heap.idle[b] = 1 => b \notin Held)
    BY <2>1, Zenon DEF Private, Held
  <2>3. /\ DOMAIN held = 1..(3 + Len(buffers))
        /\ held[1] = rbuf /\ held[2] = frame /\ held[3] = other.buf
        /\ \A i \in 1..(3 + Len(buffers)) : i > 3 => held[i] = buffers[i - 3] /\ i - 3 \in 1..Len(buffers)
    BY <2>1
  <2> HIDE DEF held
  <2>4. ASSUME NEW i \in DOMAIN held, NEW j \in DOMAIN held, i < j, held[i] # 0 PROVE held[i] # held[j]
    <3>1. i \in 1..(3 + Len(buffers)) /\ j \in 1..(3 + Len(buffers)) /\ Len(buffers) \in Nat
      BY <2>1, <2>3
    <3>2. CASE j <= 3
      BY <2>1, <2>3, <2>4, <3>1, <3>2
    <3>3. CASE i <= 3 /\ j > 3
      <4>1. held[i] \in outer
        BY <2>3, <3>1, <3>3
      <4>2. held[j] = buffers[j - 3] /\ j - 3 \in 1..Len(buffers)
        BY <2>3, <3>1, <3>3
      <4>3. QED BY <2>1, <4>1, <4>2 DEF Private
    <3>4. CASE i > 3
      <4>1. /\ held[i] = buffers[i - 3] /\ i - 3 \in 1..Len(buffers)
            /\ held[j] = buffers[j - 3] /\ j - 3 \in 1..Len(buffers)
            /\ i - 3 # j - 3
        BY <2>3, <2>4, <3>1, <3>4
      <4>2. QED BY <2>1, <4>1 DEF Private
    <3>5. QED BY <3>1, <3>2, <3>3, <3>4
  <2>5. ASSUME NEW i \in DOMAIN held, NEW j \in DOMAIN held, i # j, held[i] # 0 PROVE held[i] # held[j]
    <3>1. i < j \/ j < i
      BY <2>1, <2>3, <2>5
    <3>2. CASE i < j
      BY <2>4, <2>5, <3>2
    <3>3. CASE j < i
      BY <2>4, <2>5, <3>3
    <3>4. QED BY <3>1, <3>2, <3>3
  <2>6. QED BY <2>2, <2>5, Zenon DEF Exclusive, held
<1>2. QED BY <1>1, FileInvariant, PTL

(* binaryPool.Get hands out at least the bytes that readMessage asked for, *)
(* whatever writers have put back, so that it can slice the buffer.        *)
THEOREM RoomToReadTheorem == Spec => []RoomToRead
<1>1. FileInv => RoomToRead
  BY Zenon DEF FileInv, Owned, RoomToRead
<1>2. QED BY <1>1, FileInvariant, PTL

(* flateWriter keeps at most two segments once Write or the callback has   *)
(* returned: memory does not grow with the file.                           *)
THEOREM TwoSegmentsTheorem == Spec => []TwoSegments
<1>1. FileInv => TwoSegments
  BY DEF FileInv, FileTypeOK, Places, TwoSegments
<1>2. QED BY <1>1, FileInvariant, PTL

-----------------------------------------------------------------------------
(* The inductive invariant of Broadcaster. *)
CallLocations == {"new", "generated", "added", "queued", "writing", "written", "free", "done"}

BroadcastTypes ==
    /\ enabled \in [Sockets -> BOOLEAN]
    /\ msgs \in [BOOLEAN -> {"none", "made", "error"}]
    /\ puts \in [BOOLEAN -> Nat]
    /\ state \in Int
    /\ callPc \in [Sockets -> CallLocations]
    /\ closePc \in {"open", "free", "closed"}

(* The jobs that state counts: those past AddState and not past Release. *)
InState == {"added", "queued", "writing", "written"}
Counted == {s \in Sockets : callPc[s] \in InState}
StateExact == state = (IF closePc = "open" THEN MaxInt32 ELSE 0) + Cardinality(Counted)

(* No call of Broadcast is under way once Close is called. *)
CallsOver == closePc # "open" => \A s \in Sockets : callPc[s] \notin {"generated", "added"}

(* Whoever gets past once.Do has a frame. *)
HasFrame ==
    \A s \in Sockets :
        callPc[s] \in {"generated", "added", "queued", "writing", "written"} => msgs[enabled[s]] = "made"

(* Close was called and no job is counted: from now on state does not      *)
(* change.                                                                 *)
Settled == closePc # "open" /\ Counted = {}

Untouched == \A i \in BOOLEAN : puts[i] = 0
NoJobFrees == \A s \in Sockets : callPc[s] # "free"

(* Who frees does so after all is settled, alone and for the first time. *)
Freeing ==
    /\ \A s \in Sockets : callPc[s] = "free" => closePc = "closed" /\ Settled /\ Untouched
    /\ \A s, t \in Sockets : callPc[s] = "free" /\ callPc[t] = "free" => s = t
    /\ closePc = "free" => Settled /\ Untouched /\ NoJobFrees
    /\ \A i \in BOOLEAN : puts[i] # 0 => puts[i] = 1 /\ closePc = "closed" /\ Settled /\ NoJobFrees

BInv == BroadcastTypes /\ StateExact /\ CallsOver /\ HasFrame /\ Freeing

-----------------------------------------------------------------------------

LEMMA CountedFinite == IsFiniteSet(Counted) /\ Cardinality(Counted) \in Nat
<1>1. Counted \subseteq Sockets
  BY DEF Counted
<1> QED BY <1>1, BroadcasterAssumption, FS_Subset, FS_CardinalityType

LEMMA BInvInit == BroadcastInit => BInv
<1> SUFFICES ASSUME BroadcastInit PROVE BInv
  OBVIOUS
<1>1. BroadcastTypes
  BY BroadcasterAssumption DEF BroadcastInit, BroadcastTypes, CallLocations
<1>2. Counted = {}
  BY DEF BroadcastInit, Counted, InState
<1>3. StateExact
  BY <1>2, FS_EmptySet, BroadcasterAssumption DEF StateExact, BroadcastInit
<1>4. CallsOver /\ HasFrame /\ Freeing
  BY DEF BroadcastInit, CallsOver, HasFrame, Freeing
<1> QED BY <1>1, <1>3, <1>4 DEF BInv

(* A step of a job that changes neither the counted jobs nor state. *)
LEMMA JobMoves ==
    ASSUME BInv, NEW s \in Sockets, NEW l \in CallLocations, callPc' = [callPc EXCEPT ![s] = l],
           UNCHANGED <<enabled, puts, state, closePc>>,
           msgs' \in [BOOLEAN -> {"none", "made", "error"}],
           \A i \in BOOLEAN : msgs[i] = "made" => msgs'[i] = "made",
           callPc[s] # "free", l # "free",
           callPc[s] \in InState <=> l \in InState,
           l \in {"generated", "added"} => closePc = "open" \/ callPc[s] \in {"generated", "added"},
           l \in {"generated", "added", "queued", "writing", "written"} => msgs'[enabled[s]] = "made"
    PROVE  BInv'
<1>1. Counted' = Counted
  BY DEF Counted, BInv, BroadcastTypes
<1>2. BroadcastTypes' /\ StateExact'
  BY <1>1 DEF BInv, BroadcastTypes, StateExact
<1>3. CallsOver' /\ HasFrame'
  BY DEF BInv, BroadcastTypes, CallsOver, HasFrame
<1>4. Settled' = Settled /\ Untouched' = Untouched /\ (NoJobFrees => NoJobFrees')
  BY <1>1 DEF Settled, Untouched, NoJobFrees, BInv, BroadcastTypes
<1>5. Freeing'
  BY <1>4 DEF BInv, BroadcastTypes, Freeing
<1> QED BY <1>2, <1>3, <1>5 DEF BInv

LEMMA AddStateInv ==
    ASSUME BInv, NEW s \in Sockets, AddState(s)
    PROVE  BInv'
<1> USE DEF BInv, BroadcastTypes
<1>1. Counted' = Counted \cup {s} /\ s \notin Counted
  BY DEF AddState, Goto, Counted, InState
<1>2. Cardinality(Counted') = Cardinality(Counted) + 1
  BY <1>1, CountedFinite, FS_AddElement
<1>3. BroadcastTypes' /\ closePc = "open"
  BY DEF AddState, Goto, CallLocations, CallsOver
<1>4. StateExact'
  BY <1>2, <1>3, CountedFinite, BroadcasterAssumption DEF AddState, StateExact
<1>5. CallsOver' /\ HasFrame'
  BY <1>3 DEF AddState, Goto, CallsOver, HasFrame
<1>6. Freeing'
  <2>1. Untouched /\ NoJobFrees
    BY <1>3 DEF Freeing, Untouched, NoJobFrees
  <2> QED BY <1>3, <2>1 DEF AddState, Goto, Freeing, Untouched, NoJobFrees
<1> QED BY <1>3, <1>4, <1>5, <1>6

LEMMA ReleaseInv ==
    ASSUME BInv, NEW s \in Sockets, Release(s)
    PROVE  BInv'
<1> USE DEF BInv, BroadcastTypes
<1>1. callPc' = [callPc EXCEPT ![s] = IF state' = 0 THEN "free" ELSE "done"] /\ callPc[s] = "written"
  BY DEF Release, Goto
<1>2. Counted' = Counted \ {s} /\ s \in Counted
  BY <1>1 DEF Counted, InState
<1>3. Cardinality(Counted') = Cardinality(Counted) - 1 /\ Cardinality(Counted') \in Nat
  BY <1>2, CountedFinite, FS_RemoveElement, FS_CardinalityType
<1>4. BroadcastTypes'
  BY <1>1 DEF Release, CallLocations
<1>5. StateExact'
  BY <1>3, CountedFinite, BroadcasterAssumption DEF Release, StateExact
<1>6. CallsOver' /\ HasFrame'
  BY <1>1 DEF Release, CallsOver, HasFrame
<1>7. ~Settled
  BY <1>2 DEF Settled
<1>8. Untouched /\ NoJobFrees /\ closePc # "free"
  BY <1>7 DEF Freeing, Untouched, NoJobFrees
<1>9. state' = 0 => closePc = "closed" /\ Counted' = {}
  <2>1. IsFiniteSet(Counted')
    BY <1>2, CountedFinite, FS_RemoveElement
  <2>2. state' = (IF closePc = "open" THEN MaxInt32 ELSE 0) + Cardinality(Counted')
    BY <1>5 DEF Release, StateExact
  <2>3. MaxInt32 \in Nat /\ MaxInt32 > 0
    BY BroadcasterAssumption
  <2> DEFINE n == Cardinality(Counted')
  <2>4. n \in Nat
    BY <1>3
  <2>5. CASE closePc = "open"
    <3>1. state' = MaxInt32 + n
      BY <2>2, <2>5
    <3> HIDE DEF n
    <3>2. state' # 0
      BY <2>3, <2>4, <3>1
    <3> QED BY <3>2
  <2>6. CASE closePc # "open"
    <3>1. state' = 0 + n
      BY <2>2, <2>6
    <3> HIDE DEF n
    <3>2. state' = n
      BY <2>4, <3>1
    <3>3. n = 0 => Counted' = {}
      BY <2>1, FS_EmptySet DEF n
    <3> QED BY <1>8, <2>6, <3>2, <3>3
  <2> QED BY <2>5, <2>6
<1>10. Freeing'
  BY <1>1, <1>8, <1>9 DEF Release, Freeing, Untouched, NoJobFrees, Settled
<1> QED BY <1>4, <1>5, <1>6, <1>10

(* doClose, by a job or by Close. *)
LEMMA FreedOnce ==
    ASSUME BInv, Untouched, puts' = Freed
    PROVE  puts' \in [BOOLEAN -> Nat] /\ \A i \in BOOLEAN : puts'[i] # 0 => puts'[i] = 1
  BY DEF Freed, Untouched, BInv, BroadcastTypes

LEMMA DoCloseInv ==
    ASSUME BInv, NEW s \in Sockets, DoClose(s)
    PROVE  BInv'
<1> USE DEF BInv, BroadcastTypes
<1>1. closePc = "closed" /\ Settled /\ Untouched
  BY DEF DoClose, Freeing
<1>2. puts' \in [BOOLEAN -> Nat] /\ \A i \in BOOLEAN : puts'[i] # 0 => puts'[i] = 1
  BY <1>1, FreedOnce DEF DoClose
<1>3. callPc' = [callPc EXCEPT ![s] = "done"] /\ callPc[s] = "free" /\ UNCHANGED <<enabled, msgs, state, closePc>>
  BY DEF DoClose, Goto
<1>4. Counted' = Counted /\ Settled'
  BY <1>1, <1>3 DEF Counted, Settled, InState
<1>5. BroadcastTypes' /\ StateExact' /\ CallsOver' /\ HasFrame'
  BY <1>2, <1>3, <1>4 DEF StateExact, CallsOver, HasFrame, CallLocations
<1>6. NoJobFrees'
  BY <1>3 DEF Freeing, NoJobFrees
<1>7. Freeing'
  BY <1>1, <1>2, <1>3, <1>4, <1>6 DEF Freeing, NoJobFrees
<1> QED BY <1>5, <1>7

LEMMA CloseInv ==
    ASSUME BInv, Close
    PROVE  BInv'
<1> USE DEF BInv, BroadcastTypes
<1>1. Counted' = Counted
  BY DEF Close, Counted
<1>2. Untouched /\ NoJobFrees
  BY DEF Close, Freeing, Untouched, NoJobFrees
<1>3. BroadcastTypes'
  BY BroadcasterAssumption DEF Close
<1>4. StateExact' /\ (state' = 0 <=> Cardinality(Counted) = 0)
  BY <1>1, CountedFinite, BroadcasterAssumption DEF Close, StateExact
<1>5. CallsOver' /\ HasFrame'
  BY DEF Close, CallsOver, HasFrame
<1>6. closePc' = "free" => Settled'
  BY <1>1, <1>4, CountedFinite, FS_EmptySet DEF Close, Settled
<1>7. Freeing'
  BY <1>2, <1>6 DEF Close, Freeing, Untouched, NoJobFrees
<1> QED BY <1>3, <1>4, <1>5, <1>7

LEMMA CloseFreesInv ==
    ASSUME BInv, CloseFrees
    PROVE  BInv'
<1> USE DEF BInv, BroadcastTypes
<1>1. Settled /\ Untouched /\ NoJobFrees
  BY DEF CloseFrees, Freeing
<1>2. puts' \in [BOOLEAN -> Nat] /\ \A i \in BOOLEAN : puts'[i] # 0 => puts'[i] = 1
  BY <1>1, FreedOnce DEF CloseFrees
<1>3. Counted' = Counted /\ Settled' /\ NoJobFrees' /\ closePc' = "closed"
  BY <1>1 DEF CloseFrees, Counted, Settled, NoJobFrees
<1>4. BroadcastTypes' /\ StateExact' /\ CallsOver' /\ HasFrame'
  BY <1>2, <1>3 DEF CloseFrees, StateExact, CallsOver, HasFrame
<1>5. Freeing'
  BY <1>2, <1>3 DEF Freeing, NoJobFrees
<1> QED BY <1>4, <1>5

LEMMA BInvNext == BInv /\ [BroadcastNext]_broadcastVars => BInv'
<1> SUFFICES ASSUME BInv, [BroadcastNext]_broadcastVars PROVE BInv'
  OBVIOUS
<1> USE DEF BInv, BroadcastTypes
<1>1. ASSUME NEW s \in Sockets, Generate(s)
      PROVE  BInv'
  <2> DEFINE i == enabled[s]
             l == IF msgs'[i] = "error" THEN "done" ELSE "generated"
  <2>1. /\ closePc = "open" /\ callPc[s] = "new"
        /\ callPc' = [callPc EXCEPT ![s] = l]
        /\ UNCHANGED <<enabled, puts, state, closePc>>
        /\ \/ msgs[i] = "none" /\ msgs' \in {[msgs EXCEPT ![i] = "made"], [msgs EXCEPT ![i] = "error"]}
           \/ msgs[i] # "none" /\ msgs' = msgs
    BY <1>1 DEF Generate, Goto
  <2>2. i \in BOOLEAN
    OBVIOUS
  <2>3. /\ msgs' \in [BOOLEAN -> {"none", "made", "error"}]
        /\ \A k \in BOOLEAN : msgs[k] = "made" => msgs'[k] = "made"
        /\ msgs'[i] \in {"made", "error"}
    <3> HIDE DEF i
    <3> QED BY <2>1, <2>2
  <2>4. l \in {"done", "generated"} /\ (l = "generated" => msgs'[i] = "made")
    BY <2>3
  <2> HIDE DEF l
  <2> QED BY <2>1, <2>3, <2>4, JobMoves DEF CallLocations, InState
<1>2. ASSUME NEW s \in Sockets, PushJob(s) \/ StartWrite(s) \/ EndWrite(s)
      PROVE  BInv'
  <2>1. PICK l \in {"queued", "writing", "written"} : callPc' = [callPc EXCEPT ![s] = l]
    BY <1>2 DEF PushJob, StartWrite, EndWrite, Goto
  <2>2. callPc[s] \in InState /\ UNCHANGED <<enabled, msgs, puts, state, closePc>>
    BY <1>2 DEF PushJob, StartWrite, EndWrite, InState
  <2>3. msgs[enabled[s]] = "made"
    BY <2>2 DEF HasFrame, InState
  <2> QED BY <2>1, <2>2, <2>3, JobMoves DEF CallLocations, InState
<1>3. CASE (\E s \in Sockets : SocketCloses(s)) \/ UNCHANGED broadcastVars
  <2>1. UNCHANGED <<enabled, msgs, puts, state, callPc, closePc>>
    BY <1>3 DEF SocketCloses, broadcastVars
  <2> QED BY <2>1 DEF StateExact, Counted, CallsOver, HasFrame, Freeing, Settled, Untouched, NoJobFrees
<1> QED BY <1>1, <1>2, <1>3, AddStateInv, ReleaseInv, DoCloseInv, CloseInv, CloseFreesInv
        DEF BroadcastNext, JobStep

LEMMA BroadcasterInvariant == BroadcastSpec => []BInv
<1> QED BY BInvInit, BInvNext, PTL DEF BroadcastSpec

(* No job reads a frame that is in binaryPool: doClose runs only when the  *)
(* jobs that state counts are done, however many sockets there are.        *)
THEOREM FrameAliveTheorem == BroadcastSpec => []FrameAlive
<1>1. BInv => FrameAlive
  <2> SUFFICES ASSUME BInv, NEW s \in Sockets, callPc[s] \in {"generated", "added", "queued", "writing"}
               PROVE  msgs[enabled[s]] = "made" /\ puts[enabled[s]] = 0
    BY DEF FrameAlive
  <2>1. msgs[enabled[s]] = "made" /\ enabled[s] \in BOOLEAN
    BY DEF BInv, HasFrame, BroadcastTypes
  <2>2. ~Settled \/ closePc = "open" \/ callPc[s] = "generated"
    BY DEF Settled, Counted, InState
  <2>3. puts[enabled[s]] = 0
    BY <2>1, <2>2 DEF BInv, Freeing, Settled, CallsOver
  <2> QED BY <2>1, <2>3
<1> QED BY <1>1, BroadcasterInvariant, PTL

(* The two decrements of state, by the jobs and by Close, let exactly one  *)
(* goroutine find zero: doClose is run once and puts each frame once.      *)
THEOREM OneFreesTheorem == BroadcastSpec => []OneFrees
<1>1. BInv => OneFrees
  BY DEF BInv, OneFrees, Freeing, BroadcastTypes, NoJobFrees
<1> QED BY <1>1, BroadcasterInvariant, PTL
=============================================================================
