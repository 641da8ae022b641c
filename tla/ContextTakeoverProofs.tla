----------------------- MODULE ContextTakeoverProofs -----------------------
(***************************************************************************)
(* Proofs about slideWindow.Write and ContextTakeover, for windows of any  *)
(* size, payloads of any length and any sequence of writes.                *)
(***************************************************************************)
EXTENDS ContextTakeover, TLAPS

-----------------------------------------------------------------------------
(***************************************************************************)
(* slideWindow.Write computes the tail of the stream.                      *)
(***************************************************************************)

(* A sequence is the function of its elements. *)
LEMMA SeqAsFunction ==
    ASSUME NEW S, NEW s \in Seq(S)
    PROVE  s = [i \in 1..Len(s) |-> s[i]]
OBVIOUS

LEMMA SeqEqual ==
    ASSUME NEW S, NEW s \in Seq(S), NEW t \in Seq(S), Len(s) = Len(t),
           \A i \in 1..Len(s) : s[i] = t[i]
    PROVE  s = t
BY SeqAsFunction

LEMMA ConcatElements ==
    ASSUME NEW S, NEW s \in Seq(S), NEW t \in Seq(S)
    PROVE  /\ s \o t \in Seq(S)
           /\ Len(s) \in Nat /\ Len(t) \in Nat
           /\ Len(s \o t) = Len(s) + Len(t)
           /\ \A i \in 1..(Len(s) + Len(t)) :
                (s \o t)[i] = IF i <= Len(s) THEN s[i] ELSE t[i - Len(s)]
OBVIOUS

LEMMA LastNElements ==
    ASSUME NEW S, NEW limit \in Nat, NEW s \in Seq(S), Len(s) >= limit
    PROVE  /\ LastN(s, limit) \in Seq(S)
           /\ Len(LastN(s, limit)) = limit
           /\ \A i \in 1..limit : LastN(s, limit)[i] = s[Len(s) - limit + i]
<1>1. CASE Len(s) = limit
  BY <1>1 DEF LastN
<1>2. CASE Len(s) > limit
  <2>1. LastN(s, limit) = SubSeq(s, Len(s) - limit + 1, Len(s))
    BY <1>2 DEF LastN, Drop
  <2> QED BY <1>2, <2>1
<1> QED BY <1>1, <1>2

LEMMA OverwriteIsTail ==
    ASSUME NEW S, NEW limit \in Nat, NEW d \in Seq(S), NEW p \in Seq(S), Len(d) = limit
    PROVE  Overwrite(d, p, limit) = LastN(d \o p, limit)
<1> DEFINE n == Len(p)
           s == d \o p
<1>1. n \in Nat /\ Len(s) = limit + n /\ s \in Seq(S)
  OBVIOUS
<1>2. \A i \in 1..Len(s) : s[i] = IF i <= limit THEN d[i] ELSE p[i - limit]
  OBVIOUS
<1>3. LastN(s, limit) = [i \in 1..limit |-> s[n + i]]
  <2>1. CASE n = 0
    <3>1. LastN(s, limit) = s
      BY <1>1, <2>1 DEF LastN
    <3>2. s = [i \in 1..Len(s) |-> s[i]]
      BY <1>1, SeqAsFunction
    <3> QED BY <3>1, <3>2, <1>1, <2>1
  <2>2. CASE n > 0
    <3>1. LastN(s, limit) = SubSeq(s, n + 1, n + limit)
      <4>1. ~(Len(s) <= limit) /\ Len(s) - limit = n /\ Len(s) = n + limit
        BY <1>1, <2>2
      <4>2. LastN(s, limit) = SubSeq(s, (Len(s) - limit) + 1, Len(s))
        BY <4>1, Zenon DEF LastN, Drop
      <4> QED BY <4>1, <4>2, Zenon
    <3> QED BY <3>1, <1>1
  <2> QED BY <1>1, <2>1, <2>2
<1>4. CASE n >= limit
  <2>1. Drop(p, n - limit) = [i \in 1..limit |-> p[n - limit + i]]
    BY <1>1, <1>4 DEF Drop
  <2>2. Len(Drop(p, n - limit)) = limit
    BY <1>1, <1>4 DEF Drop
  <2>3. Overwrite(d, p, limit) = [i \in 1..limit |-> p[n - limit + i]]
    BY <1>1, <1>4, <2>1, <2>2 DEF Overwrite, Copy
  <2>4. \A i \in 1..limit : s[n + i] = p[n - limit + i]
    BY <1>1, <1>2, <1>4
  <2> QED BY <1>3, <2>3, <2>4
<1>5. CASE n < limit
  <2>1. Drop(d, n) = [i \in 1..(limit - n) |-> d[n + i]] /\ Len(Drop(d, n)) = limit - n
    BY <1>1, <1>5 DEF Drop
  <2> DEFINE shifted == Copy(d, 0, Drop(d, n))
  <2>2. shifted = [i \in 1..limit |-> IF i <= limit - n THEN d[n + i] ELSE d[i]]
    BY <1>1, <1>5, <2>1 DEF Copy
  <2>3. Len(shifted) = limit
    BY <2>2
  <2>4. Overwrite(d, p, limit) = Copy(shifted, limit - n, p)
    BY <1>1, <1>5 DEF Overwrite
  <2> HIDE DEF shifted
  <2>5. Overwrite(d, p, limit)
          = [i \in 1..limit |-> IF i <= limit - n THEN d[n + i] ELSE p[i - (limit - n)]]
    BY <1>1, <1>5, <2>2, <2>3, <2>4 DEF Copy
  <2>6. \A i \in 1..limit : s[n + i] = IF i <= limit - n THEN d[n + i] ELSE p[i - (limit - n)]
    BY <1>1, <1>2, <1>5
  <2> QED BY <1>3, <2>5, <2>6
<1> QED BY <1>1, <1>4, <1>5

LEMMA SplitJoin ==
    ASSUME NEW S, NEW d \in Seq(S), NEW p \in Seq(S), NEW m \in 1..Len(p)
    PROVE  (d \o Take(p, m)) \o Drop(p, m) = d \o p
<1> DEFINE l == d \o Take(p, m)
           r == Drop(p, m)
<1>1. Take(p, m) \in Seq(S) /\ Len(Take(p, m)) = m /\ \A i \in 1..m : Take(p, m)[i] = p[i]
  BY DEF Take
<1>2. r \in Seq(S) /\ Len(r) = Len(p) - m /\ \A i \in 1..(Len(p) - m) : r[i] = p[m + i]
  BY DEF Drop
<1>3. l \in Seq(S) /\ Len(l) = Len(d) + m
      /\ \A i \in 1..(Len(d) + m) : l[i] = IF i <= Len(d) THEN d[i] ELSE p[i - Len(d)]
  BY <1>1
<1> HIDE DEF l, r
<1>0. Len(d) \in Nat /\ Len(p) \in Nat /\ m \in Nat /\ m <= Len(p)
  OBVIOUS
<1>4. l \o r \in Seq(S) /\ Len(l \o r) = Len(d) + Len(p)
      /\ \A i \in 1..(Len(d) + Len(p)) : (l \o r)[i] = IF i <= Len(d) THEN d[i] ELSE p[i - Len(d)]
  <2>1. l \o r \in Seq(S) /\ Len(l \o r) = Len(l) + Len(r)
        /\ \A i \in 1..(Len(l) + Len(r)) : (l \o r)[i] = IF i <= Len(l) THEN l[i] ELSE r[i - Len(l)]
    BY <1>2, <1>3, ConcatElements
  <2> DEFINE u == l \o r
  <2> HIDE DEF u
  <2>2. \A i \in 1..(Len(d) + Len(p)) : u[i] = IF i <= Len(d) + m THEN l[i] ELSE r[i - (Len(d) + m)]
    BY <1>0, <1>2, <1>3, <2>1 DEF u
  <2>3. \A i \in 1..(Len(d) + Len(p)) : u[i] = IF i <= Len(d) THEN d[i] ELSE p[i - Len(d)]
    <3> TAKE i \in 1..(Len(d) + Len(p))
    <3>1. CASE i <= Len(d) + m
      BY <1>0, <1>3, <2>2, <3>1
    <3>2. CASE i > Len(d) + m
      <4>1. u[i] = r[i - (Len(d) + m)] /\ i - (Len(d) + m) \in 1..(Len(p) - m)
        BY <1>0, <2>2, <3>2
      <4>2. r[i - (Len(d) + m)] = p[m + (i - (Len(d) + m))]
        BY <1>2, <4>1
      <4>3. m + (i - (Len(d) + m)) = i - Len(d) /\ ~(i <= Len(d))
        BY <1>0, <3>2
      <4> QED BY <4>1, <4>2, <4>3
    <3> QED BY <1>0, <3>1, <3>2
  <2> QED BY <1>0, <1>2, <1>3, <2>1, <2>3 DEF u
<1>5. d \o p \in Seq(S) /\ Len(d \o p) = Len(d) + Len(p)
      /\ \A i \in 1..(Len(d) + Len(p)) : (d \o p)[i] = IF i <= Len(d) THEN d[i] ELSE p[i - Len(d)]
  OBVIOUS
<1>6. l \o r = d \o p
  BY <1>4, <1>5, SeqEqual
<1> QED BY <1>6 DEF l, r

(* slideWindow.Write leaves the last limit bytes of the old contents       *)
(* followed by the new ones, in each of its three branches.                *)
THEOREM WriteIsTail ==
    ASSUME NEW S, NEW limit \in Nat, NEW d \in Seq(S), NEW p \in Seq(S), Len(d) <= limit
    PROVE  Write(d, p, limit) = LastN(d \o p, limit)
<1> DEFINE m == limit - Len(d)
<1>1. Len(d \o p) = Len(d) + Len(p) /\ Len(d) \in Nat /\ Len(p) \in Nat
  OBVIOUS
<1>2. CASE Len(p) + Len(d) <= limit
  BY <1>1, <1>2 DEF Write, LastN
<1>3. CASE Len(p) + Len(d) > limit /\ m > 0
  <2>1. m \in 1..Len(p)
    BY <1>1, <1>3
  <2>2. Take(p, m) \in Seq(S) /\ Len(Take(p, m)) = m /\ Drop(p, m) \in Seq(S)
    BY <2>1 DEF Take, Drop
  <2>3. d \o Take(p, m) \in Seq(S) /\ Len(d \o Take(p, m)) = limit
    <3>1. d \o Take(p, m) \in Seq(S) /\ Len(d \o Take(p, m)) = Len(d) + Len(Take(p, m))
      BY <2>2, ConcatElements, Zenon
    <3>2. Len(d) + m = limit
      BY <1>1
    <3> QED BY <2>2, <3>1, <3>2, Zenon
  <2>4. Overwrite(d \o Take(p, m), Drop(p, m), limit)
          = LastN((d \o Take(p, m)) \o Drop(p, m), limit)
    BY <2>2, <2>3, OverwriteIsTail
  <2>5. (d \o Take(p, m)) \o Drop(p, m) = d \o p
    BY <2>1, SplitJoin
  <2>6. Write(d, p, limit) = Overwrite(d \o Take(p, m), Drop(p, m), limit)
    BY <1>1, <1>3 DEF Write
  <2> QED BY <2>4, <2>5, <2>6
<1>4. CASE Len(p) + Len(d) > limit /\ m <= 0
  <2>1. Len(d) = limit
    BY <1>1, <1>4
  <2>2. Write(d, p, limit) = Overwrite(d, p, limit)
    BY <1>1, <1>4 DEF Write
  <2> QED BY <2>1, <2>2, OverwriteIsTail
<1> QED BY <1>1, <1>2, <1>3, <1>4

LEMMA TailOfTail ==
    ASSUME NEW S, NEW limit \in Nat, NEW a \in Seq(S), NEW b \in Seq(S)
    PROVE  LastN(LastN(a, limit) \o b, limit) = LastN(a \o b, limit)
<1>1. Len(a) \in Nat /\ Len(b) \in Nat /\ Len(a \o b) = Len(a) + Len(b) /\ a \o b \in Seq(S)
  OBVIOUS
<1>2. CASE Len(a) <= limit
  BY <1>2 DEF LastN
<1>3. CASE Len(a) > limit
  <2> DEFINE k == Len(a) - limit
             t == Drop(a, k)
  <2>1. t \in Seq(S) /\ Len(t) = limit /\ \A i \in 1..limit : t[i] = a[k + i]
    BY <1>1, <1>3 DEF Drop
  <2>2. LastN(a, limit) = t
    BY <1>1, <1>3 DEF LastN
  <2> DEFINE u == t \o b
             v == a \o b
  <2> HIDE DEF t
  <2>3. u \in Seq(S) /\ Len(u) = limit + Len(b)
        /\ \A i \in 1..(limit + Len(b)) : u[i] = IF i <= limit THEN t[i] ELSE b[i - limit]
    BY <2>1, ConcatElements
  <2>4. v \in Seq(S) /\ Len(v) = Len(a) + Len(b)
        /\ \A i \in 1..(Len(a) + Len(b)) : v[i] = IF i <= Len(a) THEN a[i] ELSE b[i - Len(a)]
    BY ConcatElements
  <2> HIDE DEF u, v
  <2>5. \A i \in 1..(limit + Len(b)) : u[i] = v[k + i]
    <3> TAKE i \in 1..(limit + Len(b))
    <3>1. k \in Nat /\ k + limit = Len(a) /\ k + i \in 1..(Len(a) + Len(b))
      BY <1>1, <1>3
    <3> HIDE DEF k
    <3>2. CASE i <= limit
      <4>1. u[i] = a[k + i] /\ k + i <= Len(a)
        BY <1>1, <2>1, <2>3, <3>1, <3>2
      <4> QED BY <2>4, <3>1, <4>1
    <3>3. CASE i > limit
      <4>0. u[i] = b[i - limit]
        BY <2>3, <3>3
      <4>1. ~(k + i <= Len(a)) /\ (k + i) - Len(a) = i - limit
        BY <1>1, <3>1, <3>3
      <4>2. v[k + i] = b[(k + i) - Len(a)]
        BY <2>4, <3>1, <4>1
      <4> QED BY <4>0, <4>1, <4>2
    <3> QED BY <1>1, <3>2, <3>3
  <2>51. Len(u) >= limit /\ Len(v) >= limit
    BY <1>1, <1>3, <2>3, <2>4
  <2>6. LastN(u, limit) \in Seq(S) /\ Len(LastN(u, limit)) = limit
        /\ \A i \in 1..limit : LastN(u, limit)[i] = u[Len(u) - limit + i]
    BY <2>3, <2>51, LastNElements, Zenon
  <2>7. LastN(v, limit) \in Seq(S) /\ Len(LastN(v, limit)) = limit
        /\ \A i \in 1..limit : LastN(v, limit)[i] = v[Len(v) - limit + i]
    BY <2>4, <2>51, LastNElements, Zenon
  <2>8. \A i \in 1..limit : u[Len(u) - limit + i] = v[Len(v) - limit + i]
    <3>1. /\ Len(u) = limit + Len(b) /\ Len(v) = Len(a) + Len(b)
          /\ Len(a) \in Nat /\ Len(b) \in Nat /\ limit \in Nat /\ Len(a) > limit
      BY <1>1, <1>3, <2>3, <2>4
    <3>2. ASSUME NEW i \in 1..limit
          PROVE  /\ Len(u) - limit + i \in 1..(limit + Len(b))
                 /\ (Len(a) - limit) + (Len(u) - limit + i) = Len(v) - limit + i
      BY <3>1
    <3> QED BY <2>5, <3>2
  <2>9. LastN(u, limit) = LastN(v, limit)
    BY <2>6, <2>7, <2>8, SeqEqual
  <2> QED BY <2>2, <2>9 DEF u, v
<1> QED BY <1>1, <1>2, <1>3

-----------------------------------------------------------------------------
(***************************************************************************)
(* The window of the sender.                                               *)
(***************************************************************************)

LEMMA WriteType ==
    ASSUME NEW d \in Seq(Bytes), NEW p \in Seq(Bytes), Len(d) <= size
    PROVE  WriteWindow(d, p) \in Seq(Bytes) /\ Len(WriteWindow(d, p)) <= size
<1> DEFINE s == d \o p
<1>1. s \in Seq(Bytes)
  OBVIOUS
<1> HIDE DEF s
<1>2. LastN(s, size) \in Seq(Bytes) /\ Len(LastN(s, size)) <= size
  <2>1. CASE Len(s) <= size
    BY <1>1, <2>1 DEF LastN
  <2>2. CASE Len(s) > size
    <3>1. Len(s) >= size /\ size \in Nat
      BY <1>1, <2>2, TakeoverAssumption
    <3>2. LastN(s, size) \in Seq(Bytes) /\ Len(LastN(s, size)) = size
      BY <1>1, <3>1, LastNElements, Zenon
    <3> QED BY <3>1, <3>2
  <2> QED BY <1>1, <2>1, <2>2, TakeoverAssumption
<1>3. Write(d, p, size) = LastN(s, size)
  BY TakeoverAssumption, WriteIsTail DEF s
<1> QED BY <1>2, <1>3 DEF WriteWindow

(* Two writes are one write of the concatenation: this is why feeding the  *)
(* window slice by slice at one end and message by message at the other    *)
(* keeps the ends together.                                                *)
LEMMA WriteTwice ==
    ASSUME NEW d \in Seq(Bytes), NEW p \in Seq(Bytes), NEW r \in Seq(Bytes), Len(d) <= size
    PROVE  WriteWindow(WriteWindow(d, p), r) = WriteWindow(d, p \o r)
<1>1. CASE ~enabled
  BY <1>1 DEF WriteWindow
<1>2. CASE enabled
  <2> DEFINE w == Write(d, p, size)
  <2>1. size \in Nat /\ p \o r \in Seq(Bytes) /\ d \o p \in Seq(Bytes)
    BY TakeoverAssumption
  <2>2. w \in Seq(Bytes) /\ Len(w) <= size
    BY <1>2, WriteType DEF WriteWindow
  <2>3. w = LastN(d \o p, size)
    BY <2>1, WriteIsTail
  <2> HIDE DEF w
  <2>4. Write(w, r, size) = LastN(w \o r, size)
    BY <2>1, <2>2, WriteIsTail
  <2>5. LastN(w \o r, size) = LastN((d \o p) \o r, size)
    BY <2>1, <2>3, TailOfTail
  <2>6. (d \o p) \o r = d \o (p \o r)
    OBVIOUS
  <2>7. Write(d, p \o r, size) = LastN(d \o (p \o r), size)
    BY <2>1, WriteIsTail
  <2>8. Write(w, r, size) = Write(d, p \o r, size)
    BY <2>4, <2>5, <2>6, <2>7
  <2> QED BY <1>2, <2>8 DEF WriteWindow, w
<1> QED BY <1>1, <1>2

WindowInv == TypeOK /\ WindowIsTail

LEMMA SendWindow ==
    ASSUME WindowInv, NEW c \in BOOLEAN, NEW d \in Seq(Bytes), NEW p \in Seq(Bytes),
           Send(c, d, p, WriteWindow(cps, p)), stray' \in Nat
    PROVE  WindowInv'
<1> DEFINE w == WriteWindow(cps, p)
           f == [compressed |-> c, dict |-> d, payload |-> p, before |-> cps, after |-> w]
<1>1. cps \in Seq(Bytes) /\ Len(cps) <= size /\ size \in Nat /\ stream \in Seq(Bytes)
  BY TakeoverAssumption DEF WindowInv, TypeOK
<1>2. w \in Seq(Bytes) /\ Len(w) <= size
  BY <1>1, WriteType
<1>3. enabled => w = LastN(stream \o p, size)
  <2>1. SUFFICES ASSUME enabled PROVE Write(cps, p, size) = LastN(stream \o p, size)
    BY DEF WriteWindow
  <2>2. Write(cps, p, size) = LastN(cps \o p, size)
    BY <1>1, WriteIsTail
  <2>3. cps = LastN(stream, size)
    BY <2>1 DEF WindowInv, WindowIsTail
  <2>4. LastN(LastN(stream, size) \o p, size) = LastN(stream \o p, size)
    BY <1>1, TailOfTail
  <2> QED BY <2>2, <2>3, <2>4
<1>4. cps' = w /\ stream' = stream \o p /\ channel' = Append(channel, f)
      /\ writes' = writes + 1 /\ UNCHANGED <<enabled, dps, broken>>
  BY DEF Send
<1> HIDE DEF w
<1>5. f \in Frames
  BY <1>1, <1>2 DEF Frames
<1> HIDE DEF f
<1>6. channel' \in Seq(Frames)
  BY <1>4, <1>5 DEF WindowInv, TypeOK
<1>7. TypeOK'
  BY <1>1, <1>2, <1>4, <1>6 DEF WindowInv, TypeOK
<1> QED BY <1>3, <1>4, <1>7 DEF WindowInv, WindowIsTail

(* Every way of writing is a Send of some payload p that leaves            *)
(* WriteWindow(cps, p); the frame is compressed with cps or with nothing.  *)
(* n bytes of it are stray.                                                *)
Sends(c, p, n) ==
    /\ p \in Seq(Bytes) /\ c \in BOOLEAN
    /\ \E d \in {<<>>, cps} : Send(c, d, p, WriteWindow(cps, p))
    /\ stray' = stray + n

LEMMA NextIsSend ==
    ASSUME TypeOK, Next
    PROVE  \/ \E p \in Seq(Bytes) : Sends(TRUE, p, 0)
           \/ \E p \in Seq(Bytes) : Sends(FALSE, p, Len(p))
           \/ \E p \in Seq(Bytes) : ~enabled /\ Sends(FALSE, p, 0)
           \/ Receive
<1>1. \A p \in Payloads : p \in Seq(Bytes)
  BY TakeoverAssumption
<1>2. \A p \in PingPayloads : p \in Seq(Bytes)
  BY TakeoverAssumption
<1>3. \A p, r \in Payloads : p \o r \in Seq(Bytes)
        /\ WriteWindow(WriteWindow(cps, p), r) = WriteWindow(cps, p \o r)
  BY <1>1, WriteTwice DEF TypeOK
<1>4. ASSUME NEW p \in Seq(Bytes), SendData(p, WriteWindow(cps, p))
      PROVE  Sends(TRUE, p, 0) \/ (~enabled /\ Sends(FALSE, p, 0))
  <2>1. stray' = stray + 0
    BY <1>4 DEF SendData, TypeOK
  <2>2. Len(p) < PdThreshold => ~enabled
    BY <1>4 DEF PdThreshold
  <2> QED BY <1>4, <2>1, <2>2 DEF SendData, Sends
<1>5. ASSUME NEW p \in Payloads, WriteMessage(p)
      PROVE  Sends(TRUE, p, 0) \/ (~enabled /\ Sends(FALSE, p, 0))
  BY <1>1, <1>4, <1>5 DEF WriteMessage
<1>6. ASSUME NEW p \in Payloads, Broadcast(p)
      PROVE  Sends(TRUE, p, 0) \/ Sends(FALSE, p, Len(p))
  <2>1. UNCHANGED stray => stray' = stray + 0
    BY DEF TypeOK
  <2> QED BY <1>1, <1>6, <2>1 DEF Broadcast, Sends
<1>7. ASSUME NEW p \in Payloads, NEW r \in Payloads, Writev(p, r)
      PROVE  Sends(TRUE, p \o r, 0) \/ (~enabled /\ Sends(FALSE, p \o r, 0))
  <2>1. p \o r \in Seq(Bytes) /\ SendData(p \o r, WriteWindow(cps, p \o r))
    BY <1>3, <1>7 DEF Writev
  <2> QED BY <1>4, <2>1
<1>8. ASSUME NEW p \in Payloads, NEW r \in Payloads, WriteFile(p, r)
      PROVE  Sends(TRUE, p \o r, 0)
  <2>1. stray' = stray + 0
    BY <1>8 DEF WriteFile, TypeOK
  <2> QED BY <1>3, <1>8, <2>1 DEF WriteFile, Sends
<1>9. ASSUME NEW p \in PingPayloads, WriteControl(p)
      PROVE  Sends(FALSE, p, Len(p))
  BY <1>2, <1>9 DEF WriteControl, Sends
<1> QED BY <1>1, <1>2, <1>3, <1>5, <1>6, <1>7, <1>8, <1>9 DEF Next

LEMMA ReceiveWindow == WindowInv /\ Receive => WindowInv'
<1> SUFFICES ASSUME WindowInv, Receive PROVE WindowInv'
  OBVIOUS
<1>1. channel \in Seq(Frames) /\ channel # <<>>
  BY DEF WindowInv, TypeOK, Receive
<1>2. Head(channel) \in Frames /\ Tail(channel) \in Seq(Frames)
  BY <1>1
<1>3. Head(channel).payload \in Seq(Bytes)
  BY <1>2 DEF Frames
<1>4. dps' \in Seq(Bytes) /\ Len(dps') <= size
  BY <1>3, WriteType DEF Receive, WindowInv, TypeOK
<1>5. broken' \in BOOLEAN
  BY Zenon DEF Receive, WindowInv, TypeOK
<1>6. channel' \in Seq(Frames) /\ UNCHANGED <<enabled, cps, stream, stray, writes>>
  BY <1>2 DEF Receive
<1> QED BY <1>4, <1>5, <1>6 DEF WindowInv, TypeOK, WindowIsTail

LEMMA WindowStep == WindowInv /\ [Next]_vars => WindowInv'
<1> SUFFICES ASSUME WindowInv, [Next]_vars PROVE WindowInv'
  OBVIOUS
<1>1. CASE UNCHANGED vars
  BY <1>1 DEF vars, WindowInv, TypeOK, WindowIsTail
<1>2. ASSUME NEW c, NEW p, NEW n \in Nat, Sends(c, p, n)
      PROVE  WindowInv'
  <2>1. PICK d \in {<<>>, cps} : Send(c, d, p, WriteWindow(cps, p))
    BY <1>2 DEF Sends
  <2>0. <<>> \in Seq(Bytes) /\ cps \in Seq(Bytes)
    BY DEF WindowInv, TypeOK
  <2>2. d \in Seq(Bytes) /\ p \in Seq(Bytes) /\ c \in BOOLEAN
    BY <1>2, <2>0, Zenon DEF Sends
  <2>3. stray' \in Nat
    BY <1>2 DEF Sends, WindowInv, TypeOK
  <2> QED BY <2>1, <2>2, <2>3, SendWindow
<1>3. CASE Next
  <2>1. 0 \in Nat /\ \A p \in Seq(Bytes) : Len(p) \in Nat
    OBVIOUS
  <2> QED BY <1>2, <1>3, <2>1, NextIsSend, ReceiveWindow DEF WindowInv
<1> QED BY <1>1, <1>3

LEMMA WindowInit == Init => WindowInv
<1> SUFFICES ASSUME Init PROVE WindowInv
  OBVIOUS
<1>1. <<>> \in Seq(Bytes) /\ <<>> \in Seq(Frames) /\ Len(<<>>) = 0
  OBVIOUS
<1>2. LastN(<<>>, size) = <<>>
  BY TakeoverAssumption DEF LastN
<1>3. Len(<<>>) <= size /\ 0 \in Nat
  BY <1>1, TakeoverAssumption
<1>4. TypeOK
  BY <1>1, <1>3, Zenon DEF Init, TypeOK
<1> QED BY <1>2, <1>4, Zenon DEF Init, WindowInv, WindowIsTail

(* Types, and no window ever exceeds the negotiated size. *)
THEOREM TakeoverTypes == Spec => []TypeOK
<1>1. WindowInv => TypeOK
  BY DEF WindowInv
<1> QED BY <1>1, WindowInit, WindowStep, PTL DEF Spec

(* Whatever is written, in whatever slices and with whatever opcodes, the  *)
(* sender's window holds the last size bytes of it.                        *)
THEOREM WindowIsTailTheorem == Spec => []WindowIsTail
<1>1. WindowInv => WindowIsTail
  BY DEF WindowInv
<1> QED BY <1>1, WindowInit, WindowStep, PTL DEF Spec

-----------------------------------------------------------------------------
(***************************************************************************)
(* Both ends.  The frames in flight link the receiver's window to the      *)
(* sender's: each was sent from the window the one before it left.         *)
(***************************************************************************)

FrameLinks(f) ==
    /\ f.dict \in {<<>>, f.before}
    /\ f.after = IF f.compressed THEN WriteWindow(f.before, f.payload) ELSE f.before

Chain ==
    /\ \A i \in 1..Len(channel) : FrameLinks(channel[i])
    /\ \A i \in 1..(Len(channel) - 1) : channel[i].after = channel[i + 1].before
    /\ channel = <<>> => cps = dps
    /\ channel # <<>> => channel[1].before = dps /\ channel[Len(channel)].after = cps
    /\ ~broken

LEMMA SendChain ==
    ASSUME TypeOK, Chain, NEW c \in BOOLEAN, NEW p \in Seq(Bytes), NEW k, Sends(c, p, k),
           ~c => WriteWindow(cps, p) = cps
    PROVE  Chain'
<1>1. PICK d \in {<<>>, cps} : Send(c, d, p, WriteWindow(cps, p))
  BY DEF Sends
<1> DEFINE w == WriteWindow(cps, p)
           f == [compressed |-> c, dict |-> d, payload |-> p, before |-> cps, after |-> w]
           n == Len(channel)
<1>2. channel' = Append(channel, f) /\ cps' = w /\ UNCHANGED <<enabled, dps, broken>>
  BY <1>1 DEF Send
<1>3. FrameLinks(f) /\ f.before = cps /\ f.after = w
  BY DEF FrameLinks
<1> HIDE DEF w, f
<1>4. n \in Nat /\ Len(channel') = n + 1 /\ channel'[n + 1] = f
      /\ \A i \in 1..n : channel'[i] = channel[i]
  BY <1>2 DEF TypeOK
<1>5. channel' # <<>>
  BY <1>4
<1>6. \A i \in 1..Len(channel') : FrameLinks(channel[i])'
  <2>1. \A i \in 1..Len(channel') : FrameLinks(channel'[i])
    BY <1>3, <1>4 DEF Chain
  <2> QED BY <1>2, <2>1 DEF FrameLinks, WriteWindow
<1>7. CASE n = 0
  <2>1. channel = <<>>
    BY <1>7 DEF TypeOK
  <2> QED BY <1>2, <1>3, <1>4, <1>5, <1>6, <1>7, <2>1 DEF Chain
<1>8. CASE n > 0
  <2>1. channel # <<>>
    BY <1>8 DEF TypeOK
  <2>2. channel[n].after = cps /\ channel[1].before = dps
    BY <2>1 DEF Chain
  <2>3. \A i \in 1..(Len(channel') - 1) : channel'[i].after = channel'[i + 1].before
    <3> TAKE i \in 1..(Len(channel') - 1)
    <3>1. CASE i = n
      BY <1>3, <1>4, <1>8, <2>2, <3>1
    <3>2. CASE i < n
      BY <1>4, <3>2 DEF Chain
    <3> QED BY <1>4, <3>1, <3>2
  <2>4. channel'[1].before = dps' /\ channel'[Len(channel')].after = cps'
    BY <1>2, <1>3, <1>4, <1>8, <2>2
  <2> QED BY <1>2, <1>5, <1>6, <2>3, <2>4 DEF Chain
<1> QED BY <1>4, <1>7, <1>8

LEMMA ReceiveChain ==
    ASSUME TypeOK, Chain, Receive
    PROVE  Chain'
<1> DEFINE f == channel[1]
           n == Len(channel)
<1>1. channel \in Seq(Frames) /\ channel # <<>> /\ n \in Nat /\ n > 0
  BY DEF TypeOK, Receive
<1>2. Head(channel) = f /\ f \in Frames /\ FrameLinks(f) /\ f.before = dps
  BY <1>1 DEF Chain
<1>3. channel' = Tail(channel) /\ UNCHANGED <<enabled, cps>>
  BY DEF Receive
<1>4. Len(channel') = n - 1 /\ \A i \in 1..(n - 1) : channel'[i] = channel[i + 1]
  BY <1>1, <1>3
<1> HIDE DEF f
<1>5. f.compressed => Decompresses(f)
  <2>1. dps \in Seq(Bytes) /\ f.dict \in {<<>>, dps}
    BY <1>2 DEF FrameLinks, TypeOK
  <2>2. CASE f.dict = <<>>
    <3>1. Drop(dps, Len(dps)) = <<>>
      BY <2>1 DEF Drop
    <3> QED BY <2>1, <2>2, <3>1 DEF Decompresses
  <2>3. CASE f.dict = dps
    <3>1. Drop(dps, 0) = dps
      BY <2>1 DEF Drop
    <3> QED BY <2>1, <2>3, <3>1 DEF Decompresses
  <2> QED BY <2>1, <2>2, <2>3
<1>6. dps' = f.after /\ broken' = broken
  BY <1>2, <1>5 DEF Receive, FrameLinks
<1>7. \A i \in 1..Len(channel') : FrameLinks(channel[i])'
  <2>1. \A i \in 1..Len(channel') : FrameLinks(channel'[i])
    BY <1>1, <1>4 DEF Chain
  <2> QED BY <1>3, <2>1 DEF FrameLinks, WriteWindow
<1>8. \A i \in 1..(Len(channel') - 1) : channel'[i].after = channel'[i + 1].before
  BY <1>1, <1>4 DEF Chain
<1>9. CASE n = 1
  <2>1. channel' = <<>>
    BY <1>1, <1>3, <1>4, <1>9
  <2>2. dps' = cps'
    BY <1>1, <1>3, <1>6, <1>9 DEF Chain, f
  <2> QED BY <1>6, <1>7, <1>8, <2>1, <2>2 DEF Chain
<1>10. CASE n > 1
  <2>1. channel' # <<>>
    BY <1>4, <1>10
  <2>2. channel'[1].before = dps'
    BY <1>1, <1>4, <1>6, <1>10 DEF Chain, f
  <2>3. channel'[Len(channel')].after = cps'
    BY <1>1, <1>3, <1>4, <1>10 DEF Chain
  <2> QED BY <1>6, <1>7, <1>8, <2>1, <2>2, <2>3 DEF Chain
<1>11. \A k \in Nat : k > 0 => k = 1 \/ k > 1
  OBVIOUS
<1> QED BY <1>1, <1>9, <1>10, <1>11, Zenon

LEMMA EmptyWrite ==
    ASSUME NEW d \in Seq(Bytes), Len(d) <= size
    PROVE  WriteWindow(d, <<>>) = d
<1>1. d \o <<>> = d /\ Len(<<>>) + Len(d) = Len(d)
  OBVIOUS
<1> QED BY <1>1 DEF WriteWindow, Write

(* While nothing stray was sent the frames form a chain. *)
ChainInv == NothingStray => Chain

LEMMA ChainStep ==
    ASSUME TypeOK, ChainInv, [Next]_vars
    PROVE  ChainInv'
<1> SUFFICES ASSUME NothingStray' PROVE Chain'
  BY DEF ChainInv
<1>0. cps \in Seq(Bytes) /\ Len(cps) <= size
  BY DEF TypeOK
<1>1. ~enabled => \A p : WriteWindow(cps, p) = cps
  BY DEF WriteWindow
<1>2. CASE UNCHANGED vars
  BY <1>2 DEF vars, ChainInv, NothingStray, Chain, FrameLinks, WriteWindow
<1>3. ASSUME NEW c, NEW p, NEW n \in Nat, Sends(c, p, n)
      PROVE  Chain /\ (enabled => n = 0)
  <2>1. enabled' = enabled /\ stray' = stray + n /\ stray \in Nat
    BY <1>3 DEF Sends, Send, TypeOK
  <2>2. enabled => stray = 0 /\ n = 0
    BY <1>3, <2>1 DEF NothingStray
  <2> QED BY <2>2 DEF ChainInv, NothingStray
<1>4. ASSUME NEW p \in Seq(Bytes), Sends(TRUE, p, 0)
      PROVE  Chain'
  BY <1>3, <1>4, SendChain
<1>5. ASSUME NEW p \in Seq(Bytes), NEW n \in Nat, Sends(FALSE, p, n), ~enabled \/ p = <<>>
      PROVE  Chain'
  <2>1. WriteWindow(cps, p) = cps
    BY <1>0, <1>1, <1>5, EmptyWrite
  <2> QED BY <1>3, <1>5, <2>1, SendChain
<1>6. ASSUME NEW p \in Seq(Bytes), Sends(FALSE, p, Len(p))
      PROVE  Chain'
  <2>1. Len(p) \in Nat /\ (Len(p) = 0 => p = <<>>)
    OBVIOUS
  <2>2. ~enabled \/ p = <<>>
    BY <1>3, <1>6, <2>1
  <2> QED BY <1>5, <1>6, <2>1, <2>2
<1>7. CASE Receive
  <2>1. UNCHANGED <<enabled, stray>>
    BY <1>7 DEF Receive
  <2>2. Chain
    BY <2>1 DEF ChainInv, NothingStray
  <2> QED BY <1>7, <2>2, ReceiveChain
<1>8. CASE Next
  BY <1>4, <1>5, <1>6, <1>7, <1>8, NextIsSend
<1> QED BY <1>2, <1>8

LEMMA ChainTheorem == Spec => []ChainInv
<1>1. Init => ChainInv
  BY DEF Init, ChainInv, Chain
<1>2. TypeOK /\ ChainInv /\ [Next]_vars => ChainInv'
  BY ChainStep
<1> QED BY <1>1, <1>2, TakeoverTypes, PTL DEF Spec

(* As long as no control frame had a payload and no uncompressed broadcast *)
(* frame was sent, both ends hold the same dictionary whenever nothing is  *)
(* in flight ...                                                           *)
THEOREM DictInSyncTheorem == Spec => []DictInSync
<1>1. ChainInv => DictInSync
  BY DEF ChainInv, Chain, DictInSync
<1> QED BY <1>1, ChainTheorem, PTL

(* ... and every message decompresses at the peer. *)
THEOREM DecodableTheorem == Spec => []Decodable
<1>1. ChainInv => Decodable
  BY DEF ChainInv, Chain, Decodable
<1> QED BY <1>1, ChainTheorem, PTL
==============================================================================
