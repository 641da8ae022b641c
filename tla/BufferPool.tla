----------------------------- MODULE BufferPool -----------------------------
(***************************************************************************)
(* The pool of byte buffers (internal/pool.go) that readers, writers and   *)
(* the handshake share (binaryPool, init.go).                              *)
(*                                                                         *)
(* The buffers live in a heap: [cap, mem, idle] gives each one its         *)
(* capacity, its contents and how often the pool holds it (a sync.Pool is  *)
(* a bag: what is Put twice is handed out twice).  A goroutine keeps the   *)
(* identity of a buffer, as the code keeps a pointer.                      *)
(***************************************************************************)
EXTENDS Integers, SequencesExt

CONSTANTS Buf,          \* the buffers, numbered; 0 stands for none
          Width,        \* bits of the uint32 that binaryCeil computes with
          Left, Right   \* NewBufferPool(left, right)

ASSUME PoolAssumption ==
    /\ Buf \subseteq Nat \ {0}
    /\ Width \in Nat \ {0} /\ Left \in Nat /\ Right \in Nat

Half == 2^(Width - 1)       \* the highest power of two that a uint32 holds
Uint32(n) == n % (2 * Half)

(* binaryCeil: the least power of two from v on; 0 where the addition that *)
(* ends it wraps round.  (BinaryCeil has its bits.)                        *)
Powers == {2^k : k \in 0..(Width - 1)}
BinaryCeil(v) ==
    LET fitting == {c \in Powers : v <= c}
    IN  IF v = 0 \/ fitting = {} THEN 0 ELSE Min(fitting)

Begin  == BinaryCeil(Left)
End    == BinaryCeil(Right)
Shards == {c \in Begin..End : \E k \in 0..Width : c = Begin * 2^k}

EmptyHeap == [cap  |-> [b \in Buf |-> 0], mem |-> [b \in Buf |-> <<>>], idle |-> [b \in Buf |-> 0]]

(* Put files a buffer by its capacity, which may have grown since Get, and *)
(* leaves one that fits no shard to the garbage collector.  What a pooled  *)
(* buffer held is no longer there for who still refers to it: its next     *)
(* user may overwrite it at once.                                          *)
Put(h, b) ==
    IF h.cap[b] \in Shards
    THEN [h EXCEPT !.idle[b] = @ + 1, !.mem[b] = <<>>]
    ELSE [h EXCEPT !.mem[b] = <<>>, !.cap[b] = 0]

Lowest(S) == {b \in S : \A c \in S : b <= c}

(* Get: a buffer of the shard that n rounds up to, idle or new, emptied;   *)
(* beyond the shards a new one of n bytes.  `held` are the buffers that    *)
(* someone still refers to; a new one takes a number that is free, or that *)
(* of an idle buffer the garbage collector has taken from the pool.  Idle  *)
(* buffers of one shard are alike, so the one with the lowest number       *)
(* stands for them all.  (Put files by capacity, so the Grow in the code   *)
(* finds nothing to do.)                                                   *)
Get_RoundsDown(h, n, held) ==
    LET size   == Max({BinaryCeil(Uint32(n) + 1) \div 2, Begin})
        pooled == size \in Shards
        free   == {b \in Buf \ held : h.idle[b] = 0}
        fresh  == IF free # {} THEN free ELSE Buf \ held
        idle   == {b \in Buf : pooled /\ h.idle[b] > 0 /\ h.cap[b] = size}
    IN  {[buf |-> b, heap |-> [h EXCEPT !.idle[b] = @ - 1, !.mem[b] = <<>>]] : b \in Lowest(idle)}
          \cup
        {[buf |-> b, heap |-> [h EXCEPT !.idle[b] = 0, !.mem[b] = <<>>,
                                       !.cap[b] = IF pooled THEN size ELSE n]] : b \in Lowest(fresh)}

Get(h, n, held) ==
    LET size   == Max({BinaryCeil(Uint32(n)), Begin})
        pooled == size \in Shards
        free   == {b \in Buf \ held : h.idle[b] = 0}
        fresh  == IF free # {} THEN free ELSE Buf \ held
        idle   == {b \in Buf : pooled /\ h.idle[b] > 0 /\ h.cap[b] = size}
    IN  {[buf |-> b, heap |-> [h EXCEPT !.idle[b] = @ - 1, !.mem[b] = <<>>]] : b \in Lowest(idle)}
          \cup
        {[buf |-> b, heap |-> [h EXCEPT !.idle[b] = 0, !.mem[b] = <<>>,
                                       !.cap[b] = IF pooled THEN size ELSE n]] : b \in Lowest(fresh)}

(* bytes.Buffer.Write: append, with a new array of at least twice the      *)
(* capacity when the old one is full.                                      *)
Write(h, b, s) ==
    LET n == Len(h.mem[b]) + Len(s)
    IN  [h EXCEPT !.mem[b] = @ \o s,
                  !.cap[b] = IF n > @ THEN Max({n, 2 * @}) ELSE @]
=============================================================================
