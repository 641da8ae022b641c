---------------------------- MODULE DequeProofs ----------------------------
(***************************************************************************)
(* The deque is the list it promises to be, for any number of elements.    *)
(* Rep says which sequence of slots a deque stands for; every operation is *)
(* made of taking a slot (GetElement, or DoRemove), linking it in and      *)
(* giving it back, and Rep has a place for the slot that is in hand.       *)
(***************************************************************************)
EXTENDS Deque, SequenceTheorems, WellFoundedInduction, TLAPS

Element == [prev : Nat, addr : Nat, next : Nat, value : Values \cup {NoValue}]
DequeType == [head : Nat, tail : Nat, length : Nat, stack : Seq(Nat), elements : Seq(Element)]

Slots(q) == 1..Len(q.elements)

(* The links of the slots w[1] .. w[n]. *)
Linked(q, w, n) ==
    /\ q.head = (IF n = 0 THEN Nil ELSE w[1])
    /\ q.tail = (IF n = 0 THEN Nil ELSE w[n])
    /\ \A k \in 1..n : /\ q.elements[w[k]].next = (IF k = n THEN Nil ELSE w[k + 1])
                       /\ q.elements[w[k]].prev = (IF k = 1 THEN Nil ELSE w[k - 1])

(* No slot is twice in the list and the stack, and a is in neither. *)
Apart(q, w, a) ==
    /\ \A i, j \in 1..q.length : w[i] = w[j] => i = j
    /\ \A i, j \in 1..Len(q.stack) : q.stack[i] = q.stack[j] => i = j
    /\ \A i \in 1..q.length, j \in 1..Len(q.stack) : w[i] # q.stack[j]
    /\ \A i \in 1..q.length : w[i] # a
    /\ \A j \in 1..Len(q.stack) : q.stack[j] # a

(* Every slot is in the list, in the stack or in hand. *)
Covered(q, w, a) ==
    \A x \in Slots(q) : \/ x = a
                        \/ \E i \in 1..q.length : w[i] = x
                        \/ \E j \in 1..Len(q.stack) : q.stack[j] = x

(* What the slots hold. *)
Filled(q, w, a) ==
    /\ \A i \in 1..q.length : q.elements[w[i]].addr = w[i]
    /\ \A j \in 1..Len(q.stack) : q.elements[q.stack[j]] = Template
    /\ a # Nil => q.elements[a].addr = a

(* The deque q stands for the slots w, with slot a in hand (Nil: none). *)
Rep(q, w, a) ==
    /\ q \in DequeType /\ w \in [1..q.length -> Slots(q)]
    /\ a \in Slots(q) \cup {Nil}
    /\ \A j \in 1..Len(q.stack) : q.stack[j] \in Slots(q)
    /\ q.length + Len(q.stack) + (IF a = Nil THEN 0 ELSE 1) = Len(q.elements)
    /\ Linked(q, w, q.length) /\ Apart(q, w, a) /\ Covered(q, w, a) /\ Filled(q, w, a)

Small(q) == Len(q.elements) <= MaxLen

Inv == (\E w : Rep(d, w, Nil)) /\ Small(d)

(* w with a after the first p of its n slots, and w without its p-th. *)
Ins(w, n, p, a) == [i \in 1..(n + 1) |-> IF i <= p THEN w[i] ELSE IF i = p + 1 THEN a ELSE w[i - 1]]
Del(w, n, p)    == [i \in 1..(n - 1) |-> IF i < p THEN w[i] ELSE w[i + 1]]

-----------------------------------------------------------------------------
(* Walk finds the slots. *)

LEMMA LeastIndex ==
    ASSUME NEW T \in SUBSET Nat, T # {}
    PROVE  \E k \in T : \A j \in T : k <= j
<1>1. PICK k \in T : \A j \in T : ~ (<<j, k>> \in OpToRel(<, Nat))
  BY WFMin, NatLessThanWellFounded
<1>2. \A j \in T : ~ (j < k)
  BY <1>1 DEF OpToRel
<1> QED BY <1>2

LEMMA WalkIs ==
    ASSUME NEW q, q.length \in Nat, NEW w \in [1..q.length -> Nat], Linked(q, w, q.length)
    PROVE  Walk(q) = w
<1> DEFINE n == q.length
           IsWalk(f) == f = [k \in 1..n |-> IF k = 1 THEN q.head ELSE q.elements[f[k - 1]].next]
           at == CHOOSE f : IsWalk(f)
<1>1. Walk(q) = at
  BY DEF Walk
<1>2. IsWalk(w)
  <2>1. \A k \in 1..n : w[k] = IF k = 1 THEN q.head ELSE q.elements[w[k - 1]].next
    <3> SUFFICES ASSUME NEW k \in 1..n PROVE w[k] = IF k = 1 THEN q.head ELSE q.elements[w[k - 1]].next
      OBVIOUS
    <3>1. CASE k = 1
      BY <3>1 DEF Linked
    <3>2. CASE k # 1
      <4>1. k - 1 \in 1..n /\ k - 1 # n /\ (k - 1) + 1 = k
        BY <3>2
      <4>2. q.elements[w[k - 1]].next = w[(k - 1) + 1]
        BY <4>1 DEF Linked
      <4> QED BY <3>2, <4>1, <4>2
    <3> QED BY <3>1, <3>2
  <2> QED BY <2>1
<1>3. IsWalk(at)
  BY <1>2
<1> DEFINE bad == {k \in 1..n : at[k] # w[k]}
<1>4. at = [k \in 1..n |-> IF k = 1 THEN q.head ELSE q.elements[at[k - 1]].next]
  BY <1>3
<1> HIDE DEF IsWalk, at
<1>5. bad = {}
  <2> SUFFICES ASSUME bad # {} PROVE FALSE
    OBVIOUS
  <2>1. PICK k \in bad : \A j \in bad : k <= j
    <3>1. bad \in SUBSET Nat
      OBVIOUS
    <3> HIDE DEF bad
    <3> QED BY <3>1, LeastIndex
  <2>2. k # 1
    BY <1>4, <2>1 DEF Linked
  <2>3. k - 1 \in 1..n /\ at[k - 1] = w[k - 1]
    BY <2>1, <2>2
  <2>4. at[k] = q.elements[w[k - 1]].next
    BY <1>4, <2>1, <2>2, <2>3
  <2>5. q.elements[w[k - 1]].next = w[k]
    <3>1. k - 1 # n /\ (k - 1) + 1 = k
      BY <2>1
    <3>2. q.elements[w[k - 1]].next = w[(k - 1) + 1]
      BY <2>3, <3>1 DEF Linked
    <3> QED BY <3>1, <3>2
  <2> QED BY <2>1, <2>4, <2>5
<1>6. at = w
  <2>1. \A k \in 1..n : at[k] = w[k]
    BY <1>5
  <2>2. w = [k \in 1..n |-> w[k]]
    OBVIOUS
  <2>3. at = [k \in 1..n |-> at[k]]
    <3>1. DOMAIN at = 1..n /\ at = [k \in DOMAIN at |-> at[k]]
      BY <1>4
    <3> QED BY <3>1
  <2> QED BY <2>1, <2>2, <2>3
<1> QED BY <1>1, <1>6

-----------------------------------------------------------------------------
(* Linking a slot in and out. *)

(* r is q with slot a linked in between before and after. *)
LinkedIn(q, r, a, before, after) ==
    /\ r.elements[a].prev = before /\ r.elements[a].next = after
    /\ \A x \in Slots(q) \ {a} :
          /\ r.elements[x].next = (IF x = before THEN a ELSE q.elements[x].next)
          /\ r.elements[x].prev = (IF x = after THEN a ELSE q.elements[x].prev)
    /\ r.head = (IF before = Nil THEN a ELSE q.head)
    /\ r.tail = (IF after = Nil THEN a ELSE q.tail)

Before(w, p) == IF p = 0 THEN Nil ELSE w[p]
After(w, n, p) == IF p = n THEN Nil ELSE w[p + 1]

LEMMA InsLinked ==
    ASSUME NEW q, NEW r, NEW n \in Nat, NEW w \in [1..n -> Slots(q)], Linked(q, w, n),
           \A i, j \in 1..n : w[i] = w[j] => i = j,
           NEW p \in 0..n, NEW a \in Slots(q), \A i \in 1..n : w[i] # a,
           LinkedIn(q, r, a, Before(w, p), After(w, n, p))
    PROVE  Linked(r, Ins(w, n, p, a), n + 1)
<1> DEFINE v == Ins(w, n, p, a)
           before == Before(w, p)
           after == After(w, n, p)
<1>0. \A i \in 1..n : w[i] \in Nat /\ w[i] # Nil /\ w[i] \in Slots(q) \ {a}
  BY DEF Slots, Nil
<1>1. /\ \A i \in 1..p : v[i] = w[i]
      /\ v[p + 1] = a
      /\ \A i \in (p + 1)..n : v[i + 1] = w[i]
  BY DEF Ins
<1>2. /\ (p = 0 => before = Nil) /\ (p # 0 => before = w[p] /\ before # Nil)
      /\ (p = n => after = Nil) /\ (p # n => after = w[p + 1] /\ after # Nil)
  BY <1>0 DEF Before, After
<1> HIDE DEF v, before, after
<1>3. /\ r.elements[a].prev = before /\ r.elements[a].next = after
      /\ r.head = (IF before = Nil THEN a ELSE q.head)
      /\ r.tail = (IF after = Nil THEN a ELSE q.tail)
      /\ \A i \in 1..n : /\ r.elements[w[i]].next = (IF w[i] = before THEN a ELSE q.elements[w[i]].next)
                         /\ r.elements[w[i]].prev = (IF w[i] = after THEN a ELSE q.elements[w[i]].prev)
  BY <1>0 DEF LinkedIn, before, after
<1>4. \A i \in 1..n : (w[i] = before <=> i = p) /\ (w[i] = after <=> i = p + 1)
  BY <1>0, <1>2
<1>5. r.head = v[1]
  BY <1>1, <1>2, <1>3 DEF Linked
<1>6. r.tail = v[n + 1]
  BY <1>1, <1>2, <1>3 DEF Linked
<1>7. ASSUME NEW k \in 1..(n + 1)
      PROVE  /\ r.elements[v[k]].next = (IF k = n + 1 THEN Nil ELSE v[k + 1])
             /\ r.elements[v[k]].prev = (IF k = 1 THEN Nil ELSE v[k - 1])
  <2>1. CASE k \in 1..p
    <3>1. v[k] = w[k] /\ k \in 1..n /\ (k # 1 => v[k - 1] = w[k - 1]) /\ (k # p => v[k + 1] = w[k + 1])
      BY <1>1, <2>1
    <3>2. r.elements[w[k]].next = v[k + 1]
      BY <1>1, <1>3, <1>4, <2>1, <3>1 DEF Linked
    <3>3. r.elements[w[k]].prev = (IF k = 1 THEN Nil ELSE v[k - 1])
      BY <1>1, <1>3, <1>4, <2>1, <3>1 DEF Linked
    <3> QED BY <2>1, <3>1, <3>2, <3>3
  <2>2. CASE k = p + 1
    BY <1>1, <1>2, <1>3, <2>2
  <2>3. CASE k \in (p + 2)..(n + 1)
    <3> DEFINE j == k - 1
    <3>1. j \in (p + 1)..n /\ j \in 1..n /\ k = j + 1
      BY <2>3
    <3> HIDE DEF j
    <3>2. v[k] = w[j] /\ (j # n => v[k + 1] = w[j + 1]) /\ (j # p + 1 => v[j] = w[j - 1]) /\ (j = p + 1 => v[j] = a)
      BY <1>1, <3>1
    <3>3. r.elements[w[j]].next = (IF j = n THEN Nil ELSE w[j + 1])
      <4>1. j # p /\ w[j] # before
        BY <1>4, <3>1
      <4>2. r.elements[w[j]].next = q.elements[w[j]].next
        BY <1>3, <3>1, <4>1
      <4> QED BY <3>1, <4>2 DEF Linked
    <3>4. r.elements[w[j]].prev = v[j]
      <4>1. CASE j = p + 1
        <5>1. w[j] = after /\ v[j] = a
          BY <1>4, <3>1, <3>2, <4>1
        <5> QED BY <1>3, <3>1, <5>1
      <4>2. CASE j # p + 1
        <5>1. w[j] # after /\ v[j] = w[j - 1] /\ j # 1
          BY <1>4, <3>1, <3>2, <4>2
        <5>2. q.elements[w[j]].prev = w[j - 1]
          BY <3>1, <5>1 DEF Linked
        <5> QED BY <1>3, <3>1, <5>1, <5>2
      <4> QED BY <4>1, <4>2
    <3> QED BY <2>3, <3>1, <3>2, <3>3, <3>4
  <2> QED BY <2>1, <2>2, <2>3
<1> QED BY <1>5, <1>6, <1>7 DEF Linked, v

(* r is q with slot a, whose links are before and after, linked out. *)
LinkedOut(q, r, a, before, after) ==
    /\ \A x \in Slots(q) \ {a} :
          /\ r.elements[x].next = (IF x = before THEN after ELSE q.elements[x].next)
          /\ r.elements[x].prev = (IF x = after THEN before ELSE q.elements[x].prev)
    /\ r.head = (IF before = Nil THEN after ELSE q.head)
    /\ r.tail = (IF after = Nil THEN before ELSE q.tail)

LEMMA DelLinked ==
    ASSUME NEW q, NEW r, NEW n \in Nat, NEW w \in [1..n -> Slots(q)], Linked(q, w, n),
           \A i, j \in 1..n : w[i] = w[j] => i = j,
           NEW p \in 1..n,
           LinkedOut(q, r, w[p], Before(w, p - 1), After(w, n, p))
    PROVE  Linked(r, Del(w, n, p), n - 1)
<1> DEFINE v == Del(w, n, p)
           before == Before(w, p - 1)
           after == After(w, n, p)
<1>0. \A i \in 1..n : w[i] \in Nat /\ w[i] # Nil /\ w[i] \in Slots(q)
  BY DEF Slots, Nil
<1>1. /\ \A i \in 1..(p - 1) : v[i] = w[i]
      /\ \A i \in p..(n - 1) : v[i] = w[i + 1]
  BY DEF Del
<1>2. /\ (p = 1 => before = Nil) /\ (p # 1 => before = w[p - 1] /\ before # Nil)
      /\ (p = n => after = Nil) /\ (p # n => after = w[p + 1] /\ after # Nil)
  BY <1>0 DEF Before, After
<1> HIDE DEF v, before, after
<1>3. /\ r.head = (IF before = Nil THEN after ELSE q.head)
      /\ r.tail = (IF after = Nil THEN before ELSE q.tail)
      /\ \A i \in 1..n : i # p =>
             /\ r.elements[w[i]].next = (IF w[i] = before THEN after ELSE q.elements[w[i]].next)
             /\ r.elements[w[i]].prev = (IF w[i] = after THEN before ELSE q.elements[w[i]].prev)
  BY <1>0 DEF LinkedOut, before, after
<1>4. \A i \in 1..n : (w[i] = before <=> i = p - 1) /\ (w[i] = after <=> i = p + 1)
  BY <1>0, <1>2
<1>5. r.head = (IF n - 1 = 0 THEN Nil ELSE v[1])
  BY <1>1, <1>2, <1>3 DEF Linked
<1>6. r.tail = (IF n - 1 = 0 THEN Nil ELSE v[n - 1])
  BY <1>1, <1>2, <1>3 DEF Linked
<1>7. ASSUME NEW k \in 1..(n - 1)
      PROVE  /\ r.elements[v[k]].next = (IF k = n - 1 THEN Nil ELSE v[k + 1])
             /\ r.elements[v[k]].prev = (IF k = 1 THEN Nil ELSE v[k - 1])
  <2>1. CASE k \in 1..(p - 1)
    <3>1. v[k] = w[k] /\ k \in 1..n /\ k # p /\ (k # 1 => v[k - 1] = w[k - 1])
          /\ (k # p - 1 => v[k + 1] = w[k + 1]) /\ (k = p - 1 /\ p # n => v[k + 1] = w[p + 1])
      BY <1>1, <2>1
    <3>2. r.elements[w[k]].next = (IF k = n - 1 THEN Nil ELSE v[k + 1])
      <4>1. CASE k = p - 1
        <5>1. r.elements[w[k]].next = after /\ (k = n - 1 <=> p = n)
          BY <1>3, <1>4, <3>1, <4>1
        <5> QED BY <1>2, <3>1, <4>1, <5>1
      <4>2. CASE k # p - 1
        <5>1. q.elements[w[k]].next = w[k + 1] /\ v[k + 1] = w[k + 1] /\ k # n - 1
          BY <2>1, <3>1, <4>2 DEF Linked
        <5> QED BY <1>3, <1>4, <3>1, <4>2, <5>1
      <4> QED BY <4>1, <4>2
    <3>3. r.elements[w[k]].prev = (IF k = 1 THEN Nil ELSE v[k - 1])
      <4>1. w[k] # after
        BY <1>4, <2>1, <3>1
      <4>2. r.elements[w[k]].prev = q.elements[w[k]].prev
        BY <1>3, <3>1, <4>1
      <4> QED BY <3>1, <4>2 DEF Linked
    <3> QED BY <3>1, <3>2, <3>3
  <2>2. CASE k \in p..(n - 1)
    <3> DEFINE j == k + 1
    <3>1. j \in (p + 1)..n /\ j \in 1..n /\ k = j - 1 /\ j # p
      BY <2>2
    <3> HIDE DEF j
    <3>2. v[k] = w[j] /\ (j # n => v[k + 1] = w[j + 1]) /\ (j # p + 1 => v[k - 1] = w[j - 1])
          /\ (j = p + 1 /\ p # 1 => v[k - 1] = w[p - 1])
      BY <1>1, <3>1
    <3>3. r.elements[w[j]].next = (IF j = n THEN Nil ELSE w[j + 1])
      BY <1>3, <1>4, <3>1 DEF Linked
    <3>4. r.elements[w[j]].prev = (IF k = 1 THEN Nil ELSE v[k - 1])
      BY <1>2, <1>3, <1>4, <3>1, <3>2 DEF Linked
    <3> QED BY <3>1, <3>2, <3>3, <3>4
  <2> QED BY <2>1, <2>2
<1> QED BY <1>5, <1>6, <1>7 DEF Linked, v

-----------------------------------------------------------------------------
(* Assignments to a field of a slot. *)
SetPrev(e, x, y)  == [e EXCEPT ![x].prev = y]
SetNext(e, x, y)  == [e EXCEPT ![x].next = y]
SetAddr(e, x, y)  == [e EXCEPT ![x].addr = y]
SetValue(e, x, y) == [e EXCEPT ![x].value = y]

LEMMA SetSlot ==
    ASSUME NEW e \in Seq(Element), NEW x \in 1..Len(e), NEW y \in Element
    PROVE  LET f == [e EXCEPT ![x] = y]
           IN  /\ f \in Seq(Element) /\ Len(f) = Len(e) /\ f[x] = y
               /\ \A z \in 1..Len(e) : z # x => f[z] = e[z]
OBVIOUS

LEMMA SetPrevFacts ==
    ASSUME NEW e \in Seq(Element), NEW x \in 1..Len(e), NEW y \in Nat
    PROVE  LET f == SetPrev(e, x, y)
           IN  /\ f \in Seq(Element) /\ Len(f) = Len(e)
               /\ \A z \in 1..Len(e) :
                     /\ f[z].prev = (IF z = x THEN y ELSE e[z].prev) /\ f[z].next = e[z].next
                     /\ f[z].addr = e[z].addr /\ f[z].value = e[z].value
<1> DEFINE new == [e[x] EXCEPT !.prev = y]
           f == SetPrev(e, x, y)
<1>1. e[x] \in Element
  OBVIOUS
<1>2. /\ new \in Element /\ new.prev = y /\ new.next = e[x].next
      /\ new.addr = e[x].addr /\ new.value = e[x].value
  BY <1>1 DEF Element
<1>3. f = [e EXCEPT ![x] = new]
  BY DEF SetPrev
<1> HIDE DEF new, f
<1>4. /\ f \in Seq(Element) /\ Len(f) = Len(e) /\ f[x] = new
      /\ \A z \in 1..Len(e) : z # x => f[z] = e[z]
  BY <1>2, <1>3, SetSlot
<1> QED BY <1>2, <1>4 DEF f

LEMMA SetNextFacts ==
    ASSUME NEW e \in Seq(Element), NEW x \in 1..Len(e), NEW y \in Nat
    PROVE  LET f == SetNext(e, x, y)
           IN  /\ f \in Seq(Element) /\ Len(f) = Len(e)
               /\ \A z \in 1..Len(e) :
                     /\ f[z].next = (IF z = x THEN y ELSE e[z].next) /\ f[z].prev = e[z].prev
                     /\ f[z].addr = e[z].addr /\ f[z].value = e[z].value
<1> DEFINE new == [e[x] EXCEPT !.next = y]
           f == SetNext(e, x, y)
<1>1. e[x] \in Element
  OBVIOUS
<1>2. /\ new \in Element /\ new.next = y /\ new.prev = e[x].prev
      /\ new.addr = e[x].addr /\ new.value = e[x].value
  BY <1>1 DEF Element
<1>3. f = [e EXCEPT ![x] = new]
  BY DEF SetNext
<1> HIDE DEF new, f
<1>4. /\ f \in Seq(Element) /\ Len(f) = Len(e) /\ f[x] = new
      /\ \A z \in 1..Len(e) : z # x => f[z] = e[z]
  BY <1>2, <1>3, SetSlot
<1> QED BY <1>2, <1>4 DEF f

LEMMA ElementsOnly ==
    ASSUME NEW q \in DequeType, NEW s, NEW r, NEW k, NEW f, NEW e,
           s = [q EXCEPT !.length = k, !.elements = f], r = [s EXCEPT !.elements = e]
    PROVE  r = [q EXCEPT !.length = k, !.head = q.head, !.tail = q.tail, !.elements = e]
<1>1. s = [q EXCEPT !.length = k, !.head = q.head, !.tail = q.tail, !.elements = f]
  BY DEF DequeType
<1>2. r = [q EXCEPT !.length = k, !.head = q.head, !.tail = q.tail, !.elements = e]
  BY <1>1 DEF DequeType
<1> QED BY <1>2

LEMMA SetAddrFacts ==
    ASSUME NEW e \in Seq(Element), NEW x \in 1..Len(e), NEW y \in Nat
    PROVE  LET f == SetAddr(e, x, y)
           IN  /\ f \in Seq(Element) /\ Len(f) = Len(e)
               /\ \A z \in 1..Len(e) :
                     /\ f[z].addr = (IF z = x THEN y ELSE e[z].addr) /\ f[z].prev = e[z].prev
                     /\ f[z].next = e[z].next /\ f[z].value = e[z].value
<1> DEFINE new == [e[x] EXCEPT !.addr = y]
           f == SetAddr(e, x, y)
<1>1. e[x] \in Element
  OBVIOUS
<1>2. /\ new \in Element /\ new.addr = y /\ new.prev = e[x].prev
      /\ new.next = e[x].next /\ new.value = e[x].value
  BY <1>1 DEF Element
<1>3. f = [e EXCEPT ![x] = new]
  BY DEF SetAddr
<1> HIDE DEF new, f
<1>4. /\ f \in Seq(Element) /\ Len(f) = Len(e) /\ f[x] = new
      /\ \A z \in 1..Len(e) : z # x => f[z] = e[z]
  BY <1>2, <1>3, SetSlot
<1> QED BY <1>2, <1>4 DEF f

LEMMA SetValueFacts ==
    ASSUME NEW e \in Seq(Element), NEW x \in 1..Len(e), NEW y \in Values \cup {NoValue}
    PROVE  LET f == SetValue(e, x, y)
           IN  /\ f \in Seq(Element) /\ Len(f) = Len(e)
               /\ \A z \in 1..Len(e) :
                     /\ f[z].value = (IF z = x THEN y ELSE e[z].value) /\ f[z].prev = e[z].prev
                     /\ f[z].next = e[z].next /\ f[z].addr = e[z].addr
<1> DEFINE new == [e[x] EXCEPT !.value = y]
           f == SetValue(e, x, y)
<1>1. e[x] \in Element
  OBVIOUS
<1>2. /\ new \in Element /\ new.value = y /\ new.prev = e[x].prev
      /\ new.next = e[x].next /\ new.addr = e[x].addr
  BY <1>1 DEF Element
<1>3. f = [e EXCEPT ![x] = new]
  BY DEF SetValue
<1> HIDE DEF new, f
<1>4. /\ f \in Seq(Element) /\ Len(f) = Len(e) /\ f[x] = new
      /\ \A z \in 1..Len(e) : z # x => f[z] = e[z]
  BY <1>2, <1>3, SetSlot
<1> QED BY <1>2, <1>4 DEF f

-----------------------------------------------------------------------------
(* Rep under the parts that operations are made of. *)

LEMMA RepTypes ==
    ASSUME NEW q, NEW w, NEW a, Rep(q, w, a)
    PROVE  /\ q.length \in Nat /\ q.head \in Nat /\ q.tail \in Nat /\ q.stack \in Seq(Nat)
           /\ q.elements \in Seq(Element) /\ Len(q.stack) \in Nat /\ Len(q.elements) \in Nat
           /\ \A x \in Slots(q) : q.elements[x] \in Element /\ x \in Nat /\ x # Nil
           /\ \A i \in 1..q.length : w[i] \in Slots(q)
<1>1. q \in DequeType /\ w \in [1..q.length -> Slots(q)]
  BY DEF Rep
<1>2. /\ q.length \in Nat /\ q.head \in Nat /\ q.tail \in Nat /\ q.stack \in Seq(Nat)
      /\ q.elements \in Seq(Element)
  BY <1>1 DEF DequeType
<1>3. Len(q.stack) \in Nat /\ Len(q.elements) \in Nat
  BY <1>2
<1>4. \A x \in Slots(q) : q.elements[x] \in Element /\ x \in Nat /\ x # Nil
  BY <1>2 DEF Slots, Nil
<1> QED BY <1>1, <1>2, <1>3, <1>4

(* r has the slots of q, with what they hold but for their links. *)
SameSlots(q, r) ==
    /\ r \in DequeType /\ r.stack = q.stack /\ Len(r.elements) = Len(q.elements)
    /\ \A x \in Slots(q) : r.elements[x].addr = q.elements[x].addr /\ r.elements[x].value = q.elements[x].value

LEMMA StackKept ==
    ASSUME NEW q, NEW r, NEW w, NEW a, Rep(q, w, a), SameSlots(q, r),
           \A j \in 1..Len(q.stack) : /\ r.elements[q.stack[j]].next = q.elements[q.stack[j]].next
                                      /\ r.elements[q.stack[j]].prev = q.elements[q.stack[j]].prev
    PROVE  \A j \in 1..Len(r.stack) : r.elements[r.stack[j]] = Template
<1> SUFFICES ASSUME NEW j \in 1..Len(q.stack) PROVE r.elements[q.stack[j]] = Template
  BY DEF SameSlots
<1> DEFINE x == q.stack[j]
<1>1. x \in Slots(q) /\ q.elements[x] = Template
  BY DEF Rep, Filled
<1>2. r.elements[x] \in Element
  <2>1. r.elements \in Seq(Element) /\ x \in 1..Len(r.elements)
    BY <1>1 DEF SameSlots, DequeType, Slots
  <2> QED BY <2>1
<1>3. /\ r.elements[x].next = Nil /\ r.elements[x].prev = Nil /\ r.elements[x].addr = Nil
      /\ r.elements[x].value = NoValue
  BY <1>1 DEF SameSlots, Template
<1> QED BY <1>2, <1>3 DEF Element, Template

LEMMA LinkRep ==
    ASSUME NEW q, NEW r, NEW w, NEW a, Rep(q, w, a), a # Nil, NEW p \in 0..q.length,
           LinkedIn(q, r, a, Before(w, p), After(w, q.length, p)), SameSlots(q, r), r.length = q.length + 1
    PROVE  Rep(r, Ins(w, q.length, p, a), Nil)
<1> DEFINE n == q.length
           v == Ins(w, n, p, a)
<1>0. /\ n \in Nat /\ p \in Nat /\ p <= n /\ r.length = n + 1
      /\ Slots(r) = Slots(q) /\ a \in Slots(q) /\ r \in DequeType /\ r.stack = q.stack
      /\ w \in [1..n -> Slots(q)]
  BY RepTypes DEF Rep, SameSlots, Slots
<1>1. /\ \A i \in 1..p : v[i] = w[i]
      /\ v[p + 1] = a
      /\ \A i \in (p + 1)..n : v[i + 1] = w[i]
      /\ v \in [1..(n + 1) -> Slots(q)]
  BY <1>0 DEF Ins
<1>2. Linked(r, v, n + 1)
  BY <1>0, InsLinked DEF Rep, Apart
<1> HIDE DEF v
<1>3. \A k \in 1..(n + 1) : (k = p + 1 /\ v[k] = a) \/ (\E i \in 1..n : v[k] = w[i] /\ k = (IF i <= p THEN i ELSE i + 1))
  <2> SUFFICES ASSUME NEW k \in 1..(n + 1), k # p + 1
               PROVE  \E i \in 1..n : v[k] = w[i] /\ k = (IF i <= p THEN i ELSE i + 1)
    BY <1>1
  <2>1. CASE k <= p
    BY <1>0, <1>1, <2>1
  <2>2. CASE k > p
    <3>1. k - 1 \in (p + 1)..n /\ (k - 1) + 1 = k /\ k - 1 \in 1..n /\ ~ (k - 1 <= p)
      BY <1>0, <2>2
    <3>2. v[(k - 1) + 1] = w[k - 1]
      BY <1>1, <3>1
    <3> QED BY <3>1, <3>2
  <2> QED BY <1>0, <2>1, <2>2
<1>4. Apart(r, v, Nil)
  <2>1. \A i, j \in 1..(n + 1) : v[i] = v[j] => i = j
    BY <1>3 DEF Rep, Apart
  <2>2. \A i \in 1..(n + 1), j \in 1..Len(q.stack) : v[i] # q.stack[j]
    BY <1>3 DEF Rep, Apart
  <2>3. \A x \in Slots(q) : x # Nil
    BY RepTypes
  <2>4. \A j \in 1..Len(q.stack) : q.stack[j] # Nil
    BY <2>3 DEF Rep
  <2>5. \A i \in 1..(n + 1) : v[i] # Nil
    BY <1>1, <2>3
  <2>6. \A i, j \in 1..Len(q.stack) : q.stack[i] = q.stack[j] => i = j
    BY DEF Rep, Apart
  <2> QED BY <1>0, <2>1, <2>2, <2>4, <2>5, <2>6 DEF Apart
<1>5. Covered(r, v, Nil)
  <2>1. \E k \in 1..(n + 1) : v[k] = a
    BY <1>0, <1>1
  <2>2. ASSUME NEW i \in 1..n PROVE \E k \in 1..(n + 1) : v[k] = w[i]
    BY <1>0, <1>1
  <2>3. \A x \in Slots(q) : \/ x = a \/ \E i \in 1..n : w[i] = x
                            \/ \E j \in 1..Len(q.stack) : q.stack[j] = x
    BY DEF Rep, Covered
  <2> HIDE DEF n
  <2> QED BY <1>0, <2>1, <2>2, <2>3 DEF Covered
<1>6. Filled(r, v, Nil)
  <2>1. \A k \in 1..(n + 1) : q.elements[v[k]].addr = v[k]
    BY <1>3 DEF Rep, Filled
  <2>2. \A j \in 1..Len(r.stack) : r.elements[r.stack[j]] = Template
    <3>1. ASSUME NEW j \in 1..Len(q.stack)
          PROVE  /\ r.elements[q.stack[j]].next = q.elements[q.stack[j]].next
                 /\ r.elements[q.stack[j]].prev = q.elements[q.stack[j]].prev
      <4>1. q.stack[j] \in Slots(q) \ {a} /\ q.stack[j] # Nil
        BY RepTypes DEF Rep, Apart
      <4>2. q.stack[j] # Before(w, p) /\ q.stack[j] # After(w, n, p)
        BY <1>0, <4>1 DEF Rep, Apart, Before, After
      <4> QED BY <4>1, <4>2 DEF LinkedIn
    <3> QED BY <3>1, StackKept
  <2> QED BY <1>1, <2>1, <2>2 DEF Filled, SameSlots
<1>7. r.length + Len(r.stack) + 0 = Len(r.elements)
  BY RepTypes DEF Rep, SameSlots
<1> QED BY <1>0, <1>1, <1>2, <1>4, <1>5, <1>6, <1>7 DEF Rep, v

LEMMA UnlinkRep ==
    ASSUME NEW q, NEW r, NEW w, Rep(q, w, Nil), NEW p \in 1..q.length,
           LinkedOut(q, r, w[p], Before(w, p - 1), After(w, q.length, p)), SameSlots(q, r), r.length = q.length - 1
    PROVE  Rep(r, Del(w, q.length, p), w[p])
<1> DEFINE n == q.length
           v == Del(w, n, p)
           a == w[p]
<1>0. /\ n \in Nat /\ p \in Nat /\ p >= 1 /\ p <= n /\ r.length = n - 1
      /\ Slots(r) = Slots(q) /\ a \in Slots(q) /\ a # Nil /\ r \in DequeType /\ r.stack = q.stack
      /\ w \in [1..n -> Slots(q)]
  BY RepTypes DEF Rep, SameSlots, Slots
<1>1. /\ \A i \in 1..(p - 1) : v[i] = w[i]
      /\ \A i \in p..(n - 1) : v[i] = w[i + 1]
      /\ v \in [1..(n - 1) -> Slots(q)]
  BY <1>0 DEF Del
<1>2. Linked(r, v, n - 1)
  BY <1>0, DelLinked DEF Rep, Apart
<1> HIDE DEF v
<1>3. \A k \in 1..(n - 1) : \E i \in 1..n : v[k] = w[i] /\ i # p /\ i = (IF k < p THEN k ELSE k + 1)
  BY <1>0, <1>1
<1>4. Apart(r, v, a)
  <2>1. \A i, j \in 1..(n - 1) : v[i] = v[j] => i = j
    BY <1>3 DEF Rep, Apart
  <2>2. \A i \in 1..(n - 1), j \in 1..Len(q.stack) : v[i] # q.stack[j]
    BY <1>3 DEF Rep, Apart
  <2>3. \A i \in 1..(n - 1) : v[i] # a
    BY <1>3 DEF Rep, Apart
  <2> QED BY <1>0, <2>1, <2>2, <2>3 DEF Rep, Apart
<1>5. Covered(r, v, a)
  <2>1. ASSUME NEW i \in 1..n, i # p PROVE \E k \in 1..(n - 1) : v[k] = w[i]
    <3>1. CASE i < p
      BY <1>0, <1>1, <3>1
    <3>2. CASE i > p
      <4>1. i - 1 \in p..(n - 1) /\ v[i - 1] = w[(i - 1) + 1] /\ (i - 1) + 1 = i
        BY <1>0, <1>1, <3>2
      <4> QED BY <4>1
    <3> QED BY <2>1, <3>1, <3>2
  <2>2. ASSUME NEW x \in Slots(q), x # a
        PROVE  (\E k \in 1..(n - 1) : v[k] = x) \/ (\E j \in 1..Len(q.stack) : q.stack[j] = x)
    <3>1. x # Nil
      BY RepTypes
    <3>2. CASE \E i \in 1..n : w[i] = x
      BY <2>1, <2>2, <3>2
    <3> QED BY <3>1, <3>2 DEF Rep, Covered
  <2> QED BY <1>0, <2>2 DEF Covered
<1>6. Filled(r, v, a)
  <2>1. (\A k \in 1..(n - 1) : q.elements[v[k]].addr = v[k]) /\ q.elements[a].addr = a
    BY <1>3 DEF Rep, Filled
  <2>2. \A j \in 1..Len(r.stack) : r.elements[r.stack[j]] = Template
    <3>1. ASSUME NEW j \in 1..Len(q.stack)
          PROVE  /\ r.elements[q.stack[j]].next = q.elements[q.stack[j]].next
                 /\ r.elements[q.stack[j]].prev = q.elements[q.stack[j]].prev
      <4>1. q.stack[j] \in Slots(q) \ {a} /\ q.stack[j] # Nil
        BY RepTypes DEF Rep, Apart
      <4>2. q.stack[j] # Before(w, p - 1) /\ q.stack[j] # After(w, n, p)
        BY <1>0, <4>1 DEF Rep, Apart, Before, After
      <4> QED BY <4>1, <4>2 DEF LinkedOut
    <3> QED BY <3>1, StackKept
  <2> QED BY <1>0, <1>1, <2>1, <2>2 DEF Filled, SameSlots
<1>7. r.length + Len(r.stack) + 1 = Len(r.elements)
  BY RepTypes DEF Rep, SameSlots
<1> QED BY <1>0, <1>1, <1>2, <1>4, <1>5, <1>6, <1>7 DEF Rep, v

(* r is q but for the links of the slot in hand. *)
LEMMA HandRep ==
    ASSUME NEW q, NEW r, NEW w, NEW a, Rep(q, w, a), a # Nil, SameSlots(q, r),
           r.length = q.length, r.head = q.head, r.tail = q.tail,
           \A x \in Slots(q) \ {a} : /\ r.elements[x].next = q.elements[x].next
                                    /\ r.elements[x].prev = q.elements[x].prev
    PROVE  Rep(r, w, a)
<1>0. /\ Slots(r) = Slots(q) /\ r \in DequeType /\ r.stack = q.stack /\ w \in [1..q.length -> Slots(q)]
      /\ \A i \in 1..q.length : w[i] \in Slots(q) \ {a}
  BY DEF Rep, SameSlots, Slots, Apart
<1>1. Linked(r, w, r.length)
  BY <1>0 DEF Rep, Linked
<1>2. Apart(r, w, a) /\ Covered(r, w, a)
  BY <1>0 DEF Rep, Apart, Covered
<1>3. Filled(r, w, a)
  <2>1. \A j \in 1..Len(q.stack) : q.stack[j] \in Slots(q) \ {a}
    BY DEF Rep, Apart
  <2>2. \A j \in 1..Len(r.stack) : r.elements[r.stack[j]] = Template
    BY <2>1, StackKept
  <2> QED BY <1>0, <2>2 DEF Rep, Filled, SameSlots
<1> QED BY <1>0, <1>1, <1>2, <1>3 DEF Rep, SameSlots

(* A slot in use for value v, not linked yet. *)
Fresh(q, a, v) ==
    q.elements[a].prev = Nil /\ q.elements[a].next = Nil /\ q.elements[a].value = v

LEMMA PrefixIs ==
    ASSUME NEW S, NEW s \in Seq(S), NEW k \in Nat, k <= Len(s)
    PROVE  /\ SubSeq(s, 1, k) \in Seq(S) /\ Len(SubSeq(s, 1, k)) = k
           /\ \A j \in 1..k : SubSeq(s, 1, k)[j] = s[j]
OBVIOUS

LEMMA GetRep ==
    ASSUME NEW q, NEW w, Rep(q, w, Nil), Small(q), q.length < MaxLen, NEW v \in Values
    PROVE  LET g == GetElement(q, v)
               a == NewAddr(q)
           IN  /\ Rep(g, w, a) /\ Small(g) /\ Fresh(g, a, v) /\ a \in Pointers /\ a # Nil
               /\ \A i \in 1..q.length : w[i] # a /\ g.elements[w[i]] = q.elements[w[i]]
               /\ g.length = q.length /\ g.head = q.head /\ g.tail = q.tail
<1> DEFINE g == GetElement(q, v)
           a == NewAddr(q)
           m == Len(q.stack)
           n == q.length
           N == Len(q.elements)
<1>0. /\ n \in Nat /\ m \in Nat /\ N \in Nat /\ n + m = N /\ MaxLen \in Nat /\ N <= MaxLen
      /\ q.stack \in Seq(Nat) /\ q.elements \in Seq(Element) /\ q \in DequeType
      /\ w \in [1..n -> Slots(q)] /\ (\A i \in 1..n : w[i] \in Slots(q))
      /\ q.head \in Nat /\ q.tail \in Nat /\ v \in Values \cup {NoValue}
  BY RepTypes, DequeAssumption DEF Rep, Small, Nil
<1>u1. \A j \in 1..m : q.stack[j] \in Slots(q) /\ q.elements[q.stack[j]] = Template
  BY DEF Rep, Filled
<1>u2. \A i, j \in 1..m : q.stack[i] = q.stack[j] => i = j
  BY DEF Rep, Apart
<1>u3. \A i \in 1..n, j \in 1..m : w[i] # q.stack[j]
  BY DEF Rep, Apart
<1>u4. \A x \in Slots(q) : x \in Nat /\ x # Nil /\ x <= N
  BY RepTypes DEF Slots
<1>u5. \A x \in Slots(q) : (\E i \in 1..n : w[i] = x) \/ (\E j \in 1..m : q.stack[j] = x)
  BY <1>u4 DEF Rep, Covered
<1>1. CASE q.stack # <<>>
  <2>0. m >= 1 /\ m \in 1..m /\ (\A j \in 1..(m - 1) : j \in 1..m /\ j # m) /\ (\A j \in 1..m : j # m => j \in 1..(m - 1))
    <3>1. m # 0
      BY <1>0, <1>1
    <3> HIDE DEF m
    <3> QED BY <1>0, <3>1
  <2>1. m >= 1 /\ a = q.stack[m]
    BY <1>0, <1>1 DEF NewAddr
  <2>2. a \in Slots(q) /\ q.elements[a] = Template /\ a \in Nat /\ a # Nil
    <3> HIDE DEF m, a
    <3> QED BY <1>u1, <1>u4, <2>0, <2>1
  <2> DEFINE s == SubSeq(q.stack, 1, m - 1)
             e == SetValue(SetAddr(q.elements, a, a), a, v)
  <2>3. /\ g.stack = s /\ g.elements = e /\ g.length = n /\ g.head = q.head /\ g.tail = q.tail
        /\ g = [q EXCEPT !.stack = s, !.elements = e]
    <3>1. g = [q EXCEPT !.stack = s, !.elements = e]
      BY <1>0, <1>1 DEF GetElement, SetValue, SetAddr, DequeType
    <3> HIDE DEF g, s, e, a
    <3> QED BY <1>0, <3>1 DEF DequeType
  <2>4. s \in Seq(Nat) /\ Len(s) = m - 1 /\ \A j \in 1..(m - 1) : s[j] = q.stack[j]
    <3>1. m - 1 \in Nat /\ m - 1 <= Len(q.stack)
      BY <1>0, <2>0
    <3> DEFINE k == m - 1
    <3>2. ASSUME NEW j \in 1..k PROVE j \in 1..Len(q.stack)
      BY <3>1
    <3> HIDE DEF k
    <3>3. k \in Nat /\ k <= Len(q.stack)
      BY <3>1 DEF k
    <3>4. /\ SubSeq(q.stack, 1, k) \in Seq(Nat) /\ Len(SubSeq(q.stack, 1, k)) = k
          /\ \A j \in 1..k : SubSeq(q.stack, 1, k)[j] = q.stack[j]
      <4>1. q.stack \in Seq(Nat) /\ k \in Nat /\ k <= Len(q.stack)
        BY <1>0, <3>3
      <4> QED BY ONLY <4>1, PrefixIs
    <3> QED BY <3>4 DEF k
  <2>5. /\ e \in Seq(Element) /\ Len(e) = N
        /\ \A z \in 1..N : /\ e[z].prev = q.elements[z].prev /\ e[z].next = q.elements[z].next
                          /\ e[z].addr = (IF z = a THEN a ELSE q.elements[z].addr)
                          /\ e[z].value = (IF z = a THEN v ELSE q.elements[z].value)
    <3> DEFINE e1 == SetAddr(q.elements, a, a)
    <3>1. /\ e1 \in Seq(Element) /\ Len(e1) = N
          /\ \A z \in 1..N : /\ e1[z].prev = q.elements[z].prev /\ e1[z].next = q.elements[z].next
                            /\ e1[z].addr = (IF z = a THEN a ELSE q.elements[z].addr)
                            /\ e1[z].value = q.elements[z].value
      <4>1. a \in 1..Len(q.elements) /\ a \in Nat /\ q.elements \in Seq(Element)
        BY <1>0, <2>2 DEF Slots
      <4> HIDE DEF a, e1
      <4>2. e1 = SetAddr(q.elements, a, a)
        BY DEF e1
      <4>3. /\ e1 \in Seq(Element) /\ Len(e1) = Len(q.elements)
            /\ \A z \in 1..Len(q.elements) :
                  /\ e1[z].addr = (IF z = a THEN a ELSE q.elements[z].addr)
                  /\ e1[z].prev = q.elements[z].prev
                  /\ e1[z].next = q.elements[z].next /\ e1[z].value = q.elements[z].value
        BY ONLY <4>1, <4>2, SetAddrFacts
      <4> QED BY <4>3
    <3>2. a \in 1..Len(e1) /\ Len(e1) = Len(q.elements)
      BY <2>2, <3>1 DEF Slots
    <3>3. e = SetValue(e1, a, v)
      OBVIOUS
    <3> HIDE DEF a, e1, e
    <3>4. /\ e \in Seq(Element) /\ Len(e) = N
          /\ \A z \in 1..N : /\ e[z].prev = e1[z].prev /\ e[z].next = e1[z].next
                            /\ e[z].addr = e1[z].addr /\ e[z].value = (IF z = a THEN v ELSE e1[z].value)
      <4>1. /\ SetValue(e1, a, v) \in Seq(Element) /\ Len(SetValue(e1, a, v)) = Len(e1)
            /\ \A z \in 1..Len(e1) :
                  /\ SetValue(e1, a, v)[z].value = (IF z = a THEN v ELSE e1[z].value)
                  /\ SetValue(e1, a, v)[z].prev = e1[z].prev /\ SetValue(e1, a, v)[z].next = e1[z].next
                  /\ SetValue(e1, a, v)[z].addr = e1[z].addr
        <5>1. e1 \in Seq(Element) /\ a \in 1..Len(e1) /\ v \in Values \cup {NoValue}
          BY <1>0, <3>1, <3>2
        <5> QED BY ONLY <5>1, SetValueFacts
      <4> HIDE DEF N
      <4> QED BY <3>1, <3>3, <4>1
    <3> QED BY <3>1, <3>4
  <2>6. \A z \in 1..N : z # a => e[z] = q.elements[z]
    <3> SUFFICES ASSUME NEW z \in 1..N, z # a PROVE e[z] = q.elements[z]
      OBVIOUS
    <3>1. e[z] \in Element /\ q.elements[z] \in Element
      BY <1>0, <2>5
    <3>2. e[z].prev = q.elements[z].prev /\ e[z].next = q.elements[z].next
          /\ e[z].addr = q.elements[z].addr /\ e[z].value = q.elements[z].value
      BY <2>5
    <3> HIDE DEF e
    <3> QED BY <3>1, <3>2 DEF Element
  <2>7. g \in DequeType
    BY <1>0, <2>3, <2>4, <2>5 DEF DequeType
  <2> HIDE DEF s, e, g
  <2>8. Slots(g) = Slots(q) /\ Len(g.stack) = m - 1 /\ Len(g.elements) = N
    BY <2>3, <2>4, <2>5 DEF Slots
  <2>9. \A i \in 1..n : w[i] # a
    BY <1>u3, <2>0, <2>1
  <2>10. \A i \in 1..n : g.elements[w[i]] = q.elements[w[i]]
    BY <1>0, <2>3, <2>6, <2>9 DEF Slots
  <2>11. \A j \in 1..(m - 1) : g.stack[j] = q.stack[j] /\ q.stack[j] # a /\ q.stack[j] \in Slots(q)
    <3> HIDE DEF m, a
    <3> QED BY <1>u1, <1>u2, <2>0, <2>1, <2>3, <2>4
  <2>12. Linked(g, w, n)
    BY <2>3, <2>10 DEF Rep, Linked
  <2>13. Apart(g, w, a)
    <3>1. \A i, j \in 1..(m - 1) : g.stack[i] = g.stack[j] => i = j
      BY <1>u2, <2>0, <2>11
    <3>2. \A i \in 1..n, j \in 1..(m - 1) : w[i] # g.stack[j]
      BY <1>u3, <2>0, <2>11
    <3>3. \A i, j \in 1..n : w[i] = w[j] => i = j
      BY DEF Rep, Apart
    <3> QED BY <2>3, <2>8, <2>9, <2>11, <3>1, <3>2, <3>3 DEF Apart
  <2>14. Covered(g, w, a)
    <3> SUFFICES ASSUME NEW x \in Slots(q), x # a, \A i \in 1..n : w[i] # x
                 PROVE  \E j \in 1..(m - 1) : g.stack[j] = x
      BY <2>3, <2>8 DEF Covered
    <3>2. PICK j \in 1..m : q.stack[j] = x
      BY <1>u5
    <3>3. j \in 1..(m - 1)
      BY <2>0, <2>1, <3>2
    <3> QED BY <2>11, <3>2, <3>3
  <2>15. Filled(g, w, a)
    <3>1. g.elements[a].addr = a
      BY <2>2, <2>3, <2>5 DEF Slots
    <3>2. \A j \in 1..(m - 1) : g.elements[g.stack[j]] = Template
      BY <1>u1, <2>0, <2>3, <2>6, <2>11 DEF Slots
    <3> QED BY <2>3, <2>8, <2>10, <3>1, <3>2 DEF Rep, Filled
  <2>16. Fresh(g, a, v)
    BY <2>2, <2>3, <2>5 DEF Fresh, Template, Slots
  <2>17. a \in Pointers
    BY <1>0, <2>2 DEF Pointers, Slots
  <2>18. g.length + Len(g.stack) + 1 = Len(g.elements)
    <3> HIDE DEF n, m, N, g
    <3> QED BY <1>0, <2>3, <2>8
  <2>19. Rep(g, w, a)
    BY <1>0, <2>2, <2>3, <2>7, <2>8, <2>11, <2>12, <2>13, <2>14, <2>15, <2>18 DEF Rep
  <2> QED BY <1>0, <2>2, <2>3, <2>8, <2>9, <2>10, <2>16, <2>17, <2>19 DEF Small, g
<1>2. CASE q.stack = <<>>
  <2>1. m = 0 /\ a = N + 1 /\ a \in Nat /\ a # Nil /\ a <= MaxLen
    BY <1>0, <1>2 DEF NewAddr, Nil
  <2> DEFINE new == [Template EXCEPT !.addr = a, !.value = v]
             e == Append(q.elements, new)
  <2>2. /\ g.stack = q.stack /\ g.elements = e /\ g.length = n /\ g.head = q.head /\ g.tail = q.tail
        /\ g = [q EXCEPT !.elements = e]
    BY <1>0, <1>2 DEF GetElement, DequeType
  <2>3. new \in Element /\ new.addr = a /\ new.value = v /\ new.prev = Nil /\ new.next = Nil
    BY <1>0, <2>1 DEF Element, Template, Nil
  <2> HIDE DEF new
  <2>4. e \in Seq(Element) /\ Len(e) = N + 1 /\ e[a] = new /\ \A z \in 1..N : e[z] = q.elements[z]
    BY <1>0, <2>1, <2>3
  <2>5. g \in DequeType
    BY <1>0, <2>2, <2>4 DEF DequeType
  <2> HIDE DEF e, g
  <2>6. Slots(g) = Slots(q) \cup {a} /\ a \notin Slots(q) /\ Len(g.stack) = 0 /\ Len(g.elements) = N + 1
    BY <1>0, <2>1, <2>2, <2>4 DEF Slots
  <2>7. \A i \in 1..n : w[i] # a /\ g.elements[w[i]] = q.elements[w[i]]
    BY <1>0, <2>2, <2>4, <2>6 DEF Slots
  <2>8. Linked(g, w, n)
    BY <2>2, <2>7 DEF Rep, Linked
  <2>9. Apart(g, w, a) /\ \A j \in 1..Len(g.stack) : g.stack[j] \in Slots(g)
    BY <2>2, <2>6, <2>7 DEF Rep, Apart
  <2>10. Covered(g, w, a)
    <3>1. \A x \in Slots(q) : \E i \in 1..n : w[i] = x
      <4>1. \A j \in 1..m : FALSE
        BY <2>1
      <4> QED BY <1>u5, <4>1
    <3> QED BY <2>2, <2>6, <3>1 DEF Covered
  <2>11. Filled(g, w, a)
    BY <2>2, <2>3, <2>4, <2>6, <2>7 DEF Rep, Filled
  <2>12. Fresh(g, a, v)
    BY <2>2, <2>3, <2>4 DEF Fresh
  <2>13. w \in [1..n -> Slots(g)]
    BY <1>0, <2>6
  <2>14. g.length + Len(g.stack) + 1 = Len(g.elements)
    BY <1>0, <2>1, <2>2, <2>6
  <2>15. Rep(g, w, a)
    BY <2>1, <2>2, <2>5, <2>6, <2>8, <2>9, <2>10, <2>11, <2>13, <2>14 DEF Rep
  <2>16. Small(g) /\ a \in Pointers
    BY <1>0, <2>1, <2>6 DEF Small, Pointers
  <2> QED BY <2>1, <2>2, <2>7, <2>12, <2>15, <2>16 DEF g
<1> QED BY <1>1, <1>2

LEMMA PutRep ==
    ASSUME NEW q, NEW w, NEW a, Rep(q, w, a), a # Nil, Small(q), NEW r, r = PutElement(q, a)
    PROVE  /\ Rep(r, w, Nil) /\ Small(r) /\ r.length = q.length
           /\ \A i \in 1..q.length : r.elements[w[i]] = q.elements[w[i]]
<1> DEFINE m == Len(q.stack)
           n == q.length
           s == Append(q.stack, a)
           e == [q.elements EXCEPT ![a] = Template]
<1>0. /\ n \in Nat /\ m \in Nat /\ q.stack \in Seq(Nat) /\ q.elements \in Seq(Element) /\ q \in DequeType
      /\ w \in [1..n -> Slots(q)] /\ (\A i \in 1..n : w[i] \in Slots(q)) /\ a \in Slots(q) /\ a \in Nat
      /\ q.elements[a].addr = a
  BY RepTypes DEF Rep, Filled
<1>1. /\ r.stack = s /\ r.elements = e /\ r.length = n /\ r.head = q.head /\ r.tail = q.tail
      /\ r = [q EXCEPT !.stack = s, !.elements = e]
  BY <1>0 DEF PutElement, DequeType
<1>2. s \in Seq(Nat) /\ Len(s) = m + 1 /\ s[m + 1] = a /\ \A j \in 1..m : s[j] = q.stack[j]
  BY <1>0
<1>3. Template \in Element
  BY DEF Template, Element, Nil
<1>4. /\ e \in Seq(Element) /\ Len(e) = Len(q.elements) /\ e[a] = Template
      /\ \A z \in 1..Len(q.elements) : z # a => e[z] = q.elements[z]
  BY <1>0, <1>3, SetSlot DEF Slots
<1>5. r \in DequeType
  BY <1>0, <1>1, <1>2, <1>4 DEF DequeType
<1> HIDE DEF s, e
<1>6. Slots(r) = Slots(q) /\ Len(r.stack) = m + 1 /\ Len(r.elements) = Len(q.elements)
  BY <1>1, <1>2, <1>4 DEF Slots
<1>7. \A i \in 1..n : w[i] # a /\ w[i] # Nil /\ r.elements[w[i]] = q.elements[w[i]]
  BY <1>0, <1>1, <1>4, RepTypes DEF Rep, Apart, Slots
<1>8. \A j \in 1..m : r.stack[j] = q.stack[j] /\ q.stack[j] \in Slots(q) /\ q.stack[j] # a /\ q.stack[j] # Nil
  <2>1. \A j \in 1..m : q.stack[j] \in Slots(q) /\ q.stack[j] # a
    BY DEF Rep, Apart
  <2>2. \A j \in 1..m : q.stack[j] # Nil
    BY <2>1, RepTypes
  <2> QED BY <1>1, <1>2, <2>1, <2>2
<1>9. r.stack[m + 1] = a /\ \A j \in 1..(m + 1) : j \in 1..m \/ j = m + 1
  BY <1>0, <1>1, <1>2
<1>10. Linked(r, w, n)
  BY <1>1, <1>7 DEF Rep, Linked
<1>11. Apart(r, w, Nil)
  <2>1. \A i, j \in 1..(m + 1) : r.stack[i] = r.stack[j] => i = j
    BY <1>8, <1>9 DEF Rep, Apart
  <2>2. \A i \in 1..n, j \in 1..(m + 1) : w[i] # r.stack[j]
    BY <1>7, <1>8, <1>9 DEF Rep, Apart
  <2>3. \A j \in 1..(m + 1) : r.stack[j] # Nil
    BY <1>8, <1>9
  <2> QED BY <1>1, <1>6, <1>7, <2>1, <2>2, <2>3 DEF Rep, Apart
<1>12. Covered(r, w, Nil)
  <2>1. m + 1 \in 1..(m + 1) /\ \A j \in 1..m : j \in 1..(m + 1)
    BY <1>0
  <2> QED BY <1>1, <1>6, <1>8, <1>9, <2>1 DEF Rep, Covered
<1>13. Filled(r, w, Nil)
  <2>1. \A j \in 1..(m + 1) : r.elements[r.stack[j]] = Template
    BY <1>1, <1>4, <1>8, <1>9 DEF Rep, Filled, Slots
  <2> QED BY <1>1, <1>6, <1>7, <2>1 DEF Rep, Filled
<1>14. \A j \in 1..(m + 1) : r.stack[j] \in Slots(q)
  BY <1>0, <1>8, <1>9
<1>15. r.length + Len(r.stack) + 0 = Len(r.elements)
  <2>1. n + m + 1 = Len(q.elements)
    BY DEF Rep
  <2> HIDE DEF n, m
  <2> QED BY <1>0, <1>1, <1>6, <2>1
<1>16. Rep(r, w, Nil)
  BY <1>0, <1>1, <1>5, <1>6, <1>10, <1>11, <1>12, <1>13, <1>14, <1>15 DEF Rep
<1>17. Small(r)
  BY <1>6 DEF Small
<1> QED BY <1>1, <1>7, <1>16, <1>17

LEMMA AutoResetRep == Rep(AutoReset, <<>>, Nil) /\ Small(AutoReset)
<1>1. AutoReset \in DequeType
  BY DEF AutoReset, DequeType, Nil
<1>2. /\ AutoReset.length = 0 /\ AutoReset.stack = <<>> /\ AutoReset.elements = <<>>
      /\ AutoReset.head = Nil /\ AutoReset.tail = Nil
  BY DEF AutoReset
<1>3. <<>> \in [1..0 -> Slots(AutoReset)]
  OBVIOUS
<1> QED BY <1>1, <1>2, <1>3, DequeAssumption DEF Rep, Small, Linked, Apart, Covered, Filled, Slots, Nil
-----------------------------------------------------------------------------
(* What the operations do to the links. *)

(* r is q with its length, its ends and the slots' links set anew. *)
Relinks(q, r, l, h, t, e) ==
    /\ r = [q EXCEPT !.length = l, !.head = h, !.tail = t, !.elements = e]
    /\ l \in Nat /\ h \in Nat /\ t \in Nat /\ e \in Seq(Element) /\ Len(e) = Len(q.elements)
    /\ \A x \in Slots(q) : e[x].addr = q.elements[x].addr /\ e[x].value = q.elements[x].value

LEMMA Relinked ==
    ASSUME NEW q \in DequeType, NEW r, NEW l, NEW h, NEW t, NEW e, Relinks(q, r, l, h, t, e)
    PROVE  /\ SameSlots(q, r)
           /\ r.length = l /\ r.head = h /\ r.tail = t /\ r.elements = e
<1>1. r \in DequeType /\ r.stack = q.stack /\ r.length = l /\ r.head = h /\ r.tail = t /\ r.elements = e
  BY DEF DequeType, Relinks
<1> QED BY <1>1 DEF SameSlots, Relinks

(* The slots of q, the links of slot k among them, and its ends. *)
LEMMA RepLinks ==
    ASSUME NEW q, NEW w, NEW a, Rep(q, w, a)
    PROVE  /\ q \in DequeType /\ q.length \in Nat /\ q.head \in Nat /\ q.tail \in Nat /\ Nil \in Nat
           /\ q.elements \in Seq(Element)
           /\ \A x \in Slots(q) : x \in 1..Len(q.elements) /\ x \in Nat /\ x # Nil
           /\ \A k \in 1..q.length : /\ w[k] \in Slots(q) /\ w[k] # a
                                     /\ q.elements[w[k]].next = After(w, q.length, k)
                                     /\ q.elements[w[k]].prev = Before(w, k - 1)
           /\ \A k \in 0..q.length : /\ Before(w, k) \in Nat /\ After(w, q.length, k) \in Nat
                                     /\ Before(w, k) # Nil => Before(w, k) \in Slots(q) \ {a}
                                     /\ After(w, q.length, k) # Nil => After(w, q.length, k) \in Slots(q) \ {a}
           /\ q.head = After(w, q.length, 0) /\ q.tail = Before(w, q.length)
           /\ (q.head = Nil <=> q.length = 0) /\ (q.tail = Nil <=> q.length = 0)
<1> DEFINE n == q.length
<1>1. /\ q \in DequeType /\ n \in Nat /\ q.head \in Nat /\ q.tail \in Nat /\ Nil \in Nat
      /\ q.elements \in Seq(Element)
  BY RepTypes DEF Rep, Nil
<1>2. \A x \in Slots(q) : x \in 1..Len(q.elements) /\ x \in Nat /\ x # Nil
  BY RepTypes DEF Slots
<1>3. \A k \in 1..n : w[k] \in Slots(q) /\ w[k] # a /\ w[k] # Nil /\ w[k] \in Nat
  BY <1>2 DEF Rep, Apart
<1>4. Linked(q, w, n)
  BY DEF Rep
<1> HIDE DEF n
<1>5. \A k \in 1..n : q.elements[w[k]].next = After(w, n, k) /\ q.elements[w[k]].prev = Before(w, k - 1)
  BY <1>1, <1>4 DEF Linked, After, Before
<1>6. \A k \in 0..n : (k # 0 => k \in 1..n) /\ (k # n => k + 1 \in 1..n)
  BY <1>1
<1>7. \A k \in 0..n : /\ Before(w, k) \in Nat /\ After(w, n, k) \in Nat
                      /\ Before(w, k) # Nil => Before(w, k) \in Slots(q) \ {a}
                      /\ After(w, n, k) # Nil => After(w, n, k) \in Slots(q) \ {a}
  BY <1>1, <1>3, <1>6 DEF Before, After
<1>8. q.head = After(w, n, 0) /\ q.tail = Before(w, n)
  BY <1>1, <1>4 DEF Linked, After, Before
<1>9. (q.head = Nil <=> n = 0) /\ (q.tail = Nil <=> n = 0)
  BY <1>1, <1>3, <1>4 DEF Linked
<1> QED BY <1>1, <1>2, <1>3, <1>5, <1>7, <1>8, <1>9 DEF n

LEMMA PushFrontRep ==
    ASSUME NEW q, NEW w, NEW a, Rep(q, w, a), a # Nil,
           q.elements[a].prev = Nil, q.elements[a].next = Nil
    PROVE  LET r == DoPushFront(q, a)
           IN  Rep(r, Ins(w, q.length, 0, a), Nil) /\ SameSlots(q, r) /\ r.length = q.length + 1
<1> DEFINE r == DoPushFront(q, a)
           n == q.length
           h == q.head
           E == q.elements
<1>0. /\ q \in DequeType /\ n \in Nat /\ h \in Nat /\ q.tail \in Nat /\ n + 1 \in Nat /\ 0 \in 0..n
      /\ E \in Seq(Element) /\ a \in 1..Len(E) /\ a \in Nat /\ a \in Slots(q)
      /\ \A x \in Slots(q) : x \in 1..Len(E) /\ x # Nil
  <2>1. a \in Slots(q)
    BY DEF Rep
  <2>2. /\ q \in DequeType /\ n \in Nat /\ q.head \in Nat /\ q.tail \in Nat /\ E \in Seq(Element)
        /\ \A x \in Slots(q) : x \in 1..Len(E) /\ x \in Nat /\ x # Nil
    BY RepLinks
  <2> QED BY <2>1, <2>2
<1>1. Before(w, 0) = Nil /\ After(w, n, 0) = h /\ (h = Nil <=> n = 0)
  BY RepLinks DEF Before
<1>2. SameSlots(q, r) /\ r.length = n + 1 /\ LinkedIn(q, r, a, Nil, h)
  <2>1. CASE h = Nil
    <3>1. r = [q EXCEPT !.length = n + 1, !.head = a, !.tail = a, !.elements = E]
      BY <1>0, <2>1 DEF DoPushFront, DequeType
    <3> HIDE DEF r, n, h, E
    <3>2. SameSlots(q, r) /\ r.length = n + 1 /\ r.head = a /\ r.tail = a /\ r.elements = E
      <4>1. Relinks(q, r, n + 1, a, a, E)
        BY <1>0, <3>1 DEF Relinks, E
      <4> QED BY <1>0, <4>1, Relinked
    <3> QED BY <1>0, <2>1, <3>2 DEF LinkedIn, E
  <2>2. CASE h # Nil
    <3> DEFINE e1 == SetPrev(E, h, a)
               e == SetNext(e1, a, h)
    <3>1. r = [q EXCEPT !.length = n + 1, !.head = a, !.tail = q.tail, !.elements = e]
      <4>1. r = [q EXCEPT !.length = n + 1, !.head = a, !.elements = e]
        <5> DEFINE r1 == [q EXCEPT !.length = n + 1, !.head = a, !.elements[h].prev = a]
        <5>1. r = [r1 EXCEPT !.elements[a].next = h]
          BY <2>2 DEF DoPushFront
        <5>2. r1 = [q EXCEPT !.length = n + 1, !.head = a, !.elements = e1]
          BY <1>0 DEF DequeType, SetPrev
        <5> HIDE DEF n, h, e1, r, r1
        <5> QED BY <1>0, <5>1, <5>2 DEF DequeType, SetNext
      <4> HIDE DEF r, n, h, e
      <4> QED BY <1>0, <4>1 DEF DequeType
    <3>2. h \in 1..Len(E) /\ h # a
      BY <1>0, <1>1, <2>2, RepLinks
    <3>3. /\ e1 \in Seq(Element) /\ Len(e1) = Len(E)
          /\ \A z \in 1..Len(E) : /\ e1[z].prev = (IF z = h THEN a ELSE E[z].prev) /\ e1[z].next = E[z].next
                                  /\ e1[z].addr = E[z].addr /\ e1[z].value = E[z].value
      <4> HIDE DEF E, h
      <4> QED BY <1>0, <3>2, SetPrevFacts
    <3>4. /\ e \in Seq(Element) /\ Len(e) = Len(e1)
          /\ \A z \in 1..Len(e1) : /\ e[z].next = (IF z = a THEN h ELSE e1[z].next) /\ e[z].prev = e1[z].prev
                                   /\ e[z].addr = e1[z].addr /\ e[z].value = e1[z].value
      <4> HIDE DEF e1, h, E
      <4> QED BY <1>0, <3>3, SetNextFacts
    <3> HIDE DEF e, e1, r, n, h, E
    <3>5. SameSlots(q, r) /\ r.length = n + 1 /\ r.head = a /\ r.tail = q.tail /\ r.elements = e
      <4>1. Len(e) = Len(q.elements)
            /\ \A x \in Slots(q) : e[x].addr = q.elements[x].addr /\ e[x].value = q.elements[x].value
        BY <1>0, <3>3, <3>4 DEF E
      <4>2. Relinks(q, r, n + 1, a, q.tail, e)
        BY <1>0, <3>1, <3>4, <4>1 DEF Relinks
      <4> QED BY <1>0, <4>2, Relinked
    <3> QED BY <1>0, <2>2, <3>2, <3>3, <3>4, <3>5 DEF LinkedIn, E
  <2> QED BY <2>1, <2>2
<1> QED
  <2>1. Rep(r, Ins(w, n, 0, a), Nil)
    <3> HIDE DEF r
    <3> QED BY <1>0, <1>1, <1>2, LinkRep
  <2> QED BY <1>2, <2>1

LEMMA PushBackRep ==
    ASSUME NEW q, NEW w, NEW a, Rep(q, w, a), a # Nil,
           q.elements[a].prev = Nil, q.elements[a].next = Nil
    PROVE  LET r == DoPushBack(q, a)
           IN  Rep(r, Ins(w, q.length, q.length, a), Nil) /\ SameSlots(q, r) /\ r.length = q.length + 1
<1> DEFINE r == DoPushBack(q, a)
           n == q.length
           t == q.tail
           E == q.elements
<1>0. /\ q \in DequeType /\ n \in Nat /\ q.head \in Nat /\ t \in Nat /\ n + 1 \in Nat /\ n \in 0..n
      /\ E \in Seq(Element) /\ a \in 1..Len(E) /\ a \in Nat /\ a \in Slots(q)
      /\ \A x \in Slots(q) : x \in 1..Len(E) /\ x # Nil
  <2>1. a \in Slots(q)
    BY DEF Rep
  <2>2. /\ q \in DequeType /\ n \in Nat /\ q.head \in Nat /\ q.tail \in Nat /\ E \in Seq(Element)
        /\ \A x \in Slots(q) : x \in 1..Len(E) /\ x \in Nat /\ x # Nil
    BY RepLinks
  <2> QED BY <2>1, <2>2
<1>1. Before(w, n) = t /\ After(w, n, n) = Nil /\ (t = Nil <=> n = 0)
  BY RepLinks DEF After
<1>2. SameSlots(q, r) /\ r.length = n + 1 /\ LinkedIn(q, r, a, t, Nil)
  <2>1. CASE t = Nil
    <3>1. r = [q EXCEPT !.length = n + 1, !.head = a, !.tail = a, !.elements = E]
      BY <1>0, <2>1 DEF DoPushBack, DequeType
    <3> HIDE DEF r, n, t, E
    <3>2. SameSlots(q, r) /\ r.length = n + 1 /\ r.head = a /\ r.tail = a /\ r.elements = E
      <4>1. Relinks(q, r, n + 1, a, a, E)
        BY <1>0, <3>1 DEF Relinks, E
      <4> QED BY <1>0, <4>1, Relinked
    <3> QED BY <1>0, <2>1, <3>2 DEF LinkedIn, E
  <2>2. CASE t # Nil
    <3> DEFINE e1 == SetNext(E, t, a)
               e == SetPrev(e1, a, t)
    <3>1. r = [q EXCEPT !.length = n + 1, !.head = q.head, !.tail = a, !.elements = e]
      <4>1. r = [q EXCEPT !.length = n + 1, !.tail = a, !.elements = e]
        <5> DEFINE r1 == [q EXCEPT !.length = n + 1, !.tail = a, !.elements[t].next = a]
        <5>1. r = [r1 EXCEPT !.elements[a].prev = t]
          BY <2>2 DEF DoPushBack
        <5>2. r1 = [q EXCEPT !.length = n + 1, !.tail = a, !.elements = e1]
          BY <1>0 DEF DequeType, SetNext
        <5> HIDE DEF n, t, e1, r, r1
        <5> QED BY <1>0, <5>1, <5>2 DEF DequeType, SetPrev
      <4> HIDE DEF r, n, t, e
      <4> QED BY <1>0, <4>1 DEF DequeType
    <3>2. t \in 1..Len(E) /\ t # a
      BY <1>0, <1>1, <2>2, RepLinks
    <3>3. /\ e1 \in Seq(Element) /\ Len(e1) = Len(E)
          /\ \A z \in 1..Len(E) : /\ e1[z].next = (IF z = t THEN a ELSE E[z].next) /\ e1[z].prev = E[z].prev
                                  /\ e1[z].addr = E[z].addr /\ e1[z].value = E[z].value
      <4> HIDE DEF E, t
      <4> QED BY <1>0, <3>2, SetNextFacts
    <3>4. /\ e \in Seq(Element) /\ Len(e) = Len(e1)
          /\ \A z \in 1..Len(e1) : /\ e[z].prev = (IF z = a THEN t ELSE e1[z].prev) /\ e[z].next = e1[z].next
                                   /\ e[z].addr = e1[z].addr /\ e[z].value = e1[z].value
      <4> HIDE DEF e1, t, E
      <4> QED BY <1>0, <3>3, SetPrevFacts
    <3> HIDE DEF e, e1, r, n, t, E
    <3>5. SameSlots(q, r) /\ r.length = n + 1 /\ r.head = q.head /\ r.tail = a /\ r.elements = e
      <4>1. Len(e) = Len(q.elements)
            /\ \A x \in Slots(q) : e[x].addr = q.elements[x].addr /\ e[x].value = q.elements[x].value
        BY <1>0, <3>3, <3>4 DEF E
      <4>2. Relinks(q, r, n + 1, q.head, a, e)
        BY <1>0, <3>1, <3>4, <4>1 DEF Relinks
      <4> QED BY <1>0, <4>2, Relinked
    <3> QED BY <1>0, <2>2, <3>2, <3>3, <3>4, <3>5 DEF LinkedIn, E
  <2> QED BY <2>1, <2>2
<1> QED
  <2>1. Rep(r, Ins(w, n, n, a), Nil)
    <3> HIDE DEF r
    <3> QED BY <1>0, <1>1, <1>2, LinkRep
  <2> QED BY <1>2, <2>1

LEMMA RemoveRep ==
    ASSUME NEW q, NEW w, Rep(q, w, Nil), NEW p \in 1..q.length
    PROVE  LET r == DoRemove(q, w[p])
           IN  Rep(r, Del(w, q.length, p), w[p]) /\ SameSlots(q, r) /\ r.length = q.length - 1
<1> DEFINE a == w[p]
           r == DoRemove(q, a)
           n == q.length
           b == q.elements[a].prev
           f == q.elements[a].next
           E == q.elements
<1>0. /\ q \in DequeType /\ n \in Nat /\ q.head \in Nat /\ q.tail \in Nat /\ n - 1 \in Nat /\ Nil \in Nat
      /\ E \in Seq(Element) /\ a \in Slots(q)
      /\ \A x \in Slots(q) : x \in 1..Len(E) /\ x \in Nat /\ x # Nil
  BY RepLinks
<1>1. /\ b = Before(w, p - 1) /\ f = After(w, n, p) /\ b \in Nat /\ f \in Nat
      /\ (b # Nil => b \in Slots(q)) /\ (f # Nil => f \in Slots(q))
  <2>1. p - 1 \in 0..n /\ p \in 0..n
    BY <1>0
  <2>2. b = Before(w, p - 1) /\ f = After(w, n, p)
    BY RepLinks
  <2>3. \A k \in 0..n : /\ Before(w, k) \in Nat /\ After(w, n, k) \in Nat
                        /\ Before(w, k) # Nil => Before(w, k) \in Slots(q)
                        /\ After(w, n, k) # Nil => After(w, n, k) \in Slots(q)
    BY RepLinks
  <2> HIDE DEF b, f, n
  <2> QED BY <2>1, <2>2, <2>3
<1>2. SameSlots(q, r) /\ r.length = n - 1 /\ LinkedOut(q, r, a, b, f)
  <2> DEFINE h == IF b = Nil THEN f ELSE q.head
             t == IF f = Nil THEN b ELSE q.tail
             e1 == IF b = Nil THEN E ELSE SetNext(E, b, f)
             e == IF f = Nil THEN e1 ELSE SetPrev(e1, f, b)
  <2>1. r = [q EXCEPT !.length = n - 1, !.head = h, !.tail = t, !.elements = e]
    <3>1. CASE b = Nil /\ f = Nil
      BY <1>0, <3>1 DEF DoRemove, DequeType
    <3>2. CASE b # Nil /\ f = Nil
      BY <1>0, <3>2 DEF DoRemove, DequeType, SetNext
    <3>3. CASE b = Nil /\ f # Nil
      BY <1>0, <3>3 DEF DoRemove, DequeType, SetPrev
    <3>4. CASE b # Nil /\ f # Nil
      <4>1. r = [q EXCEPT !.length = n - 1, !.elements = e]
        <5> DEFINE r1 == [q EXCEPT !.length = n - 1, !.elements[b].next = f]
        <5>1. r = [r1 EXCEPT !.elements[f].prev = b]
          BY <3>4 DEF DoRemove
        <5>2. e1 = SetNext(E, b, f) /\ e = SetPrev(e1, f, b)
          BY <3>4
        <5>3. r1 = [q EXCEPT !.length = n - 1, !.elements = SetNext(E, b, f)]
          BY <1>0 DEF DequeType, SetNext
        <5> HIDE DEF n, b, f, e, e1, r, r1, E
        <5>4. r1 = [q EXCEPT !.length = n - 1, !.elements = e1]
          BY <5>2, <5>3
        <5> QED BY <1>0, <5>1, <5>2, <5>4 DEF DequeType, SetPrev
      <4>2. h = q.head /\ t = q.tail
        BY <3>4
      <4> HIDE DEF r, n, h, t, e
      <4> QED BY <1>0, <4>1, <4>2 DEF DequeType
    <3> QED BY <3>1, <3>2, <3>3, <3>4
  <2>2. h \in Nat /\ t \in Nat
    BY <1>0, <1>1
  <2> HIDE DEF n, h, t, r, E, a, b, f
  <2>3. /\ e1 \in Seq(Element) /\ Len(e1) = Len(E)
        /\ \A z \in 1..Len(E) : /\ b # Nil => e1[z].next = (IF z = b THEN f ELSE E[z].next)
                                /\ b = Nil => e1[z].next = E[z].next
                                /\ e1[z].prev = E[z].prev
                                /\ e1[z].addr = E[z].addr /\ e1[z].value = E[z].value
    <3>1. CASE b = Nil
      BY <1>0, <3>1
    <3>2. CASE b # Nil
      <4>1. b \in 1..Len(E)
        BY <1>0, <1>1, <3>2
      <4> QED BY <1>0, <1>1, <3>2, <4>1, SetNextFacts
    <3> QED BY <3>1, <3>2
  <2> HIDE DEF e1
  <2>4. /\ e \in Seq(Element) /\ Len(e) = Len(e1)
        /\ \A z \in 1..Len(e1) : /\ f # Nil => e[z].prev = (IF z = f THEN b ELSE e1[z].prev)
                                 /\ f = Nil => e[z].prev = e1[z].prev
                                 /\ e[z].next = e1[z].next
                                 /\ e[z].addr = e1[z].addr /\ e[z].value = e1[z].value
    <3>1. CASE f = Nil
      BY <2>3, <3>1
    <3>2. CASE f # Nil
      <4>1. f \in 1..Len(e1)
        BY <1>0, <1>1, <2>3, <3>2
      <4> QED BY <1>1, <2>3, <3>2, <4>1, SetPrevFacts
    <3> QED BY <3>1, <3>2
  <2> HIDE DEF e
  <2>5. SameSlots(q, r) /\ r.length = n - 1 /\ r.head = h /\ r.tail = t /\ r.elements = e
    <3>1. Len(e) = Len(q.elements)
          /\ \A x \in Slots(q) : e[x].addr = q.elements[x].addr /\ e[x].value = q.elements[x].value
      BY <1>0, <2>3, <2>4 DEF E
    <3>2. Relinks(q, r, n - 1, h, t, e)
      BY <1>0, <2>1, <2>2, <2>4, <3>1 DEF Relinks
    <3> QED BY <1>0, <3>2, Relinked
  <2>6. LinkedOut(q, r, a, b, f)
    <3>1. \A x \in Slots(q) : /\ e[x].next = (IF x = b THEN f ELSE E[x].next)
                              /\ e[x].prev = (IF x = f THEN b ELSE E[x].prev)
      BY <1>0, <2>3, <2>4
    <3> QED BY <2>5, <3>1 DEF LinkedOut, E, h, t
  <2> QED BY <2>5, <2>6
<1> QED
  <2>1. Rep(r, Del(w, n, p), a)
    <3> HIDE DEF r, b, f
    <3> QED BY <1>0, <1>1, <1>2, UnlinkRep
  <2> QED BY <1>2, <2>1

(* The slots that stay in the list, and what they hold. *)
LEMMA DelKeeps ==
    ASSUME NEW q, NEW w, NEW a, Rep(q, w, a), NEW p \in 1..q.length, NEW r,
           \A x \in Slots(q) : x # w[p] => r.elements[x].value = q.elements[x].value
    PROVE  /\ \A i \in 1..q.length : i # p => r.elements[w[i]].value = q.elements[w[i]].value
           /\ \A i \in 1..(q.length - 1) :
                 r.elements[Del(w, q.length, p)[i]].value = q.elements[Del(w, q.length, p)[i]].value
<1> DEFINE n == q.length
<1>1. n \in Nat /\ \A i \in 1..n : w[i] \in Slots(q) /\ (i # p => w[i] # w[p])
  BY RepTypes DEF Rep, Apart
<1> HIDE DEF n
<1>2. ASSUME NEW i \in 1..(n - 1) PROVE \E k \in 1..n : k # p /\ Del(w, n, p)[i] = w[k]
  <2>1. Del(w, n, p)[i] = IF i < p THEN w[i] ELSE w[i + 1]
    BY DEF Del
  <2>2. i \in 1..n /\ i + 1 \in 1..n
    BY <1>1
  <2> QED BY <1>1, <2>1, <2>2
<1> QED BY <1>1, <1>2 DEF n

LEMMA DropRep ==
    ASSUME NEW q, NEW w, Rep(q, w, Nil), Small(q), NEW p \in 1..q.length
    PROVE  LET r == Drop(q, w[p])
           IN  /\ Rep(r, Del(w, q.length, p), Nil) /\ Small(r) /\ r.length = q.length - 1
               /\ \A i \in 1..(q.length - 1) :
                     r.elements[Del(w, q.length, p)[i]].value = q.elements[Del(w, q.length, p)[i]].value
<1> DEFINE n == q.length
           a == w[p]
           v == Del(w, n, p)
           s == DoRemove(q, a)
           t == PutElement(s, a)
           r == Drop(q, a)
<1>0. n \in Nat /\ a \in Slots(q) /\ a # Nil
  BY RepTypes
<1>1. Rep(s, v, a) /\ SameSlots(q, s) /\ s.length = n - 1
  BY RemoveRep
<1>2. Small(s)
  BY <1>1 DEF SameSlots, Small
<1> HIDE DEF v
<1>3. /\ Rep(t, v, Nil) /\ Small(t) /\ t.length = n - 1
      /\ \A i \in 1..(n - 1) : t.elements[v[i]] = s.elements[v[i]]
  <2> HIDE DEF s, n, a
  <2>1. Rep(s, v, a) /\ a # Nil /\ Small(s)
    BY <1>0, <1>1, <1>2
  <2>2. /\ Rep(t, v, Nil) /\ Small(t) /\ t.length = s.length
        /\ \A i \in 1..s.length : t.elements[v[i]] = s.elements[v[i]]
    <3>1. t = PutElement(s, a)
      OBVIOUS
    <3> HIDE DEF v, t
    <3> QED BY ONLY <2>1, <3>1, PutRep
  <2> HIDE DEF t
  <2> QED BY <1>1, <2>2
<1>4. r = IF t.length = 0 THEN AutoReset ELSE t
  BY DEF Drop
<1>5. \A i \in 1..(n - 1) : s.elements[v[i]].value = q.elements[v[i]].value
  <2>1. \A x \in Slots(q) : x # a => s.elements[x].value = q.elements[x].value
    BY <1>1 DEF SameSlots
  <2> HIDE DEF s
  <2> QED BY <2>1, DelKeeps DEF v
<1> HIDE DEF r, t, s
<1>6. CASE n = 1
  <2>1. r = AutoReset
    BY <1>3, <1>4, <1>6
  <2>2. v = <<>>
    <3>1. v = [i \in 1..0 |-> IF i < p THEN w[i] ELSE w[i + 1]]
      BY <1>6 DEF v, Del
    <3> QED BY <3>1
  <2>3. r.length = 0
    BY <2>1 DEF AutoReset
  <2> HIDE DEF n
  <2> QED BY <1>6, <2>1, <2>2, <2>3, AutoResetRep DEF n, v, r
<1>7. CASE n # 1
  <2>1. r = t
    BY <1>0, <1>3, <1>4, <1>7
  <2> QED BY <1>3, <1>5, <2>1 DEF r, v
<1> QED BY <1>6, <1>7

LEMMA UnlinkedRep ==
    ASSUME NEW q, NEW w, Rep(q, w, Nil), NEW p \in 1..q.length
    PROVE  LET r == Unlink(q, w[p])
           IN  /\ Rep(r, Del(w, q.length, p), w[p]) /\ SameSlots(q, r) /\ r.length = q.length - 1
               /\ r.elements[w[p]].prev = Nil /\ r.elements[w[p]].next = Nil
<1> DEFINE n == q.length
           a == w[p]
           v == Del(w, n, p)
           s == DoRemove(q, a)
           r == Unlink(q, a)
           e1 == SetPrev(s.elements, a, Nil)
           e == SetNext(e1, a, Nil)
<1>0. n \in Nat /\ a \in Slots(q) /\ a # Nil /\ Nil \in Nat
  BY RepLinks
<1>1. Rep(s, v, a) /\ SameSlots(q, s) /\ s.length = n - 1
  BY RemoveRep
<1>2. /\ s \in DequeType /\ s.elements \in Seq(Element) /\ a \in 1..Len(s.elements) /\ Slots(s) = Slots(q)
      /\ Slots(s) = 1..Len(s.elements) /\ s.length \in Nat /\ s.head \in Nat /\ s.tail \in Nat
  BY <1>0, <1>1 DEF SameSlots, DequeType, Slots
<1>3. r = [s EXCEPT !.length = s.length, !.head = s.head, !.tail = s.tail, !.elements = e]
  <2>1. r = [s EXCEPT !.elements = e]
    BY <1>2 DEF Unlink, SetPrev, SetNext, DequeType
  <2> HIDE DEF s, r, e
  <2> QED BY <1>2, <2>1 DEF DequeType
<1> HIDE DEF v, r, s, n, a
<1>4. /\ e1 \in Seq(Element) /\ Len(e1) = Len(s.elements)
      /\ \A z \in 1..Len(s.elements) :
            /\ e1[z].prev = (IF z = a THEN Nil ELSE s.elements[z].prev) /\ e1[z].next = s.elements[z].next
            /\ e1[z].addr = s.elements[z].addr /\ e1[z].value = s.elements[z].value
  BY <1>0, <1>2, SetPrevFacts
<1> HIDE DEF e1
<1>5. /\ e \in Seq(Element) /\ Len(e) = Len(e1)
      /\ \A z \in 1..Len(e1) :
            /\ e[z].next = (IF z = a THEN Nil ELSE e1[z].next) /\ e[z].prev = e1[z].prev
            /\ e[z].addr = e1[z].addr /\ e[z].value = e1[z].value
  BY <1>0, <1>2, <1>4, SetNextFacts
<1> HIDE DEF e
<1>6. SameSlots(s, r) /\ r.length = s.length /\ r.head = s.head /\ r.tail = s.tail /\ r.elements = e
  <2>1. \A x \in Slots(s) : e[x].addr = s.elements[x].addr /\ e[x].value = s.elements[x].value
    BY <1>2, <1>4, <1>5
  <2>2. Relinks(s, r, s.length, s.head, s.tail, e)
    BY <1>2, <1>3, <1>4, <1>5, <2>1 DEF Relinks
  <2> QED BY <1>2, <2>2, Relinked
<1>7. Rep(r, v, a)
  <2>1. \A x \in Slots(s) \ {a} : r.elements[x].next = s.elements[x].next /\ r.elements[x].prev = s.elements[x].prev
    BY <1>2, <1>4, <1>5, <1>6
  <2> QED BY <1>0, <1>1, <1>6, <2>1, HandRep
<1>8. r.elements[a].prev = Nil /\ r.elements[a].next = Nil
  BY <1>2, <1>4, <1>5, <1>6
<1>9. SameSlots(q, r)
  BY <1>1, <1>2, <1>6 DEF SameSlots
<1> QED BY <1>1, <1>6, <1>7, <1>8, <1>9 DEF r, a, v, n

(* Update: another value in a slot of the list. *)
LEMMA UpdateRep ==
    ASSUME NEW q, NEW w, Rep(q, w, Nil), NEW p \in 1..q.length, NEW y \in Values
    PROVE  LET r == [q EXCEPT !.elements[w[p]].value = y]
           IN  /\ Rep(r, w, Nil) /\ r.length = q.length /\ Len(r.elements) = Len(q.elements)
               /\ \A i \in 1..q.length :
                     r.elements[w[i]].value = (IF i = p THEN y ELSE q.elements[w[i]].value)
<1> DEFINE n == q.length
           a == w[p]
           e == SetValue(q.elements, a, y)
           r == [q EXCEPT !.elements[a].value = y]
<1>0. /\ q \in DequeType /\ n \in Nat /\ q.elements \in Seq(Element) /\ a \in 1..Len(q.elements)
      /\ Slots(q) = 1..Len(q.elements) /\ \A i \in 1..n : w[i] \in Slots(q) /\ (w[i] = a <=> i = p)
  BY RepLinks DEF Rep, Slots, Apart
<1>1. r = [q EXCEPT !.elements = e]
  BY <1>0 DEF SetValue, DequeType
<1>2. /\ e \in Seq(Element) /\ Len(e) = Len(q.elements)
      /\ \A z \in 1..Len(q.elements) :
            /\ e[z].value = (IF z = a THEN y ELSE q.elements[z].value) /\ e[z].prev = q.elements[z].prev
            /\ e[z].next = q.elements[z].next /\ e[z].addr = q.elements[z].addr
  <2> HIDE DEF a
  <2> QED BY <1>0, SetValueFacts
<1>3. \A z \in 1..Len(q.elements) : z # a => e[z] = q.elements[z]
  BY <1>0 DEF SetValue
<1> HIDE DEF e, r, a
<1>4. /\ r.elements = e /\ r.length = n /\ r.head = q.head /\ r.tail = q.tail /\ r.stack = q.stack
      /\ r \in DequeType
  BY <1>0, <1>1, <1>2 DEF DequeType
<1>5. Slots(r) = Slots(q) /\ Len(r.elements) = Len(q.elements)
  BY <1>2, <1>4 DEF Slots
<1>6. Linked(r, w, n)
  <2>1. \A k \in 1..n : /\ r.elements[w[k]].next = q.elements[w[k]].next
                        /\ r.elements[w[k]].prev = q.elements[w[k]].prev
    BY <1>0, <1>2, <1>4
  <2>2. Linked(q, w, n)
    BY DEF Rep
  <2> HIDE DEF n
  <2> QED BY <1>4, <2>1, <2>2 DEF Linked
<1>7. Apart(r, w, Nil) /\ Covered(r, w, Nil)
  BY <1>4, <1>5 DEF Rep, Apart, Covered
<1>8. Filled(r, w, Nil)
  <2>1. \A j \in 1..Len(q.stack) : q.stack[j] \in Slots(q) /\ q.stack[j] # a
    BY DEF Rep, Apart, a
  <2>2. \A j \in 1..Len(q.stack) : q.elements[q.stack[j]] = Template
    BY DEF Rep, Filled
  <2>3. \A j \in 1..Len(r.stack) : r.elements[r.stack[j]] = Template
    BY <1>0, <1>3, <1>4, <2>1, <2>2
  <2>4. \A i \in 1..n : q.elements[w[i]].addr = w[i]
    BY DEF Rep, Filled
  <2>5. \A i \in 1..n : r.elements[w[i]].addr = w[i]
    BY <1>0, <1>2, <1>4, <2>4
  <2> QED BY <1>4, <2>3, <2>5 DEF Filled
<1>9. Rep(r, w, Nil)
  BY <1>4, <1>5, <1>6, <1>7, <1>8 DEF Rep
<1>10. \A i \in 1..n : r.elements[w[i]].value = (IF i = p THEN y ELSE q.elements[w[i]].value)
  BY <1>0, <1>2, <1>4
<1> QED BY <1>4, <1>5, <1>9, <1>10 DEF r, a

(* r is q with slot a, which was in hand, put behind slot m. *)
InsertedAfter(q, r, m, a) ==
    LET x == q.elements[m].next
        s == [q EXCEPT !.length = @ + 1, !.elements[a].prev = m,
                       !.elements[a].next = x, !.elements[m].next = a]
    IN  \/ x # Nil /\ r = [s EXCEPT !.elements[x].prev = a]
        \/ x = Nil /\ r = [s EXCEPT !.tail = a]

LEMMA InsertAfterRep ==
    ASSUME NEW q, NEW w, NEW a, Rep(q, w, a), a # Nil, NEW p \in 1..q.length, NEW r, InsertedAfter(q, r, w[p], a)
    PROVE  Rep(r, Ins(w, q.length, p, a), Nil) /\ SameSlots(q, r) /\ r.length = q.length + 1
<1> DEFINE n == q.length
           m == w[p]
           E == q.elements
           x == E[m].next
           s == [q EXCEPT !.length = @ + 1, !.elements[a].prev = m,
                          !.elements[a].next = x, !.elements[m].next = a]
           e1 == SetPrev(E, a, m)
           e2 == SetNext(e1, a, x)
           e3 == SetNext(e2, m, a)
           e == IF x = Nil THEN e3 ELSE SetPrev(e3, x, a)
           h == q.head
           t == IF x = Nil THEN a ELSE q.tail
<1>0. /\ q \in DequeType /\ n \in Nat /\ n + 1 \in Nat /\ q.head \in Nat /\ q.tail \in Nat
      /\ E \in Seq(Element) /\ a \in 1..Len(E) /\ a \in Nat /\ a \in Slots(q)
      /\ \A z \in Slots(q) : z \in 1..Len(E) /\ z \in Nat /\ z # Nil
  BY RepLinks DEF Rep
<1>1. /\ p \in 0..n /\ Before(w, p) = m /\ After(w, n, p) = x
      /\ m \in Slots(q) /\ m # a /\ m # Nil /\ x \in Nat /\ (x # Nil => x \in Slots(q) /\ x # a)
  <2>1. /\ p \in 0..n /\ p \in 0..n /\ p # 0 /\ p # 0
        /\ m \in Slots(q) /\ m # a /\ m # Nil
    <3>1. m \in Slots(q) /\ m # a
      BY RepLinks
    <3>2. p \in 0..n /\ p \in 0..n /\ p # 0 /\ p # 0
      <4> HIDE DEF n
      <4>1. p \in 1..n
        BY DEF n
      <4> QED BY <1>0, <4>1
    <3> QED BY <1>0, <3>1, <3>2
  <2>2. x = After(w, n, p)
    BY RepLinks
  <2>3. Before(w, p) = m
    BY <1>0, <2>1 DEF Before, After
  <2>4. x \in Nat /\ (x # Nil => x \in Slots(q) /\ x # a)
    BY <2>1, <2>2, RepLinks
  <2> QED BY <2>1, <2>2, <2>3, <2>4
<1>2. r = [q EXCEPT !.length = n + 1, !.head = h, !.tail = t, !.elements = e]
  <2>1. s = [q EXCEPT !.length = n + 1, !.elements = e3]
    <3> DEFINE s1 == [q EXCEPT !.length = n + 1, !.elements = e1]
               s2 == [q EXCEPT !.length = n + 1, !.elements = e2]
    <3>1. s = [[[q EXCEPT !.length = n + 1, !.elements[a].prev = m]
                  EXCEPT !.elements[a].next = x] EXCEPT !.elements[m].next = a]
      OBVIOUS
    <3>2. [q EXCEPT !.length = n + 1, !.elements[a].prev = m] = s1
      BY <1>0 DEF SetPrev, DequeType
    <3> HIDE DEF n, m, x, s, e1
    <3>3. [s1 EXCEPT !.elements[a].next = x] = s2
      BY <1>0 DEF SetNext, DequeType
    <3> HIDE DEF e2
    <3>4. [s2 EXCEPT !.elements[m].next = a] = [q EXCEPT !.length = n + 1, !.elements = e3]
      BY <1>0 DEF SetNext, DequeType
    <3> HIDE DEF s1, s2, e3
    <3> QED BY <3>1, <3>2, <3>3, <3>4
  <2>2. /\ s.elements = e3 /\ s.length = n + 1 /\ s.head = q.head /\ s.tail = q.tail
        /\ s = [q EXCEPT !.length = n + 1, !.head = s.head, !.tail = s.tail, !.elements = e3]
    <3> HIDE DEF s, e3, n
    <3> QED BY <1>0, <2>1 DEF DequeType
  <2>3. \/ x # Nil /\ r = [s EXCEPT !.elements[x].prev = a]
        \/ x = Nil /\ r = [s EXCEPT !.tail = a]
    BY DEF InsertedAfter
  <2> HIDE DEF s, e3, n, x
  <2>4. CASE x # Nil
    <3>1. r = [s EXCEPT !.elements[x].prev = a] /\ e = SetPrev(e3, x, a) /\ h = q.head /\ t = q.tail
      BY <2>3, <2>4
    <3>2. r = [s EXCEPT !.elements = e]
      BY <1>0, <2>1, <2>2, <3>1 DEF SetPrev, SetNext, DequeType
    <3> HIDE DEF h, t, e
    <3>3. r = [q EXCEPT !.length = n + 1, !.head = q.head, !.tail = q.tail, !.elements = e]
      <4>1. q \in DequeType
        BY <1>0
      <4> QED BY ONLY <2>1, <3>2, <4>1, ElementsOnly
    <3> QED BY <3>1, <3>3
  <2>5. CASE x = Nil
    <3>1. r = [s EXCEPT !.tail = a] /\ e = e3 /\ h = q.head /\ t = a
      BY <2>3, <2>5
    <3> HIDE DEF h, t, e
    <3> QED BY <1>0, <2>1, <2>2, <3>1 DEF DequeType
  <2> QED BY <2>4, <2>5
<1>3. h \in Nat /\ t \in Nat
  BY <1>0
<1> HIDE DEF n, m, x, E, h, t, e, e1, e2, e3, s
<1>4. /\ e1 \in Seq(Element) /\ Len(e1) = Len(E)
      /\ \A z \in 1..Len(E) : /\ e1[z].prev = (IF z = a THEN m ELSE E[z].prev) /\ e1[z].next = E[z].next
                              /\ e1[z].addr = E[z].addr /\ e1[z].value = E[z].value
  BY <1>0, <1>1, SetPrevFacts DEF e1
<1>5. /\ e2 \in Seq(Element) /\ Len(e2) = Len(e1)
      /\ \A z \in 1..Len(e1) : /\ e2[z].next = (IF z = a THEN x ELSE e1[z].next) /\ e2[z].prev = e1[z].prev
                               /\ e2[z].addr = e1[z].addr /\ e2[z].value = e1[z].value
  BY <1>0, <1>1, <1>4, SetNextFacts DEF e2
<1>6. /\ e3 \in Seq(Element) /\ Len(e3) = Len(e2)
      /\ \A z \in 1..Len(e2) : /\ e3[z].next = (IF z = m THEN a ELSE e2[z].next) /\ e3[z].prev = e2[z].prev
                               /\ e3[z].addr = e2[z].addr /\ e3[z].value = e2[z].value
  BY <1>0, <1>1, <1>4, <1>5, SetNextFacts DEF e3
<1>7. /\ e \in Seq(Element) /\ Len(e) = Len(e3)
      /\ \A z \in 1..Len(e3) : /\ x # Nil => e[z].prev = (IF z = x THEN a ELSE e3[z].prev)
                               /\ x = Nil => e[z].prev = e3[z].prev
                               /\ e[z].next = e3[z].next
                               /\ e[z].addr = e3[z].addr /\ e[z].value = e3[z].value
  <2>1. CASE x = Nil
    BY <1>6, <2>1 DEF e
  <2>2. CASE x # Nil
    <3>1. x \in 1..Len(e3)
      BY <1>0, <1>1, <1>4, <1>5, <1>6, <2>2
    <3>2. e = SetPrev(e3, x, a)
      BY <2>2 DEF e
    <3> QED BY <1>0, <1>6, <2>2, <3>1, <3>2, SetPrevFacts
  <2> QED BY <2>1, <2>2
<1>8. Len(e) = Len(q.elements) /\ Len(e) = Len(E)
      /\ \A z \in Slots(q) :
            /\ e[z].addr = q.elements[z].addr /\ e[z].value = q.elements[z].value
            /\ z = a => e[z].prev = m /\ e[z].next = x
            /\ z # a => /\ e[z].next = (IF z = m THEN a ELSE q.elements[z].next)
                        /\ e[z].prev = (IF z = x THEN a ELSE q.elements[z].prev)
  <2>1. Len(e) = Len(E) /\ Len(e1) = Len(E) /\ Len(e2) = Len(E) /\ Len(e3) = Len(E)
    BY <1>4, <1>5, <1>6, <1>7
  <2>2. ASSUME NEW z \in Slots(q)
        PROVE  /\ e[z].addr = E[z].addr /\ e[z].value = E[z].value
               /\ z = a => e[z].prev = m /\ e[z].next = x
               /\ z # a => /\ e[z].next = (IF z = m THEN a ELSE E[z].next)
                           /\ e[z].prev = (IF z = x THEN a ELSE E[z].prev)
    <3>1. z \in 1..Len(E) /\ z # Nil
      BY <1>0
    <3> QED BY <1>1, <1>4, <1>5, <1>6, <1>7, <2>1, <3>1
  <2> QED BY <2>1, <2>2 DEF E
<1>9. SameSlots(q, r) /\ r.length = n + 1 /\ r.head = h /\ r.tail = t /\ r.elements = e
  <2>1. Relinks(q, r, n + 1, h, t, e)
    BY <1>0, <1>2, <1>3, <1>7, <1>8 DEF Relinks
  <2> QED BY <1>0, <2>1, Relinked
<1>10. LinkedIn(q, r, a, m, x)
  BY <1>0, <1>1, <1>8, <1>9 DEF LinkedIn, h, t
<1>11. Rep(r, Ins(w, n, p, a), Nil)
  BY <1>0, <1>1, <1>9, <1>10, LinkRep DEF n
<1> QED BY <1>9, <1>11 DEF n

(* r is q with slot a, which was in hand, put before slot m. *)
InsertedBefore(q, r, m, a) ==
    LET x == q.elements[m].prev
        s == [q EXCEPT !.length = @ + 1, !.elements[a].prev = x,
                       !.elements[a].next = m, !.elements[m].prev = a]
    IN  \/ x # Nil /\ r = [s EXCEPT !.elements[x].next = a]
        \/ x = Nil /\ r = [s EXCEPT !.head = a]

LEMMA InsertBeforeRep ==
    ASSUME NEW q, NEW w, NEW a, Rep(q, w, a), a # Nil, NEW p \in 1..q.length, NEW r, InsertedBefore(q, r, w[p], a)
    PROVE  Rep(r, Ins(w, q.length, p - 1, a), Nil) /\ SameSlots(q, r) /\ r.length = q.length + 1
<1> DEFINE n == q.length
           m == w[p]
           E == q.elements
           x == E[m].prev
           s == [q EXCEPT !.length = @ + 1, !.elements[a].prev = x,
                          !.elements[a].next = m, !.elements[m].prev = a]
           e1 == SetPrev(E, a, x)
           e2 == SetNext(e1, a, m)
           e3 == SetPrev(e2, m, a)
           e == IF x = Nil THEN e3 ELSE SetNext(e3, x, a)
           h == IF x = Nil THEN a ELSE q.head
           t == q.tail
<1>0. /\ q \in DequeType /\ n \in Nat /\ n + 1 \in Nat /\ q.head \in Nat /\ q.tail \in Nat
      /\ E \in Seq(Element) /\ a \in 1..Len(E) /\ a \in Nat /\ a \in Slots(q)
      /\ \A z \in Slots(q) : z \in 1..Len(E) /\ z \in Nat /\ z # Nil
  BY RepLinks DEF Rep
<1>1. /\ p - 1 \in 0..n /\ Before(w, p - 1) = x /\ After(w, n, p - 1) = m
      /\ m \in Slots(q) /\ m # a /\ m # Nil /\ x \in Nat /\ (x # Nil => x \in Slots(q) /\ x # a)
  <2>1. /\ p - 1 \in 0..n /\ p \in 0..n /\ p - 1 # n /\ (p - 1) + 1 = p
        /\ m \in Slots(q) /\ m # a /\ m # Nil
    <3>1. m \in Slots(q) /\ m # a
      BY RepLinks
    <3>2. p - 1 \in 0..n /\ p \in 0..n /\ p - 1 # n /\ (p - 1) + 1 = p
      <4> HIDE DEF n
      <4>1. p \in 1..n
        BY DEF n
      <4> QED BY <1>0, <4>1
    <3> QED BY <1>0, <3>1, <3>2
  <2>2. x = Before(w, p - 1)
    BY RepLinks
  <2>3. After(w, n, p - 1) = m
    BY <1>0, <2>1 DEF Before, After
  <2>4. x \in Nat /\ (x # Nil => x \in Slots(q) /\ x # a)
    BY <2>1, <2>2, RepLinks
  <2> QED BY <2>1, <2>2, <2>3, <2>4
<1>2. r = [q EXCEPT !.length = n + 1, !.head = h, !.tail = t, !.elements = e]
  <2>1. s = [q EXCEPT !.length = n + 1, !.elements = e3]
    <3> DEFINE s1 == [q EXCEPT !.length = n + 1, !.elements = e1]
               s2 == [q EXCEPT !.length = n + 1, !.elements = e2]
    <3>1. s = [[[q EXCEPT !.length = n + 1, !.elements[a].prev = x]
                  EXCEPT !.elements[a].next = m] EXCEPT !.elements[m].prev = a]
      OBVIOUS
    <3>2. [q EXCEPT !.length = n + 1, !.elements[a].prev = x] = s1
      BY <1>0 DEF SetPrev, DequeType
    <3> HIDE DEF n, m, x, s, e1
    <3>3. [s1 EXCEPT !.elements[a].next = m] = s2
      BY <1>0 DEF SetNext, DequeType
    <3> HIDE DEF e2
    <3>4. [s2 EXCEPT !.elements[m].prev = a] = [q EXCEPT !.length = n + 1, !.elements = e3]
      BY <1>0 DEF SetPrev, DequeType
    <3> HIDE DEF s1, s2, e3
    <3> QED BY <3>1, <3>2, <3>3, <3>4
  <2>2. /\ s.elements = e3 /\ s.length = n + 1 /\ s.head = q.head /\ s.tail = q.tail
        /\ s = [q EXCEPT !.length = n + 1, !.head = s.head, !.tail = s.tail, !.elements = e3]
    <3> HIDE DEF s, e3, n
    <3> QED BY <1>0, <2>1 DEF DequeType
  <2>3. \/ x # Nil /\ r = [s EXCEPT !.elements[x].next = a]
        \/ x = Nil /\ r = [s EXCEPT !.head = a]
    BY DEF InsertedBefore
  <2> HIDE DEF s, e3, n, x
  <2>4. CASE x # Nil
    <3>1. r = [s EXCEPT !.elements[x].next = a] /\ e = SetNext(e3, x, a) /\ h = q.head /\ t = q.tail
      BY <2>3, <2>4
    <3>2. r = [s EXCEPT !.elements = e]
      BY <1>0, <2>1, <2>2, <3>1 DEF SetPrev, SetNext, DequeType
    <3> HIDE DEF h, t, e
    <3>3. r = [q EXCEPT !.length = n + 1, !.head = q.head, !.tail = q.tail, !.elements = e]
      <4>1. q \in DequeType
        BY <1>0
      <4> QED BY ONLY <2>1, <3>2, <4>1, ElementsOnly
    <3> QED BY <3>1, <3>3
  <2>5. CASE x = Nil
    <3>1. r = [s EXCEPT !.head = a] /\ e = e3 /\ h = a /\ t = q.tail
      BY <2>3, <2>5
    <3> HIDE DEF h, t, e
    <3> QED BY <1>0, <2>1, <2>2, <3>1 DEF DequeType
  <2> QED BY <2>4, <2>5
<1>3. h \in Nat /\ t \in Nat
  BY <1>0
<1> HIDE DEF n, m, x, E, h, t, e, e1, e2, e3, s
<1>4. /\ e1 \in Seq(Element) /\ Len(e1) = Len(E)
      /\ \A z \in 1..Len(E) : /\ e1[z].prev = (IF z = a THEN x ELSE E[z].prev) /\ e1[z].next = E[z].next
                              /\ e1[z].addr = E[z].addr /\ e1[z].value = E[z].value
  BY <1>0, <1>1, SetPrevFacts DEF e1
<1>5. /\ e2 \in Seq(Element) /\ Len(e2) = Len(e1)
      /\ \A z \in 1..Len(e1) : /\ e2[z].next = (IF z = a THEN m ELSE e1[z].next) /\ e2[z].prev = e1[z].prev
                               /\ e2[z].addr = e1[z].addr /\ e2[z].value = e1[z].value
  BY <1>0, <1>1, <1>4, SetNextFacts DEF e2
<1>6. /\ e3 \in Seq(Element) /\ Len(e3) = Len(e2)
      /\ \A z \in 1..Len(e2) : /\ e3[z].prev = (IF z = m THEN a ELSE e2[z].prev) /\ e3[z].next = e2[z].next
                               /\ e3[z].addr = e2[z].addr /\ e3[z].value = e2[z].value
  BY <1>0, <1>1, <1>4, <1>5, SetPrevFacts DEF e3
<1>7. /\ e \in Seq(Element) /\ Len(e) = Len(e3)
      /\ \A z \in 1..Len(e3) : /\ x # Nil => e[z].next = (IF z = x THEN a ELSE e3[z].next)
                               /\ x = Nil => e[z].next = e3[z].next
                               /\ e[z].prev = e3[z].prev
                               /\ e[z].addr = e3[z].addr /\ e[z].value = e3[z].value
  <2>1. CASE x = Nil
    BY <1>6, <2>1 DEF e
  <2>2. CASE x # Nil
    <3>1. x \in 1..Len(e3)
      BY <1>0, <1>1, <1>4, <1>5, <1>6, <2>2
    <3>2. e = SetNext(e3, x, a)
      BY <2>2 DEF e
    <3> QED BY <1>0, <1>6, <2>2, <3>1, <3>2, SetNextFacts
  <2> QED BY <2>1, <2>2
<1>8. Len(e) = Len(q.elements) /\ Len(e) = Len(E)
      /\ \A z \in Slots(q) :
            /\ e[z].addr = q.elements[z].addr /\ e[z].value = q.elements[z].value
            /\ z = a => e[z].prev = x /\ e[z].next = m
            /\ z # a => /\ e[z].prev = (IF z = m THEN a ELSE q.elements[z].prev)
                        /\ e[z].next = (IF z = x THEN a ELSE q.elements[z].next)
  <2>1. Len(e) = Len(E) /\ Len(e1) = Len(E) /\ Len(e2) = Len(E) /\ Len(e3) = Len(E)
    BY <1>4, <1>5, <1>6, <1>7
  <2>2. ASSUME NEW z \in Slots(q)
        PROVE  /\ e[z].addr = E[z].addr /\ e[z].value = E[z].value
               /\ z = a => e[z].prev = x /\ e[z].next = m
               /\ z # a => /\ e[z].prev = (IF z = m THEN a ELSE E[z].prev)
                           /\ e[z].next = (IF z = x THEN a ELSE E[z].next)
    <3>1. z \in 1..Len(E) /\ z # Nil
      BY <1>0
    <3> QED BY <1>1, <1>4, <1>5, <1>6, <1>7, <2>1, <3>1
  <2> QED BY <2>1, <2>2 DEF E
<1>9. SameSlots(q, r) /\ r.length = n + 1 /\ r.head = h /\ r.tail = t /\ r.elements = e
  <2>1. Relinks(q, r, n + 1, h, t, e)
    BY <1>0, <1>2, <1>3, <1>7, <1>8 DEF Relinks
  <2> QED BY <1>0, <2>1, Relinked
<1>10. LinkedIn(q, r, a, x, m)
  BY <1>0, <1>1, <1>8, <1>9 DEF LinkedIn, h, t
<1>11. Rep(r, Ins(w, n, p - 1, a), Nil)
  BY <1>0, <1>1, <1>9, <1>10, LinkRep DEF n
<1> QED BY <1>9, <1>11 DEF n

-----------------------------------------------------------------------------
(* The list that the slots hold. *)

Entry == [addr : Nat, value : Values \cup {NoValue}]

(* The operators of ElementList on a sequence, as Ins and Del. *)
LEMMA PutIs ==
    ASSUME NEW S, NEW s \in Seq(S), NEW p \in 0..Len(s), NEW x \in S
    PROVE  List!Put(s, p, x) = Ins(s, Len(s), p, x)
<1> DEFINE n == Len(s)
           s1 == SubSeq(s, 1, p)
           s2 == SubSeq(s, p + 1, n)
           t == s1 \o <<x>> \o s2
           u == Ins(s, n, p, x)
<1>0. n \in Nat /\ p \in Nat /\ p <= n /\ n = Len(s)
  OBVIOUS
<1> HIDE DEF n
<1>1. s1 \in Seq(S) /\ Len(s1) = p /\ \A i \in 1..p : s1[i] = s[i]
  BY <1>0
<1>2. s2 \in Seq(S) /\ Len(s2) = n - p /\ \A i \in 1..(n - p) : s2[i] = s[i + p]
  BY <1>0
<1> HIDE DEF s1, s2
<1>3. /\ t \in Seq(S) /\ Len(t) = n + 1 /\ t[p + 1] = x
      /\ (\A i \in 1..p : t[i] = s1[i]) /\ (\A i \in 1..(n - p) : t[p + 1 + i] = s2[i])
  BY <1>0, <1>1, <1>2
<1>u. \A i \in 1..(n + 1) : u[i] = IF i <= p THEN s[i] ELSE IF i = p + 1 THEN x ELSE s[i - 1]
  BY DEF Ins
<1>5. t = [i \in 1..(n + 1) |-> t[i]] /\ u = [i \in 1..(n + 1) |-> u[i]]
  <2>1. u = [i \in 1..(n + 1) |-> u[i]]
    BY DEF Ins
  <2> HIDE DEF t, u
  <2>2. t = [i \in 1..Len(t) |-> t[i]]
    BY <1>3, LenProperties
  <2> QED BY <1>3, <2>1, <2>2
<1> HIDE DEF t, u
<1>4. ASSUME NEW i \in 1..(n + 1) PROVE t[i] = u[i]
  <2>1. CASE i <= p
    BY <1>0, <1>1, <1>3, <2>1, <1>u
  <2>2. CASE i = p + 1
    BY <1>0, <1>3, <2>2, <1>u
  <2>3. CASE i > p + 1
    <3>1. i - p - 1 \in 1..(n - p) /\ p + 1 + (i - p - 1) = i /\ (i - p - 1) + p = i - 1
      BY <1>0, <2>3
    <3>2. t[i] = s[i - 1]
      BY <1>2, <1>3, <3>1
    <3> QED BY <1>0, <2>3, <3>2, <1>u
  <2> QED BY <1>0, <2>1, <2>2, <2>3
<1>6. t = u
  BY <1>4, <1>5
<1> QED BY <1>6 DEF List!Put, n, s1, s2, t, u

LEMMA WithoutIs ==
    ASSUME NEW S, NEW s \in Seq(S), NEW p \in 1..Len(s)
    PROVE  List!Without(s, p) = Del(s, Len(s), p)
<1> DEFINE n == Len(s)
           s1 == SubSeq(s, 1, p - 1)
           s2 == SubSeq(s, p + 1, n)
           t == s1 \o s2
           u == Del(s, n, p)
<1>0. n \in Nat /\ p \in Nat /\ 1 <= p /\ p <= n /\ n = Len(s)
  OBVIOUS
<1> HIDE DEF n
<1>1. s1 \in Seq(S) /\ Len(s1) = p - 1 /\ \A i \in 1..(p - 1) : s1[i] = s[i]
  BY <1>0
<1>2. s2 \in Seq(S) /\ Len(s2) = n - p /\ \A i \in 1..(n - p) : s2[i] = s[i + p]
  BY <1>0
<1> HIDE DEF s1, s2
<1>3. /\ t \in Seq(S) /\ Len(t) = n - 1
      /\ (\A i \in 1..(p - 1) : t[i] = s1[i]) /\ (\A i \in 1..(n - p) : t[p - 1 + i] = s2[i])
  <2>1. Len(s1) + Len(s2) = n - 1
    BY <1>0, <1>1, <1>2
  <2>2. t \in Seq(S) /\ Len(t) = Len(s1) + Len(s2)
    BY <1>1, <1>2, ConcatProperties
  <2>3. \A i \in 1..Len(s1) : t[i] = s1[i]
    BY <1>1, <1>2
  <2>4. \A i \in 1..Len(s2) : t[Len(s1) + i] = s2[i]
    BY <1>1, <1>2
  <2> QED BY <1>1, <1>2, <2>1, <2>2, <2>3, <2>4
<1>u. \A i \in 1..(n - 1) : u[i] = IF i < p THEN s[i] ELSE s[i + 1]
  BY DEF Del
<1>t. t = [i \in 1..Len(t) |-> t[i]]
  <2> HIDE DEF t
  <2> QED BY <1>3, LenProperties
<1>5. t = [i \in 1..(n - 1) |-> t[i]] /\ u = [i \in 1..(n - 1) |-> u[i]]
  <2>1. u = [i \in 1..(n - 1) |-> u[i]]
    BY DEF Del
  <2> HIDE DEF t
  <2> QED BY <1>3, <1>t, <2>1
<1> HIDE DEF t, u
<1>4. ASSUME NEW i \in 1..(n - 1) PROVE t[i] = u[i]
  <2>1. CASE i < p
    BY <1>0, <1>1, <1>3, <2>1, <1>u
  <2>2. CASE i >= p
    <3>1. i - p + 1 \in 1..(n - p) /\ p - 1 + (i - p + 1) = i /\ (i - p + 1) + p = i + 1
      BY <1>0, <2>2
    <3>2. t[i] = s[i + 1]
      BY <1>2, <1>3, <3>1
    <3> QED BY <1>0, <2>2, <3>2, <1>u
  <2> QED BY <1>0, <2>1, <2>2
<1>6. t = u
  BY <1>4, <1>5
<1> QED BY <1>6 DEF List!Without, n, s1, s2, t, u

LEMMA EndsAre ==
    ASSUME NEW S, NEW s \in Seq(S), NEW x \in S
    PROVE  /\ <<x>> \o s = Ins(s, Len(s), 0, x)
           /\ Append(s, x) = Ins(s, Len(s), Len(s), x)
           /\ s # <<>> => /\ Tail(s) = Del(s, Len(s), 1)
                          /\ SubSeq(s, 1, Len(s) - 1) = Del(s, Len(s), Len(s))
<1> DEFINE n == Len(s)
<1>0. n \in Nat /\ n = Len(s) /\ (s # <<>> => n >= 1)
  OBVIOUS
<1> HIDE DEF n
<1>1. <<x>> \o s = Ins(s, n, 0, x)
  <2> DEFINE t == <<x>> \o s
  <2>1. t \in Seq(S) /\ Len(t) = n + 1 /\ t[1] = x /\ \A i \in 1..n : t[i + 1] = s[i]
    BY <1>0
  <2> HIDE DEF t
  <2>2. ASSUME NEW i \in 1..(n + 1) PROVE t[i] = Ins(s, n, 0, x)[i]
    <3>1. CASE i = 1
      BY <1>0, <2>1, <3>1 DEF Ins
    <3>2. CASE i # 1
      <4>1. i - 1 \in 1..n /\ (i - 1) + 1 = i
        BY <1>0, <3>2
      <4>2. t[i] = s[i - 1]
        BY <2>1, <4>1
      <4> QED BY <1>0, <3>2, <4>2 DEF Ins
    <3> QED BY <3>1, <3>2
  <2>3. t = [i \in 1..(n + 1) |-> t[i]]
    BY <1>0, <2>1
  <2>4. t = Ins(s, n, 0, x)
    BY <2>2, <2>3 DEF Ins
  <2> QED BY <2>4 DEF t
<1>2. Append(s, x) = Ins(s, n, n, x)
  <2> DEFINE t == Append(s, x)
  <2>1. t \in Seq(S) /\ Len(t) = n + 1 /\ t[n + 1] = x /\ \A i \in 1..n : t[i] = s[i]
    BY <1>0
  <2> HIDE DEF t
  <2>2. ASSUME NEW i \in 1..(n + 1) PROVE t[i] = Ins(s, n, n, x)[i]
    BY <1>0, <2>1 DEF Ins
  <2>3. t = [i \in 1..(n + 1) |-> t[i]]
    BY <1>0, <2>1
  <2>4. t = Ins(s, n, n, x)
    BY <2>2, <2>3 DEF Ins
  <2> QED BY <2>4 DEF t
<1>3. ASSUME s # <<>> PROVE Tail(s) = Del(s, n, 1)
  <2> DEFINE t == Tail(s)
  <2>1. t \in Seq(S) /\ Len(t) = n - 1 /\ \A i \in 1..(n - 1) : t[i] = s[i + 1]
    <3>1. t \in Seq(S) /\ Len(t) = Len(s) - 1 /\ \A i \in 1..Len(t) : t[i] = s[i + 1]
      BY <1>3, HeadTailProperties
    <3> HIDE DEF t
    <3> QED BY <1>0, <3>1
  <2> HIDE DEF t
  <2>2. t = [i \in 1..(n - 1) |-> t[i]]
    BY <1>0, <2>1
  <2>3. t = Del(s, n, 1)
    BY <1>0, <2>1, <2>2 DEF Del
  <2> QED BY <2>3 DEF t
<1>4. ASSUME s # <<>> PROVE SubSeq(s, 1, n - 1) = Del(s, n, n)
  <2> DEFINE t == SubSeq(s, 1, n - 1)
  <2>1. t \in Seq(S) /\ Len(t) = n - 1 /\ \A i \in 1..(n - 1) : t[i] = s[i]
    <3> DEFINE k == n - 1
    <3>1. k \in Nat /\ k <= n
      BY <1>0, <1>4
    <3> HIDE DEF k
    <3>2. SubSeq(s, 1, k) \in Seq(S) /\ Len(SubSeq(s, 1, k)) = k /\ \A i \in 1..k : SubSeq(s, 1, k)[i] = s[i]
      BY <1>0, <3>1, PrefixIs
    <3> QED BY <3>2 DEF k
  <2> HIDE DEF t
  <2>2. t = [i \in 1..(n - 1) |-> t[i]]
    BY <1>0, <2>1
  <2>3. t = Del(s, n, n)
    BY <1>0, <2>1, <2>2 DEF Del
  <2> QED BY <2>3 DEF t
<1> QED BY <1>1, <1>2, <1>3, <1>4 DEF n

(* r stands for the list l. *)
Stands(r, l) == \E w : Rep(r, w, Nil) /\ l = ListOf(r, w)

LEMMA ListIs ==
    ASSUME NEW q, NEW l, Stands(q, l)
    PROVE  ListOf(q, Walk(q)) = l
<1>1. PICK w : Rep(q, w, Nil) /\ l = ListOf(q, w)
  BY DEF Stands
<1>2. q.length \in Nat /\ w \in [1..q.length -> Nat] /\ Linked(q, w, q.length)
  <2>1. q.length \in Nat /\ w \in [1..q.length -> Slots(q)] /\ \A x \in Slots(q) : x \in Nat
    BY <1>1, RepTypes DEF Rep
  <2> QED BY <1>1, <2>1 DEF Rep
<1> QED BY <1>1, <1>2, WalkIs

LEMMA ListTypes ==
    ASSUME NEW q, NEW w, NEW a, Rep(q, w, a)
    PROVE  /\ ListOf(q, w) \in Seq(Entry) /\ Len(ListOf(q, w)) = q.length
           /\ \A k \in 1..q.length : /\ ListOf(q, w)[k].addr = w[k]
                                     /\ ListOf(q, w)[k].value = q.elements[w[k]].value
           /\ \A k \in 1..q.length : ListOf(q, w)[k] = [addr |-> w[k], value |-> q.elements[w[k]].value]
           /\ List!Addresses(ListOf(q, w)) = {w[k] : k \in 1..q.length}
<1> DEFINE n == q.length
           l == ListOf(q, w)
           f(k) == [addr |-> w[k], value |-> q.elements[w[k]].value]
<1>1. n \in Nat /\ \A k \in 1..n : w[k] \in Nat /\ q.elements[w[k]] \in Element
  BY RepTypes
<1>2. \A k \in 1..n : f(k) \in Entry
  BY <1>1 DEF Element, Entry
<1>3. l = [k \in 1..n |-> f(k)]
  BY DEF ListOf
<1>4. \A k \in 1..n : f(k).addr = w[k] /\ f(k).value = q.elements[w[k]].value
  OBVIOUS
<1>5. \A k \in 1..n : f(k) = [addr |-> w[k], value |-> q.elements[w[k]].value]
  OBVIOUS
<1> HIDE DEF f, l, n
<1>6. l \in Seq(Entry) /\ Len(l) = n
  BY <1>1, <1>2, <1>3
<1>7. List!Addresses(l) = {w[k] : k \in 1..n}
  BY <1>3, <1>4, <1>6 DEF List!Addresses
<1> QED BY <1>3, <1>4, <1>5, <1>6, <1>7 DEF l, n

LEMMA ListOfIns ==
    ASSUME NEW q, NEW w, NEW a, Rep(q, w, a), NEW p \in 0..q.length, NEW b, NEW r, NEW x,
           r.length = q.length + 1, r.elements[b].value = x,
           \A k \in 1..q.length : r.elements[w[k]].value = q.elements[w[k]].value
    PROVE  ListOf(r, Ins(w, q.length, p, b)) = Ins(ListOf(q, w), q.length, p, [addr |-> b, value |-> x])
<1> DEFINE n == q.length
           v == Ins(w, n, p, b)
           l == ListOf(q, w)
           e == [addr |-> b, value |-> x]
           u == Ins(l, n, p, e)
<1>1. n \in Nat /\ \A k \in 1..n : l[k] = [addr |-> w[k], value |-> q.elements[w[k]].value]
  BY RepTypes, ListTypes
<1>2. \A k \in 1..(n + 1) : /\ v[k] = (IF k <= p THEN w[k] ELSE IF k = p + 1 THEN b ELSE w[k - 1])
                            /\ u[k] = (IF k <= p THEN l[k] ELSE IF k = p + 1 THEN e ELSE l[k - 1])
  BY DEF Ins
<1>3. u = [k \in 1..(n + 1) |-> u[k]]
  BY DEF Ins
<1>4. ListOf(r, v) = [k \in 1..(n + 1) |-> [addr |-> v[k], value |-> r.elements[v[k]].value]]
  BY DEF ListOf
<1> HIDE DEF u, l, v
<1>5. ASSUME NEW k \in 1..(n + 1) PROVE u[k] = [addr |-> v[k], value |-> r.elements[v[k]].value]
  <2>1. CASE k <= p
    BY <1>1, <1>2, <2>1
  <2>2. CASE k = p + 1
    BY <1>1, <1>2, <2>2
  <2>3. CASE k > p + 1
    <3>1. k - 1 \in 1..n
      BY <1>1, <2>3
    <3> QED BY <1>1, <1>2, <2>3, <3>1
  <2> QED BY <1>1, <2>1, <2>2, <2>3
<1>6. u = ListOf(r, v)
  BY <1>3, <1>4, <1>5
<1> QED BY <1>6 DEF u, l, v

LEMMA ListOfDel ==
    ASSUME NEW q, NEW w, NEW a, Rep(q, w, a), NEW p \in 1..q.length, NEW r,
           r.length = q.length - 1,
           \A k \in 1..(q.length - 1) :
              r.elements[Del(w, q.length, p)[k]].value = q.elements[Del(w, q.length, p)[k]].value
    PROVE  ListOf(r, Del(w, q.length, p)) = Del(ListOf(q, w), q.length, p)
<1> DEFINE n == q.length
           v == Del(w, n, p)
           l == ListOf(q, w)
           u == Del(l, n, p)
<1>1. n \in Nat /\ \A k \in 1..n : l[k] = [addr |-> w[k], value |-> q.elements[w[k]].value]
  BY RepTypes, ListTypes
<1>2. \A k \in 1..(n - 1) : /\ v[k] = (IF k < p THEN w[k] ELSE w[k + 1])
                            /\ u[k] = (IF k < p THEN l[k] ELSE l[k + 1])
  BY DEF Del
<1>3. u = [k \in 1..(n - 1) |-> u[k]]
  BY DEF Del
<1>4. ListOf(r, v) = [k \in 1..(n - 1) |-> [addr |-> v[k], value |-> r.elements[v[k]].value]]
  BY DEF ListOf
<1> HIDE DEF u, l, v
<1>5. ASSUME NEW k \in 1..(n - 1) PROVE u[k] = [addr |-> v[k], value |-> r.elements[v[k]].value]
  <2>1. k \in 1..n /\ k + 1 \in 1..n /\ r.elements[v[k]].value = q.elements[v[k]].value
    BY <1>1 DEF v
  <2> QED BY <1>1, <1>2, <2>1
<1>6. u = ListOf(r, v)
  BY <1>3, <1>4, <1>5
<1> QED BY <1>6 DEF u, l, v

(* An address in use is one of the list's, at the position of its slot. *)
LEMMA LiveIs ==
    ASSUME NEW w, Rep(d, w, Nil), NEW a \in Live
    PROVE  \E p \in 1..d.length : /\ a = w[p] /\ List!Position(ListOf(d, w), a) = p
                                  /\ a \in List!Addresses(ListOf(d, w))
<1> DEFINE l == ListOf(d, w)
           n == d.length
<1>1. a \in Slots(d) /\ a # Nil /\ d.elements[a].addr = a
  BY RepTypes DEF Live, Slots
<1>2. ASSUME NEW j \in 1..Len(d.stack), d.stack[j] = a PROVE FALSE
  BY <1>1, <1>2 DEF Rep, Filled, Template
<1>3. PICK p \in 1..n : w[p] = a
  BY <1>1, <1>2 DEF Rep, Covered
<1>4. /\ Len(l) = n /\ \A k \in 1..n : l[k].addr = w[k]
      /\ List!Addresses(l) = {w[k] : k \in 1..n}
  BY ListTypes
<1>5. \A i \in 1..n : w[i] = a => i = p
  BY <1>3 DEF Rep, Apart
<1> HIDE DEF l, n
<1>6. List!Position(l, a) = p
  <2>1. List!Position(l, a) = CHOOSE i \in 1..n : l[i].addr = a
    BY <1>4 DEF List!Position
  <2>2. l[p].addr = a /\ \A i \in 1..n : l[i].addr = a => i = p
    BY <1>3, <1>4, <1>5
  <2> QED BY <2>1, <2>2
<1>7. a \in List!Addresses(l)
  BY <1>3, <1>4
<1> QED BY <1>3, <1>6, <1>7 DEF l, n

-----------------------------------------------------------------------------
(* Every operation keeps the invariant and does what the list's does. *)

LEMMA Inserted ==
    ASSUME NEW q, NEW w, Rep(q, w, Nil), Small(q), q.length < MaxLen, NEW v \in Values,
           NEW p \in 0..q.length, NEW r, Rep(r, Ins(w, q.length, p, NewAddr(q)), Nil),
           SameSlots(GetElement(q, v), r), r.length = q.length + 1
    PROVE  /\ Small(r) /\ NewAddr(q) \in Pointers \ List!Addresses(ListOf(q, w))
           /\ Stands(r, List!Put(ListOf(q, w), p, [addr |-> NewAddr(q), value |-> v]))
<1> DEFINE n == q.length
           a == NewAddr(q)
           g == GetElement(q, v)
           l == ListOf(q, w)
           e == [addr |-> a, value |-> v]
<1>1. /\ Rep(g, w, a) /\ Small(g) /\ Fresh(g, a, v) /\ a \in Pointers /\ a # Nil
      /\ \A i \in 1..n : w[i] # a /\ g.elements[w[i]] = q.elements[w[i]]
      /\ g.length = n
  BY GetRep
<1>2. l \in Seq(Entry) /\ Len(l) = n /\ List!Addresses(l) = {w[k] : k \in 1..n}
  BY ListTypes
<1> HIDE DEF n, a, g, l
<1>3. /\ a \in Slots(g) /\ a \in Nat /\ \A i \in 1..n : w[i] \in Slots(g)
  BY <1>1, RepTypes DEF Rep
<1>4. /\ r.elements[a].value = v /\ Small(r)
      /\ \A i \in 1..n : r.elements[w[i]].value = q.elements[w[i]].value
  BY <1>1, <1>3 DEF SameSlots, Fresh, Small, g
<1>5. ListOf(r, Ins(w, n, p, a)) = Ins(l, n, p, e)
  BY <1>4, ListOfIns DEF n, l
<1>6. List!Put(l, p, e) = Ins(l, n, p, e)
  <2>1. e \in Entry
    BY <1>3 DEF Entry
  <2> QED BY <1>2, <2>1, PutIs DEF n
<1>7. Stands(r, List!Put(l, p, e))
  BY <1>5, <1>6 DEF Stands, n, a
<1> QED BY <1>1, <1>2, <1>4, <1>7 DEF a, l

LEMMA Moved ==
    ASSUME NEW q, NEW w, Rep(q, w, Nil), NEW p \in 1..q.length,
           NEW u, Rep(u, Del(w, q.length, p), w[p]), SameSlots(q, u), u.length = q.length - 1,
           NEW k \in 0..u.length, NEW r, Rep(r, Ins(Del(w, q.length, p), u.length, k, w[p]), Nil),
           SameSlots(u, r), r.length = u.length + 1
    PROVE  /\ Small(q) => Small(r)
           /\ List!Without(ListOf(q, w), p) = Del(ListOf(q, w), q.length, p)
           /\ Len(List!Without(ListOf(q, w), p)) = u.length
           /\ List!Without(ListOf(q, w), p) \in Seq(Entry) /\ ListOf(q, w)[p] \in Entry
           /\ Stands(r, Ins(List!Without(ListOf(q, w), p), u.length, k, ListOf(q, w)[p]))
<1> DEFINE n == q.length
           a == w[p]
           v == Del(w, n, p)
           l == ListOf(q, w)
           m == List!Without(l, p)
<1>1. /\ l \in Seq(Entry) /\ Len(l) = n /\ l[p] = [addr |-> a, value |-> q.elements[a].value]
      /\ l[p] \in Entry
  BY ListTypes
<1>2. \A i \in 1..(n - 1) : v[i] \in Slots(q)
  <2>1. n \in Nat /\ \A i \in 1..n : w[i] \in Slots(q)
    BY RepTypes
  <2> QED BY <2>1 DEF Del
<1>3. ListOf(u, v) = Del(l, n, p)
  <2>1. \A i \in 1..(n - 1) : u.elements[v[i]].value = q.elements[v[i]].value
    BY <1>2 DEF SameSlots
  <2> QED BY <2>1, ListOfDel
<1>4. m = Del(l, n, p)
  <2> HIDE DEF l
  <2> QED BY <1>1, WithoutIs
<1>5. Len(ListOf(u, v)) = u.length /\ ListOf(u, v) \in Seq(Entry)
  BY ListTypes
<1>6. a \in Slots(q) /\ Slots(u) = Slots(q) /\ \A i \in 1..u.length : v[i] \in Slots(u)
  BY <1>2, RepTypes DEF SameSlots, Slots
<1>7. ListOf(r, Ins(v, u.length, k, a)) = Ins(ListOf(u, v), u.length, k, l[p])
  <2>1. r.elements[a].value = q.elements[a].value /\ \A i \in 1..u.length : r.elements[v[i]].value = u.elements[v[i]].value
    BY <1>6 DEF SameSlots
  <2> HIDE DEF v, a, l
  <2>2. ListOf(r, Ins(v, u.length, k, a)) = Ins(ListOf(u, v), u.length, k, [addr |-> a, value |-> q.elements[a].value])
    BY <2>1, ListOfIns DEF v, a
  <2> QED BY <1>1, <2>2
<1>8. Small(q) => Small(r)
  BY DEF SameSlots, Small
<1> HIDE DEF v, m, l
<1>9. Stands(r, Ins(m, u.length, k, l[p]))
  BY <1>3, <1>4, <1>7 DEF Stands, v
<1> QED BY <1>1, <1>3, <1>4, <1>5, <1>8, <1>9 DEF m, l

LEMMA Start ==
    ASSUME Inv
    PROVE  \E w : Rep(d, w, Nil) /\ ListOf(d, Walk(d)) = ListOf(d, w)
<1>1. PICK w : Rep(d, w, Nil)
  BY DEF Inv
<1>2. Stands(d, ListOf(d, w))
  BY <1>1 DEF Stands
<1> QED BY <1>1, <1>2, ListIs

LEMMA Finish ==
    ASSUME NEW l, Stands(d', l), Small(d')
    PROVE  Inv' /\ ListOf(d, Walk(d))' = l
<1>1. Inv'
  BY DEF Inv, Stands
<1>2. ListOf(d', Walk(d')) = l
  BY ListIs
<1>3. ListOf(d, Walk(d))' = ListOf(d', Walk(d'))
  OBVIOUS
<1> QED BY <1>1, <1>2, <1>3

LEMMA AddStep ==
    ASSUME NEW w, Rep(d, w, Nil), ListOf(d, Walk(d)) = ListOf(d, w), Small(d), d.length < MaxLen,
           NEW v \in Values, NEW p \in 0..d.length, Rep(d', Ins(w, d.length, p, NewAddr(d)), Nil),
           SameSlots(GetElement(d, v), d'), d'.length = d.length + 1
    PROVE  Inv' /\ List!Add(v, p)
<1> DEFINE a == NewAddr(d)
           l == ListOf(d, w)
           l2 == List!Put(l, p, [addr |-> a, value |-> v])
<1>1. Small(d') /\ a \in Pointers \ List!Addresses(l) /\ Stands(d', l2)
  BY Inserted
<1> HIDE DEF l2
<1>2. Inv' /\ ListOf(d, Walk(d))' = l2
  BY <1>1, Finish
<1> QED BY <1>1, <1>2 DEF List!Add, l2

LEMMA PushFrontStep ==
    ASSUME Inv, NEW v \in Values, PushFront(v)
    PROVE  Inv' /\ List!PushFront(v)
<1> DEFINE a == NewAddr(d)
           g == GetElement(d, v)
<1>1. PICK w : Rep(d, w, Nil) /\ ListOf(d, Walk(d)) = ListOf(d, w)
  BY Start
<1>2. Small(d) /\ d.length < MaxLen /\ d' = DoPushFront(g, a) /\ op' = <<"PushFront", v>>
  BY DEF Inv, PushFront
<1>3. Rep(g, w, a) /\ Fresh(g, a, v) /\ a # Nil /\ g.length = d.length
  BY <1>1, <1>2, GetRep
<1> HIDE DEF a, g
<1>4. Rep(d', Ins(w, d.length, 0, a), Nil) /\ SameSlots(g, d') /\ d'.length = d.length + 1
  BY <1>2, <1>3, PushFrontRep DEF Fresh
<1>5. d.length \in Nat /\ Len(ListOf(d, w)) = d.length
  BY <1>1, RepTypes, ListTypes
<1>6. Inv' /\ List!Add(v, 0)
  BY <1>1, <1>2, <1>4, <1>5, AddStep DEF a, g
<1> QED BY <1>1, <1>2, <1>5, <1>6 DEF List!PushFront

LEMMA PushBackStep ==
    ASSUME Inv, NEW v \in Values, PushBack(v)
    PROVE  Inv' /\ List!PushBack(v)
<1> DEFINE a == NewAddr(d)
           g == GetElement(d, v)
<1>1. PICK w : Rep(d, w, Nil) /\ ListOf(d, Walk(d)) = ListOf(d, w)
  BY Start
<1>2. Small(d) /\ d.length < MaxLen /\ d' = DoPushBack(g, a) /\ op' = <<"PushBack", v>>
  BY DEF Inv, PushBack
<1>3. Rep(g, w, a) /\ Fresh(g, a, v) /\ a # Nil /\ g.length = d.length
  BY <1>1, <1>2, GetRep
<1> HIDE DEF a, g
<1>4. Rep(d', Ins(w, d.length, d.length, a), Nil) /\ SameSlots(g, d') /\ d'.length = d.length + 1
  BY <1>2, <1>3, PushBackRep DEF Fresh
<1>5. d.length \in Nat /\ Len(ListOf(d, w)) = d.length
  BY <1>1, RepTypes, ListTypes
<1>6. Inv' /\ List!Add(v, d.length)
  BY <1>1, <1>2, <1>4, <1>5, AddStep DEF a, g
<1> QED BY <1>1, <1>2, <1>5, <1>6 DEF List!PushBack

LEMMA InsertAfterStep ==
    ASSUME Inv, NEW v \in Values, NEW mark \in Live, InsertAfter(v, mark)
    PROVE  /\ Inv' /\ List!InsertAfter(v, mark)
           /\ mark \in List!Addresses(ListOf(d, Walk(d)))
<1> DEFINE a == NewAddr(d)
           g == GetElement(d, v)
<1>1. PICK w : Rep(d, w, Nil) /\ ListOf(d, Walk(d)) = ListOf(d, w)
  BY Start
<1>2. PICK p \in 1..d.length : /\ mark = w[p] /\ List!Position(ListOf(d, w), mark) = p
                               /\ mark \in List!Addresses(ListOf(d, w))
  BY <1>1, LiveIs
<1>3. Small(d) /\ d.length < MaxLen /\ op' = <<"InsertAfter", v, mark>>
  BY DEF Inv, InsertAfter
<1>4. /\ Rep(g, w, a) /\ a # Nil /\ g.length = d.length
      /\ g.elements[mark] = d.elements[mark]
  BY <1>1, <1>2, <1>3, GetRep
<1>5. InsertedAfter(g, d', mark, a)
  <2>1. g.elements[mark].next = d.elements[mark].next
    BY <1>4
  <2> HIDE DEF a, g
  <2> QED BY <2>1 DEF InsertAfter, InsertedAfter, a, g
<1> HIDE DEF a, g
<1>6. Rep(d', Ins(w, d.length, p, a), Nil) /\ SameSlots(g, d') /\ d'.length = d.length + 1
  BY <1>2, <1>4, <1>5, InsertAfterRep
<1>7. p \in 0..d.length
  BY <1>1, RepTypes
<1>8. Inv' /\ List!Add(v, p)
  BY <1>1, <1>3, <1>6, <1>7, AddStep DEF a, g
<1> QED BY <1>1, <1>2, <1>3, <1>8 DEF List!InsertAfter

LEMMA InsertBeforeStep ==
    ASSUME Inv, NEW v \in Values, NEW mark \in Live, InsertBefore(v, mark)
    PROVE  /\ Inv' /\ List!InsertBefore(v, mark)
           /\ mark \in List!Addresses(ListOf(d, Walk(d)))
<1> DEFINE a == NewAddr(d)
           g == GetElement(d, v)
<1>1. PICK w : Rep(d, w, Nil) /\ ListOf(d, Walk(d)) = ListOf(d, w)
  BY Start
<1>2. PICK p \in 1..d.length : /\ mark = w[p] /\ List!Position(ListOf(d, w), mark) = p
                               /\ mark \in List!Addresses(ListOf(d, w))
  BY <1>1, LiveIs
<1>3. Small(d) /\ d.length < MaxLen /\ op' = <<"InsertBefore", v, mark>>
  BY DEF Inv, InsertBefore
<1>4. /\ Rep(g, w, a) /\ a # Nil /\ g.length = d.length
      /\ g.elements[mark] = d.elements[mark]
  BY <1>1, <1>2, <1>3, GetRep
<1>5. InsertedBefore(g, d', mark, a)
  <2>1. g.elements[mark].prev = d.elements[mark].prev
    BY <1>4
  <2> HIDE DEF a, g
  <2> QED BY <2>1 DEF InsertBefore, InsertedBefore, a, g
<1> HIDE DEF a, g
<1>6. Rep(d', Ins(w, d.length, p - 1, a), Nil) /\ SameSlots(g, d') /\ d'.length = d.length + 1
  BY <1>2, <1>4, <1>5, InsertBeforeRep
<1>7. p - 1 \in 0..d.length
  BY <1>1, RepTypes
<1>8. Inv' /\ List!Add(v, p - 1)
  BY <1>1, <1>3, <1>6, <1>7, AddStep DEF a, g
<1> QED BY <1>1, <1>2, <1>3, <1>8 DEF List!InsertBefore

LEMMA DropStep ==
    ASSUME NEW w, Rep(d, w, Nil), Small(d), NEW p \in 1..d.length, d' = Drop(d, w[p])
    PROVE  /\ Inv' /\ ListOf(d, Walk(d))' = Del(ListOf(d, w), d.length, p)
           /\ List!Without(ListOf(d, w), p) = Del(ListOf(d, w), d.length, p)
<1> DEFINE l == ListOf(d, w)
           l2 == Del(l, d.length, p)
<1>1. /\ Rep(d', Del(w, d.length, p), Nil) /\ Small(d') /\ d'.length = d.length - 1
      /\ \A i \in 1..(d.length - 1) :
            d'.elements[Del(w, d.length, p)[i]].value = d.elements[Del(w, d.length, p)[i]].value
  BY DropRep
<1>2. ListOf(d', Del(w, d.length, p)) = l2
  BY <1>1, ListOfDel
<1>3. l \in Seq(Entry) /\ Len(l) = d.length
  BY ListTypes
<1> HIDE DEF l
<1>4. List!Without(l, p) = l2
  BY <1>3, WithoutIs
<1>5. Stands(d', l2)
  BY <1>1, <1>2 DEF Stands
<1> QED BY <1>1, <1>4, <1>5, Finish DEF l

LEMMA RemoveStep ==
    ASSUME Inv, NEW a \in Live, Remove(a)
    PROVE  Inv' /\ List!Remove(a) /\ a \in List!Addresses(ListOf(d, Walk(d)))
<1>1. PICK w : Rep(d, w, Nil) /\ ListOf(d, Walk(d)) = ListOf(d, w)
  BY Start
<1>2. PICK p \in 1..d.length : /\ a = w[p] /\ List!Position(ListOf(d, w), a) = p
                               /\ a \in List!Addresses(ListOf(d, w))
  BY <1>1, LiveIs
<1>3. Small(d) /\ d' = Drop(d, w[p]) /\ op' = <<"Remove", a>>
  BY <1>2 DEF Inv, Remove
<1> QED BY <1>1, <1>2, <1>3, DropStep DEF List!Remove

LEMMA PopFrontStep ==
    ASSUME Inv, PopFront
    PROVE  Inv' /\ List!PopFront
<1>1. PICK w : Rep(d, w, Nil) /\ ListOf(d, Walk(d)) = ListOf(d, w)
  BY Start
<1>2. d.length \in Nat /\ d.length # 0 /\ d.head = w[1]
  <2>1. Linked(d, w, d.length)
    BY <1>1 DEF Rep
  <2> QED BY <1>1, <2>1, RepLinks DEF Linked, PopFront
<1>3. 1 \in 1..d.length
  BY <1>2
<1>4. Small(d) /\ d' = Drop(d, w[1]) /\ op' = <<"PopFront">>
  BY <1>2 DEF Inv, PopFront
<1>5. ListOf(d, w) \in Seq(Entry) /\ Len(ListOf(d, w)) = d.length /\ ListOf(d, w) # <<>>
      /\ ListOf(d, w)[1] \in Entry
  <2>1. ListOf(d, w) \in Seq(Entry) /\ Len(ListOf(d, w)) = d.length
    BY <1>1, ListTypes
  <2> QED BY <1>2, <2>1
<1>6. Inv' /\ ListOf(d, Walk(d))' = Del(ListOf(d, w), d.length, 1)
  BY <1>1, <1>3, <1>4, DropStep
<1>7. Del(ListOf(d, w), d.length, 1) = Tail(ListOf(d, w))
  BY <1>5, EndsAre
<1> QED BY <1>1, <1>4, <1>5, <1>6, <1>7 DEF List!PopFront

LEMMA PopBackStep ==
    ASSUME Inv, PopBack
    PROVE  Inv' /\ List!PopBack
<1>1. PICK w : Rep(d, w, Nil) /\ ListOf(d, Walk(d)) = ListOf(d, w)
  BY Start
<1>2. d.length \in Nat /\ d.length # 0 /\ d.tail = w[d.length]
  <2>1. Linked(d, w, d.length)
    BY <1>1 DEF Rep
  <2> QED BY <1>1, <2>1, RepLinks DEF Linked, PopBack
<1>3. d.length \in 1..d.length
  BY <1>2
<1>4. Small(d) /\ d' = Drop(d, w[d.length]) /\ op' = <<"PopBack">>
  BY <1>2 DEF Inv, PopBack
<1>5. ListOf(d, w) \in Seq(Entry) /\ Len(ListOf(d, w)) = d.length /\ ListOf(d, w) # <<>>
      /\ ListOf(d, w)[1] \in Entry
  <2>1. ListOf(d, w) \in Seq(Entry) /\ Len(ListOf(d, w)) = d.length
    BY <1>1, ListTypes
  <2> QED BY <1>2, <2>1
<1>6. Inv' /\ ListOf(d, Walk(d))' = Del(ListOf(d, w), d.length, d.length)
  BY <1>1, <1>3, <1>4, DropStep
<1>7. Del(ListOf(d, w), d.length, d.length) = SubSeq(ListOf(d, w), 1, Len(ListOf(d, w)) - 1)
  BY <1>5, EndsAre
<1> QED BY <1>1, <1>4, <1>5, <1>6, <1>7 DEF List!PopBack

LEMMA MoveToFrontStep ==
    ASSUME Inv, NEW a \in Live, MoveToFront(a)
    PROVE  Inv' /\ List!MoveToFront(a) /\ a \in List!Addresses(ListOf(d, Walk(d)))
<1> DEFINE u == Unlink(d, a)
<1>1. PICK w : Rep(d, w, Nil) /\ ListOf(d, Walk(d)) = ListOf(d, w)
  BY Start
<1>2. PICK p \in 1..d.length : /\ a = w[p] /\ List!Position(ListOf(d, w), a) = p
                               /\ a \in List!Addresses(ListOf(d, w))
  BY <1>1, LiveIs
<1>3. Small(d) /\ d' = DoPushFront(u, a) /\ op' = <<"MoveToFront", a>> /\ a # Nil
  BY <1>1, <1>2, RepTypes DEF Inv, MoveToFront
<1>4. /\ Rep(u, Del(w, d.length, p), a) /\ SameSlots(d, u) /\ u.length = d.length - 1
      /\ u.elements[a].prev = Nil /\ u.elements[a].next = Nil
  BY <1>1, <1>2, UnlinkedRep
<1> HIDE DEF u
<1>5. /\ Rep(d', Ins(Del(w, d.length, p), u.length, 0, a), Nil) /\ SameSlots(u, d')
      /\ d'.length = u.length + 1
  BY <1>3, <1>4, PushFrontRep
<1>6. 0 \in 0..u.length
  BY <1>1, <1>2, <1>4, RepTypes
<1> DEFINE l == ListOf(d, w)
           m == List!Without(l, p)
           l2 == Ins(m, u.length, 0, l[p])
<1>7. Small(d') /\ Len(m) = u.length /\ m \in Seq(Entry) /\ l[p] \in Entry /\ Stands(d', l2)
  BY <1>1, <1>2, <1>3, <1>4, <1>5, <1>6, Moved
<1> HIDE DEF m, l
<1>8. l2 = <<l[p]>> \o m
  BY <1>7, EndsAre
<1> HIDE DEF l2
<1>9. Inv' /\ ListOf(d, Walk(d))' = l2
  BY <1>7, Finish
<1> QED BY <1>1, <1>2, <1>3, <1>8, <1>9 DEF List!MoveToFront, l, m

LEMMA MoveToBackStep ==
    ASSUME Inv, NEW a \in Live, MoveToBack(a)
    PROVE  Inv' /\ List!MoveToBack(a) /\ a \in List!Addresses(ListOf(d, Walk(d)))
<1> DEFINE u == Unlink(d, a)
<1>1. PICK w : Rep(d, w, Nil) /\ ListOf(d, Walk(d)) = ListOf(d, w)
  BY Start
<1>2. PICK p \in 1..d.length : /\ a = w[p] /\ List!Position(ListOf(d, w), a) = p
                               /\ a \in List!Addresses(ListOf(d, w))
  BY <1>1, LiveIs
<1>3. Small(d) /\ d' = DoPushBack(u, a) /\ op' = <<"MoveToBack", a>> /\ a # Nil
  BY <1>1, <1>2, RepTypes DEF Inv, MoveToBack
<1>4. /\ Rep(u, Del(w, d.length, p), a) /\ SameSlots(d, u) /\ u.length = d.length - 1
      /\ u.elements[a].prev = Nil /\ u.elements[a].next = Nil
  BY <1>1, <1>2, UnlinkedRep
<1> HIDE DEF u
<1>5. /\ Rep(d', Ins(Del(w, d.length, p), u.length, u.length, a), Nil) /\ SameSlots(u, d')
      /\ d'.length = u.length + 1
  BY <1>3, <1>4, PushBackRep
<1>6. u.length \in 0..u.length
  BY <1>1, <1>2, <1>4, RepTypes
<1> DEFINE l == ListOf(d, w)
           m == List!Without(l, p)
           l2 == Ins(m, u.length, u.length, l[p])
<1>7. Small(d') /\ Len(m) = u.length /\ m \in Seq(Entry) /\ l[p] \in Entry /\ Stands(d', l2)
  BY <1>1, <1>2, <1>3, <1>4, <1>5, <1>6, Moved
<1> HIDE DEF m, l
<1>8. l2 = Append(m, l[p])
  BY <1>7, EndsAre
<1> HIDE DEF l2
<1>9. Inv' /\ ListOf(d, Walk(d))' = l2
  BY <1>7, Finish
<1> QED BY <1>1, <1>2, <1>3, <1>8, <1>9 DEF List!MoveToBack, l, m

LEMMA UpdateStep ==
    ASSUME Inv, NEW v \in Values, NEW a \in Live, Update(a, v)
    PROVE  Inv' /\ List!Update(a, v) /\ a \in List!Addresses(ListOf(d, Walk(d)))
<1>1. PICK w : Rep(d, w, Nil) /\ ListOf(d, Walk(d)) = ListOf(d, w)
  BY Start
<1>2. PICK p \in 1..d.length : /\ a = w[p] /\ List!Position(ListOf(d, w), a) = p
                               /\ a \in List!Addresses(ListOf(d, w))
  BY <1>1, LiveIs
<1>3. Small(d) /\ d' = [d EXCEPT !.elements[w[p]].value = v] /\ op' = <<"Update", a, v>>
  BY <1>2 DEF Inv, Update
<1>4. /\ Rep(d', w, Nil) /\ d'.length = d.length /\ Len(d'.elements) = Len(d.elements)
      /\ \A i \in 1..d.length :
            d'.elements[w[i]].value = (IF i = p THEN v ELSE d.elements[w[i]].value)
  BY <1>1, <1>3, UpdateRep
<1>5. Small(d')
  BY <1>3, <1>4 DEF Small
<1> DEFINE l == ListOf(d, w)
           l2 == ListOf(d', w)
           n == d.length
<1>6. l2 = [l EXCEPT ![p].value = v]
  <2>1. l = [i \in 1..n |-> [addr |-> w[i], value |-> d.elements[w[i]].value]]
    BY DEF ListOf
  <2>2. l2 = [i \in 1..n |-> [addr |-> w[i], value |-> d'.elements[w[i]].value]]
    BY <1>4 DEF ListOf
  <2> HIDE DEF l, l2, n
  <2>3. \A i \in 1..n : i # p => l2[i] = l[i]
    BY <1>4, <2>1, <2>2 DEF n
  <2>4. l2[p] = [l[p] EXCEPT !.value = v]
    <3>1. l2[p] = [addr |-> w[p], value |-> v] /\ l[p] = [addr |-> w[p], value |-> d.elements[w[p]].value]
      BY <1>4, <2>1, <2>2 DEF n
    <3> QED BY <3>1
  <2> QED BY <2>1, <2>2, <2>3, <2>4 DEF n
<1>7. Inv' /\ ListOf(d, Walk(d))' = l2
  <2>1. Stands(d', l2)
    BY <1>4 DEF Stands
  <2> HIDE DEF l2
  <2> QED BY <1>5, <2>1, Finish
<1> QED BY <1>1, <1>2, <1>3, <1>6, <1>7 DEF List!Update

LEMMA EmptyStands == Stands(AutoReset, <<>>) /\ Small(AutoReset)
<1>1. ListOf(AutoReset, <<>>) = <<>>
  <2>1. AutoReset.length = 0
    BY DEF AutoReset
  <2> QED BY <2>1 DEF ListOf
<1> QED BY <1>1, AutoResetRep DEF Stands

LEMMA ResetStep ==
    ASSUME Reset
    PROVE  Inv' /\ List!Reset
<1>1. d' = AutoReset /\ op' = <<"Reset">>
  BY DEF Reset
<1> QED BY <1>1, EmptyStands, Finish DEF List!Reset

LEMMA InitStep ==
    ASSUME Init
    PROVE  Inv /\ List!Init
<1>1. d = AutoReset /\ op = <<"New">>
  BY DEF Init
<1>2. Stands(d, <<>>) /\ Small(d)
  BY <1>1, EmptyStands
<1>3. Inv
  BY <1>2 DEF Inv, Stands
<1>4. ListOf(d, Walk(d)) = <<>>
  BY <1>2, ListIs
<1> QED BY <1>1, <1>3, <1>4 DEF List!Init

LEMMA NextStep ==
    ASSUME Inv, Next
    PROVE  Inv' /\ List!Next
<1>1. ASSUME NEW v \in Values, PushFront(v) PROVE Inv' /\ List!Next
  BY <1>1, PushFrontStep DEF List!Next
<1>2. ASSUME NEW v \in Values, PushBack(v) PROVE Inv' /\ List!Next
  BY <1>2, PushBackStep DEF List!Next
<1>3. CASE PopFront
  BY <1>3, PopFrontStep DEF List!Next
<1>4. CASE PopBack
  BY <1>4, PopBackStep DEF List!Next
<1>5. CASE Reset
  BY <1>5, ResetStep DEF List!Next
<1>6. ASSUME NEW a \in Live, MoveToFront(a) PROVE Inv' /\ List!Next
  BY <1>6, MoveToFrontStep DEF List!Next
<1>7. ASSUME NEW a \in Live, MoveToBack(a) PROVE Inv' /\ List!Next
  BY <1>7, MoveToBackStep DEF List!Next
<1>8. ASSUME NEW a \in Live, Remove(a) PROVE Inv' /\ List!Next
  BY <1>8, RemoveStep DEF List!Next
<1>9. ASSUME NEW a \in Live, NEW v \in Values, InsertAfter(v, a) PROVE Inv' /\ List!Next
  BY <1>9, InsertAfterStep DEF List!Next
<1>10. ASSUME NEW a \in Live, NEW v \in Values, InsertBefore(v, a) PROVE Inv' /\ List!Next
  BY <1>10, InsertBeforeStep DEF List!Next
<1>11. ASSUME NEW a \in Live, NEW v \in Values, Update(a, v) PROVE Inv' /\ List!Next
  BY <1>11, UpdateStep DEF List!Next
<1> QED BY <1>1, <1>2, <1>3, <1>4, <1>5, <1>6, <1>7, <1>8, <1>9, <1>10, <1>11 DEF Next

LEMMA StutterStep ==
    ASSUME Inv, UNCHANGED <<d, op>>
    PROVE  Inv' /\ UNCHANGED <<ListOf(d, Walk(d)), op>>
<1>1. d' = d /\ op' = op
  OBVIOUS
<1>2. Inv'
  BY <1>1 DEF Inv
<1>3. ListOf(d, Walk(d))' = ListOf(d', Walk(d'))
  OBVIOUS
<1> QED BY <1>1, <1>2, <1>3

-----------------------------------------------------------------------------
(* The results. *)

(* The deque always stands for a sequence of slots, with no slot in hand   *)
(* between operations, and never has more slots than elements it may hold. *)
THEOREM InvTheorem == Spec => []Inv
<1>1. Init => Inv
  BY InitStep
<1>2. Inv /\ [Next]_<<d, op>> => Inv'
  BY NextStep, StutterStep
<1> QED BY <1>1, <1>2, PTL DEF Spec

(* What Inv says of the slots that Range visits. *)
LEMMA WalkRep ==
    ASSUME Inv
    PROVE  Rep(d, Walk(d), Nil)
<1>1. PICK w : Rep(d, w, Nil)
  BY DEF Inv
<1>2. d.length \in Nat /\ w \in [1..d.length -> Nat] /\ Linked(d, w, d.length)
  <2>1. d.length \in Nat /\ w \in [1..d.length -> Slots(d)] /\ \A x \in Slots(d) : x \in Nat
    BY <1>1, RepTypes DEF Rep
  <2> QED BY <1>1, <2>1 DEF Rep
<1> QED BY <1>1, <1>2, WalkIs

(* The links of the elements are those of one list, from head to tail and  *)
(* back, after any operations: doRemove's four cases, the insertions at    *)
(* an end and in the middle and the moves all relink every neighbour.      *)
THEOREM LinksAgreeTheorem == Spec => []LinksAgree
<1>1. ASSUME Inv PROVE LinksAgree
  <2> DEFINE w == Walk(d)
             n == d.length
  <2>1. Rep(d, w, Nil)
    BY <1>1, WalkRep
  <2>2. Linked(d, w, n) /\ n \in Nat /\ (d.head = Nil <=> n = 0) /\ (d.tail = Nil <=> n = 0)
    BY <2>1, RepLinks DEF Rep
  <2> HIDE DEF w, n
  <2>3. ASSUME n > 0
        PROVE  /\ d.head = w[1] /\ d.tail = w[n] /\ d.elements[d.head].prev = Nil
               /\ d.elements[d.tail].next = Nil
    BY <2>2, <2>3 DEF Linked
  <2>4. ASSUME NEW k \in 1..(n - 1) PROVE d.elements[w[k + 1]].prev = w[k]
    <3>1. k + 1 \in 1..n /\ k + 1 # 1 /\ (k + 1) - 1 = k
      BY <2>2
    <3>2. d.elements[w[k + 1]].prev = w[(k + 1) - 1]
      BY <2>2, <3>1 DEF Linked
    <3> QED BY <3>1, <3>2
  <2> QED BY <2>2, <2>3, <2>4 DEF LinksAgree, w, n
<1> QED BY <1>1, InvTheorem, PTL

(* Every slot is in the list or free, and only once: getElement, putElement *)
(* and autoReset lose no slot, and a freed one keeps nothing of its value.  *)
THEOREM SlotsAccountedTheorem == Spec => []SlotsAccounted
<1>1. ASSUME Inv PROVE SlotsAccounted
  <2> DEFINE w == Walk(d)
             n == d.length
             m == Len(d.stack)
             used == {w[k] : k \in 1..n}
             free == {d.stack[k] : k \in 1..m}
  <2>1. Rep(d, w, Nil)
    BY <1>1, WalkRep
  <2>2. /\ n \in Nat /\ m \in Nat /\ Len(d.elements) \in Nat
        /\ \A i \in 1..n : w[i] \in Slots(d)
        /\ \A x \in Slots(d) : x # Nil
    BY <2>1, RepTypes
  <2> HIDE DEF w, n, m
  <2>3. used \cup free = Slots(d)
    <3>1. \A k \in 1..m : d.stack[k] \in Slots(d)
      BY <2>1 DEF Rep, m
    <3>2. \A x \in Slots(d) : (\E i \in 1..n : w[i] = x) \/ (\E j \in 1..m : d.stack[j] = x)
      BY <2>1, <2>2 DEF Rep, Covered, n, m
    <3> QED BY <2>2, <3>1, <3>2
  <2>4. n + m = Len(d.elements)
    BY <2>1, <2>2 DEF Rep, n, m
  <2>5. (\A x \in used : d.elements[x].addr = x) /\ (\A x \in free : d.elements[x] = Template)
    BY <2>1 DEF Rep, Filled, n, m
  <2> QED BY <2>3, <2>4, <2>5 DEF SlotsAccounted, Slots, w, n, m
<1> QED BY <1>1, InvTheorem, PTL

(* The deque implements ElementList: each operation has on the walked list *)
(* exactly the effect its name promises, with the same address for an      *)
(* element from its insertion to its removal.                              *)
THEOREM ImplementsListTheorem == Spec => ImplementsList
<1>1. Init => List!Init
  BY InitStep
<1>2. Inv /\ [Next]_<<d, op>> => [List!Next]_<<ListOf(d, Walk(d)), op>>
  BY NextStep, StutterStep
<1> QED BY <1>1, <1>2, InvTheorem, PTL DEF Spec, ImplementsList, List!Spec
=============================================================================
