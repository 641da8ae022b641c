------------------------------- MODULE Deque -------------------------------
(***************************************************************************)
(* internal.Deque (internal/deque.go): a doubly linked list in a slice,    *)
(* with a stack of free slots.  The deque has no lock of its own           *)
(* (workerQueue.mu guards the one of a connection), so an operation is one *)
(* step.                                                                   *)
(*                                                                         *)
(* d.elements leaves out slot 0 of the slice, which stands for Nil and is  *)
(* never used.  Operations that take an address get one that is in use.    *)
(***************************************************************************)
EXTENDS Integers, Sequences

CONSTANTS Values,
          NoValue,   \* the zero value of T
          MaxLen     \* bound: elements in the deque

ASSUME DequeAssumption == MaxLen \in Nat /\ NoValue \notin Values

VARIABLES d,   \* the deque
          op   \* history: the last operation, with its arguments

Nil == 0
Pointers == 1..MaxLen

Template == [prev |-> Nil, addr |-> Nil, next |-> Nil, value |-> NoValue]

(* autoReset; also what New makes. *)
AutoReset == [head |-> Nil, tail |-> Nil, length |-> 0, stack |-> <<>>, elements |-> <<>>]

Init == d = AutoReset /\ op = <<"New">>

(* getElement: the slot it returns, and the deque with that slot in use    *)
(* for value v.  A slot comes from the stack first.                        *)
NewAddr(q) == IF q.stack # <<>> THEN q.stack[Len(q.stack)] ELSE Len(q.elements) + 1

GetElement(q, v) ==
    LET a == NewAddr(q)
    IN  IF q.stack # <<>>
        THEN [q EXCEPT !.stack = SubSeq(@, 1, Len(@) - 1),
                       !.elements[a].addr = a, !.elements[a].value = v]
        ELSE [q EXCEPT !.elements = Append(@, [Template EXCEPT !.addr = a, !.value = v])]

PutElement_NotCleared(q, a) == [q EXCEPT !.stack = Append(@, q.elements[a].addr)]
PutElement(q, a) == [q EXCEPT !.stack = Append(@, q.elements[a].addr), !.elements[a] = Template]

DoPushFront(q, a) ==
    IF q.head = Nil
    THEN [q EXCEPT !.length = @ + 1, !.head = a, !.tail = a]
    ELSE [q EXCEPT !.length = @ + 1, !.head = a,
                   !.elements[q.head].prev = a, !.elements[a].next = q.head]

DoPushBack(q, a) ==
    IF q.tail = Nil
    THEN [q EXCEPT !.length = @ + 1, !.head = a, !.tail = a]
    ELSE [q EXCEPT !.length = @ + 1, !.tail = a,
                   !.elements[q.tail].next = a, !.elements[a].prev = q.tail]

(* doRemove: the four cases of `state`. *)
DoRemove(q, a) ==
    LET prev == q.elements[a].prev
        next == q.elements[a].next
        r == [q EXCEPT !.length = @ - 1]
    IN  CASE prev # Nil /\ next # Nil ->
               [r EXCEPT !.elements[prev].next = next, !.elements[next].prev = prev]
          [] prev = Nil /\ next # Nil -> [r EXCEPT !.elements[next].prev = Nil, !.head = next]
          [] prev # Nil /\ next = Nil -> [r EXCEPT !.elements[prev].next = Nil, !.tail = prev]
          [] prev = Nil /\ next = Nil -> [r EXCEPT !.head = Nil, !.tail = Nil]

(* doRemove, putElement, and autoReset when the deque got empty. *)
Drop(q, a) ==
    LET r == PutElement(DoRemove(q, a), a)
    IN  IF r.length = 0 THEN AutoReset ELSE r

(* Not nil: the address of an element. *)
Live == {a \in 1..Len(d.elements) : d.elements[a].addr = a}

-----------------------------------------------------------------------------

PushFront(v) ==
    /\ d.length < MaxLen
    /\ d' = DoPushFront(GetElement(d, v), NewAddr(d))
    /\ op' = <<"PushFront", v>>

PushBack(v) ==
    /\ d.length < MaxLen
    /\ d' = DoPushBack(GetElement(d, v), NewAddr(d))
    /\ op' = <<"PushBack", v>>

PopFront == d.head # Nil /\ d' = Drop(d, d.head) /\ op' = <<"PopFront">>
PopBack == d.tail # Nil /\ d' = Drop(d, d.tail) /\ op' = <<"PopBack">>

InsertAfter(v, mark) ==
    /\ d.length < MaxLen
    /\ LET a == NewAddr(d)
           next == d.elements[mark].next
           r == [GetElement(d, v) EXCEPT !.length = @ + 1, !.elements[a].prev = mark,
                                         !.elements[a].next = next, !.elements[mark].next = a]
       IN  \/ next # Nil /\ d' = [r EXCEPT !.elements[next].prev = a]
           \/ next = Nil /\ d' = [r EXCEPT !.tail = a]
    /\ op' = <<"InsertAfter", v, mark>>

InsertBefore_HeadMissed(v, mark) ==
    /\ d.length < MaxLen
    /\ LET a == NewAddr(d)
           prev == d.elements[mark].prev
       IN  \/ /\ prev # Nil
              /\ d' = [GetElement(d, v) EXCEPT !.length = @ + 1, !.elements[a].prev = prev,
                           !.elements[a].next = mark, !.elements[mark].prev = a,
                           !.elements[prev].next = a]
           \/ prev = Nil /\ d' = DoPushBack(GetElement(d, v), a)
    /\ op' = <<"InsertBefore", v, mark>>

InsertBefore(v, mark) ==
    /\ d.length < MaxLen
    /\ LET a == NewAddr(d)
           prev == d.elements[mark].prev
           r == [GetElement(d, v) EXCEPT !.length = @ + 1, !.elements[a].prev = prev,
                                         !.elements[a].next = mark, !.elements[mark].prev = a]
       IN  \/ prev # Nil /\ d' = [r EXCEPT !.elements[prev].next = a]
           \/ prev = Nil /\ d' = [r EXCEPT !.head = a]
    /\ op' = <<"InsertBefore", v, mark>>

(* doRemove leaves the links of the element, which the moves then clear. *)
Unlink(q, a) == [DoRemove(q, a) EXCEPT !.elements[a].prev = Nil, !.elements[a].next = Nil]

MoveToFront(a) == d' = DoPushFront(Unlink(d, a), a) /\ op' = <<"MoveToFront", a>>
MoveToBack_LinksKept(a) == d' = DoPushBack(DoRemove(d, a), a) /\ op' = <<"MoveToBack", a>>
MoveToBack(a) == d' = DoPushBack(Unlink(d, a), a) /\ op' = <<"MoveToBack", a>>
Update(a, v) == d' = [d EXCEPT !.elements[a].value = v] /\ op' = <<"Update", a, v>>
Remove(a) == d' = Drop(d, a) /\ op' = <<"Remove", a>>
Reset == d' = AutoReset /\ op' = <<"Reset">>

Next ==
    \/ \E v \in Values : PushFront(v) \/ PushBack(v)
    \/ PopFront \/ PopBack \/ Reset
    \/ \E a \in Live :
          \/ MoveToFront(a) \/ MoveToBack(a) \/ Remove(a)
          \/ \E v \in Values : InsertAfter(v, a) \/ InsertBefore(v, a) \/ Update(a, v)

Spec == Init /\ [][Next]_<<d, op>>

-----------------------------------------------------------------------------

(* Range: the addresses met by following next from head. *)
Walk(q) ==
    LET at[k \in 1..q.length] == IF k = 1 THEN q.head ELSE q.elements[at[k - 1]].next
    IN  at

(* The links are those of one list: following next from head takes length  *)
(* steps to tail, following prev takes the same way back, and both ends    *)
(* are marked Nil.                                                         *)
LinksAgree ==
    LET w == Walk(d)
    IN  /\ d.length = 0 <=> d.head = Nil
        /\ d.length = 0 <=> d.tail = Nil
        /\ d.length > 0 =>
              /\ d.head = w[1] /\ d.tail = w[d.length]
              /\ d.elements[d.head].prev = Nil /\ d.elements[d.tail].next = Nil
              /\ \A k \in 1..(d.length - 1) : d.elements[w[k + 1]].prev = w[k]

(* Every slot is either in the list, once, or free, once: a value that     *)
(* left the deque is not kept reachable by it, and no slot is lost.        *)
SlotsAccounted ==
    LET used == {Walk(d)[k] : k \in 1..d.length}
        free == {d.stack[k] : k \in 1..Len(d.stack)}
    IN  /\ used \cup free = 1..Len(d.elements)
        /\ d.length + Len(d.stack) = Len(d.elements)
        /\ \A a \in used : d.elements[a].addr = a
        /\ \A a \in free : d.elements[a] = Template

(* Every operation does to the list that Range walks what its name says,   *)
(* whatever was inserted, moved and removed before, and the addresses of   *)
(* the other elements stay valid.                                          *)
ListOf(q, w) == [k \in 1..q.length |-> [addr |-> w[k], value |-> q.elements[w[k]].value]]

List == INSTANCE ElementList WITH list <- ListOf(d, Walk(d))
ImplementsList == List!Spec
=============================================================================
