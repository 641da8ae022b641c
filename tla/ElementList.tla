---------------------------- MODULE ElementList ----------------------------
(***************************************************************************)
(* What internal.Deque promises: a list of elements, each known by an      *)
(* address that stays its own until the element is removed.                *)
(***************************************************************************)
EXTENDS Integers, Sequences

CONSTANTS Values,
          Pointers     \* addresses

VARIABLES list,        \* sequence of [addr, value]
          op           \* the last operation, with its arguments

Addresses(s) == {s[i].addr : i \in 1..Len(s)}
Position(s, a) == CHOOSE i \in 1..Len(s) : s[i].addr = a
Without(s, i) == SubSeq(s, 1, i - 1) \o SubSeq(s, i + 1, Len(s))

(* e between the first i elements and the rest. *)
Put(s, i, e) == SubSeq(s, 1, i) \o <<e>> \o SubSeq(s, i + 1, Len(s))

(* A new element with an address not in use, after the first i. *)
Add(v, i) ==
    \E a \in Pointers \ Addresses(list) :
        list' = Put(list, i, [addr |-> a, value |-> v])

Init == list = <<>> /\ op = <<"New">>

PushFront(v) == op' = <<"PushFront", v>> /\ Add(v, 0)
PushBack(v) == op' = <<"PushBack", v>> /\ Add(v, Len(list))
PopFront == op' = <<"PopFront">> /\ list # <<>> /\ list' = Tail(list)
PopBack == op' = <<"PopBack">> /\ list # <<>> /\ list' = SubSeq(list, 1, Len(list) - 1)
InsertAfter(v, a) == op' = <<"InsertAfter", v, a>> /\ Add(v, Position(list, a))
InsertBefore(v, a) == op' = <<"InsertBefore", v, a>> /\ Add(v, Position(list, a) - 1)
MoveToFront(a) ==
    /\ op' = <<"MoveToFront", a>>
    /\ LET i == Position(list, a) IN list' = <<list[i]>> \o Without(list, i)
MoveToBack(a) ==
    /\ op' = <<"MoveToBack", a>>
    /\ LET i == Position(list, a) IN list' = Append(Without(list, i), list[i])
Update(a, v) == op' = <<"Update", a, v>> /\ list' = [list EXCEPT ![Position(list, a)].value = v]
Remove(a) == op' = <<"Remove", a>> /\ list' = Without(list, Position(list, a))
Reset == op' = <<"Reset">> /\ list' = <<>>

Next ==
    \/ \E v \in Values : PushFront(v) \/ PushBack(v)
    \/ PopFront \/ PopBack \/ Reset
    \/ \E a \in Addresses(list) :
          \/ MoveToFront(a) \/ MoveToBack(a) \/ Remove(a)
          \/ \E v \in Values : InsertAfter(v, a) \/ InsertBefore(v, a) \/ Update(a, v)

Spec == Init /\ [][Next]_<<list, op>>
=============================================================================
