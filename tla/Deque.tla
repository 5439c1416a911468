-------------------------------- MODULE Deque --------------------------------
(* What CircularBuffer promises: a double-ended queue of bounded size.  A     *)
(* push to a full queue drops the element at the other end.                   *)
EXTENDS Integers, Sequences

CONSTANTS Items, Capacity

VARIABLE items

Init == items = <<>>

PushBack(x) == items' = IF Len(items) = Capacity THEN Append(Tail(items), x)
                                                 ELSE Append(items, x)

PushFront(x) == items' = IF Len(items) = Capacity
                         THEN <<x>> \o SubSeq(items, 1, Capacity - 1)
                         ELSE <<x>> \o items

PopBack == items # <<>> /\ items' = SubSeq(items, 1, Len(items) - 1)

PopFront == items # <<>> /\ items' = Tail(items)

Set(i, x) == i \in DOMAIN items /\ items' = [items EXCEPT ![i] = x]

Next == \/ \E x \in Items : PushBack(x) \/ PushFront(x)
        \/ \E x \in Items, i \in 1 .. Capacity : Set(i, x)
        \/ PopBack \/ PopFront

Spec == Init /\ [][Next]_items
=============================================================================
