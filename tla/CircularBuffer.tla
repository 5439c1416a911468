---------------------------- MODULE CircularBuffer ----------------------------
(***************************************************************************)
(* Util.CircularBuffer: an array with a start, an end and a size.  VarDiff *)
(* keeps the last share intervals in one.  Indices count from 0, as in the *)
(* code.                                                                   *)
(***************************************************************************)
EXTENDS Integers, Sequences

CONSTANTS
    Items,      \* elements that are stored
    Default,    \* default(T)
    Capacity

ASSUME CapacityAssumption == Capacity \in Nat \ {0}

VARIABLES buffer, start, end, size

bufferVars == <<buffer, start, end, size>>
Slots == 0 .. Capacity - 1

IsFull == size = Capacity
IsEmpty == size = 0

BufferInit == buffer = [i \in Slots |-> Default] /\ start = 0 /\ end = 0 /\ size = 0

Incremented(index) == IF index + 1 = Capacity THEN 0 ELSE index + 1

Decremented(index) == (IF index = 0 THEN Capacity ELSE index) - 1

PushBack(x) ==
    /\ buffer' = [buffer EXCEPT ![end] = x]
    /\ end' = Incremented(end)
    /\ IF IsFull THEN start' = Incremented(end) /\ UNCHANGED size
                 ELSE size' = size + 1 /\ UNCHANGED start

\* Mutant: in a full buffer the end stays where it is.
PushFront_EndStays(x) ==
    /\ start' = Decremented(start)
    /\ buffer' = [buffer EXCEPT ![Decremented(start)] = x]
    /\ IF IsFull THEN UNCHANGED size ELSE size' = size + 1
    /\ UNCHANGED end

PushFront(x) ==
    /\ start' = Decremented(start)
    /\ buffer' = [buffer EXCEPT ![Decremented(start)] = x]
    /\ IF IsFull THEN end' = Decremented(start) /\ UNCHANGED size
                 ELSE size' = size + 1 /\ UNCHANGED end

PopBack ==
    /\ ~IsEmpty
    /\ end' = Decremented(end)
    /\ buffer' = [buffer EXCEPT ![Decremented(end)] = Default]
    /\ size' = size - 1 /\ UNCHANGED start

PopFront ==
    /\ ~IsEmpty
    /\ buffer' = [buffer EXCEPT ![start] = Default]
    /\ start' = Incremented(start)
    /\ size' = size - 1 /\ UNCHANGED end

InternalIndex(index) ==
    start + (IF index < Capacity - start THEN index ELSE index - Capacity)

Set(index, x) ==
    /\ index < size
    /\ buffer' = [buffer EXCEPT ![InternalIndex(index)] = x]
    /\ UNCHANGED <<start, end, size>>

BufferNext ==
    \/ \E x \in Items : PushBack(x) \/ PushFront(x)
    \/ \E x \in Items, i \in Slots : Set(i, x)
    \/ PopBack \/ PopFront

BufferSpec == BufferInit /\ [][BufferNext]_bufferVars

-----------------------------------------------------------------------------
(* Reading.                                                                *)

\* this[i], for i < size.
Get(index) == buffer[InternalIndex(index)]

\* GetEnumerator: ArrayOne, then ArrayTwo.
ArrayOne == [i \in 1 .. (IF start < end THEN end ELSE Capacity) - start |-> buffer[start + i - 1]]

\* Mutant: a buffer that is full is taken for one that does not wrap.
ArrayTwo_NotFull == [i \in 1 .. (IF start <= end THEN 0 ELSE end) |-> buffer[i - 1]]

ArrayTwo == [i \in 1 .. (IF start < end THEN 0 ELSE end) |-> buffer[i - 1]]
Enumerated == ArrayOne \o ArrayTwo

Contents == [i \in 1 .. size |-> Get(i - 1)]

-----------------------------------------------------------------------------
D == INSTANCE Deque WITH items <- Contents

\* The buffer behaves as the queue its class comment describes ("PushBack ->
\* removes this[0] / Front()", "PushFront -> removes this[Size-1] / Back()"),
\* whichever way its indices wrap, and what a sum iterates over are the items of
\* that queue; an empty buffer yields default values (CircularBuffer.PushBack,
\* PushFront, GetEnumerator).
ImplementsDeque ==
    /\ D!Spec
    /\ [](IF IsEmpty THEN \A i \in DOMAIN Enumerated : Enumerated[i] = Default
                     ELSE Enumerated = Contents)
=============================================================================
