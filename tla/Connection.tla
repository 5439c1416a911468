------------------------------ MODULE Connection ------------------------------
(***************************************************************************)
(* StratumClient: the life of one connection.  Any task may send to it or  *)
(* disconnect it; the socket is touched on the loop thread of its port     *)
(* only.  A message is written into a rented array and queued, and the     *)
(* drainer, an asynchronous handle, wakes the loop; signals that come      *)
(* before the loop looks are one.  PooledArraySegment is a struct: each    *)
(* copy of it that is disposed returns the array to the pool.              *)
(***************************************************************************)
EXTENDS Integers, Sequences, SequencesExt

CONSTANTS
    Tasks,       \* tasks that send: requests and broadcasts
    MaxSends     \* bound: messages of one task

ASSUME MaxSendsAssumption == MaxSends \in Nat

\* The messages of a task, in its order.
Messages == Tasks \X (1 .. MaxSends)

VARIABLES
    isAlive,
    sendQueue,
    woken, drainer,         \* sendQueueDrainer: signalled; "open" or "disposed"
    subscription, disposer, \* not disposed yet; "open", "signalled" or "disposed"
    tcp,                    \* "open", "shutdown", or "closed"
    loop,                   \* what the loop thread is in
    pc, sends,              \* the tasks, and how often each has sent
    broken,                 \* history: the last drain ended in an exception
    queued, taken,          \* history: messages, and what the loop took to write, in order
    returned                \* history: how often a message's array was returned

client == <<isAlive, subscription, disposer, tcp>>
queue == <<sendQueue, woken, drainer, broken, queued, taken, returned>>
tasks == <<pc, sends>>
vars == <<client, queue, loop, tasks>>

Init ==
    /\ isAlive = TRUE /\ subscription = TRUE /\ disposer = "open" /\ tcp = "open"
    /\ sendQueue = <<>> /\ woken = FALSE /\ drainer = "open" /\ broken = FALSE
    /\ queued = <<>> /\ taken = <<>> /\ returned = [m \in Messages |-> 0]
    /\ loop = "idle"
    /\ pc = [t \in Tasks |-> "idle"] /\ sends = [t \in Tasks |-> 0]

Return(m) == returned' = [returned EXCEPT ![m] = @ + 1]

-----------------------------------------------------------------------------
(* Tasks.                                                                  *)

Message(t) == <<t, sends[t]>>

\* An array is rented if the connection is alive.
Send(t) ==
    /\ pc[t] = "idle" /\ sends[t] < MaxSends
    /\ sends' = [sends EXCEPT ![t] = @ + 1]
    /\ pc' = [pc EXCEPT ![t] = IF isAlive THEN "rented" ELSE "idle"]
    /\ UNCHANGED <<client, queue, loop>>

\* The payload cannot be serialized, or does not fit the array.
SerializeFails(t) ==
    /\ pc[t] = "rented"
    /\ Return(Message(t))
    /\ pc' = [pc EXCEPT ![t] = "idle"]
    /\ UNCHANGED <<client, sendQueue, woken, drainer, broken, queued, taken, loop, sends>>

Enqueue(t) ==
    /\ pc[t] = "rented"
    /\ sendQueue' = Append(sendQueue, Message(t)) /\ queued' = Append(queued, Message(t))
    /\ pc' = [pc EXCEPT ![t] = "queued"]
    /\ UNCHANGED <<client, woken, drainer, broken, taken, returned, loop, sends>>

\* Mutant: the loop is not woken if there is something in the queue already.
Wake_First(t) ==
    /\ pc[t] = "queued"
    /\ woken' = (woken \/ Len(sendQueue) = 1)
    /\ pc' = [pc EXCEPT ![t] = "idle"]
    /\ UNCHANGED <<client, sendQueue, drainer, broken, queued, taken, returned, loop, sends>>

\* Mutant: the array is returned in any case ("finally").
Wake_Finally(t) ==
    /\ pc[t] = "queued"
    /\ Return(Message(t))
    /\ IF drainer = "open" THEN woken' = TRUE ELSE UNCHANGED woken
    /\ pc' = [pc EXCEPT ![t] = "idle"]
    /\ UNCHANGED <<client, sendQueue, drainer, broken, queued, taken, loop, sends>>

\* A handle that is disposed throws, and the array is returned.
Wake(t) ==
    /\ pc[t] = "queued"
    /\ IF drainer = "open" THEN woken' = TRUE /\ UNCHANGED returned
                           ELSE Return(Message(t)) /\ UNCHANGED woken
    /\ pc' = [pc EXCEPT ![t] = "idle"]
    /\ UNCHANGED <<client, sendQueue, drainer, broken, queued, taken, loop, sends>>

\* Disconnect: the socket is to be shut down on the loop thread, once.
Unsubscribe ==
    /\ subscription' = FALSE
    /\ disposer' = IF subscription THEN "signalled" ELSE disposer

\* DisconnectClient: a ban, a banned address, a failing request, or the timer of
\* EnsureNoZombieClient.
Disconnect ==
    /\ subscription
    /\ Unsubscribe
    /\ UNCHANGED <<isAlive, tcp, queue, loop, tasks>>

-----------------------------------------------------------------------------
(* The loop thread.                                                        *)

DrainSendQueue ==
    /\ loop = "idle" /\ woken /\ drainer = "open"
    /\ woken' = FALSE /\ broken' = FALSE
    /\ loop' = IF tcp = "open" THEN "drain" ELSE "idle"
    /\ UNCHANGED <<client, sendQueue, drainer, queued, taken, returned, tasks>>

\* The first message is dequeued, and its array returned when that is done.
Take ==
    /\ loop = "drain" /\ sendQueue # <<>>
    /\ sendQueue' = Tail(sendQueue)
    /\ taken' = Append(taken, Head(sendQueue))
    /\ Return(Head(sendQueue))
    /\ UNCHANGED <<client, woken, drainer, queued, tasks>>

\* QueueWrite writes it ...
DrainOne == Take /\ UNCHANGED <<loop, broken>>

\* ... or throws: the message is not written, and the drain is over, with the rest
\* in the queue.
DrainFails == Take /\ loop' = "idle" /\ broken' = TRUE

DrainEnd ==
    /\ loop = "drain" /\ sendQueue = <<>>
    /\ loop' = "idle"
    /\ UNCHANGED <<client, queue, tasks>>

\* The handle of the disposer was signalled.
Shutdown ==
    /\ loop = "idle" /\ disposer = "signalled"
    /\ disposer' = "disposed"
    /\ IF tcp = "open" THEN isAlive' = FALSE /\ tcp' = "shutdown" ELSE UNCHANGED <<isAlive, tcp>>
    /\ UNCHANGED <<subscription, queue, loop, tasks>>

\* The client closed the connection, or it broke: onCompleted.
Complete ==
    /\ loop = "idle" /\ tcp # "closed"
    /\ isAlive' = FALSE
    /\ Unsubscribe
    /\ loop' = "complete"
    /\ UNCHANGED <<tcp, queue, tasks>>

DisposeDrainer ==
    /\ loop = "complete"
    /\ drainer' = "disposed"
    /\ loop' = "empty"
    /\ UNCHANGED <<client, sendQueue, woken, broken, queued, taken, returned, tasks>>

EmptyOne ==
    /\ loop = "empty" /\ sendQueue # <<>>
    /\ sendQueue' = Tail(sendQueue)
    /\ Return(Head(sendQueue))
    /\ UNCHANGED <<client, woken, drainer, broken, queued, taken, loop, tasks>>

\* Mutant: the messages that are queued are left there.
CloseHandle_Filled ==
    /\ loop = "empty"
    /\ tcp' = "closed" /\ loop' = "idle"
    /\ UNCHANGED <<isAlive, subscription, disposer, queue, tasks>>

CloseHandle ==
    /\ loop = "empty" /\ sendQueue = <<>>
    /\ tcp' = "closed" /\ loop' = "idle"
    /\ UNCHANGED <<isAlive, subscription, disposer, queue, tasks>>

-----------------------------------------------------------------------------
Completion == DisposeDrainer \/ EmptyOne \/ CloseHandle

Next ==
    \/ \E t \in Tasks : Send(t) \/ SerializeFails(t) \/ Enqueue(t) \/ Wake(t)
    \/ Disconnect \/ DrainSendQueue \/ DrainOne \/ DrainFails \/ DrainEnd \/ Shutdown \/ Complete \/ Completion

Spec == Init /\ [][Next]_vars

\* Tasks that began to send go on, and the loop looks at each handle that is
\* signalled.  Nothing makes the client close a connection that is shut down.
Fairness ==
    /\ \A t \in Tasks : WF_vars(SerializeFails(t) \/ Enqueue(t) \/ Wake(t))
    /\ SF_vars(DrainSendQueue) /\ WF_vars(DrainOne \/ DrainFails \/ DrainEnd)
    /\ SF_vars(Shutdown) /\ WF_vars(Completion)

FairSpec == Spec /\ Fairness

-----------------------------------------------------------------------------
(* Properties.                                                             *)

\* No message is forgotten: while the connection is open, every message that was
\* queued was taken by the loop in its turn or is in the queue, and if the queue is
\* not empty when the loop is idle, the loop was woken or is about to be, however
\* sends and drains overlap.  The exception are the messages left behind when a
\* write threw, which wait for the next one (StratumClient.SendInternal,
\* DrainSendQueue).
NoneForgotten ==
    /\ taken = SubSeq(queued, 1, Len(taken)) /\ IsInjective(queued)
    /\ tcp = "open" /\ loop # "empty" => queued = taken \o sendQueue
    /\ tcp = "open" /\ loop = "idle" /\ sendQueue # <<>> =>
          woken \/ broken \/ \E t \in Tasks : pc[t] = "queued"

\* An array goes back to the pool once, and not while its message waits in the
\* queue.  The exception are tasks that queued before and wake the loop after the
\* completion disposed of the drainer: the array of such a message may go back
\* twice, or go back and be queued still (StratumClient.SendInternal, 335, 354).
Caught(m) == drainer = "disposed" /\ m \in ToSet(queued)

ReturnedOnce ==
    \A m \in Messages :
        /\ returned[m] <= IF Caught(m) THEN 2 ELSE 1
        /\ returned[m] > 0 /\ m \in ToSet(sendQueue) => Caught(m)
        /\ m \in ToSet(taken) => returned[m] > 0

\* No array stays behind for ever, be its message written, dropped because the
\* client closed the connection, or queued after that.  While the connection
\* lasts, a message may wait for the next one after a write threw, and, once it is
\* shut down, for the client to close it (StratumClient.Send, DrainSendQueue,
\* Receive).
Out(m) == m \in ToSet(sendQueue) \/ \E t \in Tasks : pc[t] = "rented" /\ Message(t) = m
Waits == drainer = "open" /\ (broken \/ tcp = "shutdown")

Flushed == \A m \in Messages : Out(m) ~> returned[m] > 0 \/ Waits
=============================================================================
