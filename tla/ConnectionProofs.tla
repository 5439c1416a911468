--------------------------- MODULE ConnectionProofs ---------------------------
(***************************************************************************)
(* What a StratumClient sends and receives.  What is taken and what is     *)
(* returned by Connection, for all tasks and any number of messages: the   *)
(* queue is always the last part of what was queued, what was taken is the *)
(* first part, and while the connection is open the two meet; a signal is  *)
(* only used up by a drain, and a drain only leaves messages behind if a   *)
(* write throws; a message is returned when it leaves the queue, and once  *)
(* more only if its task finds the drainer disposed.  What LineBuffer      *)
(* makes of the bytes received, for every length of chunks and lines: what *)
(* it has passed on are the lines of the bytes consumed, and what is       *)
(* queued is the rest.                                                     *)
(***************************************************************************)
EXTENDS Connection, LineBuffer, Sums, SequenceTheorems, TLAPS

USE MaxSendsAssumption

\* How many messages have left the queue.
Gone == Len(queued) - Len(sendQueue)

TypeInv ==
    /\ queued \in Seq(Messages) /\ sendQueue \in Seq(Messages) /\ taken \in Seq(Messages)
    /\ returned \in [Messages -> Nat]
    /\ pc \in [Tasks -> {"idle", "rented", "queued"}]
    /\ sends \in [Tasks -> 0 .. MaxSends]
    /\ \A t \in Tasks : pc[t] # "idle" => sends[t] > 0
    /\ drainer \in {"open", "disposed"}

Order ==
    /\ Len(taken) <= Gone
    /\ \A i \in 1 .. Len(taken) : taken[i] = queued[i]
    /\ \A i \in 1 .. Len(sendQueue) : sendQueue[i] = queued[Gone + i]
    /\ \A i, j \in 1 .. Len(queued) : queued[i] = queued[j] => i = j
    /\ tcp = "open" /\ loop # "empty" => Gone = Len(taken)
    /\ loop = "drain" => tcp = "open"

\* The task of the message has not come to it yet, or holds it in its hand.
Fresh(m) ==
    \/ m[2] > sends[m[1]]
    \/ m[2] = sends[m[1]] /\ pc[m[1]] = "rented"
\* The message is queued, but its task has not signalled the drainer yet.
Waking(m) == m[2] = sends[m[1]] /\ pc[m[1]] = "queued"

ArrayOf(m) ==
    /\ Fresh(m) => returned[m] = 0 /\ m \notin ToSet(queued)
    /\ m \notin ToSet(queued) => returned[m] <= 1 /\ ~Waking(m)
    /\ m \in ToSet(queued) /\ drainer # "disposed" =>
          /\ m \in ToSet(sendQueue) => returned[m] = 0
          /\ m \notin ToSet(sendQueue) => returned[m] = 1
    /\ m \in ToSet(queued) =>
          /\ returned[m] <= 2
          /\ Waking(m) \/ m \in ToSet(sendQueue) => returned[m] <= 1
          /\ Waking(m) /\ m \in ToSet(sendQueue) => returned[m] = 0
    /\ m \in ToSet(taken) => returned[m] > 0

Arrays == \A m \in Messages : ArrayOf(m)

\* The drainer is there as long as the connection may be drained.
Signals ==
    /\ drainer = "open" \/ loop = "empty" \/ tcp = "closed"
    /\ tcp = "open" /\ loop = "idle" /\ sendQueue # <<>> =>
          woken \/ broken \/ \E t \in Tasks : pc[t] = "queued"

IInv == TypeInv /\ Order /\ Arrays

-----------------------------------------------------------------------------
(* Sequences.                                                              *)

\* A message that is queued is the last one (ConcurrentQueue.Enqueue).
LEMMA Appended ==
    ASSUME NEW S, NEW s \in Seq(S), NEW e \in S
    PROVE  /\ Append(s, e) \in Seq(S) /\ Len(Append(s, e)) = Len(s) + 1
           /\ \A i \in 1 .. Len(s) : Append(s, e)[i] = s[i]
           /\ Append(s, e)[Len(s) + 1] = e
           /\ ToSet(Append(s, e)) = ToSet(s) \cup {e}
  <1>1. /\ Append(s, e) \in Seq(S) /\ Len(Append(s, e)) = Len(s) + 1
        /\ \A i \in 1 .. Len(s) : Append(s, e)[i] = s[i]
        /\ Append(s, e)[Len(s) + 1] = e
    OBVIOUS
  <1>2. DOMAIN s = 1 .. Len(s) /\ DOMAIN Append(s, e) = 1 .. Len(s) + 1 /\ Len(s) \in Nat
    BY <1>1
  <1>3. 1 .. Len(s) + 1 = (1 .. Len(s)) \cup {Len(s) + 1}
    BY <1>2
  <1> QED BY <1>1, <1>2, <1>3 DEF ToSet

\* The first message leaves the queue (ConcurrentQueue.TryDequeue).
LEMMA Dequeued ==
    ASSUME NEW S, NEW s \in Seq(S), s # <<>>
    PROVE  /\ Head(s) \in S /\ Head(s) = s[1] /\ Len(s) > 0
           /\ Tail(s) \in Seq(S) /\ Len(Tail(s)) = Len(s) - 1
           /\ \A i \in 1 .. Len(s) - 1 : Tail(s)[i] = s[i + 1]
           /\ ToSet(s) = ToSet(Tail(s)) \cup {Head(s)}
  <1>1. /\ Head(s) \in S /\ Head(s) = s[1] /\ Len(s) > 0
        /\ Tail(s) \in Seq(S) /\ Len(Tail(s)) = Len(s) - 1
        /\ \A i \in 1 .. Len(s) - 1 : Tail(s)[i] = s[i + 1]
    OBVIOUS
  <1>2. DOMAIN s = 1 .. Len(s) /\ DOMAIN Tail(s) = 1 .. Len(s) - 1 /\ Len(s) \in Nat
    BY <1>1
  <1>3. \A i \in 1 .. Len(s) : i = 1 \/ i - 1 \in 1 .. Len(s) - 1
    BY <1>2
  <1>4. ASSUME NEW x \in ToSet(s) PROVE x \in ToSet(Tail(s)) \cup {Head(s)}
    <2>1. PICK i \in 1 .. Len(s) : s[i] = x
      BY <1>4, <1>2 DEF ToSet
    <2>2. CASE i # 1
      <3>1. i - 1 \in 1 .. Len(s) - 1 /\ (i - 1) + 1 = i
        BY <2>2, <1>3
      <3>2. Tail(s)[i - 1] = x
        BY <3>1, <2>1, <1>1
      <3> QED BY <3>1, <3>2, <1>2 DEF ToSet
    <2> QED BY <2>1, <2>2, <1>1
  <1>5. ASSUME NEW x \in ToSet(Tail(s)) PROVE x \in ToSet(s)
    <2>1. PICK i \in 1 .. Len(s) - 1 : Tail(s)[i] = x
      BY <1>5, <1>2 DEF ToSet
    <2>2. i + 1 \in DOMAIN s /\ s[i + 1] = x
      BY <2>1, <1>1, <1>2
    <2> QED BY <2>2 DEF ToSet
  <1>6. Head(s) \in ToSet(s)
    <2>1. 1 \in DOMAIN s /\ Head(s) = s[1]
      BY <1>1, <1>2
    <2> QED BY <2>1 DEF ToSet
  <1> QED BY <1>1, <1>4, <1>5, <1>6

\* A message of the queue was queued, and it is in the queue once
\* (StratumClient.sendQueue).
LEMMA QueueIsQueued ==
    ASSUME IInv
    PROVE  /\ ToSet(sendQueue) \subseteq ToSet(queued)
           /\ ToSet(taken) \subseteq ToSet(queued)
           /\ sendQueue # <<>> => Head(sendQueue) \notin ToSet(Tail(sendQueue))
  <1>1. /\ DOMAIN queued = 1 .. Len(queued) /\ DOMAIN sendQueue = 1 .. Len(sendQueue)
        /\ DOMAIN taken = 1 .. Len(taken)
        /\ Len(queued) \in Nat /\ Len(sendQueue) \in Nat /\ Len(taken) \in Nat
    BY DEF IInv, TypeInv
  <1> DEFINE q == Len(queued)
             k == Len(sendQueue)
             w == Len(taken)
  <1>a. Gone = q - k /\ w <= Gone
    BY DEF IInv, Order, Gone
  <1>b. q \in Nat /\ k \in Nat /\ w \in Nat
    BY <1>1
  <1>c. (\A i \in 1 .. k : Gone + i \in 1 .. q) /\ (\A i \in 1 .. w : i \in 1 .. q)
    <2> HIDE DEF q, k, w
    <2> QED BY <1>a, <1>b
  <1>2. \A i \in 1 .. Len(sendQueue) : Gone + i \in 1 .. Len(queued)
    BY <1>c
  <1>3. ToSet(sendQueue) \subseteq ToSet(queued)
    BY <1>1, <1>2 DEF IInv, Order, ToSet
  <1>4. \A i \in 1 .. Len(taken) : i \in 1 .. Len(queued)
    BY <1>c
  <1>5. ToSet(taken) \subseteq ToSet(queued)
    BY <1>1, <1>4 DEF IInv, Order, ToSet
  <1>6. ASSUME sendQueue # <<>>, Head(sendQueue) \in ToSet(Tail(sendQueue)) PROVE FALSE
    <2>1. sendQueue \in Seq(Messages)
      BY DEF IInv, TypeInv
    <2>2. /\ Head(sendQueue) = sendQueue[1] /\ Len(sendQueue) > 0
          /\ Tail(sendQueue) \in Seq(Messages) /\ Len(Tail(sendQueue)) = Len(sendQueue) - 1
          /\ \A i \in 1 .. Len(sendQueue) - 1 : Tail(sendQueue)[i] = sendQueue[i + 1]
      BY <1>6, <2>1, Dequeued
    <2>3. PICK i \in 1 .. Len(sendQueue) - 1 : Tail(sendQueue)[i] = Head(sendQueue)
      BY <2>2, <1>6 DEF ToSet
    <2>4. /\ 1 \in 1 .. Len(sendQueue) /\ i + 1 \in 1 .. Len(sendQueue)
          /\ sendQueue[1] = sendQueue[i + 1]
      BY <2>2, <2>3, <1>1
    <2>5. queued[Gone + 1] = queued[Gone + (i + 1)]
      BY <2>4 DEF IInv, Order
    <2>6. Gone + 1 = Gone + (i + 1)
      BY <2>4, <2>5, <1>2 DEF IInv, Order
    <2> QED BY <2>6, <2>3, <1>1 DEF Gone
  <1> QED BY <1>3, <1>5, <1>6

\* The message a task has in its hand (StratumClient.Send).
LEMMA InHand ==
    ASSUME TypeInv, NEW t \in Tasks, pc[t] # "idle"
    PROVE  /\ Message(t) \in Messages
           /\ \A m \in Messages : m[1] \in Tasks /\ (m = Message(t) <=> m[1] = t /\ m[2] = sends[t])
  BY DEF TypeInv, Message, Messages

-----------------------------------------------------------------------------
(* The tasks.                                                              *)

LEMMA SendInv == ASSUME IInv, NEW t \in Tasks, Send(t) PROVE IInv'
  <1>1. /\ pc[t] = "idle" /\ sends' = [sends EXCEPT ![t] = @ + 1] /\ sends[t] \in Nat
        /\ pc' = [pc EXCEPT ![t] = IF isAlive THEN "rented" ELSE "idle"] /\ sends[t] + 1 <= MaxSends
        /\ UNCHANGED <<queued, sendQueue, taken, returned, drainer, tcp, loop>>
    BY DEF Send, client, queue, IInv, TypeInv
  <1>2. TypeInv'
    BY <1>1 DEF IInv, TypeInv
  <1>3. Order'
    BY <1>1 DEF IInv, Order, Gone
  <1>4. ASSUME NEW m \in Messages
        PROVE  m[1] \in Tasks /\ m[2] \in Nat /\ (Fresh(m)' => Fresh(m)) /\ (Waking(m)' <=> Waking(m))
    <2>1. m[1] \in Tasks /\ m[2] \in Nat
      BY DEF Messages
    <2>2. CASE m[1] = t
      BY <2>1, <2>2, <1>1 DEF IInv, TypeInv, Fresh, Waking
    <2>3. CASE m[1] # t
      BY <2>1, <2>3, <1>1 DEF IInv, TypeInv, Fresh, Waking
    <2> QED BY <2>1, <2>2, <2>3
  <1>5. Arrays'
    BY <1>1, <1>4 DEF IInv, Arrays, ArrayOf
  <1> QED BY <1>2, <1>3, <1>5 DEF IInv

LEMMA SerializeFailsInv == ASSUME IInv, NEW t \in Tasks, SerializeFails(t) PROVE IInv'
  <1>1. PICK x \in Messages :
           /\ x = Message(t)
           /\ \A m \in Messages : m[1] \in Tasks /\ (m = x <=> m[1] = t /\ m[2] = sends[t])
    BY InHand DEF IInv, SerializeFails
  <1>2. /\ pc[t] = "rented" /\ pc' = [pc EXCEPT ![t] = "idle"] /\ returned' = [returned EXCEPT ![x] = @ + 1]
        /\ UNCHANGED <<sends, queued, sendQueue, taken, drainer, tcp, loop>>
    BY <1>1 DEF SerializeFails, client, Return
  <1>3. TypeInv'
    BY <1>2, <1>1 DEF IInv, TypeInv
  <1>4. Order'
    BY <1>2 DEF IInv, Order, Gone
  <1>5. Fresh(x) /\ returned[x] = 0 /\ x \notin ToSet(queued) /\ x \notin ToSet(taken)
    <2>1. Fresh(x)
      BY <1>2, <1>1 DEF Fresh
    <2> QED BY <2>1, <1>1, QueueIsQueued DEF IInv, Arrays, ArrayOf
  <1>6. ASSUME NEW m \in Messages PROVE (Waking(m)' <=> Waking(m)) /\ (Fresh(m)' => Fresh(m) /\ m # x)
    BY <1>2, <1>1 DEF IInv, TypeInv, Fresh, Waking, Messages
  <1>7. returned'[x] = 1 /\ \A m \in Messages : m # x => returned'[m] = returned[m]
    BY <1>2, <1>1, <1>5 DEF IInv, TypeInv
  <1>8. Arrays'
    <2>1. ASSUME NEW m \in Messages, m # x PROVE ArrayOf(m)'
      BY <2>1, <1>2, <1>6, <1>7 DEF IInv, Arrays, ArrayOf
    <2>2. ~Fresh(x)' /\ ~Waking(x)'
      BY <1>2, <1>1 DEF IInv, TypeInv, Fresh, Waking
    <2> QED BY <2>1, <2>2, <1>2, <1>5, <1>7 DEF Arrays, ArrayOf
  <1> QED BY <1>3, <1>4, <1>8 DEF IInv

LEMMA EnqueueInv == ASSUME IInv, NEW t \in Tasks, Enqueue(t) PROVE IInv'
  <1>1. PICK x \in Messages :
           /\ x = Message(t)
           /\ \A m \in Messages : m[1] \in Tasks /\ (m = x <=> m[1] = t /\ m[2] = sends[t])
    BY InHand DEF IInv, Enqueue
  <1>2. /\ pc[t] = "rented" /\ pc' = [pc EXCEPT ![t] = "queued"]
        /\ sendQueue' = Append(sendQueue, x) /\ queued' = Append(queued, x)
        /\ UNCHANGED <<sends, taken, returned, drainer, tcp, loop>>
    BY <1>1 DEF Enqueue, client
  <1>3. Fresh(x) /\ returned[x] = 0 /\ x \notin ToSet(queued) /\ x \notin ToSet(sendQueue) /\ x \notin ToSet(taken)
    <2>1. Fresh(x)
      BY <1>2, <1>1 DEF Fresh
    <2> QED BY <2>1, <1>1, QueueIsQueued DEF IInv, Arrays, ArrayOf
  <1>4. queued \in Seq(Messages) /\ sendQueue \in Seq(Messages) /\ taken \in Seq(Messages)
    BY DEF IInv, TypeInv
  <1>5. /\ queued' \in Seq(Messages) /\ Len(queued') = Len(queued) + 1
        /\ \A i \in 1 .. Len(queued) : queued'[i] = queued[i]
        /\ queued'[Len(queued) + 1] = x /\ ToSet(queued') = ToSet(queued) \cup {x}
    BY <1>2, <1>1, <1>4, Appended
  <1>6. /\ sendQueue' \in Seq(Messages) /\ Len(sendQueue') = Len(sendQueue) + 1
        /\ \A i \in 1 .. Len(sendQueue) : sendQueue'[i] = sendQueue[i]
        /\ sendQueue'[Len(sendQueue) + 1] = x /\ ToSet(sendQueue') = ToSet(sendQueue) \cup {x}
    BY <1>2, <1>1, <1>4, Appended
  <1>7. TypeInv'
    BY <1>2, <1>1, <1>5, <1>6 DEF IInv, TypeInv
  <1>8. Order'
    <2> DEFINE q == Len(queued)
               k == Len(sendQueue)
               w == Len(taken)
    <2>1. q \in Nat /\ k \in Nat /\ w \in Nat /\ Gone = q - k /\ w <= Gone
      BY <1>4 DEF IInv, Order, Gone
    <2>2. Len(queued') = q + 1 /\ Len(sendQueue') = k + 1 /\ Len(taken') = w /\ Gone' = Gone
      <3>1. Gone' = (q + 1) - (k + 1)
        BY <1>5, <1>6 DEF Gone
      <3>2. Len(queued') = q + 1 /\ Len(sendQueue') = k + 1 /\ Len(taken') = w
        BY <1>2, <1>5, <1>6
      <3> HIDE DEF q, k, w
      <3> QED BY <3>1, <3>2, <2>1
    <2>3. /\ \A i \in 1 .. q : queued'[i] = queued[i]
          /\ queued'[q + 1] = x /\ \A i \in 1 .. q : queued[i] # x
          /\ \A i \in 1 .. k : sendQueue'[i] = sendQueue[i] /\ sendQueue[i] = queued[Gone + i]
          /\ sendQueue'[k + 1] = x
          /\ \A i \in 1 .. w : taken'[i] = queued[i]
          /\ \A i, j \in 1 .. q : queued[i] = queued[j] => i = j
      <3>1. \A i \in 1 .. q : queued[i] # x
        <4>1. DOMAIN queued = 1 .. q
          BY <1>4
        <4> QED BY <4>1, <1>3 DEF ToSet
      <3> QED BY <3>1, <1>2, <1>5, <1>6 DEF IInv, Order
    <2> HIDE DEF q, k, w
    <2>4. /\ \A i \in 1 .. w : taken'[i] = queued'[i]
          /\ \A i \in 1 .. k + 1 : sendQueue'[i] = queued'[Gone + i]
      <3>1. ASSUME NEW i \in 1 .. w PROVE taken'[i] = queued'[i]
        <4>1. i \in 1 .. q
          BY <2>1
        <4> QED BY <4>1, <2>3
      <3>2. ASSUME NEW i \in 1 .. k + 1 PROVE sendQueue'[i] = queued'[Gone + i]
        <4>1. CASE i = k + 1
          <5>1. Gone + i = q + 1
            BY <4>1, <2>1
          <5> QED BY <5>1, <4>1, <2>3
        <4>2. CASE i # k + 1
          <5>1. i \in 1 .. k /\ Gone + i \in 1 .. q
            BY <4>2, <2>1
          <5> QED BY <5>1, <2>3
        <4> QED BY <4>1, <4>2
      <3> QED BY <3>1, <3>2
    <2>5. ASSUME NEW i \in 1 .. q + 1, NEW j \in 1 .. q + 1, queued'[i] = queued'[j] PROVE i = j
      <3>1. (i = q + 1 \/ i \in 1 .. q) /\ (j = q + 1 \/ j \in 1 .. q)
        BY <2>1
      <3> QED BY <3>1, <2>3, <2>5
    <2>6. tcp' = "open" /\ loop' # "empty" => Gone' = w
      BY <1>2, <2>2 DEF IInv, Order, w
    <2>7. w <= Gone' /\ (loop' = "drain" => tcp' = "open")
      BY <2>1, <2>2, <1>2 DEF IInv, Order
    <2> QED BY <2>2, <2>4, <2>5, <2>6, <2>7 DEF Order
  <1>9. Arrays'
    <2>1. Waking(x)' /\ ~Fresh(x)' /\ ~Waking(x)
      BY <1>2, <1>1 DEF IInv, TypeInv, Fresh, Waking
    <2>2. ASSUME NEW m \in Messages, m # x PROVE (Waking(m)' <=> Waking(m)) /\ (Fresh(m)' <=> Fresh(m))
      BY <2>2, <1>2, <1>1 DEF IInv, TypeInv, Fresh, Waking
    <2>3. ASSUME NEW m \in Messages, m # x PROVE ArrayOf(m)'
      BY <2>2, <2>3, <1>2, <1>5, <1>6 DEF IInv, Arrays, ArrayOf
    <2> QED BY <2>1, <2>3, <1>2, <1>3, <1>5, <1>6 DEF Arrays, ArrayOf
  <1> QED BY <1>7, <1>8, <1>9 DEF IInv

LEMMA WakeInv == ASSUME IInv, NEW t \in Tasks, Wake(t) PROVE IInv'
  <1>1. PICK x \in Messages :
           /\ x = Message(t)
           /\ \A m \in Messages : m[1] \in Tasks /\ (m = x <=> m[1] = t /\ m[2] = sends[t])
    BY InHand DEF IInv, Wake
  <1>2. /\ pc[t] = "queued" /\ pc' = [pc EXCEPT ![t] = "idle"]
        /\ returned' = IF drainer = "open" THEN returned ELSE [returned EXCEPT ![x] = @ + 1]
        /\ UNCHANGED <<sends, queued, sendQueue, taken, drainer, tcp, loop>>
    BY <1>1 DEF Wake, client, Return
  <1>3. TypeInv'
    BY <1>2, <1>1 DEF IInv, TypeInv
  <1>4. Order'
    BY <1>2 DEF IInv, Order, Gone
  <1>5. Waking(x) /\ ~Waking(x)' /\ ~Fresh(x)'
    BY <1>2, <1>1 DEF IInv, TypeInv, Fresh, Waking
  <1>6. ASSUME NEW m \in Messages, m # x PROVE (Waking(m)' <=> Waking(m)) /\ (Fresh(m)' <=> Fresh(m))
    BY <1>6, <1>2, <1>1 DEF IInv, TypeInv, Fresh, Waking
  <1>7. /\ returned'[x] \in {returned[x], returned[x] + 1} /\ returned[x] \in Nat
        /\ drainer # "disposed" => returned'[x] = returned[x]
        /\ \A m \in Messages : m # x => returned'[m] = returned[m]
    BY <1>2, <1>1 DEF IInv, TypeInv
  <1>8. Arrays'
    <2>1. ASSUME NEW m \in Messages, m # x PROVE ArrayOf(m)'
      BY <2>1, <1>2, <1>6, <1>7 DEF IInv, Arrays, ArrayOf
    <2>2. x \in ToSet(queued)
      BY <1>1, <1>5 DEF IInv, Arrays, ArrayOf
    <2>3. returned[x] + (IF x \in ToSet(sendQueue) THEN 1 ELSE 0) <= 1 /\ (x \in ToSet(taken) => returned[x] > 0)
      BY <1>1, <1>5, <1>7, <2>2 DEF IInv, Arrays, ArrayOf
    <2>4. drainer # "disposed" => returned[x] = IF x \in ToSet(sendQueue) THEN 0 ELSE 1
      BY <1>1, <2>2 DEF IInv, Arrays, ArrayOf
    <2> QED BY <2>1, <2>2, <2>3, <2>4, <1>2, <1>5, <1>7 DEF Arrays, ArrayOf
  <1> QED BY <1>3, <1>4, <1>8 DEF IInv

-----------------------------------------------------------------------------
(* The loop.                                                               *)

\* Steps that leave the queue alone keep the order, unless they begin to write
\* while the connection is not open (StratumClient.DrainSendQueue, Receive).
LEMMA QueueAlone ==
    ASSUME IInv, UNCHANGED <<queued, sendQueue, taken, returned, drainer, tasks>>,
           tcp' = "open" /\ loop' # "empty" => tcp = "open" /\ loop # "empty",
           loop' = "drain" => tcp' = "open"
    PROVE  IInv'
  <1>1. TypeInv'
    BY DEF IInv, TypeInv, tasks
  <1>2. Order'
    BY DEF IInv, Order, Gone
  <1>3. Arrays'
    BY DEF IInv, Arrays, ArrayOf, Fresh, Waking, tasks
  <1> QED BY <1>1, <1>2, <1>3 DEF IInv

LEMMA QuietInv ==
    ASSUME IInv, Disconnect \/ DrainSendQueue \/ DrainEnd \/ Shutdown \/ Complete \/ CloseHandle
    PROVE  IInv'
  <1>1. UNCHANGED <<queued, sendQueue, taken, returned, drainer, tasks>>
    BY DEF Disconnect, DrainSendQueue, DrainEnd, Shutdown, Complete, CloseHandle, queue, client
  <1>2. /\ tcp' = "open" /\ loop' # "empty" => tcp = "open" /\ loop # "empty"
        /\ loop' = "drain" => tcp' = "open"
    BY DEF IInv, Order, Disconnect, DrainSendQueue, DrainEnd, Shutdown, Complete, CloseHandle, client
  <1> QED BY <1>1, <1>2, QueueAlone

LEMMA DisposeDrainerInv == ASSUME IInv, DisposeDrainer PROVE IInv'
  <1>1. /\ drainer' = "disposed" /\ loop' = "empty"
        /\ UNCHANGED <<queued, sendQueue, taken, returned, tcp, pc, sends>>
    BY DEF DisposeDrainer, client, tasks
  <1>2. TypeInv'
    BY <1>1 DEF IInv, TypeInv
  <1>3. Order'
    BY <1>1 DEF IInv, Order, Gone
  <1>4. Arrays'
    BY <1>1 DEF IInv, Arrays, ArrayOf, Fresh, Waking
  <1> QED BY <1>2, <1>3, <1>4 DEF IInv

\* The first message of the queue is the one that follows those that are gone;
\* it leaves the queue and its array is returned (StratumClient.DrainSendQueue,
\* Receive).
LEMMA LeavesQueue ==
    ASSUME IInv, sendQueue # <<>>, sendQueue' = Tail(sendQueue), Return(Head(sendQueue)),
           \/ taken' = taken
           \/ taken' = Append(taken, Head(sendQueue)) /\ tcp = "open" /\ loop # "empty",
           taken' = taken => loop = "empty" /\ loop' = loop,
           loop' = loop \/ loop' = "idle",
           UNCHANGED <<queued, drainer, tcp, tasks>>
    PROVE  IInv'
  <1>1. queued \in Seq(Messages) /\ sendQueue \in Seq(Messages) /\ taken \in Seq(Messages)
    BY DEF IInv, TypeInv
  <1>2. PICK x \in Messages : x = Head(sendQueue)
    BY <1>1, Dequeued
  <1>3. /\ x = sendQueue[1] /\ Len(sendQueue) > 0
        /\ sendQueue' \in Seq(Messages) /\ Len(sendQueue') = Len(sendQueue) - 1
        /\ \A i \in 1 .. Len(sendQueue) - 1 : sendQueue'[i] = sendQueue[i + 1]
        /\ ToSet(sendQueue) = ToSet(sendQueue') \cup {x}
    BY <1>1, <1>2, Dequeued
  <1>4. x \in ToSet(queued) /\ x \in ToSet(sendQueue) /\ x \notin ToSet(sendQueue')
    BY <1>2, <1>3, QueueIsQueued
  <1>5. /\ taken' \in Seq(Messages)
        /\ ToSet(taken') \subseteq ToSet(taken) \cup {x}
    <2>1. CASE taken' = taken
      BY <2>1, <1>1
    <2>2. CASE taken' = Append(taken, x)
      <3>1. /\ Append(taken, x) \in Seq(Messages)
            /\ ToSet(Append(taken, x)) = ToSet(taken) \cup {x}
        BY <1>1, Appended
      <3> QED BY <3>1, <2>2
    <2> QED BY <2>1, <2>2, <1>2
  <1>6. /\ returned' \in [Messages -> Nat] /\ returned'[x] = returned[x] + 1 /\ returned[x] \in Nat
        /\ \A m \in Messages : m # x => returned'[m] = returned[m]
    BY <1>2 DEF IInv, TypeInv, Return
  <1>7. TypeInv'
    BY <1>3, <1>5, <1>6 DEF IInv, TypeInv, tasks
  <1>8. Order'
    <2> DEFINE q == Len(queued)
               k == Len(sendQueue)
               w == Len(taken)
    <2>1. q \in Nat /\ k \in Nat /\ w \in Nat /\ Gone = q - k /\ w <= Gone /\ k > 0
      BY <1>1, <1>3 DEF IInv, Order, Gone
    <2>2. Len(queued') = q /\ Len(sendQueue') = k - 1 /\ Gone' = Gone + 1
      <3>1. Len(queued') = q /\ Len(sendQueue') = k - 1 /\ Gone' = Len(queued') - Len(sendQueue')
        BY <1>3 DEF Gone
      <3> HIDE DEF q, k
      <3> QED BY <3>1, <2>1
    <2>3. /\ \A i \in 1 .. k : sendQueue[i] = queued[Gone + i]
          /\ \A i \in 1 .. w : taken[i] = queued[i]
          /\ \A i \in 1 .. k - 1 : sendQueue'[i] = sendQueue[i + 1]
          /\ x = sendQueue[1]
      BY <1>3 DEF IInv, Order
    <2>4. \A i \in 1 .. k - 1 : sendQueue'[i] = queued[Gone' + i]
      <3> HIDE DEF q, k, w
      <3> TAKE i \in 1 .. k - 1
      <3>1. i + 1 \in 1 .. k /\ Gone' + i = Gone + (i + 1)
        BY <2>1, <2>2
      <3> QED BY <3>1, <2>3
    <2>5. x = queued[Gone + 1]
      <3>1. 1 \in 1 .. k
        BY <2>1
      <3> QED BY <3>1, <2>3
    <2>6. CASE taken' = taken
      <3>1. w <= Gone' /\ ~(tcp' = "open" /\ loop' # "empty") /\ (loop' = "drain" => tcp' = "open")
        <4>1. w <= Gone'
          <5> HIDE DEF w
          <5> QED BY <2>1, <2>2
        <4> QED BY <4>1, <2>6 DEF IInv, Order
      <3> QED BY <3>1, <2>2, <2>3, <2>4, <2>6 DEF IInv, Order
    <2>7. CASE taken' = Append(taken, x) /\ tcp = "open" /\ loop # "empty"
      <3>1. /\ Len(taken') = w + 1 /\ taken'[w + 1] = x
            /\ \A i \in 1 .. w : taken'[i] = taken[i]
        BY <2>7, <1>1, Appended
      <3>2. Gone = w /\ tcp' = "open"
        BY <2>7 DEF IInv, Order
      <3>3. \A i \in 1 .. w + 1 : taken'[i] = queued[i]
        <4> HIDE DEF w
        <4> TAKE i \in 1 .. w + 1
        <4>1. i = w + 1 \/ i \in 1 .. w
          BY <2>1
        <4> QED BY <4>1, <3>1, <3>2, <2>3, <2>5
      <3>4. Gone' = Len(taken')
        BY <3>1, <3>2, <2>2
      <3>5. Len(taken') <= Gone'
        BY <3>4, <2>1, <2>2
      <3> QED BY <3>1, <3>2, <3>3, <3>4, <3>5, <2>2, <2>4 DEF IInv, Order
    <2> QED BY <2>6, <2>7, <1>2
  <1>9. Arrays'
    <2>1. ASSUME NEW m \in Messages PROVE (Waking(m)' <=> Waking(m)) /\ (Fresh(m)' <=> Fresh(m))
      BY DEF Fresh, Waking, tasks
    <2>2. ASSUME NEW m \in Messages, m # x PROVE ArrayOf(m)'
      BY <2>1, <2>2, <1>3, <1>5, <1>6 DEF IInv, Arrays, ArrayOf
    <2>3. ~Fresh(x) /\ returned[x] <= 1 /\ (Waking(x) => returned[x] = 0) /\ (drainer # "disposed" => returned[x] = 0)
      BY <1>4 DEF IInv, Arrays, ArrayOf
    <2>4. ArrayOf(x)'
      BY <2>1, <2>3, <1>4, <1>6 DEF ArrayOf
    <2> QED BY <2>2, <2>4 DEF Arrays
  <1> QED BY <1>7, <1>8, <1>9 DEF IInv

LEMMA TakeInv == ASSUME IInv, DrainOne \/ DrainFails PROVE IInv'
  <1> Take /\ (loop' = loop \/ loop' = "idle")
    BY DEF DrainOne, DrainFails
  <1>1. loop = "drain" /\ tcp = "open"
    BY DEF IInv, Order, Take
  <1>2. taken' # taken
    <2>1. taken \in Seq(Messages) /\ Head(sendQueue) \in Messages
      BY Dequeued DEF IInv, TypeInv, Take
    <2>2. Len(taken') = Len(taken) + 1 /\ Len(taken) \in Nat
      BY <2>1, Appended DEF Take
    <2> QED BY <2>2
  <1> QED BY <1>1, <1>2, LeavesQueue DEF Take, client

LEMMA EmptyOneInv == ASSUME IInv, EmptyOne PROVE IInv'
  <1>1. /\ sendQueue # <<>> /\ sendQueue' = Tail(sendQueue) /\ Return(Head(sendQueue))
        /\ loop = "empty" /\ loop' = loop /\ taken' = taken
        /\ UNCHANGED <<queued, drainer, tcp, tasks>>
    BY DEF EmptyOne, client
  <1>2. /\ \/ taken' = taken
           \/ taken' = Append(taken, Head(sendQueue)) /\ tcp = "open" /\ loop # "empty"
        /\ taken' = taken => loop = "empty" /\ loop' = loop
    BY <1>1
  <1> QED BY <1>1, <1>2, LeavesQueue

-----------------------------------------------------------------------------
(* The theorems.                                                           *)

LEMMA IInvInit == Init => IInv
  <1> SUFFICES ASSUME Init PROVE IInv
    OBVIOUS
  <1>1. /\ queued = <<>> /\ sendQueue = <<>> /\ taken = <<>> /\ tcp = "open" /\ loop = "idle"
        /\ returned = [m \in Messages |-> 0] /\ drainer = "open"
        /\ pc = [t \in Tasks |-> "idle"] /\ sends = [t \in Tasks |-> 0]
    BY DEF Init
  <1>2. TypeInv
    BY <1>1 DEF TypeInv
  <1>3. Order
    BY <1>1 DEF Order, Gone
  <1>4. ToSet(<<>>) = {}
    BY DEF ToSet
  <1>5. Arrays
    <2> SUFFICES ASSUME NEW m \in Messages PROVE ArrayOf(m)
      BY DEF Arrays
    <2>1. m[1] \in Tasks
      BY DEF Messages
    <2> QED BY <2>1, <1>1, <1>4 DEF ArrayOf, Waking
  <1> QED BY <1>2, <1>3, <1>5 DEF IInv

LEMMA IInvStep == IInv /\ [Next]_vars => IInv'
  <1> SUFFICES ASSUME IInv, [Next]_vars PROVE IInv'
    OBVIOUS
  <1>1. CASE UNCHANGED vars
    <2>1. UNCHANGED <<queued, sendQueue, taken, returned, drainer, tasks, tcp, loop>>
      BY <1>1 DEF vars, queue, client
    <2>2. /\ tcp' = "open" /\ loop' # "empty" => tcp = "open" /\ loop # "empty"
          /\ loop' = "drain" => tcp' = "open"
      BY <2>1 DEF IInv, Order
    <2> QED BY <2>1, <2>2, QueueAlone
  <1>2. ASSUME NEW t \in Tasks, Send(t) \/ SerializeFails(t) \/ Enqueue(t) \/ Wake(t) PROVE IInv'
    BY <1>2, SendInv, SerializeFailsInv, EnqueueInv, WakeInv
  <1>3. CASE Disconnect \/ DrainSendQueue \/ DrainEnd \/ Shutdown \/ Complete \/ CloseHandle
    BY <1>3, QuietInv
  <1>4. CASE DrainOne \/ DrainFails \/ DisposeDrainer \/ EmptyOne
    BY <1>4, TakeInv, DisposeDrainerInv, EmptyOneInv
  <1> QED BY <1>1, <1>2, <1>3, <1>4 DEF Next, Completion

LEMMA IInvHolds == Spec => []IInv
  BY IInvInit, IInvStep, PTL DEF Spec

\* A signal is given after a message is queued, and only a drain uses it up
\* (StratumClient.SendInternal, DrainSendQueue).
LEMMA SignalsStep == TypeInv /\ Signals /\ [Next]_vars => Signals'
  <1> SUFFICES ASSUME TypeInv, Signals, [Next]_vars PROVE Signals'
    OBVIOUS
  <1>1. CASE UNCHANGED vars
    BY <1>1 DEF Signals, vars, queue, client, tasks
  <1>2. ASSUME NEW t \in Tasks, Send(t) \/ SerializeFails(t) PROVE Signals'
    <2>1. /\ pc[t] # "queued" /\ \A u \in Tasks : u # t => pc'[u] = pc[u]
          /\ UNCHANGED <<tcp, loop, drainer, sendQueue, woken, broken>>
      BY <1>2 DEF TypeInv, Send, SerializeFails, client, queue
    <2> QED BY <2>1 DEF Signals
  <1>3. ASSUME NEW t \in Tasks, Enqueue(t) PROVE Signals'
    <2>1. pc'[t] = "queued" /\ UNCHANGED <<tcp, loop, drainer>>
      BY <1>3 DEF TypeInv, Enqueue, client
    <2> QED BY <2>1 DEF Signals
  <1>4. ASSUME NEW t \in Tasks, Wake(t) PROVE Signals'
    <2>1. /\ drainer = "open" => woken'
          /\ UNCHANGED <<tcp, loop, drainer, sendQueue, broken>>
      BY <1>4 DEF Wake, client
    <2> QED BY <2>1 DEF Signals
  <1>5. CASE Disconnect \/ DrainSendQueue \/ Shutdown \/ Complete
    BY <1>5 DEF Signals, Disconnect, DrainSendQueue, Shutdown, Complete, client, queue, tasks
  <1>6. CASE DrainOne \/ DrainFails \/ DrainEnd
    BY <1>6 DEF Signals, DrainOne, DrainFails, DrainEnd, Take, client, queue
  <1>7. CASE Completion
    BY <1>7 DEF Signals, Completion, DisposeDrainer, EmptyOne, CloseHandle, client, queue
  <1> QED BY <1>1, <1>2, <1>3, <1>4, <1>5, <1>6, <1>7 DEF Next

LEMMA SignalsHolds == Spec => []Signals
  <1>1. Init => Signals
    BY DEF Init, Signals
  <1>2. IInv => TypeInv
    BY DEF IInv
  <1> QED BY <1>1, <1>2, SignalsStep, IInvHolds, PTL DEF Spec

\* Whatever the tasks send and wherever a write throws or the connection is shut
\* down, breaks or is closed: the loop takes the messages in their order, and
\* while the connection is open none waits in the queue without a wake-up, except
\* behind a write that threw (StratumClient.SendInternal, DrainSendQueue).
THEOREM NoMessageForgotten == Spec => []NoneForgotten
  <1>1. ASSUME IInv, Signals PROVE NoneForgotten
    <2> DEFINE q == Len(queued)
               k == Len(sendQueue)
               w == Len(taken)
    <2>1. /\ queued \in Seq(Messages) /\ sendQueue \in Seq(Messages) /\ taken \in Seq(Messages)
          /\ q \in Nat /\ k \in Nat /\ w \in Nat /\ Gone = q - k /\ w <= Gone
      BY <1>1 DEF IInv, TypeInv, Order, Gone
    <2>2. w <= q
      <3> HIDE DEF q, k, w
      <3> QED BY <2>1
    <2>3. taken = SubSeq(queued, 1, w)
      <3>1. /\ SubSeq(queued, 1, w) \in Seq(Messages) /\ Len(SubSeq(queued, 1, w)) = w
            /\ \A i \in 1 .. w : SubSeq(queued, 1, w)[i] = queued[i]
        BY <2>1, <2>2
      <3>2. \A i \in 1 .. w : taken[i] = SubSeq(queued, 1, w)[i]
        BY <3>1, <1>1 DEF IInv, Order
      <3> HIDE DEF w
      <3> DEFINE s == SubSeq(queued, 1, w)
      <3>3. s \in Seq(Messages) /\ Len(taken) = Len(s) /\ \A i \in 1 .. Len(taken) : taken[i] = s[i]
        BY <3>1, <3>2 DEF w
      <3> HIDE DEF s
      <3>4. taken = s
        BY <3>3, <2>1, SeqEqual
      <3> QED BY <3>4 DEF s
    <2>4. IsInjective(queued)
      <3>1. DOMAIN queued = 1 .. q
        BY <2>1
      <3> QED BY <3>1, <1>1 DEF IInv, Order, IsInjective
    <2>5. ASSUME tcp = "open", loop # "empty" PROVE queued = taken \o sendQueue
      <3>1. Gone = w /\ q = w + k
        <4>1. Gone = w
          BY <2>5, <1>1 DEF IInv, Order
        <4> HIDE DEF q, k, w
        <4> QED BY <4>1, <2>1
      <3> DEFINE s == taken \o sendQueue
      <3>2. /\ s \in Seq(Messages) /\ Len(s) = w + k
            /\ \A i \in 1 .. w : s[i] = taken[i]
            /\ \A i \in 1 .. k : s[w + i] = sendQueue[i]
        BY <2>1
      <3> HIDE DEF s
      <3>3. ASSUME NEW i \in 1 .. q PROVE queued[i] = s[i]
        <4>1. CASE i <= w
          <5>1. i \in 1 .. w
            <6> HIDE DEF q, k, w
            <6> QED BY <4>1, <2>1
          <5> QED BY <5>1, <3>2, <1>1 DEF IInv, Order
        <4>2. CASE ~(i <= w)
          <5>1. i - w \in 1 .. k /\ w + (i - w) = i
            <6> HIDE DEF q, k, w
            <6> QED BY <4>2, <3>1, <2>1
          <5>2. s[w + (i - w)] = sendQueue[i - w] /\ sendQueue[i - w] = queued[Gone + (i - w)]
            BY <5>1, <3>2, <1>1 DEF IInv, Order
          <5> QED BY <5>1, <5>2, <3>1
        <4> QED BY <4>1, <4>2
      <3>4. queued = s
        BY <2>1, <3>1, <3>2, <3>3, SeqEqual
      <3> QED BY <3>4 DEF s
    <2> QED BY <2>3, <2>4, <2>5, <1>1 DEF NoneForgotten, Signals
  <1> QED BY <1>1, IInvHolds, SignalsHolds, PTL

\* An array is returned once and not while its message is queued, for every
\* number of tasks and messages; the exception is the race of a send with the
\* completion (StratumClient.SendInternal).
THEOREM ArraysGoBackOnce == Spec => []ReturnedOnce
  <1>1. ASSUME IInv PROVE ReturnedOnce
    <2> SUFFICES ASSUME NEW m \in Messages
                 PROVE  /\ returned[m] <= IF Caught(m) THEN 2 ELSE 1
                        /\ returned[m] > 0 /\ m \in ToSet(sendQueue) => Caught(m)
                        /\ m \in ToSet(taken) => returned[m] > 0
      BY DEF ReturnedOnce
    <2>1. ArrayOf(m) /\ returned[m] \in Nat
      BY <1>1 DEF IInv, TypeInv, Arrays
    <2>2. m \in ToSet(sendQueue) => m \in ToSet(queued)
      BY <1>1, QueueIsQueued
    <2> QED BY <2>1, <2>2 DEF ArrayOf, Caught
  <1> QED BY <1>1, IInvHolds, PTL
-----------------------------------------------------------------------------
(* FlattenSeq, with which LineBuffer joins segments: by the least length    *)
(* for which the equation that defines it had no solution, or another one. *)

\* The equation by which FlattenSeq is defined.
Flattened(q, f) == f = [i \in 1 .. Len(q) |-> IF i = 1 THEN q[i] ELSE f[i - 1] \o q[i]]

LEMMA FlattenedExists ==
    ASSUME NEW S, NEW q \in Seq(S)
    PROVE  \E f : Flattened(q, f)
  <1> DEFINE F(f, i) == IF i = 1 THEN q[i] ELSE f[i - 1] \o q[i]
             Upto(n) == \E f : f = [i \in 1 .. n |-> F(f, i)]
             Wrong == {n \in Nat : ~Upto(n)}
  <1>1. Upto(0)
    <2> DEFINE f == [i \in {} |-> q[i]]
    <2>1. f = [i \in 1 .. 0 |-> F(f, i)]
      OBVIOUS
    <2> QED BY <2>1
  <1>2. ASSUME NEW n \in Nat, n # 0, Upto(n - 1) PROVE Upto(n)
    <2>1. PICK f : f = [i \in 1 .. n - 1 |-> F(f, i)]
      BY <1>2
    <2> DEFINE g == [i \in 1 .. n |-> F(f, i)]
    <2>2. \A i \in 1 .. n : i # 1 => g[i - 1] = f[i - 1]
      <3> SUFFICES ASSUME NEW i \in 1 .. n, i # 1 PROVE g[i - 1] = f[i - 1]
        OBVIOUS
      <3>1. i - 1 \in 1 .. n - 1 /\ i - 1 \in 1 .. n
        BY <1>2
      <3>2. f[i - 1] = F(f, i - 1)
        <4> HIDE DEF F
        <4> QED BY <2>1, <3>1
      <3>3. g[i - 1] = F(f, i - 1)
        <4> HIDE DEF F
        <4> QED BY <3>1
      <3> QED BY <3>2, <3>3
    <2>3. \A i \in 1 .. n : F(f, i) = F(g, i)
      BY <2>2
    <2>4. g = [i \in 1 .. n |-> F(g, i)]
      <3> HIDE DEF F
      <3> QED BY <2>3
    <2> QED BY <2>4
  <1> HIDE DEF Upto
  <1>3. Wrong = {}
    <2> SUFFICES ASSUME Wrong # {} PROVE FALSE
      OBVIOUS
    <2>1. PICK n \in Wrong : \A m \in Wrong : n <= m
      <3>1. Wrong \subseteq Nat
        OBVIOUS
      <3> HIDE DEF Wrong
      <3> QED BY <3>1, LeastNumber
    <2>2. n \in Nat /\ n # 0
      BY <1>1
    <2>3. n - 1 \in Nat /\ ~(n <= n - 1)
      BY <2>2
    <2>4. Upto(n - 1)
      BY <2>1, <2>3
    <2> QED BY <2>2, <2>4, <1>2
  <1>4. Len(q) \in Nat
    BY LenProperties
  <1>5. Upto(Len(q))
    BY <1>3, <1>4
  <1> QED BY <1>5 DEF Flattened, Upto

LEMMA FlattenedSame ==
    ASSUME NEW S, NEW q \in Seq(S), NEW s \in S, NEW f, NEW g,
           Flattened(q, f), Flattened(Append(q, s), g)
    PROVE  \A i \in 1 .. Len(q) : f[i] = g[i]
  <1> DEFINE Wrong == {i \in 1 .. Len(q) : f[i] # g[i]}
  <1> SUFFICES ASSUME Wrong # {} PROVE FALSE
    OBVIOUS
  <1>1. PICK n \in Wrong : \A m \in Wrong : n <= m
    <2>1. Wrong \subseteq Nat
      OBVIOUS
    <2> HIDE DEF Wrong
    <2> QED BY <2>1, LeastNumber
  <1>2. f[n] = IF n = 1 THEN q[n] ELSE f[n - 1] \o q[n]
    BY DEF Flattened
  <1>3. g[n] = IF n = 1 THEN q[n] ELSE g[n - 1] \o q[n]
    <2>1. n \in 1 .. Len(Append(q, s)) /\ Append(q, s)[n] = q[n]
      BY AppendProperties
    <2> QED BY <2>1 DEF Flattened
  <1>4. n # 1 => n - 1 \in 1 .. Len(q) /\ n - 1 \notin Wrong
    BY <1>1
  <1> QED BY <1>2, <1>3, <1>4

LEMMA FlattenValue ==
    ASSUME NEW S, NEW q \in Seq(S)
    PROVE  \E f : /\ Flattened(q, f)
                  /\ FlattenSeq(q) = IF Len(q) = 0 THEN q ELSE f[Len(q)]
  <1> DEFINE f == CHOOSE f : Flattened(q, f)
  <1>1. FlattenSeq(q) = IF Len(q) = 0 THEN q ELSE f[Len(q)]
    BY DEF FlattenSeq, Flattened
  <1>2. Flattened(q, f)
    BY FlattenedExists
  <1> QED BY <1>1, <1>2

LEMMA FlattenEmpty == FlattenSeq(<<>>) = <<>>
  BY DEF FlattenSeq

LEMMA FlattenType ==
    ASSUME NEW S, NEW q \in Seq(Seq(S))
    PROVE  FlattenSeq(q) \in Seq(S)
  <1>1. PICK f : /\ Flattened(q, f)
                 /\ FlattenSeq(q) = IF Len(q) = 0 THEN q ELSE f[Len(q)]
    BY FlattenValue
  <1> DEFINE Wrong == {i \in 1 .. Len(q) : f[i] \notin Seq(S)}
  <1>2. Wrong = {}
    <2> SUFFICES ASSUME Wrong # {} PROVE FALSE
      OBVIOUS
    <2>1. PICK n \in Wrong : \A m \in Wrong : n <= m
      <3>1. Wrong \subseteq Nat
        OBVIOUS
      <3> HIDE DEF Wrong
      <3> QED BY <3>1, LeastNumber
    <2>2. f[n] = IF n = 1 THEN q[n] ELSE f[n - 1] \o q[n]
      BY <1>1 DEF Flattened
    <2>3. q[n] \in Seq(S)
      BY ElementOfSeq
    <2>4. n # 1 => f[n - 1] \in Seq(S)
      BY <2>1
    <2> QED BY <2>2, <2>3, <2>4, ConcatProperties
  <1>3. CASE Len(q) = 0
    BY <1>1, <1>3, EmptySeq
  <1>4. CASE Len(q) # 0
    <2>1. Len(q) \in 1 .. Len(q)
      BY <1>4, LenProperties
    <2> QED BY <2>1, <1>1, <1>2, <1>4
  <1> QED BY <1>3, <1>4

LEMMA FlattenAppend ==
    ASSUME NEW S, NEW q \in Seq(Seq(S)), NEW s \in Seq(S)
    PROVE  FlattenSeq(Append(q, s)) = FlattenSeq(q) \o s
  <1> DEFINE r == Append(q, s)
  <1>1. r \in Seq(Seq(S)) /\ Len(r) = Len(q) + 1 /\ r[Len(q) + 1] = s /\ Len(q) \in Nat
    BY AppendProperties, LenProperties
  <1>2. PICK f : /\ Flattened(q, f)
                 /\ FlattenSeq(q) = IF Len(q) = 0 THEN q ELSE f[Len(q)]
    BY FlattenValue
  <1>3. PICK g : Flattened(r, g) /\ FlattenSeq(r) = IF Len(r) = 0 THEN r ELSE g[Len(r)]
    <2> HIDE DEF r
    <2> QED BY <1>1, FlattenValue
  <1>4. \A i \in 1 .. Len(q) : f[i] = g[i]
    <2> DEFINE T == Seq(S)
    <2>1. q \in Seq(T) /\ s \in T
      OBVIOUS
    <2> HIDE DEF T
    <2> QED BY <2>1, <1>2, <1>3, FlattenedSame
  <1> HIDE DEF r
  <1>5. FlattenSeq(r) = IF Len(r) = 1 THEN s ELSE g[Len(q)] \o s
    <2>1. Len(r) \in 1 .. Len(r) /\ Len(r) # 0 /\ Len(r) - 1 = Len(q)
      BY <1>1
    <2>2. FlattenSeq(r) = g[Len(r)]
      BY <2>1, <1>3
    <2>3. g[Len(r)] = IF Len(r) = 1 THEN r[Len(r)] ELSE g[Len(r) - 1] \o r[Len(r)]
      BY <2>1, <1>3 DEF Flattened
    <2> QED BY <2>1, <2>2, <2>3, <1>1
  <1>6. CASE Len(q) = 0
    <2>1. q = <<>>
      BY <1>6, EmptySeq
    <2>2. FlattenSeq(q) \o s = s
      BY <2>1, FlattenEmpty, ConcatEmptySeq
    <2> QED BY <2>2, <1>1, <1>5, <1>6 DEF r
  <1>7. CASE Len(q) # 0
    <2>1. Len(q) \in 1 .. Len(q) /\ Len(r) # 1
      BY <1>1, <1>7
    <2>2. FlattenSeq(r) = f[Len(q)] \o s
      BY <2>1, <1>4, <1>5
    <2> QED BY <2>2, <1>2, <1>7 DEF r
  <1> QED BY <1>6, <1>7

-----------------------------------------------------------------------------
(* Lines.                                                                  *)

Byte == Bytes \cup {NL, Zero}

\* How much of the input the loop has passed on or queued.
Consumed == Len(input) - remaining

LineTyped ==
    /\ recvQueue \in Seq(Seq(Byte)) /\ lines \in Seq(Seq(Byte)) /\ input \in Seq(Byte)
    /\ error \in BOOLEAN
    /\ buf \in Seq(Byte) /\ bufferSize \in 0 .. MaxLength
    /\ bufferSize <= Len(buf) /\ bufferSize <= Len(input)
    /\ prevIndex \in 0 .. bufferSize /\ remaining = bufferSize - prevIndex

\* The array holds the end of the input, and nothing else.
ChunkIsInput ==
    /\ buf = <<>> => bufferSize = 0
    /\ \A i \in 1 .. bufferSize : buf[i] = input[Len(input) - bufferSize + i]
    /\ \A i \in bufferSize + 1 .. Len(buf) : buf[i] = Zero

\* The lines are those that end before the position n.
EndsBefore(n) == {j \in LineEnds : j < n}
LinesUpto(out, n) ==
    /\ Len(out) = Cardinality(EndsBefore(n))
    /\ \A j \in EndsBefore(n) : \A i \in 1 .. j :
          IsLine(i, j) => out[LineNumber(j)] = SubSeq(input, i, j)

\* The last newline up to n is at m.
NewlineAt(m, n) == (m = 0 \/ input[m] = NL) /\ \A k \in m + 1 .. n : input[k] # NL

Assembled ==
    ~error =>
        /\ LinesUpto(lines, Consumed)
        /\ \E m \in 0 .. Consumed : /\ NewlineAt(m, Consumed)
                                    /\ FlattenSeq(recvQueue) = SubSeq(input, m + 1, Consumed)
        /\ ~TooMuch(recvQueue)
        /\ \A k \in DOMAIN lines : Len(lines[k]) < 2 * MaxLength

LineInv == LineTyped /\ ChunkIsInput /\ Assembled

LEMMA LineEndsFinite ==
    ASSUME input \in Seq(Byte), NEW T, T \subseteq LineEnds
    PROVE  IsFiniteSet(T) /\ Cardinality(T) \in Nat
  <1>1. IsFiniteSet(1 .. Len(input) - 1)
    BY FS_Interval, LenProperties
  <1>2. T \subseteq 1 .. Len(input) - 1
    BY DEF LineEnds
  <1> QED BY <1>1, <1>2, FS_Subset, FS_CardinalityType

\* The number of a line that ended is one of those before.
LEMMA LineNumberBound ==
    ASSUME input \in Seq(Byte), NEW n \in Int, NEW j \in EndsBefore(n)
    PROVE  LineNumber(j) \in 1 .. Cardinality(EndsBefore(n))
  <1> DEFINE T == {k \in LineEnds : k <= j}
  <1>1. EndsBefore(n) \subseteq LineEnds /\ j \in T /\ j \in Int
    BY DEF EndsBefore, LineEnds
  <1>2. T \subseteq EndsBefore(n)
    BY <1>1 DEF EndsBefore, LineEnds
  <1>3. IsFiniteSet(EndsBefore(n)) /\ IsFiniteSet(T) /\ Cardinality(T) \in Nat
    BY <1>1, LineEndsFinite
  <1> HIDE DEF T
  <1>4. Cardinality(T) <= Cardinality(EndsBefore(n))
    BY <1>2, <1>3, FS_Subset
  <1>5. Cardinality(T) # 0
    BY <1>1, <1>3, FS_EmptySet
  <1>6. Cardinality(EndsBefore(n)) \in Nat
    BY <1>1, LineEndsFinite
  <1> QED BY <1>3, <1>4, <1>5, <1>6 DEF LineNumber, T

\* Passing on what is between two newlines, if anything is, keeps the lines right.
LEMMA LinesGrow ==
    ASSUME input \in Seq(Byte), NEW out \in Seq(Seq(Byte)),
           NEW n \in Nat, NEW m \in 0 .. n, NEW k \in n + 1 .. Len(input),
           LinesUpto(out, n), NewlineAt(m, k - 1), input[k] = NL
    PROVE  LET line == SubSeq(input, m + 1, k - 1)
           IN  LinesUpto(IF line = <<>> THEN out ELSE Append(out, line), k)
  <1> DEFINE line == SubSeq(input, m + 1, k - 1)
             new == IF line = <<>> THEN out ELSE Append(out, line)
  <1>1. line \in Seq(Byte) /\ Len(line) = IF m + 1 <= k - 1 THEN k - 1 - m ELSE 0
    <2>1. \A i \in m + 1 .. k - 1 : input[i] \in Byte
      BY ElementOfSeq
    <2> QED BY <2>1, SubSeqProperties
  <1>2. \A j \in EndsBefore(k) \ EndsBefore(n) : j = k - 1
    BY DEF EndsBefore, LineEnds, NewlineAt
  <1>3. EndsBefore(n) \subseteq EndsBefore(k)
    BY DEF EndsBefore, LineEnds
  <1>4. ASSUME NEW j \in EndsBefore(n)
        PROVE  LineNumber(j) \in 1 .. Len(out)
    BY LineNumberBound DEF LinesUpto
  <1>5. CASE line = <<>>
    <2>1. m = k - 1
      BY <1>1, <1>5
    <2>2. k - 1 \notin LineEnds
      BY <2>1 DEF LineEnds, NewlineAt
    <2>3. EndsBefore(k) = EndsBefore(n)
      BY <1>2, <1>3, <2>2 DEF EndsBefore
    <2> QED BY <1>5, <2>3 DEF LinesUpto
  <1>6. CASE line # <<>>
    <2>1. m < k - 1
      BY <1>1, <1>6
    <2>2. k - 1 \in EndsBefore(k)
      BY <2>1 DEF EndsBefore, LineEnds, NewlineAt
    <2>3. k - 1 \notin EndsBefore(n) /\ EndsBefore(k) = EndsBefore(n) \cup {k - 1}
      BY <1>2, <1>3, <2>2 DEF EndsBefore
    <2>4. IsFiniteSet(EndsBefore(n))
      BY LineEndsFinite DEF EndsBefore
    <2>5. Cardinality(EndsBefore(k)) = Len(out) + 1
      <3>1. Len(out) = Cardinality(EndsBefore(n))
        BY DEF LinesUpto
      <3>2. Cardinality(EndsBefore(n) \cup {k - 1}) = Cardinality(EndsBefore(n)) + 1
        BY <2>3, <2>4, FS_AddElement
      <3> QED BY <2>3, <3>1, <3>2
    <2>6. /\ Len(Append(out, line)) = Len(out) + 1
          /\ \A i \in 1 .. Len(out) : Append(out, line)[i] = out[i]
          /\ Append(out, line)[Len(out) + 1] = line
      BY <1>1, AppendProperties
    <2>7. LineNumber(k - 1) = Len(out) + 1
      <3>1. {j \in LineEnds : j <= k - 1} = EndsBefore(k)
        BY DEF EndsBefore, LineEnds
      <3> QED BY <3>1, <2>5 DEF LineNumber
    <2>8. ASSUME NEW i \in 1 .. k - 1, IsLine(i, k - 1) PROVE i = m + 1
      <3>1. i > m
        BY <2>8, <2>1 DEF IsLine, NewlineAt
      <3>2. ~(i - 1 \in m + 1 .. k - 1)
        BY <2>8 DEF IsLine, NewlineAt
      <3> QED BY <3>1, <3>2
    <2>9. ASSUME NEW j \in EndsBefore(k), NEW i \in 1 .. j, IsLine(i, j)
          PROVE  Append(out, line)[LineNumber(j)] = SubSeq(input, i, j)
      <3>1. CASE j = k - 1
        BY <2>6, <2>7, <2>8, <2>9, <3>1
      <3>2. CASE j # k - 1
        <4>1. j \in EndsBefore(n)
          BY <1>2, <3>2
        <4> QED BY <4>1, <1>4, <2>6, <2>9 DEF LinesUpto
      <3> QED BY <3>1, <3>2
    <2> QED BY <2>5, <2>6, <2>9, <1>6 DEF LinesUpto
  <1> QED BY <1>5, <1>6

-----------------------------------------------------------------------------
(* The steps.                                                              *)

LEMMA ConsumedType == ASSUME LineTyped PROVE Consumed \in Nat /\ Consumed <= Len(input)
  BY LenProperties DEF LineTyped, Consumed

LEMMA LineInvInit == LineInit => LineInv
  <1> SUFFICES ASSUME LineInit PROVE LineInv
    OBVIOUS
  <1> USE DEF LineInit
  <1>1. LineTyped
    <2>1. <<>> \in Seq(Seq(Byte)) /\ <<>> \in Seq(Byte)
      BY EmptySeq
    <2>2. Len(<<>>) = 0
      OBVIOUS
    <2>3. MaxLength \in Nat
      BY LineBufferAssumption
    <2>4. recvQueue = <<>> /\ lines = <<>> /\ input = <<>> /\ buf = <<>>
      OBVIOUS
    <2>5. bufferSize = 0 /\ prevIndex = 0 /\ remaining = 0 /\ error \in BOOLEAN
      OBVIOUS
    <2> QED BY <2>1, <2>2, <2>3, <2>4, <2>5 DEF LineTyped
  <1>2. ChunkIsInput
    BY DEF ChunkIsInput
  <1>3. Assembled
    <2>1. LineEnds = {} /\ EndsBefore(Consumed) = {} /\ Consumed = 0
      BY DEF LineEnds, EndsBefore, Consumed
    <2>2. LinesUpto(lines, Consumed)
      BY <2>1, FS_EmptySet DEF LinesUpto
    <2>3. NewlineAt(0, Consumed)
      BY <2>1 DEF NewlineAt
    <2>4. FlattenSeq(recvQueue) = SubSeq(input, 0 + 1, Consumed) /\ ~TooMuch(recvQueue)
      <3>1. SubSeq(input, 0 + 1, Consumed) = <<>>
        BY <2>1, SubSeqEmpty
      <3>2. FlattenSeq(recvQueue) = <<>>
        BY FlattenEmpty
      <3>3. ~(Len(<<>>) > MaxLength)
        BY LineBufferAssumption
      <3> QED BY <3>1, <3>2, <3>3 DEF TooMuch
    <2>5. 0 \in 0 .. Consumed /\ DOMAIN lines = {}
      BY <2>1
    <2> QED BY <2>2, <2>3, <2>4, <2>5 DEF Assembled
  <1> QED BY <1>1, <1>2, <1>3 DEF LineInv

\* What comes in behind the end changes nothing before it.
LEMMA ReceiveInv ==
    ASSUME LineInv, NEW n \in 1 .. MaxChunk, NEW chunk \in [1 .. n -> Bytes \cup {NL}],
           NEW left \in Leftovers, Receive(chunk, left)
    PROVE  LineInv'
  <1> USE DEF LineInv
  <1>1. chunk \in Seq(Byte) /\ Len(chunk) = n /\ n \in Nat
    BY DEF Byte
  <1>2. /\ input' \in Seq(Byte) /\ Len(input') = Len(input) + n
        /\ \A i \in 1 .. Len(input) : input'[i] = input[i]
        /\ \A i \in 1 .. n : input'[Len(input) + i] = chunk[i]
    <2>1. input' = input \o chunk /\ input \in Seq(Byte)
      BY DEF Receive, LineTyped
    <2>2. Len(input) \in Nat
      BY <2>1, LenProperties
    <2>3. /\ input \o chunk \in Seq(Byte) /\ Len(input \o chunk) = Len(input) + n
          /\ \A i \in 1 .. Len(input) + n :
                (input \o chunk)[i] = IF i <= Len(input) THEN input[i] ELSE chunk[i - Len(input)]
      BY <1>1, <2>1, ConcatProperties
    <2> QED BY <1>1, <2>1, <2>2, <2>3
  <1>3. bufferSize = 0 /\ prevIndex = 0 /\ remaining = 0 /\ buf = <<>> /\ Consumed = Len(input)
    BY DEF Receive, ChunkIsInput, LineTyped, Consumed
  <1>4. CASE Len(chunk) > MaxLength
    <2>1. LineTyped'
      BY <1>2, <1>3, <1>4 DEF Receive, LineTyped
    <2>2. ChunkIsInput'
      BY <1>3, <1>4 DEF Receive, ChunkIsInput
    <2>3. Assembled'
      BY <1>4 DEF Receive, Assembled
    <2> QED BY <2>1, <2>2, <2>3
  <1>5. CASE ~(Len(chunk) > MaxLength)
    <2> DEFINE rest == [i \in DOMAIN left |-> Zero]
    <2>1. left \in Seq(Bytes \cup {NL})
      BY LineBufferAssumption
    <2>2. rest \in Seq(Byte) /\ \A i \in 1 .. Len(rest) : rest[i] = Zero
      BY <2>1, LenProperties, IsASeq DEF Byte
    <2> HIDE DEF rest
    <2>3. /\ buf' \in Seq(Byte) /\ Len(buf') = n + Len(rest)
          /\ \A i \in 1 .. n : buf'[i] = chunk[i]
          /\ \A i \in n + 1 .. Len(buf') : buf'[i] = Zero
      <3>1. buf' = chunk \o rest
        BY <1>5 DEF Receive, Rented, rest
      <3>2. Len(rest) \in Nat
        BY <2>2, LenProperties
      <3>3. /\ chunk \o rest \in Seq(Byte) /\ Len(chunk \o rest) = n + Len(rest)
            /\ \A i \in 1 .. n + Len(rest) :
                  (chunk \o rest)[i] = IF i <= n THEN chunk[i] ELSE rest[i - n]
        BY <1>1, <2>2, ConcatProperties
      <3>4. \A i \in n + 1 .. n + Len(rest) : i - n \in 1 .. Len(rest)
        BY <1>1, <3>2
      <3> QED BY <3>1, <3>2, <3>3, <3>4, <1>1, <2>2
    <2>4. /\ bufferSize' = n /\ remaining' = n /\ prevIndex' = 0
          /\ UNCHANGED <<error, recvQueue, lines>>
      BY <1>1, <1>3, <1>5 DEF Receive
    <2>5. LineTyped'
      <3>1. Len(rest) \in Nat /\ Len(input) \in Nat /\ MaxLength \in Nat
        BY <2>2, LineBufferAssumption, LenProperties DEF LineTyped
      <3>2. n \in 0 .. MaxLength /\ n <= Len(buf') /\ n <= Len(input')
        BY <3>1, <1>1, <1>2, <1>5, <2>3
      <3> QED BY <3>2, <1>1, <1>2, <2>3, <2>4 DEF LineTyped
    <2>6. ChunkIsInput'
      BY <1>2, <2>2, <2>3, <2>4, LenProperties DEF ChunkIsInput, LineTyped
    <2>7. Assembled'
      <3> SUFFICES ASSUME ~error PROVE Assembled'
        BY <2>4 DEF Assembled
      <3>1. PICK len \in Nat :
               /\ len = Len(input) /\ Consumed' = len /\ Consumed = len
               /\ Len(input') \in Nat /\ Len(input') >= len
               /\ \A k \in 1 .. len : input'[k] = input[k]
        <4>1. Len(input) \in Nat
          BY LenProperties DEF LineTyped
        <4>2. Consumed' = Len(input)
          BY <4>1, <1>1, <1>2, <2>4 DEF Consumed
        <4>3. Len(input') \in Nat /\ Len(input') >= Len(input)
          BY <4>1, <1>1, <1>2
        <4> QED BY <4>1, <4>2, <4>3, <1>2, <1>3
      <3>2. EndsBefore(len)' = EndsBefore(len)
        BY <3>1 DEF EndsBefore, LineEnds
      <3>3. \A j \in EndsBefore(len) : LineNumber(j)' = LineNumber(j)
        <4>1. \A j \in EndsBefore(len) : {k \in LineEnds' : k <= j} = {k \in LineEnds : k <= j}
          BY <3>1 DEF EndsBefore, LineEnds
        <4> QED BY <4>1 DEF LineNumber
      <3>4. ASSUME NEW j \in EndsBefore(len), NEW i \in 1 .. j, IsLine(i, j)'
            PROVE  IsLine(i, j)
        <4>1. j \in 1 .. len - 1
          BY <3>1 DEF EndsBefore, LineEnds
        <4>2. /\ \A k \in i .. j : input'[k] # NL
              /\ input'[j + 1] = NL
              /\ i = 1 \/ input'[i - 1] = NL
          BY <3>4 DEF IsLine
        <4>3. /\ \A k \in i .. j : k \in 1 .. len
              /\ j + 1 \in 1 .. len
              /\ i # 1 => i - 1 \in 1 .. len
          BY <3>1, <4>1
        <4> QED BY <3>1, <4>2, <4>3 DEF IsLine
      <3>5. \A j \in 0 .. len : \A i \in 1 .. j + 1 : SubSeq(input', i, j) = SubSeq(input, i, j)
        <4> SUFFICES ASSUME NEW j \in 0 .. len, NEW i \in 1 .. j + 1
                     PROVE  SubSeq(input', i, j) = SubSeq(input, i, j)
          OBVIOUS
        <4>1. \A k \in i .. j : input'[k] = input[k] /\ input[k] \in Byte
          <5>1. \A k \in i .. j : k \in 1 .. Len(input)
            BY <3>1
          <5>2. input \in Seq(Byte)
            BY DEF LineTyped
          <5> QED BY <5>1, <5>2, <3>1, ElementOfSeq
        <4>2. /\ SubSeq(input, i, j) \in Seq(Byte)
              /\ Len(SubSeq(input, i, j)) = IF i <= j THEN j - i + 1 ELSE 0
              /\ \A k \in 1 .. j - i + 1 : SubSeq(input, i, j)[k] = input[i + k - 1]
          BY <4>1, SubSeqProperties
        <4>3. /\ SubSeq(input', i, j) \in Seq(Byte)
              /\ Len(SubSeq(input', i, j)) = IF i <= j THEN j - i + 1 ELSE 0
              /\ \A k \in 1 .. j - i + 1 : SubSeq(input', i, j)[k] = input'[i + k - 1]
          <5>1. \A k \in i .. j : input'[k] \in Byte
            BY <4>1
          <5> QED BY <5>1, SubSeqProperties
        <4>4. \A k \in 1 .. j - i + 1 : SubSeq(input', i, j)[k] = SubSeq(input, i, j)[k]
          BY <4>1, <4>2, <4>3
        <4> DEFINE sub == SubSeq(input, i, j)
                   new == SubSeq(input', i, j)
        <4>5. Len(sub) = Len(new)
          BY <4>2, <4>3
        <4>6. \A k \in 1 .. Len(sub) : new[k] = sub[k]
          BY <4>2, <4>4
        <4>7. sub \in Seq(Byte) /\ new \in Seq(Byte)
          BY <4>2, <4>3
        <4> HIDE DEF sub, new
        <4>8. sub = new
          BY <4>5, <4>6, <4>7, SeqEqual
        <4> QED BY <4>8 DEF sub, new
      <3>6. LinesUpto(lines, len)'
        <4>1. LinesUpto(lines, len)
          BY <3>1 DEF Assembled
        <4>2. ASSUME NEW j \in EndsBefore(len), NEW i \in 1 .. j, IsLine(i, j)'
              PROVE  lines[LineNumber(j)'] = SubSeq(input', i, j)
          <5>1. lines[LineNumber(j)] = SubSeq(input, i, j)
            BY <4>1, <4>2, <3>4 DEF LinesUpto
          <5>2. j \in 0 .. len /\ i \in 1 .. j + 1
            BY <3>1 DEF EndsBefore, LineEnds
          <5> QED BY <5>1, <5>2, <3>3, <3>5
        <4> QED BY <4>1, <4>2, <2>4, <3>2 DEF LinesUpto
      <3>7. PICK m \in 0 .. len : NewlineAt(m, len) /\ FlattenSeq(recvQueue) = SubSeq(input, m + 1, len)
        BY <3>1 DEF Assembled
      <3>8. NewlineAt(m, len)' /\ FlattenSeq(recvQueue)' = SubSeq(input', m + 1, len)
        <4>1. NewlineAt(m, len)'
          <5>1. m \in 1 .. len => input'[m] = input[m]
            BY <3>1
          <5>2. \A k \in m + 1 .. len : k \in 1 .. len
            BY <3>7
          <5> QED BY <3>1, <3>7, <5>1, <5>2 DEF NewlineAt
        <4>2. SubSeq(input', m + 1, len) = SubSeq(input, m + 1, len)
          <5>1. len \in 0 .. len /\ m + 1 \in 1 .. len + 1
            OBVIOUS
          <5> QED BY <5>1, <3>5
        <4> QED BY <4>1, <4>2, <2>4, <3>7
      <3> QED BY <3>1, <3>6, <3>8, <2>4 DEF Assembled, TooMuch
    <2> QED BY <2>5, <2>6, <2>7
  <1> QED BY <1>4, <1>5

\* Where the newline that was found is in the input, and what is before it.
LEMMA FoundLine ==
    ASSUME LineTyped, ChunkIsInput, Found, NEW k, k = Consumed + Index - prevIndex
    PROVE  /\ Index \in prevIndex + 1 .. bufferSize
           /\ k \in Consumed + 1 .. Len(input) /\ input[k] = NL
           /\ \A i \in Consumed + 1 .. k - 1 : input[i] # NL
           /\ Piece = SubSeq(input, Consumed + 1, k - 1)
           /\ Piece \in Seq(Byte) /\ Len(Piece) = k - 1 - Consumed
  <1> DEFINE off == Len(input) - bufferSize
  <1>1. /\ Len(input) \in Nat /\ Len(buf) \in Nat /\ bufferSize \in Nat /\ prevIndex \in Nat
        /\ bufferSize <= Len(buf) /\ off \in Nat /\ Consumed = off + prevIndex
    BY LineBufferAssumption, LenProperties DEF LineTyped, Consumed
  <1>2. Index \in Newlines /\ \A i \in Newlines : Index <= i
    <2>1. Newlines \subseteq Nat /\ Newlines # {}
      BY <1>1 DEF Found, Newlines
    <2>2. \E i \in Newlines : \A j \in Newlines : i <= j
      BY <2>1, LeastNumber
    <2> QED BY <2>2 DEF Index
  <1>3. Index \in prevIndex + 1 .. bufferSize
    BY <1>1, <1>2, LineBufferAssumption DEF Newlines, ChunkIsInput
  <1>4. \A i \in prevIndex + 1 .. bufferSize : buf[i] = input[off + i] /\ i \in 1 .. bufferSize
    BY <1>1 DEF ChunkIsInput
  <1>5. \A i \in prevIndex + 1 .. Index - 1 : buf[i] # NL
    BY <1>1, <1>2, <1>3 DEF Newlines
  <1>6. k = off + Index /\ k \in Consumed + 1 .. Len(input)
    BY <1>1, <1>3
  <1>7. input[k] = NL
    BY <1>2, <1>3, <1>4, <1>6 DEF Newlines
  <1>8. \A i \in Consumed + 1 .. k - 1 : input[i] # NL
    <2> SUFFICES ASSUME NEW i \in Consumed + 1 .. k - 1 PROVE input[i] # NL
      OBVIOUS
    <2>1. i - off \in prevIndex + 1 .. Index - 1 /\ off + (i - off) = i /\ i - off \in prevIndex + 1 .. bufferSize
      BY <1>1, <1>3, <1>6
    <2> QED BY <2>1, <1>4, <1>5
  <1> DEFINE sub == SubSeq(input, Consumed + 1, k - 1)
  <1> HIDE DEF off
  <1>9. /\ Piece \in Seq(Byte) /\ Len(Piece) = k - 1 - Consumed
        /\ \A i \in 1 .. k - 1 - Consumed : Piece[i] = buf[prevIndex + i]
    <2>1. \A i \in prevIndex + 1 .. Index - 1 : buf[i] \in Byte
      <3>1. \A i \in prevIndex + 1 .. Index - 1 : i \in 1 .. Len(buf)
        BY <1>1, <1>3
      <3> QED BY <3>1, ElementOfSeq DEF LineTyped
    <2>2. /\ SubSeq(buf, prevIndex + 1, Index - 1) \in Seq(Byte)
          /\ Len(SubSeq(buf, prevIndex + 1, Index - 1)) =
                IF prevIndex + 1 <= Index - 1 THEN Index - 1 - (prevIndex + 1) + 1 ELSE 0
          /\ \A i \in 1 .. Index - 1 - (prevIndex + 1) + 1 :
                SubSeq(buf, prevIndex + 1, Index - 1)[i] = buf[prevIndex + 1 + i - 1]
      <3>1. prevIndex + 1 \in Int /\ Index - 1 \in Int
        BY <1>1, <1>3
      <3> QED BY <2>1, <3>1, SubSeqProperties
    <2>3. Index - 1 - (prevIndex + 1) + 1 = k - 1 - Consumed
      BY <1>1, <1>3, <1>6
    <2>4. \A i \in Int : prevIndex + 1 + i - 1 = prevIndex + i
      BY <1>1
    <2> QED BY <1>1, <1>3, <2>2, <2>3, <2>4 DEF Piece
  <1>10. /\ sub \in Seq(Byte) /\ Len(sub) = k - 1 - Consumed
         /\ \A i \in 1 .. k - 1 - Consumed : sub[i] = input[Consumed + i]
    <2>1. \A i \in Consumed + 1 .. k - 1 : input[i] \in Byte
      <3>1. \A i \in Consumed + 1 .. k - 1 : i \in 1 .. Len(input)
        BY <1>1, <1>6
      <3> QED BY <3>1, ElementOfSeq DEF LineTyped
    <2>2. Consumed + 1 \in Int /\ k - 1 \in Int
      BY <1>1, <1>6
    <2>3. /\ sub \in Seq(Byte)
          /\ Len(sub) = IF Consumed + 1 <= k - 1 THEN k - 1 - (Consumed + 1) + 1 ELSE 0
          /\ \A i \in 1 .. k - 1 - (Consumed + 1) + 1 : sub[i] = input[Consumed + 1 + i - 1]
      BY <2>1, <2>2, SubSeqProperties
    <2>4. k - 1 - (Consumed + 1) + 1 = k - 1 - Consumed /\ k \in Int /\ Consumed \in Int
      BY <1>1, <1>6
    <2>5. \A i \in Int : Consumed + 1 + i - 1 = Consumed + i
      BY <2>4
    <2>6. Len(sub) = k - 1 - Consumed
      BY <2>3, <2>4, <1>6
    <2> QED BY <2>3, <2>4, <2>5, <2>6
  <1>11. \A i \in 1 .. k - 1 - Consumed : Piece[i] = sub[i]
    <2> SUFFICES ASSUME NEW i \in 1 .. k - 1 - Consumed PROVE Piece[i] = sub[i]
      OBVIOUS
    <2>1. prevIndex + i \in prevIndex + 1 .. bufferSize /\ off + (prevIndex + i) = Consumed + i
      BY <1>1, <1>3, <1>6
    <2>2. Piece[i] = buf[prevIndex + i] /\ sub[i] = input[Consumed + i]
      BY <1>9, <1>10
    <2> QED BY <2>1, <2>2, <1>4
  <1> HIDE DEF sub
  <1>12. Piece = sub
    BY <1>9, <1>10, <1>11, SeqEqual
  <1> QED BY <1>3, <1>6, <1>7, <1>8, <1>9, <1>12 DEF sub

\* What waits and what was found make a line that was sent.
LEMMA EmitInv ==
    ASSUME LineInv, Found, Consumed' = Consumed + Index - prevIndex,
           Emit(FlattenSeq(recvQueue) \o Piece), recvQueue' = <<>>, UNCHANGED <<input, error>>
    PROVE  lines' \in Seq(Seq(Byte)) /\ Assembled'
  <1> DEFINE line == FlattenSeq(recvQueue) \o Piece
  <1>1. PICK k : k = Consumed + Index - prevIndex
    OBVIOUS
  <1>2. /\ Index \in prevIndex + 1 .. bufferSize
        /\ k \in Consumed + 1 .. Len(input) /\ input[k] = NL
        /\ \A i \in Consumed + 1 .. k - 1 : input[i] # NL
        /\ Piece = SubSeq(input, Consumed + 1, k - 1)
        /\ Piece \in Seq(Byte) /\ Len(Piece) = k - 1 - Consumed
    BY <1>1, FoundLine DEF LineInv
  <1>3. /\ Consumed \in Nat /\ k \in Nat /\ Consumed' = k /\ MaxLength \in Nat
        /\ input \in Seq(Byte) /\ lines \in Seq(Seq(Byte)) /\ recvQueue \in Seq(Seq(Byte))
        /\ Len(input) \in Nat
    <2>1. input \in Seq(Byte) /\ lines \in Seq(Seq(Byte)) /\ recvQueue \in Seq(Seq(Byte))
      BY DEF LineInv, LineTyped
    <2>2. Consumed \in Nat /\ Len(input) \in Nat
      BY <2>1, ConsumedType, LenProperties DEF LineInv
    <2> QED BY <1>1, <1>2, <2>1, <2>2, LineBufferAssumption
  <1>4. FlattenSeq(recvQueue) \in Seq(Byte)
    BY <1>3, FlattenType
  <1>5. line \in Seq(Byte) /\ Len(line) = Len(FlattenSeq(recvQueue)) + Len(Piece)
    BY <1>2, <1>4, ConcatProperties
  <1>6. lines' = IF line = <<>> THEN lines ELSE Append(lines, line)
    BY DEF Emit
  <1>7. lines' \in Seq(Seq(Byte))
    <2> HIDE DEF line
    <2> QED BY <1>3, <1>5, <1>6, AppendProperties
  <1>8. ASSUME ~error PROVE Assembled'
    <2>1. PICK m \in 0 .. Consumed : /\ NewlineAt(m, Consumed)
                                     /\ FlattenSeq(recvQueue) = SubSeq(input, m + 1, Consumed)
      BY <1>8 DEF LineInv, Assembled
    <2>2. /\ LinesUpto(lines, Consumed) /\ ~(Len(FlattenSeq(recvQueue)) > MaxLength)
          /\ \A i \in DOMAIN lines : Len(lines[i]) < 2 * MaxLength
      BY <1>8 DEF LineInv, Assembled, TooMuch
    <2>3. NewlineAt(m, k - 1)
      BY <1>2, <1>3, <2>1 DEF NewlineAt
    <2>4. line = SubSeq(input, m + 1, k - 1)
      <3>1. /\ m + 1 \in 1 .. Len(input) + 1 /\ Consumed \in m + 1 - 1 .. Len(input)
            /\ k - 1 \in Consumed .. Len(input)
        BY <1>2, <1>3
      <3>2. SubSeq(input, m + 1, Consumed) \o SubSeq(input, Consumed + 1, k - 1) =
               SubSeq(input, m + 1, k - 1)
        BY <3>1, <1>3, ConcatAdjacentSubSeq
      <3> QED BY <3>2, <1>2, <2>1
    <2>5. LinesUpto(lines', k)
      <3> HIDE DEF line
      <3> QED BY <1>2, <1>3, <1>6, <2>2, <2>3, <2>4, LinesGrow
    <2>6. LinesUpto(lines, Consumed)'
      BY <2>5, <1>3 DEF LinesUpto, EndsBefore, LineEnds, IsLine, LineNumber
    <2>7. Len(line) < 2 * MaxLength
      <3>1. bufferSize \in 0 .. MaxLength /\ prevIndex \in Nat
        BY DEF LineInv, LineTyped
      <3>2. Len(Piece) < MaxLength
        BY <3>1, <1>1, <1>2, <1>3
      <3>3. Len(FlattenSeq(recvQueue)) \in Nat /\ Len(Piece) \in Nat
        BY <1>2, <1>4, LenProperties
      <3> QED BY <3>2, <3>3, <1>3, <1>5, <2>2
    <2>8. \A i \in DOMAIN lines' : Len(lines'[i]) < 2 * MaxLength
      <3> HIDE DEF line
      <3>1. CASE line = <<>>
        BY <3>1, <1>6, <2>2
      <3>2. CASE line # <<>>
        <4>1. /\ Len(lines') = Len(lines) + 1 /\ lines'[Len(lines) + 1] = line
              /\ \A i \in 1 .. Len(lines) : lines'[i] = lines[i]
          BY <3>2, <1>3, <1>5, <1>6, AppendProperties
        <4>2. DOMAIN lines = 1 .. Len(lines) /\ DOMAIN lines' = 1 .. Len(lines') /\ Len(lines) \in Nat
          BY <1>3, <1>7, LenProperties
        <4>3. \A i \in DOMAIN lines' : i \in DOMAIN lines \/ i = Len(lines) + 1
          BY <4>1, <4>2
        <4> QED BY <4>1, <4>2, <4>3, <2>2, <2>7
      <3> QED BY <3>1, <3>2
    <2>9. FlattenSeq(recvQueue') = <<>> /\ SubSeq(input, k + 1, k) = <<>> /\ ~TooMuch(recvQueue')
      <3>1. ~(Len(<<>>) > MaxLength)
        BY <1>3
      <3>2. SubSeq(input, k + 1, k) = <<>>
        BY <1>3, SubSeqEmpty
      <3> QED BY <3>1, <3>2, FlattenEmpty DEF TooMuch
    <2>10. NewlineAt(k, k)' /\ k \in 0 .. k
      BY <1>2, <1>3 DEF NewlineAt
    <2> QED BY <2>6, <2>8, <2>9, <2>10, <1>3 DEF Assembled
  <1>9. ASSUME error PROVE Assembled'
    BY <1>9 DEF Assembled
  <1> QED BY <1>7, <1>8, <1>9

LEMMA LeaveInv ==
    ASSUME LineInv, Leave, recvQueue' \in Seq(Seq(Byte)), lines' \in Seq(Seq(Byte)),
           error' \in BOOLEAN, UNCHANGED input
    PROVE  LineTyped' /\ ChunkIsInput' /\ Consumed' = Len(input)
  <1>1. <<>> \in Seq(Byte) /\ Len(<<>>) = 0 /\ input \in Seq(Byte)
    BY EmptySeq DEF LineInv, LineTyped
  <1>2. Len(input) \in Nat
    BY <1>1, LenProperties
  <1>3. LineTyped'
    BY <1>1, <1>2, LineBufferAssumption DEF Leave, LineTyped
  <1>4. ChunkIsInput'
    BY <1>1 DEF Leave, ChunkIsInput
  <1> QED BY <1>2, <1>3, <1>4 DEF Leave, Consumed

LEMMA FastPathInv == ASSUME LineInv, FastPath PROVE LineInv'
  <1>1. Consumed' = Consumed + Index - prevIndex
    <2>1. Leave /\ UNCHANGED input /\ Index = bufferSize
      BY DEF FastPath, AtEnd
    <2>2. Len(input) \in Nat /\ bufferSize \in Nat /\ prevIndex \in Nat /\ remaining = bufferSize - prevIndex
      BY LenProperties DEF LineInv, LineTyped
    <2> QED BY <2>1, <2>2 DEF Leave, Consumed
  <1>2. FlattenSeq(recvQueue) \o Piece = Piece
    <2>1. Piece \in Seq(Byte)
      BY FoundLine DEF LineInv, FastPath
    <2> QED BY <2>1, FlattenEmpty, ConcatEmptySeq DEF FastPath, AtEnd
  <1>3. recvQueue' = <<>> /\ recvQueue' = recvQueue
    BY DEF FastPath, AtEnd
  <1>4. lines' \in Seq(Seq(Byte)) /\ Assembled'
    BY <1>1, <1>2, <1>3, EmitInv DEF FastPath
  <1>5. recvQueue' \in Seq(Seq(Byte)) /\ error' \in BOOLEAN
    BY <1>3 DEF LineInv, LineTyped, FastPath
  <1> QED BY <1>4, <1>5, LeaveInv DEF LineInv, FastPath

LEMMA AssembleInv == ASSUME LineInv, Assemble PROVE LineInv'
  <1>1. /\ Index \in prevIndex + 1 .. bufferSize /\ Len(Piece) = Index - prevIndex - 1
        /\ bufferSize \in Nat /\ prevIndex \in Nat /\ Len(input) \in Nat
        /\ remaining = bufferSize - prevIndex /\ Consumed \in Nat
    <2>1. PICK k : k = Consumed + Index - prevIndex
      OBVIOUS
    <2>2. Index \in prevIndex + 1 .. bufferSize /\ Len(Piece) = k - 1 - Consumed
      BY <2>1, FoundLine DEF LineInv, Assemble
    <2>3. Consumed \in Nat /\ bufferSize \in Nat /\ prevIndex \in Nat /\ Len(input) \in Nat
          /\ remaining = bufferSize - prevIndex
      BY ConsumedType, LenProperties DEF LineInv, LineTyped
    <2> QED BY <2>1, <2>2, <2>3
  <1>2. remaining' = bufferSize - Index /\ prevIndex' = Index /\ recvQueue' = <<>>
        /\ UNCHANGED <<error, input, buf, bufferSize>>
    BY <1>1 DEF Assemble
  <1>3. Consumed' = Consumed + Index - prevIndex
    BY <1>1, <1>2 DEF Consumed
  <1>4. lines' \in Seq(Seq(Byte)) /\ Assembled'
    BY <1>2, <1>3, EmitInv DEF Assemble
  <1>5. LineTyped'
    <2>1. recvQueue' \in Seq(Seq(Byte))
      BY <1>2, EmptySeq
    <2> QED BY <2>1, <1>1, <1>2, <1>4 DEF LineInv, LineTyped
  <1>6. ChunkIsInput'
    BY <1>2 DEF LineInv, ChunkIsInput
  <1> QED BY <1>4, <1>5, <1>6 DEF LineInv

LEMMA StoreInv == ASSUME LineInv, Store PROVE LineInv'
  <1> DEFINE s == SubSeq(buf, prevIndex + 1, bufferSize)
             t == SubSeq(input, Consumed + 1, Len(input))
             off == Len(input) - bufferSize
  <1>1. /\ Len(input) \in Nat /\ Len(buf) \in Nat /\ bufferSize \in Nat /\ prevIndex \in 0 .. bufferSize
        /\ bufferSize <= Len(buf) /\ off \in Nat /\ Consumed = off + prevIndex /\ remaining > 0
        /\ remaining = bufferSize - prevIndex /\ Consumed \in Nat /\ Consumed < Len(input)
        /\ input \in Seq(Byte) /\ buf \in Seq(Byte) /\ recvQueue \in Seq(Seq(Byte))
        /\ lines \in Seq(Seq(Byte))
    BY LineBufferAssumption, LenProperties DEF LineInv, LineTyped, Consumed, Store
  <1>2. \A i \in prevIndex + 1 .. bufferSize :
           i \in 1 .. bufferSize /\ i \in 1 .. Len(buf) /\ buf[i] = input[off + i] /\ buf[i] \in Byte
    <2>1. \A i \in prevIndex + 1 .. bufferSize : i \in 1 .. bufferSize /\ i \in 1 .. Len(buf)
      BY <1>1
    <2>2. \A i \in 1 .. bufferSize : buf[i] = input[off + i]
      BY DEF LineInv, ChunkIsInput
    <2> HIDE DEF off
    <2> QED BY <2>1, <2>2, <1>1, ElementOfSeq
  <1> HIDE DEF off
  <1>3. \A i \in Consumed + 1 .. Len(input) : input[i] # NL /\ input[i] \in Byte
    <2> SUFFICES ASSUME NEW i \in Consumed + 1 .. Len(input) PROVE input[i] # NL /\ input[i] \in Byte
      OBVIOUS
    <2>1. i - off \in prevIndex + 1 .. bufferSize /\ off + (i - off) = i
      BY <1>1 DEF off
    <2>2. i - off \in prevIndex + 1 .. Len(buf) /\ i - off \notin Newlines
      BY <2>1, <1>1 DEF Store
    <2> QED BY <2>1, <2>2, <1>2 DEF Newlines
  <1>4. s \in Seq(Byte) /\ Len(s) = remaining /\ \A i \in 1 .. remaining : s[i] = buf[prevIndex + i]
    <2>1. \A i \in prevIndex + 1 .. bufferSize : buf[i] \in Byte
      BY <1>2
    <2>2. /\ s \in Seq(Byte)
          /\ Len(s) = IF prevIndex + 1 <= bufferSize THEN bufferSize - (prevIndex + 1) + 1 ELSE 0
          /\ \A i \in 1 .. bufferSize - (prevIndex + 1) + 1 : s[i] = buf[prevIndex + 1 + i - 1]
      <3>1. prevIndex + 1 \in Int /\ bufferSize \in Int
        BY <1>1
      <3> QED BY <2>1, <3>1, SubSeqProperties
    <2>3. bufferSize - (prevIndex + 1) + 1 = remaining /\ prevIndex + 1 <= bufferSize
      BY <1>1
    <2>4. \A i \in Int : prevIndex + 1 + i - 1 = prevIndex + i
      BY <1>1
    <2> QED BY <2>2, <2>3, <2>4, <1>1
  <1>5. t \in Seq(Byte) /\ Len(t) = remaining /\ \A i \in 1 .. remaining : t[i] = input[Consumed + i]
    <2>1. \A i \in Consumed + 1 .. Len(input) : input[i] \in Byte
      BY <1>3
    <2>2. /\ t \in Seq(Byte)
          /\ Len(t) = IF Consumed + 1 <= Len(input) THEN Len(input) - (Consumed + 1) + 1 ELSE 0
          /\ \A i \in 1 .. Len(input) - (Consumed + 1) + 1 : t[i] = input[Consumed + 1 + i - 1]
      <3>1. Consumed + 1 \in Int /\ Len(input) \in Int
        BY <1>1
      <3> QED BY <2>1, <3>1, SubSeqProperties
    <2>3. Len(input) - (Consumed + 1) + 1 = remaining /\ Consumed + 1 <= Len(input)
      BY <1>1 DEF Consumed
    <2>4. \A i \in Int : Consumed + 1 + i - 1 = Consumed + i
      BY <1>1
    <2> QED BY <2>2, <2>3, <2>4, <1>1
  <1>6. s = t
    <2>1. ASSUME NEW i \in 1 .. remaining PROVE s[i] = t[i]
      <3>1. prevIndex + i \in prevIndex + 1 .. bufferSize /\ off + (prevIndex + i) = Consumed + i
        BY <1>1 DEF off
      <3>2. s[i] = buf[prevIndex + i] /\ t[i] = input[Consumed + i]
        BY <1>4, <1>5
      <3> QED BY <3>1, <3>2, <1>2
    <2> HIDE DEF s, t
    <2> QED BY <2>1, <1>4, <1>5, SeqEqual
  <1>7. recvQueue' = Append(recvQueue, s) /\ UNCHANGED <<lines, input>> /\ Leave
        /\ error' = (error \/ TooMuch(recvQueue'))
    BY DEF Store
  <1> HIDE DEF s, t
  <1>8. recvQueue' \in Seq(Seq(Byte))
    BY <1>1, <1>4, <1>7, AppendProperties
  <1>9. error' \in BOOLEAN
    BY <1>7 DEF TooMuch
  <1>10. LineTyped' /\ ChunkIsInput' /\ Consumed' = Len(input)
    BY <1>1, <1>7, <1>8, <1>9, LeaveInv
  <1>11. ASSUME ~error' PROVE Assembled'
    <2>1. ~error /\ ~TooMuch(recvQueue')
      BY <1>7, <1>11
    <2>2. PICK m \in 0 .. Consumed : /\ NewlineAt(m, Consumed)
                                     /\ FlattenSeq(recvQueue) = SubSeq(input, m + 1, Consumed)
      BY <2>1 DEF LineInv, Assembled
    <2>3. FlattenSeq(recvQueue') = SubSeq(input, m + 1, Len(input))
      <3>1. FlattenSeq(recvQueue') = SubSeq(input, m + 1, Consumed) \o SubSeq(input, Consumed + 1, Len(input))
        BY <1>1, <1>4, <1>6, <1>7, <2>2, FlattenAppend DEF t
      <3>2. /\ m + 1 \in 1 .. Len(input) + 1 /\ Consumed \in m + 1 - 1 .. Len(input)
            /\ Len(input) \in Consumed .. Len(input)
        BY <1>1
      <3>3. SubSeq(input, m + 1, Consumed) \o SubSeq(input, Consumed + 1, Len(input)) =
               SubSeq(input, m + 1, Len(input))
        <4>1. input \in Seq(Byte)
          BY <1>1
        <4>2. PICK a, b, c : a = m + 1 /\ b = Consumed /\ c = Len(input)
          OBVIOUS
        <4>3. a \in 1 .. Len(input) + 1 /\ b \in a - 1 .. Len(input) /\ c \in b .. Len(input)
          BY <3>2, <4>2
        <4>4. SubSeq(input, a, b) \o SubSeq(input, b + 1, c) = SubSeq(input, a, c)
          BY <4>1, <4>3, ConcatAdjacentSubSeq
        <4> QED BY <4>2, <4>4
      <3> QED BY <3>1, <3>3
    <2>4. NewlineAt(m, Len(input))
      BY <1>1, <1>3, <2>2 DEF NewlineAt
    <2>5. EndsBefore(Len(input)) = EndsBefore(Consumed)
      BY <1>1, <1>3 DEF EndsBefore, LineEnds
    <2>6. LinesUpto(lines, Len(input))
      BY <2>1, <2>5 DEF LineInv, Assembled, LinesUpto
    <2>7. LinesUpto(lines, Consumed)'
      BY <2>6, <1>7, <1>10 DEF LinesUpto, EndsBefore, LineEnds, IsLine, LineNumber
    <2>8. NewlineAt(m, Consumed)' /\ m \in 0 .. Consumed'
      BY <2>4, <1>1, <1>7, <1>10 DEF NewlineAt
    <2>9. \A i \in DOMAIN lines' : Len(lines'[i]) < 2 * MaxLength
      BY <2>1, <1>7 DEF LineInv, Assembled
    <2> QED BY <2>1, <2>3, <2>7, <2>8, <2>9, <1>7, <1>10 DEF Assembled
  <1>12. ASSUME error' PROVE Assembled'
    BY <1>12 DEF Assembled
  <1> QED BY <1>10, <1>11, <1>12 DEF LineInv

LEMMA DoneInv == ASSUME LineInv, Done PROVE LineInv'
  <1>1. Consumed = Len(input) /\ remaining = 0
    <2>1. Len(input) \in Nat /\ bufferSize \in Nat /\ prevIndex \in 0 .. bufferSize
          /\ remaining = bufferSize - prevIndex /\ remaining <= 0
      BY LineBufferAssumption, LenProperties DEF LineInv, LineTyped, Done
    <2> QED BY <2>1 DEF Consumed
  <1>2. Leave /\ UNCHANGED <<recvQueue, lines, error, input>>
    BY DEF Done
  <1>3. LineTyped' /\ ChunkIsInput' /\ Consumed' = Len(input)
    BY <1>2, LeaveInv DEF LineInv, LineTyped
  <1>4. Assembled'
    <2>1. UNCHANGED <<recvQueue, lines, error, input>> /\ Consumed' = Consumed
      BY <1>1, <1>2, <1>3
    <2>2. LinesUpto(lines, Consumed)' = LinesUpto(lines, Consumed)
      BY <2>1 DEF LinesUpto, EndsBefore, LineEnds, IsLine, LineNumber
    <2>3. \A m \in 0 .. Consumed : NewlineAt(m, Consumed)' = NewlineAt(m, Consumed)
      BY <2>1 DEF NewlineAt
    <2> QED BY <2>1, <2>2, <2>3 DEF LineInv, Assembled, TooMuch
  <1> QED BY <1>3, <1>4 DEF LineInv

LEMMA LineInvStep == LineInv /\ [LineNext]_lineVars => LineInv'
  <1> SUFFICES ASSUME LineInv, [LineNext]_lineVars PROVE LineInv'
    OBVIOUS
  <1>1. CASE UNCHANGED lineVars
    <2>1. UNCHANGED <<recvQueue, lines, error, input, buf, bufferSize, prevIndex, remaining>>
      BY <1>1 DEF lineVars
    <2>2. LineTyped' /\ ChunkIsInput' /\ Consumed' = Consumed
      BY <2>1 DEF LineInv, LineTyped, ChunkIsInput, Consumed
    <2>3. Assembled'
      BY <2>1, <2>2 DEF LineInv, Assembled, LinesUpto, EndsBefore, LineEnds, IsLine, LineNumber,
                        NewlineAt, TooMuch
    <2> QED BY <2>2, <2>3 DEF LineInv
  <1>2. CASE LineNext
    BY <1>2, ReceiveInv, FastPathInv, AssembleInv, StoreInv, DoneInv DEF LineNext
  <1> QED BY <1>1, <1>2

\* The invariant says of the whole input what the property does.
LEMMA LineInvImplies == LineInv => LinesAreSent
  <1> SUFFICES ASSUME LineInv, ~error, buf = <<>>
               PROVE  /\ Len(lines) = Cardinality(LineEnds)
                      /\ \A j \in LineEnds : \A i \in 1 .. j :
                            IsLine(i, j) => lines[LineNumber(j)] = SubSeq(input, i, j)
                      /\ FlattenSeq(recvQueue) = Unfinished
                      /\ ~TooMuch(recvQueue)
                      /\ \A k \in DOMAIN lines : Len(lines[k]) < 2 * MaxLength
    BY DEF LinesAreSent
  <1>1. Consumed = Len(input) /\ Len(input) \in Nat /\ DOMAIN input = 1 .. Len(input)
    BY LenProperties DEF LineInv, LineTyped, ChunkIsInput, Consumed
  <1>2. EndsBefore(Consumed) = LineEnds
    BY <1>1 DEF EndsBefore, LineEnds
  <1>3. PICK m \in 0 .. Consumed : /\ NewlineAt(m, Consumed)
                                   /\ FlattenSeq(recvQueue) = SubSeq(input, m + 1, Consumed)
    BY DEF LineInv, Assembled
  <1>4. LastNewline = m
    <2> DEFINE T == {0} \cup {i \in DOMAIN input : input[i] = NL}
    <2>1. m \in T /\ T \subseteq Nat
      BY <1>1, <1>3 DEF NewlineAt
    <2>2. \A i \in T : m >= i
      BY <1>1, <1>3 DEF NewlineAt
    <2> HIDE DEF T
    <2>3. Max(T) = m
      <3>1. \A x \in T : (\A y \in T : x >= y) => x = m
        BY <2>1, <2>2
      <3> QED BY <2>1, <2>2, <3>1 DEF Max
    <2> QED BY <2>3 DEF LastNewline, T
  <1> QED BY <1>1, <1>2, <1>3, <1>4 DEF LineInv, Assembled, LinesUpto, Unfinished

\* However a client's bytes are cut into chunks, and whatever the rented arrays
\* still hold, the lines passed on are the lines it sent, and what waits is the
\* unfinished rest, for every length of chunks, lines and input
\* (PooledLineBuffer.Receive).
THEOREM LinesAreAlwaysSent == LineSpec => []LinesAreSent
  BY LineInvInit, LineInvStep, LineInvImplies, PTL DEF LineSpec
=============================================================================
