---------------------------- MODULE SessionProofs ----------------------------
(***************************************************************************)
(* Initial work and broadcasts of Session, for any number of clients and   *)
(* requests.  The argument for initial work: no thread has initial work in *)
(* its hand for a client whose flag is not set, so the thread that sets it *)
(* is the only one with initial work, and it keeps the work until it has   *)
(* sent it or the client is gone.  The argument for broadcasts: as long    *)
(* as no older job was put back, a client that was ready all the time has  *)
(* heard of the newest job, is still to be visited, or is the one that the *)
(* poll is sending that job to.                                            *)
(***************************************************************************)
EXTENDS Session, TLAPS

Works == [step : {"read", "job", "target"}, c : Clients, target : Nat, job : Nat,
          why : {"initial", "news", "retarget"}]

Steps == {"subscribe", "authorize", "submit", "static", "ensure", "accepted", "retarget", "recast",
          "done"}

TypeInv ==
    /\ made \in Nat \ {0} /\ current \in Nat
    /\ connected \subseteq Clients /\ initialSent \subseteq Clients
    /\ diff \in [Clients -> Nat]
    /\ told \in [Clients -> [job : Nat, target : Nat, newest : Nat, initial : Nat]]
    /\ cast \in [Threads -> SUBSET Clients] /\ due \subseteq Clients /\ undone \in BOOLEAN
    /\ send \in [Threads -> Works \cup {NoSend}]
    /\ req \in [Requests -> [pc : Steps, c : Clients, param : Nat] \cup {NoRequest}]

Initial ==
    /\ \A c \in Clients : /\ told[c].initial <= 1
                          /\ c \notin initialSent => told[c].initial = 0
                          /\ c \in initialSent \cap connected => Provided(c)
    /\ \A t \in Threads : Pending(t) => send[t].c \in initialSent
    /\ \A t \in Threads : Pending(t) => told[send[t].c].initial = 0
    /\ \A t, u \in Threads : Pending(t) /\ Pending(u) /\ send[t].c = send[u].c => t = u

\* The poll is sending the newest job to the client.
Sending(c) ==
    /\ send[Poll] # NoSend /\ send[Poll].c = c
    /\ \/ send[Poll].step = "read"
       \/ send[Poll].step = "job" /\ send[Poll].job = made

Coming(c) == told[c].newest = made \/ c \in cast[Poll] \/ Sending(c)

Known ==
    /\ current <= made
    /\ \A c \in Clients : told[c].newest <= made
    /\ \A t \in Threads : send[t] # NoSend => send[t].job <= made
    /\ \A r \in Requests : req[r].pc = "recast" => req[r].param <= made
    /\ ~undone => current = made

Reaches ==
    /\ \A c \in due : Ready(c)
    /\ ~undone => \A c \in due \cap connected : Coming(c)

\* Only a request that is done, or has ensured the initial work, sends work,
\* and only one that is done broadcasts.
Idle == \A r \in Requests : req[r].pc # "done" =>
            (req[r].pc # "retarget" => send[r] = NoSend) /\ cast[r] = {}

IInv == TypeInv /\ Initial /\ Known /\ Reaches /\ Idle

USE NumbersAssumption, ThreadsAssumption DEF Threads

-----------------------------------------------------------------------------
(* The shapes of the records.                                              *)

\* A thread that has something in its hand has work (AionPool.OnNewJob).
LEMMA Hand ==
    ASSUME TypeInv, NEW t \in Threads
    PROVE  /\ send[t] # NoSend => send[t] \in Works
           /\ send[t].step = "none" <=> send[t] = NoSend
  BY DEF TypeInv, Works, NoSend

\* A request that is not free has a client (StratumServer.OnReceive).
LEMMA Held ==
    ASSUME TypeInv, NEW r \in Requests, req[r].pc # "free"
    PROVE  req[r] \in [pc : Steps, c : Clients, param : Nat]
  BY DEF TypeInv, NoRequest

\* A request goes on to its next step (AionPool.OnRequestAsync).
LEMMA GotoShape ==
    ASSUME TypeInv, NEW r \in Requests, req[r].pc # "free", NEW step \in Steps, Goto(r, step)
    PROVE  /\ req' \in [Requests -> [pc : Steps, c : Clients, param : Nat] \cup {NoRequest}]
           /\ req'[r].pc = step /\ req'[r].c = req[r].c /\ req'[r].param = req[r].param
           /\ req[r].c \in Clients /\ req[r].param \in Nat
           /\ \A s \in Requests : s # r => req'[s] = req[s]
  <1>1. req[r] \in [pc : Steps, c : Clients, param : Nat]
    BY Held
  <1>2. req' = [req EXCEPT ![r] = [req[r] EXCEPT !.pc = step]]
    BY DEF Goto
  <1>3. [req[r] EXCEPT !.pc = step] \in [pc : Steps, c : Clients, param : Nat]
    BY <1>1
  <1> QED BY <1>1, <1>2, <1>3 DEF TypeInv

\* The work a thread takes into its hand (AionPool.OnNewJob).
LEMMA WorkShape ==
    ASSUME TypeInv, NEW c \in Clients, NEW why \in {"initial", "news", "retarget"}
    PROVE  /\ Work(c, why) \in Works /\ Work(c, why) # NoSend
           /\ Work(c, why).step = "read" /\ Work(c, why).c = c /\ Work(c, why).why = why
           /\ Work(c, why).job = 0 /\ Work(c, why).target = diff[c]
  BY DEF TypeInv, Works, Work, NoSend

-----------------------------------------------------------------------------
(* Sending work.                                                           *)

LEMMA ReadJobInv == ASSUME IInv, NEW t \in Threads, ReadJob(t) PROVE IInv'
  <1>1. /\ send[t] \in Works /\ send[t].step = "read"
        /\ send' = [send EXCEPT ![t] = [send[t] EXCEPT !.step = "job", !.job = current]]
        /\ UNCHANGED <<made, current, connected, subscribed, authorized, initialSent,
                       diff, told, cast, due, undone, req>>
    BY Hand DEF IInv, ReadJob, NoSend, flags
  <1> DEFINE w == [send[t] EXCEPT !.step = "job", !.job = current]
  <1>2. /\ w \in Works /\ w # NoSend /\ w.step = "job" /\ w.job = current
        /\ w.c = send[t].c /\ w.why = send[t].why
    BY <1>1 DEF IInv, TypeInv, Works, NoSend
  <1> HIDE DEF w
  <1>3. /\ send' \in [Threads -> Works \cup {NoSend}] /\ send'[t] = w
        /\ \A u \in Threads : u # t => send'[u] = send[u]
    BY <1>1, <1>2 DEF IInv, TypeInv, w
  <1>4. send[t] # NoSend
    BY <1>1 DEF NoSend, Works
  <1>5. TypeInv'
    BY <1>1, <1>3 DEF IInv, TypeInv
  <1>6. ASSUME NEW u \in Threads
        PROVE  /\ (Pending(u)' <=> Pending(u)) /\ (send'[u] # NoSend <=> send[u] # NoSend)
               /\ send[u] # NoSend => send'[u].c = send[u].c
    BY <1>1, <1>2, <1>3, <1>4 DEF Pending
  <1>7. Initial'
    <2>1. ASSUME NEW c \in Clients, Provided(c) PROVE Provided(c)'
      BY <2>1, <1>1, <1>6 DEF Provided, Pending
    <2>2. ASSUME NEW u \in Threads, Pending(u)'
          PROVE  Pending(u) /\ send'[u].c = send[u].c
      BY <2>2, <1>6 DEF Pending
    <2> QED BY <2>1, <2>2, <1>1 DEF IInv, Initial
  <1>8. Known'
    BY <1>1, <1>2, <1>3 DEF IInv, Known
  <1>9. Reaches'
    <2>1. ASSUME NEW c \in due, c \in connected, ~undone PROVE Coming(c)'
      <3>1. Coming(c) /\ current = made
        BY <2>1 DEF IInv, Reaches, Known
      <3>2. CASE Sending(c) /\ t = Poll
        BY <3>1, <3>2, <1>1, <1>2, <1>3, <1>4 DEF Coming, Sending
      <3>3. CASE Sending(c) /\ t # Poll
        BY <3>3, <1>1, <1>3 DEF Coming, Sending
      <3> QED BY <3>1, <3>2, <3>3, <1>1 DEF Coming
    <2> QED BY <2>1, <1>1 DEF IInv, Reaches, Ready
  <1>i. Idle'
    BY <1>1, <1>3, <1>4 DEF IInv, Idle, TypeInv
  <1> QED BY <1>5, <1>7, <1>8, <1>9, <1>i DEF IInv

LEMMA SendJobInv == ASSUME IInv, NEW t \in Threads, SendJob(t) PROVE IInv'
  <1>1. PICK c \in Clients :
           /\ c = send[t].c /\ send[t] \in Works /\ send[t].step = "job" /\ send[t] # NoSend
           /\ send' = [send EXCEPT ![t] = [send[t] EXCEPT !.step = "target"]]
           /\ told' = IF c \in connected
                      THEN [told EXCEPT ![c] = [told[c] EXCEPT
                              !.job = send[t].job, !.newest = Larger(told[c].newest, send[t].job),
                              !.initial = told[c].initial + IF send[t].why = "initial" THEN 1 ELSE 0]]
                      ELSE told
           /\ UNCHANGED <<made, current, connected, subscribed, authorized, initialSent,
                          diff, cast, due, undone, req>>
    <2>1. send[t] \in Works /\ send[t].step = "job" /\ send[t] # NoSend
      BY Hand DEF IInv, SendJob, NoSend
    <2>2. send[t].c \in Clients
      BY <2>1 DEF Works
    <2> QED BY <2>1, <2>2, ZenonT(60) DEF SendJob, flags
  <1> DEFINE w == [send[t] EXCEPT !.step = "target"]
  <1>2. w \in Works /\ w # NoSend /\ w.step = "target" /\ w.job = send[t].job /\ w.c = c
    BY <1>1 DEF Works, NoSend
  <1> HIDE DEF w
  <1>3. /\ send' \in [Threads -> Works \cup {NoSend}] /\ send'[t] = w
        /\ \A u \in Threads : u # t => send'[u] = send[u]
    BY <1>1, <1>2 DEF IInv, TypeInv, w
  <1>4. /\ told' \in [Clients -> [job : Nat, target : Nat, newest : Nat, initial : Nat]]
        /\ \A d \in Clients : d # c => told'[d] = told[d]
        /\ c \notin connected => told' = told
        /\ c \in connected => /\ told'[c].newest = Larger(told[c].newest, send[t].job)
                              /\ told'[c].initial = told[c].initial + IF send[t].why = "initial" THEN 1 ELSE 0
    <2>1. told[c] \in [job : Nat, target : Nat, newest : Nat, initial : Nat] /\ send[t].job \in Nat
      BY <1>1 DEF IInv, TypeInv, Works
    <2> DEFINE x == [told[c] EXCEPT
                       !.job = send[t].job, !.newest = Larger(told[c].newest, send[t].job),
                       !.initial = told[c].initial + IF send[t].why = "initial" THEN 1 ELSE 0]
    <2>2. /\ x \in [job : Nat, target : Nat, newest : Nat, initial : Nat]
          /\ x.newest = Larger(told[c].newest, send[t].job)
          /\ x.initial = told[c].initial + IF send[t].why = "initial" THEN 1 ELSE 0
      <3>1. Larger(told[c].newest, send[t].job) \in Nat
        BY <2>1 DEF Larger
      <3>2. told[c].initial + (IF send[t].why = "initial" THEN 1 ELSE 0) \in Nat
        BY <2>1
      <3> QED BY <2>1, <3>1, <3>2
    <2>3. told' = IF c \in connected THEN [told EXCEPT ![c] = x] ELSE told
      BY <1>1
    <2> HIDE DEF x
    <2> QED BY <2>2, <2>3 DEF IInv, TypeInv
  <1>5. TypeInv'
    BY <1>1, <1>3, <1>4 DEF IInv, TypeInv
  <1>6. Initial'
    <2>1. Pending(t) => c \in initialSent /\ told[c].initial = 0
      BY <1>1 DEF IInv, Initial
    <2>2. Pending(t) <=> send[t].why = "initial"
      BY <1>1 DEF Pending
    <2>3. ASSUME NEW u \in Threads, Pending(u)'
          PROVE  u # t /\ Pending(u) /\ send'[u] = send[u] /\ ~(Pending(t) /\ send[u].c = c)
      <3>1. u # t
        BY <2>3, <1>2, <1>3 DEF Pending
      <3>2. Pending(u) /\ send'[u] = send[u]
        BY <3>1, <2>3, <1>3 DEF Pending
      <3> QED BY <3>1, <3>2, <1>1 DEF IInv, Initial
    <2>4. ASSUME NEW d \in Clients
          PROVE  /\ told'[d].initial <= 1
                 /\ d \notin initialSent' => told'[d].initial = 0
      <3>1. CASE d = c
        <4>1. told[c].initial \in Nat /\ told[c].initial <= 1
          BY DEF IInv, TypeInv, Initial
        <4>2. c \notin initialSent => told[c].initial = 0
          BY DEF IInv, Initial
        <4> QED BY <4>1, <4>2, <3>1, <2>1, <2>2, <1>1, <1>4
      <3>2. CASE d # c
        BY <3>2, <1>1, <1>4 DEF IInv, Initial
      <3> QED BY <3>1, <3>2
    <2>5. ASSUME NEW u \in Threads, Pending(u)' PROVE told'[send'[u].c].initial = 0
      <3>1. /\ Pending(u) /\ send'[u] = send[u] /\ ~(Pending(t) /\ send[u].c = c)
            /\ told[send[u].c].initial = 0 /\ send[u].c \in Clients
        BY <2>3, <2>5 DEF IInv, TypeInv, Initial, Works, Pending
      <3>2. CASE send[u].c = c
        BY <3>1, <3>2, <2>2, <1>4
      <3>3. CASE send[u].c # c
        BY <3>1, <3>3, <1>4
      <3> QED BY <3>2, <3>3
    <2>6. \A u \in Threads : Pending(u)' => send'[u].c \in initialSent'
      BY <2>3, <1>1 DEF IInv, Initial
    <2>7. \A u, v \in Threads : Pending(u)' /\ Pending(v)' /\ send'[u].c = send'[v].c => u = v
      BY <2>3 DEF IInv, Initial
    <2>8. ASSUME NEW d \in Clients, d \in initialSent, d \in connected PROVE Provided(d)'
      <3>1. Provided(d) /\ told[d].initial \in Nat /\ told[d].initial <= 1
        BY <2>8 DEF IInv, TypeInv, Initial
      <3>2. CASE d = c /\ Pending(t)
        BY <3>2, <2>1, <2>2, <2>8, <1>4 DEF Provided
      <3>3. CASE told[d].initial = 1 /\ ~(d = c /\ Pending(t))
        BY <3>1, <3>3, <2>2, <2>8, <1>4 DEF Provided
      <3>4. CASE \E u \in Threads : Pending(u) /\ send[u].c = d /\ ~(d = c /\ Pending(t))
        <4>1. PICK u \in Threads : Pending(u) /\ send[u].c = d /\ u # t
          BY <3>4, <1>1
        <4> QED BY <4>1, <1>3 DEF Provided, Pending
      <3> QED BY <3>1, <3>2, <3>3, <3>4 DEF Provided
    <2> QED BY <1>1, <2>4, <2>5, <2>6, <2>7, <2>8 DEF Initial
  <1>7. /\ send[t].job \in Nat /\ send[t].job <= made /\ made \in Nat
        /\ \A d \in Clients : told[d].newest \in Nat /\ told[d].newest <= made
    BY <1>1 DEF IInv, TypeInv, Known, Works
  <1>8. Known'
    <2>1. \A d \in Clients : told'[d].newest <= made
      BY <1>4, <1>7 DEF Larger
    <2> QED BY <2>1, <1>1, <1>2, <1>3, <1>7 DEF IInv, Known
  <1>9. Reaches'
    <2>1. ASSUME NEW d \in due, d \in connected, ~undone PROVE Coming(d)'
      <3>1. Coming(d) /\ d \in Clients
        BY <2>1 DEF IInv, TypeInv, Reaches
      <3>2. CASE told[d].newest = made
        <4>1. told'[d].newest = made
          BY <3>1, <3>2, <1>4, <1>7 DEF Larger
        <4> QED BY <4>1, <1>1 DEF Coming
      <3>3. CASE Sending(d) /\ t = Poll
        <4>1. told'[d].newest = made
          BY <3>1, <3>3, <2>1, <1>1, <1>4, <1>7 DEF Sending, Larger
        <4> QED BY <4>1, <1>1 DEF Coming
      <3>4. CASE Sending(d) /\ t # Poll
        BY <3>4, <1>1, <1>3 DEF Coming, Sending
      <3> QED BY <3>1, <3>2, <3>3, <3>4, <1>1 DEF Coming
    <2> QED BY <2>1, <1>1 DEF IInv, Reaches, Ready
  <1>i. Idle'
    BY <1>1, <1>3 DEF IInv, Idle, TypeInv
  <1> QED BY <1>5, <1>6, <1>8, <1>9, <1>i DEF IInv

LEMMA SendTargetInv == ASSUME IInv, NEW t \in Threads, SendTarget(t) PROVE IInv'
  <1>1. PICK c \in Clients :
           /\ c = send[t].c /\ send[t] \in Works /\ send[t].step = "target" /\ send[t] # NoSend
           /\ send' = [send EXCEPT ![t] = NoSend]
           /\ told' = IF c \in connected
                      THEN [told EXCEPT ![c] = [told[c] EXCEPT !.target = send[t].target]] ELSE told
           /\ UNCHANGED <<made, current, connected, subscribed, authorized, initialSent,
                          diff, cast, due, undone, req>>
    <2>1. send[t] \in Works /\ send[t].step = "target" /\ send[t] # NoSend
      BY Hand DEF IInv, SendTarget, NoSend
    <2>2. send[t].c \in Clients
      BY <2>1 DEF Works
    <2> QED BY <2>1, <2>2 DEF SendTarget, flags
  <1>2. /\ send' \in [Threads -> Works \cup {NoSend}] /\ send'[t] = NoSend
        /\ \A u \in Threads : u # t => send'[u] = send[u]
    BY <1>1 DEF IInv, TypeInv
  <1>3. /\ told' \in [Clients -> [job : Nat, target : Nat, newest : Nat, initial : Nat]]
        /\ \A d \in Clients : /\ told'[d].newest = told[d].newest
                              /\ told'[d].initial = told[d].initial /\ told'[d].job = told[d].job
    <2>1. told[c] \in [job : Nat, target : Nat, newest : Nat, initial : Nat] /\ send[t].target \in Nat
      BY <1>1 DEF IInv, TypeInv, Works
    <2> QED BY <2>1, <1>1 DEF IInv, TypeInv
  <1>4. TypeInv'
    BY <1>1, <1>2, <1>3 DEF IInv, TypeInv
  <1>5. Initial'
    <2>1. ASSUME NEW u \in Threads, send'[u] # NoSend
          PROVE  send'[u] = send[u] /\ send[u].c \in Clients /\ (Pending(u)' <=> Pending(u))
      BY <2>1, <1>2 DEF IInv, TypeInv, Works, Pending
    <2>2. \A u \in Threads : Pending(u)' => send'[u] # NoSend
      BY DEF Pending
    <2>3. ASSUME NEW u \in Threads, Pending(u) PROVE Pending(u)' /\ send'[u] = send[u]
      BY <2>3, <1>1, <1>2 DEF Pending
    <2>4. ASSUME NEW d \in Clients, Provided(d) PROVE Provided(d)'
      BY <2>3, <2>4, <1>3 DEF Provided
    <2> QED BY <2>1, <2>2, <2>4, <1>1, <1>3 DEF IInv, Initial
  <1>6. Known'
    BY <1>1, <1>2, <1>3 DEF IInv, Known
  <1>7. Reaches'
    <2>1. ASSUME NEW d \in due, d \in connected, ~undone PROVE Coming(d)'
      <3>1. Coming(d) /\ d \in Clients
        BY <2>1 DEF IInv, TypeInv, Reaches
      <3>2. CASE Sending(d)
        BY <3>2, <1>1, <1>2 DEF Coming, Sending
      <3> QED BY <3>1, <3>2, <1>1, <1>3 DEF Coming
    <2> QED BY <2>1, <1>1 DEF IInv, Reaches, Ready
  <1>i. Idle'
    BY <1>1, <1>2 DEF IInv, Idle, TypeInv
  <1> QED BY <1>4, <1>5, <1>6, <1>7, <1>i DEF IInv

-----------------------------------------------------------------------------
(* Broadcasts.                                                             *)

LEMMA NewJobInv == ASSUME IInv, NewJob PROVE IInv'
  <1>1. /\ made' = made + 1 /\ current' = made + 1
        /\ cast' = [cast EXCEPT ![Poll] = connected]
        /\ due' = {c \in connected : Ready(c)}
        /\ send[Poll] = NoSend
        /\ UNCHANGED <<connected, subscribed, authorized, initialSent, diff, told, undone, send, req>>
    BY DEF NewJob, flags
  <1>2. TypeInv'
    BY <1>1 DEF IInv, TypeInv
  <1>3. Initial'
    BY <1>1 DEF IInv, Initial, Provided, Pending
  <1>4. Known'
    <2>1. /\ made \in Nat /\ \A c \in Clients : told[c].newest \in Nat
          /\ \A t \in Threads : send[t] # NoSend => send[t].job \in Nat
      BY DEF IInv, TypeInv, Works
    <2>2. \A r \in Requests : req[r].pc = "recast" => req[r].param \in Nat
      BY Held DEF IInv
    <2> QED BY <2>1, <2>2, <1>1 DEF IInv, Known
  <1>5. Reaches'
    <2>1. cast'[Poll] = connected
      BY <1>1 DEF IInv, TypeInv
    <2> QED BY <2>1, <1>1 DEF Reaches, Coming, Ready
  <1>i. Idle'
    BY <1>1 DEF IInv, Idle, TypeInv
  <1> QED BY <1>2, <1>3, <1>4, <1>5, <1>i DEF IInv

LEMMA VisitInv == ASSUME IInv, NEW t \in Threads, NEW c \in Clients, Visit(t, c) PROVE IInv'
  <1>1. /\ c \in cast[t] /\ send[t] = NoSend
        /\ cast' = [cast EXCEPT ![t] = cast[t] \ {c}]
        /\ send' = IF Ready(c) THEN [send EXCEPT ![t] = Work(c, "news")] ELSE send
        /\ UNCHANGED <<made, current, connected, subscribed, authorized, initialSent,
                       diff, told, due, undone, req>>
    BY DEF Visit, Visited, flags
  <1> DEFINE w == Work(c, "news")
  <1>2. w \in Works /\ w # NoSend /\ w.step = "read" /\ w.c = c /\ w.why = "news" /\ w.job = 0
    BY WorkShape DEF IInv
  <1> HIDE DEF w
  <1>3. /\ send' \in [Threads -> Works \cup {NoSend}] /\ send'[t] = IF Ready(c) THEN w ELSE NoSend
        /\ \A u \in Threads : u # t => send'[u] = send[u]
    BY <1>1, <1>2 DEF IInv, TypeInv, w
  <1>4. /\ cast' \in [Threads -> SUBSET Clients] /\ cast'[t] = cast[t] \ {c}
        /\ \A u \in Threads : u # t => cast'[u] = cast[u]
    BY <1>1 DEF IInv, TypeInv
  <1>5. TypeInv'
    BY <1>1, <1>3, <1>4 DEF IInv, TypeInv
  <1>6. Initial'
    <2>1. ASSUME NEW u \in Threads, Pending(u)' PROVE Pending(u) /\ send'[u] = send[u]
      BY <2>1, <1>2, <1>3 DEF Pending
    <2>2. ASSUME NEW u \in Threads, Pending(u) PROVE Pending(u)' /\ send'[u] = send[u]
      BY <2>2, <1>1, <1>3 DEF Pending
    <2>3. ASSUME NEW d \in Clients, Provided(d) PROVE Provided(d)'
      BY <2>2, <2>3, <1>1 DEF Provided
    <2> QED BY <2>1, <2>3, <1>1 DEF IInv, Initial
  <1>7. Known'
    BY <1>1, <1>2, <1>3 DEF IInv, Known, TypeInv
  <1>8. Reaches'
    <2>1. ASSUME NEW d \in due, d \in connected, ~undone PROVE Coming(d)'
      <3>1. Coming(d) /\ Ready(d)
        BY <2>1 DEF IInv, Reaches
      <3>2. CASE told[d].newest = made
        BY <3>2, <1>1 DEF Coming
      <3>3. CASE d \in cast[Poll]
        <4>1. CASE t = Poll /\ d = c
          BY <4>1, <3>1, <1>2, <1>3 DEF Coming, Sending
        <4>2. CASE ~(t = Poll /\ d = c)
          BY <4>2, <3>3, <1>4 DEF Coming
        <4> QED BY <4>1, <4>2
      <3>4. CASE Sending(d)
        BY <3>4, <1>1, <1>3 DEF Coming, Sending
      <3> QED BY <3>1, <3>2, <3>3, <3>4 DEF Coming
    <2> QED BY <2>1, <1>1 DEF IInv, Reaches, Ready
  <1>i. Idle'
    BY <1>1, <1>3, <1>4 DEF IInv, Idle, TypeInv
  <1> QED BY <1>5, <1>6, <1>7, <1>8, <1>i DEF IInv

LEMMA VisitIdleInv == ASSUME IInv, NEW t \in Threads, NEW c \in Clients, VisitIdle(t, c) PROVE IInv'
  <1>1. /\ cast' = [cast EXCEPT ![t] = cast[t] \ {c}] /\ connected' = connected \ {c}
        /\ UNCHANGED <<made, current, subscribed, authorized, initialSent,
                       diff, told, due, undone, send, req>>
    BY DEF VisitIdle, flags
  <1>2. /\ cast' \in [Threads -> SUBSET Clients] /\ cast'[t] = cast[t] \ {c}
        /\ \A u \in Threads : u # t => cast'[u] = cast[u]
    BY <1>1 DEF IInv, TypeInv
  <1>3. TypeInv'
    BY <1>1, <1>2 DEF IInv, TypeInv
  <1>4. Initial'
    BY <1>1 DEF IInv, Initial, Provided, Pending
  <1>5. Known'
    BY <1>1 DEF IInv, Known
  <1>6. Reaches'
    <2>1. ASSUME NEW d \in due, d \in connected', ~undone PROVE Coming(d)'
      <3>1. Coming(d) /\ d # c
        BY <2>1, <1>1 DEF IInv, Reaches
      <3>2. Sending(d)' <=> Sending(d)
        BY <1>1 DEF Sending
      <3>3. d \in cast[Poll] => d \in cast'[Poll]
        BY <3>1, <1>2
      <3> QED BY <3>1, <3>2, <3>3, <1>1 DEF Coming
    <2> QED BY <2>1, <1>1 DEF IInv, Reaches, Ready
  <1>i. Idle'
    BY <1>1, <1>2 DEF IInv, Idle, TypeInv
  <1> QED BY <1>3, <1>4, <1>5, <1>6, <1>i DEF IInv

-----------------------------------------------------------------------------
(* Requests.                                                               *)

\* A request that goes on without touching work or broadcasts: nobody else sees
\* it, but one that may be sending work is done after it, and a job that is to be
\* broadcast again was made (AionPool.OnRequestAsync).
LEMMA GoesOn ==
    ASSUME IInv, NEW r \in Requests, NEW step \in Steps, req[r].pc \notin {"free", "done"},
           Goto(r, step), req[r].pc = "retarget" => step = "done",
           step # "recast",
           UNCHANGED <<made, current, connected, initialSent, told, cast, undone, send>>,
           subscribed \subseteq subscribed', due' \subseteq due,
           \A c \in due' : c \in authorized',
           diff' \in [Clients -> Nat]
    PROVE  IInv'
  <1>1. /\ req' \in [Requests -> [pc : Steps, c : Clients, param : Nat] \cup {NoRequest}]
        /\ req'[r].pc = step /\ req'[r].c = req[r].c /\ req'[r].param = req[r].param
        /\ \A s \in Requests : s # r => req'[s] = req[s]
    BY GotoShape DEF IInv
  <1>2. TypeInv'
    BY <1>1 DEF IInv, TypeInv
  <1>3. Initial'
    BY <1>1 DEF IInv, Initial, Provided, Pending
  <1>4. Known'
    BY <1>1 DEF IInv, Known
  <1>5. Reaches'
    BY DEF IInv, Reaches, Ready, Coming, Sending
  <1>i. Idle'
    BY <1>1 DEF IInv, Idle, TypeInv
  <1> QED BY <1>2, <1>3, <1>4, <1>5, <1>i DEF IInv

LEMMA ReceiveInv ==
    ASSUME IInv, NEW r \in Requests, NEW c \in Clients,
           NEW method \in {"subscribe", "authorize", "submit"}, Receive(r, c, method)
    PROVE  IInv'
  <1>1. /\ req' = [req EXCEPT ![r] = [pc |-> method, c |-> c, param |-> 0]]
        /\ UNCHANGED <<made, current, connected, subscribed, authorized, initialSent,
                       diff, told, cast, due, undone, send>>
    BY DEF Receive, flags
  <1>2. /\ req' \in [Requests -> [pc : Steps, c : Clients, param : Nat] \cup {NoRequest}]
        /\ req'[r].pc = method /\ \A s \in Requests : s # r => req'[s] = req[s]
    BY <1>1 DEF IInv, TypeInv, Steps
  <1>3. TypeInv'
    BY <1>1, <1>2 DEF IInv, TypeInv
  <1>4. Initial'
    BY <1>1, <1>2 DEF IInv, Initial, Provided, Pending
  <1>5. Known'
    BY <1>1, <1>2 DEF IInv, Known
  <1>6. Reaches'
    BY <1>1 DEF IInv, Reaches, Ready, Coming, Sending
  <1>i. Idle'
    BY <1>1, <1>2 DEF IInv, Idle, TypeInv, Receive
  <1> QED BY <1>3, <1>4, <1>5, <1>6, <1>i DEF IInv

\* Every step of a request starts from one of its own labels (AionPool.OnRequestAsync).
LEMMA Labels ==
    /\ \A s \in Steps : s # "free"
    /\ "done" \in Steps /\ "static" \in Steps /\ "ensure" \in Steps /\ "accepted" \in Steps
    /\ "retarget" \in Steps
  BY DEF Steps

LEMMA AuthorizingInv ==
    ASSUME IInv, NEW r \in Requests, OnSubscribe(r) \/ Authorized(r) \/ StaticDiff(r) \/ Accept(r)
    PROVE  IInv'
  <1>1. \A c \in due : c \in authorized
    BY DEF IInv, Reaches, Ready
  <1>2. CASE OnSubscribe(r)
    <2>1. /\ req[r].pc \notin {"free", "done", "retarget"} /\ Goto(r, "done")
          /\ UNCHANGED <<made, current, connected, authorized, initialSent, diff, told, cast, due, undone, send>>
          /\ subscribed \subseteq subscribed'
      BY <1>2 DEF OnSubscribe
    <2>2. diff' \in [Clients -> Nat]
      BY <2>1 DEF IInv, TypeInv
    <2> QED BY <1>1, <2>1, <2>2, Labels, GoesOn
  <1>3. CASE Authorized(r)
    <2>1. /\ req[r].pc \notin {"free", "done", "retarget"} /\ Goto(r, "static")
          /\ UNCHANGED <<made, current, connected, subscribed, initialSent, diff, told, cast, undone, send>>
          /\ due' \subseteq due /\ \A c \in due' : c \in authorized'
      BY <1>1, <1>3 DEF Authorized
    <2>2. diff' \in [Clients -> Nat]
      BY <2>1 DEF IInv, TypeInv
    <2> QED BY <2>1, <2>2, Labels, GoesOn
  <1>4. CASE StaticDiff(r)
    <2>1. /\ req[r].pc = "static" /\ req[r].pc \notin {"free", "done"} /\ Goto(r, "ensure")
          /\ UNCHANGED <<made, current, connected, subscribed, authorized, initialSent, told, cast, due, undone, send>>
      BY <1>4 DEF StaticDiff, flags
    <2>2. diff' \in [Clients -> Nat]
      <3>1. req[r].c \in Clients
        BY <2>1, Held DEF IInv
      <3>2. PICK d \in StaticDiffs \cup {diff[req[r].c]} : diff' = [diff EXCEPT ![req[r].c] = d]
        BY <1>4 DEF StaticDiff
      <3>3. d \in Nat
        BY <3>1, <3>2 DEF IInv, TypeInv
      <3> QED BY <3>2, <3>3 DEF IInv, TypeInv
    <2> QED BY <1>1, <2>1, <2>2, Labels, GoesOn
  <1>5. CASE Accept(r)
    <2>1. /\ req[r].pc = "submit" /\ req[r].pc \notin {"free", "done"} /\ Goto(r, "accepted")
          /\ UNCHANGED <<made, current, connected, subscribed, authorized, initialSent, diff, told, cast, due, undone, send>>
      BY <1>5 DEF Accept, flags
    <2>2. diff' \in [Clients -> Nat]
      BY <2>1 DEF IInv, TypeInv
    <2> QED BY <1>1, <2>1, <2>2, Labels, GoesOn
  <1> QED BY <1>2, <1>3, <1>4, <1>5

\* Work in the hand of a request: what it was free to take, and for whom
\* (AionPool.EnsureInitialWorkSent, OnVarDiffUpdate).
LEMMA TakesWork ==
    ASSUME IInv, NEW r \in Requests, NEW step \in {"done", "retarget"},
           req[r].pc \notin {"free", "done"}, Goto(r, step), send[r] = NoSend,
           NEW w \in Works, w.c = req[r].c, w.step = "read", w.job = 0,
           send' = [send EXCEPT ![r] = w],
           \/ w.why = "initial" /\ req[r].c \notin initialSent
              /\ initialSent' = initialSent \cup {req[r].c}
           \/ w.why = "retarget" /\ initialSent' = initialSent,
           diff' \in [Clients -> Nat],
           UNCHANGED <<made, current, connected, subscribed, authorized, told, cast, due, undone>>
    PROVE  IInv'
  <1>1. /\ req' \in [Requests -> [pc : Steps, c : Clients, param : Nat] \cup {NoRequest}]
        /\ req'[r].pc = step /\ req[r].c \in Clients
        /\ \A s \in Requests : s # r => req'[s] = req[s]
    BY Labels, GotoShape DEF IInv
  <1>2. /\ send' \in [Threads -> Works \cup {NoSend}] /\ send'[r] = w /\ w # NoSend
        /\ \A u \in Threads : u # r => send'[u] = send[u]
        /\ r # Poll
    BY DEF IInv, TypeInv, Works, NoSend
  <1>3. TypeInv'
    BY <1>1, <1>2 DEF IInv, TypeInv
  <1>4. Initial'
    <2>1. /\ \A u \in Threads : u # r => (Pending(u)' <=> Pending(u))
          /\ Pending(r)' <=> w.why = "initial"
      BY <1>2 DEF Pending
    <2>2. \A u \in Threads : Pending(u)' => send'[u].c \in initialSent'
      BY <2>1, <1>2 DEF IInv, Initial
    <2>3. ASSUME NEW u \in Threads, Pending(u)' PROVE told'[send'[u].c].initial = 0
      BY <2>1, <2>3, <1>1, <1>2 DEF IInv, Initial
    <2>4. ASSUME NEW u \in Threads, NEW v \in Threads, Pending(u)', Pending(v)', send'[u].c = send'[v].c
          PROVE  u = v
      <3>1. ASSUME NEW x \in Threads, x # r, Pending(x), w.why = "initial" PROVE send[x].c # w.c
        BY <3>1 DEF IInv, Initial, Provided, Pending
      <3> QED BY <3>1, <2>1, <2>4, <1>2 DEF IInv, Initial
    <2>5. ASSUME NEW c \in Clients, c \in initialSent', c \in connected PROVE Provided(c)'
      <3>1. CASE c \in initialSent
        <4>1. Provided(c) /\ ~Pending(r)
          BY <3>1, <2>5 DEF IInv, Initial, Pending
        <4>2. CASE told[c].initial = 1
          BY <4>2 DEF Provided
        <4>3. CASE told[c].initial # 1
          <5>1. PICK u \in Threads : Pending(u) /\ send[u].c = c /\ u # r
            BY <4>1, <4>3 DEF Provided
          <5> QED BY <5>1, <2>1, <1>2 DEF Provided
        <4> QED BY <4>2, <4>3
      <3>2. CASE c \notin initialSent
        BY <3>2, <2>1, <2>5, <1>2 DEF Provided
      <3> QED BY <3>1, <3>2
    <2>6. \A c \in Clients : /\ told'[c].initial <= 1
                             /\ c \notin initialSent' => told'[c].initial = 0
      BY DEF IInv, Initial
    <2> QED BY <2>2, <2>3, <2>4, <2>5, <2>6 DEF Initial
  <1>5. Known'
    BY <1>1, <1>2 DEF IInv, Known, TypeInv
  <1>6. Reaches'
    BY <1>2 DEF IInv, Reaches, Ready, Coming, Sending
  <1>i. Idle'
    BY <1>1, <1>2 DEF IInv, Idle, TypeInv
  <1> QED BY <1>3, <1>4, <1>5, <1>6, <1>i DEF IInv

LEMMA EnsureInitialWorkSentInv ==
    ASSUME IInv, NEW r \in Requests, EnsureInitialWorkSent(r) PROVE IInv'
  <1>1. PICK step \in {"done", "retarget"} :
           /\ req[r].pc \notin {"free", "done", "retarget"} /\ Goto(r, step) /\ send[r] = NoSend
           /\ UNCHANGED <<made, current, connected, subscribed, authorized, diff, told, cast, due, undone>>
    BY DEF EnsureInitialWorkSent, Ensuring, Ensured
  <1>2. diff' \in [Clients -> Nat] /\ \A c \in due : c \in authorized
    BY <1>1 DEF IInv, TypeInv, Reaches, Ready
  <1>3. CASE req[r].c \in authorized /\ req[r].c \notin initialSent
    <2>1. req[r].c \in Clients
      BY <1>1, Held DEF IInv
    <2>2. PICK w \in Works : /\ w = Work(req[r].c, "initial")
                             /\ w.c = req[r].c /\ w.step = "read" /\ w.job = 0 /\ w.why = "initial"
      BY <2>1, WorkShape DEF IInv
    <2>3. initialSent' = initialSent \cup {req[r].c} /\ send' = [send EXCEPT ![r] = w]
      BY <2>2, <1>3 DEF EnsureInitialWorkSent
    <2> QED BY <2>2, <2>3, <1>1, <1>2, <1>3, TakesWork
  <1>4. CASE ~(req[r].c \in authorized /\ req[r].c \notin initialSent)
    <2>1. UNCHANGED <<initialSent, send>>
      BY <1>4 DEF EnsureInitialWorkSent
    <2> QED BY <2>1, <1>1, <1>2, Labels, GoesOn
  <1> QED BY <1>3, <1>4

LEMMA UpdateVarDiffInv == ASSUME IInv, NEW r \in Requests, UpdateVarDiff(r) PROVE IInv'
  <1>1. /\ req[r].pc = "retarget" /\ req[r].pc \notin {"free", "done"} /\ Goto(r, "done")
        /\ send[r] = NoSend
        /\ UNCHANGED <<made, current, connected, subscribed, authorized, initialSent, told, cast, due, undone>>
    BY DEF UpdateVarDiff, flags
  <1>2. req[r].c \in Clients /\ \A c \in due : c \in authorized
    BY <1>1, Held DEF IInv, Reaches, Ready
  <1>3. CASE UNCHANGED <<diff, send>>
    <2>1. diff' \in [Clients -> Nat]
      BY <1>3 DEF IInv, TypeInv
    <2> QED BY <2>1, <1>1, <1>2, <1>3, Labels, GoesOn
  <1>4. ASSUME NEW d \in Retargets, diff' = [diff EXCEPT ![req[r].c] = d],
               send' = [send EXCEPT ![r] = [Work(req[r].c, "retarget") EXCEPT !.target = d]]
        PROVE  IInv'
    <2>1. d \in Nat /\ diff' \in [Clients -> Nat]
      BY <1>4 DEF IInv, TypeInv
    <2>2. PICK w \in Works : /\ w = [Work(req[r].c, "retarget") EXCEPT !.target = d]
                             /\ w.c = req[r].c /\ w.step = "read" /\ w.job = 0 /\ w.why = "retarget"
      <3>1. /\ Work(req[r].c, "retarget") \in Works
            /\ Work(req[r].c, "retarget").step = "read" /\ Work(req[r].c, "retarget").c = req[r].c
            /\ Work(req[r].c, "retarget").why = "retarget" /\ Work(req[r].c, "retarget").job = 0
        BY <1>2, WorkShape DEF IInv
      <3> DEFINE v == Work(req[r].c, "retarget")
      <3> HIDE DEF v
      <3>2. /\ v \in Works /\ v.step = "read" /\ v.c = req[r].c /\ v.why = "retarget" /\ v.job = 0
        BY <3>1 DEF v
      <3>3. [v EXCEPT !.target = d] \in Works /\ [v EXCEPT !.target = d].c = req[r].c
            /\ [v EXCEPT !.target = d].step = "read" /\ [v EXCEPT !.target = d].job = 0
            /\ [v EXCEPT !.target = d].why = "retarget"
        BY <3>2, <2>1 DEF Works
      <3> QED BY <3>3 DEF v
    <2>3. send' = [send EXCEPT ![r] = w]
      BY <2>2, <1>4
    <2> QED BY <2>1, <2>2, <2>3, <1>1, TakesWork
  <1> QED BY <1>3, <1>4 DEF UpdateVarDiff

\* A request whose share was rejected may disconnect its client, and remembers
\* the job it is to broadcast again (AionPool.OnSubmitAsync, PoolBase.ConsiderBan).
LEMMA RejectedInv == ASSUME IInv, NEW r \in Requests, Warn(r) \/ Reject(r) PROVE IInv'
  <1>1. /\ req[r].pc = "submit" /\ connected' \subseteq connected
        /\ UNCHANGED <<made, current, subscribed, authorized, initialSent, diff, told, cast, due, undone, send>>
    BY DEF Warn, Reject, flags
  <1>2. req[r] \in [pc : Steps, c : Clients, param : Nat] /\ current \in Nat
    BY <1>1, Held DEF IInv, TypeInv
  <1>3. /\ req' \in [Requests -> [pc : Steps, c : Clients, param : Nat] \cup {NoRequest}]
        /\ req'[r].pc \in {"ensure", "recast", "done"}
        /\ req'[r].pc = "recast" => req'[r].param = current
        /\ \A s \in Requests : s # r => req'[s] = req[s]
    <2>1. CASE Goto(r, "ensure") \/ Goto(r, "done")
      BY <2>1, <1>1, GotoShape, Labels DEF IInv
    <2>2. CASE req' = [req EXCEPT ![r].pc = "recast", ![r].param = current]
      <3>1. PICK x : x = [req[r] EXCEPT !.pc = "recast", !.param = current]
        OBVIOUS
      <3>2. x \in [pc : Steps, c : Clients, param : Nat] /\ x.pc = "recast" /\ x.param = current
        BY <3>1, <1>2 DEF Steps
      <3>3. req' = [req EXCEPT ![r] = x]
        BY <2>2, <3>1
      <3> QED BY <3>2, <3>3 DEF IInv, TypeInv
    <2> QED BY <2>1, <2>2 DEF Warn, Reject
  <1>4. TypeInv'
    BY <1>1, <1>3 DEF IInv, TypeInv
  <1>5. Initial'
    BY <1>1, <1>3 DEF IInv, Initial, Provided, Pending
  <1>6. Known'
    BY <1>1, <1>3 DEF IInv, Known
  <1>7. Reaches'
    BY <1>1 DEF IInv, Reaches, Ready, Coming, Sending
  <1>8. Idle'
    BY <1>1, <1>3 DEF IInv, Idle
  <1> QED BY <1>4, <1>5, <1>6, <1>7, <1>8 DEF IInv

LEMMA RebroadcastInv == ASSUME IInv, NEW r \in Requests, Rebroadcast(r) PROVE IInv'
  <1>1. /\ req[r].pc = "recast" /\ Goto(r, "done")
        /\ current' = req[r].param /\ undone' = (undone \/ req[r].param < current)
        /\ cast' = [cast EXCEPT ![r] = connected]
        /\ UNCHANGED <<made, connected, subscribed, authorized, initialSent, diff, told, due, send>>
    BY DEF Rebroadcast, flags
  <1>2. /\ req' \in [Requests -> [pc : Steps, c : Clients, param : Nat] \cup {NoRequest}]
        /\ req'[r].pc = "done" /\ req[r].param \in Nat
        /\ \A s \in Requests : s # r => req'[s] = req[s]
    BY <1>1, GotoShape, Labels DEF IInv
  <1>3. cast' \in [Threads -> SUBSET Clients] /\ \A t \in Threads : t # r => cast'[t] = cast[t]
    BY <1>1 DEF IInv, TypeInv
  <1>4. TypeInv'
    BY <1>1, <1>2, <1>3 DEF IInv, TypeInv
  <1>5. Initial'
    BY <1>1, <1>2 DEF IInv, Initial, Provided, Pending
  <1>6. Known'
    <2>1. req[r].param <= made /\ made \in Nat /\ current \in Nat /\ undone \in BOOLEAN
      BY <1>1 DEF IInv, Known, TypeInv
    <2>2. ~undone' => ~undone /\ ~(req[r].param < current)
      BY <1>1, Zenon
    <2>3. ~undone => current = made
      BY DEF IInv, Known
    <2>4. ~undone' => current' = made
      BY <2>1, <2>2, <2>3, <1>1, <1>2
    <2> QED BY <2>1, <2>4, <1>1, <1>2 DEF IInv, Known
  <1>7. Reaches'
    <2>1. ~undone' => ~undone
      BY <1>1
    <2>2. cast'[Poll] = cast[Poll]
      BY <1>3
    <2> QED BY <2>1, <2>2, <1>1 DEF IInv, Reaches, Ready, Coming, Sending
  <1>8. Idle'
    BY <1>1, <1>2, <1>3 DEF IInv, Idle
  <1> QED BY <1>4, <1>5, <1>6, <1>7, <1>8 DEF IInv

-----------------------------------------------------------------------------
(* The theorems.                                                           *)

LEMMA IInvInit == Init => IInv
  <1> SUFFICES ASSUME Init PROVE IInv
    OBVIOUS
  <1>1. TypeInv
    <2>1. [job |-> 0, target |-> 0, newest |-> 0, initial |-> 0]
             \in [job : Nat, target : Nat, newest : Nat, initial : Nat]
      OBVIOUS
    <2>2. StartDiff \in Nat
      OBVIOUS
    <2>3. /\ told \in [Clients -> [job : Nat, target : Nat, newest : Nat, initial : Nat]]
          /\ diff \in [Clients -> Nat]
      BY <2>1, <2>2 DEF Init
    <2>4. /\ cast \in [Threads -> SUBSET Clients]
          /\ send \in [Threads -> Works \cup {NoSend}]
          /\ req \in [Requests -> [pc : Steps, c : Clients, param : Nat] \cup {NoRequest}]
      BY DEF Init
    <2>5. made \in Nat \ {0} /\ current \in Nat
      BY DEF Init
    <2>6. /\ connected \subseteq Clients /\ initialSent \subseteq Clients /\ due \subseteq Clients
          /\ undone \in BOOLEAN
      BY Zenon DEF Init
    <2> QED BY <2>3, <2>4, <2>5, <2>6 DEF TypeInv
  <1>2. Initial
    BY DEF Init, Initial, Pending
  <1>3. Known
    BY DEF Init, Known, NoRequest
  <1>4. Reaches
    BY DEF Init, Reaches
  <1>5. Idle
    BY DEF Init, Idle
  <1> QED BY <1>1, <1>2, <1>3, <1>4, <1>5 DEF IInv

LEMMA IInvStep == IInv /\ [Next]_vars => IInv'
  <1> SUFFICES ASSUME IInv, [Next]_vars PROVE IInv'
    OBVIOUS
  <1>1. CASE UNCHANGED vars
    BY <1>1 DEF vars, flags, IInv, TypeInv, Initial, Known, Reaches, Idle, Provided, Pending, Ready, Coming, Sending
  <1>2. CASE NewJob
    BY <1>2, NewJobInv
  <1>3. ASSUME NEW t \in Threads, Step(t) PROVE IInv'
    BY <1>3, ReadJobInv, SendJobInv, SendTargetInv, VisitInv, VisitIdleInv DEF Step
  <1>4. ASSUME NEW r \in Requests, Handle(r) PROVE IInv'
    BY <1>4, AuthorizingInv, EnsureInitialWorkSentInv, UpdateVarDiffInv, RejectedInv, RebroadcastInv
       DEF Handle
  <1>5. ASSUME NEW r \in Requests, NEW c \in Clients,
               NEW method \in {"subscribe", "authorize", "submit"}, Receive(r, c, method)
        PROVE  IInv'
    BY <1>5, ReceiveInv
  <1> QED BY <1>1, <1>2, <1>3, <1>4, <1>5 DEF Next

LEMMA IInvHolds == Spec => []IInv
  BY IInvInit, IInvStep, PTL DEF Spec

\* However many requests overlap, initial work is sent to a worker at most once,
\* a worker that counts as provided has got it or one thread is about to send
\* it, and the flag is set only after an authorization
\* (AionPool.EnsureInitialWorkSent).
THEOREM InitialWorkIsSentOnce == Spec => InitialWorkOnce
  <1> DEFINE Once == \A c \in Clients :
                        /\ told[c].initial <= 1
                        /\ c \in initialSent \cap connected => Provided(c)
             Authorizes == \A c \in Clients : c \in initialSent' \ initialSent => c \in authorized
  <1>1. IInv => Once
    BY DEF IInv, Initial
  <1>2. IInv /\ [Next]_vars => [Authorizes]_vars
    <2> SUFFICES ASSUME Next PROVE Authorizes
      BY DEF vars
    <2>1. ASSUME NEW t \in Threads, Step(t) PROVE initialSent' = initialSent
      BY <2>1 DEF Step, ReadJob, SendJob, SendTarget, Visit, VisitIdle, flags
    <2>2. ASSUME NEW r \in Requests, Handle(r) PROVE Authorizes
      BY <2>2 DEF Handle, OnSubscribe, Authorized, StaticDiff, EnsureInitialWorkSent, Accept,
                  UpdateVarDiff, Warn, Rebroadcast, Reject, flags
    <2> QED BY <2>1, <2>2 DEF Next, NewJob, Receive, flags
  <1> QED BY <1>1, <1>2, IInvHolds, PTL DEF Spec, InitialWorkOnce

\* When the broadcast of a job is over, every worker that was ready all the time
\* has heard of it or is disconnected, unless an older job was put back
\* (AionPool.OnNewJob).
THEOREM BroadcastsReachTheReady == Spec => []BroadcastReaches
  <1>1. IInv => BroadcastReaches
    BY DEF IInv, TypeInv, Reaches, Coming, Sending, BroadcastReaches
  <1> QED BY <1>1, IInvHolds, PTL
=============================================================================
