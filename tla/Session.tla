------------------------------- MODULE Session -------------------------------
(***************************************************************************)
(* How workers of AionPool come by their work: subscribe, authorize, the   *)
(* initial work, the broadcasts of new jobs, retargets, and what a rejected*)
(* share leads to.  Every request runs on a task of its own, and so does   *)
(* the poll that broadcasts jobs.                                          *)
(*                                                                         *)
(* Work is sent as two messages, the job and the target, and the job is    *)
(* read from currentJobParams just before it is sent.  Messages of one     *)
(* client are delivered in the order in which they are queued.             *)
(***************************************************************************)
EXTENDS Integers, FiniteSets

CONSTANTS
    Clients, Requests,
    StartDiff,
    StaticDiffs,   \* difficulties a password may ask for
    Retargets,     \* difficulties VarDiffManager may choose
    MaxJobs,       \* bound: jobs
    Bans           \* may ConsiderBan decide to ban?

ASSUME NumbersAssumption ==
    /\ StartDiff \in Nat \ {0} /\ StaticDiffs \subseteq Nat \ {0} /\ Retargets \subseteq Nat \ {0}
    /\ MaxJobs \in Nat \ {0} /\ Bans \in BOOLEAN

Poll == "poll"
Threads == Requests \cup {Poll}
ASSUME ThreadsAssumption == Poll \notin Requests

VARIABLES
    made,         \* jobs the manager has emitted
    current,      \* currentJobParams
    connected,    \* the clients the server knows
    subscribed, authorized, initialSent,  \* flags of the contexts
    diff,         \* context.Difficulty
    told,         \* history: [job, target] last sent, the newest job ever sent,
                  \* how often initial work was sent
    cast,         \* clients a thread's broadcast has still to visit
    due,          \* history: clients ready ever since the poll's broadcast began
    undone,       \* history: an older job was broadcast after a newer one
    send,         \* the work a thread is about to send
    req           \* the requests

flags == <<subscribed, authorized, initialSent>>
vars == <<made, current, connected, flags, diff, told, cast, due, undone, send, req>>

NoSend == [step |-> "none"]
NoRequest == [pc |-> "free"]
Ready(c) == c \in subscribed /\ c \in authorized /\ c \in initialSent

Init ==
    /\ made = 1 /\ current = 1     \* "we need work before opening the gates"
    /\ connected = Clients
    /\ subscribed = {} /\ authorized = {} /\ initialSent = {}
    /\ diff = [c \in Clients |-> StartDiff]
    /\ told = [c \in Clients |-> [job |-> 0, target |-> 0, newest |-> 0, initial |-> 0]]
    /\ cast = [t \in Threads |-> {}] /\ due = {} /\ undone = FALSE
    /\ send = [t \in Threads |-> NoSend]
    /\ req = [r \in Requests |-> NoRequest]

-----------------------------------------------------------------------------
(* Sending work: three steps of a thread.  A client that is disconnected   *)
(* gets nothing.                                                           *)

Work(c, why) == [step |-> "read", c |-> c, target |-> diff[c], job |-> 0, why |-> why]

ReadJob(t) ==
    /\ send[t].step = "read"
    /\ send' = [send EXCEPT ![t].step = "job", ![t].job = current]
    /\ UNCHANGED <<made, current, connected, flags, diff, told, cast, due, undone, req>>

Larger(a, b) == IF a < b THEN b ELSE a

SendJob(t) ==
    LET c == send[t].c IN
    /\ send[t].step = "job"
    /\ send' = [send EXCEPT ![t].step = "target"]
    /\ IF c \in connected
       THEN told' = [told EXCEPT ![c].job = send[t].job,
                                 ![c].newest = Larger(@, send[t].job),
                                 ![c].initial = @ + IF send[t].why = "initial" THEN 1 ELSE 0]
       ELSE UNCHANGED told
    /\ UNCHANGED <<made, current, connected, flags, diff, cast, due, undone, req>>

SendTarget(t) ==
    LET c == send[t].c IN
    /\ send[t].step = "target"
    /\ send' = [send EXCEPT ![t] = NoSend]
    /\ told' = IF c \in connected THEN [told EXCEPT ![c].target = send[t].target] ELSE told
    /\ UNCHANGED <<made, current, connected, flags, diff, cast, due, undone, req>>

-----------------------------------------------------------------------------
(* Broadcasts.                                                             *)

\* The manager emits a job, and OnNewJob begins.
NewJob ==
    /\ made < MaxJobs /\ cast[Poll] = {} /\ send[Poll] = NoSend
    /\ made' = made + 1 /\ current' = made + 1
    /\ cast' = [cast EXCEPT ![Poll] = connected]
    /\ due' = {c \in connected : Ready(c)}
    /\ UNCHANGED <<connected, flags, diff, told, undone, send, req>>

\* Mutant: only clients that have been told of the last job are visited.
Visited_UpToDate(c) == Ready(c) /\ told[c].job + 1 = current

Visited(c) == Ready(c)

\* ForEachClient: the thread comes to client c, which is left out or sent work.
Visit(t, c) ==
    /\ c \in cast[t] /\ send[t] = NoSend
    /\ cast' = [cast EXCEPT ![t] = @ \ {c}]
    /\ send' = IF Visited(c) THEN [send EXCEPT ![t] = Work(c, "news")] ELSE send
    /\ UNCHANGED <<made, current, connected, flags, diff, told, due, undone, req>>

\* ... or is disconnected because it was idle for too long.
VisitIdle(t, c) ==
    /\ c \in cast[t] /\ send[t] = NoSend /\ Visited(c)
    /\ cast' = [cast EXCEPT ![t] = @ \ {c}]
    /\ connected' = connected \ {c}
    /\ UNCHANGED <<made, current, flags, diff, told, due, undone, send, req>>

-----------------------------------------------------------------------------
(* Requests.                                                               *)

Goto(r, step) == req' = [req EXCEPT ![r].pc = step]

Receive(r, c, method) ==
    /\ req[r].pc = "free" /\ c \in connected
    /\ req' = [req EXCEPT ![r] = [pc |-> method, c |-> c, param |-> 0]]
    /\ UNCHANGED <<made, current, connected, flags, diff, told, cast, due, undone, send>>

OnSubscribe(r) ==
    /\ req[r].pc = "subscribe"
    /\ subscribed' = subscribed \cup {req[r].c}
    /\ Goto(r, "done")
    /\ UNCHANGED <<made, current, connected, authorized, initialSent, diff, told, cast, due, undone, send>>

\* The daemon has answered whether the address is valid.
Authorized(r) ==
    /\ req[r].pc = "authorize"
    /\ \/ authorized' = authorized \cup {req[r].c} /\ UNCHANGED due
       \/ authorized' = authorized \ {req[r].c} /\ due' = due \ {req[r].c}
    /\ Goto(r, "static")
    /\ UNCHANGED <<made, current, connected, subscribed, initialSent, diff, told, cast, undone, send>>

\* A difficulty in the password, or none.
StaticDiff(r) ==
    /\ req[r].pc = "static"
    /\ \E d \in StaticDiffs \cup {diff[req[r].c]} : diff' = [diff EXCEPT ![req[r].c] = d]
    /\ Goto(r, "ensure")
    /\ UNCHANGED <<made, current, connected, flags, told, cast, due, undone, send>>

\* lock (context): no thread is about to send this client its initial work.
Locked(c) == \E t \in Threads : send[t].step # "none" /\ send[t].c = c /\ send[t].why = "initial"

\* It is called by OnAuthorize, for an accepted share, which may lead to a retarget
\* then, and for a rejected one.
Ensuring(r) == req[r].pc \in {"ensure", "accepted"} /\ send[r] = NoSend /\ ~Locked(req[r].c)
Ensured(r) == Goto(r, IF req[r].pc = "accepted" THEN "retarget" ELSE "done")

\* Mutant: work is left to the next broadcast if the worker has not subscribed.
EnsureInitialWorkSent_Later(r) ==
    LET c == req[r].c IN
    /\ Ensuring(r)
    /\ IF c \in authorized \ initialSent
       THEN /\ initialSent' = initialSent \cup {c}
            /\ send' = IF c \in subscribed THEN [send EXCEPT ![r] = Work(c, "initial")] ELSE send
       ELSE UNCHANGED <<initialSent, send>>
    /\ Ensured(r)
    /\ UNCHANGED <<made, current, connected, subscribed, authorized, diff, told, cast, due, undone>>

\* Mutant: the flag is not set.
EnsureInitialWorkSent_NoFlag(r) ==
    LET c == req[r].c IN
    /\ Ensuring(r)
    /\ IF c \in authorized /\ told[c].initial < 2
       THEN send' = [send EXCEPT ![r] = Work(c, "initial")] ELSE UNCHANGED send
    /\ Ensured(r)
    /\ UNCHANGED <<made, current, connected, flags, diff, told, cast, due, undone>>

EnsureInitialWorkSent(r) ==
    LET c == req[r].c IN
    /\ Ensuring(r)
    /\ IF c \in authorized /\ c \notin initialSent
       THEN initialSent' = initialSent \cup {c} /\ send' = [send EXCEPT ![r] = Work(c, "initial")]
       ELSE UNCHANGED <<initialSent, send>>
    /\ Ensured(r)
    /\ UNCHANGED <<made, current, connected, subscribed, authorized, diff, told, cast, due, undone>>

\* An accepted share, be it for a job that the worker was sent on this connection
\* or knows from another one.
Accept(r) ==
    /\ req[r].pc = "submit" /\ req[r].c \in authorized \cap subscribed
    /\ Goto(r, "accepted")
    /\ UNCHANGED <<made, current, connected, flags, diff, told, cast, due, undone, send>>

UpdateVarDiff(r) ==
    LET c == req[r].c IN
    /\ req[r].pc = "retarget" /\ send[r] = NoSend
    /\ ~\E t \in Threads : send[t].step # "none" /\ send[t].c = c /\ send[t].why = "retarget"
    /\ \/ \E d \in Retargets \ {diff[c]} :
             /\ diff' = [diff EXCEPT ![c] = d]
             /\ send' = [send EXCEPT ![r] = [Work(c, "retarget") EXCEPT !.target = d]]
       \/ UNCHANGED <<diff, send>>
    /\ Goto(r, "done")
    /\ UNCHANGED <<made, current, connected, flags, told, cast, due, undone>>

\* A rejected share in the window around half of the threshold ...
Warn(r) ==
    LET c == req[r].c IN
    /\ req[r].pc = "submit"
    /\ \/ c \in authorized \ initialSent /\ Goto(r, "ensure") /\ UNCHANGED connected
       \/ /\ c \in authorized \cap initialSent
          /\ req' = [req EXCEPT ![r].pc = "recast", ![r].param = current]
          /\ UNCHANGED connected
       \/ c \notin authorized /\ connected' = connected \ {c} /\ Goto(r, "done")
    /\ UNCHANGED <<made, current, flags, diff, told, cast, due, undone, send>>

\* ... makes the request broadcast the job it has read again, to all.
Rebroadcast(r) ==
    /\ req[r].pc = "recast"
    /\ current' = req[r].param /\ undone' = (undone \/ req[r].param < current)
    /\ cast' = [cast EXCEPT ![r] = connected]
    /\ Goto(r, "done")
    /\ UNCHANGED <<made, connected, flags, diff, told, due, send>>

\* A rejected share outside of the window: ConsiderBan.
Reject(r) ==
    LET c == req[r].c IN
    /\ req[r].pc = "submit"
    /\ connected' \in {connected} \cup (IF Bans THEN {connected \ {c}} ELSE {})
    /\ Goto(r, "done")
    /\ UNCHANGED <<made, current, flags, diff, told, cast, due, undone, send>>

-----------------------------------------------------------------------------
Step(t) == \/ ReadJob(t) \/ SendJob(t) \/ SendTarget(t)
           \/ \E c \in Clients : Visit(t, c) \/ VisitIdle(t, c)

Handle(r) == \/ OnSubscribe(r) \/ Authorized(r) \/ StaticDiff(r) \/ EnsureInitialWorkSent(r)
             \/ Accept(r) \/ UpdateVarDiff(r) \/ Warn(r) \/ Rebroadcast(r) \/ Reject(r)

Next ==
    \/ NewJob
    \/ \E t \in Threads : Step(t)
    \/ \E r \in Requests : Handle(r)
    \/ \E r \in Requests, c \in Clients, method \in {"subscribe", "authorize", "submit"} :
          Receive(r, c, method)

Spec == Init /\ [][Next]_vars

\* Threads that have something to do go on.
FairSpec == /\ Spec
            /\ \A t \in Threads : WF_vars(Step(t))
            /\ \A r \in Requests : WF_vars(Handle(r))

-----------------------------------------------------------------------------
\* The thread has still to send its client the initial work.
Pending(t) == send[t] # NoSend /\ send[t].step \in {"read", "job"} /\ send[t].why = "initial"

\* The client has got its initial work, or will.
Provided(c) == told[c].initial = 1 \/ \E t \in Threads : Pending(t) /\ send[t].c = c

\* However subscribes, authorizes and submits of one worker overlap, it is sent its
\* initial work once: never twice, and a worker that counts as provided, which no
\* other request will provide, has got it, or one thread is about to send it.  The
\* flag is set only for a worker whose address the daemon found valid
\* (AionPool.EnsureInitialWorkSent).  That a broadcast overtakes the initial work
\* is not excluded: the flag is set before it is sent, and OnNewJob takes no lock.
InitialWorkOnce ==
    /\ [](\A c \in Clients :
            /\ told[c].initial <= 1
            /\ c \in initialSent \cap connected => Provided(c))
    /\ [][\A c \in Clients : c \in initialSent' \ initialSent => c \in authorized]_vars

\* When the broadcast of a job is over, every worker that was ready all the time
\* has heard of that job, or it is disconnected (AionPool.OnNewJob).  Not so if
\* a broadcast for a rejected share has put an older job back.
BroadcastReaches ==
    cast[Poll] = {} /\ send[Poll] = NoSend /\ ~undone =>
        \A c \in due \cap connected : told[c].newest = made

\* A worker that is authorized gets work and a target, unless it is
\* disconnected or loses the authorization again (AionPool.OnAuthorize).
WorkArrives ==
    \A c \in Clients :
        c \in authorized ~> (told[c].target # 0 \/ c \notin authorized \cap connected)
=============================================================================
