------------------------------ MODULE AionJobs ------------------------------
(***************************************************************************)
(* Work and shares of one Aion pool: AionJobManager polls the daemon for   *)
(* templates, makes jobs of them and drops old ones, AionPool announces    *)
(* them, and AionJob judges the shares the workers submit.  Every request  *)
(* runs on a task of its own, so the steps of requests, of the poll and of *)
(* the difficulty updates interleave.                                      *)
(*                                                                         *)
(* The workers here are subscribed and authorized and have got their       *)
(* initial work (module Session has the way there).  A solution is valid   *)
(* or not and has a quality: the largest difficulty whose target its hash  *)
(* meets.  A job's id is its index in jobs; ids wrap after 2^31 jobs, which*)
(* is not modelled.                                                        *)
(***************************************************************************)
EXTENDS Integers, Sequences, FiniteSets

CONSTANTS
    Workers,       \* connected workers
    Requests,      \* submit requests
    Nonces,        \* nonces a worker may use (ExtraNonce1 makes them its own)
    Solutions,     \* Equihash solutions a worker may send
    Quality,       \* Quality[s]: largest difficulty s meets; 0: s is invalid
    BlockQuality,  \* quality the block target asks for
    Diffs,         \* difficulties VarDiffManager may choose
    StartDiff,     \* difficulty of the port, or of the password
    VarDiffs,      \* the workers whose difficulty is adjusted
    NetDiffs,      \* answers of getdifficulty; 0 when the daemon fails
    MaxBlockBacklog,
    MaxHeaders, MaxJump,   \* bounds: block headers, heights between two polls
    MaxJobs,       \* bound: jobs
    MaxLag,        \* how many headers the daemon that answers may be behind
    StatsFail,     \* may the statistics RPC of UpdateJob fail?
    Overlap        \* may a worker submit before its last request is answered?

ASSUME NumbersAssumption ==
    /\ MaxBlockBacklog \in Nat /\ MaxHeaders \in Nat \ {0} /\ MaxJump \in Nat
    /\ MaxJobs \in Nat /\ MaxLag \in Nat /\ StartDiff \in Nat \ {0} /\ BlockQuality \in Nat \ {0}
ASSUME SetsAssumption ==
    /\ Diffs \subseteq Nat \ {0} /\ NetDiffs \subseteq Nat
    /\ Quality \in [Solutions -> Nat] /\ VarDiffs \subseteq Workers
    /\ StatsFail \in BOOLEAN /\ Overlap \in BOOLEAN

VARIABLES
    headers,    \* heights of the headers the chain has offered so far
    jobs,       \* [header, net]: the jobs made, by id
    validJobs,  \* ids of validJobs
    currentJob, \* its id, 0 before the first
    announced,  \* currentJobParams: the id last broadcast, 0 before the first
    told,       \* ids miners have heard of
    updater,    \* "idle", or "announce" when UpdateJob returned true
    silent,     \* history: jobs made current by an UpdateJob that returned false
    diff, prev, pending,  \* of a worker's context; 0 is null
    updated,    \* VarDiff.LastUpdate is set
    nonces,     \* nonces[j][w]: [gen, used] of the dictionary, gen = 0 for none
    req,        \* the requests
    minted,     \* history: the header the daemon made of a request's block, 0 for none
    declined,   \* history: requests whose block it refused without an error
    unheard     \* history: requests whose block it took without being heard

work == <<headers, jobs, validJobs, currentJob, announced, told, updater, silent>>
contexts == <<diff, prev, pending, updated>>
answers == <<minted, declined, unheard>>
vars == <<headers, jobs, validJobs, currentJob, announced, told, updater, silent,
          diff, prev, pending, updated, nonces, req, minted, declined, unheard>>

Ids == 1 .. MaxJobs
HeightOf(j) == headers[jobs[j].header]
NoNonces == [gen |-> 0, used |-> {}]
NoRequest == [pc |-> "free"]
InFlight == {"check", "create", "add", "verify", "credit", "judge", "submit", "took", "wait"}

Init ==
    /\ headers = <<1>>
    /\ jobs = <<>> /\ validJobs = {} /\ currentJob = 0
    /\ announced = 0 /\ told = {} /\ updater = "idle" /\ silent = {}
    /\ diff = [w \in Workers |-> StartDiff]
    /\ prev = [w \in Workers |-> 0] /\ pending = [w \in Workers |-> 0]
    /\ updated = [w \in Workers |-> FALSE]
    /\ nonces = [j \in Ids |-> [w \in Workers |-> NoNonces]]
    /\ req = [r \in Requests |-> NoRequest]
    /\ minted = [r \in Requests |-> 0] /\ declined = {} /\ unheard = {}

-----------------------------------------------------------------------------
(* The daemon and the poll.                                                *)

\* A block of another pool, or a new set of transactions for the same height.
NewHeader ==
    /\ Len(headers) < MaxHeaders
    /\ \E k \in 0 .. MaxJump : headers' = Append(headers, headers[Len(headers)] + k)
    /\ UNCHANGED <<jobs, validJobs, currentJob, announced, told, updater, silent,
                   contexts, nonces, req, answers>>

\* Mutant: jobs at the edge of the backlog are removed too.
Kept_Inclusive(ids, height) == {j \in ids : HeightOf(j) > height - MaxBlockBacklog}

\* The jobs that are not obsolete next to one for the given height.
Kept(ids, height) == {j \in ids : HeightOf(j) >= height - MaxBlockBacklog}

\* UpdateJob is over: it returned true, or the statistics call threw and it
\* returned false.
Made ==
    \/ updater' = "announce" /\ UNCHANGED silent
    \/ StatsFail /\ UNCHANGED updater /\ silent' = silent \cup {Len(jobs) + 1}

\* Mutant: the new job is not put into validJobs before old ones are removed.
UpdateJob_NotListed(i, net) ==
    /\ updater = "idle" /\ Len(jobs) < MaxJobs
    /\ (currentJob # 0 => jobs[currentJob].header # i)
    /\ jobs' = Append(jobs, [header |-> i, net |-> net])
    /\ validJobs' = Kept(validJobs, headers[i])
    /\ currentJob' = Len(jobs) + 1
    /\ Made
    /\ UNCHANGED <<headers, announced, told, contexts, nonces, req, answers>>

\* Mutant: the job is listed under the id the next one will get.
UpdateJob_NextId(i, net) ==
    /\ updater = "idle" /\ Len(jobs) < MaxJobs
    /\ (currentJob # 0 => jobs[currentJob].header # i)
    /\ jobs' = Append(jobs, [header |-> i, net |-> net])
    /\ validJobs' = Kept(validJobs, headers[i]) \cup {Len(jobs) + 2}
    /\ currentJob' = Len(jobs) + 1
    /\ Made
    /\ UNCHANGED <<headers, announced, told, contexts, nonces, req, answers>>

\* Mutant: whether the job is new is asked after it became current.
UpdateJob_Quiet(i, net) ==
    /\ updater = "idle" /\ Len(jobs) < MaxJobs
    /\ (currentJob # 0 => jobs[currentJob].header # i)
    /\ jobs' = Append(jobs, [header |-> i, net |-> net])
    /\ validJobs' = Kept(validJobs, headers[i]) \cup {Len(jobs) + 1}
    /\ currentJob' = Len(jobs) + 1
    /\ UNCHANGED <<headers, announced, told, updater, silent, contexts, nonces, req, answers>>

\* UpdateJob with the template for header i and the answer net of
\* getdifficulty.  The job is listed and current before the statistics RPC;
\* if that throws, nothing is broadcast.  A difficulty that cannot be converted
\* throws before anything is changed, as if there had been no poll.
UpdateJob(i, net) ==
    /\ updater = "idle" /\ Len(jobs) < MaxJobs
    /\ (currentJob # 0 => jobs[currentJob].header # i)
    /\ jobs' = Append(jobs, [header |-> i, net |-> net])
    /\ validJobs' = Kept(validJobs, headers[i]) \cup {Len(jobs) + 1}
    /\ currentJob' = Len(jobs) + 1
    /\ Made
    /\ UNCHANGED <<headers, announced, told, contexts, nonces, req, answers>>

Poll == \E i \in DOMAIN headers, net \in NetDiffs :
            i + MaxLag >= Len(headers) /\ UpdateJob(i, net)

\* Mutant: the tasks waiting for the next job are not continued.
Announce_NoWakeup ==
    /\ updater = "announce" /\ updater' = "idle"
    /\ announced' = currentJob /\ told' = told \cup {currentJob}
    /\ UNCHANGED <<headers, jobs, validJobs, currentJob, silent, contexts, nonces, req, answers>>

\* The new job is emitted: OnNewJob broadcasts it and applies the pending
\* difficulties, and the tasks that await Jobs.Take(1) go on.  A difficulty that
\* the retarget's own thread applies at the same time is applied twice.
Announce ==
    /\ updater = "announce" /\ updater' = "idle"
    /\ announced' = currentJob /\ told' = told \cup {currentJob}
    /\ diff' = [w \in Workers |-> IF pending[w] # 0 THEN pending[w] ELSE diff[w]]
    /\ \E twice \in SUBSET Workers :
          prev' = [w \in Workers |-> IF pending[w] = 0 THEN prev[w]
                                    ELSE IF w \in twice THEN pending[w] ELSE diff[w]]
    /\ pending' = [w \in Workers |-> 0]
    /\ req' = [r \in Requests |-> IF req[r].pc = "wait" THEN [req[r] EXCEPT !.pc = "accepted"]
                                                        ELSE req[r]]
    /\ UNCHANGED <<headers, jobs, validJobs, currentJob, silent, updated, nonces, answers>>

\* VarDiffManager.Update wants another difficulty (module VarDiff), ...
UpdateVarDiff(w, d) ==
    /\ w \in VarDiffs /\ d # diff[w]
    /\ pending' = [pending EXCEPT ![w] = d]
    /\ updated' = [updated EXCEPT ![w] = TRUE]
    /\ UNCHANGED <<work, diff, prev, nonces, req, answers>>

\* ... which is applied a moment later (AionPool.OnVarDiffUpdate).
ApplyPendingDifficulty(w) ==
    /\ pending[w] # 0
    /\ diff' = [diff EXCEPT ![w] = pending[w]]
    /\ prev' = [prev EXCEPT ![w] = diff[w]]
    /\ pending' = [pending EXCEPT ![w] = 0]
    /\ UNCHANGED <<work, updated, nonces, req, answers>>

-----------------------------------------------------------------------------
(* One submit request: the stale check, the duplicate check in two steps,  *)
(* verification, judgement, and the way of a block candidate.              *)

Goto(r, step) == req' = [req EXCEPT ![r].pc = step]
Waiting(w) == \E r \in Requests : req[r].pc \in InFlight /\ req[r].w = w

Lookup(r, w, j, n, s) ==
    /\ req[r].pc = "free" /\ j \in told
    /\ Overlap \/ ~Waiting(w)
    /\ req' = [req EXCEPT ![r] =
          [pc |-> IF j \in validJobs THEN "check" ELSE "stale",
           w |-> w, job |-> j, nonce |-> n, sol |-> s, gen |-> 0, credit |-> 0,
           candidate |-> FALSE, seen |-> 0]]
    /\ UNCHANGED <<work, contexts, nonces, answers>>

Mine(r) == nonces[req[r].job][req[r].w]

\* Mutant: the nonce is not looked for.
CheckNonce_Skipped(r) ==
    /\ req[r].pc = "check"
    /\ req' = [req EXCEPT ![r].pc = IF Mine(r).gen = 0 THEN "create" ELSE "add",
                          ![r].gen = Mine(r).gen]
    /\ UNCHANGED <<work, contexts, nonces, answers>>

\* RegisterNonce up to the lookups ...
CheckNonce(r) ==
    /\ req[r].pc = "check"
    /\ req' = [req EXCEPT ![r].pc = IF Mine(r).gen = 0 THEN "create"
                                    ELSE IF req[r].nonce \in Mine(r).used THEN "duplicate"
                                    ELSE "add",
                          ![r].gen = Mine(r).gen]
    /\ UNCHANGED <<work, contexts, nonces, answers>>

\* ... and from there on.  Two threads that insert into the Dictionary at
\* once may lose an entry.
CreateNonces(r) ==
    /\ req[r].pc = "create"
    /\ \/ nonces' = [nonces EXCEPT ![req[r].job][req[r].w] =
                        [gen |-> @.gen + 1, used |-> {req[r].nonce}]]
       \/ /\ \E q \in Requests \ {r} : req[q].pc = "create" /\ req[q].job = req[r].job
          /\ UNCHANGED nonces
    /\ Goto(r, "verify")
    /\ UNCHANGED <<work, contexts, answers>>

\* The inner dictionary found before may have been replaced meanwhile.
AddNonce(r) ==
    /\ req[r].pc = "add"
    /\ IF Mine(r).gen = req[r].gen
       THEN nonces' = [nonces EXCEPT ![req[r].job][req[r].w].used = @ \cup {req[r].nonce}]
       ELSE UNCHANGED nonces
    /\ Goto(r, "verify")
    /\ UNCHANGED <<work, contexts, answers>>

\* The solution is verified.  The difficulty to credit is the worker's, or the
\* network's if that is less; the worker's is read for the comparison ...
Verify(r) ==
    LET net == jobs[req[r].job].net IN
    /\ req[r].pc = "verify"
    /\ \/ Quality[req[r].sol] = 0 /\ Goto(r, "invalid")
       \/ /\ Quality[req[r].sol] # 0 /\ diff[req[r].w] > net
          /\ req' = [req EXCEPT ![r].pc = "judge", ![r].credit = net]
       \/ Quality[req[r].sol] # 0 /\ diff[req[r].w] <= net /\ Goto(r, "credit")
    /\ UNCHANGED <<work, contexts, nonces, answers>>

\* ... and again for its value.
ReadCredit(r) ==
    /\ req[r].pc = "credit"
    /\ req' = [req EXCEPT ![r].pc = "judge", ![r].credit = diff[req[r].w]]
    /\ UNCHANGED <<work, contexts, nonces, answers>>

Accepted(r) == IF Quality[req[r].sol] >= BlockQuality THEN "submit" ELSE "accepted"

\* Mutant: a worker counts as retargeted before its new difficulty is applied.
Judge_UpdatedOnly(r) ==
    LET w == req[r].w
        q == Quality[req[r].sol]
        low == q < diff[w]
    IN
    /\ req[r].pc = "judge"
    /\ \/ ~low /\ Goto(r, Accepted(r))
       \/ low /\ ~updated[w] /\ Goto(r, "low")
       \/ /\ low /\ updated[w]
          /\ req' = [req EXCEPT ![r].pc = Accepted(r),
                                ![r].credit = IF q < prev[w] THEN prev[w] ELSE @]
    /\ UNCHANGED <<work, contexts, nonces, answers>>

\* Mutant: no share is measured by the difficulty before the retarget.
Judge_CurrentOnly(r) ==
    /\ req[r].pc = "judge"
    /\ Goto(r, IF Quality[req[r].sol] < diff[req[r].w] THEN "low" ELSE Accepted(r))
    /\ UNCHANGED <<work, contexts, nonces, answers>>

\* The difficulty is read once more for the target.  A low share passes once
\* the worker was retargeted, credited with the previous difficulty if it
\* does not meet that either.
Judge(r) ==
    LET w == req[r].w
        q == Quality[req[r].sol]
        low == q < diff[w]
        retargeted == updated[w] /\ prev[w] # 0
    IN
    /\ req[r].pc = "judge"
    /\ \/ ~low /\ Goto(r, Accepted(r))
       \/ low /\ ~retargeted /\ Goto(r, "low")
       \/ /\ low /\ retargeted
          /\ req' = [req EXCEPT ![r].pc = Accepted(r),
                                ![r].credit = IF q < prev[w] THEN prev[w] ELSE @]
    /\ UNCHANGED <<work, contexts, nonces, answers>>

\* Mutant: the daemon's error is not looked at.
SubmitBlockRefused_Unchecked(r) ==
    /\ req[r].pc = "submit"
    /\ req' = [req EXCEPT ![r].pc = "took", ![r].candidate = TRUE]
    /\ UNCHANGED <<work, contexts, nonces, answers>>

\* The daemon takes the block if its height is still open.
Mint(r) ==
    /\ HeightOf(req[r].job) = headers[Len(headers)] /\ Len(headers) < MaxHeaders
    /\ headers' = Append(headers, headers[Len(headers)] + 1)
    /\ minted' = [minted EXCEPT ![r] = Len(headers) + 1]
    /\ UNCHANGED <<jobs, validJobs, currentJob, announced, told, updater, silent, contexts, nonces>>

\* SubmitBlockAsync: the daemon takes the block and says so, ...
SubmitBlock(r) ==
    /\ req[r].pc = "submit"
    /\ Mint(r)
    /\ req' = [req EXCEPT ![r].pc = "took", ![r].candidate = TRUE]
    /\ UNCHANGED <<declined, unheard>>

\* ... or refuses it by false or null, which is no error: the code goes on as if
\* it had taken it, ...
SubmitBlockDeclined(r) ==
    /\ req[r].pc = "submit"
    /\ req' = [req EXCEPT ![r].pc = "took", ![r].candidate = TRUE]
    /\ declined' = declined \cup {r}
    /\ UNCHANGED <<work, contexts, nonces, minted, unheard>>

\* ... or answers with an error, and the share is no candidate any more, ...
SubmitBlockRefused(r) ==
    /\ req[r].pc = "submit"
    /\ Goto(r, "accepted")
    /\ UNCHANGED <<work, contexts, nonces, answers>>

\* ... or takes it and its answer is lost.
SubmitBlockLost(r) ==
    /\ req[r].pc = "submit"
    /\ Mint(r)
    /\ Goto(r, "accepted")
    /\ unheard' = unheard \cup {r}
    /\ UNCHANGED declined

\* The task subscribes to the jobs and waits for the next one, Jobs.Take(1).
Await(r) ==
    /\ req[r].pc = "took"
    /\ req' = [req EXCEPT ![r].pc = "wait", ![r].seen = announced]
    /\ UNCHANGED <<work, contexts, nonces, answers>>

-----------------------------------------------------------------------------
Manager == Poll \/ Announce

Submit(r) ==
    SubmitBlock(r) \/ SubmitBlockDeclined(r) \/ SubmitBlockRefused(r) \/ SubmitBlockLost(r)

Handle(r) == \/ CheckNonce(r) \/ CreateNonces(r) \/ AddNonce(r)
             \/ Verify(r) \/ ReadCredit(r) \/ Judge(r)
             \/ Submit(r) \/ Await(r)

Next ==
    \/ NewHeader \/ Manager
    \/ \E w \in Workers : ApplyPendingDifficulty(w) \/ \E d \in Diffs : UpdateVarDiff(w, d)
    \/ \E r \in Requests : Handle(r)
    \/ \E r \in Requests, w \in Workers, j \in Ids, n \in Nonces, s \in Solutions :
          Lookup(r, w, j, n, s)

Spec == Init /\ [][Next]_vars

\* The poll is an interval timer; requests run on pool threads.
FairSpec == Spec /\ WF_vars(Poll) /\ WF_vars(Announce)
                 /\ \A r \in Requests : WF_vars(Handle(r))

-----------------------------------------------------------------------------
Ends == {"stale", "duplicate", "invalid", "low", "accepted"}

RequestType ==
    [pc : InFlight \cup Ends, w : Workers, job : 1 .. Len(jobs), nonce : Nonces,
     sol : Solutions, gen : Nat, credit : Nat, candidate : BOOLEAN, seen : 0 .. Len(jobs)]

TypeOK ==
    /\ headers \in Seq(Nat \ {0}) /\ Len(headers) \in 1 .. MaxHeaders
    /\ jobs \in Seq([header : DOMAIN headers, net : NetDiffs]) /\ Len(jobs) <= MaxJobs
    /\ validJobs \subseteq DOMAIN jobs /\ told \subseteq DOMAIN jobs
    /\ currentJob \in 0 .. Len(jobs) /\ announced \in 0 .. Len(jobs)
    /\ updater \in {"idle", "announce"} /\ silent \subseteq DOMAIN jobs
    /\ diff \in [Workers -> Nat \ {0}] /\ prev \in [Workers -> Nat]
    /\ pending \in [Workers -> Nat] /\ updated \in [Workers -> BOOLEAN]
    /\ nonces \in [Ids -> [Workers -> [gen : Nat, used : SUBSET Nonces]]]
    /\ req \in [Requests -> {NoRequest} \cup RequestType]
    /\ minted \in [Requests -> 0 .. MaxHeaders]
    /\ declined \subseteq Requests /\ unheard \subseteq Requests

\* The job the pool works on can be submitted to, and no listed job is further
\* behind it than the backlog (AionJobManager.UpdateJob).
WorkIsOpen ==
    currentJob # 0 =>
        /\ currentJob \in validJobs
        /\ \A j \in validJobs : HeightOf(j) >= HeightOf(currentJob) - MaxBlockBacklog

\* A share is refused as stale only after work for a height more than the
\* backlog above its own was made (AionJobManager.SubmitShareAsync).
StaleIsOld ==
    \A r \in Requests : req[r].pc = "stale" =>
        \E j \in DOMAIN jobs : HeightOf(j) > HeightOf(req[r].job) + MaxBlockBacklog

SameShare(r, q) ==
    /\ req[r].w = req[q].w /\ req[r].nonce = req[q].nonce /\ req[r].sol = req[q].sol
    /\ jobs[req[r].job].header = jobs[req[q].job].header

\* No proof of work is accepted twice, whatever job ids it is sent with
\* ("duplicate check", AionJob.ProcessShare).
ShareCountedOnce ==
    \A r, q \in Requests :
        r # q /\ req[r].pc = "accepted" /\ req[q].pc = "accepted" => ~SameShare(r, q)

\* A share is credited with more than it proves only once a retarget of its
\* worker has been applied: before that, no interleaving of the reads of the
\* difficulty with updates that are decided, pending or applied twice gives a
\* worker more than it worked for (AionJob.ProcessShareInternal,
\* WorkerContextBase.ApplyPendingDifficulty).
CreditIsProven ==
    \A r \in Requests :
        req[r].pc = "accepted" /\ req[r].credit > Quality[req[r].sol] => prev[req[r].w] # 0

\* A share that meets the difficulty the worker began with is never refused as
\* low, however many retargets come between the two times the difficulty is
\* read and even if one of them is applied twice
\* (AionJob.ProcessShareInternal, WorkerContextBase.ApplyPendingDifficulty).
LowIsLow ==
    \A r \in Requests : req[r].pc = "low" => Quality[req[r].sol] < StartDiff

\* A share is recorded as a block only if the daemon took the block or refused it
\* without an error, and the block it took is recorded as one unless its answer
\* was lost (AionJobManager.SubmitShareAsync, SubmitBlockAsync).
CandidateIsMinted ==
    \A r \in Requests : req[r].pc = "accepted" =>
        /\ req[r].candidate => minted[r] # 0 \/ r \in declined
        /\ minted[r] # 0 /\ ~req[r].candidate => r \in unheard

\* A task waits for a job that was there before: the work on top of its block was
\* broadcast before it subscribed, or was made without being broadcast, and
\* nothing was broadcast since.
Missed(r) ==
    /\ req[r].pc = "wait" /\ announced = req[r].seen
    /\ \E j \in DOMAIN jobs :
          jobs[j].header >= minted[r] /\ (j = req[r].seen \/ j \in silent)

\* The share of a block the daemon took is handed to the recorder in the end,
\* unless its task has missed the job on top of the block: one that is broadcast
\* after the subscription always reaches it (AionJobManager.SubmitBlockAsync,
\* SetupJobUpdates).
BlockIsRecorded ==
    \A r \in Requests :
        (req[r].pc = "took" /\ minted[r] # 0) ~> (req[r].pc = "accepted" \/ Missed(r))

\* Work is broadcast once it is current, unless the statistics call threw after
\* it was made so (AionJobManager.UpdateJob, SetupJobUpdates).
WorkIsAnnounced ==
    \A j \in Ids : (currentJob = j) ~> (announced = j \/ j \in silent)
=============================================================================
