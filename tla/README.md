# Verification of the Aion mining pool

This directory keeps TLA+ models of the pool server (`src/aion_pool/src/MiningCore`, a C# fork of
MiningCore), the TLC configurations that check them on small instances, and TLAPS proofs of what
matters most. All source paths below are relative to `src/aion_pool/src/MiningCore`.

## 1. The system

| Part | State it keeps | Operations | Interacts with |
|---|---|---|---|
| Stratum server (`Stratum/`) | connected clients, a receive buffer and a send queue per client | accept, receive lines, send, disconnect, broadcast | pool (callbacks), ban manager |
| Pool (`Mining/PoolBase`, `Blockchain/Aion/AionPool`) | worker contexts: subscribed, authorized, difficulty, share statistics; current job parameters | subscribe, authorize, submit, new job broadcast, vardiff, ban decision | job manager, server, message bus |
| Job manager (`Blockchain/Aion/AionJobManager`, `AionJob`) | current job, the recent valid jobs, submitted nonces | new template, submit share, submit block | daemon, pool |
| VarDiff (`VarDiff/`) | a ring of share intervals and the last retarget per worker | update | pool |
| Circular buffer (`Util/CircularBuffer`) | a ring of slots | push, pop, read, write, enumerate | VarDiff |
| Ban manager (`Banning/`) | banned addresses with an expiry | ban, is-banned | server, pool |
| Share recorder (`Mining/ShareRecorder`) | queue of shares, recovery file | enqueue, persist batch with retry / circuit breaker / fallback, import recovery file | message bus, PostgreSQL |
| Share relay and receiver (`Mining/ShareRelay`, `ShareReceiver`) | queue; ZeroMQ sockets | publish, receive, reconnect | message bus, remote pool |
| Payment processing (`Payments/`, `Blockchain/Aion/AionPayoutHandler`) | rows of `blocks`, `balances`, `balance_changes`, `payments`; the thread's locals | classify, credit, pay out, persist | daemon, PostgreSQL |
| Payout schemes (`Payments/PaymentSchemes`) | rows of `shares` | compute rewards, delete paid shares | payment processing |
| Proof of work (`Crypto/Hashing/Equihash`, `Native/libmultihash/equi210`, `AionUtils`) | none | verify an Equihash solution, compare a digest with a target | job manager |
| Statistics (`Mining/StatsRecorder`) | pool and miner statistics rows | periodic update | PostgreSQL |
| Daemon client (`DaemonInterface/`) | none | execute on all / any / one endpoint | every part that talks to the Aion kernel |
| Line buffer (`Util/PooledLineBuffer`) | unfinished line | receive chunk | Stratum client |
| Message bus, notifications, API, start-up (`Messaging`, `Notifications`, `Api`, `Program`) | subscriptions, a mail queue, caches | publish, notify, serve | all |

**What is hard.** Requests of one client run on the thread pool and may overtake each other; the
pool, the server and the job manager share worker contexts with few locks; the payment thread mixes
database transactions with irrevocable transfers; shares live in a queue before they are stored;
the daemon may be slow, behind, or gone; heights, nonces and extra-nonces wrap around.

**What makes each part correct.**
Payments: every block credited once, books that balance, no transfer that the books do not explain.
Share recording: no share lost or stored twice unless the database and the recovery file both fail.
Jobs: a share is judged against the job it was mined for, and a solution is accepted once.
Stratum: lines are reassembled exactly; messages leave in order, none is forgotten, and a rented array goes back once.
VarDiff: the difficulty stays in its bounds and follows the share rate.
Schemes: rewards follow the window, and shares that another block still needs are not deleted.
Proof of work: a solution is valid exactly if it is one, and the target means the difficulty.

## 2. The modules

A module per component, an `MC` module that gives its constants to TLC, a `.cfg` per run, and a
`Proofs` module where theorems are proved. Modules that state a promise stand by themselves.

### Payments, Ledger, MCPayments, PaymentsProofs

`Payments` models the payment thread: the pools are taken in turn, the pending heights are read
(`ReadPending`), classified by the daemon (`ClassifyBlocks`), each is credited and updated in one
transaction (`ApplyBlock`), the balances over the minimum are read (`ReadBalances`), sent
(`SendOk`, `SendRefused`, `SendLost`) and struck off (`PersistOk`, `PersistRetry`, `PersistGiveUp`,
`PersistAckLost`). Exceptions (`AbortPool`) and crashes (`Crash`) may come between any two of them,
and meanwhile chains grow and reorganise and block rows arrive.

| State | In the code |
|---|---|
| `status`, `balance`, `debits`, `paid` | the tables `blocks`, `balances`, the "Balance reset" rows of `balance_changes`, `payments` |
| `work`, `due`, `cur`, `tries`, `pc`, `at` | the locals of `PayoutManager.ProcessPoolsAsync` and `AionPayoutHandler` |
| `tip`, `ours` | the chain, as the daemon reports it |
| `sent` | the transfers the wallet made |
| `credits`, `faults` | history |

Heights are unsigned: differences are taken modulo `Word`, so that a daemon that answers an older
"latest block" than the block in question gives a huge depth, as it does in the code.
`Ledger` is the promise: each block is credited once, and an account is only struck off in full.

### ShareRecorder, MCShareRecorder, ShareRecorderProofs

Shares are members of sets that follow their way: `unseen`, `queue` (the `BlockingCollection`),
`buffer` (Rx `Buffer(1 s, 100)`), `batch` (the policy execution in progress), `rows` (the table) or
`file` (the recovery file). The three policies are nested as `BuildFaultHandlingPolicy` wraps them:
retry innermost (`TxRetry`), then the circuit breaker (`Strike`, `CircuitHalfOpen`), then the
fallback that writes the file (`Park`). A transaction that throws (`TxFails`) was rolled back, or
was committed and only its answer is lost. Writing the file may stop half way and leave a torn last
line, to which the next record is glued. `Halt` is `Stop` and every crash. `RecoverShares`,
`ReadRecord`, `ReadGarbled`, `ImportRest` are the import with its chunks of 20, including that a
chunk which failed grows past 20 and waits for the end of the file.

### AionJobs, MCAionJobs, AionJobsProofs

The job manager's poll (`Poll`, `UpdateJob`, `Announce`) and the way of a submit request, one step
per read or write of shared state: `Lookup` (the stale check), `CheckNonce`, `CreateNonces`,
`AddNonce` (the two-level dictionary of nonces, with the two ways to lose an entry), `Verify`,
`ReadCredit` and `Judge` (which read the worker's difficulty three times), and a block candidate's
way to the daemon and back: the daemon takes the block (`Mint`), and the answer is an acceptance
(`SubmitBlock`), an error (`SubmitBlockRefused`), null or false without an error, which the code takes
for an acceptance (`SubmitBlockDeclined`), or is lost (`SubmitBlockLost`). Then the task subscribes to
the next job and waits for it (`Await`). Jobs may be announced between any two of these. If the
statistics call throws, `UpdateJob` leaves a job current that is not announced (`silent`). `UpdateVarDiff` and
`ApplyPendingDifficulty` change the context in between. A request's record `req[r]` is the stack of
the task; `headers` is what the chain has offered, `jobs` the jobs made of it. Two threads that
insert into a `Dictionary` at once may lose an entry even if they insert for different workers, so
what is promised of nonces (jobs_serial, `SerialCountsOnce`) is promised to a single worker.

### Session, MCSession, SessionProofs

How a worker comes by its work: `Receive` starts a request on its own thread, `OnSubscribe`,
`Authorized`, `StaticDiff`, `EnsureInitialWorkSent` are the steps of the handlers, `NewJob`, `Visit`
and `VisitIdle` the broadcast of the poll, `Rebroadcast` the broadcast that a rejected share causes.
`Accept` is an accepted share, after which the request ensures the initial work and goes on to
`UpdateVarDiff`. Sending work is three steps (`ReadJob`, `SendJob`, `SendTarget`), because job and
target are read at different times and sent as two messages. What the history `told` counts apart is
the initial work; a broadcast may be sent before it.

### VarDiff, MCVarDiff, VarDiffProofs

`VarDiff` is `VarDiffManager.Update` with the idle timers of `PoolBase` around it. Instants are kept
as ages, so that time needs no unbounded clock; difficulties are integers, and quotients are rounded
down where the code computes in double. `rate` is the worker: a speed, or 0 for shares at any time.
The lock on `context.VarDiff` is held from `Update` until the difficulty is applied, which the guard
`newDiff = 0` says. `Added` is `PushBack` as the ring buffer promises it; the array that keeps the
promise is `CircularBuffer`, below, and `VarDiffProofs` is about both.

### Pplns, MCPplns, PplnsProofs

`PPLNSPaymentScheme` with the turn of `PayoutManager` around it: `ReadPage` (the query, with rows of
one time stamp in any order), `SkipRow`, `CountRow` and `Overflow` (the loop over a page),
`UpdateBalances` (the credits and the deletion of old shares, one transaction), `Orphan`, and
`Abort` for a read that fails five times, a failed transaction or the end of the process. Shares
arrive meanwhile (`Insert`). `confirmed` and `orphaned` are the blocks that are settled. Scores are integers, and an amount is a multiple of reward / window, so
nothing is rounded. `Payments` takes the result as its constant `Credit`.

### Connection, MCConnection, ConnectionProofs

`StratumClient` after the handshake: any task sends (`Send`, `SerializeFails`, `Enqueue`, `Wake`, in
which the array that carries the message is rented, queued or returned) or disconnects; the loop
thread drains the queue (`DrainSendQueue`, `DrainOne`, and `DrainFails` when the write throws and the
drain ends with the rest still queued), shuts the socket down (`Shutdown`) and runs
the completion (`Complete`, `DisposeDrainer`, `EmptyOne`, `CloseHandle`). `returned` counts for each
message how often its array went back to the pool, which the code cannot see: a segment is a struct,
and every copy of it can be disposed.

### CircularBuffer, Deque, LineBuffer, Equihash, MCAlgorithms

The sequential algorithms, each against its definition. `CircularBuffer` is the array behind the list
of intervals, translated index by index; `Deque` is what its class comment promises. `LineBuffer` is
`PooledLineBuffer.Receive`, a step for each turn of its loop: chunks in rented arrays, which may hold
another client's bytes, become lines; its reference definition, `IsLine` and `LineNumber`, knows only
where the newlines of the whole stream are. `Equihash` is the verifier
of equi210.cpp (`Unpack`, one `Round` for each level of the tree, `Finish`) with its cutting of bytes
into pieces (`ExpandArray`, a shifted accumulator), and `CompareDigest`, the comparison of the digest
with the target of a difficulty, with the signed reading of the target; its reference definition is
`IsProof`, which knows neither rows nor accumulators. Bytes, words and pieces of hashes are functions
from positions to bits, so that shifting, cutting and exclusive or are what they are bit by bit; what
is compared as a number (an index, a digest, a target) is one. `GenerateHash` is a set of blake2b
states, and the model is for all of them. `MCAlgorithms` makes one of the three run; the theorems
about Equihash are in AionJobsProofs, next to those about the job that calls it.

### Sums

No code, only theorems: what the sum of finitely many integers is, for the proofs of the three
modules whose properties add up balances, intervals or scores (`SumFunctionOnSet`), and what a
function defined by recursion on numbers is, for the loops of `Equihash` and `LineBuffer`.

## 3. The runs

`tlc -config <cfg> <module>`; each takes less than two minutes on two cores.

| Run | Config, module | Checks |
|---|---|---|
| payments_books | `PaymentsBooks`, `MCPayments` | types, `BooksBalance`, `SettledRight`, `TransfersRecorded`, and that `Payments` implements `Ledger` |
| payments_progress | `PaymentsProgress`, `MCPayments` | `CreditedOnce`, `BooksBalance`, `SettledStays` with lost COMMIT answers and a lagging daemon, and under fairness `MatureSettles`, `BalancesPaid` |
| payments_shared_heights | `PaymentsSharedHeights`, `MCPayments` | finds `PoolsIndependent` violated |
| recorder_keeps | `RecorderKeeps`, `MCShareRecorder` | types, `NothingLost`, `NeverTwice`, `RecoveryComplete`, and under fairness `Drains` |
| jobs_backlog | `JobsBacklog`, `MCAionJobs` | types, `WorkIsOpen`, `StaleIsOld`, `CandidateIsMinted`, `LowIsLow`, `CreditIsProven` with overlapping requests and retargets |
| jobs_serial | `JobsSerial`, `MCAionJobs` | `ShareCountedOnce`, and under fairness `BlockIsRecorded`, `WorkIsAnnounced`, for a worker that waits for its answers and statistics calls that may throw |
| jobs_overlap | `JobsOverlap`, `MCAionJobs` | finds `ShareCountedOnce` violated |
| vardiff_retargets | `VarDiffRetargets`, `MCVarDiff` | `RetargetHelps`, `BufferIsFresh`, `NeverAbandoned`, and under fairness `SettlesInBand` |
| session_work | `SessionWork`, `MCSession` | `InitialWorkOnce`, `BroadcastReaches`, and under fairness `WorkArrives` |
| pplns_windows | `PplnsWindows`, `MCPplns` | `RewardsFollowWindow`, `WindowsAreKept`, and under fairness `BlocksAreCredited` |
| connection_sends | `ConnectionSends`, `MCConnection` | `NoneForgotten`, `ReturnedOnce`, and under fairness `Flushed` |
| algorithms | `Algorithms`, `MCAlgorithms` | `ImplementsDeque`, `LinesAreSent`, `VerdictIsRight` |

The mutants beside an action (`Judge_CurrentOnly`, ...) are plausible mistakes in that code; put in
the action's place, each makes the property it is listed with in `PROJECT.json` fail.

**Why the bounds are enough.**
Payments: three blocks and two confirmations make rows that are pending, confirmed and orphaned at
the same time; two finders per block make the duplicate rows that several candidates of one height
leave; two faults are a crash during the recovery from another one. In payments_progress two blocks
and one miner suffice: one block can be behind the daemon that answers while the other is credited.
Pools share only the table of blocks, which payments_shared_heights is about.
Recorder: three shares and batches of two leave one full and one timed out batch; two failed
executions open the circuit; an import chunk of two with three records has a full chunk and a rest.
Jobs: three headers with jumps of up to two, and a backlog of one, make jobs inside, at and outside
of the edge; two requests are enough for every race, since the steps touch one entry at a time; two
difficulties and qualities below, between and above them make shares that meet none, one or both;
jobs_serial has no retargets, and shares that are blocks at once.
jobs_serial and jobs_overlap differ in `Overlap`, and jobs_overlap needs one job only.
VarDiff: the buffer holds two intervals, so it overflows; difficulties from 2 to 8 with steps of
two have both limits within reach, and the port difficulties 2 and 12 start at the edge and above
the range; a clock step of one second makes intervals zero and negative.
Session: three requests overlap in every mix of methods, with two jobs after the first.
Pplns: four shares on pages of two make a full page, a last page that is full, partly full and
empty; the 30 tables have time stamps that agree within a page and across its end, and scores that
fill the window of three within a page, at its end, beyond it or never; two blocks come in either
order, and one of them may be worth nothing.
Connection: two tasks with two messages each have two in the queue while a third is between queue
and wake-up; the socket may break in any state, and every write may throw.
Algorithms: the ring of four slots with two items, for every sequence of operations, which wraps at
both ends; streams of six bytes with a limit of two make every combination of complete, split, empty
and too long lines; for the proof of work two levels of the tree, so that a row that was merged is
merged again, with all 4096 solutions, and a second set of hashes that misses on one level only.

## 4. Fairness

Safety runs assume none. The others assume what the code's scheduling gives:

- Payments: the thread's loop goes on (`PayoutManager.Start` loops until the process ends). The
  daemon and the database answer now and then, so for each pool a query, RPC or transaction that is
  tried again and again succeeds again and again (strong fairness, because a failure ends the turn).
  That includes both that a block is updated while it is still pending and that it is settled, and
  that the daemon that answers is not behind (`UpToDate`).
- Recorder: the consumer's loop and its timer run. Nothing is assumed of the database.
- Jobs: the poll is an interval timer, the announcement follows in its thread, and the tasks of
  requests run on pool threads; the call that submits a block has an answer or fails. That a further
  job is made after one that a task has missed is not assumed.
- VarDiff: time passes, a worker of a given speed does send its shares, threads and timers run.
- Session: a thread that has something to do goes on. Clients need not send anything.
- Pplns: the turn goes on, and is not aborted for ever. Blocks and shares need not come.
- Connection: a task that began to send goes on. The loop thread looks at each handle that is
  signalled (strong fairness, because it is also busy with other handles), and goes on with a drain
  and a completion. Nothing makes the client close its side, neither an open connection nor one that
  was shut down.

## 5. The proofs

The proof modules have the same plan: the properties are not inductive, so an invariant `IInv`
strengthens them; `IInvInit`, one lemma per action, `IInvStep`, and then the theorems follow.
Every theorem is for all values of the constants that satisfy the ASSUMEs of its module; what is
assumed beyond them is said here.

**PaymentsProofs.** `TypeCorrect` assumes nothing. `BlocksSettledRight` (rows agree with the final
chain) assumes `Sound`: no two pools share a height, the daemon is up to date (`MaxLag = 0`), and
rows are recorded and reorganisations end within three quarters of the confirmations. The key: what
the thread has found for a height (`work`) stays right until it is applied, because a row it was
read from is still pending, no other pool writes it, and a block that is decided is buried.
What the money needs is less, `CreditInv`: the rows of a height belong to one pool and have one
status (`RowsTogether`), and what the thread works on is still pending (`WorkPending`). It follows
from `Sound`; and also from `OneCandidate`, that no two pools share a height and no height has two
candidates, however far the daemon lags and however late rows and reorganisations come. In both cases
a height is credited when and only when its rows go from pending to confirmed
(`BlocksCreditedOnce`), settled rows are final (`SettledIsFinal`), and `BooksAlwaysBalance` and
`PaymentsIsALedger` follow. Each half is needed: payments_shared_heights shows what two pools with a
height in common do, and payments_progress with a second finder violates `CreditedOnce`: the lagging
daemon has the first candidate of a height confirmed early, the row of the second arrives, is found
pending and has the height credited again.
`BooksAlwaysBalance` needs nothing of COMMIT answers: credits and debits are sums over
blocks, and a transaction adds to both sides alike (by the lemmas of `Sums`). The other money theorems
assume `~AckLoss`, that no answer to a COMMIT is lost. Their invariant, `MoneyInv`,
says that a balance read for payout is still the balance of the row when it is struck off, since
only this thread credits and it has left crediting behind; so no balance goes below zero, nothing is
struck off that was not sent, and without a fault the two differ by what is in flight
(`TransfersAreRecorded`, which does not need `Sound`). With both, each step is a step of `Ledger` or
a stutter (`PaymentsIsALedger`).

**ShareRecorderProofs.** Assumptions: a finite set of shares and numbers in their ranges. `IInv`
adds two parts. `OnePlace`: a share is in one of unseen, queue, buffer, batch and file, so a
transaction adds rows only to shares that had none without a cause. `Imported`: during an import
each record of the file is still to be read, in the chunk, or stored, and those still to be stored
have no row too many; when the file is removed nothing is left. From it `NothingIsLost`,
`StoredOnce`, `ImportsAreComplete` and `TypeCorrect` follow for every number of shares, every batch
size, retry limit, threshold and number of faults.

**AionJobsProofs.** `IInv` adds that a job that is not listed any more is obsolete (`UnlistedIsOld`: a
job leaves the list only in `UpdateJob`, and heights of jobs do not change), which makes a share that
finds no job stale for good reason (`OnlyOldIsStale`), and that a share is marked as a candidate only
if the daemon took its block or declined it without an error, and a block that was taken marks its
share or its answer was lost (`MarkedIsMinted`, hence `CandidatesAreBlocks`). `CurrentWorkIsOpen` and `TypeCorrect`
are parts of `IInv`. `StartDifficultyIsEnough` needs `ContextsAgree`: a previous or a pending
difficulty is there only after a retarget, and a worker without a previous one has the difficulty it
began with, also if a pending one is applied twice at once; so a share that is refused as low is low
by the first difficulty too.

Two properties need more. `SerialCountsOnce` assumes `Serial`: one worker, which waits for its answers, and a daemon that is up to date. Then what a request read of
the nonces is still so when it inserts (`Registered`), two requests past the check differ in nonce
or job (`Distinct`), and two jobs are of two headers (`HeadersRise`), so that another job is another
proof of work. jobs_overlap shows that the waiting is needed. `RetargetsAloneOvercredit` assumes nothing: as long as
no retarget of a worker was applied, its difficulty is the one it began with at each of the three
reads, however often one is pending, and a previous difficulty never goes away again (`Credited`).

The proof of work, `VerdictsAreRight`, is in the same module and assumes `EquihashAssumption`, that is
what equi210.h computes from N and K as far as the verifier depends on it: a byte completes one piece
at most, a word holds what is pending, the indices fill the solution, a hash has enough bits for its
pieces, and `GenerateHash` has an output for every index. (For 210 and 9: 21 and 22 bits of 8 and 32,
512 indices of 22 bits in 1408 bytes, 27 bytes for 210 bits.) The argument has three parts.
(1) `ExpandArray` returns slices: after n bytes it has written q pieces and holds the
`ByteBits * n - w * q` bits that follow them at the end of its accumulator (`Cut`, kept by `CutNext`;
`ExpandArrayCuts`). The recursive function it is defined by satisfies its equation by `Recursion` of
`Sums`. So the first rows are those of the leaves (`FirstRows`).
(2) `RowsAreTrees`, the invariant: after l rounds row p is the tree of the leaves
2^l (p - 1) + 1 .. 2^l p, with their indices in this order and, on each remaining level, the parity of
their bits, and every pair merged so far was distinct, ordered and colliding (`PairsAreGood`). The
exclusive or of two disjoint sets of leaves is that of their union, and is 0 exactly if they collide
(`XorOfUnion`); two rows each without a repeated index and with none in common are one (`PairOfRows`).
The code compares whole lists of indices, the definition first leaves: they agree because distinct
lists differ at once. `RoundOfRows` then says that a pair passes the checks of the code exactly if it
is good, and gives the row of the next level. So the verifier says yes only to a proof (the last row
is 0: `FinishIsRight`), and whatever it refuses is none, because a good pair is missing.
(3) The target: q = 2^DigestBits div d is the number with d q <= 2^DigestBits < d (q + 1)
(`QuotientExists`), and is read as it is from d = 3 on, as 0 at 1 and negative at 2 (`TargetIsRight`).

**SessionProofs.** For initial work: no thread holds initial work for a client whose flag is not set,
so the thread that sets the flag, under the lock of the context, is the only one that holds it, and
it holds it until it has sent it (`Initial`, `Provided`; hence `InitialWorkIsSentOnce`). For broadcasts: as long as no older job was put
back, a client that was ready all the time has heard of the newest job, is still to be visited, or
is the one the poll is sending that job to (`Coming`; hence `BroadcastsReachTheReady`).

**VarDiffProofs.** `WorkersAreWatched`: the message that stops the timers is sent before the update
that starts one, and that update counts as on its way until it has. `AveragesAreOfOneDifficulty`: a
retarget empties the buffer while the lock is held, so intervals that were measured before it never
meet the new difficulty. `RetargetsHelp`: a retarget ends within the bounds, goes up only for a
worker that is too fast and down only for one that is too slow, and by `MaxDelta` at most, for every
target, band, range and history, with the quotients rounded as in the model. If the average is below
the band, the difficulty that would bring it there is not below the present one (`Quotient`,
`WantedHelps`), and limiting and clamping move that towards the present one, never past it
(`RetargetedHelps`).
`BufferIsDeque`: the k-th item of the queue is at position `At(start, k)`, which names each slot once,
`end` is the position behind the last item, and slots without an item hold the default value. From
that, each operation is the operation of `Deque` or a stutter, and the enumerator yields the queue.

**PplnsProofs.** `IInv` relates the loop over the pages to the set of shares it stands for. `Paged`:
what is counted comes before the rest of the page, and that before what is still to be read.
`Accounted`: a share the block should see is counted, on the page, still to be read, or one that the
code passes over at a page's end. `Scored`: the score is that of the shares counted as far as it fits
the window, and each reward is that of the miner's part in them. So when the calculation ends, rewards
are in proportion to a window that was filled from its newest share, or that the table could not fill
(`RewardsAlwaysFollowWindow`). `Beyond`: a share is deleted only if younger ones fill the window of a
confirmed block (`WindowsAreAlwaysKept`). The attempt to prove an earlier form of
`WindowsAreKept` failed for a reason: it asked only about blocks that had changed a balance, and a
block whose reward is 0 deletes shares and changes none. The property is now about every confirmed
block, and the run has such a block.

**Sums.** `SumFunctionOnSet` is recursive, so its value needs induction over finite sets. The
library's theorem of that is out of reach, because its parameter is an operator, but a smallest
counterexample is not: strict inclusion of finite sets is well-founded. A sum is shown to be a count,
f[x] units of each x (`SumIsCount`); the rest, such as `SumAdd`, `SumUnion` and `SumMonotonic`, are
facts about cardinalities.

**ConnectionProofs.** The queue is always the last part of what was queued and what the loop took is the
first part (`Order`), and while the connection is open the two meet. A message is queued before its
task signals the drainer, a drain uses up the signal before it looks, and it ends with the queue
empty or with a write that threw (`Signals`; with both, `NoMessageForgotten`). An array goes
back when its message leaves the queue, and once more only if its task finds the drainer disposed of
(`ArrayOf`; `ArraysGoBackOnce`).
The lines received, `LinesAreAlwaysSent`: up to the byte the loop has come to, the lines passed on
are the lines of the stream and what is queued is the rest since the last newline (`Assembled`).
The next newline in the array is the next one in the stream, since what follows the chunk is cleared
(`FoundLine`); what waits and what comes before it make one line, or an empty one (`LinesGrow`).
`FlattenSeq` is recursive too, and `FlattenAppend` is proved by the least length it could fail at
(`LeastNumber` of `Sums`).

**Only model-checked**: liveness (`MatureSettles`, `BalancesPaid`, `Drains`, `BlockIsRecorded`,
`WorkIsAnnounced`, `WorkArrives`, `SettlesInBand`, `BlocksAreCredited`, `Flushed`), which the prover
cannot do. Every invariant and every action property of the runs that pass is stated by a theorem.

## 6. Where the code and its own words disagree

Two runs show one each:

- `BlockRepository.UpdateBlock` selects by height alone, so the turn of one pool rewrites the rows of
  the other pools at that height (payments_shared_heights).
- `AionJob.RegisterNonce` looks and inserts in separate steps; two overlapping requests with one
  share are both accepted (jobs_overlap).

Met while modelling, and part of the models, but not the subject of a run:

- "Check if matched a previous varDiff before retarget" (`Blockchain/Aion/AionJob.cs:148`) compares
  the wrong way round (153): a share that meets neither difficulty is accepted after a retarget, and
  is credited with the previous one, while a share that meets only the previous one keeps the credit
  of the present one. `CreditIsProven` therefore says that this is the only way to a credit that is
  not proven: there is none before the first retarget. After it no share is refused as low.
- `context.Difficulty` is read twice for the credit (`AionJob.cs:138`, compared and then assigned),
  so a retarget in between gives a share a credit above the network difficulty that line 138 limits
  it to.
- The daemon's refusal of a block counts only if it carries an error
  (`Blockchain/Aion/AionJobManager.cs:275`); null or false alone is recorded as a block.
  `EthereumJobManager.cs:309` checks it. `CandidateIsMinted` names the case.
- If the statistics call throws, the job is current and listed, but `UpdateJob` returns false
  (`AionJobManager.cs:249-262`), and the next poll sees no new header: the workers get the job only
  with the next header. `WorkIsAnnounced` excepts such jobs.
- The task that submitted a block subscribes to the next job after the daemon's answer
  (`AionJobManager.cs:285`). If the job on top of its block was broadcast before, or not at all, the
  share waits for the job after that, and is not recorded until then. `BlockIsRecorded` says when.
- A broadcast may overtake the initial work: the flag is set (`AionPool.cs:246`) before the work is
  sent (252), and `OnNewJob` (268-290) takes no lock. The worker then gets the newer job first, and
  the older one after it if the task had read `currentJobParams` before; the next broadcast mends it.
- A write that throws ends the drain, and what is still queued waits for the next message
  (`Stratum/StratumClient.cs:370-383`); the message itself is gone. And a client that is alive but does
  not close a connection that was shut down keeps it, with the arrays that are queued, for as long as
  it likes. `NoneForgotten` and `Flushed` except these two.
- If the answer to the COMMIT that strikes off a balance is lost, the retry strikes it off a second
  time (`Payments/PayoutHandlerBase.cs`): the balance goes below zero. `TransfersRecorded` is checked
  and proved without lost answers; `BooksBalance` holds with them.
- A lagging daemon makes an unsigned depth wrap around, and a block is confirmed too early
  (`Blockchain/Aion/AionPayoutHandler.cs:144`; it happens in payments_progress). With a second
  candidate of the same height the height is then credited twice.
- `VarDiffManager.Update` clamps after it limits the change, so from a port difficulty outside of
  its range the first retarget moves further than `MaxDelta` (`VarDiff/VarDiffManager.cs:104`,
  `Configuration/ClusterConfig.cs:184` "Do not alter difficulty by more than this during a single
  retarget"). What `RetargetHelps` says of steps is therefore about difficulties inside of the range.
- A difficulty in the password turns vardiff off (`Blockchain/Aion/AionPool.cs:143`), but a retarget
  that was computed before is still applied afterwards and replaces it.
- A send that overlaps with the completion of its connection returns its array twice
  (`Stratum/StratumClient.cs:335` and 354): two later renters get the same array. `ReturnedOnce`
  says when. And a reply that is queued right before a disconnect may never be written.
- At difficulties 1 and 2 no share passes: 2^256 / 1 does not fit and is sent as 0, and 2^256 / 2 is
  read as a negative number (`Blockchain/Aion/AionUtils.cs:39`, `AionJob.cs:143`). `VerdictIsRight`
  says so.
- PPLNS passes over shares that have the time stamp at which a full page ended
  (`Payments/PaymentSchemes/PPLNSPaymentScheme.cs:256`), stays at a block whose reward is 0 (240),
  and may delete shares that a block of lower height but later time stamp still needs (116).
  `RewardsFollowWindow`, `BlocksAreCredited` and `WindowsAreKept` name these cases.
- `RecoverShares` adds `shares.Count` after `shares.Clear()`, so the number it reports is too small
  (`Mining/ShareRecorder.cs:236`).
- `CircularBuffer.Back` reads the slot `size - 1` when `end` is 0, which holds the last element only
  if the buffer is full (`Util/CircularBuffer.cs:178`; no caller). Enumerating an empty buffer yields
  default values; `ImplementsDeque` allows for that, and a sum does not notice.
- The duplicate key of a share is its nonce alone, so a second solution for one nonce is refused as
  a duplicate (`Blockchain/Aion/AionJob.cs:73`).

## 7. Not modelled

- The ban manager and the extra-nonce counter: that a worker may be banned at a rejected share, and
  disconnected, is in `Session` as a choice; that a worker's nonces are its own is in `AionJobs`. The
  counters behind both, which parallel requests increment without a lock, are not.
- The share relay and receiver: publishing without acknowledgement, which promises nothing.
- Statistics, notifications, API, start-up, web interface: reads and wiring that no other part
  depends on. The message bus is in the models as a call of the subscriber.
- The failover of the daemon client: its requests are stateless, and what several daemons may answer
  (older blocks, errors, nothing) is in the actions that call it.
- The pools of other coins, which follow the pattern of the one modelled, and their hash functions.
  Nearly all C and C++ of the repository is vendored code for these; the Equihash verifier is the
  part that is on the way of an Aion share, and it is modelled. Everything else that is modelled is
  C#.
- In modelled parts: the pages of 100 blocks and the separate requests of `ClassifyBlocksAsync`, which
  are one read of the chain with a daemon that may lag; the moment between the null check of
  `context.VarDiff` and its lock (`Mining/PoolBase.cs:163-182`), in which a static difficulty makes the
  lock throw, the update is skipped as if it had come after; retargets by the idle timer in `Session`
  (they are in `VarDiff`); `ToArray` of the circular buffer; address validation and the wrap of job ids (jobs), the proxy protocol header
  and accepting connections (connection), the solo scheme, `forceNewLine` of the line buffer, which
  only the daemon's websocket uses.

## 8. Plan

Done: Payments first, since money depends on it, then the recorder (shares are what money is computed
from), jobs, sessions, vardiff and its buffer, lines; then PPLNS, the send queue, the proof of work,
and the proofs of the refinements and of sessions, vardiff and connections.

Next, in this order:

1. The share statistics that decide about a ban, with their unlocked increments, the ban manager with
   its expiry, and the extra-nonce counter, as a module that `Session` can be composed with.
2. `Pplns` and `Payments` in one behaviour, with the rewards of the one as the credits of the other.
3. `DaemonClient`: the first answer of several daemons, and what that means for the poll.
4. The share relay with its reconnects, and what a lost message means for the recorder.
