------------------------------ MODULE Payments ------------------------------
(***************************************************************************)
(* The payment thread of the pool: PayoutManager walks over the pools, and *)
(* for each of them AionPayoutHandler classifies the pending blocks, the   *)
(* mature ones are credited to the balances, and every balance over the    *)
(* minimum is sent on chain and struck off.  One action is one database    *)
(* transaction or one RPC of the thread; between two actions the chain     *)
(* grows or reorganises, share recording inserts new block rows, and the   *)
(* process may crash or be stopped.                                        *)
(*                                                                         *)
(* The result of the payout scheme and of the reward recipients is the     *)
(* constant Credit.                                                        *)
(***************************************************************************)
EXTENDS Integers, Sequences, Functions

CONSTANTS
    PoolSeq,        \* the enabled pools, in configuration order
    Finders,        \* workers whose candidate shares become block rows
    Addrs,          \* payout addresses
    NoAddr,         \* no address
    Recipients,     \* addresses of PoolConfig.RewardRecipients
    Credit,         \* Credit[p][h][a]: share of address a in block h of pool p
    Base,           \* Base[p]: chain height of pool p at the start
    MaxBlocks,      \* bound: blocks each chain grows by
    MinConf,        \* extraConfig.MinimumConfirmations
    MinPayment,     \* PaymentProcessing.MinimumPayment
    Word,           \* modulus of the unsigned heights (2^64 in the code)
    MaxLag,         \* how far the daemon asked for "latest" may lag behind
    ReorgDepth,     \* blocks buried deeper than this are final
    RecordDelay,    \* a block row is inserted at most this many blocks late
    MaxRetry,       \* PayoutHandlerBase.RetryCount
    MaxFaults,      \* bound: crashes, lost answers, abandoned commits
    AckLoss         \* may the answer to a COMMIT be lost?

Pools == {PoolSeq[i] : i \in DOMAIN PoolSeq}
HeightsOf(p) == Base[p] + 1 .. Base[p] + MaxBlocks
Heights == UNION {HeightsOf(p) : p \in Pools}
Statuses == {"none", "pending", "confirmed", "orphaned"}

ASSUME PoolsAssumption == PoolSeq \in Seq(Pools)
ASSUME BaseAssumption == Base \in [Pools -> Nat]
ASSUME AddrsAssumption == Recipients \subseteq Addrs /\ NoAddr \notin Addrs
ASSUME CreditAssumption == Credit \in [Pools -> [Heights -> [Addrs -> Nat]]]
ASSUME BoundsAssumption ==
    /\ MaxBlocks \in Nat /\ MaxLag \in Nat /\ ReorgDepth \in Nat
    /\ RecordDelay \in Nat /\ MaxRetry \in Nat /\ MaxFaults \in Nat
    /\ MinConf \in Nat \ {0} /\ MinPayment \in Nat \ {0} /\ Word \in Nat \ {0}
    /\ AckLoss \in BOOLEAN
    /\ \A h \in Heights : h < Word

VARIABLES
    tip,        \* tip[p]: height of the chain of pool p
    ours,       \* ours[p][h]: is the block at h mined to the pool's address?
    status,     \* status[p][h][f]: the row of blocks for the candidate of f
    balance,    \* balance[p][a]: amount of the balances row
    debits,     \* debits[p][a]: sum of the "Balance reset" rows of balance_changes
    paid,       \* paid[p][a]: sum of the rows of payments
    sent,       \* sent[p][a]: what the wallet transferred on chain
    credits,    \* history: how often the reward of p's block h was credited
    faults,     \* history: faults so far
    pc, at,     \* the payment thread: its step, and the pool it works on
    work,       \* status found for the heights still to be updated, else "none"
    due,        \* balances read for payout and not yet dealt with, else 0
    cur, tries  \* the balance being persisted and the retries made

db == <<status, balance, debits, paid, credits>>
chain == <<tip, ours>>
thread == <<pc, at, work, due, cur, tries>>
vars == <<tip, ours, status, balance, debits, paid, sent, credits, faults,
          pc, at, work, due, cur, tries>>

NoWork == [h \in Heights |-> "none"]
NothingDue == [a \in Addrs |-> 0]
Steps == {"wait", "read", "classify", "apply", "balances", "peers", "send", "persist"}
Pool == PoolSeq[at]

Init ==
    /\ tip = Base
    /\ ours = [p \in Pools |-> [h \in Heights |-> FALSE]]
    /\ status = [p \in Pools |-> [h \in Heights |-> [f \in Finders |-> "none"]]]
    /\ balance = [p \in Pools |-> [a \in Addrs |-> 0]]
    /\ debits = balance /\ paid = balance /\ sent = balance
    /\ credits = [p \in Pools |-> [h \in Heights |-> 0]]
    /\ faults = 0
    /\ pc = "wait" /\ at = 0
    /\ work = NoWork /\ due = NothingDue /\ cur = NoAddr /\ tries = 0

-----------------------------------------------------------------------------
(* The chain and the share recorder, seen from the payment thread.         *)

Extend(p) ==
    /\ tip[p] + 1 \in HeightsOf(p)
    /\ tip' = [tip EXCEPT ![p] = @ + 1]
    /\ \E mine \in BOOLEAN : ours' = [ours EXCEPT ![p][tip[p] + 1] = mine]
    /\ UNCHANGED <<db, sent, faults, thread>>

\* A reorganisation replaces a block that is not buried yet.
Reorg(p, h) ==
    /\ h \in HeightsOf(p) /\ h <= tip[p] /\ tip[p] <= h + ReorgDepth
    /\ ours' = [ours EXCEPT ![p][h] = ~@]
    /\ UNCHANGED <<tip, db, sent, faults, thread>>

\* ShareRecorder inserts the row of a candidate the daemon accepted.
RecordBlock(p, h, f) ==
    /\ h \in HeightsOf(p) /\ h <= tip[p] /\ tip[p] <= h + RecordDelay
    /\ status[p][h][f] = "none"
    /\ status' = [status EXCEPT ![p][h][f] = "pending"]
    /\ UNCHANGED <<chain, balance, debits, paid, sent, credits, faults, thread>>

-----------------------------------------------------------------------------
(* The payment thread.                                                     *)

Leave == /\ work' = NoWork /\ due' = NothingDue /\ cur' = NoAddr /\ tries' = 0

NextPool ==
    /\ IF at < Len(PoolSeq) THEN pc' = "read" /\ at' = at + 1
                            ELSE pc' = "wait" /\ at' = 0
    /\ Leave

StartRound ==
    /\ pc = "wait"
    /\ IF PoolSeq = <<>> THEN UNCHANGED <<pc, at>> ELSE pc' = "read" /\ at' = 1
    /\ UNCHANGED <<chain, db, sent, faults, work, due, cur, tries>>

\* Mutant: the query forgets the status.
PendingHeights_AnyStatus(p) == {h \in Heights : \E f \in Finders : status[p][h][f] # "none"}

\* SELECT DISTINCT ON(blockheight): one row for each pending height.
PendingHeights(p) == {h \in Heights : \E f \in Finders : status[p][h][f] = "pending"}

ReadPending ==
    /\ pc = "read"
    /\ work' = [h \in Heights |-> IF h \in PendingHeights(Pool) THEN "pending" ELSE "none"]
    /\ pc' = "classify"
    /\ UNCHANGED <<chain, db, sent, faults, at, due, cur, tries>>

\* Mutant: the block itself counts as a confirmation.
Depth_Inclusive(latest, h) == (latest - h + 1) % Word

\* latestBlockHeight - block.BlockHeight, on unsigned integers.
Depth(latest, h) == (latest - h) % Word
ConfirmationProgressOver75(d) == 4 * d > 3 * MinConf

Listed == {h \in Heights : work[h] # "none"}

Classified(p, h, latest) ==
    LET d == Depth(latest, h) IN
    IF ours[p][h]
      THEN IF d >= MinConf THEN "confirmed" ELSE "pending"
      ELSE IF ConfirmationProgressOver75(d) THEN "orphaned" ELSE "pending"

\* Mutant: an answered round updates the highest height only.
ClassifyBlocks_Head ==
    /\ pc = "classify"
    /\ work' = [h \in Heights |-> IF h \in Listed /\ \A k \in Listed : h >= k
                                    THEN Classified(Pool, h, tip[Pool]) ELSE "none"]
    /\ pc' = "apply"
    /\ UNCHANGED <<chain, db, sent, faults, at, due, cur, tries>>

\* "latest" comes from the first daemon that answers it, the blocks from
\* whichever answers the batch: the former may be behind.  The pages of 100 blocks
\* are one read.
ClassifyBlocks ==
    /\ pc = "classify"
    /\ \E lag \in 0..MaxLag :
          /\ lag <= tip[Pool]
          /\ work' = [h \in Heights |-> IF h \in Listed
                                THEN Classified(Pool, h, tip[Pool] - lag) ELSE "none"]
    /\ pc' = "apply"
    /\ UNCHANGED <<chain, db, sent, faults, at, due, cur, tries>>

\* No daemon knows the latest block: no block is updated in this round.
ClassifyNoLatest ==
    /\ pc = "classify" /\ Listed # {}
    /\ work' = NoWork
    /\ pc' = "apply"
    /\ UNCHANGED <<chain, db, sent, faults, at, due, cur, tries>>

\* Mutant: no WHERE clause.
UpdateBlock_AllRows(h, s) ==
    status' = [p \in Pools |-> [k \in Heights |-> [f \in Finders |->
                  IF status[p][k][f] # "none" THEN s ELSE status[p][k][f]]]]

\* UPDATE blocks SET status = @status WHERE blockheight = @blockheight
UpdateBlock(h, s) ==
    status' = [p \in Pools |-> [k \in Heights |-> [f \in Finders |->
                  IF k = h /\ status[p][k][f] # "none" THEN s ELSE status[p][k][f]]]]

\* BalanceRepository.AddAmount, for each address a by amount[a].
AddAmount(p, amount) ==
    balance' = [balance EXCEPT ![p] =
                  [a \in Addrs |-> @[a] + amount[a]]]

\* UpdateBlockRewardBalances and IPayoutScheme.UpdateBalances: AddAmount for
\* everyone who has a part in the block.
DistributeReward(p, h) ==
    /\ AddAmount(p, Credit[p][h])
    /\ credits' = [credits EXCEPT ![p][h] = @ + 1]

\* Mutant: the status of a confirmed block is not stored with its rewards.
UpdatePoolBalance_NoStatus(h) ==
    /\ h \in Listed /\ \A k \in Listed : h <= k
    /\ IF work[h] = "confirmed"
         THEN DistributeReward(Pool, h) /\ UNCHANGED status
         ELSE UpdateBlock(h, work[h]) /\ UNCHANGED <<balance, credits>>
    /\ UNCHANGED <<chain, debits, paid, sent>>

\* The transaction of one block, in the order of Created.
UpdatePoolBalance(h) ==
    /\ h \in Listed /\ \A k \in Listed : h <= k
    /\ UpdateBlock(h, work[h])
    /\ IF work[h] = "confirmed" THEN DistributeReward(Pool, h)
                                ELSE UNCHANGED <<balance, credits>>
    /\ UNCHANGED <<chain, debits, paid, sent>>

ApplyBlock(h) ==
    /\ pc = "apply"
    /\ UpdatePoolBalance(h)
    /\ work' = [work EXCEPT ![h] = "none"]
    /\ UNCHANGED <<faults, pc, at, due, cur, tries>>

\* COMMIT succeeded, its answer was lost: the exception ends the pool's turn.
ApplyBlockAckLost(h) ==
    /\ pc = "apply" /\ AckLoss /\ faults < MaxFaults
    /\ UpdatePoolBalance(h)
    /\ faults' = faults + 1
    /\ NextPool

BlocksDone ==
    /\ pc = "apply" /\ Listed = {}
    /\ pc' = "balances"
    /\ UNCHANGED <<chain, db, sent, faults, at, work, due, cur, tries>>

\* An exception in a query, an RPC or a transaction that was rolled back.
AbortPool ==
    /\ \/ pc \in {"read", "balances"}
       \/ pc \in {"classify", "apply"} /\ Listed # {}
       \/ pc = "peers" /\ due # NothingDue
    /\ NextPool
    /\ UNCHANGED <<chain, db, sent, faults>>

OverThreshold(p) == {a \in Addrs : balance[p][a] >= MinPayment}

\* Mutant: only the payments over twice the minimum are attempted.
ReadBalances_Twice ==
    /\ pc = "balances"
    /\ due' = [a \in Addrs |-> IF balance[Pool][a] >= 2 * MinPayment THEN balance[Pool][a] ELSE 0]
    /\ pc' = "peers"
    /\ UNCHANGED <<chain, db, sent, faults, at, work, cur, tries>>

ReadBalances ==
    /\ pc = "balances"
    /\ due' = [a \in Addrs |-> IF a \in OverThreshold(Pool) THEN balance[Pool][a] ELSE 0]
    /\ pc' = "peers"
    /\ UNCHANGED <<chain, db, sent, faults, at, work, cur, tries>>

\* net_peerCount answered with enough peers (otherwise the turn ends).
PeersOk ==
    /\ pc = "peers" /\ due # NothingDue
    /\ pc' = "send"
    /\ UNCHANGED <<chain, db, sent, faults, at, work, due, cur, tries>>

PayoutDone ==
    /\ pc \in {"peers", "send"} /\ due = NothingDue
    /\ NextPool
    /\ UNCHANGED <<chain, db, sent, faults>>

Transfer(a) == sent' = [sent EXCEPT ![Pool][a] = @ + due[a]]

\* personal_unlockAccount and eth_sendTransaction, with a transaction hash.
SendOk(a) ==
    /\ pc = "send" /\ due[a] > 0
    /\ Transfer(a)
    /\ cur' = a /\ tries' = 0 /\ pc' = "persist"
    /\ UNCHANGED <<chain, db, faults, at, work, due>>

\* Unlocking failed, or the daemon refused the transaction: next balance.
SendRefused(a) ==
    /\ pc = "send" /\ due[a] > 0
    /\ due' = [due EXCEPT ![a] = 0]
    /\ UNCHANGED <<chain, db, sent, faults, pc, at, work, cur, tries>>

\* The daemon sent it and the answer was lost: to Payout an error like any other.
SendLost(a) ==
    /\ pc = "send" /\ due[a] > 0 /\ faults < MaxFaults
    /\ Transfer(a)
    /\ due' = [due EXCEPT ![a] = 0]
    /\ faults' = faults + 1
    /\ UNCHANGED <<chain, db, pc, at, work, cur, tries>>

\* Mutant: the payment is inserted, the balance is not reset.
ResetBalance_PaymentOnly ==
    /\ debits' = [debits EXCEPT ![Pool][cur] = @ + due[cur]]
    /\ paid' = IF cur \in Recipients THEN paid
                                     ELSE [paid EXCEPT ![Pool][cur] = @ + due[cur]]
    /\ UNCHANGED <<status, balance, credits>>

\* The transaction of PersistPayments.
ResetBalance ==
    /\ AddAmount(Pool, [NothingDue EXCEPT ![cur] = -due[cur]])
    /\ debits' = [debits EXCEPT ![Pool][cur] = @ + due[cur]]
    /\ paid' = IF cur \in Recipients THEN paid
                                     ELSE [paid EXCEPT ![Pool][cur] = @ + due[cur]]
    /\ UNCHANGED <<status, credits>>

NextBalance == pc' = "send" /\ due' = [due EXCEPT ![cur] = 0] /\ cur' = NoAddr /\ tries' = 0

PersistOk ==
    /\ pc = "persist"
    /\ ResetBalance
    /\ NextBalance
    /\ UNCHANGED <<chain, sent, faults, at, work>>

\* Mutant: the retry policy wraps Payout, not PersistPayments.
PersistRetry_Resend ==
    /\ pc = "persist" /\ tries < MaxRetry
    /\ sent' = [sent EXCEPT ![Pool][cur] = @ + due[cur]]
    /\ tries' = tries + 1
    /\ UNCHANGED <<chain, db, faults, pc, at, work, due, cur>>

\* Mutant: retries without an end.
PersistRetry_Forever ==
    /\ pc = "persist"
    /\ tries' = tries + 1
    /\ UNCHANGED <<chain, db, sent, faults, pc, at, work, due, cur>>

\* A DbException or a timeout: rolled back and tried again.
PersistRetry ==
    /\ pc = "persist" /\ tries < MaxRetry
    /\ tries' = tries + 1
    /\ UNCHANGED <<chain, db, sent, faults, pc, at, work, due, cur>>

\* Any other exception, or the last retry failed: logged, next balance.
PersistGiveUp ==
    /\ pc = "persist" /\ faults < MaxFaults
    /\ NextBalance
    /\ faults' = faults + 1
    /\ UNCHANGED <<chain, db, sent, at, work>>

\* Mutant: payment and balance in transactions of their own, one of them lost.
PersistAckLost_Split ==
    /\ pc = "persist" /\ AckLoss /\ faults < MaxFaults
    /\ AddAmount(Pool, [NothingDue EXCEPT ![cur] = -due[cur]])
    /\ faults' = faults + 1
    /\ NextBalance
    /\ UNCHANGED <<chain, status, debits, paid, credits, sent, at, work>>

\* COMMIT succeeded, its answer was lost: tried again, or given up.
PersistAckLost ==
    /\ pc = "persist" /\ AckLoss /\ faults < MaxFaults
    /\ ResetBalance
    /\ faults' = faults + 1
    /\ \/ /\ tries < MaxRetry
          /\ tries' = tries + 1
          /\ UNCHANGED <<pc, due, cur>>
       \/ NextBalance
    /\ UNCHANGED <<chain, sent, at, work>>

\* The process dies, or is stopped: Stop joins a thread whose delegate is an
\* async lambda, and so does not wait for the round in progress.
Crash ==
    /\ pc # "wait" /\ faults < MaxFaults
    /\ pc' = "wait" /\ at' = 0 /\ Leave
    /\ faults' = faults + 1
    /\ UNCHANGED <<chain, db, sent>>

-----------------------------------------------------------------------------
Environment == \E p \in Pools :
    \/ Extend(p)
    \/ \E h \in Heights : Reorg(p, h) \/ \E f \in Finders : RecordBlock(p, h, f)

ThreadStep ==
    \/ StartRound \/ ReadPending \/ ClassifyBlocks \/ ClassifyNoLatest
    \/ \E h \in Heights : ApplyBlock(h) \/ ApplyBlockAckLost(h)
    \/ BlocksDone \/ AbortPool \/ ReadBalances \/ PeersOk \/ PayoutDone
    \/ \E a \in Addrs : SendOk(a) \/ SendRefused(a) \/ SendLost(a)
    \/ PersistOk \/ PersistRetry \/ PersistGiveUp \/ PersistAckLost

Next == Environment \/ ThreadStep \/ Crash

Spec == Init /\ [][Next]_vars

\* The daemon that answers "latest" is not behind.
UpToDate == \A h \in Listed : work'[h] = Classified(Pool, h, tip[Pool])

\* The thread keeps looping, and for every pool each query, RPC and
\* transaction that is tried again and again succeeds again and again, the
\* ones that settle a block among them; the daemons catch up.
Fairness ==
    /\ WF_vars(ThreadStep)
    /\ \A i \in DOMAIN PoolSeq :
          /\ SF_vars(at = i /\ ReadPending)
          /\ SF_vars(at = i /\ ClassifyBlocks /\ UpToDate)
          /\ \A h \in Heights : /\ SF_vars(at = i /\ work[h] = "pending" /\ ApplyBlock(h))
                              /\ SF_vars(at = i /\ work[h] # "pending" /\ ApplyBlock(h))
          /\ SF_vars(at = i /\ ReadBalances)
          /\ SF_vars(at = i /\ PeersOk)
          /\ \A a \in Addrs : SF_vars(at = i /\ SendOk(a))
          /\ SF_vars(at = i /\ PersistOk)

FairSpec == Spec /\ Fairness
-----------------------------------------------------------------------------
(* Properties.                                                             *)

\* Type correctness of the rows, the amounts and the thread's locals.
TypeOK ==
    /\ tip \in [Pools -> Nat]
    /\ ours \in [Pools -> [Heights -> BOOLEAN]]
    /\ status \in [Pools -> [Heights -> [Finders -> Statuses]]]
    /\ balance \in [Pools -> [Addrs -> Int]]
    /\ debits \in [Pools -> [Addrs -> Nat]]
    /\ paid \in [Pools -> [Addrs -> Nat]]
    /\ sent \in [Pools -> [Addrs -> Nat]]
    /\ credits \in [Pools -> [Heights -> Nat]]
    /\ faults \in 0..MaxFaults
    /\ pc \in Steps
    /\ at \in 0..Len(PoolSeq) /\ (pc # "wait" => at # 0)
    /\ work \in [Heights -> Statuses]
    /\ due \in [Addrs -> Nat]
    /\ cur \in Addrs \cup {NoAddr}
    /\ pc = "persist" => cur \in Addrs
    /\ tries \in 0..MaxRetry

ConfirmedHeights(p) == {h \in Heights : \E f \in Finders : status[p][h][f] = "confirmed"}

\* The reward of a block is credited exactly once if its rows are confirmed
\* and not at all before, whatever aborts, crashes and lost COMMIT answers
\* happen between reading the rows and updating them.
CreditedOnce == \A p \in Pools, h \in Heights :
    credits[p][h] = IF h \in ConfirmedHeights(p) THEN 1 ELSE 0

\* The books balance: what a miner is owed and what the payments table says
\* he got add up to his part in the confirmed blocks of the pool.
BooksBalance == \A p \in Pools, a \in Addrs \ Recipients :
    balance[p][a] + paid[p][a]
        = SumFunction([h \in ConfirmedHeights(p) |-> Credit[p][h][a]])

\* A row is settled in agreement with the final chain: confirmed rows are
\* buried blocks of the pool, orphaned rows are blocks of somebody else.
SettledRight == \A p \in Pools, h \in Heights, f \in Finders :
    /\ status[p][h][f] = "confirmed" => ours[p][h] /\ tip[p] >= h + MinConf
    /\ status[p][h][f] = "orphaned" => ~ours[p][h]

\* README.md:6, "Supports clusters of pools each running individual
\* currencies": the turn of one pool leaves the rows of the others alone.
PoolsIndependent == [][\A p \in Pools, h \in Heights, f \in Finders :
    status[p][h][f] # "none" /\ status'[p][h][f] # status[p][h][f]
        => pc = "apply" /\ p = Pool]_vars

\* A settled row keeps its status: it is never classified a second time.
SettledStays == [][\A p \in Pools, h \in Heights, f \in Finders :
    status[p][h][f] \in {"confirmed", "orphaned"} => status'[p][h][f] = status[p][h][f]]_vars

InFlight(p, a) == IF pc = "persist" /\ Pool = p /\ cur = a THEN due[a] ELSE 0

\* Nothing is struck off a balance that was not transferred on chain first, even
\* if the process dies between the two, nor what is not owed any more.  A transfer
\* that is not in the books has a cause: without a crash, a lost answer or an
\* abandoned update, exactly the amount in flight is missing.
TransfersRecorded == \A p \in Pools, a \in Addrs :
    /\ balance[p][a] >= 0
    /\ debits[p][a] <= sent[p][a]
    /\ faults = 0 => sent[p][a] = debits[p][a] + InFlight(p, a)

\* Payments implements Ledger: the rows of blocks are the credited blocks.
Promise == INSTANCE Ledger WITH credited <- [p \in Pools |-> ConfirmedHeights(p)]
ImplementsLedger == Promise!Spec

\* A buried block of the pool does not stay pending for ever, however often
\* the pool's turn is aborted.
MatureSettles == \A p \in Pools : \A h \in HeightsOf(p) :
    (h \in PendingHeights(p) /\ tip[p] >= h + MinConf) ~> h \notin PendingHeights(p)

\* A balance over the minimum is paid out some day.
BalancesPaid == \A p \in Pools, a \in Addrs :
    balance[p][a] >= MinPayment ~> balance[p][a] < MinPayment
=============================================================================
