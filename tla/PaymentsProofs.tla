--------------------------- MODULE PaymentsProofs ---------------------------
(***************************************************************************)
(* Theorems about Payments, for every number of pools, blocks, addresses,  *)
(* retries and faults.                                                     *)
(***************************************************************************)
EXTENDS Payments, Sums

\* The pool in turn is a pool of the configuration.
LEMMA PoolInTurn ==
    ASSUME TypeOK, pc # "wait"
    PROVE  Pool \in Pools
  <1>1. at \in 1..Len(PoolSeq)
    BY DEF TypeOK
  <1>2. at \in DOMAIN PoolSeq
    BY <1>1, PoolsAssumption
  <1> QED
    BY <1>2 DEF Pool, Pools

LEMMA HeightIsNat == Heights \subseteq Nat
  BY BaseAssumption, BoundsAssumption DEF Heights, HeightsOf

LEMMA LocalsEmpty ==
    /\ NoWork \in [Heights -> Statuses]
    /\ NothingDue \in [Addrs -> Nat]
  BY DEF NoWork, NothingDue, Statuses

\* Amounts stay integers, whatever is added to them.
LEMMA AddAmountType ==
    ASSUME balance \in [Pools -> [Addrs -> Int]],
           NEW p \in Pools, NEW amount \in [Addrs -> Int], AddAmount(p, amount)
    PROVE  balance' \in [Pools -> [Addrs -> Int]]
  BY DEF AddAmount

LEMMA SumTableType ==
    ASSUME NEW S, NEW T, NEW f \in [S -> [T -> Nat]],
           NEW p \in S, NEW a \in T, NEW x \in Nat
    PROVE  [f EXCEPT ![p][a] = @ + x] \in [S -> [T -> Nat]]
  OBVIOUS

\* The turn of the next pool starts with fresh locals.
LEMMA NextPoolType ==
    ASSUME TypeOK, pc # "wait", NextPool
    PROVE  /\ pc' \in {"read", "wait"}
           /\ at' \in 0..Len(PoolSeq) /\ (pc' # "wait" => at' # 0)
           /\ work' = NoWork /\ due' = NothingDue /\ cur' = NoAddr /\ tries' = 0
  <1>1. at \in 1..Len(PoolSeq) /\ Len(PoolSeq) \in Nat
    BY PoolsAssumption DEF TypeOK
  <1> QED
    BY <1>1 DEF NextPool, Leave

LEMMA ClassifiedType ==
    ASSUME NEW p, NEW h, NEW latest
    PROVE  Classified(p, h, latest) \in {"confirmed", "pending", "orphaned"}
  BY DEF Classified

LEMMA TypeInit == Init => TypeOK
  <1> SUFFICES ASSUME Init PROVE TypeOK
    OBVIOUS
  <1>1. tip \in [Pools -> Nat] /\ tries \in 0..MaxRetry /\ faults \in 0..MaxFaults
    BY BaseAssumption, BoundsAssumption DEF Init
  <1>2. at \in 0..Len(PoolSeq)
    BY PoolsAssumption DEF Init
  <1> QED
    BY <1>1, <1>2, LocalsEmpty DEF Init, TypeOK, Steps, Statuses

\* The transaction of one block keeps the tables well-typed.
LEMMA UpdatePoolBalanceType ==
    ASSUME TypeOK, pc # "wait", NEW h \in Heights, UpdatePoolBalance(h)
    PROVE  /\ status' \in [Pools -> [Heights -> [Finders -> Statuses]]]
           /\ balance' \in [Pools -> [Addrs -> Int]]
           /\ credits' \in [Pools -> [Heights -> Nat]]
  <1>1. Pool \in Pools
    BY PoolInTurn
  <1>2. work[h] \in Statuses
    BY DEF TypeOK
  <1>3. status' \in [Pools -> [Heights -> [Finders -> Statuses]]]
    BY <1>2 DEF UpdatePoolBalance, UpdateBlock, TypeOK
  <1>4. CASE work[h] = "confirmed"
    <2>1. Credit[Pool][h] \in [Addrs -> Int]
      BY <1>1, CreditAssumption
    <2>2. balance' \in [Pools -> [Addrs -> Int]]
      BY <1>1, <1>4, <2>1, AddAmountType DEF UpdatePoolBalance, DistributeReward, TypeOK
    <2>3. credits' \in [Pools -> [Heights -> Nat]]
      <3>1. credits' = [credits EXCEPT ![Pool][h] = @ + 1]
        BY <1>4 DEF UpdatePoolBalance, DistributeReward
      <3> QED
        BY <1>1, <3>1 DEF TypeOK
    <2> QED
      BY <1>3, <2>2, <2>3
  <1>5. CASE work[h] # "confirmed"
    BY <1>3, <1>5 DEF UpdatePoolBalance, TypeOK
  <1> QED
    BY <1>4, <1>5

\* So does the transaction that resets a balance.
LEMMA ResetBalanceType ==
    ASSUME TypeOK, pc = "persist", ResetBalance
    PROVE  /\ balance' \in [Pools -> [Addrs -> Int]]
           /\ debits' \in [Pools -> [Addrs -> Nat]]
           /\ paid' \in [Pools -> [Addrs -> Nat]]
  <1>1. Pool \in Pools /\ cur \in Addrs
    BY PoolInTurn DEF TypeOK
  <1>2. [NothingDue EXCEPT ![cur] = -due[cur]] \in [Addrs -> Int]
    BY <1>1, LocalsEmpty DEF TypeOK, NothingDue
  <1>3. balance' \in [Pools -> [Addrs -> Int]]
    BY <1>1, <1>2, AddAmountType DEF ResetBalance, TypeOK
  <1>4. due[cur] \in Nat
    BY <1>1 DEF TypeOK
  <1>5. debits' \in [Pools -> [Addrs -> Nat]]
    BY <1>1, <1>4, SumTableType DEF ResetBalance, TypeOK
  <1>6. paid' \in [Pools -> [Addrs -> Nat]]
    BY <1>1, <1>4, SumTableType DEF ResetBalance, TypeOK
  <1> QED
    BY <1>3, <1>5, <1>6

LEMMA TypeStep == TypeOK /\ [Next]_vars => TypeOK'
  <1> SUFFICES ASSUME TypeOK, [Next]_vars PROVE TypeOK'
    OBVIOUS
  <1>1. ASSUME NEW p \in Pools, Extend(p) PROVE TypeOK'
    <2>1. tip[p] + 1 \in Heights
      BY <1>1 DEF Extend, Heights
    <2>2. tip' \in [Pools -> Nat] /\ ours' \in [Pools -> [Heights -> BOOLEAN]]
      BY <1>1, <2>1, SMTT(30) DEF Extend, TypeOK
    <2> QED
      BY <1>1, <2>2 DEF Extend, db, thread, TypeOK
  <1>2. ASSUME NEW p \in Pools, NEW h \in Heights, Reorg(p, h) PROVE TypeOK'
    BY <1>2 DEF Reorg, db, thread, TypeOK
  <1>3. ASSUME NEW p \in Pools, NEW h \in Heights, NEW f \in Finders, RecordBlock(p, h, f)
        PROVE TypeOK'
    BY <1>3 DEF RecordBlock, chain, thread, Statuses, TypeOK
  <1>4. CASE StartRound
    BY <1>4, PoolsAssumption DEF StartRound, chain, db, Steps, TypeOK
  <1>5. CASE ReadPending
    BY <1>5 DEF ReadPending, chain, db, Steps, Statuses, TypeOK
  <1>6. CASE ClassifyBlocks
    <2>1. work' \in [Heights -> Statuses]
      BY <1>6, ClassifiedType DEF ClassifyBlocks, Statuses
    <2> QED
      BY <1>6, <2>1 DEF ClassifyBlocks, chain, db, Steps, TypeOK
  <1>7. CASE ClassifyNoLatest
    BY <1>7, LocalsEmpty DEF ClassifyNoLatest, chain, db, Steps, TypeOK
  <1>8. ASSUME NEW h \in Heights, ApplyBlock(h) PROVE TypeOK'
    <2>1. work' \in [Heights -> Statuses]
      BY <1>8 DEF ApplyBlock, Statuses, TypeOK
    <2> QED
      BY <1>8, <2>1, UpdatePoolBalanceType
      DEF ApplyBlock, UpdatePoolBalance, chain, TypeOK
  <1>9. ASSUME NEW h \in Heights, ApplyBlockAckLost(h) PROVE TypeOK'
    <2>1. pc # "wait" /\ UpdatePoolBalance(h) /\ NextPool
      BY <1>9 DEF ApplyBlockAckLost
    <2>2. faults' \in 0..MaxFaults
      BY <1>9, BoundsAssumption DEF ApplyBlockAckLost, TypeOK
    <2>3. UNCHANGED <<chain, debits, paid, sent>>
      BY <2>1 DEF UpdatePoolBalance
    <2> QED
      BY <2>1, <2>2, <2>3, UpdatePoolBalanceType, NextPoolType, LocalsEmpty, BoundsAssumption, SMTT(30)
      DEF chain, Steps, TypeOK
  <1>10. CASE BlocksDone
    BY <1>10 DEF BlocksDone, chain, db, Steps, TypeOK
  <1>11. CASE AbortPool
    <2>1. pc # "wait" /\ NextPool /\ UNCHANGED <<chain, db, sent, faults>>
      BY <1>11 DEF AbortPool
    <2> QED
      BY <2>1, NextPoolType, LocalsEmpty, BoundsAssumption DEF chain, db, Steps, TypeOK
  <1>12. CASE ReadBalances
    <2>1. Pool \in Pools
      BY <1>12, PoolInTurn DEF ReadBalances
    <2>2. \A a \in OverThreshold(Pool) : balance[Pool][a] \in Nat
      BY <2>1, BoundsAssumption DEF OverThreshold, TypeOK
    <2>3. due' \in [Addrs -> Nat]
      BY <1>12, <2>2 DEF ReadBalances
    <2> QED
      BY <1>12, <2>3 DEF ReadBalances, chain, db, Steps, TypeOK
  <1>13. CASE PeersOk
    BY <1>13 DEF PeersOk, chain, db, Steps, TypeOK
  <1>14. CASE PayoutDone
    <2>1. pc # "wait" /\ NextPool
      BY <1>14 DEF PayoutDone
    <2> QED
      BY <1>14, <2>1, NextPoolType, LocalsEmpty, BoundsAssumption
      DEF PayoutDone, chain, db, Steps, TypeOK
  <1>15. ASSUME NEW a \in Addrs, SendOk(a) PROVE TypeOK'
    <2>1. Pool \in Pools /\ due[a] \in Nat
      BY <1>15, PoolInTurn DEF SendOk, TypeOK
    <2>2. sent' \in [Pools -> [Addrs -> Nat]]
      BY <1>15, <2>1, SumTableType, SMTT(30) DEF SendOk, Transfer, TypeOK
    <2> QED
      BY <1>15, <2>2, BoundsAssumption DEF SendOk, chain, db, Steps, TypeOK
  <1>16. ASSUME NEW a \in Addrs, SendRefused(a) PROVE TypeOK'
    BY <1>16 DEF SendRefused, chain, db, TypeOK
  <1>17. ASSUME NEW a \in Addrs, SendLost(a) PROVE TypeOK'
    <2>1. Pool \in Pools /\ due[a] \in Nat
      BY <1>17, PoolInTurn DEF SendLost, TypeOK
    <2>2. sent' \in [Pools -> [Addrs -> Nat]]
      BY <1>17, <2>1, SumTableType, SMTT(30) DEF SendLost, Transfer, TypeOK
    <2> QED
      BY <1>17, <2>2, BoundsAssumption DEF SendLost, chain, db, TypeOK
  <1>18. CASE PersistOk
    <2>1. /\ balance' \in [Pools -> [Addrs -> Int]]
          /\ debits' \in [Pools -> [Addrs -> Nat]]
          /\ paid' \in [Pools -> [Addrs -> Nat]]
      BY <1>18, ResetBalanceType DEF PersistOk
    <2>2. UNCHANGED <<status, credits>>
      BY <1>18 DEF PersistOk, ResetBalance
    <2>3. /\ due' \in [Addrs -> Nat] /\ pc' = "send"
          /\ cur' = NoAddr /\ tries' \in 0..MaxRetry
      BY <1>18, BoundsAssumption DEF PersistOk, NextBalance, TypeOK
    <2>4. pc = "persist" /\ UNCHANGED <<chain, sent, faults, at, work>>
      BY <1>18 DEF PersistOk
    <2> QED
      BY <2>1, <2>2, <2>3, <2>4 DEF chain, Steps, TypeOK
  <1>19. CASE PersistRetry
    BY <1>19, BoundsAssumption DEF PersistRetry, chain, db, TypeOK
  <1>20. CASE PersistGiveUp
    BY <1>20, BoundsAssumption DEF PersistGiveUp, NextBalance, chain, db, Steps, TypeOK
  <1>21. CASE PersistAckLost
    <2>1. /\ balance' \in [Pools -> [Addrs -> Int]]
          /\ debits' \in [Pools -> [Addrs -> Nat]]
          /\ paid' \in [Pools -> [Addrs -> Nat]]
      BY <1>21, ResetBalanceType DEF PersistAckLost
    <2>2. UNCHANGED <<status, credits>>
      BY <1>21 DEF PersistAckLost, ResetBalance
    <2> QED
      BY <1>21, <2>1, <2>2, BoundsAssumption
      DEF PersistAckLost, NextBalance, chain, Steps, TypeOK
  <1>22. CASE Crash
    <2>1. faults' \in 0..MaxFaults /\ at' \in 0..Len(PoolSeq)
      BY <1>22, PoolsAssumption, BoundsAssumption DEF Crash, TypeOK
    <2> QED
      BY <1>22, <2>1, LocalsEmpty, BoundsAssumption
    DEF Crash, Leave, chain, db, Steps, TypeOK
  <1>23. CASE UNCHANGED vars
    BY <1>23 DEF vars, TypeOK
  <1> QED
    BY <1>1, <1>2, <1>3, <1>4, <1>5, <1>6, <1>7, <1>8, <1>9, <1>10, <1>11, <1>12,
       <1>13, <1>14, <1>15, <1>16, <1>17, <1>18, <1>19, <1>20, <1>21, <1>22, <1>23
    DEF Next, Environment, ThreadStep

\* The types of the model's variables hold in every behaviour of the payment
\* thread (Payments, the rows of blocks, balances and payments).
THEOREM TypeCorrect == Spec => []TypeOK
  BY TypeInit, TypeStep, PTL DEF Spec

-----------------------------------------------------------------------------
(* Blocks are credited once and settle in agreement with the final chain,  *)
(* provided no two pools have a height in common, the daemon asked for     *)
(* "latest" is up to date, and neither rows nor reorganisations come later *)
(* than three quarters of the confirmations.                               *)

HeightsApart == \A p, q \in Pools : p # q => HeightsOf(p) \cap HeightsOf(q) = {}

Sound ==
    /\ HeightsApart
    /\ MaxLag = 0
    /\ 4 * RecordDelay <= 3 * MinConf
    /\ 4 * ReorgDepth <= 3 * MinConf

\* Neither a row nor another block can appear at h any more.
Final(p, h) == tip[p] > h + RecordDelay /\ tip[p] > h + ReorgDepth

\* Status s is the right one for block h of p, now and for ever.
Agrees(p, h, s) ==
    /\ s \in {"confirmed", "orphaned"} => Final(p, h)
    /\ s = "confirmed" => ours[p][h] /\ tip[p] >= h + MinConf
    /\ s = "orphaned" => ~ours[p][h]

Mined(p, h) == h \in HeightsOf(p) /\ h <= tip[p]

TipInv == \A p \in Pools : tip[p] = Base[p] \/ tip[p] \in HeightsOf(p)

RowsInv == \A p \in Pools, h \in Heights, f \in Finders :
    status[p][h][f] # "none" =>
        /\ Mined(p, h)
        /\ Agrees(p, h, status[p][h][f])
        /\ \A g \in Finders : status[p][h][g] \in {"none", status[p][h][f]}

WorkInv == \A h \in Heights :
    work[h] # "none" =>
        /\ pc \in {"classify", "apply"}
        /\ \E f \in Finders : status[Pool][h][f] = "pending"
        /\ Agrees(Pool, h, work[h])

IInv == Sound /\ TypeOK /\ TipInv /\ RowsInv /\ WorkInv /\ CreditedOnce

\* What is needed of this to credit a block once: the rows of a height belong to
\* one pool and have one status, and what the thread works on is still pending.
RowsTogether == \A p \in Pools, h \in Heights, f \in Finders :
    status[p][h][f] # "none" =>
        /\ h \in HeightsOf(p)
        /\ \A g \in Finders : status[p][h][g] \in {"none", status[p][h][f]}

WorkPending == \A h \in Heights :
    work[h] # "none" =>
        /\ pc \in {"classify", "apply"}
        /\ \E f \in Finders : status[Pool][h][f] = "pending"

CreditInv == HeightsApart /\ TypeOK /\ RowsTogether /\ WorkPending /\ CreditedOnce

LEMMA IInvCredits == IInv => CreditInv
  BY DEF IInv, Sound, RowsInv, WorkInv, Mined, CreditInv, RowsTogether, WorkPending

\* A new row is pending, and no other row changes (ShareRecorder).
LEMMA RecordShape ==
    ASSUME TypeOK, NEW p \in Pools, NEW h \in Heights, NEW f \in Finders,
           RecordBlock(p, h, f)
    PROVE  /\ \A q \in Pools, k \in Heights, g \in Finders :
                 status'[q][k][g] = IF q = p /\ k = h /\ g = f THEN "pending"
                                                               ELSE status[q][k][g]
           /\ \A q \in Pools : ConfirmedHeights(q)' = ConfirmedHeights(q)
  <1>1. /\ status \in [Pools -> [Heights -> [Finders -> Statuses]]]
        /\ status[p][h][f] = "none"
        /\ status' = [status EXCEPT ![p][h][f] = "pending"]
    BY DEF TypeOK, RecordBlock
  <1>2. ASSUME NEW q \in Pools PROVE status'[q] = IF q = p
           THEN [status[q] EXCEPT ![h][f] = "pending"] ELSE status[q]
    BY <1>1
  <1>3. ASSUME NEW k \in Heights PROVE status'[p][k] = IF k = h
           THEN [status[p][k] EXCEPT ![f] = "pending"] ELSE status[p][k]
    BY <1>1, <1>2
  <1>4. ASSUME NEW g \in Finders PROVE status'[p][h][g] =
           IF g = f THEN "pending" ELSE status[p][h][g]
    BY <1>1, <1>3
  <1>5. \A q \in Pools, k \in Heights, g \in Finders :
           status'[q][k][g] = IF q = p /\ k = h /\ g = f THEN "pending"
                                                         ELSE status[q][k][g]
    BY <1>2, <1>3, <1>4
  <1>6. \A q \in Pools : ConfirmedHeights(q)' = ConfirmedHeights(q)
    BY <1>1, <1>5 DEF ConfirmedHeights
  <1> QED
    BY <1>5, <1>6

LEMMA ModSmall == ASSUME NEW w \in Nat \ {0}, NEW x \in Nat, x < w PROVE x % w = x
  OBVIOUS

\* With an up to date daemon, what ClassifyBlocksAsync finds is right.
LEMMA ClassifiedAgrees ==
    ASSUME Sound, TypeOK, TipInv, NEW p \in Pools, NEW h \in Heights, Mined(p, h)
    PROVE  Agrees(p, h, Classified(p, h, tip[p]))
  <1>1. /\ h \in Nat /\ tip[p] \in Nat /\ Base[p] \in Nat /\ h <= tip[p] /\ h > Base[p]
        /\ Word \in Nat \ {0} /\ MinConf \in Nat \ {0}
        /\ RecordDelay \in Nat /\ ReorgDepth \in Nat /\ MaxBlocks \in Nat
    BY BaseAssumption, BoundsAssumption, HeightIsNat DEF Mined, HeightsOf, TypeOK
  <1>2. tip[p] \in Heights /\ tip[p] < Word
    <2>1. tip[p] \in HeightsOf(p)
      BY <1>1 DEF TipInv
    <2> QED
      BY <2>1, BoundsAssumption DEF Heights
  <1>3. Depth(tip[p], h) = tip[p] - h
    <2>1. tip[p] - h \in Nat /\ tip[p] - h < Word
      BY <1>1, <1>2
    <2> QED
      BY <1>1, <2>1, ModSmall DEF Depth
  <1> DEFINE d == tip[p] - h
  <1>4. CASE ours[p][h]
    <2>1. CASE d >= MinConf
      <3>1. Final(p, h)
        BY <1>1, <2>1 DEF Final, Sound
      <3> QED
        BY <1>1, <1>3, <1>4, <2>1, <3>1 DEF Classified, Agrees
    <2>2. CASE ~(d >= MinConf)
      BY <1>3, <1>4, <2>2 DEF Classified, Agrees
    <2> QED
      BY <2>1, <2>2
  <1>5. CASE ~ours[p][h]
    <2>1. CASE 4 * d > 3 * MinConf
      <3>1. Final(p, h)
        BY <1>1, <2>1 DEF Final, Sound
      <3> QED
        BY <1>3, <1>5, <2>1, <3>1 DEF Classified, ConfirmationProgressOver75, Agrees
    <2>2. CASE ~(4 * d > 3 * MinConf)
      BY <1>3, <1>5, <2>2 DEF Classified, ConfirmationProgressOver75, Agrees
    <2> QED
      BY <2>1, <2>2
  <1> QED
    BY <1>4, <1>5

LEMMA IInvInit == Sound /\ Init => IInv
  <1> SUFFICES ASSUME Sound, Init PROVE IInv
    OBVIOUS
  <1>1. TypeOK
    BY TypeInit
  <1>2. TipInv
    BY DEF Init, TipInv
  <1>3. RowsInv
    BY DEF Init, RowsInv
  <1>4. WorkInv
    BY DEF Init, WorkInv, NoWork
  <1>5. CreditedOnce
    BY DEF Init, CreditedOnce, ConfirmedHeights
  <1> QED
    BY <1>1, <1>2, <1>3, <1>4, <1>5 DEF IInv

\* Steps that touch neither the chain nor the rows, and at most empty work.
LEMMA QuietStep ==
    ASSUME IInv, TypeOK', UNCHANGED <<tip, ours, status, credits>>,
           \/ work' = NoWork
           \/ UNCHANGED <<work, pc, at>>
           \/ Listed = {} /\ UNCHANGED work
    PROVE  IInv'
  <1>1. Sound' /\ TipInv'
    BY DEF IInv, Sound, TipInv
  <1>2. RowsInv'
    BY DEF IInv, RowsInv, Mined, Agrees, Final
  <1>3. CreditedOnce'
    BY DEF IInv, CreditedOnce, ConfirmedHeights
  <1>4. WorkInv'
    <2>1. CASE work' = NoWork \/ (Listed = {} /\ UNCHANGED work)
      <3>1. \A h \in Heights : work'[h] = "none"
        BY <2>1 DEF NoWork, Listed
      <3> QED
        BY <3>1 DEF WorkInv
    <2>2. CASE UNCHANGED <<work, pc, at>>
      BY <2>2 DEF IInv, WorkInv, Agrees, Final, Pool
    <2> QED
      BY <2>1, <2>2
  <1> QED
    BY <1>1, <1>2, <1>3, <1>4 DEF IInv

\* What agrees with a chain still agrees with it when the chain has grown or
\* was reorganised.
LEMMA AgreesStable ==
    ASSUME IInv, NEW q \in Pools,
           Extend(q) \/ \E k \in Heights : Reorg(q, k),
           NEW p \in Pools, NEW h \in Heights, Mined(p, h),
           NEW s, Agrees(p, h, s)
    PROVE  Mined(p, h)' /\ Agrees(p, h, s)'
  <1>1. /\ h \in Nat /\ tip \in [Pools -> Nat] /\ MinConf \in Nat
        /\ RecordDelay \in Nat /\ ReorgDepth \in Nat
        /\ ours \in [Pools -> [Heights -> BOOLEAN]]
    BY BoundsAssumption, HeightIsNat DEF IInv, TypeOK
  <1>2. CASE Extend(q)
    <2>1. tip' = [tip EXCEPT ![q] = @ + 1]
      BY <1>2 DEF Extend
    <2>2. ours'[p][h] = ours[p][h]
      BY <1>1, <1>2 DEF Extend, Mined
    <2>3. tip'[p] >= tip[p] /\ tip'[p] \in Nat
      BY <1>1, <2>1
    <2> QED
      BY <1>1, <2>2, <2>3 DEF Mined, Agrees, Final
  <1>3. ASSUME NEW k \in Heights, Reorg(q, k) PROVE Mined(p, h)' /\ Agrees(p, h, s)'
    <2>1. UNCHANGED tip
      BY <1>3 DEF Reorg
    <2>2. CASE s \in {"confirmed", "orphaned"}
      <3>1. ~(q = p /\ k = h)
        BY <1>1, <1>3, <2>2 DEF Reorg, Agrees, Final
      <3>2. ours'[p][h] = ours[p][h]
        BY <1>1, <1>3, <3>1 DEF Reorg
      <3> QED
        BY <2>1, <3>2 DEF Mined, Agrees, Final
    <2>3. CASE s \notin {"confirmed", "orphaned"}
      BY <2>1, <2>3 DEF Mined, Agrees, Final
    <2> QED
      BY <2>2, <2>3
  <1> QED
    BY <1>2, <1>3

LEMMA ChainStep ==
    ASSUME IInv, TypeOK', NEW q \in Pools,
           Extend(q) \/ \E k \in Heights : Reorg(q, k)
    PROVE  IInv'
  <1>1. UNCHANGED <<status, credits, pc, at, work>>
    BY DEF Extend, Reorg, db, thread
  <1>2. TipInv'
    <2>1. tip \in [Pools -> Nat]
      BY DEF IInv, TypeOK
    <2>2. CASE Extend(q)
      <3>1. tip[q] + 1 \in HeightsOf(q) /\ tip' = [tip EXCEPT ![q] = @ + 1]
        BY <2>2 DEF Extend
      <3> QED
        BY <2>1, <3>1 DEF IInv, TipInv
    <2>3. CASE \E k \in Heights : Reorg(q, k)
      BY <2>3 DEF IInv, TipInv, Reorg
    <2> QED
      BY <2>2, <2>3
  <1>3. RowsInv'
    <2> SUFFICES ASSUME NEW p \in Pools, NEW h \in Heights, NEW f \in Finders,
                        status[p][h][f] # "none"
                 PROVE  /\ Mined(p, h)' /\ Agrees(p, h, status[p][h][f])'
                        /\ \A g \in Finders : status[p][h][g] \in {"none", status[p][h][f]}
      BY <1>1 DEF RowsInv, Mined, Agrees, Final
    <2>1. /\ Mined(p, h) /\ Agrees(p, h, status[p][h][f])
          /\ \A g \in Finders : status[p][h][g] \in {"none", status[p][h][f]}
      BY DEF IInv, RowsInv
    <2>2. \A s : Agrees(p, h, s) => Mined(p, h)' /\ Agrees(p, h, s)'
      BY <2>1, AgreesStable
    <2>3. Mined(p, h)' /\ (h \in HeightsOf(p) /\ h <= tip'[p])
      BY <2>1, <2>2 DEF Mined
    <2> QED
      BY <1>1, <2>1, <2>2, <2>3 DEF Agrees, Final
  <1>4. WorkInv'
    <2> SUFFICES ASSUME NEW h \in Heights, work[h] # "none"
                 PROVE  /\ pc \in {"classify", "apply"}
                        /\ \E f \in Finders : status[Pool][h][f] = "pending"
                        /\ Agrees(Pool, h, work[h])'
      BY <1>1 DEF WorkInv, Agrees, Final, Pool
    <2>1. /\ pc \in {"classify", "apply"}
          /\ \E f \in Finders : status[Pool][h][f] = "pending"
          /\ Agrees(Pool, h, work[h])
      BY DEF IInv, WorkInv
    <2>2. Pool \in Pools
      BY <2>1, PoolInTurn DEF IInv
    <2>3. Mined(Pool, h)
      BY <2>1, <2>2 DEF IInv, RowsInv
    <2>4. Pool' = Pool /\ work' = work
      BY <1>1 DEF Pool
    <2>5. ASSUME NEW p \in Pools, NEW s, Mined(p, h), Agrees(p, h, s)
          PROVE  Agrees(p, h, s)'
      BY <2>5, AgreesStable
    <2> QED
      BY <2>1, <2>2, <2>3, <2>4, <2>5 DEF Agrees, Final
  <1>5. CreditedOnce'
    BY <1>1 DEF IInv, CreditedOnce, ConfirmedHeights
  <1> QED
    BY <1>2, <1>3, <1>4, <1>5 DEF IInv, Sound, HeightsApart

LEMMA RecordStep ==
    ASSUME IInv, TypeOK', NEW p \in Pools, NEW h \in Heights, NEW f \in Finders,
           RecordBlock(p, h, f)
    PROVE  IInv'
  <1>1. /\ UNCHANGED <<tip, ours, credits, pc, at, work>>
        /\ h \in HeightsOf(p) /\ h <= tip[p] /\ ~Final(p, h)
        /\ status[p][h][f] = "none"
        /\ status' = [status EXCEPT ![p][h][f] = "pending"]
    <2>1. h \in Nat /\ tip[p] \in Nat /\ RecordDelay \in Nat
      BY HeightIsNat, BoundsAssumption DEF IInv, TypeOK
    <2> QED
      BY <2>1 DEF RecordBlock, chain, thread, Final
  <1>2. \A g \in Finders : status[p][h][g] \in {"none", "pending"}
    BY <1>1 DEF IInv, RowsInv, Agrees, TypeOK, Statuses
  <1>3. /\ \A q \in Pools, k \in Heights, g \in Finders :
              status'[q][k][g] = IF q = p /\ k = h /\ g = f THEN "pending"
                                                            ELSE status[q][k][g]
        /\ \A q \in Pools : ConfirmedHeights(q)' = ConfirmedHeights(q)
    BY RecordShape DEF IInv
  <1>4. RowsInv'
    <2> SUFFICES ASSUME NEW q \in Pools, NEW k \in Heights, NEW e \in Finders,
                        status'[q][k][e] # "none"
                 PROVE  /\ Mined(q, k) /\ Agrees(q, k, status'[q][k][e])
                        /\ \A g \in Finders : status'[q][k][g] \in {"none", status'[q][k][e]}
      BY <1>1 DEF RowsInv, Mined, Agrees, Final
    <2>1. CASE q = p /\ k = h
      BY <1>1, <1>2, <1>3, <2>1 DEF Mined, Agrees
    <2>2. CASE ~(q = p /\ k = h)
      BY <1>3, <2>2 DEF IInv, RowsInv
    <2> QED
      BY <2>1, <2>2
  <1>5. WorkInv'
    <2>1. Pool' = Pool
      BY <1>1 DEF Pool
    <2>2. \A k \in Heights : work[k] # "none" => pc # "wait"
      BY DEF IInv, WorkInv
    <2>3. \A k \in Heights : work[k] # "none" => Pool \in Pools
      BY <2>2, PoolInTurn DEF IInv
    <2> QED
      BY <1>1, <1>3, <2>1, <2>3 DEF IInv, WorkInv, Agrees, Final
  <1>6. CreditedOnce'
    BY <1>1, <1>3 DEF IInv, CreditedOnce
  <1>7. TipInv' /\ Sound'
    BY <1>1 DEF IInv, TipInv, Sound, HeightsApart
  <1> QED
    BY <1>4, <1>5, <1>6, <1>7 DEF IInv

LEMMA ReadStep ==
    ASSUME IInv, TypeOK', ReadPending
    PROVE  IInv'
  <1>1. UNCHANGED <<tip, ours, status, credits, at>> /\ pc' = "classify"
    BY DEF ReadPending, chain, db
  <1>2. WorkInv'
    <2>1. \A h \in Heights : work'[h] # "none" =>
             work'[h] = "pending" /\ \E f \in Finders : status[Pool][h][f] = "pending"
      BY DEF ReadPending, PendingHeights
    <2> QED
      BY <1>1, <2>1 DEF WorkInv, Agrees, Pool
  <1> QED
    BY <1>1, <1>2 DEF IInv, Sound, HeightsApart, TipInv, RowsInv, Mined, Agrees, Final,
                      CreditedOnce, ConfirmedHeights

LEMMA ClassifyStep ==
    ASSUME IInv, TypeOK', ClassifyBlocks
    PROVE  IInv'
  <1>1. UNCHANGED <<tip, ours, status, credits, at>> /\ pc' = "apply" /\ pc = "classify"
    BY DEF ClassifyBlocks, chain, db
  <1>2. Pool \in Pools
    BY <1>1, PoolInTurn DEF IInv
  <1>3. \A h \in Heights : work'[h] # "none" =>
           work[h] # "none" /\ work'[h] = Classified(Pool, h, tip[Pool])
    <2>1. tip[Pool] \in Nat /\ tip[Pool] - 0 = tip[Pool]
      BY <1>2 DEF IInv, TypeOK
    <2> QED
      BY <2>1 DEF ClassifyBlocks, Listed, IInv, Sound
  <1>4. WorkInv'
    <2> SUFFICES ASSUME NEW h \in Heights, work'[h] # "none"
                 PROVE  /\ \E f \in Finders : status[Pool][h][f] = "pending"
                        /\ Agrees(Pool, h, work'[h])
      BY <1>1 DEF WorkInv, Agrees, Final, Pool
    <2>1. \E f \in Finders : status[Pool][h][f] = "pending"
      BY <1>3 DEF IInv, WorkInv
    <2>2. Mined(Pool, h)
      BY <1>2, <2>1 DEF IInv, RowsInv
    <2> QED
      BY <1>2, <1>3, <2>1, <2>2, ClassifiedAgrees DEF IInv
  <1> QED
    BY <1>1, <1>4 DEF IInv, Sound, HeightsApart, TipInv, RowsInv, Mined, Agrees, Final,
                      CreditedOnce, ConfirmedHeights

\* The transaction of one block: all rows of the height were pending rows of
\* the pool in turn, and get the status the thread found.
LEMMA UpdateStep ==
    ASSUME CreditInv, pc = "apply", NEW h \in Heights, UpdatePoolBalance(h)
    PROVE  /\ RowsTogether' /\ CreditedOnce'
           /\ \A p \in Pools, k \in Heights, f \in Finders :
                 /\ status'[p][k][f] = IF p = Pool /\ k = h /\ status[p][k][f] # "none"
                                       THEN work[h] ELSE status[p][k][f]
                 /\ status'[p][k][f] # status[p][k][f] =>
                        p = Pool /\ k = h /\ status[p][k][f] = "pending"
  <1>1. Pool \in Pools /\ work[h] # "none" /\ work[h] \in Statuses
    BY PoolInTurn DEF CreditInv, TypeOK, UpdatePoolBalance, Listed
  <1>2. \E f \in Finders : status[Pool][h][f] = "pending"
    BY <1>1 DEF CreditInv, WorkPending
  <1>3. /\ h \in HeightsOf(Pool)
        /\ \A f \in Finders : status[Pool][h][f] \in {"none", "pending"}
    BY <1>1, <1>2 DEF CreditInv, RowsTogether
  <1>4. \A p \in Pools, f \in Finders : p # Pool => status[p][h][f] = "none"
    BY <1>1, <1>3 DEF CreditInv, RowsTogether, HeightsApart
  <1>5. \A p \in Pools, k \in Heights, f \in Finders :
           status'[p][k][f] = IF p = Pool /\ k = h /\ status[p][k][f] # "none"
                              THEN work[h] ELSE status[p][k][f]
    BY <1>4 DEF UpdatePoolBalance, UpdateBlock
  <1>6. RowsTogether'
    <2> SUFFICES ASSUME NEW p \in Pools, NEW k \in Heights, NEW f \in Finders,
                        status'[p][k][f] # "none"
                 PROVE  /\ k \in HeightsOf(p)
                        /\ \A g \in Finders : status'[p][k][g] \in {"none", status'[p][k][f]}
      BY DEF RowsTogether
    <2>1. CASE p = Pool /\ k = h
      BY <1>1, <1>3, <1>5, <2>1
    <2>2. CASE ~(p = Pool /\ k = h)
      BY <1>5, <2>2 DEF CreditInv, RowsTogether
    <2> QED
      BY <2>1, <2>2
  <1>7. CreditedOnce'
    <2> PICK q \in Pools : q = Pool
      BY <1>1
    <2>1. \A p \in Pools, k \in Heights : ~(p = q /\ k = h) =>
             (k \in ConfirmedHeights(p)' <=> k \in ConfirmedHeights(p))
      BY <1>5 DEF ConfirmedHeights
    <2>2. h \notin ConfirmedHeights(q)
      BY <1>3 DEF ConfirmedHeights
    <2>3. h \in ConfirmedHeights(q)' <=> work[h] = "confirmed"
      <3>1. PICK f \in Finders : status[q][h][f] = "pending"
        BY <1>2
      <3>2. status'[q][h][f] = work[h]
        BY <1>5, <3>1
      <3>3. \A g \in Finders : status'[q][h][g] \in {"none", work[h]}
        BY <1>3, <1>5
      <3> QED
        BY <3>2, <3>3 DEF ConfirmedHeights
    <2>4. credits[q][h] = 0 /\ credits \in [Pools -> [Heights -> Nat]]
      BY <2>2 DEF CreditInv, CreditedOnce, TypeOK
    <2>5. CASE work[h] = "confirmed"
      <3>1. credits' = [credits EXCEPT ![q][h] = @ + 1]
        BY <2>5 DEF UpdatePoolBalance, DistributeReward
      <3>2. \A p \in Pools : credits'[p] = IF p = q
               THEN [credits[q] EXCEPT ![h] = @ + 1] ELSE credits[p]
        BY <2>4, <3>1
      <3>3. \A k \in Heights : credits'[q][k] = IF k = h THEN 1 ELSE credits[q][k]
        BY <2>4, <3>2
      <3> SUFFICES ASSUME NEW p \in Pools, NEW k \in Heights
                   PROVE  credits'[p][k] = IF k \in ConfirmedHeights(p)' THEN 1 ELSE 0
        BY DEF CreditedOnce
      <3>4. credits[p][k] = IF k \in ConfirmedHeights(p) THEN 1 ELSE 0
        BY DEF CreditInv, CreditedOnce
      <3> QED
        BY <2>1, <2>3, <2>5, <3>2, <3>3, <3>4
    <2>6. CASE work[h] # "confirmed"
      <3>1. UNCHANGED credits
        BY <2>6 DEF UpdatePoolBalance
      <3> SUFFICES ASSUME NEW p \in Pools, NEW k \in Heights
                   PROVE  credits'[p][k] = IF k \in ConfirmedHeights(p)' THEN 1 ELSE 0
        BY DEF CreditedOnce
      <3>2. credits[p][k] = IF k \in ConfirmedHeights(p) THEN 1 ELSE 0
        BY DEF CreditInv, CreditedOnce
      <3> QED
        BY <2>1, <2>2, <2>3, <2>6, <3>1, <3>2
    <2> QED
      BY <2>5, <2>6
  <1> QED
    BY <1>2, <1>3, <1>5, <1>6, <1>7

LEMMA ApplyStep ==
    ASSUME IInv, TypeOK', NEW h \in Heights, ApplyBlock(h) \/ ApplyBlockAckLost(h)
    PROVE  IInv'
  <1>1. pc = "apply" /\ UpdatePoolBalance(h) /\ UNCHANGED <<tip, ours>>
    BY DEF ApplyBlock, ApplyBlockAckLost, UpdatePoolBalance, chain
  <1>2. /\ RowsTogether' /\ CreditedOnce'
        /\ \A p \in Pools, k \in Heights, f \in Finders :
              /\ status'[p][k][f] = IF p = Pool /\ k = h /\ status[p][k][f] # "none"
                                    THEN work[h] ELSE status[p][k][f]
              /\ status'[p][k][f] # status[p][k][f] =>
                     p = Pool /\ k = h /\ status[p][k][f] = "pending"
    BY <1>1, IInvCredits, UpdateStep
  <1>3. WorkInv'
    <2>1. CASE ApplyBlock(h)
      <3>1. /\ UNCHANGED <<pc, at>>
            /\ \A k \in Heights : work'[k] # "none" => k # h /\ work'[k] = work[k]
        BY <2>1 DEF ApplyBlock, IInv, TypeOK
      <3>2. Pool \in Pools /\ Pool' = Pool
        BY <1>1, <3>1, PoolInTurn DEF IInv, Pool
      <3> QED
        BY <1>1, <1>2, <3>1, <3>2 DEF IInv, WorkInv, Agrees, Final
    <2>2. CASE ApplyBlockAckLost(h)
      BY <2>2 DEF ApplyBlockAckLost, NextPool, Leave, NoWork, WorkInv
    <2> QED
      BY <2>1, <2>2
  <1>4. TipInv' /\ Sound'
    BY <1>1 DEF IInv, TipInv, Sound, HeightsApart
  <1>5. RowsInv'
    <2> SUFFICES ASSUME NEW p \in Pools, NEW k \in Heights, NEW f \in Finders,
                        status'[p][k][f] # "none"
                 PROVE  Mined(p, k) /\ Agrees(p, k, status'[p][k][f])
      BY <1>1, <1>2 DEF RowsInv, RowsTogether, Mined, Agrees, Final
    <2>1. status[p][k][f] # "none"
      BY <1>2
    <2>2. Mined(p, k) /\ Agrees(p, k, status[p][k][f])
      BY <2>1 DEF IInv, RowsInv
    <2>3. CASE p = Pool /\ k = h
      <3>1. work[h] # "none" /\ Agrees(Pool, h, work[h])
        BY <1>1 DEF IInv, WorkInv, UpdatePoolBalance, Listed
      <3> QED
        BY <1>2, <2>1, <2>2, <2>3, <3>1
    <2>4. CASE ~(p = Pool /\ k = h)
      BY <1>2, <2>2, <2>4
    <2> QED
      BY <2>3, <2>4
  <1> QED
    BY <1>2, <1>3, <1>4, <1>5 DEF IInv

LEMMA IInvStep == IInv /\ [Next]_vars => IInv'
  <1> SUFFICES ASSUME IInv, [Next]_vars PROVE IInv'
    OBVIOUS
  <1>1. TypeOK'
    BY TypeStep DEF IInv
  <1>2. ASSUME NEW p \in Pools, Extend(p) \/ \E h \in Heights : Reorg(p, h) PROVE IInv'
    BY <1>1, <1>2, ChainStep
  <1>3. ASSUME NEW p \in Pools, NEW h \in Heights, NEW f \in Finders, RecordBlock(p, h, f)
        PROVE IInv'
    BY <1>1, <1>3, RecordStep
  <1>4. CASE ReadPending
    BY <1>1, <1>4, ReadStep
  <1>5. CASE ClassifyBlocks
    BY <1>1, <1>5, ClassifyStep
  <1>6. ASSUME NEW h \in Heights, ApplyBlock(h) \/ ApplyBlockAckLost(h) PROVE IInv'
    BY <1>1, <1>6, ApplyStep
  <1>7. pc \notin {"classify", "apply"} => Listed = {}
    BY DEF IInv, WorkInv, Listed
  <1>8. CASE StartRound \/ ReadBalances \/ PeersOk \/ BlocksDone
    BY <1>1, <1>7, <1>8, QuietStep
    DEF StartRound, ReadBalances, PeersOk, BlocksDone, chain, db
  <1>9. CASE ClassifyNoLatest \/ AbortPool \/ PayoutDone \/ Crash
    BY <1>1, <1>9, QuietStep
    DEF ClassifyNoLatest, AbortPool, PayoutDone, Crash, NextPool, Leave, chain, db
  <1>10. ASSUME NEW a \in Addrs, SendOk(a) \/ SendRefused(a) \/ SendLost(a) PROVE IInv'
    BY <1>1, <1>7, <1>10, QuietStep DEF SendOk, SendRefused, SendLost, chain, db
  <1>11. CASE PersistOk \/ PersistRetry \/ PersistGiveUp \/ PersistAckLost
    BY <1>1, <1>7, <1>11, QuietStep
    DEF PersistOk, PersistRetry, PersistGiveUp, PersistAckLost, NextBalance, ResetBalance,
        chain, db
  <1>12. CASE UNCHANGED vars
    BY <1>1, <1>12, QuietStep DEF vars
  <1> QED
    BY <1>2, <1>3, <1>4, <1>5, <1>6, <1>8, <1>9, <1>10, <1>11, <1>12
    DEF Next, Environment, ThreadStep

LEMMA IInvAlways == Sound /\ Spec => []IInv
  BY IInvInit, IInvStep, PTL DEF Spec

\* Every row that is settled is settled in agreement with the final chain.
THEOREM BlocksSettledRight == Sound /\ Spec => []SettledRight
  <1>1. IInv => SettledRight
    BY DEF IInv, RowsInv, Agrees, SettledRight
  <1> QED
    BY <1>1, IInvAlways, PTL

-----------------------------------------------------------------------------
(* A block is confirmed too early when the daemon asked for "latest" lags, *)
(* or when a reorganisation comes late.  It is still credited only once as *)
(* long as no second candidate of the same height can become a row.        *)

OneCandidate == HeightsApart /\ \A f, g \in Finders : f = g

LEMMA CreditInit == HeightsApart /\ Init => CreditInv
  <1> SUFFICES ASSUME HeightsApart, Init PROVE CreditInv
    OBVIOUS
  <1>1. TypeOK
    BY TypeInit
  <1>2. RowsTogether /\ WorkPending /\ CreditedOnce
    BY DEF Init, RowsTogether, WorkPending, NoWork, CreditedOnce, ConfirmedHeights
  <1> QED
    BY <1>1, <1>2 DEF CreditInv

\* Steps that leave the rows alone, and at most empty work.
LEMMA CreditStands ==
    ASSUME CreditInv, TypeOK', UNCHANGED <<status, credits>>,
           \/ work' = NoWork
           \/ UNCHANGED <<work, pc, at>>
           \/ Listed = {} /\ UNCHANGED work
    PROVE  CreditInv'
  <1>1. HeightsApart' /\ RowsTogether' /\ CreditedOnce'
    BY DEF CreditInv, HeightsApart, RowsTogether, CreditedOnce, ConfirmedHeights
  <1>2. WorkPending'
    <2>1. CASE work' = NoWork \/ (Listed = {} /\ UNCHANGED work)
      BY <2>1 DEF NoWork, Listed, WorkPending
    <2>2. CASE UNCHANGED <<work, pc, at>>
      BY <2>2 DEF CreditInv, WorkPending, Pool
    <2> QED
      BY <2>1, <2>2
  <1> QED
    BY <1>1, <1>2 DEF CreditInv

LEMMA CreditRecord ==
    ASSUME OneCandidate, CreditInv, TypeOK',
           NEW p \in Pools, NEW h \in Heights, NEW f \in Finders, RecordBlock(p, h, f)
    PROVE  CreditInv'
  <1>1. /\ UNCHANGED <<credits, pc, at, work>> /\ h \in HeightsOf(p)
        /\ status[p][h][f] = "none"
    BY DEF RecordBlock, thread
  <1>2. /\ \A q \in Pools, k \in Heights, g \in Finders :
              status'[q][k][g] = IF q = p /\ k = h /\ g = f THEN "pending"
                                                            ELSE status[q][k][g]
        /\ \A q \in Pools : ConfirmedHeights(q)' = ConfirmedHeights(q)
    BY RecordShape DEF CreditInv
  <1>3. RowsTogether'
    BY <1>1, <1>2 DEF CreditInv, RowsTogether, OneCandidate
  <1>4. WorkPending'
    <2>1. Pool' = Pool
      BY <1>1 DEF Pool
    <2>2. \A k \in Heights : work[k] # "none" => pc # "wait"
      BY DEF CreditInv, WorkPending
    <2>3. \A k \in Heights : work[k] # "none" => Pool \in Pools
      BY <2>2, PoolInTurn DEF CreditInv
    <2> QED
      BY <1>1, <1>2, <2>1, <2>3 DEF CreditInv, WorkPending
  <1>5. CreditedOnce' /\ HeightsApart'
    BY <1>1, <1>2 DEF CreditInv, CreditedOnce, HeightsApart
  <1> QED
    BY <1>3, <1>4, <1>5 DEF CreditInv

LEMMA CreditApply ==
    ASSUME CreditInv, TypeOK', NEW h \in Heights, ApplyBlock(h) \/ ApplyBlockAckLost(h)
    PROVE  CreditInv'
  <1>1. pc = "apply" /\ UpdatePoolBalance(h)
    BY DEF ApplyBlock, ApplyBlockAckLost
  <1>2. /\ RowsTogether' /\ CreditedOnce'
        /\ \A p \in Pools, k \in Heights, f \in Finders :
              status'[p][k][f] # status[p][k][f] =>
                  p = Pool /\ k = h /\ status[p][k][f] = "pending"
    BY <1>1, UpdateStep
  <1>3. WorkPending'
    <2>1. CASE ApplyBlock(h)
      <3>1. /\ UNCHANGED <<pc, at>>
            /\ \A k \in Heights : work'[k] # "none" => k # h /\ work'[k] = work[k]
        BY <2>1 DEF ApplyBlock, CreditInv, TypeOK
      <3>2. Pool \in Pools /\ Pool' = Pool
        BY <1>1, <3>1, PoolInTurn DEF CreditInv, Pool
      <3> QED
        BY <1>2, <3>1, <3>2 DEF CreditInv, WorkPending
    <2>2. CASE ApplyBlockAckLost(h)
      BY <2>2 DEF ApplyBlockAckLost, NextPool, Leave, NoWork, WorkPending
    <2> QED
      BY <2>1, <2>2
  <1> QED
    BY <1>2, <1>3 DEF CreditInv, HeightsApart

LEMMA CreditStep == OneCandidate /\ CreditInv /\ [Next]_vars => CreditInv'
  <1> SUFFICES ASSUME OneCandidate, CreditInv, [Next]_vars PROVE CreditInv'
    OBVIOUS
  <1>1. TypeOK'
    BY TypeStep DEF CreditInv
  <1>2. ASSUME NEW p \in Pools, NEW h \in Heights, NEW f \in Finders, RecordBlock(p, h, f)
        PROVE CreditInv'
    BY <1>1, <1>2, CreditRecord
  <1>3. ASSUME NEW h \in Heights, ApplyBlock(h) \/ ApplyBlockAckLost(h) PROVE CreditInv'
    BY <1>1, <1>3, CreditApply
  <1>4. CASE ReadPending
    <2>1. UNCHANGED <<status, credits, at>> /\ pc' = "classify"
      BY <1>4 DEF ReadPending, db
    <2>2. \A h \in Heights : work'[h] # "none" => \E f \in Finders : status[Pool][h][f] = "pending"
      BY <1>4 DEF ReadPending, PendingHeights
    <2>3. WorkPending'
      BY <2>1, <2>2 DEF WorkPending, Pool
    <2> QED
      BY <1>1, <2>1, <2>3
      DEF CreditInv, HeightsApart, RowsTogether, CreditedOnce, ConfirmedHeights
  <1>5. CASE ClassifyBlocks
    <2>1. UNCHANGED <<status, credits, at>> /\ pc' = "apply"
      BY <1>5 DEF ClassifyBlocks, db
    <2>2. \A h \in Heights : work'[h] # "none" => work[h] # "none"
      BY <1>5 DEF ClassifyBlocks, Listed
    <2>3. WorkPending'
      BY <2>1, <2>2 DEF CreditInv, WorkPending, Pool
    <2> QED
      BY <1>1, <2>1, <2>3
      DEF CreditInv, HeightsApart, RowsTogether, CreditedOnce, ConfirmedHeights
  <1>6. pc \notin {"classify", "apply"} => Listed = {}
    BY DEF CreditInv, WorkPending, Listed
  <1>7. CASE StartRound \/ ReadBalances \/ PeersOk \/ BlocksDone
    BY <1>1, <1>6, <1>7, CreditStands DEF StartRound, ReadBalances, PeersOk, BlocksDone, db
  <1>8. CASE ClassifyNoLatest \/ AbortPool \/ PayoutDone \/ Crash
    BY <1>1, <1>8, CreditStands
    DEF ClassifyNoLatest, AbortPool, PayoutDone, Crash, NextPool, Leave, db
  <1>9. ASSUME NEW a \in Addrs, SendOk(a) \/ SendRefused(a) \/ SendLost(a) PROVE CreditInv'
    BY <1>1, <1>6, <1>9, CreditStands DEF SendOk, SendRefused, SendLost, db
  <1>10. CASE PersistOk \/ PersistRetry \/ PersistGiveUp \/ PersistAckLost
    BY <1>1, <1>6, <1>10, CreditStands
    DEF PersistOk, PersistRetry, PersistGiveUp, PersistAckLost, NextBalance, ResetBalance, db
  <1>11. ASSUME NEW p \in Pools, Extend(p) \/ \E h \in Heights : Reorg(p, h) PROVE CreditInv'
    BY <1>1, <1>11, CreditStands DEF Extend, Reorg, db, thread
  <1>12. CASE UNCHANGED vars
    BY <1>1, <1>12, CreditStands DEF vars
  <1> QED
    BY <1>2, <1>3, <1>4, <1>5, <1>7, <1>8, <1>9, <1>10, <1>11, <1>12
    DEF Next, Environment, ThreadStep

LEMMA CreditsAlways == (Sound \/ OneCandidate) /\ Spec => []CreditInv
  <1> DEFINE I == OneCandidate /\ CreditInv
  <1>1. OneCandidate /\ Init => I
    BY CreditInit DEF OneCandidate
  <1>2. I /\ [Next]_vars => I'
    BY CreditStep DEF OneCandidate, HeightsApart
  <1>3. OneCandidate /\ Spec => []CreditInv
    BY <1>1, <1>2, PTL DEF Spec
  <1>4. Sound /\ Spec => []CreditInv
    BY IInvAlways, IInvCredits, PTL
  <1> QED
    BY <1>3, <1>4, PTL

\* PayoutManager credits the reward of every block exactly once if its rows
\* are confirmed and not at all otherwise: through aborted turns, crashes and
\* lost answers to COMMIT, and either duplicate rows of a height or a daemon
\* that lags and reorganisations that come late.
THEOREM BlocksCreditedOnce == (Sound \/ OneCandidate) /\ Spec => []CreditedOnce
  <1>1. CreditInv => CreditedOnce
    BY DEF CreditInv
  <1> QED
    BY <1>1, CreditsAlways, PTL

\* A settled row is never classified a second time, whether it was settled
\* rightly or not.
THEOREM SettledIsFinal == (Sound \/ OneCandidate) /\ Spec => SettledStays
  <1>1. CreditInv /\ [Next]_vars => [\A p \in Pools, h \in Heights, f \in Finders :
             status[p][h][f] \in {"confirmed", "orphaned"}
                 => status'[p][h][f] = status[p][h][f]]_vars
    <2> SUFFICES ASSUME CreditInv, Next, NEW p \in Pools, NEW h \in Heights, NEW f \in Finders,
                        status[p][h][f] \in {"confirmed", "orphaned"}
                 PROVE  status'[p][h][f] = status[p][h][f]
      OBVIOUS
    <2>1. TypeOK /\ TypeOK'
      BY TypeStep DEF CreditInv
    <2>2. ASSUME NEW k \in Heights, ApplyBlock(k) \/ ApplyBlockAckLost(k)
          PROVE  status'[p][h][f] = status[p][h][f]
      BY <2>1, <2>2, UpdateStep DEF ApplyBlock, ApplyBlockAckLost
    <2>3. ASSUME NEW q \in Pools, NEW k \in Heights, NEW g \in Finders, RecordBlock(q, k, g)
          PROVE  status'[p][h][f] = status[p][h][f]
      <3>1. status[q][k][g] = "none"
        BY <2>3 DEF RecordBlock
      <3> QED
        BY <2>1, <2>3, <3>1, RecordShape
    <2> QED
      BY <2>2, <2>3
      DEF Next, Environment, ThreadStep, Extend, Reorg, StartRound, ReadPending,
          ClassifyBlocks, ClassifyNoLatest, BlocksDone, AbortPool, ReadBalances, PeersOk,
          PayoutDone, SendOk, SendRefused, SendLost, PersistOk, PersistRetry,
          PersistGiveUp, PersistAckLost, ResetBalance, Crash, db
  <1> QED
    BY <1>1, CreditsAlways, PTL DEF Spec, SettledStays

-----------------------------------------------------------------------------
(* The money: transfers are in the books, and Payments implements Ledger,  *)
(* provided no answer to a COMMIT is lost.  The balances that are read for *)
(* payout do not change until the thread has dealt with them.              *)

Paying == pc \in {"peers", "send", "persist"}

MoneyInv ==
    /\ TypeOK /\ ~AckLoss
    /\ \A p \in Pools, a \in Addrs : balance[p][a] >= 0
    /\ Paying => \A a \in Addrs : due[a] \in {0, balance[Pool][a]}
    /\ pc = "persist" => due[cur] > 0
    /\ \A p \in Pools, a \in Addrs :
          /\ debits[p][a] + InFlight(p, a) <= sent[p][a]
          /\ faults = 0 => sent[p][a] = debits[p][a] + InFlight(p, a)

LEMMA MoneyInit == Init /\ ~AckLoss => MoneyInv
  <1> SUFFICES ASSUME Init, ~AckLoss PROVE MoneyInv
    OBVIOUS
  <1>1. TypeOK
    BY TypeInit
  <1> QED
    BY <1>1 DEF Init, MoneyInv, Paying, InFlight

\* Steps that move no money, and at most leave balances out
\* (AionPayoutHandler.PayoutAsync).
LEMMA MoneyStands ==
    ASSUME MoneyInv, TypeOK', UNCHANGED <<balance, debits, sent>>,
           pc # "persist", pc' # "persist", faults' = 0 => faults = 0,
           Paying' => /\ Paying /\ at' = at
                      /\ \A a \in Addrs : due'[a] \in {0, due[a]}
    PROVE  MoneyInv'
  <1>1. \A p \in Pools, a \in Addrs : InFlight(p, a) = 0 /\ InFlight(p, a)' = 0
    BY DEF InFlight
  <1>2. Paying' => Pool' = Pool
    BY DEF Pool
  <1> QED
    BY <1>1, <1>2 DEF MoneyInv

\* A table in which one amount is raised (BalanceRepository.AddAmount).
LEMMA SumTableShape ==
    ASSUME NEW S, NEW T, NEW f \in [S -> [T -> Nat]], NEW p \in S, NEW a \in T, NEW x \in Nat
    PROVE  \A q \in S, b \in T : [f EXCEPT ![p][a] = @ + x][q][b] =
              IF q = p /\ b = a THEN f[p][a] + x ELSE f[q][b]
  <1> TAKE q \in S, b \in T
  <1> DEFINE g == [f EXCEPT ![p][a] = @ + x]
  <1>1. g[p] = [f[p] EXCEPT ![a] = f[p][a] + x] /\ (q # p => g[q] = f[q])
    OBVIOUS
  <1>2. f[p] \in [T -> Nat]
    OBVIOUS
  <1>3. [f[p] EXCEPT ![a] = f[p][a] + x][b] = IF b = a THEN f[p][a] + x ELSE f[p][b]
    BY <1>2
  <1> QED
    BY <1>1, <1>3

\* What a payment strikes off (BalanceRepository.AddAmount, "Balance reset").
LEMMA ResetShape ==
    ASSUME MoneyInv, pc = "persist", ResetBalance
    PROVE  /\ Pool \in Pools /\ cur \in Addrs /\ due[cur] \in Nat /\ due[cur] = balance[Pool][cur]
           /\ \A p \in Pools, a \in Addrs :
                 /\ balance'[p][a] = IF p = Pool /\ a = cur THEN 0 ELSE balance[p][a]
                 /\ debits'[p][a] = IF p = Pool /\ a = cur THEN debits[p][a] + due[cur]
                                                            ELSE debits[p][a]
  <1>1. /\ Pool \in Pools /\ cur \in Addrs /\ due[cur] \in Nat
        /\ balance \in [Pools -> [Addrs -> Int]] /\ debits \in [Pools -> [Addrs -> Nat]]
    BY PoolInTurn DEF MoneyInv, TypeOK
  <1>2. due[cur] = balance[Pool][cur]
    BY <1>1 DEF MoneyInv, Paying
  <1> DEFINE amount == [NothingDue EXCEPT ![cur] = -due[cur]]
  <1>3. \A a \in Addrs : amount[a] = IF a = cur THEN -due[cur] ELSE 0
    BY <1>1 DEF NothingDue
  <1> HIDE DEF amount
  <1>4. balance' = [balance EXCEPT ![Pool] = [a \in Addrs |-> balance[Pool][a] + amount[a]]]
    BY DEF ResetBalance, AddAmount, amount
  <1>5. ASSUME NEW p \in Pools, NEW a \in Addrs
        PROVE  balance'[p][a] = IF p = Pool /\ a = cur THEN 0 ELSE balance[p][a]
    <2>1. balance[p][a] \in Int
      BY <1>1
    <2>2. CASE p = Pool
      <3>1. balance'[p][a] = balance[p][a] + amount[a]
        BY <1>1, <1>4, <2>2
      <3> QED
        BY <1>2, <1>3, <2>1, <2>2, <3>1
    <2>3. CASE p # Pool
      BY <1>1, <1>4, <2>3
    <2> QED
      BY <2>2, <2>3
  <1>6. debits' = [debits EXCEPT ![Pool][cur] = @ + due[cur]]
    BY DEF ResetBalance
  <1>7. \A p \in Pools, a \in Addrs :
           debits'[p][a] = IF p = Pool /\ a = cur THEN debits[Pool][cur] + due[cur] ELSE debits[p][a]
    BY <1>1, <1>6, SumTableShape
  <1> QED
    BY <1>1, <1>2, <1>5, <1>7

\* The rewards of a block are added (IPayoutScheme.UpdateBalances).
LEMMA MoneyCredited ==
    ASSUME MoneyInv, TypeOK', NEW h \in Heights, ApplyBlock(h)
    PROVE  MoneyInv'
  <1>1. /\ pc = "apply" /\ UNCHANGED <<debits, sent, faults, pc>> /\ UpdatePoolBalance(h)
    BY DEF ApplyBlock, UpdatePoolBalance
  <1>2. Pool \in Pools
    BY <1>1, PoolInTurn DEF MoneyInv
  <1>3. ASSUME NEW p \in Pools, NEW a \in Addrs PROVE balance'[p][a] >= 0
    <2>1. balance[p][a] >= 0 /\ balance[p][a] \in Int /\ balance \in [Pools -> [Addrs -> Int]]
      BY DEF MoneyInv, TypeOK
    <2>2. CASE work[h] = "confirmed"
      <3>1. balance' = [balance EXCEPT ![Pool] = [b \in Addrs |-> balance[Pool][b] + Credit[Pool][h][b]]]
        BY <1>1, <2>2 DEF UpdatePoolBalance, DistributeReward, AddAmount
      <3>2. Credit[Pool][h][a] \in Nat
        BY <1>2, CreditAssumption
      <3>3. balance'[p][a] = IF p = Pool THEN balance[p][a] + Credit[Pool][h][a] ELSE balance[p][a]
        BY <1>2, <2>1, <3>1
      <3> QED
        BY <2>1, <3>2, <3>3
    <2>3. CASE work[h] # "confirmed"
      BY <1>1, <2>1, <2>3 DEF UpdatePoolBalance
    <2> QED
      BY <2>2, <2>3
  <1>4. \A p \in Pools, a \in Addrs : InFlight(p, a) = 0 /\ InFlight(p, a)' = 0
    BY <1>1 DEF InFlight
  <1> QED
    BY <1>1, <1>3, <1>4 DEF MoneyInv, Paying

\* A transfer, booked or lost (AionPayoutHandler.PayoutAsync).
LEMMA MoneySent ==
    ASSUME MoneyInv, TypeOK', NEW a \in Addrs, SendOk(a) \/ SendLost(a)
    PROVE  MoneyInv'
  <1>1. /\ pc = "send" /\ due[a] > 0 /\ sent' = [sent EXCEPT ![Pool][a] = @ + due[a]]
        /\ UNCHANGED <<balance, debits, at>>
    BY DEF SendOk, SendLost, Transfer, db
  <1>2. Pool \in Pools /\ due[a] \in Nat /\ sent \in [Pools -> [Addrs -> Nat]] /\ Pool' = Pool
    BY <1>1, PoolInTurn DEF MoneyInv, TypeOK, Pool
  <1>3. \A p \in Pools, b \in Addrs :
           sent'[p][b] = IF p = Pool /\ b = a THEN sent[Pool][a] + due[a] ELSE sent[p][b]
    BY <1>1, <1>2, SumTableShape
  <1>4. \A p \in Pools, b \in Addrs :
           /\ InFlight(p, b) = 0 /\ debits[p][b] \in Nat /\ sent[p][b] \in Nat
           /\ debits[p][b] <= sent[p][b] /\ (faults = 0 => sent[p][b] = debits[p][b])
    <2> TAKE p \in Pools, b \in Addrs
    <2>1. InFlight(p, b) = 0 /\ debits[p][b] \in Nat /\ sent[p][b] \in Nat
      BY <1>1 DEF InFlight, MoneyInv, TypeOK
    <2>2. /\ debits[p][b] + InFlight(p, b) <= sent[p][b]
          /\ faults = 0 => sent[p][b] = debits[p][b] + InFlight(p, b)
      BY DEF MoneyInv
    <2> QED
      BY <2>1, <2>2
  <1>5. CASE SendOk(a)
    <2>1. pc' = "persist" /\ cur' = a /\ UNCHANGED <<due, faults>>
      BY <1>5 DEF SendOk
    <2>2. \A p \in Pools, b \in Addrs : InFlight(p, b)' = IF p = Pool /\ b = a THEN due[a] ELSE 0
      BY <1>2, <2>1 DEF InFlight
    <2> QED
      BY <1>1, <1>2, <1>3, <1>4, <2>1, <2>2 DEF MoneyInv, Paying
  <1>6. CASE SendLost(a)
    <2>1. pc' = "send" /\ faults' = faults + 1 /\ due' = [due EXCEPT ![a] = 0]
      BY <1>1, <1>6 DEF SendLost
    <2>2. \A p \in Pools, b \in Addrs : InFlight(p, b)' = 0
      BY <2>1 DEF InFlight
    <2>3. faults' # 0
      BY <2>1 DEF MoneyInv, TypeOK
    <2>4. \A b \in Addrs : due'[b] \in {0, due[b]}
      BY <2>1 DEF MoneyInv, TypeOK
    <2> QED
      BY <1>1, <1>2, <1>3, <1>4, <2>1, <2>2, <2>3, <2>4 DEF MoneyInv, Paying
  <1> QED
    BY <1>5, <1>6

\* The payment is booked, abandoned, or tried again (PayoutHandlerBase.PersistPayments).
LEMMA MoneyPersisted ==
    ASSUME MoneyInv, TypeOK', PersistOk \/ PersistRetry \/ PersistGiveUp \/ PersistAckLost
    PROVE  MoneyInv'
  <1>1. pc = "persist" /\ UNCHANGED <<sent, at>>
    BY DEF PersistOk, PersistRetry, PersistGiveUp, PersistAckLost, NextBalance
  <1>2. Pool \in Pools /\ cur \in Addrs /\ due[cur] \in Nat /\ Pool' = Pool
    BY <1>1, PoolInTurn DEF MoneyInv, TypeOK, Pool
  <1>3. CASE PersistRetry
    BY <1>2, <1>3 DEF PersistRetry, db, MoneyInv, Paying, InFlight
  <1>4. CASE NextBalance
    <2>1. pc' = "send" /\ \A b \in Addrs : due'[b] = IF b = cur THEN 0 ELSE due[b]
      BY <1>2, <1>4 DEF NextBalance, MoneyInv, TypeOK
    <2>2. \A p \in Pools, b \in Addrs :
             /\ InFlight(p, b)' = 0 /\ InFlight(p, b) = IF p = Pool /\ b = cur THEN due[cur] ELSE 0
             /\ debits[p][b] \in Nat /\ sent[p][b] \in Nat /\ balance[p][b] \in Int
      <3>1. pc = "persist" /\ pc' # "persist"
        BY <1>1, <2>1
      <3>2. \A p \in Pools, b \in Addrs :
               debits[p][b] \in Nat /\ sent[p][b] \in Nat /\ balance[p][b] \in Int
        BY DEF MoneyInv, TypeOK
      <3> QED
        BY <3>1, <3>2 DEF InFlight
    <2>3. CASE PersistOk
      <3>1. /\ faults' = faults
            /\ \A p \in Pools, a \in Addrs :
                 /\ balance'[p][a] = IF p = Pool /\ a = cur THEN 0 ELSE balance[p][a]
                 /\ debits'[p][a] = IF p = Pool /\ a = cur THEN debits[p][a] + due[cur]
                                                            ELSE debits[p][a]
        BY <1>1, <2>3, ResetShape DEF PersistOk
      <3>2. \A p \in Pools, a \in Addrs : balance'[p][a] >= 0
        BY <3>1 DEF MoneyInv
      <3>3. \A b \in Addrs : due'[b] \in {0, balance'[Pool][b]}
        BY <1>1, <1>2, <2>1, <3>1 DEF MoneyInv, Paying
      <3>4. \A p \in Pools, a \in Addrs :
               /\ debits'[p][a] + InFlight(p, a)' <= sent'[p][a]
               /\ faults' = 0 => sent'[p][a] = debits'[p][a] + InFlight(p, a)'
        BY <1>1, <1>2, <2>2, <3>1 DEF MoneyInv
      <3> QED
        BY <1>2, <2>1, <3>2, <3>3, <3>4 DEF MoneyInv, Paying
    <2>4. CASE PersistGiveUp
      <3>1. faults' # 0 /\ UNCHANGED <<balance, debits>>
        BY <2>4 DEF PersistGiveUp, db, MoneyInv, TypeOK
      <3> QED
        BY <1>1, <1>2, <2>1, <2>2, <3>1 DEF MoneyInv, Paying
    <2> QED
      BY <1>3, <2>3, <2>4 DEF PersistAckLost, MoneyInv
  <1> QED
    BY <1>3, <1>4 DEF PersistOk, PersistGiveUp, PersistAckLost, MoneyInv

LEMMA MoneyStep == MoneyInv /\ [Next]_vars => MoneyInv'
  <1> SUFFICES ASSUME MoneyInv, [Next]_vars PROVE MoneyInv'
    OBVIOUS
  <1>1. TypeOK' /\ faults \in Nat
    BY TypeStep, BoundsAssumption DEF MoneyInv, TypeOK
  <1>2. ASSUME NEW p \in Pools, NEW h \in Heights,
               Reorg(p, h) \/ \E f \in Finders : RecordBlock(p, h, f)
        PROVE  MoneyInv'
    <2>1. UNCHANGED <<balance, debits, sent, faults, pc, at, due, cur>>
      BY <1>2 DEF Reorg, RecordBlock, db, thread
    <2> QED
      BY <1>1, <2>1 DEF MoneyInv, Paying, Pool, InFlight
  <1>3. ASSUME NEW p \in Pools, Extend(p) PROVE MoneyInv'
    <2>1. UNCHANGED <<balance, debits, sent, faults, pc, at, due, cur>>
      BY <1>3 DEF Extend, db, thread
    <2> QED
      BY <1>1, <2>1 DEF MoneyInv, Paying, Pool, InFlight
  <1>4. CASE StartRound \/ ReadPending \/ ClassifyBlocks \/ ClassifyNoLatest \/ BlocksDone \/ AbortPool
             \/ PayoutDone
    <2>1. /\ UNCHANGED <<balance, debits, sent, faults>> /\ pc # "persist"
          /\ pc' \in {"wait", "read", "classify", "apply", "balances"}
      BY <1>4 DEF StartRound, ReadPending, ClassifyBlocks, ClassifyNoLatest, BlocksDone, AbortPool,
                  PayoutDone, NextPool, db
    <2> QED
      BY <1>1, <2>1, MoneyStands DEF Paying
  <1>5. CASE PeersOk
    BY <1>1, <1>5, MoneyStands DEF PeersOk, db, Paying
  <1>6. ASSUME NEW a \in Addrs, SendRefused(a) PROVE MoneyInv'
    <2>1. \A b \in Addrs : due'[b] \in {0, due[b]}
      BY <1>6 DEF SendRefused, MoneyInv, TypeOK
    <2> QED
      BY <1>1, <1>6, <2>1, MoneyStands DEF SendRefused, db, Paying
  <1>7. CASE ReadBalances
    <2>1. /\ UNCHANGED <<balance, debits, sent, faults, at>> /\ pc = "balances" /\ pc' = "peers"
          /\ \A a \in Addrs : due'[a] \in {0, balance[Pool][a]}
      BY <1>7 DEF ReadBalances, db
    <2>2. \A p \in Pools, a \in Addrs : InFlight(p, a) = 0 /\ InFlight(p, a)' = 0
      BY <2>1 DEF InFlight
    <2> QED
      BY <1>1, <2>1, <2>2 DEF MoneyInv, Paying, Pool
  <1>8. CASE Crash
    <2>1. UNCHANGED <<balance, debits, sent>> /\ pc' = "wait" /\ faults' # 0
      BY <1>1, <1>8 DEF Crash, db
    <2>2. \A p \in Pools, a \in Addrs :
             /\ InFlight(p, a)' = 0 /\ InFlight(p, a) >= 0
             /\ debits[p][a] \in Nat /\ sent[p][a] \in Nat /\ InFlight(p, a) \in Nat
      BY <2>1 DEF InFlight, MoneyInv, TypeOK
    <2> QED
      BY <1>1, <2>1, <2>2 DEF MoneyInv, Paying
  <1>9. CASE UNCHANGED vars
    BY <1>1, <1>9 DEF vars, MoneyInv, Paying, Pool, InFlight
  <1> QED
    BY <1>1, <1>2, <1>3, <1>4, <1>5, <1>6, <1>7, <1>8, <1>9, MoneyCredited, MoneySent, MoneyPersisted
    DEF Next, Environment, ThreadStep, ApplyBlockAckLost, MoneyInv

LEMMA MoneyAlways == Spec /\ ~AckLoss => []MoneyInv
  BY MoneyInit, MoneyStep, PTL DEF Spec

\* Nothing is struck off a balance that was not transferred before, nor what is
\* not owed; and without a fault the books name every transfer but the one in
\* flight (PayoutHandlerBase.PersistPayments).
THEOREM TransfersAreRecorded == Spec /\ ~AckLoss => []TransfersRecorded
  <1>1. ASSUME MoneyInv PROVE TransfersRecorded
    <2> SUFFICES ASSUME NEW p \in Pools, NEW a \in Addrs
                 PROVE  /\ balance[p][a] >= 0
                        /\ debits[p][a] <= sent[p][a]
                        /\ faults = 0 => sent[p][a] = debits[p][a] + InFlight(p, a)
      BY DEF TransfersRecorded
    <2>1. debits[p][a] \in Nat /\ sent[p][a] \in Nat /\ InFlight(p, a) \in Nat
      BY <1>1 DEF MoneyInv, TypeOK, InFlight
    <2> QED
      BY <1>1, <2>1 DEF MoneyInv
  <1> QED
    BY <1>1, MoneyAlways, PTL

\* The blocks of a pool are credited in the transaction that confirms their rows
\* (PayoutManager.UpdatePoolBalancesAsync).
LEMMA ConfirmsOne ==
    ASSUME CreditInv, pc = "apply", NEW h \in Heights, UpdatePoolBalance(h)
    PROVE  /\ Pool \in Pools /\ h \notin ConfirmedHeights(Pool)
           /\ \A p \in Pools : ConfirmedHeights(p)' =
                 IF p = Pool /\ work[h] = "confirmed" THEN ConfirmedHeights(p) \cup {h}
                                                       ELSE ConfirmedHeights(p)
  <1>1. PICK q \in Pools : q = Pool
    BY PoolInTurn DEF CreditInv
  <1>2. PICK f \in Finders : status[q][h][f] = "pending"
    BY <1>1 DEF UpdatePoolBalance, Listed, CreditInv, WorkPending
  <1>3. \A g \in Finders : status[q][h][g] \in {"none", "pending"}
    BY <1>2 DEF CreditInv, RowsTogether
  <1>4. \A p \in Pools, k \in Heights, g \in Finders :
           status'[p][k][g] # status[p][k][g] => p = q /\ k = h
    BY <1>1, UpdateStep
  <1>5. \A g \in Finders :
           status'[q][h][g] = IF status[q][h][g] # "none" THEN work[h] ELSE status[q][h][g]
    BY DEF UpdatePoolBalance, UpdateBlock
  <1>6. h \notin ConfirmedHeights(q)
    BY <1>3 DEF ConfirmedHeights
  <1>7. ASSUME NEW p \in Pools, NEW k \in Heights, ~(p = q /\ k = h)
        PROVE  k \in ConfirmedHeights(p)' <=> k \in ConfirmedHeights(p)
    BY <1>4, <1>7 DEF ConfirmedHeights
  <1>8. h \in ConfirmedHeights(q)' <=> work[h] = "confirmed"
    <2>1. status'[q][h][f] = work[h]
      BY <1>2, <1>5
    <2>2. \A g \in Finders : status'[q][h][g] \in {"none", work[h]}
      BY <1>3, <1>5
    <2> QED
      BY <2>1, <2>2 DEF ConfirmedHeights
  <1>9. \A p \in Pools : ConfirmedHeights(p) \subseteq Heights /\ ConfirmedHeights(p)' \subseteq Heights
    BY DEF ConfirmedHeights
  <1>10. ASSUME NEW p \in Pools
         PROVE  ConfirmedHeights(p)' = IF p = q /\ work[h] = "confirmed"
                                       THEN ConfirmedHeights(p) \cup {h} ELSE ConfirmedHeights(p)
    BY <1>6, <1>7, <1>8, <1>9
  <1> QED
    BY <1>1, <1>6, <1>10

Credited == [p \in Pools |-> ConfirmedHeights(p)]

\* Rows that are not settled now leave the credited blocks alone.
LEMMA SameCredited ==
    ASSUME \A p \in Pools : ConfirmedHeights(p)' = ConfirmedHeights(p)
    PROVE  Credited' = Credited
  BY DEF Credited

LEMMA LedgerStep ==
    CreditInv /\ MoneyInv /\ [Next]_vars => [Promise!Next]_<<balance, debits, Credited>>
  <1> SUFFICES ASSUME CreditInv, MoneyInv, [Next]_vars
               PROVE  [Promise!Next]_<<balance, debits, Credited>>
    OBVIOUS
  <1>1. TypeOK'
    BY TypeStep DEF CreditInv
  <1>2. ASSUME NEW h \in Heights, ApplyBlock(h)
        PROVE  [Promise!Next]_<<balance, debits, Credited>>
    <2>1. pc = "apply" /\ UpdatePoolBalance(h) /\ debits' = debits
      BY <1>2 DEF ApplyBlock, UpdatePoolBalance
    <2>2. PICK q \in Pools :
             /\ q = Pool /\ h \notin ConfirmedHeights(q)
             /\ \A p \in Pools : ConfirmedHeights(p)' =
                   IF p = q /\ work[h] = "confirmed" THEN ConfirmedHeights(p) \cup {h}
                                                      ELSE ConfirmedHeights(p)
      BY <1>1, <2>1, ConfirmsOne
    <2>3. CASE work[h] = "confirmed"
      <3>1. h \notin Credited[q] /\ Credited' = [Credited EXCEPT ![q] = @ \cup {h}]
        BY <2>2, <2>3 DEF Credited
      <3>2. balance' = [balance EXCEPT ![q] = [a \in Addrs |-> @[a] + Credit[q][h][a]]]
        BY <2>1, <2>2, <2>3 DEF UpdatePoolBalance, DistributeReward, AddAmount
      <3>3. Promise!CreditBlock(q, h)
        BY <2>1, <3>1, <3>2 DEF Promise!CreditBlock, Credited
      <3> QED
        BY <3>3 DEF Promise!Next
    <2>4. CASE work[h] # "confirmed"
      BY <2>1, <2>2, <2>4, SameCredited DEF UpdatePoolBalance
    <2> QED
      BY <2>3, <2>4
  <1>3. CASE PersistOk
    <2>1. pc = "persist" /\ ResetBalance /\ status' = status
      BY <1>3 DEF PersistOk, ResetBalance
    <2>2. PICK q \in Pools, a \in Addrs :
             /\ q = Pool /\ a = cur /\ balance[q][a] = due[cur] /\ due[cur] \in Nat /\ due[cur] > 0
             /\ \A p \in Pools, b \in Addrs :
                   balance'[p][b] = IF p = q /\ b = a THEN 0 ELSE balance[p][b]
      BY <2>1, ResetShape DEF MoneyInv
    <2>3. debits' = [debits EXCEPT ![q][a] = @ + balance[q][a]]
      BY <2>1, <2>2 DEF ResetBalance
    <2>4. balance' = [balance EXCEPT ![q][a] = 0]
      <3> DEFINE new == [balance EXCEPT ![q] = [balance[q] EXCEPT ![a] = 0]]
      <3>1. /\ balance \in [Pools -> [Addrs -> Int]] /\ balance' \in [Pools -> [Addrs -> Int]]
        BY <1>1 DEF CreditInv, TypeOK
      <3>2. /\ new \in [Pools -> [Addrs -> Int]]
            /\ \A p \in Pools, b \in Addrs : new[p][b] = IF p = q /\ b = a THEN 0 ELSE balance[p][b]
        BY <3>1
      <3> HIDE DEF new
      <3>3. \A p \in Pools : balance'[p] = new[p]
        BY <2>2, <3>1, <3>2
      <3>4. balance' = new
        BY <3>1, <3>2, <3>3
      <3> QED
        BY <3>4 DEF new
    <2>5. Credited' = Credited
      BY <2>1, SameCredited DEF ConfirmedHeights
    <2>6. Promise!PayAccount(q, a)
      BY <2>2, <2>3, <2>4, <2>5 DEF Promise!PayAccount, Credited
    <2> QED
      BY <2>6 DEF Promise!Next
  <1>4. ASSUME NEW p \in Pools, NEW h \in Heights, NEW f \in Finders, RecordBlock(p, h, f)
        PROVE  UNCHANGED <<balance, debits, Credited>>
    <2>1. UNCHANGED <<balance, debits>>
      BY <1>4 DEF RecordBlock
    <2>2. Credited' = Credited
      BY <1>4, RecordShape, SameCredited DEF CreditInv
    <2> QED
      BY <2>1, <2>2
  <1>5. CASE UNCHANGED <<status, balance, debits>>
    <2>1. Credited' = Credited
      BY <1>5, SameCredited DEF ConfirmedHeights
    <2> QED
      BY <1>5, <2>1
  <1>6. CASE UNCHANGED vars
    BY <1>5, <1>6 DEF vars
  <1>7. ASSUME NEW p \in Pools, NEW h \in Heights, Reorg(p, h)
        PROVE  UNCHANGED <<status, balance, debits>>
    BY <1>7 DEF Reorg, db
  <1>8. ASSUME NEW p \in Pools, Extend(p) PROVE UNCHANGED <<status, balance, debits>>
    BY <1>8 DEF Extend, db
  <1>9. CASE StartRound \/ ReadPending \/ ClassifyBlocks \/ ClassifyNoLatest \/ BlocksDone \/ AbortPool
             \/ ReadBalances \/ PeersOk \/ PayoutDone \/ PersistRetry \/ PersistGiveUp \/ Crash
    BY <1>5, <1>9
    DEF StartRound, ReadPending, ClassifyBlocks, ClassifyNoLatest, BlocksDone, AbortPool,
        ReadBalances, PeersOk, PayoutDone, PersistRetry, PersistGiveUp, Crash, db
  <1>10. ASSUME NEW a \in Addrs, SendOk(a) \/ SendRefused(a) \/ SendLost(a)
         PROVE  UNCHANGED <<status, balance, debits>>
    BY <1>10 DEF SendOk, SendRefused, SendLost, db
  <1>11. ~PersistAckLost /\ \A h \in Heights : ~ApplyBlockAckLost(h)
    BY DEF MoneyInv, PersistAckLost, ApplyBlockAckLost
  <1> QED
    BY <1>2, <1>3, <1>4, <1>5, <1>6, <1>7, <1>8, <1>9, <1>10, <1>11
    DEF Next, Environment, ThreadStep

LEMMA LedgerInit == Init => Promise!Init
  BY DEF Init, Promise!Init, ConfirmedHeights

\* The whole of payment processing does nothing but credit each block once and
\* strike off accounts in full: it implements Ledger, for every number of pools,
\* blocks, addresses, retries, crashes and lost transfers, if blocks are credited
\* once and no answer to a COMMIT is lost (PayoutManager, AionPayoutHandler).
THEOREM PaymentsIsALedger == (Sound \/ OneCandidate) /\ ~AckLoss /\ Spec => ImplementsLedger
  <1>1. Init => Promise!Init
    BY LedgerInit
  <1>2. CreditInv /\ MoneyInv /\ [Next]_vars => [Promise!Next]_(Promise!vars)
    BY LedgerStep DEF Promise!vars, Credited
  <1> QED
    BY <1>1, <1>2, CreditsAlways, MoneyAlways, PTL DEF Spec, Promise!Spec, ImplementsLedger

-----------------------------------------------------------------------------
(* The books balance: a sum over the confirmed blocks changes by the reward*)
(* of a block exactly when that block is credited.                         *)

LEMMA HeightsFinite == IsFiniteSet(Heights)
  <1> DEFINE F == [i \in DOMAIN PoolSeq |-> HeightsOf(PoolSeq[i])]
             G == {HeightsOf(p) : p \in Pools}
  <1>1. IsFiniteSet(DOMAIN PoolSeq)
    <2>1. Len(PoolSeq) \in Nat /\ DOMAIN PoolSeq = 1 .. Len(PoolSeq)
      BY PoolsAssumption
    <2> QED
      BY <2>1, FS_Interval
  <1>2. F \in Surjection(DOMAIN PoolSeq, G)
    BY DEF Surjection, Pools
  <1>3. ASSUME NEW p \in Pools PROVE IsFiniteSet(HeightsOf(p))
    <2>1. Base[p] + 1 \in Int /\ Base[p] + MaxBlocks \in Int
      BY BaseAssumption, BoundsAssumption
    <2> QED
      BY <2>1, FS_Interval DEF HeightsOf
  <1>4. \A T \in G : IsFiniteSet(T)
    BY <1>3
  <1> HIDE DEF F, G
  <1>5. IsFiniteSet(G)
    BY <1>1, <1>2, FS_Surjection
  <1>6. IsFiniteSet(UNION G)
    BY <1>4, <1>5, FS_UNION
  <1> QED
    BY <1>6 DEF Heights, G

\* What address a earns with the blocks S of pool p.
Earned(p, a, S) == SumFunction([h \in S |-> Credit[p][h][a]])

LEMMA EarnedMore ==
    ASSUME NEW p \in Pools, NEW a \in Addrs, NEW S \in SUBSET Heights, NEW h \in Heights, h \notin S
    PROVE  /\ Earned(p, a, S) \in Int
           /\ Earned(p, a, S \cup {h}) = Earned(p, a, S) + Credit[p][h][a]
  <1> DEFINE f == [k \in S |-> Credit[p][k][a]]
             g == [k \in S \cup {h} |-> Credit[p][k][a]]
  <1>1. IsFiniteSet(S)
    BY HeightsFinite, FS_Subset
  <1>2. \A k \in Heights : Credit[p][k][a] \in Int
    BY CreditAssumption
  <1>3. \A k \in S : f[k] \in Int /\ f[k] = g[k]
    BY <1>2
  <1>4. \A k \in S \cup {h} : g[k] \in Int
    BY <1>2
  <1>5. Earned(p, a, S) = SumFunctionOnSet(f, S) /\ Earned(p, a, S \cup {h}) = SumFunctionOnSet(g, S \cup {h})
    BY DEF Earned, SumFunction
  <1>6. g[h] = Credit[p][h][a]
    OBVIOUS
  <1> HIDE DEF f, g
  <1> QED
    BY <1>1, <1>3, <1>4, <1>5, <1>6, SumType, SumSame, SumAdd

LEMMA BooksApply ==
    ASSUME CreditInv, BooksBalance, pc = "apply", NEW h \in Heights, UpdatePoolBalance(h)
    PROVE  BooksBalance'
  <1>1. /\ Pool \in Pools /\ h \notin ConfirmedHeights(Pool)
        /\ \A p \in Pools : ConfirmedHeights(p)' =
              IF p = Pool /\ work[h] = "confirmed" THEN ConfirmedHeights(p) \cup {h}
                                                    ELSE ConfirmedHeights(p)
    BY ConfirmsOne
  <1>2. paid' = paid /\ balance \in [Pools -> [Addrs -> Int]] /\ paid \in [Pools -> [Addrs -> Nat]]
    BY DEF UpdatePoolBalance, CreditInv, TypeOK
  <1>3. ASSUME NEW p \in Pools, NEW a \in Addrs \ Recipients
        PROVE  balance'[p][a] + paid'[p][a] = Earned(p, a, ConfirmedHeights(p)')
    <2>1. balance[p][a] + paid[p][a] = Earned(p, a, ConfirmedHeights(p))
      BY DEF BooksBalance, Earned
    <2>2. CASE p = Pool /\ work[h] = "confirmed"
      <3>1. balance' = [balance EXCEPT ![p] = [b \in Addrs |-> balance[p][b] + Credit[p][h][b]]]
        BY <2>2 DEF UpdatePoolBalance, DistributeReward, AddAmount
      <3>2. balance'[p][a] = balance[p][a] + Credit[p][h][a] /\ Credit[p][h][a] \in Int
        <4>1. Credit[p][h][a] \in Int
          BY CreditAssumption
        <4> QED
          BY <1>2, <3>1, <4>1
      <3>3. /\ ConfirmedHeights(p)' = ConfirmedHeights(p) \cup {h}
            /\ ConfirmedHeights(p) \in SUBSET Heights /\ h \notin ConfirmedHeights(p)
        BY <1>1, <2>2 DEF ConfirmedHeights
      <3>4. Earned(p, a, ConfirmedHeights(p) \cup {h})
              = Earned(p, a, ConfirmedHeights(p)) + Credit[p][h][a]
        BY <3>3, EarnedMore
      <3> QED
        BY <1>2, <2>1, <3>2, <3>3, <3>4
    <2>3. CASE ~(p = Pool /\ work[h] = "confirmed")
      <3>1. CASE work[h] = "confirmed"
        <4>1. balance' = [balance EXCEPT ![Pool] = [b \in Addrs |-> balance[Pool][b] + Credit[Pool][h][b]]]
          BY <3>1 DEF UpdatePoolBalance, DistributeReward, AddAmount
        <4> QED
          BY <1>1, <1>2, <2>1, <2>3, <3>1, <4>1
      <3>2. CASE work[h] # "confirmed"
        <4>1. balance' = balance
          BY <3>2 DEF UpdatePoolBalance
        <4> QED
          BY <1>1, <1>2, <2>1, <2>3, <4>1
      <3> QED
        BY <3>1, <3>2
    <2> QED
      BY <2>2, <2>3
  <1> QED
    BY <1>3 DEF BooksBalance, Earned

\* What is struck off the balance is a payment, also when it is struck off twice
\* (PayoutHandlerBase.PersistPayments).
LEMMA BooksReset ==
    ASSUME TypeOK, BooksBalance, pc = "persist", ResetBalance
    PROVE  BooksBalance'
  <1>1. /\ Pool \in Pools /\ cur \in Addrs /\ due[cur] \in Nat
        /\ balance \in [Pools -> [Addrs -> Int]] /\ paid \in [Pools -> [Addrs -> Nat]]
    BY PoolInTurn DEF TypeOK
  <1>2. \A p \in Pools : ConfirmedHeights(p)' = ConfirmedHeights(p)
    BY DEF ResetBalance, ConfirmedHeights
  <1> DEFINE amount == [NothingDue EXCEPT ![cur] = -due[cur]]
  <1>3. \A a \in Addrs : amount[a] = IF a = cur THEN -due[cur] ELSE 0
    BY <1>1 DEF NothingDue
  <1> HIDE DEF amount
  <1>4. balance' = [balance EXCEPT ![Pool] = [a \in Addrs |-> balance[Pool][a] + amount[a]]]
    BY DEF ResetBalance, AddAmount, amount
  <1>5. ASSUME NEW p \in Pools, NEW a \in Addrs \ Recipients
        PROVE  balance'[p][a] + paid'[p][a] = balance[p][a] + paid[p][a]
    <2>1. balance[p][a] \in Int /\ paid[p][a] \in Nat
      BY <1>1
    <2>2. CASE p = Pool /\ a = cur
      <3>1. balance'[p][a] = balance[p][a] - due[cur]
        BY <1>1, <1>3, <1>4, <2>1, <2>2
      <3>2. paid' = [paid EXCEPT ![Pool][cur] = @ + due[cur]]
        BY <2>2 DEF ResetBalance
      <3>3. paid'[p][a] = paid[p][a] + due[cur]
        BY <1>1, <2>2, <3>2, SumTableShape
      <3> QED
        BY <1>1, <2>1, <3>1, <3>3
    <2>3. CASE ~(p = Pool /\ a = cur)
      <3>1. balance'[p][a] = balance[p][a]
        BY <1>1, <1>3, <1>4, <2>1, <2>3
      <3>2. paid' = paid \/ paid' = [paid EXCEPT ![Pool][cur] = @ + due[cur]]
        BY DEF ResetBalance
      <3>3. paid'[p][a] = paid[p][a]
        BY <1>1, <2>3, <3>2, SumTableShape
      <3> QED
        BY <3>1, <3>3
    <2> QED
      BY <2>2, <2>3
  <1> QED
    BY <1>2, <1>5 DEF BooksBalance

\* The chain, the rows that are not confirmed and the thread's locals are not in
\* the books.
LEMMA BooksStand ==
    ASSUME BooksBalance, UNCHANGED <<balance, paid>>,
           \A p \in Pools : ConfirmedHeights(p)' = ConfirmedHeights(p)
    PROVE  BooksBalance'
  BY DEF BooksBalance

LEMMA BooksRecord ==
    ASSUME TypeOK, BooksBalance, NEW q \in Pools, NEW h \in Heights, NEW f \in Finders,
           RecordBlock(q, h, f)
    PROVE  BooksBalance'
  <1>1. \A p \in Pools : ConfirmedHeights(p)' = ConfirmedHeights(p)
    BY RecordShape
  <1> QED
    BY <1>1, BooksStand DEF RecordBlock

LEMMA BooksInit == Init => BooksBalance
  <1> SUFFICES ASSUME Init, NEW p \in Pools, NEW a \in Addrs
               PROVE  balance[p][a] + paid[p][a] = Earned(p, a, ConfirmedHeights(p))
    BY DEF BooksBalance, Earned
  <1>1. ConfirmedHeights(p) = {} /\ balance[p][a] = 0 /\ paid[p][a] = 0
    BY DEF Init, ConfirmedHeights
  <1>2. Earned(p, a, {}) = 0
    BY SumEmpty DEF Earned, SumFunction
  <1> QED
    BY <1>1, <1>2

LEMMA BooksStep == CreditInv /\ BooksBalance /\ [Next]_vars => BooksBalance'
  <1> SUFFICES ASSUME CreditInv, BooksBalance, [Next]_vars PROVE BooksBalance'
    OBVIOUS
  <1>1. TypeOK /\ TypeOK'
    BY TypeStep DEF CreditInv
  <1>2. ASSUME NEW p \in Pools, NEW h \in Heights, NEW f \in Finders, RecordBlock(p, h, f)
        PROVE  BooksBalance'
    BY <1>1, <1>2, BooksRecord
  <1>3. ASSUME NEW h \in Heights, ApplyBlock(h) \/ ApplyBlockAckLost(h) PROVE BooksBalance'
    BY <1>1, <1>3, BooksApply DEF ApplyBlock, ApplyBlockAckLost
  <1>4. CASE PersistOk \/ PersistAckLost
    BY <1>1, <1>4, BooksReset DEF PersistOk, PersistAckLost
  <1>5. CASE UNCHANGED <<status, balance, paid>>
    BY <1>5, BooksStand DEF ConfirmedHeights
  <1>6. ASSUME NEW p \in Pools, Extend(p) \/ \E h \in Heights : Reorg(p, h)
        PROVE  UNCHANGED <<status, balance, paid>>
    BY <1>6 DEF Extend, Reorg, db
  <1>7. ASSUME \/ StartRound \/ ReadPending \/ ClassifyBlocks \/ ClassifyNoLatest \/ BlocksDone
               \/ AbortPool \/ ReadBalances \/ PeersOk \/ PayoutDone \/ PersistRetry \/ PersistGiveUp
               \/ Crash \/ UNCHANGED vars
        PROVE  UNCHANGED <<status, balance, paid>>
    BY <1>7 DEF StartRound, ReadPending, ClassifyBlocks, ClassifyNoLatest, BlocksDone, AbortPool,
                ReadBalances, PeersOk, PayoutDone, PersistRetry, PersistGiveUp, Crash, vars, db
  <1>8. ASSUME NEW a \in Addrs, SendOk(a) \/ SendRefused(a) \/ SendLost(a)
        PROVE  UNCHANGED <<status, balance, paid>>
    BY <1>8 DEF SendOk, SendRefused, SendLost, db
  <1> QED
    BY <1>2, <1>3, <1>4, <1>5, <1>6, <1>7, <1>8 DEF Next, Environment, ThreadStep

\* What a miner is owed and what he was paid by the books is his part in the
\* confirmed blocks, for every number of pools, blocks and addresses, also when
\* answers to COMMIT are lost (BalanceRepository.AddAmount, PersistPayments).
THEOREM BooksAlwaysBalance == (Sound \/ OneCandidate) /\ Spec => []BooksBalance
  BY CreditsAlways, BooksInit, BooksStep, PTL DEF Spec
=============================================================================
