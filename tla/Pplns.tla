-------------------------------- MODULE Pplns --------------------------------
(***************************************************************************)
(* PPLNSPaymentScheme: what the miners get of a block.  The shares are read*)
(* page by page, from the time of the block backwards, until their scores  *)
(* fill the window; the rewards are credited and the shares that are older *)
(* than the window are deleted in one transaction.  The pages are read on  *)
(* connections of their own, and meanwhile the recorder inserts shares,    *)
(* late ones among them.                                                   *)
(*                                                                         *)
(* Scores are integers, and an amount of a reward R is kept as a multiple  *)
(* of R / Window, so that nothing is rounded.                              *)
(***************************************************************************)
EXTENDS Integers, Sequences, FiniteSets, SequencesExt

CONSTANTS
    Shares, Miners,
    MaxTime,     \* bound: time stamps
    MaxScore,    \* bound: difficulty of a share / difficulty of the network
    Window,      \* PayoutSchemeConfig.Factor
    PageSize,    \* 50000 in the code
    NumBlocks,   \* bound: blocks, numbered by height
    Logs,        \* what the shares may be: [created, score, miner]
    Finds,       \* what the blocks may be: [created, reward]
    MaxLate,     \* bound: shares that are not stored at the start
    MaxFaults    \* bound: reads that fail for good, and transactions

Times == 1 .. MaxTime
Blocks == 1 .. NumBlocks
Null == 0

ASSUME NumbersAssumption ==
    /\ MaxTime \in Nat /\ MaxScore \in Nat /\ NumBlocks \in Nat /\ MaxLate \in Nat /\ MaxFaults \in Nat
    /\ Window \in Nat \ {0} /\ PageSize \in Nat \ {0}
ASSUME SharesAssumption == IsFiniteSet(Shares) /\ IsFiniteSet(Miners)
ASSUME LogsAssumption ==
    /\ Logs \subseteq [Shares -> [created : Times, score : 0 .. MaxScore, miner : Miners]]
    /\ Finds \subseteq [Blocks -> [created : Times, reward : Nat]]

VARIABLES
    log, found,   \* the shares and the blocks, chosen once
    table,        \* the rows of shares
    gone,         \* history: the shares that were deleted
    mature,       \* blocks up to this one are deep enough to be confirmed
    confirmed, orphaned,   \* the blocks that are not pending any more
    changes,      \* changes[b]: the rows of balance_changes for block b, by miner
    todo, pc, blk,                         \* the turn of the pool, and the block it is at
    before, inclusive, page, last,         \* paging
    score, remaining, rewards, cutOff, done,  \* locals of CalculateRewards
    counted, ends, there,   \* history: shares counted, time stamps at which a full page
                            \* ended, and shares stored ever since the calculation began
    faults

given == <<log, found>>
db == <<table, gone, confirmed, orphaned, changes>>
locals == <<before, inclusive, page, last, score, remaining, rewards, cutOff, done>>
history == <<counted, ends, there>>
vars == <<given, db, mature, todo, pc, blk, locals, history, faults>>

Nothing == [m \in Miners |-> 0]
settled == confirmed \cup orphaned

Idle ==
    /\ pc' = "idle" /\ todo' = {} /\ blk' = Null
    /\ before' = Null /\ inclusive' = TRUE /\ page' = <<>> /\ last' = FALSE
    /\ score' = 0 /\ remaining' = 0 /\ rewards' = Nothing /\ cutOff' = Null /\ done' = FALSE
    /\ counted' = <<>> /\ ends' = {} /\ there' = {}

Init ==
    /\ log \in Logs /\ found \in Finds
    /\ \E late \in SUBSET Shares : Cardinality(late) <= MaxLate /\ table = Shares \ late
    /\ gone = {} /\ mature = 0 /\ confirmed = {} /\ orphaned = {}
    /\ changes = [b \in Blocks |-> Nothing]
    /\ pc = "idle" /\ todo = {} /\ blk = Null
    /\ before = Null /\ inclusive = TRUE /\ page = <<>> /\ last = FALSE
    /\ score = 0 /\ remaining = 0 /\ rewards = Nothing /\ cutOff = Null /\ done = FALSE
    /\ counted = <<>> /\ ends = {} /\ there = {}
    /\ faults = 0

-----------------------------------------------------------------------------
(* The recorder, and the chain.                                            *)

Insert(s) ==
    /\ s \notin table \cup gone
    /\ table' = table \cup {s}
    /\ UNCHANGED <<given, gone, confirmed, orphaned, changes, mature, todo, pc, blk, locals, history,
                   faults>>

Mature ==
    /\ mature < NumBlocks
    /\ mature' = mature + 1
    /\ UNCHANGED <<given, db, todo, pc, blk, locals, history, faults>>

-----------------------------------------------------------------------------
(* The turn of the pool: PayoutManager.UpdatePoolBalancesAsync.            *)

\* The pending blocks are read and classified.
StartTurn ==
    /\ pc = "idle"
    /\ todo' = (1 .. mature) \ settled
    /\ pc' = "turn"
    /\ UNCHANGED <<given, db, mature, blk, locals, history, faults>>

EndTurn ==
    /\ pc = "turn" /\ todo = {}
    /\ Idle
    /\ UNCHANGED <<given, db, mature, faults>>

\* OrderBy(Created), which keeps the order of equal elements.
First(b) == /\ b \in todo
            /\ \A c \in todo : \/ found[b].created < found[c].created
                               \/ found[b].created = found[c].created /\ b <= c

\* The chain does not have the block: no rewards.
Orphan(b) ==
    /\ pc = "turn" /\ First(b)
    /\ orphaned' = orphaned \cup {b} /\ todo' = todo \ {b}
    /\ UNCHANGED <<given, table, gone, confirmed, changes, mature, pc, blk, locals, history, faults>>

\* CalculateRewards begins.
StartBlock(b) ==
    /\ pc = "turn" /\ First(b)
    /\ pc' = "calculate" /\ blk' = b
    /\ before' = found[b].created /\ inclusive' = TRUE
    /\ remaining' = found[b].reward * Window
    /\ there' = table
    /\ UNCHANGED <<given, db, mature, todo, page, last, score, rewards, cutOff, done,
                   counted, ends, faults>>

-----------------------------------------------------------------------------
(* Pages.                                                                  *)

Created(s) == log[s].created

Rows == {s \in table : Created(s) < before \/ (inclusive /\ Created(s) = before)}

\* ReadSharesBeforeCreated: the first PageSize rows ORDER BY created DESC; rows
\* of one time stamp come in any order.
Pages ==
    LET size == IF Cardinality(Rows) < PageSize THEN Cardinality(Rows) ELSE PageSize
    IN {p \in [1 .. size -> Rows] :
          /\ \A i, j \in 1 .. size : i < j => p[i] # p[j] /\ Created(p[i]) >= Created(p[j])
          /\ \A s \in Rows, i \in 1 .. size :
                (\A j \in 1 .. size : p[j] # s) => Created(p[i]) >= Created(s)}

\* Mutant: every page includes its upper end.
ReadPage_Inclusive ==
    /\ pc = "calculate" /\ page = <<>> /\ ~last /\ ~done
    /\ \E p \in Pages :
          /\ page' = p /\ last' = (Len(p) < PageSize)
          /\ before' = IF Len(p) < PageSize THEN before ELSE Created(p[Len(p)])
          /\ ends' = IF Len(p) < PageSize THEN ends ELSE ends \cup {Created(p[Len(p)])}
    /\ UNCHANGED <<given, db, mature, todo, pc, blk, inclusive, score, remaining, rewards, cutOff,
                   done, counted, there, faults>>

\* A page that is not full is the last one.
ReadPage ==
    /\ pc = "calculate" /\ page = <<>> /\ ~last /\ ~done
    /\ \E p \in Pages :
          /\ page' = p /\ last' = (Len(p) < PageSize)
          /\ before' = IF Len(p) < PageSize THEN before ELSE Created(p[Len(p)])
          /\ ends' = IF Len(p) < PageSize THEN ends ELSE ends \cup {Created(p[Len(p)])}
    /\ inclusive' = FALSE
    /\ UNCHANGED <<given, db, mature, todo, pc, blk, score, remaining, rewards, cutOff,
                   done, counted, there, faults>>

-----------------------------------------------------------------------------
(* Rows.                                                                   *)

AtRow == pc = "calculate" /\ page # <<>> /\ ~done
Share == log[Head(page)]
Crosses == score + Share.score >= Window
Capped == IF Crosses THEN Window - score ELSE Share.score
Reward == Capped * found[blk].reward

\* Mutant: the last share of the window overdraws it like any other.
Overdrawn_AtEnd == remaining - Reward <= 0

Overdrawn == remaining - Reward <= 0 /\ ~Crosses

\* A share without a difficulty is passed over.
SkipRow ==
    /\ AtRow /\ Share.score = 0
    /\ page' = Tail(page)
    /\ UNCHANGED <<given, db, mature, todo, pc, blk, before, inclusive, last, score, remaining,
                   rewards, cutOff, done, history, faults>>

CountRow ==
    /\ AtRow /\ Share.score # 0 /\ ~Overdrawn
    /\ page' = Tail(page) /\ counted' = Append(counted, Head(page))
    /\ score' = score + Capped
    /\ remaining' = remaining - Reward
    /\ rewards' = [rewards EXCEPT ![Share.miner] = @ + Reward]
    /\ IF Crosses THEN cutOff' = Share.created /\ done' = TRUE ELSE UNCHANGED <<cutOff, done>>
    /\ UNCHANGED <<given, db, mature, todo, pc, blk, before, inclusive, last, ends, there, faults>>

\* "this should never happen": the exception ends the turn of the pool.
Overflow ==
    /\ AtRow /\ Share.score # 0 /\ Overdrawn
    /\ Idle
    /\ UNCHANGED <<given, db, mature, faults>>

-----------------------------------------------------------------------------
(* UpdateBalancesAsync, and the transaction around it.                     *)

Calculated == pc = "calculate" /\ (done \/ (last /\ page = <<>>))

\* Mutant: the share at the cut-off is deleted, too.
Discarded_CutOff == {s \in table : cutOff # Null /\ Created(s) <= cutOff}

Discarded == {s \in table : cutOff # Null /\ Created(s) < cutOff}

UpdateBalances ==
    /\ Calculated
    /\ changes' = [changes EXCEPT ![blk] = [m \in Miners |-> @[m] + rewards[m]]]
    /\ table' = table \ Discarded /\ gone' = gone \cup Discarded
    /\ confirmed' = confirmed \cup {blk}
    /\ pc' = "turn" /\ todo' = todo \ {blk} /\ blk' = Null
    /\ before' = Null /\ inclusive' = TRUE /\ page' = <<>> /\ last' = FALSE
    /\ score' = 0 /\ remaining' = 0 /\ rewards' = Nothing /\ cutOff' = Null /\ done' = FALSE
    /\ counted' = <<>> /\ ends' = {} /\ there' = {}
    /\ UNCHANGED <<given, orphaned, mature, faults>>

\* A page could not be read in five tries, the transaction failed, or the
\* process died: all is rolled back, and the turn is over.
Abort ==
    /\ pc # "idle" /\ faults < MaxFaults
    /\ faults' = faults + 1
    /\ Idle
    /\ UNCHANGED <<given, db, mature>>

-----------------------------------------------------------------------------
Turn ==
    \/ StartTurn \/ EndTurn
    \/ \E b \in Blocks : Orphan(b) \/ StartBlock(b)
    \/ ReadPage \/ SkipRow \/ CountRow \/ Overflow \/ UpdateBalances

Next == Turn \/ Abort \/ Mature \/ \E s \in Shares : Insert(s)

Spec == Init /\ [][Next]_vars

\* The payment thread goes on, and reads and transactions do not fail for ever.
FairSpec == Spec /\ WF_vars(Turn)

-----------------------------------------------------------------------------
(* Properties.                                                             *)

Worth == [s \in Shares |-> log[s].score]
ScoreOf(S) == SumFunctionOnSet(Worth, S)

\* The miner of the last share counted gets what is left of the window.
WindowIsShared ==
    /\ IsInjective(counted)
    /\ SumFunction(rewards) + remaining = found[blk].reward * Window
    /\ done => remaining = 0 /\ ScoreOf(ToSet(counted)) >= Window
    /\ \A m \in Miners :
          LET own == {s \in ToSet(counted) : log[s].miner = m} IN
          rewards[m] = found[blk].reward *
              IF done /\ Last(counted) \in own
              THEN Window - ScoreOf(ToSet(counted) \ own) ELSE ScoreOf(own)

\* The next page starts before the last time stamp of a full one: shares of
\* that time stamp that did not fit on it are passed over.
NoShareIsSkipped ==
    \A s \in there \ ToSet(counted) :
        \/ log[s].score = 0
        \/ Created(s) > found[blk].created
        \/ done /\ Created(s) <= cutOff
        \/ Created(s) \in ends

\* However the shares fall on pages and whatever is inserted between two reads,
\* no share counts twice, none within the window is left out unless its time
\* stamp is that of the end of a page, and together they earn as much of the
\* block as they fill of the window, all of it if they fill the window
\* (PPLNSPaymentScheme.CalculateRewards).
RewardsFollowWindow == Calculated => WindowIsShared /\ NoShareIsSkipped

\* The shares that are deleted with one block are not needed for another: each
\* is older than a full window of the blocks still to be credited.  Not so for
\* a block whose time stamp is older than that of one confirmed before it
\* (PPLNSPaymentScheme.UpdateBalancesAsync, PayoutManager.UpdatePoolBalancesAsync).
WindowsAreKept ==
    \A s \in gone, b \in Blocks \ settled :
        (\A c \in confirmed : found[c].created <= found[b].created) =>
            ScoreOf({x \in table \cup gone :
                        Created(s) < Created(x) /\ Created(x) <= found[b].created}) >= Window

\* If rewards are positive, every mature block is credited (or orphaned) in the
\* end: the calculation ends and its exception "this should never happen" does
\* not (PPLNSPaymentScheme.CalculateRewards).
BlocksAreCredited ==
    (\A b \in Blocks : found[b].reward > 0) =>
        \A b \in Blocks : mature >= b ~> b \in settled
=============================================================================
