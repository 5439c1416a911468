----------------------------- MODULE PplnsProofs -----------------------------
(***************************************************************************)
(* What holds of the PPLNS scheme for every log of shares, window and page *)
(* size: the rewards follow the window, and what is deleted with one block *)
(* is beyond the windows of the blocks to come.                            *)
(***************************************************************************)
EXTENDS Pplns, Sums, SequenceTheorems, TLAPS

Rewarded == found[blk].reward
Counted == ToSet(counted)
Own(m) == {s \in Counted : log[s].miner = m}

Typed ==
    /\ log \in [Shares -> [created : Times, score : 0 .. MaxScore, miner : Miners]]
    /\ found \in [Blocks -> [created : Times, reward : Nat]]
    /\ table \in SUBSET Shares /\ gone \in SUBSET Shares
    /\ confirmed \in SUBSET Blocks
    /\ page \in Seq(Shares) /\ counted \in Seq(Shares)
    /\ before \in Int /\ score \in Int /\ remaining \in Int /\ cutOff \in Int
    /\ inclusive \in BOOLEAN /\ last \in BOOLEAN /\ done \in BOOLEAN
    /\ rewards \in [Miners -> Int]

\* Outside of a calculation its locals have their initial values.
Fresh ==
    pc # "calculate" =>
        /\ page = <<>> /\ counted = <<>> /\ ~last /\ ~done
        /\ score = 0 /\ rewards = Nothing /\ cutOff = Null

\* The shares counted come before the rest of the page, and the page before what
\* is still to be read.
Paged ==
    pc = "calculate" =>
        /\ blk \in Blocks /\ there \subseteq table /\ Counted \cup ToSet(page) \subseteq table
        /\ IsInjective(counted) /\ IsInjective(page) /\ Counted \cap ToSet(page) = {}
        /\ \A i, j \in DOMAIN page : i < j => Created(page[i]) >= Created(page[j])
        /\ \A s \in Counted, t \in ToSet(page) : Created(s) >= Created(t)
        /\ \A s \in Counted \cup ToSet(page) : Created(s) <= found[blk].created
        /\ ~last => \A s \in Counted \cup ToSet(page) : Created(s) >= before
        /\ before <= found[blk].created
        /\ inclusive => counted = <<>> /\ page = <<>> /\ ~last /\ before = found[blk].created

\* The score is that of the shares counted, as far as it fits into the window.
Scored ==
    pc = "calculate" =>
        /\ SumFunction(rewards) + remaining = Rewarded * Window
        /\ remaining = Rewarded * (Window - score)
        /\ ~done =>
              /\ score = ScoreOf(Counted) /\ score < Window /\ cutOff = Null
              /\ \A m \in Miners : rewards[m] = Rewarded * ScoreOf(Own(m))
        /\ done =>
              /\ score = Window /\ ScoreOf(Counted) >= Window
              /\ counted # <<>> /\ \A s \in Counted : Created(s) >= cutOff
              /\ \A m \in Miners : rewards[m] = Rewarded *
                    IF Last(counted) \in Own(m) THEN Window - ScoreOf(Counted \ Own(m))
                                                ELSE ScoreOf(Own(m))

\* Where a share is that was stored when the calculation began.
Unread(s) == ~last /\ (Created(s) < before \/ (inclusive /\ Created(s) = before))
Accounted ==
    pc = "calculate" =>
        \A s \in there \ Counted :
            \/ log[s].score = 0
            \/ Created(s) > found[blk].created
            \/ Created(s) \in ends
            \/ IF done THEN Created(s) <= cutOff ELSE s \in ToSet(page) \/ Unread(s)

\* A share is deleted only when a confirmed block fills its window without it.
After(s, b) == {x \in table \cup gone : Created(s) < Created(x) /\ Created(x) <= found[b].created}
Beyond == \A s \in gone : \E c \in confirmed : ScoreOf(After(s, c)) >= Window

IInv == Typed /\ Fresh /\ Paged /\ Scored /\ Accounted /\ Beyond

-----------------------------------------------------------------------------
(* Sequences of shares.                                                    *)

\* Reading the first row of a page leaves the others, in their order.
LEMMA RestOfPage ==
    ASSUME NEW p \in Seq(Shares), p # <<>>, IsInjective(p)
    PROVE  /\ Head(p) \in Shares /\ Tail(p) \in Seq(Shares) /\ IsInjective(Tail(p))
           /\ Head(p) \notin ToSet(Tail(p)) /\ ToSet(p) = {Head(p)} \cup ToSet(Tail(p))
           /\ 1 \in DOMAIN p /\ p[1] = Head(p)
           /\ \A i \in DOMAIN Tail(p) : i \in Nat \ {0} /\ i + 1 \in DOMAIN p /\ Tail(p)[i] = p[i + 1]
  <1> DEFINE n == Len(p)
  <1>1. n \in Nat \ {0} /\ DOMAIN p = 1 .. n /\ \A i \in 1 .. n : p[i] \in Shares
    OBVIOUS
  <1>2. /\ Head(p) = p[1] /\ Tail(p) \in Seq(Shares) /\ DOMAIN Tail(p) = 1 .. n - 1
        /\ \A i \in 1 .. n - 1 : Tail(p)[i] = p[i + 1]
    OBVIOUS
  <1> HIDE DEF n
  <1>3. \A i, j \in 1 .. n : p[i] = p[j] => i = j
    BY <1>1 DEF IsInjective
  <1>4. IsInjective(Tail(p))
    BY <1>1, <1>2, <1>3 DEF IsInjective
  <1>5. ToSet(p) = {p[i] : i \in 1 .. n} /\ ToSet(Tail(p)) = {p[i + 1] : i \in 1 .. n - 1}
    BY <1>1, <1>2 DEF ToSet
  <1>6. Head(p) \notin ToSet(Tail(p))
    BY <1>1, <1>2, <1>3, <1>5
  <1>7. ToSet(p) = {Head(p)} \cup ToSet(Tail(p))
    <2>1. ASSUME NEW i \in 1 .. n PROVE p[i] = p[1] \/ \E j \in 1 .. n - 1 : p[i] = p[j + 1]
      <3>1. CASE i = 1
        BY <3>1
      <3>2. CASE i # 1
        <4>1. i - 1 \in 1 .. n - 1 /\ (i - 1) + 1 = i
          BY <1>1, <3>2
        <4> QED BY <4>1
      <3> QED BY <3>1, <3>2
    <2>2. \A j \in 1 .. n - 1 : j + 1 \in 1 .. n
      BY <1>1
    <2>3. 1 \in 1 .. n
      BY <1>1
    <2> QED BY <1>2, <1>5, <2>1, <2>2, <2>3
  <1> QED BY <1>1, <1>2, <1>4, <1>6, <1>7

\* A new share is counted once.
LEMMA OneMore ==
    ASSUME NEW c \in Seq(Shares), IsInjective(c), NEW h \in Shares, h \notin ToSet(c)
    PROVE  /\ Append(c, h) \in Seq(Shares) /\ IsInjective(Append(c, h))
           /\ ToSet(Append(c, h)) = ToSet(c) \cup {h}
           /\ Append(c, h) # <<>> /\ Last(Append(c, h)) = h
  <1> DEFINE n == Len(c)
             d == Append(c, h)
  <1>1. n \in Nat /\ DOMAIN c = 1 .. n
    OBVIOUS
  <1>2. /\ d \in Seq(Shares) /\ DOMAIN d = 1 .. n + 1 /\ Len(d) = n + 1 /\ d[n + 1] = h
        /\ \A i \in 1 .. n : d[i] = c[i]
    OBVIOUS
  <1> HIDE DEF n, d
  <1>3. \A i \in 1 .. n : c[i] \in ToSet(c) /\ c[i] # h
    BY <1>1 DEF ToSet
  <1>4. \A i \in 1 .. n + 1 : i \in 1 .. n \/ i = n + 1
    BY <1>1
  <1>5. IsInjective(d)
    <2>1. \A i, j \in 1 .. n : c[i] = c[j] => i = j
      BY <1>1 DEF IsInjective
    <2> QED BY <1>2, <1>3, <1>4, <2>1 DEF IsInjective
  <1>6. ToSet(d) = ToSet(c) \cup {h}
    <2>1. n + 1 \in 1 .. n + 1 /\ \A i \in 1 .. n : i \in 1 .. n + 1
      BY <1>1
    <2> QED BY <1>1, <1>2, <1>4, <2>1 DEF ToSet
  <1>7. d # <<>> /\ Last(d) = h
    BY <1>1, <1>2 DEF Last
  <1> QED BY <1>2, <1>5, <1>6, <1>7 DEF d

\* A share of the table has a time stamp, and a number of scores.
LEMMA ShareType ==
    ASSUME Typed, NEW s \in Shares
    PROVE  /\ Created(s) \in Times /\ Created(s) \in Nat \ {0} /\ log[s].created = Created(s)
           /\ log[s].score \in Nat /\ log[s].miner \in Miners
  BY DEF Typed, Created, Times

LEMMA BlockType ==
    ASSUME Typed, NEW b \in Blocks
    PROVE  found[b].created \in Times /\ found[b].created \in Nat \ {0} /\ found[b].reward \in Nat
  BY DEF Typed, Times

\* A page holds rows of the range that was asked for, the latest ones, each once
\* (ShareRepository.ReadSharesBeforeCreated).
LEMMA PageOf ==
    ASSUME Typed, NEW p \in Pages
    PROVE  /\ p \in Seq(Shares) /\ IsInjective(p) /\ ToSet(p) \subseteq Rows /\ Rows \subseteq Shares
           /\ \A i, j \in DOMAIN p : i < j => Created(p[i]) >= Created(p[j])
           /\ Len(p) \in Nat
           /\ Len(p) < PageSize => ToSet(p) = Rows
           /\ ~(Len(p) < PageSize) =>
                 /\ p[Len(p)] \in Rows
                 /\ \A s \in ToSet(p) : Created(s) >= Created(p[Len(p)])
                 /\ \A s \in Rows \ ToSet(p) : Created(p[Len(p)]) >= Created(s)
  <1> DEFINE size == IF Cardinality(Rows) < PageSize THEN Cardinality(Rows) ELSE PageSize
  <1>1. Rows \subseteq Shares /\ IsFiniteSet(Rows) /\ Cardinality(Rows) \in Nat
    <2>1. Rows \in SUBSET Shares
      BY DEF Rows, Typed
    <2> QED BY <2>1, SharesAssumption, FS_Subset, FS_CardinalityType
  <1>2. /\ p \in [1 .. size -> Rows]
        /\ \A i, j \in 1 .. size : i < j => p[i] # p[j] /\ Created(p[i]) >= Created(p[j])
        /\ \A s \in Rows, i \in 1 .. size :
              (\A j \in 1 .. size : p[j] # s) => Created(p[i]) >= Created(s)
    BY DEF Pages
  <1>3. size \in Nat
    BY <1>1, NumbersAssumption
  <1> HIDE DEF size
  <1>4. p \in Seq(Shares) /\ Len(p) = size /\ DOMAIN p = 1 .. size
    BY <1>1, <1>2, <1>3
  <1>5. ToSet(p) = {p[i] : i \in 1 .. size} /\ ToSet(p) \subseteq Rows
    BY <1>2, <1>4 DEF ToSet
  <1>6. IsInjective(p)
    BY <1>2, <1>3, <1>4 DEF IsInjective
  <1>7. ASSUME size < PageSize PROVE ToSet(p) = Rows
    <2>1. size = Cardinality(Rows)
      BY <1>1, <1>7, NumbersAssumption DEF size
    <2>2. p \in Injection(1 .. size, Rows)
      BY <1>2, <1>4, <1>6 DEF IsInjective, Injection
    <2>3. Cardinality(1 .. size) = size
      BY <1>3, FS_Interval
    <2>4. p \in Surjection(1 .. size, Rows)
      BY <1>1, <2>1, <2>2, <2>3, FS_Injection
    <2> QED BY <1>5, <2>4 DEF Surjection
  <1>8. ASSUME ~(size < PageSize)
        PROVE  /\ p[size] \in Rows
               /\ \A s \in ToSet(p) : Created(s) >= Created(p[size])
               /\ \A s \in Rows \ ToSet(p) : Created(p[size]) >= Created(s)
    <2>1. size \in 1 .. size
      BY <1>3, <1>8, NumbersAssumption
    <2>2. \A i \in 1 .. size : i = size \/ i < size
      BY <1>3
    <2>3. Created(p[size]) \in Nat
      BY <1>1, <1>2, <2>1, ShareType
    <2>4. \A i \in 1 .. size : Created(p[i]) >= Created(p[size])
      BY <1>2, <2>1, <2>2, <2>3
    <2> QED BY <1>2, <1>5, <2>1, <2>4
  <1> QED BY <1>1, <1>2, <1>3, <1>4, <1>5, <1>6, <1>7, <1>8

-----------------------------------------------------------------------------
(* Scores.                                                                 *)

LEMMA ScoreType ==
    ASSUME Typed, NEW T \in SUBSET Shares, NEW S \in SUBSET T
    PROVE  IsFiniteSet(S) /\ ScoreOf(S) \in Nat /\ ScoreOf(S) <= ScoreOf(T)
  <1>1. IsFiniteSet(T) /\ IsFiniteSet(S)
    BY SharesAssumption, FS_Subset
  <1>2. \A s \in T : Worth[s] \in Nat
    BY ShareType DEF Worth
  <1> QED BY <1>1, <1>2, SumMonotonic DEF ScoreOf

LEMMA ScoreEmpty == ScoreOf({}) = 0
  BY SumEmpty DEF ScoreOf

LEMMA ScoreAdd ==
    ASSUME Typed, NEW S \in SUBSET Shares, NEW s \in Shares \ S
    PROVE  ScoreOf(S \cup {s}) = ScoreOf(S) + log[s].score
  <1>1. IsFiniteSet(S)
    BY SharesAssumption, FS_Subset
  <1>2. \A x \in S \cup {s} : Worth[x] \in Int
    BY ShareType DEF Worth
  <1>3. Worth[s] = log[s].score /\ s \notin S
    BY DEF Worth
  <1>4. SumFunctionOnSet(Worth, S \cup {s}) = SumFunctionOnSet(Worth, S) + Worth[s]
    BY <1>1, <1>2, <1>3, SumAdd
  <1> QED BY <1>3, <1>4 DEF ScoreOf

\* The shares of one miner and those of the others.
LEMMA ScoreSplit ==
    ASSUME Typed, NEW S \in SUBSET Shares, NEW T \in SUBSET S
    PROVE  ScoreOf(S) = ScoreOf(T) + ScoreOf(S \ T)
  <1>1. IsFiniteSet(T) /\ IsFiniteSet(S \ T)
    BY SharesAssumption, FS_Subset
  <1>2. \A x \in T \cup (S \ T) : Worth[x] \in Int
    BY ShareType DEF Worth
  <1>3. T \cup (S \ T) = S
    OBVIOUS
  <1>4. SumFunctionOnSet(Worth, T \cup (S \ T)) = SumFunctionOnSet(Worth, T) + SumFunctionOnSet(Worth, S \ T)
    BY <1>1, <1>2, SumUnion
  <1> QED BY <1>3, <1>4 DEF ScoreOf

-----------------------------------------------------------------------------
(* Steps outside of a calculation, and beside it.                          *)

LEMMA SameShares ==
    ASSUME log' = log
    PROVE  Worth' = Worth /\ \A s : Created(s)' = Created(s)
  BY DEF Worth, Created

\* More shares and more confirmed blocks take nothing away from a window.
LEMMA BeyondGrows ==
    ASSUME IInv, Typed', UNCHANGED <<log, found>>, confirmed \subseteq confirmed',
           table \cup gone \subseteq table' \cup gone', NEW s \in gone
    PROVE  \E c \in confirmed' : ScoreOf(After(s, c))' >= Window
  <1>1. PICK c \in confirmed : ScoreOf(After(s, c)) >= Window
    BY DEF IInv, Beyond
  <1>2. After(s, c) \subseteq After(s, c)' /\ After(s, c)' \subseteq Shares
    BY SameShares DEF After, Typed
  <1>3. ScoreOf(After(s, c)) \in Nat /\ ScoreOf(After(s, c)) <= ScoreOf(After(s, c)')
    BY <1>2, ScoreType DEF IInv
  <1>4. ScoreOf(After(s, c)') \in Nat
    BY <1>2, ScoreType DEF IInv
  <1>5. ScoreOf(After(s, c))' = ScoreOf(After(s, c)')
    BY SameShares DEF ScoreOf
  <1> QED BY <1>1, <1>3, <1>4, <1>5, NumbersAssumption

LEMMA BeyondStands ==
    ASSUME IInv, Typed', UNCHANGED <<log, found, gone, confirmed>>, table \subseteq table'
    PROVE  Beyond'
  <1> SUFFICES ASSUME NEW s \in gone PROVE \E c \in confirmed' : ScoreOf(After(s, c))' >= Window
    BY DEF Beyond
  <1> QED BY BeyondGrows

LEMMA ScoredStands ==
    ASSUME Scored, UNCHANGED <<log, found, pc, blk, rewards, remaining, score, done, cutOff, counted>>
    PROVE  Scored'
  <1>1. Counted' = Counted /\ Rewarded' = Rewarded /\ \A m : Own(m)' = Own(m)
    BY DEF Counted, Rewarded, Own
  <1>2. /\ ScoreOf(Counted)' = ScoreOf(Counted)
        /\ \A m : ScoreOf(Own(m))' = ScoreOf(Own(m))
        /\ \A m : ScoreOf(Counted \ Own(m))' = ScoreOf(Counted \ Own(m))
    BY <1>1, SameShares DEF ScoreOf
  <1>3. \A s : Created(s)' = Created(s)
    BY SameShares
  <1> QED BY <1>1, <1>2, <1>3 DEF Scored

\* While a block is calculated the recorder may insert shares.
LEMMA Stands ==
    ASSUME IInv, UNCHANGED <<log, found, gone, confirmed, pc, blk, locals, history>>,
           table' \in SUBSET Shares, table \subseteq table'
    PROVE  IInv'
  <1>1. Typed'
    BY DEF IInv, Typed, locals, history
  <1>2. Fresh'
    BY DEF IInv, Fresh, locals, history, Nothing
  <1>3. Paged'
    BY DEF IInv, Paged, locals, history, Counted, Created
  <1>4. Scored'
    BY ScoredStands DEF IInv, locals, history
  <1>5. Accounted'
    BY DEF IInv, Accounted, locals, history, Counted, Created, Unread
  <1>6. Beyond'
    BY <1>1, BeyondStands
  <1> QED BY <1>1, <1>2, <1>3, <1>4, <1>5, <1>6 DEF IInv

\* A turn that is over, or at another block, leaves no locals.
LEMMA OutOfCalculation ==
    ASSUME IInv, UNCHANGED <<log, found, table, gone, confirmed>>, pc' # "calculate", Typed', Fresh'
    PROVE  IInv'
  BY BeyondStands DEF IInv, Paged, Scored, Accounted

LEMMA IdleInv ==
    ASSUME IInv, UNCHANGED <<given, db>>, Idle
    PROVE  IInv'
  <1>1. Typed'
    <2>1. <<>> \in Seq(Shares) /\ Nothing \in [Miners -> Int]
      BY DEF Nothing
    <2>2. /\ page' = <<>> /\ counted' = <<>> /\ rewards' = Nothing
          /\ before' = 0 /\ score' = 0 /\ remaining' = 0 /\ cutOff' = 0
          /\ inclusive' = TRUE /\ last' = FALSE /\ done' = FALSE
      BY DEF Idle, Null
    <2>3. UNCHANGED <<log, found, table, gone, confirmed>>
      BY DEF given, db
    <2>4. inclusive' \in BOOLEAN /\ last' \in BOOLEAN /\ done' \in BOOLEAN
      BY <2>2
    <2>5. /\ page' \in Seq(Shares) /\ counted' \in Seq(Shares) /\ rewards' \in [Miners -> Int]
          /\ before' \in Int /\ score' \in Int /\ remaining' \in Int /\ cutOff' \in Int
      BY <2>1, <2>2
    <2> QED BY <2>3, <2>4, <2>5 DEF IInv, Typed
  <1>2. Fresh' /\ pc' # "calculate"
    BY DEF Fresh, Idle, Nothing
  <1> QED BY <1>1, <1>2, OutOfCalculation DEF given, db

LEMMA StartTurnInv ==
    ASSUME IInv, StartTurn PROVE IInv'
  <1>1. UNCHANGED <<log, found, table, gone, confirmed>>
    BY DEF StartTurn, given, db
  <1>2. Typed'
    BY DEF IInv, Typed, StartTurn, given, db, locals, history
  <1>3. Fresh' /\ pc' # "calculate"
    BY DEF IInv, Fresh, StartTurn, locals, history, Nothing
  <1> QED BY <1>1, <1>2, <1>3, OutOfCalculation

\* Nothing is counted, and all there is is still to be read.
LEMMA StartBlockInv ==
    ASSUME IInv, NEW b \in Blocks, StartBlock(b) PROVE IInv'
  <1>1. /\ UNCHANGED <<log, found, table, gone, confirmed>>
        /\ pc' = "calculate" /\ blk' = b /\ before' = found[b].created /\ inclusive' = TRUE
        /\ remaining' = found[b].reward * Window /\ there' = table
        /\ UNCHANGED <<page, last, score, rewards, cutOff, done, counted, ends>>
    BY DEF StartBlock, given, db
  <1>2. /\ page = <<>> /\ counted = <<>> /\ ~last /\ ~done
        /\ score = 0 /\ rewards = Nothing /\ cutOff = Null
    BY DEF IInv, Fresh, StartBlock
  <1>3. /\ found[b].created \in Nat /\ found[b].reward \in Nat /\ Window \in Nat \ {0}
        /\ found[b].reward * Window \in Nat
    <2>1. found[b].created \in Nat /\ found[b].reward \in Nat /\ Window \in Nat \ {0}
      BY BlockType, NumbersAssumption DEF IInv
    <2> QED BY <2>1
  <1>4. Counted' = {} /\ ToSet(page') = {} /\ DOMAIN page' = {} /\ IsInjective(page')
    BY <1>1, <1>2 DEF Counted, ToSet, IsInjective
  <1>5. Typed'
    BY <1>1, <1>3 DEF IInv, Typed
  <1>6. Fresh'
    BY <1>1 DEF Fresh
  <1>7. Paged'
    BY <1>1, <1>2, <1>3, <1>4 DEF IInv, Typed, Paged
  <1>8. Scored'
    <2>1. SumFunction(rewards) = 0 /\ \A m \in Miners : rewards[m] = 0
      <3>1. DOMAIN Nothing = Miners /\ \A m \in Miners : Nothing[m] = 0
        BY DEF Nothing
      <3> HIDE DEF Nothing
      <3> QED BY <1>2, <3>1, SharesAssumption, SumZero DEF SumFunction
    <2>2. \A m : Own(m)' = {}
      BY <1>4 DEF Own
    <2>3. ScoreOf({})' = 0
      BY <1>1, SameShares, ScoreEmpty DEF ScoreOf
    <2>4. ScoreOf(Counted)' = 0 /\ \A m : ScoreOf(Own(m))' = 0
      BY <1>4, <2>2, <2>3 DEF ScoreOf
    <2>5. Rewarded' = found[b].reward
      BY <1>1 DEF Rewarded
    <2> QED BY <1>1, <1>2, <1>3, <2>1, <2>4, <2>5 DEF Scored
  <1>9. Accounted'
    <2> SUFFICES ASSUME NEW s \in table
                 PROVE  Created(s)' > found'[blk'].created \/ Unread(s)'
      BY <1>1, <1>2 DEF Accounted
    <2>1. Created(s) \in Nat
      BY ShareType DEF IInv, Typed
    <2> QED BY <1>1, <1>2, <1>3, <2>1, SameShares DEF Unread
  <1>10. Beyond'
    BY <1>1, <1>5, BeyondStands
  <1> QED BY <1>5, <1>6, <1>7, <1>8, <1>9, <1>10 DEF IInv

-----------------------------------------------------------------------------
(* Pages and rows.                                                         *)

\* A page continues where the last one ended, but for the time stamp it ended at.
LEMMA ReadPageInv ==
    ASSUME IInv, ReadPage PROVE IInv'
  <1>1. /\ pc = "calculate" /\ page = <<>> /\ ~last /\ ~done /\ inclusive' = FALSE
        /\ UNCHANGED <<log, found, table, gone, confirmed, pc, blk, score, remaining, rewards, cutOff, done,
                       counted, there>>
    BY DEF ReadPage, given, db
  <1>2. PICK p \in Pages :
           /\ page' = p /\ last' = (Len(p) < PageSize)
           /\ before' = IF Len(p) < PageSize THEN before ELSE Created(p[Len(p)])
           /\ ends' = IF Len(p) < PageSize THEN ends ELSE ends \cup {Created(p[Len(p)])}
    BY DEF ReadPage
  <1>3. /\ p \in Seq(Shares) /\ IsInjective(p) /\ ToSet(p) \subseteq Rows /\ Rows \subseteq Shares
        /\ \A i, j \in DOMAIN p : i < j => Created(p[i]) >= Created(p[j])
        /\ Len(p) \in Nat
        /\ Len(p) < PageSize => ToSet(p) = Rows
        /\ ~(Len(p) < PageSize) =>
              /\ p[Len(p)] \in Rows
              /\ \A s \in ToSet(p) : Created(s) >= Created(p[Len(p)])
              /\ \A s \in Rows \ ToSet(p) : Created(p[Len(p)]) >= Created(s)
    BY PageOf DEF IInv
  <1>4. /\ blk \in Blocks /\ there \subseteq table /\ Counted \subseteq table
        /\ IsInjective(counted)
        /\ \A s \in Counted : Created(s) >= before /\ Created(s) <= found[blk].created
        /\ before <= found[blk].created
        /\ inclusive => counted = <<>>
    BY <1>1 DEF IInv, Paged
  <1>5. /\ before \in Int /\ found[blk].created \in Int /\ \A s \in Shares : Created(s) \in Nat
        /\ table \subseteq Shares
    <2>1. before \in Int /\ table \subseteq Shares /\ \A s \in Shares : Created(s) \in Nat
      BY ShareType DEF IInv, Typed
    <2>2. found[blk].created \in Int
      BY <1>4, BlockType DEF IInv
    <2> QED BY <2>1, <2>2
  <1>6. /\ Rows \subseteq table
        /\ \A s \in Rows : Created(s) <= before
        /\ \A s \in Rows : s \notin Counted
        /\ \A s \in table : Unread(s) => s \in Rows
    <2>1. \A s \in Rows : s \in table /\ (Created(s) < before \/ (inclusive /\ Created(s) = before))
      BY DEF Rows
    <2>2. inclusive => Counted = {}
      BY <1>4 DEF Counted, ToSet
    <2>3. \A s \in table : Unread(s) => s \in Rows
      BY DEF Rows, Unread
    <2> QED BY <1>4, <1>5, <2>1, <2>2, <2>3
  <1>7. before' \in Int /\ before' <= before
    BY <1>2, <1>3, <1>5, <1>6
  <1>8. Counted' = Counted /\ ToSet(page') = ToSet(p) /\ \A s : Created(s)' = Created(s)
    BY <1>1, <1>2, SameShares DEF Counted
  <1>9. Typed'
    <2>1. last' \in BOOLEAN /\ inclusive' \in BOOLEAN
      <3>1. (Len(p) < PageSize) \in BOOLEAN
        OBVIOUS
      <3> QED BY <1>1, <1>2, <3>1
    <2> QED BY <1>1, <1>2, <1>3, <1>7, <2>1 DEF IInv, Typed
  <1>10. Fresh'
    BY <1>1 DEF Fresh
  <1>11. Paged'
    <2>1. ASSUME ~last', NEW s \in Counted \cup ToSet(p) PROVE Created(s) >= before'
      <3>1. ~(Len(p) < PageSize)
        BY <1>2, <2>1
      <3>2. before' = Created(p[Len(p)]) /\ s \in Shares
        BY <1>2, <1>3, <1>4, <1>5, <3>1
      <3> QED BY <1>3, <1>4, <1>5, <1>7, <2>1, <3>1, <3>2
    <2>2. \A s \in Counted, t \in ToSet(p) : Created(s) >= Created(t)
      BY <1>3, <1>4, <1>5, <1>6
    <2>3. \A s \in Counted \cup ToSet(p) : Created(s) <= found[blk].created
      BY <1>3, <1>4, <1>5, <1>6
    <2>4. before' <= found[blk].created
      BY <1>4, <1>5, <1>7
    <2>5. Counted \cup ToSet(p) \subseteq table /\ Counted \cap ToSet(p) = {}
      BY <1>3, <1>4, <1>6
    <2> QED BY <1>1, <1>2, <1>3, <1>4, <1>8, <2>1, <2>2, <2>3, <2>4, <2>5 DEF Paged
  <1>12. Scored'
    BY <1>1, ScoredStands DEF IInv
  <1>13. Accounted'
    <2> SUFFICES ASSUME NEW s \in there \ Counted
                 PROVE  \/ log[s].score = 0 \/ Created(s) > found[blk].created \/ Created(s) \in ends'
                        \/ s \in ToSet(p) \/ Unread(s)'
      BY <1>1, <1>2, <1>8 DEF Accounted
    <2>1. ToSet(page) = {}
      BY <1>1 DEF ToSet
    <2>2. CASE Unread(s)
      <3>1. s \in Rows /\ s \in Shares
        BY <1>3, <1>4, <1>6, <2>2
      <3>2. CASE s \in ToSet(p)
        BY <3>2
      <3>3. CASE s \notin ToSet(p)
        <4>1. ~(Len(p) < PageSize) /\ p[Len(p)] \in Rows /\ Created(p[Len(p)]) >= Created(s)
          BY <1>3, <3>1, <3>3
        <4>2. /\ before' = Created(p[Len(p)]) /\ ends' = ends \cup {Created(p[Len(p)])} /\ ~last'
              /\ Created(p[Len(p)]) \in Nat /\ Created(s) \in Nat
          BY <1>2, <1>3, <1>5, <3>1, <4>1
        <4>3. CASE Created(s) = before'
          BY <4>2, <4>3
        <4>4. CASE Created(s) < before'
          BY <1>8, <4>2, <4>4 DEF Unread
        <4> QED BY <4>1, <4>2, <4>3, <4>4
      <3> QED BY <3>2, <3>3
    <2>3. CASE Created(s) \in ends
      BY <1>2, <2>3
    <2> QED BY <1>1, <2>1, <2>2, <2>3 DEF IInv, Accounted
  <1>14. Beyond'
    BY <1>1, <1>9, BeyondStands
  <1> QED BY <1>9, <1>10, <1>11, <1>12, <1>13, <1>14 DEF IInv

\* A share without a difficulty need not be counted.
LEMMA SkipRowInv ==
    ASSUME IInv, SkipRow PROVE IInv'
  <1>1. /\ pc = "calculate" /\ page # <<>> /\ ~done /\ page' = Tail(page)
        /\ log[Head(page)].score = 0
        /\ UNCHANGED <<log, found, table, gone, confirmed, pc, blk, before, inclusive, last, score,
                       remaining, rewards, cutOff, done, counted, ends, there>>
    BY DEF SkipRow, AtRow, Share, given, db, history
  <1>2. /\ page \in Seq(Shares) /\ IsInjective(page)
        /\ \A i, j \in DOMAIN page : i < j => Created(page[i]) >= Created(page[j])
    BY <1>1 DEF IInv, Typed, Paged
  <1>3. /\ Tail(page) \in Seq(Shares) /\ IsInjective(Tail(page))
        /\ ToSet(page) = {Head(page)} \cup ToSet(Tail(page))
        /\ \A i \in DOMAIN Tail(page) : i \in Nat \ {0} /\ i + 1 \in DOMAIN page
                                        /\ Tail(page)[i] = page[i + 1]
    BY <1>1, <1>2, RestOfPage
  <1>4. \A i, j \in DOMAIN Tail(page) : i < j => Created(Tail(page)[i]) >= Created(Tail(page)[j])
    <2>1. ASSUME NEW i \in DOMAIN Tail(page), NEW j \in DOMAIN Tail(page), i < j
          PROVE  Created(page[i + 1]) >= Created(page[j + 1])
      <3>1. i + 1 \in DOMAIN page /\ j + 1 \in DOMAIN page /\ i + 1 < j + 1
        BY <1>3, <2>1
      <3> QED BY <1>2, <3>1
    <2> QED BY <1>3, <2>1
  <1>5. Counted' = Counted /\ \A s : Created(s)' = Created(s)
    BY <1>1, SameShares DEF Counted
  <1>6. Typed' /\ Fresh'
    BY <1>1, <1>3 DEF IInv, Typed, Fresh
  <1>7. Paged'
    BY <1>1, <1>3, <1>4, <1>5 DEF IInv, Paged
  <1>8. Scored'
    BY <1>1, ScoredStands DEF IInv
  <1>9. Accounted'
    <2>1. \A s : Unread(s)' = Unread(s)
      BY <1>1, <1>5 DEF Unread
    <2> QED BY <1>1, <1>3, <1>5, <2>1 DEF IInv, Accounted
  <1>10. Beyond'
    BY <1>1, <1>6, BeyondStands
  <1> QED BY <1>6, <1>7, <1>8, <1>9, <1>10 DEF IInv

\* What a row changes, and what the row is.
LEMMA RowCounted ==
    ASSUME IInv, CountRow
    PROVE  /\ pc = "calculate" /\ page # <<>> /\ ~done /\ blk \in Blocks /\ Head(page) \in Shares
           /\ Head(page) \notin Counted /\ Counted \subseteq Shares
           /\ Rewarded \in Nat /\ Share.score \in Nat /\ Share.miner \in Miners
           /\ score = ScoreOf(Counted) /\ score \in Nat /\ score < Window
           /\ Capped = IF Crosses THEN Window - score ELSE Share.score
           /\ Crosses <=> score + Share.score >= Window
           /\ Capped \in Nat /\ Reward = Capped * Rewarded /\ Reward \in Nat
           /\ page' = Tail(page) /\ counted' = Append(counted, Head(page))
           /\ score' = score + Capped /\ remaining' = remaining - Reward
           /\ rewards' = [rewards EXCEPT ![Share.miner] = @ + Reward]
           /\ IF Crosses THEN cutOff' = Created(Head(page)) /\ done' = TRUE ELSE UNCHANGED <<cutOff, done>>
           /\ UNCHANGED <<log, found, table, gone, confirmed, pc, blk, before, inclusive, last, ends, there>>
  <1>1. pc = "calculate" /\ page # <<>> /\ ~done
    BY DEF CountRow, AtRow
  <1>2. /\ page \in Seq(Shares) /\ IsInjective(page) /\ blk \in Blocks /\ table \subseteq Shares
        /\ Counted \subseteq table /\ Counted \cap ToSet(page) = {}
    BY <1>1 DEF IInv, Typed, Paged
  <1>3. Head(page) \in Shares /\ Head(page) \in ToSet(page)
    BY <1>1, <1>2, RestOfPage
  <1>4. Rewarded \in Nat /\ Share.score \in Nat /\ Share.miner \in Miners /\ Share.created = Created(Head(page))
    BY <1>2, <1>3, ShareType, BlockType DEF IInv, Rewarded, Share
  <1>5. score = ScoreOf(Counted) /\ score < Window /\ score \in Nat
    <2>1. score = ScoreOf(Counted) /\ score < Window
      BY <1>1 DEF IInv, Scored
    <2>2. ScoreOf(Counted) \in Nat
      BY <1>2, ScoreType DEF IInv
    <2> QED BY <2>1, <2>2
  <1>6. /\ Capped = IF Crosses THEN Window - score ELSE Share.score
        /\ Crosses <=> score + Share.score >= Window
    BY DEF Capped, Crosses
  <1>7. Capped \in Nat
    BY <1>4, <1>5, <1>6, NumbersAssumption
  <1>8. Reward = Capped * Rewarded /\ Reward \in Nat
    <2>1. Capped * Rewarded \in Nat
      BY <1>4, <1>7
    <2> QED BY <2>1 DEF Reward, Rewarded
  <1>9. /\ page' = Tail(page) /\ counted' = Append(counted, Head(page))
        /\ score' = score + Capped /\ remaining' = remaining - Reward
        /\ rewards' = [rewards EXCEPT ![Share.miner] = @ + Reward]
        /\ IF Crosses THEN cutOff' = Share.created /\ done' = TRUE ELSE UNCHANGED <<cutOff, done>>
        /\ UNCHANGED <<log, found, table, gone, confirmed, pc, blk, before, inclusive, last, ends, there>>
    BY DEF CountRow, given, db
  <1> QED BY <1>1, <1>2, <1>3, <1>4, <1>5, <1>6, <1>7, <1>8, <1>9

\* Shares stay in the order of their time stamps when one of them is counted.
LEMMA CountRowPaged ==
    ASSUME IInv, CountRow
    PROVE  /\ Typed' /\ Fresh' /\ Paged'
           /\ Counted' = Counted \cup {Head(page)} /\ Last(counted') = Head(page) /\ counted' # <<>>
           /\ ToSet(page) = {Head(page)} \cup ToSet(page')
           /\ \A s \in Counted', t \in ToSet(page') : Created(s) >= Created(t)
           /\ \A s \in ToSet(page) : Created(Head(page)) >= Created(s)
  <1> DEFINE h == Head(page)
  <1>1. /\ pc = "calculate" /\ page # <<>> /\ h \in Shares /\ h \notin Counted
        /\ page' = Tail(page) /\ counted' = Append(counted, h)
        /\ UNCHANGED <<log, found, table, gone, confirmed, pc, blk, before, inclusive, last, ends, there>>
    BY RowCounted
  <1>2. /\ page \in Seq(Shares) /\ counted \in Seq(Shares)
        /\ blk \in Blocks /\ there \subseteq table /\ Counted \cup ToSet(page) \subseteq table
        /\ IsInjective(counted) /\ IsInjective(page) /\ Counted \cap ToSet(page) = {}
        /\ \A i, j \in DOMAIN page : i < j => Created(page[i]) >= Created(page[j])
        /\ \A s \in Counted, t \in ToSet(page) : Created(s) >= Created(t)
        /\ \A s \in Counted \cup ToSet(page) : Created(s) <= found[blk].created
        /\ ~last => \A s \in Counted \cup ToSet(page) : Created(s) >= before
        /\ before <= found[blk].created
        /\ ~inclusive
    BY <1>1 DEF IInv, Typed, Paged
  <1>3. /\ page' \in Seq(Shares) /\ IsInjective(page') /\ h \notin ToSet(page')
        /\ ToSet(page) = {h} \cup ToSet(page') /\ 1 \in DOMAIN page /\ page[1] = h
        /\ \A i \in DOMAIN page' : i \in Nat \ {0} /\ i + 1 \in DOMAIN page /\ page'[i] = page[i + 1]
    BY <1>1, <1>2, RestOfPage
  <1>4. /\ counted' \in Seq(Shares) /\ IsInjective(counted') /\ Counted' = Counted \cup {h}
        /\ counted' # <<>> /\ Last(counted') = h
    BY <1>1, <1>2, OneMore DEF Counted
  <1> HIDE DEF h
  <1>5. \A i, j \in DOMAIN page' : i < j => Created(page'[i]) >= Created(page'[j])
    <2>1. ASSUME NEW i \in DOMAIN page', NEW j \in DOMAIN page', i < j
          PROVE  Created(page[i + 1]) >= Created(page[j + 1])
      <3>1. i + 1 \in DOMAIN page /\ j + 1 \in DOMAIN page /\ i + 1 < j + 1
        BY <1>3, <2>1
      <3> QED BY <1>2, <3>1
    <2> QED BY <1>3, <2>1
  <1>6. \A t \in ToSet(page') : Created(h) >= Created(t)
    <2>1. ASSUME NEW i \in DOMAIN page' PROVE Created(h) >= Created(page'[i])
      <3>1. i + 1 \in DOMAIN page /\ 1 < i + 1 /\ page'[i] = page[i + 1]
        BY <1>3
      <3> QED BY <1>2, <1>3, <3>1
    <2> QED BY <2>1 DEF ToSet
  <1>7. \A s \in Counted', t \in ToSet(page') : Created(s) >= Created(t)
    BY <1>2, <1>3, <1>4, <1>6
  <1>8. \A s \in ToSet(page) : Created(h) >= Created(s)
    <2>1. Created(h) \in Nat
      BY <1>1, ShareType DEF IInv, h
    <2> QED BY <1>3, <1>6, <2>1
  <1>9. Typed'
    <2>1. /\ score \in Nat /\ Capped \in Nat /\ Reward \in Nat /\ remaining \in Int /\ cutOff \in Int
          /\ score' = score + Capped /\ remaining' = remaining - Reward
          /\ IF Crosses THEN cutOff' = Created(h) /\ done' = TRUE ELSE UNCHANGED <<cutOff, done>>
          /\ Created(h) \in Nat /\ done \in BOOLEAN
      BY RowCounted, ShareType DEF IInv, Typed, h
    <2>2. score' \in Int /\ remaining' \in Int /\ cutOff' \in Int
      BY <2>1
    <2>3. done' \in BOOLEAN
      BY <2>1
    <2>4. rewards' \in [Miners -> Int]
      <3>1. rewards' = [rewards EXCEPT ![Share.miner] = @ + Reward] /\ Share.miner \in Miners
        BY RowCounted
      <3> QED BY <2>1, <3>1 DEF IInv, Typed
    <2> QED BY <1>1, <1>3, <1>4, <2>2, <2>3, <2>4 DEF IInv, Typed
  <1>10. Fresh'
    BY <1>1 DEF Fresh
  <1>11. Paged'
    <2>1. \A s : Created(s)' = Created(s)
      BY <1>1, SameShares
    <2>2. /\ Counted' \cup ToSet(page') = Counted \cup ToSet(page)
          /\ Counted' \cap ToSet(page') = {}
      BY <1>2, <1>3, <1>4
    <2> QED BY <1>1, <1>2, <1>3, <1>4, <1>5, <1>7, <2>1, <2>2 DEF Paged
  <1> QED BY <1>3, <1>4, <1>7, <1>8, <1>9, <1>10, <1>11 DEF h

LEMMA Distribute ==
    ASSUME NEW a \in Int, NEW b \in Int, NEW c \in Int
    PROVE  /\ a * b \in Int /\ a * b = b * a
           /\ a * (b + c) = a * b + a * c /\ a * (b - c) = a * b - a * c
  OBVIOUS

\* The share of the block that is left goes down by what the row gets, and the
\* row that crosses the end of the window gets the rest of it.
LEMMA CountRowScored ==
    ASSUME IInv, CountRow PROVE Scored'
  <1> DEFINE h == Head(page)
             R == Rewarded
             C == Counted
  <1>1. /\ pc = "calculate" /\ ~done /\ blk \in Blocks /\ h \in Shares /\ h \notin C /\ C \subseteq Shares
        /\ R \in Nat /\ Share.score \in Nat /\ Share.miner \in Miners
        /\ score = ScoreOf(C) /\ score \in Nat /\ score < Window /\ Window \in Nat
        /\ Capped = IF Crosses THEN Window - score ELSE Share.score
        /\ Crosses <=> score + Share.score >= Window
        /\ Capped \in Nat /\ Reward = Capped * R /\ Reward \in Nat
        /\ score' = score + Capped /\ remaining' = remaining - Reward
        /\ rewards' = [rewards EXCEPT ![Share.miner] = @ + Reward]
        /\ IF Crosses THEN cutOff' = Created(h) /\ done' = TRUE ELSE UNCHANGED <<cutOff, done>>
        /\ UNCHANGED <<log, found, pc, blk>>
    BY RowCounted, NumbersAssumption
  <1>2. /\ C' = C \cup {h} /\ Last(counted') = h /\ counted' # <<>>
        /\ \A s \in C', t \in ToSet(page') : Created(s) >= Created(t)
        /\ \A s \in C, t \in ToSet(page) : Created(s) >= Created(t)
        /\ h \in ToSet(page)
    BY CountRowPaged, <1>1 DEF IInv, Paged
  <1>3. /\ SumFunction(rewards) + remaining = R * Window /\ remaining = R * (Window - score)
        /\ cutOff = Null /\ \A m \in Miners : rewards[m] = R * ScoreOf(Own(m))
    BY <1>1 DEF IInv, Scored
  <1>4. rewards \in [Miners -> Int] /\ remaining \in Int /\ SumFunction(rewards) \in Int
    <2>1. rewards \in [Miners -> Int] /\ remaining \in Int
      BY DEF IInv, Typed
    <2>2. DOMAIN rewards = Miners /\ \A m \in Miners : rewards[m] \in Int
      BY <2>1
    <2> QED BY <2>1, <2>2, SharesAssumption, SumType DEF SumFunction
  <1>5. R' = R /\ \A s : Created(s)' = Created(s)
    BY <1>1, SameShares DEF Rewarded
  <1>6. \A S : ScoreOf(S)' = ScoreOf(S)
    BY <1>1, SameShares DEF ScoreOf
  <1>7. \A m : Own(m)' = IF m = Share.miner THEN Own(m) \cup {h} ELSE Own(m)
    BY <1>1, <1>2 DEF Own, Share
  <1>8. /\ ScoreOf(C)' = ScoreOf(C \cup {h})
        /\ \A m : ScoreOf(Own(m))' = ScoreOf(Own(m)')
        /\ \A m : ScoreOf(C \ Own(m))' = ScoreOf(C' \ Own(m)')
    BY <1>1, <1>2, SameShares DEF ScoreOf
  <1>9. ScoreOf(C \cup {h}) = ScoreOf(C) + Share.score
    BY <1>1, ScoreAdd DEF IInv, Share
  <1>10. SumFunction(rewards') = SumFunction(rewards) + Reward
    <2> DEFINE m == Share.miner
    <2>1. /\ rewards' = [rewards EXCEPT ![m] = @ + Reward] /\ m \in Miners /\ Reward \in Int
          /\ IsFiniteSet(Miners) /\ rewards \in [Miners -> Int]
      BY <1>1, <1>4, SharesAssumption
    <2> HIDE DEF m
    <2>2. SumFunction([rewards EXCEPT ![m] = @ + Reward]) = SumFunction(rewards) + Reward
      BY <2>1, SumUpdate
    <2> QED BY <2>1, <2>2
  <1>11. \A m : Own(m) \subseteq C
    BY DEF Own
  <1>12. \A m \in Miners : ScoreOf(Own(m)) \in Nat /\ ScoreOf(C \ Own(m)) \in Nat
                        /\ ScoreOf(C) = ScoreOf(Own(m)) + ScoreOf(C \ Own(m))
    <2> TAKE m \in Miners
    <2>1. Own(m) \in SUBSET Shares /\ C \ Own(m) \in SUBSET Shares /\ C \in SUBSET Shares /\ Own(m) \in SUBSET C
      BY <1>1, <1>11
    <2>2. ScoreOf(Own(m)) \in Nat /\ ScoreOf(C \ Own(m)) \in Nat
      BY <2>1, ScoreType DEF IInv
    <2>3. ScoreOf(C) = ScoreOf(Own(m)) + ScoreOf(C \ Own(m))
      BY <2>1, ScoreSplit DEF IInv
    <2> QED BY <2>2, <2>3
  <1>13. /\ SumFunction(rewards)' + remaining' = R * Window
         /\ remaining' = R * (Window - score')
    <2> DEFINE all == R * Window
               spent == R * score
    <2>1. R * (Window - score) = all - spent /\ R * (Window - score') = all - R * score'
      BY <1>1, Distribute
    <2>2. R * score' = spent + Reward
      BY <1>1, Distribute
    <2>3. all \in Int /\ spent \in Int /\ Reward \in Int
      BY <1>1, Distribute
    <2>4. SumFunction(rewards)' = SumFunction(rewards) + Reward
      BY <1>10 DEF SumFunction
    <2>5. SumFunction(rewards) + remaining = all /\ remaining = all - spent /\ remaining' = remaining - Reward
      BY <1>1, <1>3, <2>1
    <2> HIDE DEF all, spent
    <2>6. remaining' = all - R * score'
      BY <2>2, <2>3, <2>5
    <2>7. SumFunction(rewards)' + remaining' = all
      BY <1>4, <2>3, <2>4, <2>5
    <2> QED BY <2>1, <2>6, <2>7 DEF all
  <1>14. ASSUME NEW m \in Miners
         PROVE  rewards'[m] = IF m = Share.miner THEN R * (ScoreOf(Own(m)) + Capped) ELSE R * ScoreOf(Own(m))
    <2>1. rewards'[m] = IF m = Share.miner THEN rewards[m] + Reward ELSE rewards[m]
      BY <1>1, <1>4
    <2>2. rewards[m] = R * ScoreOf(Own(m)) /\ ScoreOf(Own(m)) \in Nat
      BY <1>3, <1>12
    <2>3. R * (ScoreOf(Own(m)) + Capped) = R * ScoreOf(Own(m)) + R * Capped /\ R * Capped = Reward
      BY <1>1, <2>2, Distribute
    <2> QED BY <2>1, <2>2, <2>3
  <1>15. CASE Crosses
    <2>1. /\ score' = Window /\ done' = TRUE /\ cutOff' = Created(h)
          /\ ScoreOf(C)' >= Window
      BY <1>1, <1>8, <1>9, <1>15
    <2>2. \A s \in C' : Created(s)' >= cutOff'
      <3>1. Created(h) \in Nat
        BY <1>1, ShareType DEF IInv
      <3> QED BY <1>2, <1>5, <2>1, <3>1
    <2>3. ASSUME NEW m \in Miners
          PROVE  rewards'[m] = R * IF h \in Own(m)' THEN Window - ScoreOf(C \ Own(m))'
                                                    ELSE ScoreOf(Own(m))'
      <3>1. CASE m = Share.miner
        <4>1. h \in Own(m)' /\ C' \ Own(m)' = C \ Own(m)
          BY <1>1, <1>2, <1>7, <3>1
        <4>2. ScoreOf(C \ Own(m))' = ScoreOf(C \ Own(m))
          BY <1>8, <4>1
        <4>3. Window - ScoreOf(C \ Own(m)) = ScoreOf(Own(m)) + Capped
          BY <1>1, <1>12, <1>15
        <4> HIDE DEF C, R, h
        <4> QED BY <1>14, <3>1, <4>1, <4>2, <4>3
      <3>2. CASE m # Share.miner
        <4>1. Own(m)' = Own(m) /\ h \notin Own(m)'
          BY <1>1, <1>7, <1>11, <3>2
        <4>2. ScoreOf(Own(m))' = ScoreOf(Own(m))
          BY <1>8, <4>1
        <4> HIDE DEF C, R, h
        <4> QED BY <1>14, <3>2, <4>1, <4>2
      <3> QED BY <3>1, <3>2
    <2> QED BY <1>2, <1>5, <1>13, <2>1, <2>2, <2>3 DEF Scored
  <1>16. CASE ~Crosses
    <2>1. score' = ScoreOf(C)' /\ score' < Window /\ cutOff' = Null /\ ~done'
      BY <1>1, <1>3, <1>8, <1>9, <1>16
    <2>2. ASSUME NEW m \in Miners PROVE rewards'[m] = R * ScoreOf(Own(m))'
      <3>1. CASE m = Share.miner
        <4>1. Own(m)' = Own(m) \cup {h} /\ h \notin Own(m) /\ Own(m) \in SUBSET Shares
          BY <1>1, <1>7, <1>11, <3>1
        <4>2. ScoreOf(Own(m) \cup {h}) = ScoreOf(Own(m)) + Share.score
          BY <1>1, <4>1, ScoreAdd DEF IInv, Share
        <4>3. ScoreOf(Own(m))' = ScoreOf(Own(m)) + Capped
          BY <1>1, <1>8, <1>16, <4>1, <4>2
        <4> QED BY <1>14, <3>1, <4>3
      <3>2. CASE m # Share.miner
        BY <1>7, <1>8, <1>14, <3>2
      <3> QED BY <3>1, <3>2
    <2> QED BY <1>5, <1>13, <2>1, <2>2 DEF Scored
  <1> QED BY <1>15, <1>16

\* What is behind the share that crosses the end of the window is not younger.
LEMMA CountRowAccounted ==
    ASSUME IInv, CountRow PROVE Accounted'
  <1> DEFINE h == Head(page)
  <1>1. /\ pc = "calculate" /\ ~done /\ h \in Shares
        /\ IF Crosses THEN cutOff' = Created(h) /\ done' = TRUE ELSE UNCHANGED <<cutOff, done>>
        /\ UNCHANGED <<log, found, table, pc, blk, before, inclusive, last, ends, there>>
    BY RowCounted
  <1>2. /\ Counted' = Counted \cup {h} /\ ToSet(page) = {h} \cup ToSet(page')
        /\ \A s \in ToSet(page) : Created(h) >= Created(s)
    BY CountRowPaged
  <1>3. ~inclusive /\ there \subseteq Shares /\ (~last => Created(h) >= before)
    <2>1. /\ there \subseteq table /\ (~last => \A s \in Counted \cup ToSet(page) : Created(s) >= before)
          /\ (inclusive => page = <<>>)
      BY <1>1 DEF IInv, Paged
    <2> QED BY <1>2, <2>1, RowCounted DEF IInv, Typed
  <1>4. before \in Int /\ Created(h) \in Nat /\ \A s \in there : Created(s) \in Nat
    BY <1>1, <1>3, ShareType DEF IInv, Typed
  <1>5. \A s : Created(s)' = Created(s) /\ Unread(s)' = Unread(s)
    BY <1>1, SameShares DEF Unread
  <1> HIDE DEF h
  <1> SUFFICES ASSUME NEW s \in there \ Counted'
               PROVE  \/ log[s].score = 0 \/ Created(s) > found[blk].created \/ Created(s) \in ends
                      \/ IF done' THEN Created(s) <= cutOff' ELSE s \in ToSet(page') \/ Unread(s)
    BY <1>1, <1>5 DEF Accounted
  <1>6. \/ log[s].score = 0 \/ Created(s) > found[blk].created \/ Created(s) \in ends
        \/ s \in ToSet(page) \/ Unread(s)
    BY <1>1, <1>2 DEF IInv, Accounted
  <1>7. CASE s \in ToSet(page)
    <2>1. Created(s) <= Created(h) /\ s \in ToSet(page')
      BY <1>2, <1>4, <1>7
    <2> QED BY <1>1, <2>1
  <1>8. CASE Unread(s)
    <2>1. Created(s) <= Created(h)
      BY <1>3, <1>4, <1>8 DEF Unread
    <2> QED BY <1>1, <1>8, <2>1
  <1> QED BY <1>6, <1>7, <1>8

LEMMA CountRowInv ==
    ASSUME IInv, CountRow PROVE IInv'
  <1>1. Typed' /\ Fresh' /\ Paged'
    BY CountRowPaged
  <1>2. Beyond'
    BY <1>1, RowCounted, BeyondStands
  <1> QED BY <1>1, <1>2, CountRowScored, CountRowAccounted DEF IInv

-----------------------------------------------------------------------------
(* The transaction.                                                        *)

\* What is deleted is older than the shares that fill the window of the block.
LEMMA UpdateBalancesInv ==
    ASSUME IInv, UpdateBalances PROVE IInv'
  <1>1. /\ pc = "calculate" /\ UNCHANGED <<log, found>> /\ pc' = "turn"
        /\ table' = table \ Discarded /\ gone' = gone \cup Discarded /\ confirmed' = confirmed \cup {blk}
    BY DEF UpdateBalances, Calculated, given
  <1>2. /\ page' = <<>> /\ counted' = <<>> /\ rewards' = Nothing
        /\ before' = 0 /\ score' = 0 /\ remaining' = 0 /\ cutOff' = 0
        /\ inclusive' = TRUE /\ last' = FALSE /\ done' = FALSE
    BY DEF UpdateBalances, Null
  <1>3. /\ blk \in Blocks /\ Counted \subseteq table
        /\ \A s \in Counted : Created(s) <= found[blk].created
    BY <1>1 DEF IInv, Paged
  <1>4. Discarded \subseteq table /\ table \subseteq Shares /\ gone \subseteq Shares
    BY DEF Discarded, IInv, Typed
  <1>5. Typed'
    <2>1. <<>> \in Seq(Shares) /\ Nothing \in [Miners -> Int]
      BY DEF Nothing
    <2>2. inclusive' \in BOOLEAN /\ last' \in BOOLEAN /\ done' \in BOOLEAN
      BY <1>2
    <2>3. /\ page' \in Seq(Shares) /\ counted' \in Seq(Shares) /\ rewards' \in [Miners -> Int]
          /\ before' \in Int /\ score' \in Int /\ remaining' \in Int /\ cutOff' \in Int
      BY <1>2, <2>1
    <2> QED BY <1>1, <1>3, <1>4, <2>2, <2>3 DEF IInv, Typed
  <1>6. Fresh' /\ Paged' /\ Scored' /\ Accounted'
    BY <1>1, <1>2 DEF Fresh, Paged, Scored, Accounted, Null, Nothing
  <1>7. ASSUME NEW s \in gone PROVE \E c \in confirmed' : ScoreOf(After(s, c))' >= Window
    <2>1. table \cup gone \subseteq table' \cup gone' /\ confirmed \subseteq confirmed'
      BY <1>1
    <2> QED BY <1>1, <1>5, <1>7, <2>1, BeyondGrows
  <1>8. ASSUME NEW s \in Discarded PROVE \E c \in confirmed' : ScoreOf(After(s, c))' >= Window
    <2>1. s \in table /\ cutOff # Null /\ Created(s) < cutOff
      BY DEF Discarded
    <2>2. ScoreOf(Counted) >= Window /\ \A x \in Counted : Created(x) >= cutOff
      BY <1>1, <2>1 DEF IInv, Scored
    <2>3. cutOff \in Int /\ \A x \in table : Created(x) \in Nat
      BY <1>4, ShareType DEF IInv, Typed
    <2>4. \A x \in Counted : Created(s) < Created(x)
      BY <1>3, <2>1, <2>2, <2>3
    <2>5. PICK c \in confirmed' : c = blk
      BY <1>1
    <2>6. After(s, c)' = {x \in table \cup gone : Created(s) < Created(x) /\ Created(x) <= found[c].created}
      <3>1. table' \cup gone' = table \cup gone
        BY <1>1, <1>4
      <3> QED BY <1>1, <3>1, SameShares DEF After
    <2>7. Counted \subseteq After(s, c)' /\ After(s, c)' \subseteq Shares
      BY <1>3, <1>4, <2>4, <2>5, <2>6
    <2>8. /\ ScoreOf(Counted) \in Nat /\ ScoreOf(Counted) <= ScoreOf(After(s, c)')
          /\ ScoreOf(After(s, c)') \in Nat
      BY <2>7, ScoreType DEF IInv
    <2>9. ScoreOf(After(s, c))' = ScoreOf(After(s, c)')
      BY <1>1, SameShares DEF ScoreOf
    <2>10. ScoreOf(After(s, c))' >= Window
      BY <2>2, <2>8, <2>9, NumbersAssumption
    <2> QED BY <2>10
  <1>9. Beyond'
    BY <1>1, <1>7, <1>8 DEF Beyond
  <1> QED BY <1>5, <1>6, <1>9 DEF IInv

-----------------------------------------------------------------------------
(* The invariant, and the theorems.                                        *)

LEMMA IInvInit == Init => IInv
  <1> SUFFICES ASSUME Init PROVE IInv
    OBVIOUS
  <1>1. Typed
    <2>1. /\ log \in [Shares -> [created : Times, score : 0 .. MaxScore, miner : Miners]]
          /\ found \in [Blocks -> [created : Times, reward : Nat]]
      BY LogsAssumption DEF Init
    <2>2. table \in SUBSET Shares /\ gone \in SUBSET Shares /\ confirmed \in SUBSET Blocks
      BY DEF Init
    <2>3. /\ page = <<>> /\ counted = <<>> /\ before = 0 /\ score = 0 /\ remaining = 0 /\ cutOff = 0
          /\ rewards = Nothing
          /\ inclusive \in BOOLEAN /\ last \in BOOLEAN /\ done \in BOOLEAN
      BY DEF Init, Null
    <2>4. <<>> \in Seq(Shares) /\ Nothing \in [Miners -> Int]
      BY DEF Nothing
    <2> QED BY <2>1, <2>2, <2>3, <2>4 DEF Typed
  <1>2. Fresh /\ Paged /\ Scored /\ Accounted
    BY DEF Init, Fresh, Paged, Scored, Accounted
  <1>3. Beyond
    BY DEF Init, Beyond
  <1> QED BY <1>1, <1>2, <1>3 DEF IInv

LEMMA IInvStep == IInv /\ [Next]_vars => IInv'
  <1> SUFFICES ASSUME IInv, [Next]_vars PROVE IInv'
    OBVIOUS
  <1>1. table \in SUBSET Shares
    BY DEF IInv, Typed
  <1>2. ASSUME NEW s \in Shares, Insert(s) PROVE IInv'
    BY <1>1, <1>2, Stands DEF Insert, given
  <1>3. CASE Mature \/ UNCHANGED vars
    BY <1>1, <1>3, Stands DEF Mature, vars, given, db
  <1>4. ASSUME NEW b \in Blocks, Orphan(b) PROVE IInv'
    BY <1>1, <1>4, Stands DEF Orphan, given
  <1>5. CASE EndTurn \/ Overflow \/ Abort
    BY <1>5, IdleInv DEF EndTurn, Overflow, Abort
  <1>6. ASSUME NEW b \in Blocks, StartBlock(b) PROVE IInv'
    BY <1>6, StartBlockInv
  <1> QED BY <1>2, <1>3, <1>4, <1>5, <1>6, StartTurnInv, ReadPageInv, SkipRowInv, CountRowInv,
             UpdateBalancesInv DEF Next, Turn

LEMMA IInvHolds == Spec => []IInv
  BY IInvInit, IInvStep, PTL DEF Spec

\* For every log of shares, every window and every page size, and whatever is
\* inserted between two reads: no share counts twice, none within the window is
\* left out but at the end of a page, and the block is shared as the scores fill
\* the window (PPLNSPaymentScheme.CalculateRewards).
THEOREM RewardsAlwaysFollowWindow == Spec => []RewardsFollowWindow
  <1>1. IInv => RewardsFollowWindow
    <2> SUFFICES ASSUME IInv, Calculated PROVE WindowIsShared /\ NoShareIsSkipped
      BY DEF RewardsFollowWindow
    <2>1. pc = "calculate" /\ (~done => last /\ page = <<>>)
      BY DEF Calculated
    <2>2. Rewarded \in Nat /\ Window \in Nat
      BY <2>1, BlockType, NumbersAssumption DEF IInv, Paged, Rewarded
    <2>3. WindowIsShared
      <3>1. IsInjective(counted)
        BY <2>1 DEF IInv, Paged
      <3>2. done => remaining = 0 /\ ScoreOf(Counted) >= Window
        <4>1. done => score = Window /\ remaining = Rewarded * (Window - score) /\ ScoreOf(Counted) >= Window
          BY <2>1 DEF IInv, Scored
        <4>2. Window - Window = 0 /\ Rewarded * 0 = 0
          BY <2>2
        <4> QED BY <4>1, <4>2
      <3>3. ASSUME NEW m \in Miners
            PROVE  rewards[m] = Rewarded * IF done /\ Last(counted) \in Own(m)
                                           THEN Window - ScoreOf(Counted \ Own(m)) ELSE ScoreOf(Own(m))
        BY <2>1 DEF IInv, Scored
      <3>4. SumFunction(rewards) + remaining = Rewarded * Window
        BY <2>1 DEF IInv, Scored
      <3> QED BY <3>1, <3>2, <3>3, <3>4 DEF WindowIsShared, Rewarded, Counted, Own
    <2>4. NoShareIsSkipped
      <3>1. ~done => ToSet(page) = {} /\ \A s : ~Unread(s)
        BY <2>1 DEF ToSet, Unread
      <3>2. \A s \in there \ Counted :
               \/ log[s].score = 0 \/ Created(s) > found[blk].created \/ Created(s) \in ends
               \/ IF done THEN Created(s) <= cutOff ELSE s \in ToSet(page) \/ Unread(s)
        BY <2>1 DEF IInv, Accounted
      <3> QED BY <3>1, <3>2 DEF NoShareIsSkipped, Counted
    <2> QED BY <2>3, <2>4
  <1> QED BY <1>1, IInvHolds, PTL

\* The shares deleted with one block are beyond a full window of every block that
\* is still to be credited and not older than all that were, in every order of
\* blocks and insertions and for a reward of 0, too
\* (PPLNSPaymentScheme.UpdateBalancesAsync).
THEOREM WindowsAreAlwaysKept == Spec => []WindowsAreKept
  <1>1. IInv => WindowsAreKept
    <2> SUFFICES ASSUME IInv, NEW s \in gone, NEW b \in Blocks,
                        \A c \in confirmed : found[c].created <= found[b].created
                 PROVE  ScoreOf(After(s, b)) >= Window
      BY DEF WindowsAreKept, After
    <2>1. PICK c \in confirmed : ScoreOf(After(s, c)) >= Window
      BY DEF IInv, Beyond
    <2>2. /\ found[c].created \in Nat /\ found[b].created \in Nat /\ found[c].created <= found[b].created
          /\ table \cup gone \subseteq Shares
      BY BlockType DEF IInv, Typed
    <2>3. \A x \in Shares : Created(x) \in Nat
      BY ShareType DEF IInv
    <2>4. After(s, c) \subseteq After(s, b) /\ After(s, b) \subseteq Shares
      BY <2>2, <2>3 DEF After
    <2>5. /\ ScoreOf(After(s, c)) \in Nat /\ ScoreOf(After(s, c)) <= ScoreOf(After(s, b))
          /\ ScoreOf(After(s, b)) \in Nat
      BY <2>4, ScoreType DEF IInv
    <2> QED BY <2>1, <2>5, NumbersAssumption
  <1> QED BY <1>1, IInvHolds, PTL
=============================================================================
