---------------------------- MODULE VarDiffProofs ----------------------------
(***************************************************************************)
(* What holds of VarDiff for all its constants: the buffer never mixes     *)
(* intervals of two difficulties, a worker that is adjusted has a timer or *)
(* an update under way, and a retarget moves the difficulty the right way, *)
(* as far as it may and into the bounds.  And of the ring buffer that the  *)
(* intervals are kept in: it implements the bounded double-ended queue.    *)
(***************************************************************************)
EXTENDS VarDiff, CircularBuffer, Sums, SequenceTheorems, TLAPS

Entries == [t : Int, d : Nat]

\* A difficulty of 0 stands for none.
Typed ==
    /\ varDiff \in BOOLEAN /\ inFlight \in Nat /\ age \in Int
    /\ diff \in Nat \ {0} /\ newDiff \in Nat
    /\ timeBuffer \in Seq(Entries)

\* No interval is kept while a retarget is still to be applied.
EmptyWhileChanging == newDiff # 0 => timeBuffer = <<>>

IInv == Typed /\ EmptyWhileChanging /\ BufferIsFresh /\ NeverAbandoned

-----------------------------------------------------------------------------
(* Retargets.                                                              *)

\* Multiplication by a positive number keeps the order.
LEMMA TimesMonotonic ==
    ASSUME NEW a \in Int, NEW b \in Int, NEW c \in Nat, a <= b
    PROVE  c * a <= c * b
  OBVIOUS

\* What d units of which one takes n \div d tells.
LEMMA Quotient ==
    ASSUME NEW x \in Int, NEW n \in Nat \ {0}, NEW d \in Int
    PROVE  /\ x \div n \in Int
           /\ n * d <= x => d <= x \div n
           /\ x < n * d => x \div n < d
           /\ x \in Nat => x \div n \in Nat
  <1> DEFINE q == x \div n
  <1>1. q \in Int /\ n * q <= x /\ x < n * q + n
    OBVIOUS
  <1> HIDE DEF q
  <1>2. n * (q + 1) = n * q + n
    BY <1>1
  <1>3. ASSUME n * d <= x, ~(d <= q) PROVE FALSE
    <2>1. n * (q + 1) <= n * d
      BY <1>1, <1>3, TimesMonotonic
    <2>2. n * (q + 1) \in Int /\ n * d \in Int
      BY <1>1
    <2> QED
      BY <2>1, <2>2, <1>1, <1>2, <1>3
  <1>4. ASSUME x < n * d, ~(q < d) PROVE FALSE
    <2>1. n * d <= n * q
      BY <1>1, <1>4, TimesMonotonic
    <2>2. n * q \in Int /\ n * d \in Int
      BY <1>1
    <2> QED
      BY <2>1, <2>2, <1>1, <1>4
  <1>5. ASSUME x \in Nat, ~(q >= 0) PROVE FALSE
    <2>1. n * (q + 1) <= n * 0
      BY <1>1, <1>5, TimesMonotonic
    <2>2. n * (q + 1) \in Int
      BY <1>1
    <2> QED
      BY <2>1, <2>2, <1>1, <1>2, <1>5
  <1> QED
    BY <1>1, <1>3, <1>4, <1>5 DEF q

\* The time is a number of seconds, the sum of what the buffer holds and the
\* time since the last share.
LEMMA TotalType == ASSUME Typed PROVE Total \in Int /\ Count \in Nat \ {0}
  <1> DEFINE times == [i \in DOMAIN timeBuffer |-> timeBuffer[i].t]
  <1>1. DOMAIN timeBuffer = 1 .. Len(timeBuffer) /\ Len(timeBuffer) \in Nat
    BY DEF Typed
  <1>2. DOMAIN times = DOMAIN timeBuffer /\ \A i \in DOMAIN times : times[i] \in Int
    <2>1. \A i \in DOMAIN timeBuffer : timeBuffer[i] \in Entries
      BY <1>1 DEF Typed
    <2>2. \A e \in Entries : e.t \in Int
      BY DEF Entries
    <2> QED BY <2>1, <2>2
  <1>3. IsFiniteSet(DOMAIN times)
    BY <1>1, <1>2, FS_Interval
  <1> HIDE DEF times
  <1>4. SumFunction(times) \in Int
    BY <1>2, <1>3, SumType DEF SumFunction
  <1>5. Total \in Int
    BY <1>4 DEF Total, times, Typed
  <1> QED
    BY <1>1, <1>5 DEF Count

\* If shares come too fast more difficulty is wanted, if too slowly, less.
LEMMA WantedHelps ==
    ASSUME Typed, Total # 0
    PROVE  /\ Wanted \in Int
           /\ TooFast /\ Total > 0 => Wanted >= diff
           /\ TooSlow => Wanted <= diff
  <1> DEFINE n == TargetTime * Count
             x == diff * TargetTime * Count
             low == (TargetTime - Variance) * Count
             high == (TargetTime + Variance) * Count
  <1>1. /\ Total \in Int /\ Count \in Nat \ {0} /\ TargetTime \in Nat \ {0}
        /\ Variance \in 0 .. TargetTime /\ diff \in Nat \ {0}
    BY TotalType, TimesAssumption DEF Typed
  <1>2. x \in Nat /\ x = diff * n /\ n \in Nat /\ low \in Nat /\ high \in Nat
    <2>1. diff * TargetTime * Count = diff * (TargetTime * Count)
      BY <1>1
    <2>2. TargetTime * Count \in Nat
      BY <1>1
    <2>3. diff * (TargetTime * Count) \in Nat
      <3> HIDE DEF n
      <3>1. n \in Nat
        BY <2>2 DEF n
      <3>2. diff * n \in Nat
        BY <3>1, <1>1
      <3> QED
        BY <3>2 DEF n
    <2>4. TargetTime - Variance \in Nat /\ TargetTime + Variance \in Nat
      BY <1>1
    <2>5. (TargetTime - Variance) * Count \in Nat /\ (TargetTime + Variance) * Count \in Nat
      BY <1>1, <2>4
    <2> QED
      BY <2>1, <2>2, <2>3, <2>5
  <1>3. low <= n /\ n <= high
    <2>1. Count * (TargetTime - Variance) <= Count * TargetTime
      BY <1>1, TimesMonotonic
    <2>2. Count * TargetTime <= Count * (TargetTime + Variance)
      BY <1>1, TimesMonotonic
    <2> QED
      BY <2>1, <2>2, <1>1
  <1>4. /\ Wanted = IF Total > 0 THEN x \div Total ELSE -(x \div (-Total))
        /\ TooFast <=> Total < low
        /\ TooSlow <=> Total > high
    BY DEF Wanted, TooFast, TooSlow
  <1> HIDE DEF n, x, low, high
  <1>5. CASE Total > 0
    <2>1. Wanted = x \div Total /\ Total \in Nat \ {0}
      BY <1>1, <1>4, <1>5
    <2>2. /\ x \div Total \in Int
          /\ Total * diff <= x => diff <= x \div Total
          /\ x < Total * (diff + 1) => x \div Total < diff + 1
      BY <1>1, <1>2, <2>1, Quotient
    <2>3. ASSUME TooFast PROVE Total * diff <= x
      <3>1. Total <= n
        BY <1>1, <1>2, <1>3, <1>4, <2>3
      <3>2. diff * Total <= diff * n
        BY <3>1, <1>1, <1>2, TimesMonotonic
      <3> QED
        BY <3>2, <1>1, <1>2
    <2>4. ASSUME TooSlow PROVE x < Total * (diff + 1)
      <3>1. n <= Total
        BY <1>1, <1>2, <1>3, <1>4, <2>4
      <3>2. diff * n <= diff * Total
        BY <3>1, <1>1, <1>2, TimesMonotonic
      <3>3. Total * (diff + 1) = diff * Total + Total /\ diff * Total \in Int
        BY <1>1
      <3> QED
        BY <3>2, <3>3, <1>1, <1>2, <1>5
    <2> QED
      BY <1>1, <2>1, <2>2, <2>3, <2>4
  <1>6. CASE Total < 0
    <2>1. -Total \in Nat \ {0} /\ Wanted = -(x \div (-Total))
      BY <1>1, <1>4, <1>6
    <2>2. x \div (-Total) \in Int
      BY <1>2, <2>1, Quotient
    <2>3. ~TooSlow
      BY <1>1, <1>2, <1>4, <1>6
    <2> QED
      BY <1>1, <1>6, <2>1, <2>2, <2>3
  <1> QED
    BY <1>1, <1>5, <1>6

\* What the retarget of a difficulty that is due comes to, whichever way it is
\* limited and clamped (VarDiffManager.Update).
LEMMA RetargetedHelps ==
    ASSUME Typed, Due
    PROVE  /\ InBounds(Retargeted) \/ Retargeted = diff
           /\ Retargeted \in Nat \ {0}
           /\ InBounds(diff) =>
                /\ Retargeted > diff => TooFast
                /\ Retargeted < diff => TooSlow \/ Total < 0
                /\ MaxDelta > 0 => Retargeted \in diff - MaxDelta .. diff + MaxDelta
  <1>1. /\ MinDiff \in Nat \ {0} /\ MaxDiff \in Nat /\ MinDiff <= MaxDiff /\ MaxDelta \in Nat
        /\ diff \in Nat \ {0} /\ Total \in Int
    BY DiffsAssumption, TotalType DEF Typed
  <1>2. TooFast \/ TooSlow
    BY DEF Due
  <1>3. CASE Total = 0
    <2>1. ~TooSlow
      <3>1. TargetTime + Variance \in Nat /\ Count \in Nat
        BY TimesAssumption, TotalType
      <3>2. (TargetTime + Variance) * Count >= 0
        BY <3>1
      <3> QED
        BY <3>1, <3>2, <1>3 DEF TooSlow
    <2> QED
      BY <1>1, <1>2, <1>3, <2>1 DEF Retargeted, InBounds
  <1>4. CASE Total # 0
    <2>1. /\ Wanted \in Int
          /\ TooFast /\ Total > 0 => Wanted >= diff
          /\ TooSlow => Wanted <= diff
      BY <1>4, WantedHelps
    <2>2. Retargeted = Clamped(Limited(Wanted))
      BY <1>4 DEF Retargeted
    <2> DEFINE d == Limited(Wanted)
    <2>3. /\ d \in Int
          /\ Wanted >= diff => d >= diff
          /\ Wanted <= diff => d <= diff
          /\ MaxDelta > 0 => d \in diff - MaxDelta .. diff + MaxDelta
      BY <1>1, <2>1 DEF Limited, Smaller, Larger
    <2> HIDE DEF d
    <2>4. /\ InBounds(Clamped(d)) /\ Clamped(d) \in Nat \ {0}
          /\ InBounds(diff) =>
               /\ Clamped(d) > diff => d > diff
               /\ Clamped(d) < diff => d < diff
               /\ MaxDelta > 0 /\ d \in diff - MaxDelta .. diff + MaxDelta =>
                      Clamped(d) \in diff - MaxDelta .. diff + MaxDelta
      BY <1>1, <2>3 DEF Clamped, Smaller, Larger, InBounds
    <2>5. Retargeted = Clamped(d)
      BY <2>2 DEF d
    <2>6. InBounds(diff) /\ Retargeted > diff => TooFast
      BY <1>1, <1>2, <2>1, <2>3, <2>4, <2>5
    <2>7. InBounds(diff) /\ Retargeted < diff => TooSlow \/ Total < 0
      BY <1>1, <1>2, <1>4, <2>1, <2>3, <2>4, <2>5
    <2> QED
      BY <2>3, <2>4, <2>5, <2>6, <2>7
  <1> QED
    BY <1>3, <1>4

-----------------------------------------------------------------------------
(* The invariant.                                                          *)

\* What Added adds is the new entry, and what it drops is the oldest one
\* (VarDiffManager.Update, CircularBuffer.PushBack).
LEMMA Pushed ==
    ASSUME timeBuffer \in Seq(Entries), NEW e \in Entries
    PROVE  /\ Added(e) \in Seq(Entries)
           /\ \A i \in DOMAIN Added(e) :
                 Added(e)[i] = e \/ \E j \in DOMAIN timeBuffer : Added(e)[i] = timeBuffer[j]
  <1>1. BufferSize \in Nat \ {0}
    BY TimesAssumption
  <1>2. CASE Len(timeBuffer) = BufferSize
    <2>1. timeBuffer # <<>>
      BY <1>1, <1>2
    <2>2. Tail(timeBuffer) \in Seq(Entries) /\ Len(Tail(timeBuffer)) = Len(timeBuffer) - 1
      BY <2>1
    <2>3. \A i \in 1 .. Len(timeBuffer) - 1 : Tail(timeBuffer)[i] = timeBuffer[i + 1]
      BY <2>1
    <2>4. Added(e) = Append(Tail(timeBuffer), e)
      BY <1>2 DEF Added
    <2>5. /\ Append(Tail(timeBuffer), e) \in Seq(Entries)
          /\ DOMAIN Append(Tail(timeBuffer), e) = 1 .. Len(timeBuffer)
      BY <2>2
    <2>6. ASSUME NEW i \in 1 .. Len(timeBuffer)
          PROVE  \/ Append(Tail(timeBuffer), e)[i] = e
                 \/ \E j \in DOMAIN timeBuffer : Append(Tail(timeBuffer), e)[i] = timeBuffer[j]
      <3>1. DOMAIN timeBuffer = 1 .. Len(timeBuffer)
        OBVIOUS
      <3> DEFINE n == Len(timeBuffer)
      <3>2. n \in Nat /\ i \in 1 .. n
        BY <2>6
      <3> HIDE DEF n
      <3>3. CASE i = n
        BY <3>2, <3>3, <2>2 DEF n
      <3>4. CASE i # n
        <4>1. i \in 1 .. n - 1 /\ i + 1 \in 1 .. n
          BY <3>2, <3>4
        <4>2. i \in 1 .. Len(Tail(timeBuffer))
          BY <4>1, <2>2 DEF n
        <4>3. Append(Tail(timeBuffer), e)[i] = Tail(timeBuffer)[i]
          BY <4>2, <2>2
        <4> QED BY <4>1, <4>3, <3>1, <2>3 DEF n
      <3> QED BY <3>3, <3>4
    <2> QED BY <2>4, <2>5, <2>6
  <1>3. CASE Len(timeBuffer) # BufferSize
    BY <1>1, <1>3 DEF Added
  <1> QED BY <1>2, <1>3

LEMMA IInvInit == Init => IInv
  <1> SUFFICES ASSUME Init PROVE IInv
    OBVIOUS
  <1>1. <<>> \in Seq(Entries) /\ StartDiffs \subseteq Nat \ {0}
    BY DiffsAssumption
  <1> QED BY <1>1 DEF Init, IInv, Typed, EmptyWhileChanging, BufferIsFresh, NeverAbandoned

\* An update leaves entries of the present difficulty, and none if that is to
\* change (VarDiffManager.Update).
LEMMA Updated ==
    ASSUME IInv, varDiff, newDiff = 0, NEW idle \in BOOLEAN, Update(idle)
    PROVE  /\ timeBuffer' \in Seq(Entries) /\ age' \in Int /\ newDiff' \in Nat
           /\ newDiff' # 0 => timeBuffer' = <<>> /\ Due /\ newDiff' = Retargeted /\ Retargeted # diff
           /\ \A i \in DOMAIN timeBuffer' : timeBuffer'[i].d = diff
  <1> DEFINE e == [t |-> age, d |-> diff]
             changes == started /\ Due /\ Retargeted # diff
  <1>1. age' \in Int
    BY DEF Update, IInv, Typed
  <1>2. CASE changes
    <2>1. timeBuffer' = <<>> /\ newDiff' = Retargeted
      BY <1>2 DEF Update
    <2>2. Retargeted \in Nat
      BY <1>2, RetargetedHelps DEF IInv
    <2>3. <<>> \in Seq(Entries) /\ DOMAIN <<>> = {}
      OBVIOUS
    <2> QED BY <1>1, <1>2, <2>1, <2>2, <2>3
  <1>3. CASE ~changes
    <2>1. newDiff' = 0
      BY <1>3 DEF Update
    <2>2. CASE timeBuffer' = <<>>
      <3>1. <<>> \in Seq(Entries) /\ DOMAIN <<>> = {}
        OBVIOUS
      <3> QED BY <1>1, <2>1, <2>2, <3>1
    <2>3. CASE timeBuffer' = timeBuffer
      BY <1>1, <2>1, <2>3 DEF IInv, Typed, BufferIsFresh
    <2>4. CASE timeBuffer' = Added(e)
      <3>1. timeBuffer \in Seq(Entries) /\ e \in Entries
        BY DEF IInv, Typed, Entries
      <3> HIDE DEF e
      <3>2. /\ Added(e) \in Seq(Entries)
            /\ \A i \in DOMAIN Added(e) :
                  Added(e)[i] = e \/ \E j \in DOMAIN timeBuffer : Added(e)[i] = timeBuffer[j]
        BY <3>1, Pushed
      <3>3. e.d = diff /\ \A j \in DOMAIN timeBuffer : timeBuffer[j].d = diff
        BY DEF e, IInv, BufferIsFresh
      <3> QED BY <1>1, <2>1, <2>4, <3>2, <3>3
    <2> QED BY <1>3, <2>2, <2>3, <2>4 DEF Update
  <1> QED BY <1>2, <1>3

LEMMA PublishShareInv ==
    ASSUME IInv, PublishShare PROVE IInv'
  BY DEF IInv, Typed, EmptyWhileChanging, BufferIsFresh, NeverAbandoned, PublishShare, others

LEMMA UpdateVarDiffInv ==
    ASSUME IInv, UpdateVarDiff PROVE IInv'
  <1> USE DEF IInv, UpdateVarDiff, others
  <1>1. CASE varDiff
    <2>1. /\ timeBuffer' \in Seq(Entries) /\ age' \in Int /\ newDiff' \in Nat
          /\ newDiff' # 0 => timeBuffer' = <<>>
          /\ \A i \in DOMAIN timeBuffer' : timeBuffer'[i].d = diff
      BY <1>1, Updated
    <2>2. Typed'
      BY <2>1 DEF Typed
    <2>3. EmptyWhileChanging' /\ BufferIsFresh'
      BY <2>1 DEF EmptyWhileChanging, BufferIsFresh
    <2>4. NeverAbandoned'
      BY <1>1 DEF NeverAbandoned
    <2> QED BY <2>2, <2>3, <2>4
  <1>2. CASE ~varDiff
    BY <1>2 DEF Typed, EmptyWhileChanging, BufferIsFresh, NeverAbandoned
  <1> QED BY <1>1, <1>2

LEMMA IdleUpdateInv ==
    ASSUME IInv, IdleUpdate PROVE IInv'
  <1> USE DEF IInv, IdleUpdate, others
  <1>1. CASE varDiff
    <2>1. /\ timeBuffer' \in Seq(Entries) /\ age' \in Int /\ newDiff' \in Nat
          /\ newDiff' # 0 => timeBuffer' = <<>>
          /\ \A i \in DOMAIN timeBuffer' : timeBuffer'[i].d = diff
      BY <1>1, Updated
    <2>2. Typed'
      BY <2>1 DEF Typed
    <2>3. EmptyWhileChanging' /\ BufferIsFresh'
      BY <2>1 DEF EmptyWhileChanging, BufferIsFresh
    <2>4. NeverAbandoned'
      BY <1>1 DEF NeverAbandoned
    <2> QED BY <2>2, <2>3, <2>4
  <1>2. CASE ~varDiff
    BY <1>2 DEF Typed, EmptyWhileChanging, BufferIsFresh, NeverAbandoned
  <1> QED BY <1>1, <1>2

LEMMA ApplyPendingDifficultyInv ==
    ASSUME IInv, ApplyPendingDifficulty PROVE IInv'
  <1>1. timeBuffer = <<>> /\ DOMAIN timeBuffer = {}
    BY DEF IInv, EmptyWhileChanging, ApplyPendingDifficulty
  <1>2. Typed'
    BY DEF IInv, Typed, ApplyPendingDifficulty, others
  <1>3. EmptyWhileChanging' /\ BufferIsFresh' /\ NeverAbandoned'
    BY <1>1 DEF IInv, EmptyWhileChanging, BufferIsFresh, NeverAbandoned, ApplyPendingDifficulty, others
  <1> QED BY <1>2, <1>3 DEF IInv

LEMMA StaticDiffInv ==
    ASSUME IInv, NEW d \in StaticDiffs, StaticDiff(d) PROVE IInv'
  <1>1. d \in Nat \ {0}
    <2>1. d \in Nat /\ MinDiff \in Nat \ {0}
      BY DiffsAssumption
    <2>2. IF varDiff THEN d >= MinDiff ELSE d > diff
      BY DEF StaticDiff
    <2> QED BY <2>1, <2>2 DEF IInv, Typed
  <1> QED BY <1>1 DEF IInv, Typed, EmptyWhileChanging, BufferIsFresh, NeverAbandoned, StaticDiff, others

LEMMA TickInv ==
    ASSUME IInv, Tick PROVE IInv'
  BY DEF IInv, Typed, EmptyWhileChanging, BufferIsFresh, NeverAbandoned, Tick, others

LEMMA StepBackInv ==
    ASSUME IInv, NEW k \in 1 .. MaxBack, StepBack(k) PROVE IInv'
  BY TimesAssumption DEF IInv, Typed, EmptyWhileChanging, BufferIsFresh, NeverAbandoned, StepBack

LEMMA IInvStep == IInv /\ [Next]_vars => IInv'
  <1> SUFFICES ASSUME IInv, [Next]_vars PROVE IInv'
    OBVIOUS
  <1>1. CASE UNCHANGED vars
    BY <1>1 DEF IInv, Typed, EmptyWhileChanging, BufferIsFresh, NeverAbandoned, vars
  <1>2. CASE Next
    BY <1>2, PublishShareInv, UpdateVarDiffInv, IdleUpdateInv, ApplyPendingDifficultyInv,
       StaticDiffInv, TickInv, StepBackInv DEF Next
  <1> QED BY <1>1, <1>2

LEMMA IInvHolds == Spec => []IInv
  BY IInvInit, IInvStep, PTL DEF Spec

\* A worker whose difficulty is adjusted is never left without a timer and
\* without an update on its way, however shares, timers and updates interleave
\* (PoolBase.UpdateVarDiff, StartVarDiffIdleUpdate).
THEOREM WorkersAreWatched == Spec => []NeverAbandoned
  <1>1. IInv => NeverAbandoned
    BY DEF IInv
  <1> QED BY <1>1, IInvHolds, PTL

\* The intervals a retarget averages were all measured at the difficulty it
\* starts from, for every size of the buffer and wherever the clock is set
\* (VarDiffManager.Update).
THEOREM AveragesAreOfOneDifficulty == Spec => []BufferIsFresh
  <1>1. IInv => BufferIsFresh
    BY DEF IInv
  <1> QED BY <1>1, IInvHolds, PTL

\* Only an update begins a retarget.
LEMMA RetargetStepHolds == IInv /\ [Next]_vars => RetargetStep
  <1> SUFFICES ASSUME IInv, [Next]_vars, newDiff = 0, newDiff' # 0 PROVE RetargetStep
    BY DEF RetargetStep
  <1>1. varDiff /\ \E idle \in BOOLEAN : Update(idle)
    BY DEF Next, vars, PublishShare, UpdateVarDiff, IdleUpdate, ApplyPendingDifficulty, StaticDiff,
           Tick, StepBack
  <1>2. Due /\ newDiff' = Retargeted /\ Retargeted # diff
    BY <1>1, Updated
  <1> QED BY <1>1, <1>2, RetargetedHelps DEF RetargetStep, IInv

\* For every band, every delta and every history of intervals a retarget ends
\* within the bounds, raises the difficulty only of a worker that is too fast and
\* lowers it only of one that is too slow, by MaxDelta at most; none begins after
\* a static difficulty (VarDiffManager.Update, AionPool.OnAuthorize).
THEOREM RetargetsHelp == Spec => RetargetHelps
  <1>1. IInv /\ [Next]_vars => [RetargetStep]_vars
    BY RetargetStepHolds
  <1> QED BY <1>1, IInvHolds, PTL DEF Spec, RetargetHelps

-----------------------------------------------------------------------------
(* The ring buffer.  The k-th item is at position At(start, k), which names *)
(* each slot once; the end is the position behind the last item, and slots  *)
(* that hold no item hold the default value.                                *)

Values == Items \cup {Default}

\* InternalIndex, counted from any start.
At(s, k) == s + (IF k < Capacity - s THEN k ELSE k - Capacity)

BufferInv ==
    /\ start \in Slots /\ size \in 0 .. Capacity
    /\ buffer \in [Slots -> Values]
    /\ end = IF size = Capacity THEN start ELSE At(start, size)
    /\ \A k \in size .. Capacity - 1 : buffer[At(start, k)] = Default

USE CapacityAssumption

-----------------------------------------------------------------------------
(* Positions.                                                              *)

\* The positions of two items are two slots of the array
\* (CircularBuffer.InternalIndex).
LEMMA AtSlot ==
    ASSUME NEW s \in Slots
    PROVE  /\ \A k \in Slots : At(s, k) \in Slots
           /\ \A j, k \in Slots : At(s, j) = At(s, k) => j = k
  BY DEF At, Slots

\* From the next start on every item is one place nearer, and the first one is
\* the last (CircularBuffer.Increment).
LEMMA AtIncremented ==
    ASSUME NEW s \in Slots
    PROVE  /\ Incremented(s) \in Slots
           /\ \A k \in 0 .. Capacity - 2 : At(Incremented(s), k) = At(s, k + 1)
           /\ At(Incremented(s), Capacity - 1) = s
           /\ At(s, 0) = s
           /\ \A k \in Slots : Incremented(At(s, k)) =
                 IF k = Capacity - 1 THEN s ELSE At(s, k + 1)
  BY DEF At, Slots, Incremented

\* From the start before every item is one place further (CircularBuffer.Decrement).
LEMMA AtDecremented ==
    ASSUME NEW s \in Slots
    PROVE  /\ Decremented(s) \in Slots
           /\ \A k \in 1 .. Capacity - 1 : At(Decremented(s), k) = At(s, k - 1)
           /\ At(Decremented(s), 0) = Decremented(s)
           /\ At(s, Capacity - 1) = Decremented(s)
           /\ \A k \in 1 .. Capacity - 1 : Decremented(At(s, k)) = At(s, k - 1)
  BY DEF At, Slots, Decremented

\* The n items from the start s on.
ItemsFrom(b, s, n) == [i \in 1 .. n |-> b[At(s, i - 1)]]

LEMMA ItemsShape ==
    ASSUME NEW s \in Slots, NEW n \in 0 .. Capacity, NEW b \in [Slots -> Values]
    PROVE  /\ ItemsFrom(b, s, n) \in Seq(Values) /\ Len(ItemsFrom(b, s, n)) = n
           /\ \A i \in 1 .. n : ItemsFrom(b, s, n)[i] = b[At(s, i - 1)]
  <1>1. \A i \in 1 .. n : i - 1 \in Slots
    BY DEF Slots
  <1>2. \A i \in 1 .. n : b[At(s, i - 1)] \in Values
    BY <1>1, AtSlot
  <1>3. n \in Nat
    OBVIOUS
  <1> QED BY <1>2, <1>3 DEF ItemsFrom

\* Contents, before and after a step.
LEMMA ContentsAreItems ==
    /\ Contents = ItemsFrom(buffer, start, size)
    /\ Contents' = ItemsFrom(buffer', start', size')
  BY DEF Contents, ItemsFrom, Get, InternalIndex, At

LEMMA ContentsShape ==
    /\ BufferInv => /\ Contents \in Seq(Values) /\ Len(Contents) = size
               /\ \A i \in 1 .. size : Contents[i] = buffer[At(start, i - 1)]
    /\ BufferInv' => /\ Contents' \in Seq(Values) /\ Len(Contents') = size'
                /\ \A i \in 1 .. size' : Contents'[i] = buffer'[At(start', i - 1)]
  <1>1. ASSUME BufferInv
        PROVE  /\ Contents \in Seq(Values) /\ Len(Contents) = size
               /\ \A i \in 1 .. size : Contents[i] = buffer[At(start, i - 1)]
    <2>1. start \in Slots /\ size \in 0 .. Capacity /\ buffer \in [Slots -> Values]
      BY <1>1 DEF BufferInv
    <2> QED BY <2>1, ItemsShape, ContentsAreItems
  <1>2. ASSUME BufferInv'
        PROVE  /\ Contents' \in Seq(Values) /\ Len(Contents') = size'
               /\ \A i \in 1 .. size' : Contents'[i] = buffer'[At(start', i - 1)]
    <2>1. start' \in Slots /\ size' \in 0 .. Capacity /\ buffer' \in [Slots -> Values]
      BY <1>2 DEF BufferInv
    <2> QED BY <2>1, ItemsShape, ContentsAreItems
  <1> QED BY <1>1, <1>2

-----------------------------------------------------------------------------
(* The operations.                                                         *)

LEMMA PushBackStep ==
    ASSUME BufferInv, NEW x \in Items, PushBack(x)
    PROVE  BufferInv' /\ D!PushBack(x)
  <1>1. /\ Contents \in Seq(Values) /\ Len(Contents) = size
        /\ \A i \in 1 .. size : Contents[i] = buffer[At(start, i - 1)]
    BY ContentsShape
  <1>2. x \in Values
    BY DEF Values
  <1>3. CASE size = Capacity
    <2>1. /\ end = start /\ start' = Incremented(start) /\ end' = Incremented(start)
          /\ size' = size /\ buffer' = [buffer EXCEPT ![start] = x]
      BY <1>3 DEF BufferInv, PushBack, IsFull
    <2>2. BufferInv'
      BY <1>3, <2>1, <1>2, AtIncremented DEF BufferInv
    <2>3. /\ Contents' \in Seq(Values) /\ Len(Contents') = size
          /\ \A i \in 1 .. size : Contents'[i] = buffer'[At(start', i - 1)]
      BY <2>1, <2>2, ContentsShape
    <2>4. /\ Append(Tail(Contents), x) \in Seq(Values) /\ Len(Append(Tail(Contents), x)) = size
          /\ \A i \in 1 .. size - 1 : Append(Tail(Contents), x)[i] = Contents[i + 1]
          /\ Append(Tail(Contents), x)[size] = x
      BY <1>1, <1>2, <1>3
    <2>5. ASSUME NEW i \in 1 .. size - 1 PROVE Contents'[i] = Contents[i + 1]
      <3>1. i \in Slots /\ i - 1 \in 0 .. Capacity - 2 /\ i \in 1 .. size /\ i + 1 \in 1 .. size
        BY <1>3 DEF Slots
      <3>2. Contents'[i] = buffer'[At(start', i - 1)] /\ Contents[i + 1] = buffer[At(start, i + 1 - 1)]
        BY <3>1, <2>3, <1>1
      <3>3. At(start', i - 1) = At(start, i - 1 + 1)
        BY <3>1, <2>1, AtIncremented DEF BufferInv
      <3>4. i - 1 + 1 = i /\ i + 1 - 1 = i
        BY <3>1
      <3>5. At(start, i) \in Slots /\ At(start, i) # start
        <4>1. start \in Slots /\ 0 \in Slots /\ i # 0
          BY <3>1 DEF BufferInv, Slots
        <4>2. At(start, 0) = start
          BY <4>1, AtIncremented
        <4> QED BY <3>1, <4>1, <4>2, AtSlot
      <3> QED BY <3>2, <3>3, <3>4, <3>5, <2>1 DEF BufferInv
    <2>6. Contents'[size] = x
      <3>1. Contents'[size] = buffer'[At(start', Capacity - 1)]
        BY <1>3, <2>3
      <3> QED BY <3>1, <2>1, AtIncremented DEF BufferInv
    <2>7. Contents' = Append(Tail(Contents), x)
      BY <2>3, <2>4, <2>5, <2>6, SeqEqual
    <2> QED BY <2>2, <2>7, <1>1, <1>3 DEF D!PushBack
  <1>4. CASE size # Capacity
    <2>1. /\ end = At(start, size) /\ start' = start /\ end' = Incremented(end)
          /\ size' = size + 1 /\ buffer' = [buffer EXCEPT ![end] = x]
      BY <1>4 DEF BufferInv, PushBack, IsFull
    <2>2. size \in Slots /\ end \in Slots
      <3>1. size \in Slots /\ start \in Slots
        BY <1>4 DEF BufferInv, Slots
      <3> QED BY <3>1, <2>1, AtSlot
    <2>3. \A k \in Slots : k # size => buffer'[At(start, k)] = buffer[At(start, k)]
      BY <2>1, <2>2, AtSlot DEF BufferInv
    <2>4. BufferInv'
      <3>1. buffer' \in [Slots -> Values] /\ start' \in Slots /\ size' \in 0 .. Capacity
        BY <2>1, <2>2, <1>2 DEF BufferInv, Slots
      <3>2. end' = IF size' = Capacity THEN start' ELSE At(start', size')
        <4>1. start \in Slots /\ (size' = Capacity <=> size = Capacity - 1)
          BY <2>1, <2>2 DEF BufferInv, Slots
        <4> QED BY <4>1, <2>1, <2>2, AtIncremented
      <3>3. \A k \in size' .. Capacity - 1 : buffer'[At(start', k)] = Default
        BY <2>1, <2>2, <2>3 DEF BufferInv, Slots
      <3> QED BY <3>1, <3>2, <3>3 DEF BufferInv
    <2>5. /\ Contents' \in Seq(Values) /\ Len(Contents') = size + 1
          /\ \A i \in 1 .. size + 1 : Contents'[i] = buffer'[At(start, i - 1)]
      BY <2>1, <2>4, ContentsShape
    <2>6. /\ Append(Contents, x) \in Seq(Values) /\ Len(Append(Contents, x)) = size + 1
          /\ \A i \in 1 .. size : Append(Contents, x)[i] = Contents[i]
          /\ Append(Contents, x)[size + 1] = x
      BY <1>1, <1>2
    <2>7. ASSUME NEW i \in 1 .. size PROVE Contents'[i] = Contents[i]
      <3>1. i - 1 \in Slots /\ i - 1 # size /\ i \in 1 .. size + 1
        BY <2>2 DEF Slots
      <3> QED BY <3>1, <2>3, <2>5, <1>1
    <2>8. Contents'[size + 1] = x
      <3>1. Contents'[size + 1] = buffer'[At(start, size + 1 - 1)]
        BY <2>2, <2>5 DEF Slots
      <3>2. size + 1 - 1 = size
        BY <2>2 DEF Slots
      <3> QED BY <3>1, <3>2, <2>1, <2>2 DEF BufferInv
    <2>9. Contents' = Append(Contents, x)
      <3>1. \A i \in 1 .. size + 1 : i \in 1 .. size \/ i = size + 1
        BY <2>2 DEF Slots
      <3> QED BY <3>1, <2>5, <2>6, <2>7, <2>8, SeqEqual
    <2> QED BY <2>4, <2>9, <1>1, <1>4 DEF D!PushBack
  <1> QED BY <1>3, <1>4

LEMMA PushFrontStep ==
    ASSUME BufferInv, NEW x \in Items, PushFront(x)
    PROVE  BufferInv' /\ D!PushFront(x)
  <1> DEFINE full == size = Capacity
             n == IF full THEN Capacity ELSE size + 1
             rest == IF full THEN SubSeq(Contents, 1, Capacity - 1) ELSE Contents
  <1>1. /\ Contents \in Seq(Values) /\ Len(Contents) = size
        /\ \A i \in 1 .. size : Contents[i] = buffer[At(start, i - 1)]
    BY ContentsShape
  <1>2. x \in Values
    BY DEF Values
  <1>3. /\ start' = Decremented(start) /\ size' = n
        /\ buffer' = [buffer EXCEPT ![Decremented(start)] = x]
        /\ end' = IF full THEN Decremented(start) ELSE end
    BY DEF BufferInv, PushFront, IsFull
  <1>4. start \in Slots /\ start' \in Slots /\ size \in 0 .. Capacity /\ n \in 1 .. Capacity
    BY <1>3, AtDecremented DEF BufferInv, Slots
  <1>5. ASSUME NEW k \in 1 .. Capacity - 1
        PROVE  buffer'[At(start', k)] = buffer[At(start, k - 1)]
    <2>1. k \in Slots /\ 0 \in Slots /\ k # 0 /\ k - 1 \in Slots
      BY DEF Slots
    <2>2. At(start', k) = At(start, k - 1) /\ At(start', 0) = start'
      BY <1>3, <1>4, AtDecremented
    <2>3. At(start', k) # start' /\ At(start', k) \in Slots
      BY <2>1, <2>2, <1>4, AtSlot
    <2> QED BY <2>2, <2>3, <1>3 DEF BufferInv
  <1>6. buffer'[At(start', 0)] = x
    BY <1>3, <1>4, AtDecremented DEF BufferInv
  <1>7. BufferInv'
    <2>1. buffer' \in [Slots -> Values] /\ size' \in 0 .. Capacity
      BY <1>2, <1>3, <1>4 DEF BufferInv
    <2>2. end' = IF size' = Capacity THEN start' ELSE At(start', size')
      <3>1. CASE full
        BY <3>1, <1>3
      <3>2. CASE ~full
        <4>1. end = At(start, size) /\ end' = end /\ size' = size + 1
          BY <3>2, <1>3 DEF BufferInv
        <4>2. CASE size + 1 = Capacity
          BY <4>1, <4>2, <1>3, <1>4, AtDecremented
        <4>3. CASE size + 1 # Capacity
          <5>1. size + 1 \in 1 .. Capacity - 1 /\ size + 1 - 1 = size
            BY <4>3, <3>2, <1>4
          <5>2. At(start', size + 1) = At(start, size + 1 - 1)
            BY <5>1, <1>3, <1>4, AtDecremented
          <5> QED BY <4>1, <4>3, <5>1, <5>2
        <4> QED BY <4>2, <4>3
      <3> QED BY <3>1, <3>2
    <2>3. ASSUME NEW k \in size' .. Capacity - 1 PROVE buffer'[At(start', k)] = Default
      <3>1. k \in 1 .. Capacity - 1 /\ k - 1 \in size .. Capacity - 1
        BY <1>3, <1>4
      <3> QED BY <3>1, <1>5 DEF BufferInv
    <2> QED BY <2>1, <2>2, <2>3, <1>4 DEF BufferInv
  <1>8. /\ Contents' \in Seq(Values) /\ Len(Contents') = n
        /\ \A i \in 1 .. n : Contents'[i] = buffer'[At(start', i - 1)]
    BY <1>7, <1>3, ContentsShape
  <1>9. /\ rest \in Seq(Values) /\ Len(rest) = n - 1
        /\ \A i \in 1 .. n - 1 : rest[i] = Contents[i]
    BY <1>1, <1>4
  <1>10. /\ <<x>> \o rest \in Seq(Values) /\ Len(<<x>> \o rest) = n
         /\ (<<x>> \o rest)[1] = x
         /\ \A i \in 2 .. n : (<<x>> \o rest)[i] = rest[i - 1]
    <2> HIDE DEF n, rest
    <2> QED BY <1>2, <1>4, <1>9
  <1>11. ASSUME NEW i \in 1 .. n PROVE Contents'[i] = (<<x>> \o rest)[i]
    <2>1. CASE i = 1
      <3>1. i - 1 = 0
        BY <2>1
      <3> QED BY <2>1, <3>1, <1>6, <1>8, <1>10
    <2>2. CASE i # 1
      <3> HIDE DEF n, rest
      <3>1. /\ i \in 2 .. n /\ i - 1 \in 1 .. n - 1 /\ i - 1 \in 1 .. Capacity - 1
            /\ i - 1 \in 1 .. size
        BY <2>2, <1>4 DEF n
      <3>2. Contents'[i] = buffer[At(start, i - 1 - 1)]
        BY <3>1, <1>5, <1>8
      <3>3. Contents[i - 1] = buffer[At(start, i - 1 - 1)]
        BY <3>1, <1>1
      <3> QED BY <3>1, <3>2, <3>3, <1>9, <1>10
    <2> QED BY <2>1, <2>2
  <1>12. Contents' = <<x>> \o rest
    <2> HIDE DEF n, rest
    <2> QED BY <1>8, <1>10, <1>11, SeqEqual
  <1> QED BY <1>7, <1>12, <1>1 DEF D!PushFront

LEMMA PopBackStep ==
    ASSUME BufferInv, PopBack
    PROVE  BufferInv' /\ D!PopBack
  <1>1. /\ Contents \in Seq(Values) /\ Len(Contents) = size
        /\ \A i \in 1 .. size : Contents[i] = buffer[At(start, i - 1)]
    BY ContentsShape
  <1>2. size \in 1 .. Capacity /\ start \in Slots /\ size - 1 \in Slots
    BY DEF BufferInv, PopBack, IsEmpty, Slots
  <1>3. Decremented(end) = At(start, size - 1)
    <2>1. CASE size = Capacity
      BY <2>1, <1>2, AtDecremented DEF BufferInv
    <2>2. CASE size # Capacity
      <3>1. end = At(start, size) /\ size \in 1 .. Capacity - 1
        BY <2>2, <1>2 DEF BufferInv
      <3> QED BY <3>1, <1>2, AtDecremented
    <2> QED BY <2>1, <2>2
  <1>4. At(start, size - 1) \in Slots
    BY <1>2, AtSlot
  <1>5. /\ start' = start /\ size' = size - 1 /\ end' = At(start, size - 1)
        /\ buffer' = [buffer EXCEPT ![At(start, size - 1)] = Default]
    BY <1>3 DEF PopBack
  <1>6. \A k \in Slots : k # size - 1 => buffer'[At(start, k)] = buffer[At(start, k)]
    BY <1>2, <1>4, <1>5, AtSlot DEF BufferInv
  <1>7. buffer'[At(start, size - 1)] = Default
    BY <1>4, <1>5 DEF BufferInv
  <1>8. BufferInv'
    <2>1. buffer' \in [Slots -> Values] /\ size' \in 0 .. Capacity /\ size' # Capacity
      <3>1. buffer' \in [Slots -> Values]
        BY <1>4, <1>5 DEF BufferInv, Values
      <3>2. size' \in 0 .. Capacity /\ size' # Capacity
        BY <1>2, <1>5
      <3> QED BY <3>1, <3>2
    <2>2. ASSUME NEW k \in size' .. Capacity - 1 PROVE buffer'[At(start', k)] = Default
      <3>1. k \in Slots /\ (k = size - 1 \/ (k # size - 1 /\ k \in size .. Capacity - 1))
        BY <1>2, <1>5 DEF Slots
      <3> QED BY <3>1, <1>5, <1>6, <1>7 DEF BufferInv
    <2> QED BY <2>1, <2>2, <1>2, <1>5 DEF BufferInv
  <1>9. /\ Contents' \in Seq(Values) /\ Len(Contents') = size - 1
        /\ \A i \in 1 .. size - 1 : Contents'[i] = buffer'[At(start, i - 1)]
    BY <1>8, <1>5, ContentsShape
  <1>10. /\ SubSeq(Contents, 1, size - 1) \in Seq(Values)
         /\ Len(SubSeq(Contents, 1, size - 1)) = size - 1
         /\ \A i \in 1 .. size - 1 : SubSeq(Contents, 1, size - 1)[i] = Contents[i]
    BY <1>1, <1>2
  <1>11. ASSUME NEW i \in 1 .. size - 1 PROVE Contents'[i] = Contents[i]
    <2>1. i - 1 \in Slots /\ i - 1 # size - 1 /\ i \in 1 .. size
      BY <1>2 DEF Slots
    <2> QED BY <2>1, <1>1, <1>6, <1>9
  <1>12. Contents' = SubSeq(Contents, 1, size - 1)
    BY <1>9, <1>10, <1>11, SeqEqual
  <1>13. Contents # <<>>
    BY <1>1, <1>2
  <1> QED BY <1>1, <1>8, <1>12, <1>13 DEF D!PopBack

LEMMA PopFrontStep ==
    ASSUME BufferInv, PopFront
    PROVE  BufferInv' /\ D!PopFront
  <1>1. /\ Contents \in Seq(Values) /\ Len(Contents) = size
        /\ \A i \in 1 .. size : Contents[i] = buffer[At(start, i - 1)]
    BY ContentsShape
  <1>2. size \in 1 .. Capacity /\ start \in Slots /\ start' \in Slots
    BY AtIncremented DEF BufferInv, PopFront, IsEmpty
  <1>3. /\ start' = Incremented(start) /\ size' = size - 1 /\ end' = end
        /\ buffer' = [buffer EXCEPT ![start] = Default]
    BY DEF PopFront
  <1>4. ASSUME NEW k \in 0 .. Capacity - 2
        PROVE  buffer'[At(start', k)] = buffer[At(start, k + 1)]
    <2>1. k + 1 \in Slots /\ 0 \in Slots /\ k + 1 # 0
      BY DEF Slots
    <2>2. At(start', k) = At(start, k + 1) /\ At(start, 0) = start
      BY <1>2, <1>3, AtIncremented
    <2>3. At(start, k + 1) # start /\ At(start, k + 1) \in Slots
      BY <2>1, <2>2, <1>2, AtSlot
    <2> QED BY <2>2, <2>3, <1>3 DEF BufferInv
  <1>5. buffer'[At(start', Capacity - 1)] = Default
    BY <1>2, <1>3, AtIncremented DEF BufferInv
  <1>6. BufferInv'
    <2>1. buffer' \in [Slots -> Values] /\ size' \in 0 .. Capacity /\ size' # Capacity
      BY <1>2, <1>3 DEF BufferInv, Values
    <2>2. end' = At(start', size')
      <3>1. CASE size = Capacity
        <4>1. end = start /\ size' = Capacity - 1
          BY <3>1, <1>3 DEF BufferInv
        <4> QED BY <4>1, <1>2, <1>3, AtIncremented
      <3>2. CASE size # Capacity
        <4>1. end = At(start, size) /\ size - 1 \in 0 .. Capacity - 2 /\ size - 1 + 1 = size
          BY <3>2, <1>2 DEF BufferInv
        <4> QED BY <4>1, <1>2, <1>3, AtIncremented
      <3> QED BY <3>1, <3>2
    <2>3. ASSUME NEW k \in size' .. Capacity - 1 PROVE buffer'[At(start', k)] = Default
      <3>1. CASE k = Capacity - 1
        BY <3>1, <1>5
      <3>2. CASE k # Capacity - 1
        <4>1. k \in 0 .. Capacity - 2 /\ k + 1 \in size .. Capacity - 1
          BY <3>2, <1>2, <1>3
        <4> QED BY <4>1, <1>4 DEF BufferInv
      <3> QED BY <3>1, <3>2
    <2> QED BY <2>1, <2>2, <2>3, <1>2 DEF BufferInv
  <1>7. /\ Contents' \in Seq(Values) /\ Len(Contents') = size - 1
        /\ \A i \in 1 .. size - 1 : Contents'[i] = buffer'[At(start', i - 1)]
    BY <1>6, <1>3, ContentsShape
  <1>8. Contents # <<>>
    BY <1>1, <1>2
  <1>9. /\ Tail(Contents) \in Seq(Values) /\ Len(Tail(Contents)) = size - 1
        /\ \A i \in 1 .. size - 1 : Tail(Contents)[i] = Contents[i + 1]
    BY <1>1, <1>2, <1>8
  <1>10. ASSUME NEW i \in 1 .. size - 1 PROVE Contents'[i] = Tail(Contents)[i]
    <2>1. i - 1 \in 0 .. Capacity - 2 /\ i + 1 \in 1 .. size /\ i - 1 + 1 = i + 1 - 1
      BY <1>2
    <2> QED BY <2>1, <1>1, <1>4, <1>7, <1>9
  <1>11. Contents' = Tail(Contents)
    BY <1>7, <1>9, <1>10, SeqEqual
  <1> QED BY <1>6, <1>8, <1>11 DEF D!PopFront

LEMMA SetStep ==
    ASSUME BufferInv, NEW x \in Items, NEW index \in Slots, Set(index, x)
    PROVE  BufferInv' /\ D!Set(index + 1, x)
  <1>1. /\ Contents \in Seq(Values) /\ Len(Contents) = size
        /\ \A i \in 1 .. size : Contents[i] = buffer[At(start, i - 1)]
    BY ContentsShape
  <1>2. /\ index < size /\ UNCHANGED <<start, end, size>>
        /\ buffer' = [buffer EXCEPT ![At(start, index)] = x]
    BY DEF Set, InternalIndex, At
  <1>3. start \in Slots /\ size \in 1 .. Capacity /\ At(start, index) \in Slots
    <2>1. start \in Slots /\ size \in 1 .. Capacity
      BY <1>2 DEF BufferInv, Slots
    <2> QED BY <2>1, AtSlot
  <1>4. \A k \in Slots : k # index => buffer'[At(start, k)] = buffer[At(start, k)]
    BY <1>2, <1>3, AtSlot DEF BufferInv
  <1>5. buffer'[At(start, index)] = x
    BY <1>2, <1>3 DEF BufferInv
  <1>6. BufferInv'
    <2>1. buffer' \in [Slots -> Values]
      BY <1>2 DEF BufferInv, Values
    <2>2. ASSUME NEW k \in size' .. Capacity - 1 PROVE buffer'[At(start', k)] = Default
      <3>1. k \in Slots /\ k # index /\ k \in size .. Capacity - 1
        BY <1>2, <1>3 DEF Slots
      <3> QED BY <3>1, <1>2, <1>4 DEF BufferInv
    <2> QED BY <2>1, <2>2, <1>2, <1>3 DEF BufferInv
  <1>7. /\ Contents' \in Seq(Values) /\ Len(Contents') = size
        /\ \A i \in 1 .. size : Contents'[i] = buffer'[At(start, i - 1)]
    BY <1>6, <1>2, ContentsShape
  <1>8. index + 1 \in 1 .. size /\ DOMAIN Contents = 1 .. size /\ x \in Values
    BY <1>1, <1>2, <1>3 DEF Slots, Values
  <1> DEFINE set == [Contents EXCEPT ![index + 1] = x]
  <1>9. set \in Seq(Values) /\ Len(set) = size
    BY <1>1, <1>8
  <1>10. ASSUME NEW i \in 1 .. size PROVE Contents'[i] = set[i]
    <2>1. i - 1 \in Slots /\ (i - 1 = index <=> i = index + 1)
      BY <1>3 DEF Slots
    <2>2. CASE i = index + 1
      BY <2>1, <2>2, <1>5, <1>7, <1>8
    <2>3. CASE i # index + 1
      BY <2>1, <2>3, <1>1, <1>4, <1>7, <1>8
    <2> QED BY <2>2, <2>3
  <1>11. Contents' = set
    <2> HIDE DEF set
    <2> QED BY <1>7, <1>9, <1>10, SeqEqual
  <1> QED BY <1>6, <1>8, <1>11 DEF D!Set

-----------------------------------------------------------------------------
(* Reading, and the theorem.                                               *)

\* The enumerator yields the items, and default values if there are none.
Enumerates == IF IsEmpty THEN \A i \in DOMAIN Enumerated : Enumerated[i] = Default
                         ELSE Enumerated = Contents

\* The first array ends where the buffer wraps, or with the items
\* (CircularBuffer.ArrayOne, ArrayTwo).
LEMMA EnumeratedIsContents == BufferInv => Enumerates
  <1> SUFFICES ASSUME BufferInv PROVE Enumerates
    OBVIOUS
  <1>1. /\ start \in Slots /\ size \in 0 .. Capacity /\ buffer \in [Slots -> Values]
        /\ end = IF size = Capacity THEN start ELSE At(start, size)
        /\ end \in Slots
    <2>1. start \in Slots /\ size \in 0 .. Capacity /\ buffer \in [Slots -> Values]
      BY DEF BufferInv
    <2>2. CASE size = Capacity
      BY <2>1, <2>2 DEF BufferInv
    <2>3. CASE size # Capacity
      <3>1. size \in Slots
        BY <2>1, <2>3 DEF Slots
      <3> QED BY <2>1, <2>3, <3>1, AtSlot DEF BufferInv
    <2> QED BY <2>1, <2>2, <2>3 DEF BufferInv
  <1> DEFINE one == (IF start < end THEN end ELSE Capacity) - start
             two == IF start < end THEN 0 ELSE end
  <1>2. one \in Nat /\ two \in Nat /\ one + start <= Capacity /\ two <= Capacity
    BY <1>1 DEF Slots
  <1>3. /\ ArrayOne \in Seq(Values) /\ Len(ArrayOne) = one
        /\ \A i \in 1 .. one : ArrayOne[i] = buffer[start + i - 1]
    <2>1. \A i \in 1 .. one : start + i - 1 \in Slots
      BY <1>1, <1>2 DEF Slots
    <2>2. \A i \in 1 .. one : buffer[start + i - 1] \in Values
      BY <2>1, <1>1
    <2> QED BY <2>2, <1>2 DEF ArrayOne
  <1>4. /\ ArrayTwo \in Seq(Values) /\ Len(ArrayTwo) = two
        /\ \A i \in 1 .. two : ArrayTwo[i] = buffer[i - 1]
    <2>1. \A i \in 1 .. two : i - 1 \in Slots
      BY <1>2 DEF Slots
    <2>2. \A i \in 1 .. two : buffer[i - 1] \in Values
      BY <2>1, <1>1
    <2> QED BY <2>2, <1>2 DEF ArrayTwo
  <1> HIDE DEF one, two
  <1>5. /\ Enumerated \in Seq(Values) /\ Len(Enumerated) = one + two
        /\ \A i \in 1 .. one + two :
              Enumerated[i] = buffer[IF i <= one THEN start + i - 1 ELSE i - one - 1]
    <2>1. /\ Enumerated \in Seq(Values) /\ Len(Enumerated) = one + two
          /\ \A i \in 1 .. one + two :
                Enumerated[i] = IF i <= one THEN ArrayOne[i] ELSE ArrayTwo[i - one]
      <3>1. Enumerated = ArrayOne \o ArrayTwo
        BY DEF Enumerated
      <3>2. /\ ArrayOne \in Seq(Values) /\ Len(ArrayOne) = one
            /\ ArrayTwo \in Seq(Values) /\ Len(ArrayTwo) = two
        BY <1>3, <1>4
      <3> HIDE DEF ArrayOne, ArrayTwo, Enumerated
      <3>3. /\ ArrayOne \o ArrayTwo \in Seq(Values)
            /\ Len(ArrayOne \o ArrayTwo) = Len(ArrayOne) + Len(ArrayTwo)
            /\ \A i \in 1 .. Len(ArrayOne) + Len(ArrayTwo) : (ArrayOne \o ArrayTwo)[i] =
                  IF i <= Len(ArrayOne) THEN ArrayOne[i] ELSE ArrayTwo[i - Len(ArrayOne)]
        BY <3>2, ConcatProperties
      <3> QED BY <3>1, <3>2, <3>3, Zenon
    <2>2. ASSUME NEW i \in 1 .. one + two
          PROVE  Enumerated[i] = buffer[IF i <= one THEN start + i - 1 ELSE i - one - 1]
      <3>1. CASE i <= one
        <4>1. i \in 1 .. one
          BY <3>1, <1>2
        <4> QED BY <4>1, <3>1, <2>1, <1>3
      <3>2. CASE ~(i <= one)
        <4>1. i - one \in 1 .. two
          BY <3>2, <1>2
        <4> QED BY <4>1, <3>2, <2>1, <1>4
      <3> QED BY <3>1, <3>2
    <2> QED BY <2>1, <2>2
  <1>6. CASE size = 0
    <2>1. \A p \in Slots : buffer[p] = Default
      <3>1. ASSUME NEW p \in Slots PROVE \E k \in Slots : At(start, k) = p
        <4>1. CASE p >= start
          <5>1. p - start \in Slots /\ At(start, p - start) = p
            BY <4>1, <1>1 DEF At, Slots
          <5> QED BY <5>1
        <4>2. CASE p < start
          <5>1. p + Capacity - start \in Slots /\ At(start, p + Capacity - start) = p
            BY <4>2, <1>1 DEF At, Slots
          <5> QED BY <5>1
        <4> QED BY <4>1, <4>2, <1>1 DEF Slots
      <3> QED BY <3>1, <1>6 DEF BufferInv, Slots
    <2>2. ASSUME NEW i \in 1 .. one + two
          PROVE  (IF i <= one THEN start + i - 1 ELSE i - one - 1) \in Slots
      BY <1>1, <1>2 DEF Slots
    <2>3. DOMAIN Enumerated = 1 .. one + two
      BY <1>5
    <2> QED BY <2>1, <2>2, <2>3, <1>5, <1>6 DEF Enumerates, IsEmpty
  <1>7. CASE size # 0
    <2>1. /\ Contents \in Seq(Values) /\ Len(Contents) = size
          /\ \A i \in 1 .. size : Contents[i] = buffer[At(start, i - 1)]
      BY ContentsShape
    <2>2. one + two = size
      BY <1>1, <1>7 DEF one, two, At, Slots
    <2>3. ASSUME NEW i \in 1 .. size
          PROVE  At(start, i - 1) = IF i <= one THEN start + i - 1 ELSE i - one - 1
      BY <1>1, <1>7 DEF one, At, Slots
    <2>4. \A i \in 1 .. size : Enumerated[i] = Contents[i]
      BY <2>1, <2>2, <2>3, <1>5
    <2>5. Enumerated = Contents
      BY <2>1, <2>2, <2>4, <1>5, SeqEqual
    <2> QED BY <2>5, <1>7 DEF Enumerates, IsEmpty
  <1> QED BY <1>6, <1>7

LEMMA BufferInvInit == BufferInit => BufferInv /\ D!Init
  <1> SUFFICES ASSUME BufferInit PROVE BufferInv /\ D!Init
    OBVIOUS
  <1>1. start = 0 /\ end = 0 /\ size = 0 /\ 0 \in Slots
    BY DEF BufferInit, Slots
  <1>2. At(0, 0) = 0 /\ \A k \in 0 .. Capacity - 1 : At(0, k) \in Slots
    BY <1>1, AtSlot DEF At, Slots
  <1>3. BufferInv
    BY <1>1, <1>2 DEF BufferInit, BufferInv, Values
  <1>4. Contents = <<>>
    BY <1>3, <1>1, ContentsShape
  <1> QED BY <1>3, <1>4 DEF D!Init

LEMMA BufferStep == BufferInv /\ [BufferNext]_bufferVars => BufferInv' /\ [D!Next]_Contents
  <1> SUFFICES ASSUME BufferInv, [BufferNext]_bufferVars PROVE BufferInv' /\ [D!Next]_Contents
    OBVIOUS
  <1>1. CASE UNCHANGED bufferVars
    BY <1>1 DEF bufferVars, BufferInv, Contents, Get, InternalIndex
  <1>2. ASSUME NEW x \in Items, PushBack(x) \/ PushFront(x) PROVE BufferInv' /\ D!Next
    BY <1>2, PushBackStep, PushFrontStep DEF D!Next
  <1>3. ASSUME NEW x \in Items, NEW i \in Slots, Set(i, x) PROVE BufferInv' /\ D!Next
    <2>1. i + 1 \in 1 .. Capacity
      BY DEF Slots
    <2> QED BY <2>1, <1>3, SetStep DEF D!Next
  <1>4. CASE PopBack \/ PopFront
    BY <1>4, PopBackStep, PopFrontStep DEF D!Next
  <1> QED BY <1>1, <1>2, <1>3, <1>4 DEF BufferNext

\* Whatever the capacity and whatever is pushed, popped and written in whatever
\* order, the ring buffer behaves as the bounded double-ended queue, and its
\* enumerator yields the items of that queue (CircularBuffer).
THEOREM BufferIsDeque == BufferSpec => ImplementsDeque
  <1>1. BufferSpec => []BufferInv
    BY BufferInvInit, BufferStep, PTL DEF BufferSpec
  <1>2. BufferSpec => D!Spec
    BY <1>1, BufferInvInit, BufferStep, PTL DEF BufferSpec, D!Spec
  <1>3. BufferSpec => []Enumerates
    BY <1>1, EnumeratedIsContents, PTL
  <1> QED BY <1>2, <1>3 DEF ImplementsDeque, Enumerates
=============================================================================
