------------------------------- MODULE VarDiff -------------------------------
(***************************************************************************)
(* The difficulty of one worker: VarDiffManager.Update, called for every   *)
(* accepted share and by the idle timers of PoolBase, and the hand-over of *)
(* its result to the worker's context.                                     *)
(*                                                                         *)
(* Instants are kept as ages, in seconds.  Difficulties are integers here: *)
(* where the code computes in double the quotient is rounded down.         *)
(***************************************************************************)
EXTENDS Integers, Sequences, Functions

CONSTANTS
    TargetTime, Variance, RetargetTime,   \* the band is TargetTime +- Variance
    MinDiff, MaxDiff, MaxDelta,           \* MaxDelta = 0 stands for null
    StartDiffs,     \* what PoolEndpoint.Difficulty may be
    StaticDiffs,    \* difficulties the worker may ask for with its password
    BufferSize,     \* 10 in the code
    Rates,          \* of a worker, in difficulty per second; 0: shares at any time
    MaxInFlight,    \* shares published whose UpdateVarDiff is still to run
    MaxAge,         \* bound: time without a share
    MaxBack         \* the wall clock may be set back once, by up to this much

ASSUME TimesAssumption ==
    /\ TargetTime \in Nat \ {0} /\ Variance \in 0 .. TargetTime /\ RetargetTime \in Nat \ {0}
    /\ BufferSize \in Nat \ {0} /\ MaxAge \in Nat /\ MaxBack \in Nat /\ MaxInFlight \in Nat \ {0}
ASSUME DiffsAssumption ==
    /\ MinDiff \in Nat \ {0} /\ MaxDiff \in Nat /\ MinDiff <= MaxDiff
    /\ MaxDelta \in Nat /\ StartDiffs \subseteq Nat \ {0} /\ StaticDiffs \subseteq Nat /\ Rates \subseteq Nat

VARIABLES
    varDiff,    \* context.VarDiff is not null
    started,    \* LastTs has a value
    age,        \* now - LastTs (before the start: since the connect)
    rtcAge,     \* now - LastRtc, counted up to RtcCap
    timeBuffer, \* TimeBuffer: [t, d], d is the difficulty at that time (history)
    diff,       \* context.Difficulty
    newDiff,    \* result of Update that is still to be applied, or 0
    inFlight, timers,
    rate,       \* of the worker
    back        \* the clock was set back

others == <<rate, back>>
vars == <<varDiff, started, age, rtcAge, timeBuffer, diff, newDiff, inFlight, timers, rate, back>>

RtcCap == RetargetTime + MaxBack
Smaller(a, b) == IF a < b THEN a ELSE b
Larger(a, b) == IF a < b THEN b ELSE a

Init ==
    /\ varDiff = TRUE /\ started = FALSE /\ age = 0 /\ rtcAge = 0
    /\ timeBuffer = <<>> /\ diff \in StartDiffs /\ newDiff = 0
    /\ inFlight = 0 /\ timers = {TargetTime}
    /\ rate \in Rates /\ back = FALSE

-----------------------------------------------------------------------------
(* VarDiffManager.Update, with avg = total / count.                        *)

Total == SumFunction([i \in DOMAIN timeBuffer |-> timeBuffer[i].t]) + age
Count == Len(timeBuffer) + 1

TooFast == Total < (TargetTime - Variance) * Count
TooSlow == Total > (TargetTime + Variance) * Count

\* difficulty * TargetTime / avg.  An average of 0 gives infinity.
Wanted == LET x == diff * TargetTime * Count IN
          IF Total > 0 THEN x \div Total ELSE -(x \div (-Total))

\* Mutant: the change is limited in one direction only.
Limited_Up(d) == IF MaxDelta = 0 THEN d ELSE Smaller(d, diff + MaxDelta)

\* Max delta.
Limited(d) == IF MaxDelta = 0 THEN d
              ELSE Smaller(Larger(d, diff - MaxDelta), diff + MaxDelta)

Clamped(d) == Smaller(Larger(d, MinDiff), MaxDiff)

\* Infinity minus infinity is not a number, which is neither less nor greater.
Retargeted == IF Total = 0 THEN IF MaxDelta = 0 THEN MaxDiff ELSE diff
              ELSE Clamped(Limited(Wanted))

\* Mutant: the band is looked at with the limits swapped.
Due_Inside == rtcAge >= RetargetTime /\ ~TooSlow

Due == rtcAge >= RetargetTime /\ (TooFast \/ TooSlow)

\* PushBack: in a full buffer it replaces the oldest interval.
Added(e) == IF Len(timeBuffer) = BufferSize THEN Append(Tail(timeBuffer), e)
                                            ELSE Append(timeBuffer, e)

\* Mutant: the intervals measured so far stay.
Update_KeepsBuffer(isIdleUpdate) ==
    LET changes == started /\ Due /\ Retargeted # diff IN
    /\ started' = TRUE
    /\ age' = IF isIdleUpdate /\ started THEN age ELSE 0
    /\ rtcAge' = IF changes \/ ~started THEN 0 ELSE rtcAge
    /\ newDiff' = IF changes THEN Retargeted ELSE 0
    /\ timeBuffer' = IF ~started THEN <<>>
                     ELSE IF isIdleUpdate THEN timeBuffer
                     ELSE Added([t |-> age, d |-> diff])

Update(isIdleUpdate) ==
    LET changes == started /\ Due /\ Retargeted # diff IN
    /\ started' = TRUE
    /\ age' = IF isIdleUpdate /\ started THEN age ELSE 0
    /\ rtcAge' = IF changes \/ ~started THEN 0 ELSE rtcAge
    /\ newDiff' = IF changes THEN Retargeted ELSE 0
    /\ timeBuffer' = IF changes \/ ~started THEN <<>>
                     ELSE IF isIdleUpdate THEN timeBuffer
                     ELSE Added([t |-> age, d |-> diff])

-----------------------------------------------------------------------------
(* The pool.  The lock on context.VarDiff is held from Update to           *)
(* ApplyPendingDifficulty: no other Update runs while newDiff # 0.         *)

\* An accepted share is published, which stops the idle timers ...
ShareDue == age >= 1 /\ age * rate >= diff

PublishShare ==
    /\ inFlight < MaxInFlight
    /\ (rate # 0 => ShareDue)
    /\ inFlight' = inFlight + 1 /\ timers' = {}
    /\ UNCHANGED <<varDiff, started, age, rtcAge, timeBuffer, diff, newDiff, others>>

\* Mutant: no idle timer is started after a share.
UpdateVarDiff_NoTimer ==
    /\ inFlight > 0 /\ newDiff = 0 /\ inFlight' = inFlight - 1
    /\ IF varDiff THEN Update(FALSE)
                  ELSE UNCHANGED <<started, age, rtcAge, timeBuffer, newDiff>>
    /\ UNCHANGED <<varDiff, diff, timers, others>>

\* ... and then UpdateVarDiff runs, which starts one.  The null check of
\* context.VarDiff and its use are one test.
UpdateVarDiff ==
    /\ inFlight > 0 /\ newDiff = 0 /\ inFlight' = inFlight - 1
    /\ IF varDiff THEN timers' = timers \cup {TargetTime} /\ Update(FALSE)
                  ELSE UNCHANGED <<started, age, rtcAge, timeBuffer, newDiff, timers>>
    /\ UNCHANGED <<varDiff, diff, others>>

IdleUpdate ==
    /\ 0 \in timers /\ newDiff = 0
    /\ IF varDiff THEN timers' = (timers \ {0}) \cup {TargetTime} /\ Update(TRUE)
                  ELSE /\ timers' = timers \ {0}
                       /\ UNCHANGED <<started, age, rtcAge, timeBuffer, newDiff>>
    /\ UNCHANGED <<varDiff, diff, inFlight, others>>

\* OnVarDiffUpdate: enqueued and applied.
ApplyPendingDifficulty ==
    /\ newDiff # 0
    /\ diff' = newDiff /\ newDiff' = 0
    /\ UNCHANGED <<varDiff, started, age, rtcAge, timeBuffer, inFlight, timers, others>>

\* OnAuthorize with a difficulty in the password.
StaticDiff(d) ==
    /\ IF varDiff THEN d >= MinDiff ELSE d > diff
    /\ varDiff' = FALSE /\ diff' = d
    /\ UNCHANGED <<started, age, rtcAge, timeBuffer, newDiff, inFlight, timers, others>>

\* A second passes.  With a rate, what is due is done at once.
Tick ==
    /\ age < MaxAge
    /\ (rate # 0 => ~ShareDue /\ inFlight = 0 /\ newDiff = 0 /\ 0 \notin timers)
    /\ age' = age + 1 /\ rtcAge' = Smaller(rtcAge + 1, RtcCap)
    /\ timers' = {Larger(t - 1, 0) : t \in timers}
    /\ UNCHANGED <<varDiff, started, timeBuffer, diff, newDiff, inFlight, others>>

\* The wall clock is set back.  Timers do not notice.
StepBack(k) ==
    /\ ~back /\ back' = TRUE
    /\ age' = age - k /\ rtcAge' = rtcAge - k
    /\ UNCHANGED <<varDiff, started, timeBuffer, diff, newDiff, inFlight, timers, rate>>

Next ==
    \/ PublishShare \/ UpdateVarDiff \/ IdleUpdate \/ ApplyPendingDifficulty
    \/ \E d \in StaticDiffs : StaticDiff(d)
    \/ Tick
    \/ \E k \in 1 .. MaxBack : StepBack(k)

Spec == Init /\ [][Next]_vars

\* Time passes, the worker works and threads run.
FairSpec == Spec /\ WF_vars(Tick) /\ WF_vars(PublishShare) /\ WF_vars(UpdateVarDiff)
                 /\ WF_vars(IdleUpdate) /\ WF_vars(ApplyPendingDifficulty)

-----------------------------------------------------------------------------
InBounds(d) == MinDiff <= d /\ d <= MaxDiff

\* Whatever the order in which a step is limited and clamped, a retarget ends
\* between MinDiff and MaxDiff, also from a port difficulty outside and after
\* the clock was set back.  The difficulty is raised only when shares come too
\* fast, lowered only when they come too slowly, and by MaxDelta at most, from
\* any difficulty within the bounds (VarDiffManager.Update).  After a static
\* difficulty no retarget begins ("disable vardiff", AionPool.OnAuthorize).
RetargetStep ==
    newDiff = 0 /\ newDiff' # 0 =>
        /\ varDiff
        /\ InBounds(newDiff')
        /\ InBounds(diff) =>
            /\ newDiff' > diff => TooFast
            /\ newDiff' < diff => TooSlow \/ Total < 0
            /\ MaxDelta > 0 => newDiff' \in diff - MaxDelta .. diff + MaxDelta

RetargetHelps == [][RetargetStep]_vars

\* The average is taken over intervals that were measured at the difficulty it
\* is compared with: "Due to change of diff, Buffer needs to be cleared"
\* (VarDiffManager.Update).
BufferIsFresh == varDiff /\ newDiff = 0 => \A i \in DOMAIN timeBuffer : timeBuffer[i].d = diff

\* A worker that goes silent at too high a difficulty is found by the idle
\* timers: as long as difficulties are adjusted, one is running or an update is
\* under way (PoolBase.StartVarDiffIdleUpdate).
NeverAbandoned == varDiff => timers # {} \/ inFlight > 0

\* The difficulty of a worker of constant speed comes to rest where its shares
\* arrive within the band, or where no difficulty the manager may choose would
\* bring them nearer (VarDiffManager.Update).
Interval == CHOOSE t \in 1 .. MaxAge :
                t * rate >= diff /\ \A s \in 1 .. t - 1 : s * rate < diff
SettlesInBand ==
    <>[](\/ rate = 0 \/ ~varDiff
         \/ Interval \in TargetTime - Variance .. TargetTime + Variance
         \/ Interval < TargetTime /\ diff = MaxDiff
         \/ Interval > TargetTime /\ diff = MinDiff)

=============================================================================
