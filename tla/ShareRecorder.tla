--------------------------- MODULE ShareRecorder ---------------------------
(***************************************************************************)
(* The share recorder: accepted shares go from the message bus into a      *)
(* queue, from there into a buffer, and a full or timed out buffer is      *)
(* persisted in one transaction under the wrapped fault policies: retry    *)
(* inside a circuit breaker inside a fallback that appends the batch to    *)
(* the recovery file.  A stopped pool may be run once to import that file. *)
(*                                                                         *)
(* Shares are distinct and never interpreted, so queue, buffer, batch and  *)
(* file are sets; the order within them is not modelled.  A candidate's    *)
(* block row is inserted with its share; the notification about it is not  *)
(* modelled.                                                               *)
(***************************************************************************)
EXTENDS Integers, FiniteSets

CONSTANTS
    Shares,      \* the shares the pools accept
    BatchSize,   \* count argument of Buffer (100)
    RetryCount,  \* retries of one execution
    BreakAfter,  \* failed executions in a row that open the circuit (2)
    ImportSize,  \* bufferSize of RecoverShares (20)
    MaxLostAcks, \* bound: transactions committed and reported failed
    MaxFaults    \* bound: stops, failed writes, unexpected exceptions, reruns

ASSUME SharesAssumption == IsFiniteSet(Shares)
ASSUME NumbersAssumption ==
    /\ BatchSize \in Nat \ {0} /\ RetryCount \in Nat /\ BreakAfter \in Nat \ {0}
    /\ ImportSize \in Nat \ {0} /\ MaxFaults \in Nat /\ MaxLostAcks \in Nat

VARIABLES
    phase,      \* "up", "down", "import" (-rs), "report" (end of an import)
    unseen,     \* shares still to be found
    queue,      \* the BlockingCollection
    buffer,     \* the Rx buffer
    batch,      \* shares of the policy execution in progress, {} when idle
    tries,      \* retries made by it
    breaker,    \* state of the circuit: "closed", "open", "half"
    strikes,    \* failed executions in a row, as the closed circuit counts them
    rows,       \* rows[s]: rows of s in the database
    file,       \* records of the recovery file that can be parsed
    garbled,    \* lines of it that cannot
    torn,       \* its last line lacks the end
    dirty,      \* an earlier import of it was not complete
    left, bad,  \* records and unreadable lines the import has not read yet
    chunk,      \* the local "shares" of RecoverShares
    successCount, failCount,
    dropped,    \* history: shares the recorder gave up
    lostAcks,   \* history: transactions that were committed and reported failed
    reruns,     \* history: imports of a dirty file
    faults      \* history: faults so far

memory == <<queue, buffer, batch>>
policy == <<tries, breaker, strikes>>
disk == <<file, garbled, torn, dirty>>
import == <<left, bad, chunk, successCount, failCount>>
vars == <<phase, unseen, memory, policy, rows, disk, import,
          dropped, lostAcks, reruns, faults>>

Init ==
    /\ phase = "up" /\ unseen = Shares
    /\ queue = {} /\ buffer = {} /\ batch = {}
    /\ tries = 0 /\ breaker = "closed" /\ strikes = 0
    /\ rows = [s \in Shares |-> 0]
    /\ file = {} /\ garbled = 0 /\ torn = FALSE /\ dirty = FALSE
    /\ left = {} /\ bad = 0 /\ chunk = {} /\ successCount = 0 /\ failCount = 0
    /\ dropped = {} /\ lostAcks = 0 /\ reruns = 0 /\ faults = 0

Fault == faults < MaxFaults /\ faults' = faults + 1

-----------------------------------------------------------------------------
(* PersistShares: one transaction for all shares given.                    *)

Inserted(ss) == [s \in Shares |-> IF s \in ss THEN rows[s] + 1 ELSE rows[s]]

TxCommits(ss) == rows' = Inserted(ss) /\ UNCHANGED lostAcks

\* The transaction throws: it was rolled back, or its answer got lost.
TxFails(ss) ==
    \/ UNCHANGED <<rows, lostAcks>>
    \/ lostAcks < MaxLostAcks /\ rows' = Inserted(ss) /\ lostAcks' = lostAcks + 1

-----------------------------------------------------------------------------
(* From the pool to the buffer.                                            *)

Submit(s) ==
    /\ phase = "up" /\ s \in unseen
    /\ unseen' = unseen \ {s} /\ queue' = queue \cup {s}
    /\ UNCHANGED <<phase, buffer, batch, policy, rows, disk, import,
                   dropped, lostAcks, reruns, faults>>

\* Buffer holds its gate while a batch is persisted, so only an idle recorder
\* takes shares; the share that fills the buffer hands it over.
Take(s) ==
    /\ phase = "up" /\ batch = {} /\ s \in queue
    /\ queue' = queue \ {s}
    /\ LET full == buffer \cup {s} IN
       IF Cardinality(full) >= BatchSize THEN batch' = full /\ buffer' = {}
                                         ELSE buffer' = full /\ UNCHANGED batch
    /\ UNCHANGED <<phase, unseen, policy, rows, disk, import,
                   dropped, lostAcks, reruns, faults>>

\* The second is over; empty buffers are filtered out.
Timer ==
    /\ phase = "up" /\ batch = {} /\ buffer # {}
    /\ batch' = buffer /\ buffer' = {}
    /\ UNCHANGED <<phase, unseen, queue, policy, rows, disk, import,
                   dropped, lostAcks, reruns, faults>>

-----------------------------------------------------------------------------
(* The wrapped policies.                                                   *)

Attempting == phase = "up" /\ batch # {} /\ breaker # "open"
Done == batch' = {} /\ tries' = 0

TxOk ==
    /\ Attempting /\ TxCommits(batch) /\ Done
    /\ breaker' = "closed" /\ strikes' = 0
    /\ UNCHANGED <<phase, unseen, queue, buffer, disk, import, dropped, reruns, faults>>

\* Mutant: the retry policy has no limit.
TxRetry_Forever ==
    /\ Attempting /\ TxFails(batch)
    /\ tries' = IF tries < RetryCount THEN tries + 1 ELSE 0
    /\ UNCHANGED <<phase, unseen, memory, breaker, strikes, disk, import, dropped, reruns, faults>>

TxRetry ==
    /\ Attempting /\ TxFails(batch) /\ tries < RetryCount
    /\ tries' = tries + 1
    /\ UNCHANGED <<phase, unseen, memory, breaker, strikes, disk, import, dropped, reruns, faults>>

\* OnExecutePolicyFallback: all records are appended, or some of them and
\* perhaps a part of one more.  A record written after a torn line is glued
\* to it, and both are unreadable.
Park ==
    \E written \in SUBSET batch :
    \E glued \in IF torn /\ written # {} THEN {{s} : s \in written} ELSE {{}} :
        /\ file' = file \cup (written \ glued)
        /\ garbled' = garbled + Cardinality(glued)
        /\ dropped' = dropped \cup glued \cup (batch \ written)
        /\ \/ written = batch /\ torn' = FALSE /\ UNCHANGED faults
           \/ /\ written # batch /\ Fault
              /\ torn' \in IF written = {} THEN {torn, TRUE} ELSE BOOLEAN

\* Mutant: the circuit counts failures and never opens.
Strike_NeverOpens == strikes' = strikes + 1 /\ UNCHANGED breaker

\* What the circuit breaker makes of a failed execution.
Strike ==
    LET breaks == breaker = "half" \/ strikes + 1 >= BreakAfter IN
    /\ breaker' = IF breaks THEN "open" ELSE breaker
    /\ strikes' = IF breaks THEN 0 ELSE strikes + 1

\* Mutant: there is no fallback for the last exception.
TxExhausted_NoFallback ==
    /\ Attempting /\ TxFails(batch) /\ tries = RetryCount /\ Strike /\ Done
    /\ UNCHANGED <<phase, unseen, queue, buffer, disk, import, dropped, reruns, faults>>

\* Mutant: the fallback is inside the retry, so the batch is tried again.
TxExhausted_Rethrown ==
    /\ Attempting /\ TxFails(batch) /\ tries = RetryCount /\ Strike /\ Park
    /\ tries' = 0
    /\ UNCHANGED <<phase, unseen, memory, dirty, import, reruns>>

\* The last retry fails.
TxExhausted ==
    /\ Attempting /\ TxFails(batch) /\ tries = RetryCount /\ Strike /\ Done /\ Park
    /\ UNCHANGED <<phase, unseen, queue, buffer, dirty, import, reruns>>

\* An exception no policy handles (a rollback on a broken connection throws
\* one in place of the original): it is logged and the batch is gone.
TxUnexpected ==
    /\ Attempting /\ TxFails(batch) /\ Fault /\ Done
    /\ dropped' = dropped \cup batch
    /\ UNCHANGED <<phase, unseen, queue, buffer, breaker, strikes, disk, import, reruns>>

\* BrokenCircuitException: straight to the file.
CircuitOpen ==
    /\ phase = "up" /\ batch # {} /\ breaker = "open"
    /\ Done /\ Park
    /\ UNCHANGED <<phase, unseen, queue, buffer, breaker, strikes, rows, dirty, import,
                   lostAcks, reruns>>

\* The minute is over: this execution is the trial.
CircuitHalfOpen ==
    /\ phase = "up" /\ batch # {} /\ breaker = "open"
    /\ breaker' = "half"
    /\ UNCHANGED <<phase, unseen, memory, tries, strikes, rows, disk, import,
                   dropped, lostAcks, reruns, faults>>

-----------------------------------------------------------------------------
(* Stopping, starting, and the import of the recovery file.                *)

\* Stop disposes the queue and whatever is in memory goes; a crash or a kill
\* does the same, and ends an import half way.
Halt ==
    /\ phase \in {"up", "import"} /\ Fault
    /\ phase' = "down"
    /\ dropped' = dropped \cup queue \cup buffer \cup batch
    /\ queue' = {} /\ buffer' = {} /\ Done
    /\ breaker' = "closed" /\ strikes' = 0
    /\ left' = {} /\ bad' = 0 /\ chunk' = {} /\ successCount' = 0 /\ failCount' = 0
    /\ dirty' = (dirty \/ phase = "import")
    /\ UNCHANGED <<unseen, rows, file, garbled, torn, lostAcks, reruns>>

Start ==
    /\ phase = "down" /\ phase' = "up"
    /\ UNCHANGED <<unseen, memory, policy, rows, disk, import,
                   dropped, lostAcks, reruns, faults>>

RecoverShares ==
    /\ phase = "down" /\ (file # {} \/ garbled > 0 \/ torn)
    /\ IF dirty THEN Fault /\ reruns' = reruns + 1 ELSE UNCHANGED <<faults, reruns>>
    /\ phase' = "import"
    /\ left' = file /\ bad' = garbled + (IF torn THEN 1 ELSE 0)
    /\ chunk' = {} /\ successCount' = 0 /\ failCount' = 0
    /\ UNCHANGED <<unseen, memory, policy, rows, disk, dropped, lostAcks>>

\* Mutant: a chunk that could not be imported is cleared as well.
ImportIfFull_ClearAlways(c, failures) ==
    IF Cardinality(c) = ImportSize
    THEN \/ TxCommits(c) /\ chunk' = {} /\ failCount' = failures
         \/ TxFails(c) /\ chunk' = {} /\ failCount' = failures
    ELSE chunk' = c /\ failCount' = failures /\ UNCHANGED <<rows, lostAcks>>

\* The chunk is imported when it has exactly ImportSize shares: after a
\* failure it grows past that and waits for the end of the file.
ImportIfFull(c, failures) ==
    IF Cardinality(c) = ImportSize
    THEN \/ TxCommits(c) /\ chunk' = {} /\ failCount' = failures
         \/ TxFails(c) /\ chunk' = c /\ failCount' = failures + 1
    ELSE chunk' = c /\ failCount' = failures /\ UNCHANGED <<rows, lostAcks>>

\* successCount += shares.Count comes after shares.Clear().
ReadRecord(s) ==
    /\ phase = "import" /\ s \in left
    /\ left' = left \ {s}
    /\ ImportIfFull(chunk \cup {s}, failCount)
    /\ UNCHANGED <<phase, unseen, memory, policy, disk, bad, successCount,
                   dropped, reruns, faults>>

ReadGarbled ==
    /\ phase = "import" /\ bad > 0
    /\ bad' = bad - 1
    /\ ImportIfFull(chunk, failCount + 1)
    /\ UNCHANGED <<phase, unseen, memory, policy, disk, left, successCount,
                   dropped, reruns, faults>>

AtEnd == phase = "import" /\ left = {} /\ bad = 0 /\ phase' = "report"

\* Mutant: the shares that remain are not imported.
ImportRest_Forgotten ==
    /\ AtEnd
    /\ UNCHANGED <<unseen, memory, policy, rows, disk, import,
                   dropped, lostAcks, reruns, faults>>

ImportRest ==
    /\ AtEnd
    /\ IF chunk = {} THEN UNCHANGED <<rows, lostAcks, successCount, failCount>>
       ELSE \/ /\ TxCommits(chunk)
               /\ successCount' = successCount + Cardinality(chunk)
               /\ UNCHANGED failCount
            \/ TxFails(chunk) /\ failCount' = failCount + 1 /\ UNCHANGED successCount
    /\ UNCHANGED <<unseen, memory, policy, disk, left, bad, chunk,
                   dropped, reruns, faults>>

\* The operator removes a file that was imported without a failure.
RemoveFile ==
    /\ phase = "report" /\ phase' = "down"
    /\ IF failCount = 0
       THEN file' = {} /\ garbled' = 0 /\ torn' = FALSE /\ dirty' = FALSE
       ELSE dirty' = TRUE /\ UNCHANGED <<file, garbled, torn>>
    /\ chunk' = {} /\ successCount' = 0 /\ failCount' = 0
    /\ UNCHANGED <<unseen, memory, policy, rows, left, bad,
                   dropped, lostAcks, reruns, faults>>

-----------------------------------------------------------------------------
Consume == (\E s \in Shares : Take(s)) \/ Timer
Persist == TxOk \/ TxRetry \/ TxExhausted \/ TxUnexpected \/ CircuitOpen \/ CircuitHalfOpen
Recovery == \/ RecoverShares \/ ReadGarbled \/ ImportRest \/ RemoveFile
            \/ \E s \in Shares : ReadRecord(s)

Next ==
    \/ \E s \in Shares : Submit(s)
    \/ Consume \/ Persist
    \/ Halt \/ Start \/ Recovery

Spec == Init /\ [][Next]_vars

\* The consumer's loop and its timer run on pool threads that nothing blocks.
FairSpec == Spec /\ WF_vars(Timer) /\ WF_vars(Persist)
                 /\ \A s \in Shares : WF_vars(Take(s))

-----------------------------------------------------------------------------
InMemory == queue \cup buffer \cup batch

TypeOK ==
    /\ phase \in {"up", "down", "import", "report"}
    /\ unseen \subseteq Shares /\ queue \subseteq Shares
    /\ buffer \subseteq Shares /\ batch \subseteq Shares
    /\ tries \in 0 .. RetryCount
    /\ breaker \in {"closed", "open", "half"} /\ strikes \in 0 .. BreakAfter - 1
    /\ rows \in [Shares -> Nat]
    /\ file \subseteq Shares /\ garbled \in Nat /\ torn \in BOOLEAN /\ dirty \in BOOLEAN
    /\ left \subseteq file /\ bad \in Nat /\ chunk \subseteq file
    /\ successCount \in Nat /\ failCount \in Nat
    /\ dropped \subseteq Shares
    /\ lostAcks \in 0 .. MaxLostAcks /\ reruns \in Nat /\ faults \in 0 .. MaxFaults

\* A share the miner was told is accepted is in memory, in the database or in
\* the recovery file, unless the recorder gave it up: the process stopped, a
\* write to the file failed, or an exception was only logged
\* (ShareRecorder.PersistSharesFaulTolerant, RecoverShares).
NothingLost ==
    \A s \in Shares \ unseen :
        s \in InMemory \/ rows[s] > 0 \/ s \in file \/ s \in dropped

\* A share is stored twice only after a lost answer to a COMMIT or the second
\* import of one file; a share still to be stored was not stored before
\* without such an answer.  PPLNS would pay for every further row.
NeverTwice ==
    \A s \in Shares :
        /\ rows[s] <= 1 + lostAcks + reruns
        /\ s \in InMemory \/ (s \in file /\ ~dirty /\ phase \notin {"import", "report"})
              => rows[s] <= lostAcks + reruns

\* An import that reports no failure has stored every record of the file, so
\* that the operator may remove it.
RecoveryComplete ==
    phase = "report" /\ failCount = 0 => \A s \in file : rows[s] > 0

\* Every share leaves the memory of the recorder, whatever the database does:
\* the retries end, and the circuit does not hold a batch.
Drains == \A s \in Shares : (s \in InMemory) ~> (s \notin InMemory)
=============================================================================
