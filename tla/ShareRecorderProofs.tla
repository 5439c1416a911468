------------------------ MODULE ShareRecorderProofs ------------------------
(***************************************************************************)
(* Theorems about ShareRecorder, for every set of shares, batch size,      *)
(* number of retries, threshold of the circuit and number of faults.       *)
(***************************************************************************)
EXTENDS ShareRecorder, FiniteSetTheorems, TLAPS

(* The invariant.  NothingLost and NeverTwice are not inductive: that a    *)
(* share is stored once needs that it is in one place only, and that       *)
(* nothing is lost when the file is removed needs what an import has done. *)

\* A share is at one place of the recorder, and an unseen share at none.
OnePlace ==
    \A s \in Shares :
        /\ s \in unseen => s \notin InMemory /\ s \notin file /\ rows[s] = 0
        /\ s \in queue => s \notin buffer /\ s \notin batch
        /\ s \in buffer => s \notin batch
        /\ s \in InMemory => s \notin file

\* What the import has read and what is still to come.
Imported ==
    /\ left \cap chunk = {}
    /\ phase = "report" => left = {}
    /\ phase = "import" =>
          \A s \in file : /\ s \in left \/ s \in chunk \/ rows[s] > 0
                          /\ s \in left \cup chunk => rows[s] <= lostAcks + reruns

IInv == TypeOK /\ OnePlace /\ Imported /\ NothingLost /\ NeverTwice /\ RecoveryComplete

-----------------------------------------------------------------------------
(* Transactions and the recovery file.                                     *)

LEMMA SharesAreFinite ==
    ASSUME NEW T, T \subseteq Shares
    PROVE  IsFiniteSet(T) /\ Cardinality(T) \in Nat
  BY SharesAssumption, FS_Subset, FS_CardinalityType

\* A transaction that commits adds a row for each of its shares.
LEMMA Commits ==
    ASSUME TypeOK, NEW ss, TxCommits(ss)
    PROVE  /\ rows' \in [Shares -> Nat] /\ lostAcks' = lostAcks
           /\ \A s \in Shares : rows'[s] = IF s \in ss THEN rows[s] + 1 ELSE rows[s]
  BY DEF TypeOK, TxCommits, Inserted

\* What a transaction that throws does to the rows at most.
Grown == \A s \in Shares : rows'[s] >= rows[s] /\ rows'[s] - rows[s] <= lostAcks' - lostAcks
Others(ss) == \A s \in Shares \ ss : rows'[s] = rows[s]

\* One that throws may have added them, but then an answer was lost.
LEMMA Fails ==
    ASSUME TypeOK, NEW ss, TxFails(ss)
    PROVE  /\ rows' \in [Shares -> Nat] /\ lostAcks' \in 0 .. MaxLostAcks
           /\ lostAcks' >= lostAcks
           /\ Grown /\ Others(ss)
  <1>1. CASE UNCHANGED <<rows, lostAcks>>
    BY <1>1 DEF TypeOK, Grown, Others
  <1>2. CASE lostAcks < MaxLostAcks /\ rows' = Inserted(ss) /\ lostAcks' = lostAcks + 1
    <2>1. lostAcks' \in 0 .. MaxLostAcks /\ lostAcks' = lostAcks + 1
      BY <1>2, NumbersAssumption DEF TypeOK
    <2> QED
      BY <1>2, <2>1 DEF TypeOK, Inserted, Grown, Others
  <1> QED
    BY <1>1, <1>2 DEF TxFails

\* A fault is counted within its bound.
LEMMA FaultsCount ==
    ASSUME TypeOK, Fault
    PROVE  faults' \in 0 .. MaxFaults
  BY NumbersAssumption DEF TypeOK, Fault

\* Of a batch that is parked every share is in the file or given up.
LEMMA Parks ==
    ASSUME TypeOK, Park
    PROVE  /\ file \subseteq file' /\ file' \subseteq file \cup batch
           /\ dropped \subseteq dropped' /\ dropped' \subseteq Shares
           /\ batch \subseteq file' \cup dropped'
           /\ garbled' \in Nat /\ torn' \in BOOLEAN /\ faults' \in 0 .. MaxFaults
  <1>1. PICK written \in SUBSET batch :
           \E glued \in IF torn /\ written # {} THEN {{s} : s \in written} ELSE {{}} :
              /\ file' = file \cup (written \ glued)
              /\ garbled' = garbled + Cardinality(glued)
              /\ dropped' = dropped \cup glued \cup (batch \ written)
              /\ \/ written = batch /\ torn' = FALSE /\ UNCHANGED faults
                 \/ /\ written # batch /\ Fault
                    /\ torn' \in IF written = {} THEN {torn, TRUE} ELSE BOOLEAN
    BY DEF Park
  <1>2. PICK glued \in IF torn /\ written # {} THEN {{s} : s \in written} ELSE {{}} :
              /\ file' = file \cup (written \ glued)
              /\ garbled' = garbled + Cardinality(glued)
              /\ dropped' = dropped \cup glued \cup (batch \ written)
              /\ \/ written = batch /\ torn' = FALSE /\ UNCHANGED faults
                 \/ /\ written # batch /\ Fault
                    /\ torn' \in IF written = {} THEN {torn, TRUE} ELSE BOOLEAN
    BY <1>1
  <1>3. glued \subseteq written /\ written \subseteq batch /\ batch \subseteq Shares
    BY <1>2 DEF TypeOK
  <1>4. garbled' \in Nat
    <2>1. Cardinality(glued) \in Nat
      BY <1>3, SharesAreFinite
    <2> QED
      BY <1>2, <2>1 DEF TypeOK
  <1>5. torn' \in BOOLEAN
    BY <1>2 DEF TypeOK
  <1>6. faults' \in 0 .. MaxFaults
    <2>1. CASE UNCHANGED faults
      BY <2>1 DEF TypeOK
    <2>2. CASE Fault
      BY <2>2, FaultsCount
    <2> QED
      BY <1>2, <2>1, <2>2
  <1>7. file \subseteq file' /\ file' \subseteq file \cup batch
    BY <1>2, <1>3
  <1>8. dropped \subseteq dropped' /\ dropped' \subseteq Shares /\ batch \subseteq file' \cup dropped'
    BY <1>2, <1>3 DEF TypeOK
  <1> QED
    BY <1>4, <1>5, <1>6, <1>7, <1>8

LEMMA Strikes ==
    ASSUME TypeOK, Strike
    PROVE  breaker' \in {"closed", "open", "half"} /\ strikes' \in 0 .. BreakAfter - 1
  <1>1. BreakAfter \in Nat /\ BreakAfter >= 1 /\ strikes \in 0 .. BreakAfter - 1
    BY NumbersAssumption DEF TypeOK
  <1>2. CASE breaker = "half" \/ strikes + 1 >= BreakAfter
    BY <1>1, <1>2 DEF Strike
  <1>3. CASE ~(breaker = "half" \/ strikes + 1 >= BreakAfter)
    BY <1>1, <1>3 DEF Strike, TypeOK
  <1> QED
    BY <1>2, <1>3

-----------------------------------------------------------------------------
(* The invariant holds initially.                                          *)

LEMMA IInvInit == Init => IInv
  <1> SUFFICES ASSUME Init PROVE IInv
    OBVIOUS
  <1>1. TypeOK
    <2>1. /\ 0 \in 0 .. RetryCount /\ 0 \in 0 .. BreakAfter - 1
          /\ 0 \in 0 .. MaxLostAcks /\ 0 \in 0 .. MaxFaults
      BY NumbersAssumption
    <2>2. rows \in [Shares -> Nat]
      BY DEF Init
    <2> QED
      BY <2>1, <2>2 DEF Init, TypeOK
  <1>2. OnePlace /\ Imported
    BY DEF Init, OnePlace, Imported, InMemory
  <1>3. NothingLost /\ NeverTwice /\ RecoveryComplete
    BY DEF Init, NothingLost, NeverTwice, RecoveryComplete, InMemory
  <1> QED
    BY <1>1, <1>2, <1>3 DEF IInv

-----------------------------------------------------------------------------
(* From the pool to the buffer.                                            *)

LEMMA SubmitStep ==
    ASSUME IInv, NEW s \in Shares, Submit(s)
    PROVE  IInv'
  <1>1. TypeOK'
    BY DEF IInv, Submit, TypeOK, memory, policy, disk, import
  <1>2. OnePlace' /\ Imported'
    BY DEF IInv, Submit, TypeOK, OnePlace, Imported, InMemory, memory, policy, disk, import
  <1>3. NothingLost'
    BY DEF IInv, Submit, TypeOK, NothingLost, InMemory, memory, policy, disk, import
  <1>4. NeverTwice' /\ RecoveryComplete'
    BY DEF IInv, Submit, TypeOK, OnePlace, NeverTwice, RecoveryComplete, InMemory, memory, policy, disk, import
  <1> QED
    BY <1>1, <1>2, <1>3, <1>4 DEF IInv

\* Shares move within the memory: into the buffer, and from there to a batch.
LEMMA MoveStep ==
    ASSUME IInv, queue' \subseteq queue, buffer' \subseteq InMemory, batch' \subseteq InMemory,
           InMemory' = InMemory, buffer' \cap batch' = {}, queue' \cap buffer' = {},
           queue' \cap batch' = {},
           UNCHANGED <<phase, unseen, policy, rows, disk, import,
                       dropped, lostAcks, reruns, faults>>
    PROVE  IInv'
  <1>1. TypeOK'
    BY DEF IInv, TypeOK, InMemory, policy, disk, import
  <1>2. OnePlace'
    BY DEF IInv, OnePlace, disk
  <1>3. Imported' /\ RecoveryComplete'
    BY DEF IInv, Imported, RecoveryComplete, disk, import
  <1>4. NothingLost' /\ NeverTwice'
    BY DEF IInv, NothingLost, NeverTwice, disk
  <1> QED
    BY <1>1, <1>2, <1>3, <1>4 DEF IInv

LEMMA ConsumeStep ==
    ASSUME IInv, Consume
    PROVE  IInv'
  <1>1. ASSUME NEW s \in Shares, Take(s) PROVE IInv'
    <2>1. /\ queue' = queue \ {s} /\ s \in queue /\ batch = {}
          /\ \/ batch' = buffer \cup {s} /\ buffer' = {}
             \/ buffer' = buffer \cup {s} /\ batch' = batch
      BY <1>1 DEF Take
    <2>2. UNCHANGED <<phase, unseen, policy, rows, disk, import,
                      dropped, lostAcks, reruns, faults>>
      BY <1>1 DEF Take
    <2>3. InMemory' = InMemory
      BY <2>1 DEF InMemory
    <2>4. /\ buffer' \cap batch' = {} /\ queue' \cap buffer' = {} /\ queue' \cap batch' = {}
          /\ buffer' \subseteq InMemory /\ batch' \subseteq InMemory
      BY <2>1 DEF IInv, TypeOK, OnePlace, InMemory
    <2> QED
      BY <2>1, <2>2, <2>3, <2>4, MoveStep
  <1>2. CASE Timer
    <2>1. UNCHANGED <<phase, unseen, policy, rows, disk, import,
                      dropped, lostAcks, reruns, faults>>
      BY <1>2 DEF Timer
    <2>2. queue' = queue /\ batch = {} /\ batch' = buffer /\ buffer' = {}
      BY <1>2 DEF Timer
    <2>3. /\ InMemory' = InMemory
          /\ buffer' \cap batch' = {} /\ queue' \cap buffer' = {} /\ queue' \cap batch' = {}
          /\ buffer' \subseteq InMemory /\ batch' \subseteq InMemory
      BY <2>2 DEF IInv, TypeOK, OnePlace, InMemory
    <2> QED
      BY <2>1, <2>2, <2>3, MoveStep
  <1> QED
    BY <1>1, <1>2 DEF Consume

-----------------------------------------------------------------------------
(* The policies.                                                           *)

LEMMA TxOkStep ==
    ASSUME IInv, TxOk
    PROVE  IInv'
  <1>1. /\ rows' \in [Shares -> Nat] /\ lostAcks' = lostAcks
        /\ \A s \in Shares : rows'[s] = IF s \in batch THEN rows[s] + 1 ELSE rows[s]
    BY Commits DEF IInv, TxOk
  <1>2. /\ phase = "up" /\ batch' = {} /\ tries' = 0 /\ breaker' = "closed" /\ strikes' = 0
        /\ UNCHANGED <<phase, unseen, queue, buffer, disk, import, dropped, reruns, faults>>
    BY DEF TxOk, Attempting, Done
  <1>3. TypeOK'
    BY <1>1, <1>2, NumbersAssumption DEF IInv, TypeOK, disk, import
  <1>4. OnePlace'
    BY <1>1, <1>2 DEF IInv, OnePlace, InMemory, TypeOK, disk
  <1>5. Imported' /\ RecoveryComplete'
    BY <1>2 DEF IInv, Imported, RecoveryComplete, disk, import
  <1>6. NothingLost'
    BY <1>1, <1>2 DEF IInv, NothingLost, InMemory, TypeOK, disk
  <1>7. NeverTwice'
    BY <1>1, <1>2 DEF IInv, NeverTwice, OnePlace, InMemory, TypeOK, disk
  <1> QED
    BY <1>3, <1>4, <1>5, <1>6, <1>7 DEF IInv

LEMMA TxRetryStep ==
    ASSUME IInv, TxRetry
    PROVE  IInv'
  <1>1. /\ rows' \in [Shares -> Nat] /\ lostAcks' \in 0 .. MaxLostAcks /\ lostAcks' >= lostAcks
        /\ Grown /\ Others(batch)
    BY Fails DEF IInv, TxRetry
  <1>2. /\ phase = "up" /\ tries < RetryCount /\ tries' = tries + 1
        /\ UNCHANGED <<phase, unseen, memory, breaker, strikes, disk, import, dropped, reruns, faults>>
    BY DEF TxRetry, Attempting
  <1>3. TypeOK'
    <2>1. tries' \in 0 .. RetryCount
      BY <1>2, NumbersAssumption DEF IInv, TypeOK
    <2> QED
      BY <2>1, <1>1, <1>2 DEF IInv, TypeOK, memory, disk, import
  <1>4. /\ unseen' = unseen /\ queue' = queue /\ buffer' = buffer /\ batch' = batch
        /\ InMemory' = InMemory /\ file' = file /\ dropped' = dropped /\ dirty' = dirty
        /\ reruns' = reruns /\ phase' = phase
    BY <1>2 DEF InMemory, memory, disk
  <1>5. OnePlace'
    BY <1>1, <1>4 DEF IInv, OnePlace, InMemory, Others
  <1>6. Imported' /\ RecoveryComplete'
    BY <1>2 DEF IInv, Imported, RecoveryComplete, disk, import
  <1>7. NothingLost'
    BY <1>1, <1>4 DEF IInv, NothingLost, Grown, TypeOK
  <1>8. NeverTwice'
    BY <1>1, <1>4 DEF IInv, NeverTwice, TypeOK, Grown
  <1> QED
    BY <1>3, <1>5, <1>6, <1>7, <1>8 DEF IInv

\* The batch is parked, whether its last transaction failed or was not tried.
LEMMA ParkedStep ==
    ASSUME IInv, phase = "up", phase' = phase, Done, Park,
           breaker' \in {"closed", "open", "half"}, strikes' \in 0 .. BreakAfter - 1,
           rows' \in [Shares -> Nat], lostAcks' \in 0 .. MaxLostAcks, lostAcks' >= lostAcks,
           Grown /\ Others(batch),
           UNCHANGED <<unseen, queue, buffer, dirty, import, reruns>>
    PROVE  IInv'
  <1>1. /\ file \subseteq file' /\ file' \subseteq file \cup batch
        /\ dropped \subseteq dropped' /\ dropped' \subseteq Shares
        /\ batch \subseteq file' \cup dropped'
        /\ garbled' \in Nat /\ torn' \in BOOLEAN /\ faults' \in 0 .. MaxFaults
    BY Parks DEF IInv
  <1>2. batch' = {} /\ tries' = 0
    BY DEF Done
  <1>3. TypeOK'
    BY <1>1, <1>2, NumbersAssumption DEF IInv, TypeOK, import
  <1>4. OnePlace'
    BY <1>1, <1>2 DEF IInv, OnePlace, InMemory, Others
  <1>5. Imported' /\ RecoveryComplete'
    BY DEF IInv, Imported, RecoveryComplete, import
  <1>6. NothingLost'
    BY <1>1, <1>2 DEF IInv, NothingLost, InMemory, TypeOK, Grown
  <1>7. NeverTwice'
    BY <1>1, <1>2 DEF IInv, NeverTwice, InMemory, TypeOK, Grown, Others
  <1> QED
    BY <1>3, <1>4, <1>5, <1>6, <1>7 DEF IInv

LEMMA TxExhaustedStep ==
    ASSUME IInv, TxExhausted
    PROVE  IInv'
  <1>1. TxFails(batch) /\ Strike /\ Done /\ Park /\ phase = "up"
    BY DEF TxExhausted, Attempting
  <1>2. UNCHANGED <<phase, unseen, queue, buffer, dirty, import, reruns>>
    BY DEF TxExhausted
  <1>3. breaker' \in {"closed", "open", "half"} /\ strikes' \in 0 .. BreakAfter - 1
    BY <1>1, Strikes DEF IInv
  <1>4. /\ rows' \in [Shares -> Nat] /\ lostAcks' \in 0 .. MaxLostAcks /\ lostAcks' >= lostAcks
        /\ Grown /\ Others(batch)
    BY <1>1, Fails DEF IInv
  <1> QED
    BY <1>1, <1>2, <1>3, <1>4, ParkedStep

LEMMA TxUnexpectedStep ==
    ASSUME IInv, TxUnexpected
    PROVE  IInv'
  <1>1. /\ rows' \in [Shares -> Nat] /\ lostAcks' \in 0 .. MaxLostAcks /\ lostAcks' >= lostAcks
        /\ Grown /\ Others(batch)
    BY Fails DEF IInv, TxUnexpected
  <1>2. /\ phase = "up" /\ batch' = {} /\ tries' = 0 /\ dropped' = dropped \cup batch
        /\ UNCHANGED <<phase, unseen, queue, buffer, breaker, strikes, disk, import, reruns>>
    BY DEF TxUnexpected, Attempting, Done
  <1>3. faults' \in 0 .. MaxFaults
    BY FaultsCount DEF IInv, TxUnexpected
  <1>4. TypeOK'
    BY <1>1, <1>2, <1>3, NumbersAssumption DEF IInv, TypeOK, disk, import
  <1>5. /\ unseen' = unseen /\ queue' = queue /\ buffer' = buffer /\ batch' = {}
        /\ InMemory' = queue \cup buffer /\ file' = file /\ dirty' = dirty
        /\ reruns' = reruns /\ phase' = phase
    BY <1>2 DEF InMemory, disk
  <1>6. OnePlace'
    BY <1>1, <1>5 DEF IInv, OnePlace, InMemory, Others
  <1>7. Imported' /\ RecoveryComplete'
    BY <1>2 DEF IInv, Imported, RecoveryComplete, disk, import
  <1>8. NothingLost'
    BY <1>1, <1>2, <1>5 DEF IInv, NothingLost, InMemory, TypeOK, Grown
  <1>9. NeverTwice'
    BY <1>1, <1>5 DEF IInv, NeverTwice, InMemory, TypeOK, Grown
  <1> QED
    BY <1>4, <1>6, <1>7, <1>8, <1>9 DEF IInv

LEMMA CircuitOpenStep ==
    ASSUME IInv, CircuitOpen
    PROVE  IInv'
  <1>1. /\ phase = "up" /\ Done /\ Park
        /\ UNCHANGED <<phase, unseen, queue, buffer, breaker, strikes, rows, dirty, import,
                       lostAcks, reruns>>
    BY DEF CircuitOpen
  <1>2. /\ breaker' \in {"closed", "open", "half"} /\ strikes' \in 0 .. BreakAfter - 1
        /\ rows' \in [Shares -> Nat] /\ lostAcks' \in 0 .. MaxLostAcks /\ lostAcks' >= lostAcks
        /\ Grown /\ Others(batch)
    BY <1>1 DEF IInv, TypeOK, Grown, Others
  <1> QED
    BY <1>1, <1>2, ParkedStep

LEMMA CircuitHalfOpenStep ==
    ASSUME IInv, CircuitHalfOpen
    PROVE  IInv'
  <1>1. breaker' = "half" /\ UNCHANGED <<phase, unseen, memory, tries, strikes, rows, disk, import,
                                         dropped, lostAcks, reruns, faults>>
    BY DEF CircuitHalfOpen
  <1>2. TypeOK'
    BY <1>1 DEF IInv, TypeOK, memory, disk, import
  <1>3. OnePlace' /\ Imported'
    BY <1>1 DEF IInv, OnePlace, Imported, InMemory, memory, disk, import
  <1>4. NothingLost' /\ NeverTwice' /\ RecoveryComplete'
    BY <1>1 DEF IInv, NothingLost, NeverTwice, RecoveryComplete, InMemory, memory, disk, import
  <1> QED
    BY <1>2, <1>3, <1>4 DEF IInv

-----------------------------------------------------------------------------
(* Stopping, starting, and the import of the recovery file.                *)

LEMMA HaltStep ==
    ASSUME IInv, Halt
    PROVE  IInv'
  <1>1. /\ phase' = "down" /\ dropped' = dropped \cup InMemory
        /\ queue' = {} /\ buffer' = {} /\ batch' = {} /\ tries' = 0
        /\ breaker' = "closed" /\ strikes' = 0
        /\ left' = {} /\ bad' = 0 /\ chunk' = {} /\ successCount' = 0 /\ failCount' = 0
        /\ dirty' = (dirty \/ phase = "import")
        /\ UNCHANGED <<unseen, rows, file, garbled, torn, lostAcks, reruns>>
    BY DEF Halt, Done, InMemory
  <1>2. faults' \in 0 .. MaxFaults
    BY FaultsCount DEF IInv, Halt
  <1>3. InMemory' = {} /\ InMemory \subseteq Shares
    BY <1>1 DEF InMemory, IInv, TypeOK
  <1>4. dirty' \in BOOLEAN
    BY <1>1 DEF IInv, TypeOK
  <1>5. TypeOK'
    BY <1>1, <1>2, <1>3, <1>4, NumbersAssumption DEF IInv, TypeOK
  <1>6. OnePlace' /\ Imported' /\ RecoveryComplete'
    BY <1>1, <1>3 DEF IInv, OnePlace, Imported, RecoveryComplete
  <1>7. NothingLost'
    BY <1>1, <1>3 DEF IInv, NothingLost
  <1>8. NeverTwice'
    BY <1>1, <1>3, phase # "report" DEF IInv, NeverTwice, Halt
  <1> QED
    BY <1>5, <1>6, <1>7, <1>8 DEF IInv

LEMMA StartStep ==
    ASSUME IInv, Start
    PROVE  IInv'
  <1>1. /\ phase = "down" /\ phase' = "up"
        /\ UNCHANGED <<unseen, memory, policy, rows, disk, import,
                       dropped, lostAcks, reruns, faults>>
    BY DEF Start
  <1>2. TypeOK'
    BY <1>1 DEF IInv, TypeOK, memory, policy, disk, import
  <1>3. OnePlace' /\ Imported'
    BY <1>1 DEF IInv, OnePlace, Imported, InMemory, memory, disk, import
  <1>4. NothingLost' /\ NeverTwice' /\ RecoveryComplete'
    BY <1>1 DEF IInv, NothingLost, NeverTwice, RecoveryComplete, InMemory, memory, disk, import
  <1> QED
    BY <1>2, <1>3, <1>4 DEF IInv

\* An import of a file that was imported before is allowed one more row.
LEMMA RecoverSharesStep ==
    ASSUME IInv, RecoverShares
    PROVE  IInv'
  <1>1. /\ phase = "down" /\ phase' = "import"
        /\ left' = file /\ chunk' = {} /\ successCount' = 0 /\ failCount' = 0
        /\ unseen' = unseen /\ InMemory' = InMemory /\ queue' = queue /\ buffer' = buffer
        /\ batch' = batch /\ rows' = rows /\ file' = file /\ dirty' = dirty
        /\ dropped' = dropped /\ lostAcks' = lostAcks
        /\ UNCHANGED <<policy, garbled, torn>>
    BY DEF RecoverShares, memory, disk, InMemory
  <1>2. /\ reruns' \in Nat /\ faults' \in 0 .. MaxFaults
        /\ reruns' = IF dirty THEN reruns + 1 ELSE reruns
    <2>1. CASE dirty
      BY <2>1, FaultsCount DEF IInv, TypeOK, RecoverShares
    <2>2. CASE ~dirty
      BY <2>2 DEF IInv, TypeOK, RecoverShares
    <2> QED
      BY <2>1, <2>2
  <1>3. bad' \in Nat
    BY DEF IInv, TypeOK, RecoverShares
  <1>4. TypeOK'
    BY <1>1, <1>2, <1>3 DEF IInv, TypeOK, policy
  <1>5. OnePlace'
    BY <1>1 DEF IInv, OnePlace
  <1>6. Imported'
    <2>1. ASSUME NEW s \in file PROVE rows[s] <= lostAcks + reruns'
      BY <1>1, <1>2, <2>1 DEF IInv, TypeOK, NeverTwice
    <2> QED
      BY <1>1, <2>1 DEF Imported
  <1>7. NothingLost' /\ RecoveryComplete'
    BY <1>1 DEF IInv, NothingLost, RecoveryComplete
  <1>8. NeverTwice'
    BY <1>1, <1>2 DEF IInv, TypeOK, NeverTwice
  <1> QED
    BY <1>4, <1>5, <1>6, <1>7, <1>8 DEF IInv

\* What became of the chunk: it is kept, or each of its shares has a further row.
Stored(c) == lostAcks' = lostAcks /\ \A s \in Shares : s \in c => rows'[s] = rows[s] + 1

LEMMA CommitStores ==
    ASSUME TypeOK, NEW c, TxCommits(c)
    PROVE  rows' \in [Shares -> Nat] /\ lostAcks' \in 0 .. MaxLostAcks /\ Others(c) /\ Stored(c)
  <1>1. rows' \in [Shares -> Nat] /\ lostAcks' = lostAcks
    BY Commits
  <1>2. Others(c) /\ Stored(c)
    BY Commits DEF Others, Stored
  <1> QED
    BY <1>1, <1>2 DEF TypeOK

LEMMA ChunkImported ==
    ASSUME TypeOK, NEW c, NEW f \in Nat, ImportIfFull(c, f)
    PROVE  /\ rows' \in [Shares -> Nat] /\ lostAcks' \in 0 .. MaxLostAcks
           /\ failCount' \in Nat /\ Others(c)
           /\ (chunk' = c /\ Grown) \/ (chunk' = {} /\ Stored(c))
  <1>1. CASE TxCommits(c) /\ chunk' = {} /\ failCount' = f
    BY <1>1, CommitStores
  <1>2. CASE TxFails(c) /\ chunk' = c /\ failCount' = f + 1
    BY <1>2, Fails
  <1>3. CASE chunk' = c /\ failCount' = f /\ UNCHANGED <<rows, lostAcks>>
    BY <1>3 DEF TypeOK, Grown, Others
  <1> QED
    BY <1>1, <1>2, <1>3 DEF ImportIfFull

\* A line of the file is read; c is the chunk with the share of the line.
LEMMA ReadStep ==
    ASSUME IInv, phase = "import", NEW c, c \subseteq file, left' \subseteq left,
           left' \cup c = left \cup chunk, left' \cap c = {},
           NEW f \in Nat, ImportIfFull(c, f), bad' \in Nat,
           UNCHANGED <<phase, unseen, memory, policy, disk, successCount,
                       dropped, reruns, faults>>
    PROVE  IInv'
  <1>1. /\ rows' \in [Shares -> Nat] /\ lostAcks' \in 0 .. MaxLostAcks
        /\ failCount' \in Nat /\ Others(c)
        /\ (chunk' = c /\ Grown) \/ (chunk' = {} /\ Stored(c))
    BY ChunkImported DEF IInv
  <1>2. /\ phase' = "import" /\ unseen' = unseen /\ queue' = queue /\ buffer' = buffer
        /\ batch' = batch /\ InMemory' = InMemory /\ file' = file /\ dirty' = dirty
        /\ dropped' = dropped /\ reruns' = reruns
    BY DEF memory, disk, InMemory
  <1>3. TypeOK'
    BY <1>1, <1>2 DEF IInv, TypeOK, policy, disk
  <1>4. c \subseteq Shares /\ \A s \in c : s \notin InMemory /\ s \notin unseen
    BY DEF IInv, TypeOK, OnePlace
  <1>5. OnePlace'
    BY <1>1, <1>2, <1>4 DEF IInv, OnePlace, Others
  <1>6. Imported' /\ NothingLost' /\ NeverTwice'
    <2>1. CASE chunk' = c /\ Grown
      <3>1. Imported'
        BY <1>1, <1>2, <2>1 DEF IInv, TypeOK, Imported, Grown
      <3>2. NothingLost'
        BY <1>1, <1>2, <2>1 DEF IInv, TypeOK, NothingLost, Grown
      <3>3. NeverTwice'
        BY <1>1, <1>2, <2>1 DEF IInv, TypeOK, NeverTwice, Grown
      <3> QED
        BY <3>1, <3>2, <3>3
    <2>2. CASE chunk' = {} /\ Stored(c)
      <3>1. \A s \in Shares : rows'[s] = rows[s] \/ (s \in c /\ rows'[s] = rows[s] + 1)
        BY <1>1, <2>2 DEF Others, Stored
      <3>2. Imported'
        <4>1. ASSUME NEW s \in file
              PROVE  /\ s \in left' \/ rows'[s] > 0
                     /\ s \in left' => rows'[s] <= lostAcks + reruns
          <5>1. CASE s \in c
            BY <5>1, <2>2 DEF IInv, TypeOK, Stored
          <5>2. CASE s \notin c
            <6>1. rows'[s] = rows[s]
              BY <5>2, <1>1 DEF IInv, TypeOK, Others
            <6> QED
              BY <5>2, <6>1 DEF IInv, Imported
          <5> QED
            BY <5>1, <5>2
        <4> QED
          BY <4>1, <1>2, <2>2 DEF Imported, Stored
      <3>3. NothingLost'
        BY <3>1, <1>2 DEF IInv, TypeOK, NothingLost
      <3>4. NeverTwice'
        <4>1. ASSUME NEW s \in c PROVE rows'[s] <= 1 + lostAcks + reruns
          BY <2>2, <1>4, <4>1 DEF IInv, TypeOK, Imported, Stored
        <4>2. \A s \in Shares \ c : rows'[s] = rows[s]
          BY <1>1 DEF Others
        <4>3. lostAcks' = lostAcks
          BY <2>2 DEF Stored
        <4> QED
          BY <4>1, <4>2, <4>3, <1>2, <1>4 DEF IInv, TypeOK, NeverTwice
      <3> QED
        BY <3>2, <3>3, <3>4
    <2> QED
      BY <1>1, <2>1, <2>2
  <1>7. RecoveryComplete'
    BY <1>2 DEF RecoveryComplete
  <1> QED
    BY <1>3, <1>5, <1>6, <1>7 DEF IInv

LEMMA ReadRecordStep ==
    ASSUME IInv, NEW s \in Shares, ReadRecord(s)
    PROVE  IInv'
  <1>1. /\ phase = "import" /\ s \in left /\ left' = left \ {s}
        /\ ImportIfFull(chunk \cup {s}, failCount) /\ bad' = bad
        /\ UNCHANGED <<phase, unseen, memory, policy, disk, successCount,
                       dropped, reruns, faults>>
    BY DEF ReadRecord
  <1>2. /\ chunk \cup {s} \subseteq file /\ failCount \in Nat /\ bad' \in Nat
        /\ left' \cup (chunk \cup {s}) = left \cup chunk /\ left' \cap (chunk \cup {s}) = {}
    BY <1>1 DEF IInv, TypeOK, Imported
  <1> DEFINE c == chunk \cup {s}
  <1>3. c \subseteq file /\ left' \subseteq left /\ left' \cup c = left \cup chunk
        /\ left' \cap c = {} /\ ImportIfFull(c, failCount)
    BY <1>1, <1>2
  <1> HIDE DEF c
  <1> QED
    BY <1>1, <1>2, <1>3, ReadStep

LEMMA ReadGarbledStep ==
    ASSUME IInv, ReadGarbled
    PROVE  IInv'
  <1>1. /\ phase = "import" /\ left' = left /\ bad > 0 /\ bad' = bad - 1
        /\ ImportIfFull(chunk, failCount + 1)
        /\ UNCHANGED <<phase, unseen, memory, policy, disk, successCount,
                       dropped, reruns, faults>>
    BY DEF ReadGarbled
  <1>2. /\ chunk \subseteq file /\ failCount + 1 \in Nat /\ bad' \in Nat
        /\ left' \subseteq left /\ left' \cup chunk = left \cup chunk /\ left' \cap chunk = {}
    BY <1>1 DEF IInv, TypeOK, Imported
  <1> QED
    BY <1>1, <1>2, ReadStep

\* The rest of the shares is imported, and then each record was, or a failure
\* is reported.
LEMMA ImportRestStep ==
    ASSUME IInv, ImportRest
    PROVE  IInv'
  <1>1. /\ phase = "import" /\ left = {} /\ phase' = "report"
        /\ left' = left /\ bad' = bad /\ chunk' = chunk
        /\ unseen' = unseen /\ queue' = queue /\ buffer' = buffer
        /\ batch' = batch /\ InMemory' = InMemory /\ file' = file /\ dirty' = dirty
        /\ garbled' = garbled /\ torn' = torn
        /\ dropped' = dropped /\ reruns' = reruns /\ faults' = faults /\ policy' = policy
    BY DEF ImportRest, AtEnd, memory, disk, InMemory
  <1>2. /\ chunk \subseteq Shares /\ \A s \in chunk : s \notin InMemory /\ s \notin unseen
        /\ Cardinality(chunk) \in Nat
    BY SharesAreFinite DEF IInv, TypeOK, OnePlace
  <1>3. /\ rows' \in [Shares -> Nat] /\ lostAcks' \in 0 .. MaxLostAcks /\ Others(chunk)
        /\ successCount' \in Nat /\ failCount' \in Nat
        /\ (Grown /\ (chunk = {} \/ failCount' # 0)) \/ Stored(chunk)
    <2>1. CASE chunk = {} /\ UNCHANGED <<rows, lostAcks, successCount, failCount>>
      BY <2>1 DEF IInv, TypeOK, Grown, Others
    <2>2. CASE TxCommits(chunk) /\ successCount' = successCount + Cardinality(chunk)
               /\ UNCHANGED failCount
      <3>1. successCount' \in Nat /\ failCount' \in Nat
        BY <2>2, <1>2 DEF IInv, TypeOK
      <3> QED
        BY <2>2, <3>1, CommitStores DEF IInv
    <2>3. CASE TxFails(chunk) /\ failCount' = failCount + 1 /\ UNCHANGED successCount
      <3>1. successCount' \in Nat /\ failCount' \in Nat /\ failCount' # 0
        BY <2>3 DEF IInv, TypeOK
      <3> QED
        BY <2>3, <3>1, Fails DEF IInv
    <2> QED
      BY <2>1, <2>2, <2>3 DEF ImportRest
  <1>4. TypeOK'
    BY <1>1, <1>3 DEF IInv, TypeOK, policy
  <1>5. OnePlace'
    BY <1>1, <1>2, <1>3 DEF IInv, OnePlace, Others
  <1>6. Imported'
    BY <1>1 DEF IInv, Imported
  <1>7. CASE Grown /\ (chunk = {} \/ failCount' # 0)
    <2>1. NothingLost'
      BY <1>1, <1>3, <1>7 DEF IInv, TypeOK, NothingLost, Grown
    <2>2. NeverTwice'
      BY <1>1, <1>3, <1>7 DEF IInv, TypeOK, NeverTwice, Grown
    <2>3. RecoveryComplete'
      BY <1>1, <1>3, <1>7 DEF IInv, TypeOK, Imported, RecoveryComplete, Grown
    <2> QED
      BY <2>1, <2>2, <2>3, <1>4, <1>5, <1>6 DEF IInv
  <1>8. CASE Stored(chunk)
    <2>1. \A s \in Shares : rows'[s] = rows[s] \/ (s \in chunk /\ rows'[s] = rows[s] + 1)
      BY <1>3, <1>8 DEF Others, Stored
    <2>2. NothingLost'
      BY <2>1, <1>1 DEF IInv, TypeOK, NothingLost
    <2>3. NeverTwice'
      <3>1. ASSUME NEW s \in chunk PROVE rows'[s] <= 1 + lostAcks + reruns
        BY <1>8, <1>1, <1>2, <3>1 DEF IInv, TypeOK, Imported, Stored
      <3>2. \A s \in Shares \ chunk : rows'[s] = rows[s]
        BY <1>3 DEF Others
      <3>3. lostAcks' = lostAcks
        BY <1>8 DEF Stored
      <3> QED
        BY <3>1, <3>2, <3>3, <1>1, <1>2 DEF IInv, TypeOK, NeverTwice
    <2>4. RecoveryComplete'
      <3>1. ASSUME NEW s \in file PROVE rows'[s] > 0
        BY <2>1, <1>1, <1>8 DEF IInv, TypeOK, Imported, Stored
      <3> QED
        BY <3>1, <1>1 DEF RecoveryComplete
    <2> QED
      BY <2>2, <2>3, <2>4, <1>4, <1>5, <1>6 DEF IInv
  <1> QED
    BY <1>3, <1>7, <1>8

LEMMA RemoveFileStep ==
    ASSUME IInv, RemoveFile
    PROVE  IInv'
  <1>1. /\ phase = "report" /\ phase' = "down" /\ left = {}
        /\ chunk' = {} /\ successCount' = 0 /\ failCount' = 0
        /\ UNCHANGED <<unseen, memory, policy, rows, left, bad,
                       dropped, lostAcks, reruns, faults>>
        /\ queue' = queue /\ buffer' = buffer /\ batch' = batch /\ InMemory' = InMemory
    BY DEF RemoveFile, IInv, Imported, memory, InMemory
  <1>2. \/ /\ failCount = 0 /\ file' = {} /\ garbled' = 0 /\ torn' = FALSE /\ dirty' = FALSE
        \/ dirty' = TRUE /\ UNCHANGED <<file, garbled, torn>>
    BY DEF RemoveFile
  <1>3. TypeOK'
    BY <1>1, <1>2 DEF IInv, TypeOK, policy
  <1>4. OnePlace' /\ Imported' /\ RecoveryComplete'
    BY <1>1, <1>2 DEF IInv, OnePlace, Imported, RecoveryComplete
  <1>5. NothingLost'
    BY <1>1, <1>2 DEF IInv, NothingLost, RecoveryComplete
  <1>6. NeverTwice'
    BY <1>1, <1>2 DEF IInv, NeverTwice
  <1> QED
    BY <1>3, <1>4, <1>5, <1>6 DEF IInv

-----------------------------------------------------------------------------
(* Every step keeps the invariant.                                         *)

LEMMA IInvStep ==
    ASSUME IInv, [Next]_vars
    PROVE  IInv'
  <1>1. CASE \E s \in Shares : Submit(s)
    BY <1>1, SubmitStep
  <1>2. CASE Consume
    BY <1>2, ConsumeStep
  <1>3. CASE Persist
    BY <1>3, TxOkStep, TxRetryStep, TxExhaustedStep, TxUnexpectedStep, CircuitOpenStep,
       CircuitHalfOpenStep DEF Persist
  <1>4. CASE Halt \/ Start
    BY <1>4, HaltStep, StartStep
  <1>5. CASE Recovery
    BY <1>5, RecoverSharesStep, ReadRecordStep, ReadGarbledStep, ImportRestStep, RemoveFileStep
       DEF Recovery
  <1>6. CASE UNCHANGED vars
    <2>1. TypeOK'
      BY <1>6 DEF IInv, TypeOK, vars, memory, policy, disk, import
    <2>2. OnePlace' /\ Imported'
      BY <1>6 DEF IInv, OnePlace, Imported, InMemory, vars, memory, disk, import
    <2>3. NothingLost' /\ NeverTwice' /\ RecoveryComplete'
      BY <1>6 DEF IInv, NothingLost, NeverTwice, RecoveryComplete, InMemory, vars, memory, disk, import
    <2> QED
      BY <2>1, <2>2, <2>3 DEF IInv
  <1> QED
    BY <1>1, <1>2, <1>3, <1>4, <1>5, <1>6 DEF Next

\* Every step of the recorder keeps the invariant.
THEOREM Invariance == Spec => []IInv
  <1>1. IInv /\ [Next]_vars => IInv'
    BY IInvStep
  <1> QED
    BY IInvInit, <1>1, PTL DEF Spec

-----------------------------------------------------------------------------
\* The recorder's queue, policies and counters keep their types: the retries
\* and the strikes of the circuit stay within their limits
\* (ShareRecorder.BuildFaultHandlingPolicy).
THEOREM TypeCorrect == Spec => []TypeOK
  BY Invariance, PTL DEF IInv

\* A share that left the pool is in memory, stored, in the recovery file or
\* given up, through failing transactions, broken circuits, torn files, stops
\* and imports (ShareRecorder.PersistSharesFaulTolerant, RecoverShares).
THEOREM NothingIsLost == Spec => []NothingLost
  BY Invariance, PTL DEF IInv

\* Only a lost answer to a COMMIT or another import of one file stores a share
\* again, and each at most once (ShareRecorder.PersistShares, RecoverShares).
THEOREM StoredOnce == Spec => []NeverTwice
  BY Invariance, PTL DEF IInv

\* An import without failures has stored every record of the recovery file
\* (ShareRecorder.RecoverShares).
THEOREM ImportsAreComplete == Spec => []RecoveryComplete
  BY Invariance, PTL DEF IInv
=============================================================================
