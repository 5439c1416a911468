--------------------------- MODULE AionJobsProofs ---------------------------
(***************************************************************************)
(* Theorems about AionJobs, for every number of workers, requests, headers *)
(* and jobs, every backlog and every lag of the daemon; and about Equihash,*)
(* by which a job judges a share, for all sizes, hashes and difficulties.  *)
(***************************************************************************)
EXTENDS AionJobs, Equihash, Sums, SequenceTheorems, TLAPS

(* The invariant.  That a stale share is old needs that a job leaves the   *)
(* list only when it is obsolete, that a candidate is a block needs that   *)
(* the mark is set by the answer of the daemon alone and stays.            *)

\* Work for a height more than the backlog above that of job j was made.
Obsolete(j) == \E k \in DOMAIN jobs : HeightOf(k) > HeightOf(j) + MaxBlockBacklog

UnlistedIsOld == \A j \in DOMAIN jobs \ validJobs : Obsolete(j)

MarkedIsMinted ==
    \A r \in Requests :
        /\ req[r] # NoRequest /\ req[r].candidate => minted[r] # 0 \/ r \in declined
        /\ minted[r] # 0 => req[r] # NoRequest /\ (req[r].candidate \/ r \in unheard)

AnnouncesWork == updater = "announce" => currentJob # 0

IInv == TypeOK /\ WorkIsOpen /\ UnlistedIsOld /\ StaleIsOld /\ MarkedIsMinted /\ AnnouncesWork

-----------------------------------------------------------------------------
(* Headers, jobs and requests.                                             *)

\* The chain of headers stays as it is, or grows by one.
Grows == \/ headers' = headers
         \/ \E h \in Nat \ {0} : headers' = Append(headers, h) /\ Len(headers) < MaxHeaders

LEMMA ElementOf ==
    ASSUME NEW S, NEW s \in Seq(S), NEW i \in DOMAIN s
    PROVE  s[i] \in S /\ i \in Nat
  OBVIOUS

LEMMA HeightIsNat ==
    ASSUME TypeOK, NEW j \in DOMAIN jobs
    PROVE  jobs[j].header \in DOMAIN headers /\ HeightOf(j) \in Nat \ {0} /\ j \in Nat
  <1>1. jobs \in Seq([header : DOMAIN headers, net : NetDiffs]) /\ headers \in Seq(Nat \ {0})
    BY DEF TypeOK
  <1>2. jobs[j] \in [header : DOMAIN headers, net : NetDiffs] /\ j \in Nat
    BY <1>1, ElementOf
  <1>3. jobs[j].header \in DOMAIN headers
    BY <1>2
  <1> QED
    BY <1>1, <1>2, <1>3 DEF HeightOf

LEMMA HeadersGrow ==
    ASSUME TypeOK, Grows
    PROVE  /\ headers' \in Seq(Nat \ {0}) /\ Len(headers') \in 1 .. MaxHeaders
           /\ DOMAIN headers \subseteq DOMAIN headers'
           /\ \A i \in DOMAIN headers : headers'[i] = headers[i]
  <1>1. headers \in Seq(Nat \ {0}) /\ Len(headers) \in 1 .. MaxHeaders
    BY DEF TypeOK
  <1>2. CASE headers' = headers
    BY <1>1, <1>2
  <1>3. ASSUME NEW h \in Nat \ {0}, headers' = Append(headers, h), Len(headers) < MaxHeaders
        PROVE  /\ headers' \in Seq(Nat \ {0}) /\ Len(headers') \in 1 .. MaxHeaders
               /\ DOMAIN headers \subseteq DOMAIN headers'
               /\ \A i \in DOMAIN headers : headers'[i] = headers[i]
    BY <1>1, <1>3, NumbersAssumption
  <1> QED
    BY <1>2, <1>3 DEF Grows

LEMMA SequencesWiden ==
    ASSUME NEW S, NEW T, S \subseteq T, NEW s \in Seq(S)
    PROVE  s \in Seq(T)
  OBVIOUS

\* Jobs keep their heights while headers are added.
LEMMA HeightsStay ==
    ASSUME TypeOK, Grows, UNCHANGED jobs
    PROVE  /\ \A j \in DOMAIN jobs : HeightOf(j)' = HeightOf(j)
           /\ \A j \in DOMAIN jobs : Obsolete(j) => Obsolete(j)'
           /\ jobs' \in Seq([header : DOMAIN headers', net : NetDiffs])
  <1>1. \A j \in DOMAIN jobs : HeightOf(j)' = HeightOf(j)
    BY HeadersGrow, HeightIsNat DEF HeightOf
  <1>2. \A j \in DOMAIN jobs : Obsolete(j) => Obsolete(j)'
    BY <1>1 DEF Obsolete
  <1>3. jobs' \in Seq([header : DOMAIN headers', net : NetDiffs])
    <2>1. jobs \in Seq([header : DOMAIN headers, net : NetDiffs]) /\ jobs' = jobs
      BY DEF TypeOK
    <2>2. [header : DOMAIN headers, net : NetDiffs] \subseteq [header : DOMAIN headers', net : NetDiffs]
      BY HeadersGrow
    <2> QED
      BY <2>1, <2>2, SequencesWiden
  <1> QED
    BY <1>1, <1>2, <1>3

\* A request that is not free has all its fields.
LEMMA RequestFields ==
    ASSUME TypeOK, NEW r \in Requests, req[r].pc # "free"
    PROVE  req[r] \in RequestType
  BY DEF TypeOK, NoRequest

LEMMA JobOfRequest ==
    ASSUME TypeOK, NEW r \in Requests, req[r].pc # "free"
    PROVE  req[r].job \in DOMAIN jobs
  <1>1. req[r] \in RequestType
    BY RequestFields
  <1>2. DOMAIN jobs = 1 .. Len(jobs)
    BY DEF TypeOK
  <1> QED
    BY <1>1, <1>2 DEF RequestType

-----------------------------------------------------------------------------
(* A step of a request: its own record changes, and what it may change.    *)

\* The request r becomes q, and what the daemon said of its block fits that.
Answered(r, q) ==
    /\ minted' \in [Requests -> 0 .. MaxHeaders]
    /\ declined' \subseteq Requests /\ unheard' \subseteq Requests
    /\ \A p \in Requests \ {r} : minted'[p] = minted[p]
    /\ declined \subseteq declined' /\ unheard \subseteq unheard'
    /\ q.candidate => minted'[r] # 0 \/ r \in declined'
    /\ minted'[r] # 0 => q.candidate \/ r \in unheard'

LEMMA RequestStep ==
    ASSUME IInv, NEW r \in Requests, NEW q \in RequestType, req' = [req EXCEPT ![r] = q],
           q.pc = "stale" => Obsolete(q.job),
           Answered(r, q), Grows,
           nonces' \in [Ids -> [Workers -> [gen : Nat, used : SUBSET Nonces]]],
           UNCHANGED <<jobs, validJobs, currentJob, announced, told, updater, silent, contexts>>
    PROVE  IInv'
  <1>1. /\ TypeOK /\ headers' \in Seq(Nat \ {0}) /\ Len(headers') \in 1 .. MaxHeaders
        /\ \A j \in DOMAIN jobs : HeightOf(j)' = HeightOf(j)
        /\ \A j \in DOMAIN jobs : Obsolete(j) => Obsolete(j)'
        /\ jobs' \in Seq([header : DOMAIN headers', net : NetDiffs])
    BY HeadersGrow, HeightsStay DEF IInv
  <1>2. /\ jobs' = jobs /\ validJobs' = validJobs /\ currentJob' = currentJob
        /\ announced' = announced /\ told' = told /\ updater' = updater /\ silent' = silent
        /\ diff' = diff /\ prev' = prev /\ pending' = pending /\ updated' = updated
    BY DEF contexts
  <1>3. req' \in [Requests -> {NoRequest} \cup RequestType] /\ RequestType' = RequestType
    BY <1>1, <1>2 DEF TypeOK, RequestType
  <1>4. TypeOK'
    BY <1>1, <1>2, <1>3 DEF TypeOK, Answered
  <1>5. WorkIsOpen'
    <2>1. validJobs \subseteq DOMAIN jobs /\ (currentJob # 0 => currentJob \in DOMAIN jobs)
      <3>1. /\ jobs \in Seq([header : DOMAIN headers, net : NetDiffs])
            /\ validJobs \subseteq DOMAIN jobs /\ currentJob \in 0 .. Len(jobs)
        BY <1>1 DEF TypeOK
      <3>2. Len(jobs) \in Nat /\ DOMAIN jobs = 1 .. Len(jobs)
        BY <3>1
      <3> QED
        BY <3>1, <3>2
    <2> QED
      BY <1>1, <1>2, <2>1 DEF IInv, WorkIsOpen
  <1>6. UnlistedIsOld'
    BY <1>1, <1>2 DEF IInv, UnlistedIsOld
  <1>7. StaleIsOld'
    <2>1. ASSUME NEW s \in Requests, req'[s].pc = "stale"
          PROVE  req'[s].job \in DOMAIN jobs /\ Obsolete(req'[s].job)
      <3>1. CASE s = r
        BY <1>1, <2>1, <3>1 DEF TypeOK, RequestType
      <3>2. CASE s # r
        <4>1. req'[s] = req[s] /\ req[s].pc = "stale"
          BY <1>1, <2>1, <3>2 DEF TypeOK
        <4>2. req[s] \in RequestType
          BY <4>1, <1>1, RequestFields
        <4>3. req[s].job \in DOMAIN jobs
          BY <1>1, <4>2, SMTT(30) DEF RequestType, TypeOK
        <4>4. Obsolete(req[s].job)
          BY <4>1 DEF IInv, StaleIsOld, Obsolete
        <4> QED
          BY <4>1, <4>3, <4>4
      <3> QED
        BY <3>1, <3>2
    <2>2. ASSUME NEW s \in Requests, req'[s].pc = "stale"
          PROVE  \E k \in DOMAIN jobs' : headers'[jobs'[k].header]
                                         > headers'[jobs'[req'[s].job].header] + MaxBlockBacklog
      <3>1. PICK j \in DOMAIN jobs : j = req'[s].job /\ Obsolete(j)
        BY <2>1, <2>2
      <3>2. PICK k \in DOMAIN jobs : HeightOf(k) > HeightOf(j) + MaxBlockBacklog
        BY <3>1 DEF Obsolete
      <3>3. headers'[jobs'[k].header] = HeightOf(k) /\ headers'[jobs'[j].header] = HeightOf(j)
        BY <1>1 DEF HeightOf
      <3> QED
        BY <3>1, <3>2, <3>3, <1>2
    <2> QED
      BY <2>2 DEF StaleIsOld, HeightOf
  <1>8. MarkedIsMinted' /\ AnnouncesWork'
    <2>1. req'[r] = q /\ q # NoRequest
      <3>1. q.pc # "free"
        BY DEF RequestType, InFlight, Ends
      <3>2. q # NoRequest
        BY <3>1 DEF NoRequest
      <3> QED
        BY <1>1, <3>2 DEF TypeOK
    <2>2. \A p \in Requests \ {r} : req'[p] = req[p] /\ minted'[p] = minted[p]
      BY <1>1 DEF TypeOK, Answered
    <2>3. MarkedIsMinted'
      BY <2>1, <2>2 DEF IInv, MarkedIsMinted, Answered
    <2> QED
      BY <1>2, <2>3 DEF IInv, AnnouncesWork
  <1> QED
    BY <1>4, <1>5, <1>6, <1>7, <1>8 DEF IInv

-----------------------------------------------------------------------------
(* The steps of a request.                                                 *)

\* Most steps leave everything but the request alone.
LEMMA LocalStep ==
    ASSUME IInv, NEW r \in Requests, NEW q \in RequestType, req' = [req EXCEPT ![r] = q],
           q.pc # "stale", req[r].pc # "free", q.candidate = req[r].candidate,
           UNCHANGED <<work, contexts, nonces, answers>>
    PROVE  IInv'
  <1>1. Answered(r, q)
    BY DEF IInv, TypeOK, MarkedIsMinted, NoRequest, Answered, answers
  <1>2. /\ Grows
        /\ nonces' \in [Ids -> [Workers -> [gen : Nat, used : SUBSET Nonces]]]
    BY DEF IInv, TypeOK, Grows, work
  <1> QED
    BY <1>1, <1>2, RequestStep DEF work

LEMMA GotoStep ==
    ASSUME IInv, NEW r \in Requests, NEW step \in InFlight \cup Ends, step # "stale",
           req[r].pc # "free", Goto(r, step), UNCHANGED <<work, contexts, nonces, answers>>
    PROVE  IInv'
  <1>1. req[r] \in RequestType
    BY RequestFields DEF IInv
  <1> DEFINE q == [req[r] EXCEPT !.pc = step]
  <1>2. q \in RequestType /\ q.pc = step /\ q.candidate = req[r].candidate
    BY <1>1 DEF RequestType
  <1>3. req' = [req EXCEPT ![r] = q]
    BY DEF Goto
  <1> HIDE DEF q
  <1> QED
    BY <1>2, <1>3, LocalStep

LEMMA LookupStep ==
    ASSUME IInv, NEW r \in Requests, NEW w \in Workers, NEW j \in Ids, NEW n \in Nonces,
           NEW s \in Solutions, Lookup(r, w, j, n, s)
    PROVE  IInv'
  <1> DEFINE q == [pc |-> IF j \in validJobs THEN "check" ELSE "stale",
                   w |-> w, job |-> j, nonce |-> n, sol |-> s, gen |-> 0, credit |-> 0,
                   candidate |-> FALSE, seen |-> 0]
  <1>1. j \in DOMAIN jobs /\ DOMAIN jobs = 1 .. Len(jobs)
    BY DEF Lookup, IInv, TypeOK
  <1>2. q \in RequestType
    BY <1>1 DEF RequestType, InFlight, Ends
  <1>3. q.pc = "stale" => Obsolete(q.job)
    BY <1>1 DEF IInv, UnlistedIsOld
  <1>4. /\ req' = [req EXCEPT ![r] = q] /\ ~q.candidate
        /\ UNCHANGED <<work, contexts, nonces, answers>>
    BY DEF Lookup
  <1>5. /\ Grows
        /\ nonces' \in [Ids -> [Workers -> [gen : Nat, used : SUBSET Nonces]]]
    BY <1>4 DEF IInv, TypeOK, Grows, work
  <1>6. Answered(r, q)
    <2>1. req[r] = NoRequest
      BY DEF Lookup, IInv, TypeOK, RequestType, InFlight, Ends
    <2>2. minted[r] = 0
      BY <2>1 DEF IInv, MarkedIsMinted
    <2> QED
      BY <1>4, <2>2 DEF IInv, TypeOK, Answered, answers
  <1> HIDE DEF q
  <1> QED
    BY <1>2, <1>3, <1>4, <1>5, <1>6, RequestStep DEF work

LEMMA NoncesStep ==
    ASSUME IInv, NEW r \in Requests, req[r].pc # "free", Goto(r, "verify"),
           nonces' \in [Ids -> [Workers -> [gen : Nat, used : SUBSET Nonces]]],
           UNCHANGED <<work, contexts, answers>>
    PROVE  IInv'
  <1>1. req[r] \in RequestType
    BY RequestFields DEF IInv
  <1> DEFINE q == [req[r] EXCEPT !.pc = "verify"]
  <1>2. q \in RequestType /\ q.pc = "verify" /\ q.candidate = req[r].candidate
    BY <1>1 DEF RequestType, InFlight
  <1>3. req' = [req EXCEPT ![r] = q]
    BY DEF Goto
  <1>4. Answered(r, q)
    BY <1>2 DEF IInv, TypeOK, MarkedIsMinted, NoRequest, Answered, answers
  <1>5. Grows
    BY DEF Grows, work
  <1> HIDE DEF q
  <1> QED
    BY <1>2, <1>3, <1>4, <1>5, RequestStep DEF work

\* The dictionary of a request's worker, in the request's job.
LEMMA MineType ==
    ASSUME TypeOK, NEW r \in Requests, req[r].pc # "free"
    PROVE  /\ req[r].job \in Ids /\ req[r].w \in Workers /\ req[r].nonce \in Nonces
           /\ Mine(r).gen \in Nat /\ Mine(r).used \subseteq Nonces
  <1>1. req[r] \in RequestType
    BY RequestFields
  <1>2. req[r].job \in Ids /\ req[r].w \in Workers /\ req[r].nonce \in Nonces
    BY <1>1, NumbersAssumption DEF RequestType, Ids, TypeOK
  <1>3. nonces[req[r].job][req[r].w] \in [gen : Nat, used : SUBSET Nonces]
    BY <1>2 DEF TypeOK
  <1> QED
    BY <1>2, <1>3 DEF Mine

LEMMA CheckNonceStep ==
    ASSUME IInv, NEW r \in Requests, CheckNonce(r)
    PROVE  IInv'
  <1>1. req[r] \in RequestType /\ req[r].pc = "check" /\ Mine(r).gen \in Nat
    BY RequestFields, MineType DEF IInv, CheckNonce
  <1> DEFINE step == IF Mine(r).gen = 0 THEN "create"
                     ELSE IF req[r].nonce \in Mine(r).used THEN "duplicate" ELSE "add"
             q == [req[r] EXCEPT !.pc = step, !.gen = Mine(r).gen]
  <1>2. q \in RequestType /\ q.pc # "stale" /\ q.candidate = req[r].candidate
    BY <1>1 DEF RequestType, InFlight, Ends
  <1>3. req' = [req EXCEPT ![r] = q] /\ UNCHANGED <<work, contexts, nonces, answers>>
    BY DEF CheckNonce
  <1> HIDE DEF q
  <1> QED
    BY <1>1, <1>2, <1>3, LocalStep

LEMMA TableUpdate ==
    ASSUME NEW S, NEW f \in [Ids -> [Workers -> S]], NEW j \in Ids, NEW w \in Workers, NEW e \in S
    PROVE  [f EXCEPT ![j][w] = e] \in [Ids -> [Workers -> S]]
  <1>1. [f[j] EXCEPT ![w] = e] \in [Workers -> S]
    OBVIOUS
  <1> QED
    BY <1>1

LEMMA CreateNoncesStep ==
    ASSUME IInv, NEW r \in Requests, CreateNonces(r)
    PROVE  IInv'
  <1>1. req[r].pc = "create" /\ Goto(r, "verify") /\ UNCHANGED <<work, contexts, answers>>
    BY DEF CreateNonces
  <1>2. /\ req[r].job \in Ids /\ req[r].w \in Workers /\ req[r].nonce \in Nonces
        /\ nonces[req[r].job][req[r].w].gen \in Nat
    BY <1>1, MineType DEF IInv, Mine
  <1>3. nonces' \in [Ids -> [Workers -> [gen : Nat, used : SUBSET Nonces]]]
    <2> DEFINE S == [gen : Nat, used : SUBSET Nonces]
               e == [gen |-> nonces[req[r].job][req[r].w].gen + 1, used |-> {req[r].nonce}]
    <2>1. nonces \in [Ids -> [Workers -> S]] /\ e \in S
      <3>1. nonces \in [Ids -> [Workers -> S]]
        BY DEF IInv, TypeOK
      <3>2. e.gen \in Nat /\ e.used \in SUBSET Nonces
        BY <1>2
      <3> QED
        BY <3>1, <3>2
    <2>2. CASE nonces' = nonces
      BY <2>1, <2>2
    <2>3. CASE nonces' = [nonces EXCEPT ![req[r].job][req[r].w] = e]
      BY <1>2, <2>1, <2>3, TableUpdate
    <2>4. nonces' = nonces \/ nonces' = [nonces EXCEPT ![req[r].job][req[r].w] = e]
      BY DEF CreateNonces
    <2> QED
      BY <2>2, <2>3, <2>4
  <1> QED
    BY <1>1, <1>3, NoncesStep

LEMMA AddNonceStep ==
    ASSUME IInv, NEW r \in Requests, AddNonce(r)
    PROVE  IInv'
  <1>1. req[r].pc = "add" /\ Goto(r, "verify") /\ UNCHANGED <<work, contexts, answers>>
    BY DEF AddNonce
  <1>2. /\ req[r].job \in Ids /\ req[r].w \in Workers /\ req[r].nonce \in Nonces
    BY <1>1, MineType DEF IInv
  <1>3. nonces' \in [Ids -> [Workers -> [gen : Nat, used : SUBSET Nonces]]]
    <2> DEFINE S == [gen : Nat, used : SUBSET Nonces]
               m == nonces[req[r].job][req[r].w]
               e == [m EXCEPT !.used = @ \cup {req[r].nonce}]
    <2>1. nonces \in [Ids -> [Workers -> S]]
      BY DEF IInv, TypeOK
    <2>2. m \in S
      BY <1>2, <2>1
    <2>3. e \in S
      BY <1>2, <2>2
    <2>4. CASE nonces' = nonces
      BY <2>1, <2>4
    <2>5. CASE nonces' = [nonces EXCEPT ![req[r].job][req[r].w] = e]
      BY <1>2, <2>1, <2>3, <2>5, TableUpdate
    <2>6. nonces' = nonces \/ nonces' = [nonces EXCEPT ![req[r].job][req[r].w] = e]
      BY DEF AddNonce
    <2> QED
      BY <2>4, <2>5, <2>6
  <1> QED
    BY <1>1, <1>3, NoncesStep

LEMMA NetIsNat ==
    ASSUME TypeOK, NEW r \in Requests, req[r].pc # "free"
    PROVE  jobs[req[r].job].net \in Nat
  <1>1. req[r].job \in DOMAIN jobs /\ jobs \in Seq([header : DOMAIN headers, net : NetDiffs])
    BY JobOfRequest DEF TypeOK
  <1>2. jobs[req[r].job] \in [header : DOMAIN headers, net : NetDiffs]
    BY <1>1, ElementOf
  <1> QED
    BY <1>2, SetsAssumption

LEMMA CreditedStep ==
    ASSUME IInv, NEW r \in Requests, NEW c \in Nat, req[r].pc # "free",
           req' = [req EXCEPT ![r].pc = "judge", ![r].credit = c],
           UNCHANGED <<work, contexts, nonces, answers>>
    PROVE  IInv'
  <1>1. req[r] \in RequestType
    BY RequestFields DEF IInv
  <1> DEFINE q == [req[r] EXCEPT !.pc = "judge", !.credit = c]
  <1>2. q \in RequestType /\ q.pc # "stale" /\ q.candidate = req[r].candidate
    BY <1>1 DEF RequestType, InFlight
  <1>3. req' = [req EXCEPT ![r] = q]
    OBVIOUS
  <1> HIDE DEF q
  <1> QED
    BY <1>2, <1>3, LocalStep

LEMMA VerifyStep ==
    ASSUME IInv, NEW r \in Requests, Verify(r)
    PROVE  IInv'
  <1>1. req[r] \in RequestType /\ req[r].pc = "verify" /\ UNCHANGED <<work, contexts, nonces, answers>>
    BY RequestFields DEF IInv, Verify
  <1>2. CASE Goto(r, "invalid")
    BY <1>1, <1>2, GotoStep DEF Ends
  <1>3. CASE Goto(r, "credit")
    BY <1>1, <1>3, GotoStep DEF InFlight
  <1>4. CASE req' = [req EXCEPT ![r].pc = "judge", ![r].credit = jobs[req[r].job].net]
    <2>1. jobs[req[r].job].net \in Nat
      BY <1>1, NetIsNat DEF IInv
    <2> QED
      BY <1>1, <1>4, <2>1, CreditedStep
  <1> QED
    BY <1>2, <1>3, <1>4 DEF Verify

LEMMA ReadCreditStep ==
    ASSUME IInv, NEW r \in Requests, ReadCredit(r)
    PROVE  IInv'
  <1>1. req[r] \in RequestType /\ req[r].pc = "credit" /\ UNCHANGED <<work, contexts, nonces, answers>>
    BY RequestFields DEF IInv, ReadCredit
  <1>2. diff[req[r].w] \in Nat
    BY <1>1 DEF IInv, TypeOK, RequestType
  <1> QED
    BY <1>1, <1>2, CreditedStep DEF ReadCredit

LEMMA JudgeStep ==
    ASSUME IInv, NEW r \in Requests, Judge(r)
    PROVE  IInv'
  <1>1. req[r] \in RequestType /\ req[r].pc = "judge" /\ UNCHANGED <<work, contexts, nonces, answers>>
    BY RequestFields DEF IInv, Judge
  <1>2. Accepted(r) \in InFlight \cup Ends /\ Accepted(r) # "stale"
    BY DEF Accepted, InFlight, Ends
  <1>3. CASE Goto(r, Accepted(r))
    BY <1>1, <1>2, <1>3, GotoStep
  <1>4. CASE Goto(r, "low")
    BY <1>1, <1>4, GotoStep DEF Ends
  <1>5. CASE req' = [req EXCEPT ![r].pc = Accepted(r),
                                ![r].credit = IF Quality[req[r].sol] < prev[req[r].w]
                                              THEN prev[req[r].w] ELSE @]
    <2> DEFINE c == IF Quality[req[r].sol] < prev[req[r].w] THEN prev[req[r].w] ELSE req[r].credit
               q == [req[r] EXCEPT !.pc = Accepted(r), !.credit = c]
    <2>1. c \in Nat
      BY <1>1 DEF IInv, TypeOK, RequestType
    <2>2. q \in RequestType /\ q.pc # "stale" /\ q.candidate = req[r].candidate
      BY <1>1, <1>2, <2>1 DEF RequestType
    <2>3. req' = [req EXCEPT ![r] = q]
      BY <1>5
    <2> HIDE DEF q
    <2> QED
      BY <1>1, <2>2, <2>3, LocalStep
  <1> QED
    BY <1>3, <1>4, <1>5 DEF Judge

LEMMA AwaitStep ==
    ASSUME IInv, NEW r \in Requests, Await(r)
    PROVE  IInv'
  <1>1. req[r] \in RequestType /\ req[r].pc = "took" /\ UNCHANGED <<work, contexts, nonces, answers>>
    BY RequestFields DEF IInv, Await
  <1> DEFINE q == [req[r] EXCEPT !.pc = "wait", !.seen = announced]
  <1>2. q \in RequestType /\ q.pc # "stale" /\ q.candidate = req[r].candidate
    BY <1>1 DEF RequestType, InFlight, IInv, TypeOK
  <1>3. req' = [req EXCEPT ![r] = q]
    BY DEF Await
  <1> HIDE DEF q
  <1> QED
    BY <1>1, <1>2, <1>3, LocalStep

LEMMA MintStep ==
    ASSUME TypeOK, NEW r \in Requests, Mint(r)
    PROVE  /\ Grows /\ minted' \in [Requests -> 0 .. MaxHeaders] /\ minted'[r] # 0
           /\ \A p \in Requests \ {r} : minted'[p] = minted[p]
  <1>1. headers \in Seq(Nat \ {0}) /\ Len(headers) \in Nat /\ Len(headers) < MaxHeaders
    BY DEF TypeOK, Mint
  <1>2. headers[Len(headers)] \in Nat \ {0}
    BY <1>1, ElementOf DEF TypeOK
  <1>3. Grows
    BY <1>1, <1>2 DEF Mint, Grows
  <1>4. minted' = [minted EXCEPT ![r] = Len(headers) + 1] /\ minted \in [Requests -> 0 .. MaxHeaders]
    BY DEF TypeOK, Mint
  <1>5. Len(headers) + 1 \in 0 .. MaxHeaders /\ Len(headers) + 1 # 0
    BY <1>1, NumbersAssumption
  <1> QED
    BY <1>3, <1>4, <1>5

\* The daemon answers; a share is marked if the answer is no error.
LEMMA SubmitStep ==
    ASSUME IInv, NEW r \in Requests, Submit(r)
    PROVE  IInv'
  <1>1. req[r] \in RequestType /\ req[r].pc = "submit"
    BY RequestFields DEF IInv, Submit, SubmitBlock, SubmitBlockDeclined, SubmitBlockRefused, SubmitBlockLost
  <1>2. TypeOK /\ nonces \in [Ids -> [Workers -> [gen : Nat, used : SUBSET Nonces]]]
    BY DEF IInv, TypeOK
  <1> DEFINE marked == [req[r] EXCEPT !.pc = "took", !.candidate = TRUE]
             plain == [req[r] EXCEPT !.pc = "accepted"]
  <1>3. marked \in RequestType /\ marked.pc # "stale" /\ marked.candidate
    BY <1>1 DEF RequestType, InFlight
  <1>4. plain \in RequestType /\ plain.pc # "stale"
    BY <1>1 DEF RequestType, Ends
  <1>5. CASE SubmitBlockRefused(r)
    BY <1>1, <1>5, GotoStep DEF SubmitBlockRefused, Ends
  <1>6. CASE SubmitBlock(r)
    <2>1. Mint(r) /\ req' = [req EXCEPT ![r] = marked] /\ UNCHANGED <<declined, unheard>>
      BY <1>6 DEF SubmitBlock
    <2>2. /\ Grows /\ minted' \in [Requests -> 0 .. MaxHeaders] /\ minted'[r] # 0
          /\ \A p \in Requests \ {r} : minted'[p] = minted[p]
      BY <1>2, <2>1, MintStep
    <2>3. UNCHANGED <<jobs, validJobs, currentJob, announced, told, updater, silent, contexts>> /\ nonces' = nonces
      BY <2>1 DEF Mint
    <2> HIDE DEF marked
    <2>4. Answered(r, marked)
      BY <1>2, <1>3, <2>1, <2>2 DEF Answered, TypeOK
    <2> QED
      BY <1>2, <1>3, <2>1, <2>2, <2>3, <2>4, RequestStep
  <1>7. CASE SubmitBlockLost(r)
    <2>1. Mint(r) /\ req' = [req EXCEPT ![r] = plain] /\ unheard' = unheard \cup {r} /\ declined' = declined
      BY <1>7 DEF SubmitBlockLost, Goto
    <2>2. /\ Grows /\ minted' \in [Requests -> 0 .. MaxHeaders]
          /\ minted'[r] # 0 /\ \A p \in Requests \ {r} : minted'[p] = minted[p]
      BY <1>2, <2>1, MintStep
    <2>3. UNCHANGED <<jobs, validJobs, currentJob, announced, told, updater, silent, contexts>> /\ nonces' = nonces
      BY <2>1 DEF Mint
    <2> HIDE DEF plain
    <2>4. Answered(r, plain)
      BY <1>2, <2>1, <2>2 DEF Answered, TypeOK
    <2> QED
      BY <1>2, <1>4, <2>1, <2>2, <2>3, <2>4, RequestStep
  <1>8. CASE SubmitBlockDeclined(r)
    <2>1. /\ req' = [req EXCEPT ![r] = marked] /\ declined' = declined \cup {r}
          /\ UNCHANGED <<work, contexts, nonces, minted, unheard>>
      BY <1>8 DEF SubmitBlockDeclined
    <2> HIDE DEF marked
    <2>2. Answered(r, marked)
      BY <1>2, <1>3, <2>1 DEF Answered, TypeOK
    <2>3. Grows
      BY <2>1 DEF Grows, work
    <2> QED
      BY <1>2, <1>3, <2>1, <2>2, <2>3, RequestStep DEF work
  <1> QED
    BY <1>5, <1>6, <1>7, <1>8 DEF Submit

LEMMA HandleStep ==
    ASSUME IInv, NEW r \in Requests, Handle(r)
    PROVE  IInv'
  BY CheckNonceStep, CreateNoncesStep, AddNonceStep, VerifyStep, ReadCreditStep, JudgeStep, SubmitStep,
     AwaitStep DEF Handle

-----------------------------------------------------------------------------
(* The daemon, the difficulties and the announcement.                      *)

\* Neither jobs nor requests change.
LEMMA QuietStep ==
    ASSUME IInv, Grows, UNCHANGED <<jobs, validJobs, currentJob, announced, told, updater, silent,
                                    nonces, req, answers>>,
           diff' \in [Workers -> Nat \ {0}], prev' \in [Workers -> Nat],
           pending' \in [Workers -> Nat], updated' \in [Workers -> BOOLEAN]
    PROVE  IInv'
  <1>1. /\ TypeOK /\ headers' \in Seq(Nat \ {0}) /\ Len(headers') \in 1 .. MaxHeaders
        /\ \A j \in DOMAIN jobs : HeightOf(j)' = HeightOf(j)
        /\ \A j \in DOMAIN jobs : Obsolete(j) => Obsolete(j)'
        /\ jobs' \in Seq([header : DOMAIN headers', net : NetDiffs])
    BY HeadersGrow, HeightsStay DEF IInv
  <1>2. TypeOK'
    <2>1. RequestType' = RequestType
      BY DEF RequestType
    <2> QED
      BY <1>1, <2>1 DEF TypeOK, answers
  <1>3. WorkIsOpen'
    <2>1. validJobs \subseteq DOMAIN jobs /\ (currentJob # 0 => currentJob \in DOMAIN jobs)
      <3>1. /\ jobs \in Seq([header : DOMAIN headers, net : NetDiffs])
            /\ validJobs \subseteq DOMAIN jobs /\ currentJob \in 0 .. Len(jobs)
        BY <1>1 DEF TypeOK
      <3>2. Len(jobs) \in Nat /\ DOMAIN jobs = 1 .. Len(jobs)
        BY <3>1
      <3> QED
        BY <3>1, <3>2
    <2> QED
      BY <1>1, <2>1 DEF IInv, WorkIsOpen
  <1>4. UnlistedIsOld' /\ MarkedIsMinted' /\ AnnouncesWork'
    BY <1>1 DEF IInv, UnlistedIsOld, MarkedIsMinted, AnnouncesWork, answers
  <1>5. StaleIsOld'
    <2>1. ASSUME NEW s \in Requests, req[s].pc = "stale"
          PROVE  \E k \in DOMAIN jobs' : headers'[jobs'[k].header]
                                         > headers'[jobs'[req'[s].job].header] + MaxBlockBacklog
      <3>1. PICK j \in DOMAIN jobs : j = req[s].job
        BY <1>1, <2>1, JobOfRequest
      <3>2. PICK k \in DOMAIN jobs : HeightOf(k) > HeightOf(j) + MaxBlockBacklog
        BY <2>1, <3>1 DEF IInv, StaleIsOld
      <3>3. headers'[jobs'[k].header] = HeightOf(k) /\ headers'[jobs'[j].header] = HeightOf(j)
        BY <1>1 DEF HeightOf
      <3> QED
        BY <3>1, <3>2, <3>3
    <2> QED
      BY <2>1 DEF StaleIsOld, HeightOf
  <1> QED
    BY <1>2, <1>3, <1>4, <1>5 DEF IInv

LEMMA NewHeaderStep ==
    ASSUME IInv, NewHeader
    PROVE  IInv'
  <1>1. Len(headers) < MaxHeaders /\ \E k \in 0 .. MaxJump :
            headers' = Append(headers, headers[Len(headers)] + k)
    BY DEF NewHeader
  <1>2. headers[Len(headers)] \in Nat \ {0}
    BY ElementOf DEF IInv, TypeOK
  <1>3. Grows
    BY <1>1, <1>2, NumbersAssumption DEF Grows
  <1>4. UNCHANGED <<jobs, validJobs, currentJob, announced, told, updater, silent, diff, prev, pending,
                    updated, nonces, req, answers>>
    BY DEF NewHeader, contexts
  <1> QED
    BY <1>3, <1>4, QuietStep DEF IInv, TypeOK

LEMMA DifficultyStep ==
    ASSUME IInv, NEW w \in Workers,
           ApplyPendingDifficulty(w) \/ \E d \in Diffs : UpdateVarDiff(w, d)
    PROVE  IInv'
  <1>1. UNCHANGED <<headers, jobs, validJobs, currentJob, announced, told, updater, silent, nonces, req,
                    answers>>
    BY DEF ApplyPendingDifficulty, UpdateVarDiff, work
  <1>2. /\ diff \in [Workers -> Nat \ {0}] /\ prev \in [Workers -> Nat]
        /\ pending \in [Workers -> Nat] /\ updated \in [Workers -> BOOLEAN]
    BY DEF IInv, TypeOK
  <1>3. /\ diff' \in [Workers -> Nat \ {0}] /\ prev' \in [Workers -> Nat]
        /\ pending' \in [Workers -> Nat] /\ updated' \in [Workers -> BOOLEAN]
    <2>1. CASE ApplyPendingDifficulty(w)
      <3>1. /\ pending[w] # 0 /\ diff' = [diff EXCEPT ![w] = pending[w]]
            /\ prev' = [prev EXCEPT ![w] = diff[w]] /\ pending' = [pending EXCEPT ![w] = 0]
            /\ updated' = updated
        BY <2>1 DEF ApplyPendingDifficulty
      <3> QED
        BY <1>2, <3>1
    <2>2. ASSUME NEW d \in Diffs, UpdateVarDiff(w, d)
          PROVE  /\ diff' \in [Workers -> Nat \ {0}] /\ prev' \in [Workers -> Nat]
                 /\ pending' \in [Workers -> Nat] /\ updated' \in [Workers -> BOOLEAN]
      <3>1. /\ pending' = [pending EXCEPT ![w] = d] /\ updated' = [updated EXCEPT ![w] = TRUE]
            /\ diff' = diff /\ prev' = prev
        BY <2>2 DEF UpdateVarDiff
      <3>2. d \in Nat
        BY SetsAssumption
      <3> QED
        BY <1>2, <3>1, <3>2
    <2> QED
      BY <2>1, <2>2
  <1> QED
    BY <1>1, <1>3, QuietStep DEF Grows

\* The waiting tasks go on, and pending difficulties are applied.
LEMMA AnnounceStep ==
    ASSUME IInv, Announce
    PROVE  IInv'
  <1>1. /\ updater' = "idle" /\ announced' = currentJob /\ told' = told \cup {currentJob}
        /\ UNCHANGED <<headers, jobs, validJobs, currentJob, silent, updated, nonces, minted, declined, unheard>>
    BY DEF Announce, answers
  <1>2. currentJob \in DOMAIN jobs
    BY DEF IInv, TypeOK, AnnouncesWork, Announce
  <1>3. /\ diff' \in [Workers -> Nat \ {0}] /\ prev' \in [Workers -> Nat]
        /\ pending' \in [Workers -> Nat]
    <2>1. /\ diff \in [Workers -> Nat \ {0}] /\ prev \in [Workers -> Nat]
          /\ pending \in [Workers -> Nat]
      BY DEF IInv, TypeOK
    <2>2. diff' = [w \in Workers |-> IF pending[w] # 0 THEN pending[w] ELSE diff[w]]
      BY DEF Announce
    <2>3. PICK twice \in SUBSET Workers :
              prev' = [w \in Workers |-> IF pending[w] = 0 THEN prev[w]
                                        ELSE IF w \in twice THEN pending[w] ELSE diff[w]]
      BY DEF Announce
    <2>4. pending' = [w \in Workers |-> 0]
      BY DEF Announce
    <2> QED
      BY <2>1, <2>2, <2>3, <2>4
  <1>4. \A r \in Requests :
            /\ req'[r] \in {NoRequest} \cup RequestType
            /\ req'[r].pc = "stale" => req[r].pc = "stale" /\ req'[r] = req[r]
            /\ req'[r] = NoRequest <=> req[r] = NoRequest
            /\ req[r] # NoRequest => req'[r].candidate = req[r].candidate
    <2> SUFFICES ASSUME NEW r \in Requests
                 PROVE  /\ req'[r] \in {NoRequest} \cup RequestType
                        /\ req'[r].pc = "stale" => req[r].pc = "stale" /\ req'[r] = req[r]
                        /\ req'[r] = NoRequest <=> req[r] = NoRequest
                        /\ req[r] # NoRequest => req'[r].candidate = req[r].candidate
      OBVIOUS
    <2>1. CASE req[r].pc = "wait"
      <3>1. req[r] \in RequestType
        BY <2>1, RequestFields DEF IInv
      <3>2. req'[r] = [req[r] EXCEPT !.pc = "accepted"]
        BY <2>1 DEF Announce
      <3>3. req'[r] \in RequestType /\ req'[r].pc = "accepted" /\ req'[r].candidate = req[r].candidate
        BY <3>1, <3>2 DEF RequestType, Ends
      <3> QED
        BY <2>1, <3>3 DEF NoRequest
    <2>2. CASE req[r].pc # "wait"
      <3>1. req'[r] = req[r]
        BY <2>2 DEF Announce
      <3> QED
        BY <3>1 DEF IInv, TypeOK
    <2> QED
      BY <2>1, <2>2
  <1>5. TypeOK'
    <2>1. req' \in [Requests -> {NoRequest} \cup RequestType] /\ RequestType' = RequestType
      BY <1>1, <1>4 DEF Announce, RequestType
    <2> QED
      BY <1>1, <1>2, <1>3, <2>1 DEF IInv, TypeOK
  <1>6. WorkIsOpen' /\ UnlistedIsOld' /\ AnnouncesWork'
    BY <1>1 DEF IInv, WorkIsOpen, UnlistedIsOld, AnnouncesWork, Obsolete, HeightOf
  <1>7. StaleIsOld' /\ MarkedIsMinted'
    BY <1>1, <1>4 DEF IInv, StaleIsOld, MarkedIsMinted, HeightOf
  <1> QED
    BY <1>5, <1>6, <1>7 DEF IInv

-----------------------------------------------------------------------------
(* A new job.                                                              *)

LEMMA AppendJob ==
    ASSUME TypeOK, NEW i \in DOMAIN headers, NEW net \in NetDiffs,
           jobs' = Append(jobs, [header |-> i, net |-> net]), UNCHANGED headers
    PROVE  /\ jobs' \in Seq([header : DOMAIN headers, net : NetDiffs])
           /\ Len(jobs) \in Nat /\ Len(jobs') = Len(jobs) + 1
           /\ DOMAIN jobs = 1 .. Len(jobs) /\ DOMAIN jobs' = 1 .. Len(jobs) + 1
           /\ \A j \in DOMAIN jobs : jobs'[j] = jobs[j] /\ headers'[jobs'[j].header] = HeightOf(j)
           /\ headers'[jobs'[Len(jobs) + 1].header] = headers[i]
  <1>1. jobs \in Seq([header : DOMAIN headers, net : NetDiffs])
    BY DEF TypeOK
  <1>2. [header |-> i, net |-> net] \in [header : DOMAIN headers, net : NetDiffs]
    OBVIOUS
  <1>3. \A j \in DOMAIN jobs : jobs'[j] = jobs[j]
    BY <1>1
  <1>4. jobs'[Len(jobs) + 1] = [header |-> i, net |-> net]
    BY <1>1
  <1> QED
    BY <1>1, <1>2, <1>3, <1>4 DEF HeightOf

LEMMA UpdateJobStep ==
    ASSUME IInv, NEW i \in DOMAIN headers, NEW net \in NetDiffs, UpdateJob(i, net)
    PROVE  IInv'
  <1> DEFINE new == Len(jobs) + 1
  <1>1. /\ Len(jobs) < MaxJobs /\ jobs' = Append(jobs, [header |-> i, net |-> net])
        /\ validJobs' = Kept(validJobs, headers[i]) \cup {new}
        /\ currentJob' = new /\ updater' \in {"announce", "idle"} /\ silent' \subseteq silent \cup {new}
        /\ UNCHANGED <<headers, announced, told, nonces, req, minted, declined, unheard>>
        /\ diff' = diff /\ prev' = prev /\ pending' = pending /\ updated' = updated
    BY DEF UpdateJob, Made, contexts, answers
  <1>2. /\ jobs' \in Seq([header : DOMAIN headers, net : NetDiffs])
        /\ Len(jobs) \in Nat /\ Len(jobs') = new
        /\ DOMAIN jobs = 1 .. Len(jobs) /\ DOMAIN jobs' = 1 .. new
        /\ \A j \in DOMAIN jobs : headers'[jobs'[j].header] = HeightOf(j)
        /\ headers'[jobs'[new].header] = headers[i]
    BY <1>1, AppendJob DEF IInv
  <1>3. /\ validJobs \subseteq DOMAIN jobs /\ headers[i] \in Nat \ {0}
        /\ new \in DOMAIN jobs' /\ DOMAIN jobs \subseteq DOMAIN jobs' /\ new # 0
        /\ \A j \in DOMAIN jobs : HeightOf(j) \in Nat
    <2>1. validJobs \subseteq DOMAIN jobs /\ headers \in Seq(Nat \ {0})
      BY DEF IInv, TypeOK
    <2>2. headers[i] \in Nat \ {0}
      BY <2>1, ElementOf
    <2>3. \A j \in DOMAIN jobs : HeightOf(j) \in Nat
      BY HeightIsNat DEF IInv
    <2>4. new \in DOMAIN jobs' /\ DOMAIN jobs \subseteq DOMAIN jobs' /\ new # 0
      BY <1>2
    <2> QED
      BY <2>1, <2>2, <2>3, <2>4
  <1>4. \A j \in validJobs' : j = new \/ (j \in validJobs /\ HeightOf(j) >= headers[i] - MaxBlockBacklog)
    BY <1>1 DEF Kept
  <1>5. TypeOK'
    <2>1. req' \in [Requests -> {NoRequest} \cup RequestType']
      <3>1. RequestType \subseteq RequestType'
        <4>1. 0 .. Len(jobs) \subseteq 0 .. Len(jobs') /\ 1 .. Len(jobs) \subseteq 1 .. Len(jobs')
          BY <1>2
        <4> QED
          BY <4>1 DEF RequestType
      <3> QED
        BY <1>1, <3>1 DEF IInv, TypeOK
    <2>2. validJobs' \subseteq DOMAIN jobs'
      BY <1>3, <1>4
    <2>3. /\ currentJob' \in 0 .. Len(jobs') /\ announced' \in 0 .. Len(jobs')
          /\ Len(jobs') <= MaxJobs /\ told' \subseteq DOMAIN jobs' /\ silent' \subseteq DOMAIN jobs'
      BY <1>1, <1>2, <1>3, NumbersAssumption DEF IInv, TypeOK
    <2> QED
      BY <1>1, <1>2, <2>1, <2>2, <2>3 DEF IInv, TypeOK
  <1>6. WorkIsOpen'
    <2>1. currentJob' = new /\ new \in validJobs'
      BY <1>1
    <2>2. ASSUME NEW j \in validJobs'
          PROVE  headers'[jobs'[j].header] >= headers'[jobs'[new].header] - MaxBlockBacklog
      <3>1. CASE j = new
        BY <3>1, <1>2, <1>3, NumbersAssumption
      <3>2. CASE j \in validJobs /\ HeightOf(j) >= headers[i] - MaxBlockBacklog
        BY <3>2, <1>2, <1>3
      <3> QED
        BY <1>4, <3>1, <3>2
    <2> HIDE DEF new
    <2> QED
      BY <2>1, <2>2 DEF WorkIsOpen, HeightOf
  <1>7. ASSUME NEW j \in DOMAIN jobs, Obsolete(j)
        PROVE  \E k \in DOMAIN jobs' : headers'[jobs'[k].header]
                                       > headers'[jobs'[j].header] + MaxBlockBacklog
    BY <1>2, <1>3, <1>7 DEF Obsolete
  <1>8. UnlistedIsOld'
    <2>1. ASSUME NEW j \in DOMAIN jobs' \ validJobs'
          PROVE  \E k \in DOMAIN jobs' : headers'[jobs'[k].header]
                                         > headers'[jobs'[j].header] + MaxBlockBacklog
      <3>1. j \in DOMAIN jobs
        BY <1>1, <1>2
      <3>2. CASE j \notin validJobs
        BY <3>1, <3>2, <1>7 DEF IInv, UnlistedIsOld
      <3>3. CASE j \in validJobs
        <4>1. ~(HeightOf(j) >= headers[i] - MaxBlockBacklog)
          BY <3>3, <1>1 DEF Kept
        <4>2. headers'[jobs'[new].header] > headers'[jobs'[j].header] + MaxBlockBacklog
          BY <4>1, <3>1, <1>2, <1>3, NumbersAssumption
        <4> QED
          BY <4>2, <1>3
      <3> QED
        BY <3>2, <3>3
    <2> QED
      BY <2>1 DEF UnlistedIsOld, Obsolete, HeightOf
  <1>9. StaleIsOld'
    <2>1. ASSUME NEW r \in Requests, req[r].pc = "stale"
          PROVE  \E k \in DOMAIN jobs' : headers'[jobs'[k].header]
                                         > headers'[jobs'[req[r].job].header] + MaxBlockBacklog
      <3>1. req[r].job \in DOMAIN jobs
        BY <2>1, JobOfRequest DEF IInv
      <3>2. Obsolete(req[r].job)
        BY <2>1 DEF IInv, StaleIsOld, Obsolete
      <3> QED
        BY <3>1, <3>2, <1>7
    <2> QED
      BY <2>1, <1>1 DEF StaleIsOld, HeightOf
  <1>10. MarkedIsMinted' /\ AnnouncesWork'
    BY <1>1, <1>3 DEF IInv, MarkedIsMinted, AnnouncesWork
  <1> QED
    BY <1>5, <1>6, <1>8, <1>9, <1>10 DEF IInv

-----------------------------------------------------------------------------
(* Every step keeps the invariant.                                         *)

LEMMA IInvInit == Init => IInv
  <1> SUFFICES ASSUME Init PROVE IInv
    OBVIOUS
  <1>1. headers \in Seq(Nat \ {0}) /\ Len(headers) \in 1 .. MaxHeaders
    BY NumbersAssumption DEF Init
  <1>2. /\ jobs \in Seq([header : DOMAIN headers, net : NetDiffs]) /\ Len(jobs) = 0 /\ DOMAIN jobs = {}
        /\ Len(jobs) <= MaxJobs
    BY NumbersAssumption DEF Init
  <1>3. nonces \in [Ids -> [Workers -> [gen : Nat, used : SUBSET Nonces]]]
    BY DEF Init, NoNonces
  <1>4. TypeOK
    BY <1>1, <1>2, <1>3, NumbersAssumption DEF Init, TypeOK
  <1>5. WorkIsOpen /\ UnlistedIsOld /\ AnnouncesWork
    BY <1>2 DEF Init, WorkIsOpen, UnlistedIsOld, AnnouncesWork
  <1>6. StaleIsOld /\ MarkedIsMinted
    BY DEF Init, StaleIsOld, MarkedIsMinted, NoRequest
  <1> QED
    BY <1>4, <1>5, <1>6 DEF IInv

LEMMA StutterStep ==
    ASSUME IInv, UNCHANGED vars
    PROVE  IInv'
  BY QuietStep DEF IInv, TypeOK, Grows, vars, answers

LEMMA IInvStep ==
    ASSUME IInv, [Next]_vars
    PROVE  IInv'
  <1>1. CASE NewHeader
    BY <1>1, NewHeaderStep
  <1>2. CASE Manager
    BY <1>2, UpdateJobStep, AnnounceStep DEF Manager, Poll
  <1>3. CASE \E w \in Workers : ApplyPendingDifficulty(w) \/ \E d \in Diffs : UpdateVarDiff(w, d)
    BY <1>3, DifficultyStep
  <1>4. CASE \E r \in Requests : Handle(r)
    BY <1>4, HandleStep
  <1>5. CASE \E r \in Requests, w \in Workers, j \in Ids, n \in Nonces, s \in Solutions :
                Lookup(r, w, j, n, s)
    BY <1>5, LookupStep
  <1>6. CASE UNCHANGED vars
    BY <1>6, StutterStep
  <1> QED
    BY <1>1, <1>2, <1>3, <1>4, <1>5, <1>6 DEF Next

\* Every step of the job manager, the difficulties and the requests keeps the
\* invariant.
THEOREM Invariance == Spec => []IInv
  <1>1. IInv /\ [Next]_vars => IInv'
    BY IInvStep
  <1> QED
    BY IInvInit, <1>1, PTL DEF Spec

-----------------------------------------------------------------------------
\* Jobs, contexts, nonces and requests keep their types: in particular no
\* request is for a job that was never made, and none is listed
\* (AionJobManager.UpdateJob, SubmitShareAsync).
THEOREM TypeCorrect == Spec => []TypeOK
  BY Invariance, PTL DEF IInv

\* The current job can be submitted to, and no listed job is further behind it
\* than the backlog (AionJobManager.UpdateJob).
THEOREM CurrentWorkIsOpen == Spec => []WorkIsOpen
  BY Invariance, PTL DEF IInv

\* A share is refused as stale only after work for a height more than the
\* backlog above its own was made (AionJobManager.SubmitShareAsync).
THEOREM OnlyOldIsStale == Spec => []StaleIsOld
  BY Invariance, PTL DEF IInv

\* A share is recorded as a block only if the daemon took the block or refused it
\* without an error, and the block it took is recorded as one unless its answer
\* was lost (AionJobManager.SubmitShareAsync, SubmitBlockAsync).
THEOREM CandidatesAreBlocks == Spec => []CandidateIsMinted
  <1>1. IInv => CandidateIsMinted
    BY DEF IInv, MarkedIsMinted, CandidateIsMinted, NoRequest
  <1> QED
    BY Invariance, <1>1, PTL

-----------------------------------------------------------------------------
(* Low shares.  Until its first retarget is applied a worker has the       *)
(* difficulty it began with; after it no share is refused as low.  That    *)
(* needs that a difficulty is pending, or a previous one is set, only once *)
(* the time of the last update is.                                         *)

ContextsAgree ==
    \A w \in Workers : /\ pending[w] # 0 => updated[w]
                       /\ prev[w] # 0 => updated[w]
                       /\ prev[w] = 0 => diff[w] = StartDiff

\* A request changes neither the jobs nor a worker's difficulties.
LEMMA HandleLeaves ==
    ASSUME NEW r \in Requests, Handle(r)
    PROVE  UNCHANGED contexts /\ UNCHANGED <<jobs, currentJob>>
  BY DEF Handle, CheckNonce, CreateNonces, AddNonce, Verify, ReadCredit, Judge, Submit, SubmitBlock,
     SubmitBlockDeclined, SubmitBlockRefused, SubmitBlockLost, Mint, Await, work

LEMMA ContextsAgreeStep ==
    ASSUME TypeOK, ContextsAgree, [Next]_vars
    PROVE  ContextsAgree'
  <1>1. /\ diff \in [Workers -> Nat \ {0}] /\ prev \in [Workers -> Nat]
        /\ pending \in [Workers -> Nat] /\ updated \in [Workers -> BOOLEAN]
    BY DEF TypeOK
  <1>2. CASE UNCHANGED contexts
    BY <1>2 DEF contexts, ContextsAgree
  <1>3. CASE Announce
    <2>1. PICK twice \in SUBSET Workers :
             prev' = [w \in Workers |-> IF pending[w] = 0 THEN prev[w]
                                       ELSE IF w \in twice THEN pending[w] ELSE diff[w]]
      BY <1>3 DEF Announce
    <2>2. /\ diff' = [w \in Workers |-> IF pending[w] # 0 THEN pending[w] ELSE diff[w]]
          /\ pending' = [w \in Workers |-> 0] /\ updated' = updated
      BY <1>3 DEF Announce
    <2> QED
      BY <1>1, <2>1, <2>2 DEF ContextsAgree
  <1>4. CASE \E w \in Workers : ApplyPendingDifficulty(w)
    BY <1>1, <1>4 DEF ApplyPendingDifficulty, ContextsAgree
  <1>5. CASE \E w \in Workers, d \in Diffs : UpdateVarDiff(w, d)
    BY <1>1, <1>5 DEF UpdateVarDiff, ContextsAgree
  <1>6. CASE \E r \in Requests : Handle(r)
    BY <1>2, <1>6, HandleLeaves
  <1>7. CASE NewHeader \/ Poll \/ UNCHANGED vars
    BY <1>2, <1>7 DEF NewHeader, Poll, UpdateJob, vars, contexts
  <1>8. CASE \E r \in Requests, w \in Workers, j \in Ids, n \in Nonces, s \in Solutions :
                Lookup(r, w, j, n, s)
    BY <1>2, <1>8 DEF Lookup
  <1> QED
    BY <1>3, <1>4, <1>5, <1>6, <1>7, <1>8 DEF Next, Manager

LEMMA JudgeLow ==
    ASSUME TypeOK, ContextsAgree, LowIsLow, NEW r \in Requests, Judge(r)
    PROVE  LowIsLow'
  <1>1. req[r] \in RequestType /\ req[r].pc = "judge"
    BY RequestFields DEF Judge
  <1>2. \A q \in Requests : q # r => req'[q] = req[q]
    BY DEF Judge, Goto, TypeOK
  <1>3. ASSUME req'[r].pc = "low" PROVE Quality[req'[r].sol] < StartDiff
    <2>1. Accepted(r) # "low"
      BY DEF Accepted
    <2>2. Quality[req[r].sol] < diff[req[r].w] /\ ~(updated[req[r].w] /\ prev[req[r].w] # 0)
      BY <1>1, <1>3, <2>1, SMTT(20) DEF Judge, Goto, TypeOK, RequestType
    <2>3. req'[r].sol = req[r].sol
      BY <1>1, SMTT(20) DEF Judge, Goto, TypeOK, RequestType
    <2>4. diff[req[r].w] = StartDiff
      BY <1>1, <2>2 DEF ContextsAgree, RequestType
    <2> QED
      BY <2>2, <2>3, <2>4
  <1> QED
    BY <1>2, <1>3 DEF LowIsLow

\* Judge alone refuses a share as low.
LEMMA OthersKeepLow ==
    ASSUME LowIsLow, \A r \in Requests : req'[r] = req[r] \/ req'[r].pc # "low"
    PROVE  LowIsLow'
  BY DEF LowIsLow

\* The duplicate check moves its own request alone.
LEMMA EnterMoves ==
    ASSUME TypeOK, NEW r \in Requests, CheckNonce(r) \/ CreateNonces(r) \/ AddNonce(r)
    PROVE  /\ req'[r].pc \in {"create", "duplicate", "add", "verify"}
           /\ \A q \in Requests : q # r => req'[q] = req[q]
  <1>1. req[r] \in RequestType
    BY RequestFields DEF CheckNonce, CreateNonces, AddNonce
  <1>2. \A q \in Requests : q # r => req'[q] = req[q]
    BY DEF CheckNonce, CreateNonces, AddNonce, Goto, TypeOK
  <1>3. req'[r].pc \in {"create", "duplicate", "add", "verify"}
    BY <1>1, SMTT(30) DEF CheckNonce, CreateNonces, AddNonce, Goto, TypeOK, RequestType
  <1> QED
    BY <1>2, <1>3

\* The request of a block goes on; what it is credited with stays.
Finishes(r) ==
    /\ req[r].pc \in {"submit", "took"} /\ req'[r].pc \in {"took", "wait", "accepted"}
    /\ req'[r].w = req[r].w /\ req'[r].job = req[r].job /\ req'[r].nonce = req[r].nonce
    /\ req'[r].sol = req[r].sol /\ req'[r].credit = req[r].credit

LEMMA FinishMoves ==
    ASSUME TypeOK, NEW r \in Requests, Submit(r) \/ Await(r)
    PROVE  Finishes(r) /\ \A q \in Requests : q # r => req'[q] = req[q]
  <1>1. req[r] \in RequestType /\ req[r].pc \in {"submit", "took"}
    BY RequestFields DEF Submit, SubmitBlock, SubmitBlockDeclined, SubmitBlockRefused,
       SubmitBlockLost, Await
  <1>2. \/ req' = [req EXCEPT ![r].pc = "took", ![r].candidate = TRUE]
        \/ req' = [req EXCEPT ![r].pc = "accepted"]
        \/ req' = [req EXCEPT ![r].pc = "wait", ![r].seen = announced]
    BY DEF Submit, SubmitBlock, SubmitBlockDeclined, SubmitBlockRefused, SubmitBlockLost, Await, Goto
  <1>3. Finishes(r)
    <2>1. \/ req'[r] = [req[r] EXCEPT !.pc = "took", !.candidate = TRUE]
          \/ req'[r] = [req[r] EXCEPT !.pc = "accepted"]
          \/ req'[r] = [req[r] EXCEPT !.pc = "wait", !.seen = announced]
      BY <1>2 DEF TypeOK
    <2> QED
      BY <1>1, <2>1 DEF Finishes, RequestType
  <1> QED
    BY <1>2, <1>3 DEF TypeOK

LEMMA HandleLow ==
    ASSUME TypeOK, ContextsAgree, LowIsLow, NEW r \in Requests, Handle(r)
    PROVE  LowIsLow'
  <1>1. CASE Judge(r)
    BY <1>1, JudgeLow
  <1>2. CASE Verify(r) \/ ReadCredit(r)
    <2>1. req[r] \in RequestType /\ \A q \in Requests : q # r => req'[q] = req[q]
      BY <1>2, RequestFields DEF Verify, ReadCredit, Goto, TypeOK
    <2>2. req'[r].pc \in {"invalid", "credit", "judge"}
      BY <1>2, <2>1, SMTT(30) DEF Verify, ReadCredit, Goto, TypeOK, RequestType
    <2> QED
      BY <2>1, <2>2, OthersKeepLow
  <1>3. CASE CheckNonce(r) \/ CreateNonces(r) \/ AddNonce(r)
    <2>1. /\ req'[r].pc \in {"create", "duplicate", "add", "verify"}
          /\ \A q \in Requests : q # r => req'[q] = req[q]
      BY <1>3, EnterMoves
    <2> QED
      BY <2>1, OthersKeepLow
  <1>4. CASE Submit(r) \/ Await(r)
    <2>1. Finishes(r) /\ \A q \in Requests : q # r => req'[q] = req[q]
      BY <1>4, FinishMoves
    <2> QED
      BY <2>1, OthersKeepLow DEF Finishes
  <1> QED
    BY <1>1, <1>2, <1>3, <1>4 DEF Handle

LEMMA LowIsLowStep ==
    ASSUME TypeOK, ContextsAgree, LowIsLow, [Next]_vars
    PROVE  LowIsLow'
  <1>1. CASE Announce
    <2>1. ASSUME NEW r \in Requests PROVE req'[r] = req[r] \/ req'[r].pc # "low"
      <3>1. CASE req[r].pc = "wait"
        <4>1. req[r] \in RequestType
          BY <3>1, RequestFields
        <4>2. req'[r] = [req[r] EXCEPT !.pc = "accepted"]
          BY <1>1, <3>1 DEF Announce
        <4> QED
          BY <4>1, <4>2 DEF RequestType
      <3>2. CASE req[r].pc # "wait"
        BY <1>1, <3>2 DEF Announce
      <3> QED
        BY <3>1, <3>2
    <2> QED
      BY <2>1, OthersKeepLow
  <1>2. CASE \E r \in Requests : Handle(r)
    BY <1>2, HandleLow
  <1>3. CASE \E r \in Requests, w \in Workers, j \in Ids, n \in Nonces, s \in Solutions :
                Lookup(r, w, j, n, s)
    <2>1. PICK r \in Requests, w \in Workers, j \in Ids, n \in Nonces, s \in Solutions :
              Lookup(r, w, j, n, s)
      BY <1>3
    <2>2. req'[r].pc # "low" /\ \A q \in Requests : q # r => req'[q] = req[q]
      BY <2>1 DEF Lookup, TypeOK
    <2> QED
      BY <2>2, OthersKeepLow
  <1>4. CASE UNCHANGED req
    BY <1>4, OthersKeepLow
  <1>5. CASE \E w \in Workers : ApplyPendingDifficulty(w) \/ \E d \in Diffs : UpdateVarDiff(w, d)
    BY <1>4, <1>5 DEF ApplyPendingDifficulty, UpdateVarDiff
  <1>6. CASE NewHeader \/ Poll \/ UNCHANGED vars
    BY <1>4, <1>6 DEF NewHeader, Poll, UpdateJob, vars
  <1> QED
    BY <1>1, <1>2, <1>3, <1>5, <1>6 DEF Next, Manager

\* A share that meets the difficulty the worker began with is never refused as
\* low, whatever retargets come between the steps of its request
\* (AionJob.ProcessShareInternal, WorkerContextBase.ApplyPendingDifficulty).
THEOREM StartDifficultyIsEnough == Spec => []LowIsLow
  <1>1. Init => ContextsAgree /\ LowIsLow
    BY DEF Init, ContextsAgree, LowIsLow, NoRequest
  <1>2. IInv /\ ContextsAgree /\ LowIsLow /\ [Next]_vars => ContextsAgree' /\ LowIsLow'
    BY ContextsAgreeStep, LowIsLowStep DEF IInv
  <1> QED
    BY Invariance, <1>1, <1>2, PTL DEF Spec

-----------------------------------------------------------------------------
(* A worker that waits for its answers: what overlapping requests and a    *)
(* second node break (ShareCountedOnce) holds then, for every number of    *)
(* requests, headers and jobs.                                             *)

\* One worker, which submits nothing before its last request is answered, and
\* a daemon that is up to date.
Serial == ~Overlap /\ MaxLag = 0 /\ \A v, w \in Workers : v = w

\* Jobs are made of ever newer headers, and the current one is the newest.
HeadersRise ==
    /\ currentJob = Len(jobs)
    /\ \A j, k \in DOMAIN jobs : j < k => jobs[j].header < jobs[k].header

OneInFlight ==
    \A r, q \in Requests : req[r].pc \in InFlight /\ req[q].pc \in InFlight => r = q

\* A request is past the duplicate check.
Past == {"verify", "credit", "judge", "submit", "took", "wait", "accepted", "invalid", "low"}

\* What a request read of the nonces is still so, and it leaves its own there.
Registered ==
    \A r \in Requests :
        /\ req[r].pc = "create" => Mine(r).gen = 0
        /\ req[r].pc = "add" => /\ Mine(r).gen = req[r].gen /\ Mine(r).gen # 0
                                /\ req[r].nonce \notin Mine(r).used
        /\ req[r].pc \in Past => req[r].nonce \in Mine(r).used

EmptyAtFirst == \A j \in Ids, w \in Workers : nonces[j][w].gen = 0 => nonces[j][w].used = {}

\* Two requests past the check differ in nonce or job.
Distinct ==
    \A r, q \in Requests :
        r # q /\ req[r].pc \in Past /\ req[q].pc \in Past /\ req[r].w = req[q].w
              /\ req[r].job = req[q].job
            => req[r].nonce # req[q].nonce

SInv == OneInFlight /\ Registered /\ EmptyAtFirst /\ Distinct

-----------------------------------------------------------------------------
(* Requests past the check, and the poll.                                  *)

\* The request goes on past the check, or does not move.
GoesOn(r) ==
    \/ req'[r] = req[r]
    \/ /\ req[r].pc \in InFlight \cap Past /\ req'[r].pc \in Past
       /\ req'[r].w = req[r].w /\ req'[r].job = req[r].job /\ req'[r].nonce = req[r].nonce

LEMMA GoesOnStep ==
    ASSUME SInv, \A r \in Requests : GoesOn(r), UNCHANGED nonces
    PROVE  SInv'
  <1>1. OneInFlight'
    BY DEF SInv, OneInFlight, GoesOn
  <1>2. EmptyAtFirst'
    BY DEF SInv, EmptyAtFirst
  <1>3. Registered'
    <2>1. ASSUME NEW r \in Requests
          PROVE  /\ req'[r].pc = "create" => Mine(r)'.gen = 0
                 /\ req'[r].pc = "add" => /\ Mine(r)'.gen = req'[r].gen /\ Mine(r)'.gen # 0
                                          /\ req'[r].nonce \notin Mine(r)'.used
                 /\ req'[r].pc \in Past => req'[r].nonce \in Mine(r)'.used
      BY <2>1 DEF SInv, Registered, GoesOn, Past, Mine
    <2> QED
      BY <2>1 DEF Registered
  <1>4. Distinct'
    BY DEF SInv, Distinct, GoesOn
  <1> QED
    BY <1>1, <1>2, <1>3, <1>4 DEF SInv

LEMMA PastStep ==
    ASSUME IInv, SInv, NEW r \in Requests, Verify(r) \/ ReadCredit(r) \/ Judge(r) \/ Submit(r) \/ Await(r)
    PROVE  SInv'
  <1>1. TypeOK
    BY DEF IInv
  <1>2. nonces' = nonces
    BY DEF Verify, ReadCredit, Judge, Submit, SubmitBlock, SubmitBlockDeclined, SubmitBlockRefused,
       SubmitBlockLost, Mint, Await
  <1>3. CASE Verify(r) \/ ReadCredit(r) \/ Judge(r)
    <2>1. req[r] \in RequestType /\ req[r].pc \in InFlight \cap Past
      BY <1>1, <1>3, RequestFields DEF Verify, ReadCredit, Judge, InFlight, Past
    <2>2. \A q \in Requests : q # r => req'[q] = req[q]
      BY <1>1, <1>3 DEF Verify, ReadCredit, Judge, Goto, TypeOK
    <2>3. req'[r].pc \in Past /\ req'[r].w = req[r].w /\ req'[r].job = req[r].job
          /\ req'[r].nonce = req[r].nonce
      <3>1. CASE Verify(r)
        BY <1>1, <2>1, <3>1, SMTT(30) DEF Verify, Goto, Past, RequestType, TypeOK
      <3>2. CASE ReadCredit(r)
        BY <1>1, <2>1, <3>2 DEF ReadCredit, Past, RequestType, TypeOK
      <3>3. CASE Judge(r)
        BY <1>1, <2>1, <3>3, SMTT(30) DEF Judge, Goto, Accepted, Past, RequestType, TypeOK
      <3> QED
        BY <1>3, <3>1, <3>2, <3>3
    <2> QED
      BY <1>2, <2>1, <2>2, <2>3, GoesOnStep DEF GoesOn
  <1>4. CASE Submit(r) \/ Await(r)
    <2>1. Finishes(r) /\ \A q \in Requests : q # r => req'[q] = req[q]
      BY <1>1, <1>4, FinishMoves
    <2>2. GoesOn(r)
      BY <2>1 DEF Finishes, GoesOn, InFlight, Past
    <2> QED
      BY <1>2, <2>1, <2>2, GoesOnStep DEF GoesOn
  <1> QED
    BY <1>3, <1>4

LEMMA AnnounceSerial ==
    ASSUME IInv, SInv, Announce
    PROVE  SInv'
  <1>1. ASSUME NEW r \in Requests PROVE GoesOn(r)
    <2>1. CASE req[r].pc = "wait"
      <3>1. req[r] \in RequestType
        BY <2>1, RequestFields DEF IInv
      <3>2. req'[r] = [req[r] EXCEPT !.pc = "accepted"]
        BY <2>1 DEF Announce
      <3> QED
        BY <2>1, <3>1, <3>2 DEF RequestType, GoesOn, InFlight, Past
    <2>2. CASE req[r].pc # "wait"
      BY <2>2 DEF Announce, GoesOn
    <2> QED
      BY <2>1, <2>2
  <1> QED
    BY <1>1, GoesOnStep DEF Announce

-----------------------------------------------------------------------------
(* The duplicate check.                                                    *)

LEMMA LookupSerial ==
    ASSUME IInv, SInv, Serial, NEW r \in Requests, NEW w \in Workers, NEW j \in Ids,
           NEW n \in Nonces, NEW s \in Solutions, Lookup(r, w, j, n, s)
    PROVE  SInv'
  <1>1. /\ nonces' = nonces /\ req[r].pc = "free"
        /\ req'[r].pc \in {"check", "stale"}
        /\ \A q \in Requests : q # r => req'[q] = req[q]
    BY DEF Lookup, IInv, TypeOK
  <1>2. ASSUME NEW q \in Requests PROVE req[q].pc \notin InFlight
    <2>1. SUFFICES ASSUME req[q].pc \in InFlight PROVE FALSE
      OBVIOUS
    <2>2. req[q].w \in Workers
      BY <2>1, RequestFields DEF IInv, InFlight, RequestType
    <2>3. req[q].w = w
      BY <2>2 DEF Serial
    <2> QED
      BY <2>1, <2>3 DEF Lookup, Serial, Waiting
  <1>3. OneInFlight'
    BY <1>1, <1>2 DEF OneInFlight
  <1>4. EmptyAtFirst' /\ Distinct'
    BY <1>1 DEF SInv, EmptyAtFirst, Distinct, Past
  <1>5. Registered'
    <2>1. ASSUME NEW q \in Requests, q # r
          PROVE  /\ req[q].pc = "create" => Mine(q)'.gen = 0
                 /\ req[q].pc = "add" => /\ Mine(q)'.gen = req[q].gen /\ Mine(q)'.gen # 0
                                          /\ req[q].nonce \notin Mine(q)'.used
                 /\ req[q].pc \in Past => req[q].nonce \in Mine(q)'.used
      BY <1>1, <2>1 DEF SInv, Registered, Mine
    <2> QED
      BY <1>1, <2>1 DEF Registered, Past
  <1> QED
    BY <1>3, <1>4, <1>5 DEF SInv

LEMMA CheckNonceSerial ==
    ASSUME IInv, SInv, NEW r \in Requests, CheckNonce(r)
    PROVE  SInv'
  <1>1. req[r] \in RequestType /\ req[r].pc = "check" /\ nonces' = nonces
    BY RequestFields DEF IInv, CheckNonce
  <1>2. /\ req'[r].w = req[r].w /\ req'[r].job = req[r].job /\ req'[r].nonce = req[r].nonce
        /\ req'[r].gen = Mine(r).gen
        /\ \/ req'[r].pc = "create" /\ Mine(r).gen = 0
           \/ req'[r].pc = "duplicate"
           \/ req'[r].pc = "add" /\ Mine(r).gen # 0 /\ req[r].nonce \notin Mine(r).used
        /\ \A q \in Requests : q # r => req'[q] = req[q]
    BY <1>1 DEF CheckNonce, RequestType, IInv, TypeOK
  <1>3. OneInFlight'
    BY <1>1, <1>2 DEF SInv, OneInFlight, InFlight
  <1>4. EmptyAtFirst' /\ Distinct'
    BY <1>1, <1>2 DEF SInv, EmptyAtFirst, Distinct, Past
  <1>5. Registered'
    <2>1. ASSUME NEW q \in Requests
          PROVE  /\ req'[q].pc = "create" => Mine(q)'.gen = 0
                 /\ req'[q].pc = "add" => /\ Mine(q)'.gen = req'[q].gen /\ Mine(q)'.gen # 0
                                          /\ req'[q].nonce \notin Mine(q)'.used
                 /\ req'[q].pc \in Past => req'[q].nonce \in Mine(q)'.used
      <3>1. Mine(q)' = Mine(q)
        BY <1>1, <1>2 DEF Mine
      <3> QED
        BY <1>2, <3>1 DEF SInv, Registered, Past
    <2> QED
      BY <2>1 DEF Registered
  <1> QED
    BY <1>3, <1>4, <1>5 DEF SInv

\* The nonce of a request is entered, which nobody else did for this job.
LEMMA EnteredStep ==
    ASSUME IInv, SInv, NEW r \in Requests, req[r].pc \in {"create", "add"}, Goto(r, "verify"),
           NEW g \in Nat, g # 0,
           nonces' = [nonces EXCEPT ![req[r].job][req[r].w] =
                         [gen |-> g, used |-> Mine(r).used \cup {req[r].nonce}]],
           req[r].nonce \notin Mine(r).used
    PROVE  SInv'
  <1>1. /\ req[r] \in RequestType
        /\ req[r].job \in Ids /\ req[r].w \in Workers /\ req[r].nonce \in Nonces
    BY RequestFields, MineType DEF IInv
  <1>2. /\ req'[r].w = req[r].w /\ req'[r].job = req[r].job /\ req'[r].nonce = req[r].nonce
        /\ req'[r].pc = "verify"
        /\ \A q \in Requests : q # r => req'[q] = req[q]
    BY <1>1 DEF Goto, RequestType, IInv, TypeOK
  <1>3. \A j \in Ids, w \in Workers :
            nonces'[j][w] = IF j = req[r].job /\ w = req[r].w
                            THEN [gen |-> g, used |-> Mine(r).used \cup {req[r].nonce}]
                            ELSE nonces[j][w]
    BY <1>1 DEF IInv, TypeOK
  <1>4. OneInFlight'
    BY <1>2 DEF SInv, OneInFlight, InFlight
  <1>5. EmptyAtFirst'
    BY <1>3 DEF SInv, EmptyAtFirst
  <1>6. Registered'
    <2>1. ASSUME NEW q \in Requests
          PROVE  /\ req'[q].pc = "create" => Mine(q)'.gen = 0
                 /\ req'[q].pc = "add" => /\ Mine(q)'.gen = req'[q].gen /\ Mine(q)'.gen # 0
                                          /\ req'[q].nonce \notin Mine(q)'.used
                 /\ req'[q].pc \in Past => req'[q].nonce \in Mine(q)'.used
      <3>1. CASE q = r
        <4>1. nonces'[req[r].job][req[r].w] = [gen |-> g, used |-> Mine(r).used \cup {req[r].nonce}]
          BY <1>1, <1>3
        <4>2. Mine(q)' = nonces'[req[r].job][req[r].w]
          BY <1>2, <3>1 DEF Mine
        <4>3. req[r].nonce \in nonces'[req[r].job][req[r].w].used
          BY <4>1
        <4> QED
          BY <1>2, <3>1, <4>2, <4>3
      <3>2. CASE q # r /\ req[q].pc \in Past
        <4>1. req[q].job \in Ids /\ req[q].w \in Workers /\ req[q].nonce \in Mine(q).used
          BY <3>2, MineType DEF IInv, Past, SInv, Registered
        <4>2. req'[q] = req[q] /\ req[q].pc \notin {"create", "add"}
          BY <1>2, <3>2 DEF Past
        <4>3. /\ Mine(q)' = nonces'[req[q].job][req[q].w]
              /\ Mine(q) = nonces[req[q].job][req[q].w] /\ Mine(r) = nonces[req[r].job][req[r].w]
          BY <4>2 DEF Mine
        <4>4. req[q].nonce \in nonces'[req[q].job][req[q].w].used
          <5>1. CASE req[q].job = req[r].job /\ req[q].w = req[r].w
            <6>1. nonces'[req[q].job][req[q].w] = [gen |-> g, used |-> Mine(r).used \cup {req[r].nonce}]
              BY <1>3, <4>1, <5>1, ZenonT(60)
            <6>2. req[q].nonce \in Mine(r).used
              BY <4>1, <4>3, <5>1
            <6> QED
              BY <6>1, <6>2
          <5>2. CASE ~(req[q].job = req[r].job /\ req[q].w = req[r].w)
            <6>1. nonces'[req[q].job][req[q].w] = nonces[req[q].job][req[q].w]
              BY <1>3, <4>1, <5>2
            <6> QED
              BY <4>1, <4>3, <6>1
          <5> QED
            BY <5>1, <5>2
        <4> QED
          BY <4>2, <4>3, <4>4
      <3>3. CASE q # r /\ req[q].pc \notin Past
        BY <1>2, <3>3 DEF SInv, OneInFlight, InFlight
      <3> QED
        BY <3>1, <3>2, <3>3
    <2> QED
      BY <2>1 DEF Registered
  <1>7. Distinct'
    <2>1. ASSUME NEW q \in Requests, q # r, req[q].pc \in Past, req[q].w = req[r].w, req[q].job = req[r].job
          PROVE  req[q].nonce # req[r].nonce
      BY <2>1 DEF SInv, Registered, Mine
    <2> QED
      BY <1>2, <2>1 DEF SInv, Distinct
  <1> QED
    BY <1>4, <1>5, <1>6, <1>7 DEF SInv

LEMMA CreateNoncesSerial ==
    ASSUME IInv, SInv, NEW r \in Requests, CreateNonces(r)
    PROVE  SInv'
  <1>1. /\ req[r].pc = "create" /\ Goto(r, "verify") /\ Mine(r).gen = 0
        /\ req[r].job \in Ids /\ req[r].w \in Workers
    BY MineType DEF IInv, SInv, Registered, CreateNonces
  <1>2. Mine(r).used = {} /\ nonces[req[r].job][req[r].w].gen = 0
    BY <1>1 DEF SInv, EmptyAtFirst, Mine
  <1>3. \A q \in Requests \ {r} : req[q].pc # "create"
    BY <1>1 DEF SInv, OneInFlight, InFlight
  <1>4. nonces' = [nonces EXCEPT ![req[r].job][req[r].w] =
                      [gen |-> nonces[req[r].job][req[r].w].gen + 1, used |-> {req[r].nonce}]]
    BY <1>3 DEF CreateNonces
  <1>5. nonces' = [nonces EXCEPT ![req[r].job][req[r].w] =
                      [gen |-> 1, used |-> Mine(r).used \cup {req[r].nonce}]]
    BY <1>2, <1>4
  <1>6. req[r].pc \in {"create", "add"} /\ req[r].nonce \notin Mine(r).used /\ 1 \in Nat /\ 1 # 0
    BY <1>1, <1>2
  <1> QED
    BY <1>1, <1>5, <1>6, EnteredStep

LEMMA AddNonceSerial ==
    ASSUME IInv, SInv, NEW r \in Requests, AddNonce(r)
    PROVE  SInv'
  <1>1. /\ req[r].pc = "add" /\ Goto(r, "verify")
        /\ Mine(r).gen = req[r].gen /\ Mine(r).gen # 0 /\ req[r].nonce \notin Mine(r).used
    BY DEF SInv, Registered, AddNonce
  <1>2. /\ req[r].job \in Ids /\ req[r].w \in Workers
        /\ nonces \in [Ids -> [Workers -> [gen : Nat, used : SUBSET Nonces]]]
    BY <1>1, MineType DEF IInv, TypeOK
  <1>3. Mine(r) \in [gen : Nat, used : SUBSET Nonces]
    BY <1>2 DEF Mine
  <1>4. [Mine(r) EXCEPT !.used = @ \cup {req[r].nonce}]
            = [gen |-> Mine(r).gen, used |-> Mine(r).used \cup {req[r].nonce}]
    BY <1>3
  <1>5. nonces' = [nonces EXCEPT ![req[r].job][req[r].w] =
                      [Mine(r) EXCEPT !.used = @ \cup {req[r].nonce}]]
    BY <1>1, <1>2 DEF AddNonce, Mine
  <1>6. nonces' = [nonces EXCEPT ![req[r].job][req[r].w] =
                      [gen |-> Mine(r).gen, used |-> Mine(r).used \cup {req[r].nonce}]]
    BY <1>4, <1>5
  <1> QED
    BY <1>1, <1>3, <1>6, EnteredStep

-----------------------------------------------------------------------------
(* The chain of jobs.                                                      *)

\* A daemon that is up to date answers with the newest header, and a job is
\* made of it only if the current one is of another.
LEMMA HeadersRiseStep ==
    ASSUME IInv, HeadersRise, Serial, NEW i \in DOMAIN headers, NEW net \in NetDiffs,
           i + MaxLag >= Len(headers), UpdateJob(i, net)
    PROVE  HeadersRise'
  <1> DEFINE new == Len(jobs) + 1
  <1>1. /\ jobs' = Append(jobs, [header |-> i, net |-> net]) /\ currentJob' = new
        /\ currentJob # 0 => jobs[currentJob].header # i
    BY DEF UpdateJob
  <1>2. headers \in Seq(Nat \ {0}) /\ jobs \in Seq([header : DOMAIN headers, net : NetDiffs])
    BY DEF IInv, TypeOK
  <1>3. i = Len(headers)
    BY <1>2 DEF Serial
  <1>4. /\ Len(jobs) \in Nat /\ DOMAIN jobs = 1 .. Len(jobs)
        /\ Len(jobs') = new /\ DOMAIN jobs' = 1 .. new
        /\ \A j \in DOMAIN jobs : jobs'[j] = jobs[j]
        /\ jobs'[new].header = i
    BY <1>1, <1>2
  <1>5. ASSUME NEW j \in DOMAIN jobs PROVE jobs[j].header < i /\ j < new
    <2>1. jobs[j].header \in 1 .. i
      BY <1>2, <1>3, HeightIsNat DEF IInv
    <2>2. currentJob = Len(jobs) /\ currentJob \in DOMAIN jobs /\ j <= currentJob
      BY <1>4 DEF HeadersRise
    <2>3. jobs[currentJob].header \in 1 .. i /\ jobs[currentJob].header # i
      BY <1>1, <1>2, <1>3, <2>2, HeightIsNat DEF IInv
    <2>4. j < currentJob => jobs[j].header < jobs[currentJob].header
      BY <2>2 DEF HeadersRise
    <2> QED
      BY <1>4, <2>1, <2>2, <2>3, <2>4
  <1>6. ASSUME NEW j \in 1 .. new, NEW k \in 1 .. new, j < k
        PROVE  jobs'[j].header < jobs'[k].header
    <2>1. j \in DOMAIN jobs /\ jobs'[j] = jobs[j]
      BY <1>4, <1>6
    <2>2. CASE k = new
      BY <1>4, <1>5, <2>1, <2>2
    <2>3. CASE k # new
      <3>1. k \in DOMAIN jobs /\ jobs'[k] = jobs[k]
        BY <1>4, <2>3
      <3> QED
        BY <1>6, <2>1, <3>1 DEF HeadersRise
    <2> QED
      BY <2>2, <2>3
  <1> QED
    BY <1>1, <1>4, <1>6 DEF HeadersRise

-----------------------------------------------------------------------------
(* Every step of a serial worker and an up-to-date daemon.                 *)

LEMMA SerialInit == Init => HeadersRise /\ SInv
  BY DEF Init, HeadersRise, SInv, OneInFlight, Registered, EmptyAtFirst, Distinct, InFlight, Past,
     NoRequest, NoNonces

LEMMA SerialStep ==
    ASSUME IInv, HeadersRise, SInv, Serial, [Next]_vars
    PROVE  HeadersRise' /\ SInv'
  <1>1. CASE Poll
    <2>1. HeadersRise'
      BY <1>1, HeadersRiseStep DEF Poll
    <2>2. UNCHANGED <<req, nonces>>
      BY <1>1 DEF Poll, UpdateJob
    <2> QED
      BY <2>1, <2>2, GoesOnStep DEF GoesOn
  <1>2. CASE Announce
    <2>1. UNCHANGED <<jobs, currentJob>>
      BY <1>2 DEF Announce
    <2> QED
      BY <1>2, <2>1, AnnounceSerial DEF HeadersRise
  <1>3. CASE \E w \in Workers : ApplyPendingDifficulty(w) \/ \E d \in Diffs : UpdateVarDiff(w, d)
    <2>1. UNCHANGED <<jobs, currentJob, req, nonces>>
      BY <1>3 DEF ApplyPendingDifficulty, UpdateVarDiff, work
    <2> QED
      BY <2>1, GoesOnStep DEF GoesOn, HeadersRise
  <1>4. CASE NewHeader \/ UNCHANGED vars
    <2>1. UNCHANGED <<jobs, currentJob, req, nonces>>
      BY <1>4 DEF NewHeader, vars
    <2> QED
      BY <2>1, GoesOnStep DEF GoesOn, HeadersRise
  <1>5. CASE \E r \in Requests : Handle(r)
    <2>1. PICK r \in Requests : Handle(r)
      BY <1>5
    <2>2. UNCHANGED <<jobs, currentJob>>
      BY <2>1, HandleLeaves
    <2>3. SInv'
      BY <2>1, PastStep, CheckNonceSerial, CreateNoncesSerial, AddNonceSerial DEF Handle
    <2> QED
      BY <2>2, <2>3 DEF HeadersRise
  <1>6. CASE \E r \in Requests, w \in Workers, j \in Ids, n \in Nonces, s \in Solutions :
                Lookup(r, w, j, n, s)
    <2>1. UNCHANGED <<jobs, currentJob>>
      BY <1>6 DEF Lookup, work
    <2> QED
      BY <1>6, <2>1, LookupSerial DEF HeadersRise
  <1> QED
    BY <1>1, <1>2, <1>3, <1>4, <1>5, <1>6 DEF Next, Manager

\* No proof of work of a worker that waits for its answers is accepted twice,
\* as long as no job is made of an older header again (AionJob.RegisterNonce,
\* ProcessShare; AionJobManager.UpdateJob).
THEOREM SerialCountsOnce ==
    ASSUME Serial
    PROVE  Spec => []ShareCountedOnce
  <1>1. IInv /\ HeadersRise /\ SInv /\ [Next]_vars => IInv' /\ HeadersRise' /\ SInv'
    BY IInvStep, SerialStep
  <1>2. IInv /\ HeadersRise /\ SInv => ShareCountedOnce
    <2> SUFFICES ASSUME IInv, HeadersRise, SInv, NEW r \in Requests, NEW q \in Requests,
                        r # q, req[r].pc = "accepted", req[q].pc = "accepted", SameShare(r, q)
                 PROVE  FALSE
      BY DEF ShareCountedOnce
    <2>1. req[r].job \in DOMAIN jobs /\ req[q].job \in DOMAIN jobs
      BY JobOfRequest DEF IInv
    <2>2. req[r].job \in Nat /\ req[q].job \in Nat
      BY <2>1, HeightIsNat DEF IInv
    <2>3. req[r].job = req[q].job
      <3>1. jobs[req[r].job].header = jobs[req[q].job].header
        BY DEF SameShare
      <3>2. jobs[req[r].job].header \in Nat
        <4>1. headers \in Seq(Nat \ {0}) /\ jobs[req[r].job].header \in DOMAIN headers
          BY <2>1, HeightIsNat DEF IInv, TypeOK
        <4> QED
          BY <4>1, ElementOf
      <3>3. ~(req[r].job < req[q].job) /\ ~(req[q].job < req[r].job)
        BY <2>1, <3>1, <3>2 DEF HeadersRise
      <3> QED
        BY <2>2, <3>3
    <2> QED
      BY <2>3 DEF SInv, Distinct, SameShare, Past
  <1> QED
    BY IInvInit, SerialInit, <1>1, <1>2, PTL DEF Spec

-----------------------------------------------------------------------------
(* Credit.  Until its first retarget is applied a worker has the           *)
(* difficulty it began with whenever it is read, so that what is credited  *)
(* is what the share is compared with.                                     *)

Judged == {"submit", "took", "wait", "accepted"}

Credited ==
    \A r \in Requests :
        /\ req[r].pc = "judge" /\ prev[req[r].w] = 0 => req[r].credit <= StartDiff
        /\ req[r].pc \in Judged /\ prev[req[r].w] = 0 => req[r].credit <= Quality[req[r].sol]

\* A worker once retargeted stays so.
PrevStays == \A w \in Workers : prev'[w] = 0 => prev[w] = 0

\* A request that is none of these, or keeps what its credit was proven with.
KeepsCredit(r) ==
    \/ req'[r] = req[r]
    \/ req'[r].pc \notin {"judge"} \cup Judged
    \/ /\ req[r].pc \in Judged /\ req'[r].pc \in Judged
       /\ req'[r].w = req[r].w /\ req'[r].sol = req[r].sol /\ req'[r].credit = req[r].credit

LEMMA CreditStays ==
    ASSUME TypeOK, Credited, PrevStays, \A r \in Requests : KeepsCredit(r)
    PROVE  Credited'
  <1>1. ASSUME NEW r \in Requests, req'[r].pc \in {"judge"} \cup Judged, prev'[req'[r].w] = 0
        PROVE  /\ req'[r].pc = "judge" => req'[r].credit <= StartDiff
               /\ req'[r].pc \in Judged => req'[r].credit <= Quality[req'[r].sol]
    <2>1. KeepsCredit(r)
      OBVIOUS
    <2>2. req[r].pc # "free" /\ req'[r].w = req[r].w
      BY <1>1, <2>1 DEF KeepsCredit, Judged
    <2>3. req[r].w \in Workers
      BY <2>2, RequestFields DEF RequestType
    <2>4. prev[req[r].w] = 0
      BY <1>1, <2>2, <2>3 DEF PrevStays
    <2> QED
      BY <1>1, <2>1, <2>4 DEF Credited, KeepsCredit, Judged
  <1> QED
    BY <1>1 DEF Credited, Judged

\* The difficulty to credit is read.
LEMMA ReadsCredit ==
    ASSUME TypeOK, ContextsAgree, Credited, NEW r \in Requests, Verify(r) \/ ReadCredit(r)
    PROVE  Credited'
  <1>1. req[r] \in RequestType /\ req[r].w \in Workers /\ prev' = prev
    BY RequestFields DEF Verify, ReadCredit, contexts, RequestType
  <1>2. \A q \in Requests : q # r => req'[q] = req[q]
    BY DEF Verify, ReadCredit, Goto, TypeOK
  <1>3. CASE Goto(r, "invalid") \/ Goto(r, "credit")
    <2>1. req'[r].pc \in {"invalid", "credit"}
      BY <1>1, <1>3 DEF Goto, TypeOK, RequestType
    <2> QED
      BY <1>1, <1>2, <2>1, CreditStays DEF KeepsCredit, Judged, PrevStays
  <1>4. ASSUME NEW c \in Nat, c <= diff[req[r].w],
               req' = [req EXCEPT ![r].pc = "judge", ![r].credit = c]
        PROVE  Credited'
    <2>1. req'[r].pc = "judge" /\ req'[r].w = req[r].w /\ req'[r].credit = c
      BY <1>1, <1>4 DEF TypeOK, RequestType
    <2>2. prev[req[r].w] = 0 => c <= StartDiff
      BY <1>1, <1>4 DEF ContextsAgree
    <2> QED
      BY <1>1, <1>2, <2>1, <2>2 DEF Credited, Judged
  <1>5. CASE ReadCredit(r)
    <2>1. PICK c \in Nat : c = diff[req[r].w]
      BY <1>1 DEF TypeOK
    <2>2. c <= diff[req[r].w] /\ req' = [req EXCEPT ![r].pc = "judge", ![r].credit = c]
      BY <1>5, <2>1 DEF ReadCredit
    <2> QED
      BY <1>4, <2>2
  <1>6. CASE Verify(r)
    <2>1. diff[req[r].w] \in Nat /\ jobs[req[r].job].net \in Nat
      BY <1>1, <1>6, NetIsNat DEF TypeOK, Verify
    <2> QED
      BY <1>3, <1>4, <1>6, <2>1 DEF Verify
  <1> QED
    BY <1>5, <1>6

LEMMA JudgeCredit ==
    ASSUME TypeOK, ContextsAgree, Credited, NEW r \in Requests, Judge(r)
    PROVE  Credited'
  <1>1. req[r] \in RequestType /\ req[r].pc = "judge" /\ prev' = prev /\ req[r].w \in Workers
    BY RequestFields DEF Judge, contexts, RequestType
  <1>2. \A q \in Requests : q # r => req'[q] = req[q]
    BY DEF Judge, Goto, TypeOK
  <1>3. req'[r].pc \in {"low", "submit", "accepted"} /\ req'[r].w = req[r].w /\ req'[r].sol = req[r].sol
    BY <1>1, SMTT(30) DEF Judge, Goto, Accepted, TypeOK, RequestType
  <1>4. CASE prev[req[r].w] # 0 \/ req'[r].pc = "low"
    BY <1>1, <1>2, <1>3, <1>4 DEF Credited, Judged
  <1>5. CASE prev[req[r].w] = 0 /\ req'[r].pc # "low"
    <2>1. ~(Quality[req[r].sol] < diff[req[r].w]) /\ Goto(r, Accepted(r))
      BY <1>1, <1>5, SMTT(30) DEF Judge, Goto, TypeOK, RequestType
    <2>2. req'[r].credit = req[r].credit
      BY <1>1, <2>1 DEF Goto, TypeOK, RequestType
    <2>3. diff[req[r].w] = StartDiff /\ req[r].credit <= StartDiff
      BY <1>1, <1>5 DEF ContextsAgree, Credited
    <2>4. Quality[req[r].sol] \in Nat /\ req[r].credit \in Nat /\ StartDiff \in Nat
      BY <1>1, SetsAssumption, NumbersAssumption DEF RequestType
    <2>5. req[r].credit <= Quality[req[r].sol]
      BY <2>1, <2>3, <2>4
    <2> QED
      BY <1>1, <1>2, <1>3, <2>2, <2>5 DEF Credited, Judged
  <1> QED
    BY <1>4, <1>5

LEMMA HandleCredit ==
    ASSUME TypeOK, ContextsAgree, Credited, NEW r \in Requests, Handle(r)
    PROVE  Credited'
  <1>1. CASE Verify(r) \/ ReadCredit(r)
    BY <1>1, ReadsCredit
  <1>2. CASE Judge(r)
    BY <1>2, JudgeCredit
  <1>3. PrevStays
    BY HandleLeaves DEF PrevStays, contexts
  <1>4. CASE CheckNonce(r) \/ CreateNonces(r) \/ AddNonce(r)
    <2>1. /\ req'[r].pc \in {"create", "duplicate", "add", "verify"}
          /\ \A q \in Requests : q # r => req'[q] = req[q]
      BY <1>4, EnterMoves
    <2> QED
      BY <1>3, <2>1, CreditStays DEF KeepsCredit, Judged
  <1>5. CASE Submit(r) \/ Await(r)
    <2>1. Finishes(r) /\ \A q \in Requests : q # r => req'[q] = req[q]
      BY <1>5, FinishMoves
    <2> QED
      BY <1>3, <2>1, CreditStays DEF Finishes, KeepsCredit, Judged
  <1> QED
    BY <1>1, <1>2, <1>4, <1>5 DEF Handle

LEMMA CreditStep ==
    ASSUME TypeOK, ContextsAgree, Credited, [Next]_vars
    PROVE  Credited'
  <1>1. /\ diff \in [Workers -> Nat \ {0}] /\ prev \in [Workers -> Nat]
        /\ pending \in [Workers -> Nat]
    BY DEF TypeOK
  <1>2. CASE Announce
    <2>1. PICK twice \in SUBSET Workers :
             prev' = [w \in Workers |-> IF pending[w] = 0 THEN prev[w]
                                       ELSE IF w \in twice THEN pending[w] ELSE diff[w]]
      BY <1>2 DEF Announce
    <2>2. PrevStays
      BY <1>1, <2>1 DEF PrevStays
    <2>3. ASSUME NEW r \in Requests PROVE KeepsCredit(r)
      <3>1. CASE req[r].pc = "wait"
        <4>1. req[r] \in RequestType
          BY <3>1, RequestFields
        <4>2. req'[r] = [req[r] EXCEPT !.pc = "accepted"]
          BY <1>2, <3>1 DEF Announce
        <4> QED
          BY <3>1, <4>1, <4>2 DEF KeepsCredit, Judged, RequestType
      <3>2. CASE req[r].pc # "wait"
        BY <1>2, <3>2 DEF Announce, KeepsCredit
      <3> QED
        BY <3>1, <3>2
    <2> QED
      BY <2>2, <2>3, CreditStays
  <1>3. CASE \E w \in Workers : ApplyPendingDifficulty(w) \/ \E d \in Diffs : UpdateVarDiff(w, d)
    <2>1. req' = req
      BY <1>3 DEF ApplyPendingDifficulty, UpdateVarDiff
    <2>2. PrevStays
      BY <1>1, <1>3 DEF ApplyPendingDifficulty, UpdateVarDiff, PrevStays
    <2> QED
      BY <2>1, <2>2, CreditStays DEF KeepsCredit
  <1>4. CASE NewHeader \/ Poll \/ UNCHANGED vars
    <2>1. UNCHANGED <<req, prev>>
      BY <1>4 DEF NewHeader, Poll, UpdateJob, contexts, vars
    <2> QED
      BY <2>1, CreditStays DEF KeepsCredit, PrevStays
  <1>5. CASE \E r \in Requests : Handle(r)
    BY <1>5, HandleCredit
  <1>6. CASE \E r \in Requests, w \in Workers, j \in Ids, n \in Nonces, s \in Solutions :
                Lookup(r, w, j, n, s)
    <2>1. PICK r \in Requests, w \in Workers, j \in Ids, n \in Nonces, s \in Solutions :
              Lookup(r, w, j, n, s)
      BY <1>6
    <2>2. prev' = prev /\ \A q \in Requests : q # r => req'[q] = req[q]
      BY <2>1 DEF Lookup, contexts, TypeOK
    <2>3. req'[r].pc \in {"check", "stale"}
      BY <2>1 DEF Lookup, TypeOK
    <2> QED
      BY <2>2, <2>3, CreditStays DEF KeepsCredit, Judged, PrevStays
  <1> QED
    BY <1>2, <1>3, <1>4, <1>5, <1>6 DEF Next, Manager

\* A share is credited with more than it proves only once a retarget of its
\* worker has been applied, whatever updates are decided, pending or applied twice
\* between the reads of the difficulty (AionJob.ProcessShareInternal,
\* WorkerContextBase.ApplyPendingDifficulty).
THEOREM RetargetsAloneOvercredit == Spec => []CreditIsProven
  <1>1. Init => ContextsAgree /\ Credited
    BY DEF Init, ContextsAgree, Credited, NoRequest, Judged
  <1>2. IInv /\ ContextsAgree /\ Credited /\ [Next]_vars => ContextsAgree' /\ Credited'
    BY ContextsAgreeStep, CreditStep DEF IInv
  <1>3. IInv /\ Credited => CreditIsProven
    <2> SUFFICES ASSUME IInv, Credited, NEW r \in Requests, req[r].pc = "accepted",
                        req[r].credit > Quality[req[r].sol], prev[req[r].w] = 0
                 PROVE  FALSE
      BY DEF CreditIsProven
    <2>1. req[r] \in RequestType
      BY RequestFields DEF IInv
    <2>2. req[r].credit \in Nat /\ Quality[req[r].sol] \in Nat
      BY <2>1, SetsAssumption DEF RequestType
    <2>3. req[r].credit <= Quality[req[r].sol]
      BY DEF Credited, Judged
    <2> QED
      BY <2>2, <2>3
  <1> QED
    BY Invariance, <1>1, <1>2, <1>3, PTL DEF Spec
-----------------------------------------------------------------------------
(* The proof of work of a share (Equihash).  The bits that ExpandArray has *)
(* cut after any number of bytes are the slices of these bytes; after l    *)
(* rounds of the verifier the rows are the trees of 2^l leaves, each with  *)
(* the parity of the bits of its leaves, and all pairs merged were good.   *)

LEMMA Sizes ==
    /\ K \in Nat \ {0} /\ IndicesPerHashOutput \in Nat \ {0} /\ HashLen \in Nat \ {0}
    /\ ByteBits \in Nat \ {0} /\ WordBits \in Nat \ {0} /\ DigestBits \in Nat \ {0}
    /\ CollisionBitLength \in Nat /\ CollisionBitLength >= ByteBits
    /\ CollisionBitLength + ByteBits <= WordBits
  BY EquihashAssumption

\* What the recursive function Pow2 is.
LEMMA Pow2Equation ==
    /\ Pow2 \in [0 .. K + DigestBits -> Nat \ {0}]
    /\ Pow2[0] = 1
    /\ \A n \in 1 .. K + DigestBits : Pow2[n] = 2 * Pow2[n - 1]
  <1> DEFINE N == K + DigestBits
             S == Nat \ {0}
             G == [n \in 1 .. N |-> [x \in S |-> 2 * x]]
             E(f) == f = [n \in 0 .. N |-> IF n = 0 THEN 1 ELSE 2 * f[n - 1]]
  <1>1. N \in Nat
    BY Sizes
  <1>2. PICK f : Follows(f, S, 1, N, G)
    <2>1. G \in [1 .. N -> [S -> S]] /\ 1 \in S
      OBVIOUS
    <2> HIDE DEF G, S, N
    <2> QED BY <1>1, <2>1, Recursion
  <1>3. E(f)
    <2>1. f \in [0 .. N -> S] /\ f[0] = 1
      BY <1>2 DEF Follows
    <2>2. ASSUME NEW n \in 1 .. N PROVE f[n] = 2 * f[n - 1]
      <3>1. f[n - 1] \in S
        BY <1>1, <2>1
      <3>2. f[n] = G[n][f[n - 1]]
        <4> HIDE DEF G, N, S
        <4> QED BY <1>2 DEF Follows
      <3> QED BY <3>1, <3>2
    <2>3. \A n \in 0 .. N : f[n] = IF n = 0 THEN 1 ELSE 2 * f[n - 1]
      BY <1>1, <2>1, <2>2
    <2>4. f = [n \in 0 .. N |-> f[n]]
      BY <2>1
    <2> HIDE DEF G, N
    <2> QED BY <2>3, <2>4
  <1>4. E(Pow2)
    <2>1. Pow2 = CHOOSE g : E(g)
      BY DEF Pow2
    <2> HIDE DEF E
    <2> QED BY <1>3, <2>1
  <1>5. DOMAIN Pow2 = 0 .. N /\ Pow2[0] = 1 /\ \A n \in 1 .. N : Pow2[n] = 2 * Pow2[n - 1]
    BY <1>1, <1>4
  <1>6. 0 .. N \subseteq {n \in 0 .. N : Pow2[n] \in S}
    <2> DEFINE T == {n \in 0 .. N : Pow2[n] \in S}
    <2>1. 0 \in T
      BY <1>1, <1>5
    <2>2. \A n \in 1 .. N : n - 1 \in T => n \in T
      BY <1>1, <1>5
    <2> HIDE DEF T, N
    <2> QED BY <1>1, <2>1, <2>2, UpTo DEF T
  <1>7. Pow2 = [n \in 0 .. N |-> IF n = 0 THEN 1 ELSE 2 * Pow2[n - 1]]
    BY <1>4
  <1> QED BY <1>5, <1>6, <1>7

\* The powers that count leaves and trees.
LEMMA Powers == \A l \in 0 .. K : Pow2[l] \in Nat \ {0} /\ Pow2[K - l] \in Nat \ {0}
  <1> SUFFICES ASSUME NEW l \in 0 .. K
               PROVE  Pow2[l] \in Nat \ {0} /\ Pow2[K - l] \in Nat \ {0}
    OBVIOUS
  <1>1. l \in 0 .. K + DigestBits /\ K - l \in 0 .. K + DigestBits
    BY Sizes
  <1> QED BY <1>1, Pow2Equation, Zenon

LEMMA IndicesType == Indices \in Nat
  <1>1. K \in 0 .. K
    BY Sizes
  <1> QED BY <1>1, Powers DEF Indices

\* A word of bits is a natural number.
LEMMA ValueIsNat == ASSUME NEW bits \in Seq(Bit) PROVE Value(bits) \in Nat
  <1>1. PICK N \in Nat : N = Len(bits) /\ \A n \in 1 .. N : bits[n] \in Nat
    BY DEF Bit
  <1> DEFINE S == Nat
             G == [n \in 1 .. N |-> [x \in S |-> 2 * x + bits[n]]]
             E(f) == f = [n \in 0 .. N |-> IF n = 0 THEN 0 ELSE 2 * f[n - 1] + bits[n]]
             value == CHOOSE f : E(f)
  <1>2. PICK f : Follows(f, S, 0, N, G)
    <2>1. G \in [1 .. N -> [S -> S]] /\ 0 \in S
      BY <1>1
    <2> HIDE DEF G, S
    <2> QED BY <2>1, Recursion
  <1>3. E(f)
    <2>1. f \in [0 .. N -> S] /\ f[0] = 0
      BY <1>2 DEF Follows
    <2>2. ASSUME NEW n \in 1 .. N PROVE f[n] = 2 * f[n - 1] + bits[n]
      <3>1. f[n] = G[n][f[n - 1]]
        BY <1>2 DEF Follows
      <3> QED BY <2>1, <3>1
    <2>3. ASSUME NEW n \in 0 .. N PROVE f[n] = IF n = 0 THEN 0 ELSE 2 * f[n - 1] + bits[n]
      BY <2>1, <2>2
    <2>4. f = [n \in 0 .. N |-> f[n]]
      BY <2>1
    <2> HIDE DEF G
    <2> QED BY <2>3, <2>4
  <1>4. E(value)
    <2> HIDE DEF E
    <2> QED BY <1>3
  <1>5. value[0] = 0 /\ \A n \in 1 .. N : value[n] = 2 * value[n - 1] + bits[n]
    <2> HIDE DEF value
    <2>1. value = [n \in 0 .. N |-> IF n = 0 THEN 0 ELSE 2 * value[n - 1] + bits[n]]
      BY <1>4
    <2> QED BY <2>1
  <1>6. Value(bits) = value[N]
    BY <1>1 DEF Value
  <1> HIDE DEF value
  <1> DEFINE T == {n \in 0 .. N : value[n] \in Nat}
  <1>7. 0 \in T
    BY <1>1, <1>5
  <1>8. \A n \in 1 .. N : n - 1 \in T => n \in T
    BY <1>1, <1>5
  <1>9. 0 .. N \subseteq T
    <2> HIDE DEF T
    <2> QED BY <1>1, <1>7, <1>8, UpTo
  <1>10. N \in 0 .. N
    BY <1>1
  <1> QED BY <1>6, <1>9, <1>10
-----------------------------------------------------------------------------
(* ExpandArray cuts bytes into slices.                                       *)

LEMMA Quotient ==
    ASSUME NEW d \in Nat, d > 0, NEW q \in Nat, NEW r \in 0 .. d - 1
    PROVE  (d * q + r) \div d = q /\ (d * q + r) % d = r
  OBVIOUS

\* The k-th bit of byte n + 1.
LEMMA BitOfByte ==
    ASSUME NEW in, NEW n \in Nat, NEW k \in 1 .. ByteBits
    PROVE  BitAt(in, n * ByteBits + k) = in[n + 1][k]
  <1>1. ByteBits \in Nat /\ ByteBits > 0 /\ k - 1 \in 0 .. ByteBits - 1
    BY Sizes
  <1>2. (n * ByteBits + k) - 1 = ByteBits * n + (k - 1)
    BY <1>1
  <1>3. (ByteBits * n + (k - 1)) \div ByteBits = n /\ (ByteBits * n + (k - 1)) % ByteBits = k - 1
    BY <1>1, Quotient
  <1>4. BitAt(in, n * ByteBits + k) = in[n + 1][(k - 1) + 1]
    BY <1>2, <1>3 DEF BitAt
  <1> QED BY <1>1, <1>4

\* The last bits of the accumulator are those that follow the first `at` bits.
Pending(in, acc, bits, at) == \A k \in 1 .. bits : acc[WordBits - bits + k] = BitAt(in, at + k)

\* What the loop has after n bytes: q slices, and the bits after them.
Cut(in, w, n, q, turn) ==
    /\ q \in Nat /\ turn.bits \in 0 .. w - 1
    /\ q * w + turn.bits = n * ByteBits
    /\ turn.out = [i \in 1 .. q |-> Slice(in, w, i)]
    /\ Pending(in, turn.acc, turn.bits, q * w)

\* Shifting in the next byte keeps the pending bits the last ones.
LEMMA ShiftedBits ==
    ASSUME NEW in, NEW w \in Nat, w >= ByteBits, w - 1 + ByteBits <= WordBits,
           NEW n \in Nat, NEW at \in Nat, NEW acc, NEW bits \in 0 .. w - 1,
           at + bits = n * ByteBits, Pending(in, acc, bits, at)
    PROVE  Pending(in, ShiftIn(acc, in[n + 1]), bits + ByteBits, at)
  <1> SUFFICES ASSUME NEW k \in 1 .. bits + ByteBits
               PROVE  ShiftIn(acc, in[n + 1])[WordBits - (bits + ByteBits) + k] = BitAt(in, at + k)
    BY DEF Pending
  <1> DEFINE place == WordBits - (bits + ByteBits) + k
  <1>1. place \in 1 .. WordBits /\ ByteBits \in Nat /\ WordBits \in Nat
    BY Sizes
  <1>2. CASE k <= bits
    <2>1. place <= WordBits - ByteBits /\ place + ByteBits = WordBits - bits + k /\ k \in 1 .. bits
      BY <1>1, <1>2
    <2>2. ShiftIn(acc, in[n + 1])[place] = acc[place + ByteBits]
      BY <1>1, <2>1 DEF ShiftIn
    <2> HIDE DEF place
    <2> QED BY <2>1, <2>2 DEF place, Pending
  <1>3. CASE k > bits
    <2>1. ~(place <= WordBits - ByteBits) /\ place - (WordBits - ByteBits) = k - bits
          /\ k - bits \in 1 .. ByteBits
      BY <1>1, <1>3
    <2>2. ShiftIn(acc, in[n + 1])[place] = in[n + 1][k - bits]
      BY <1>1, <2>1 DEF ShiftIn
    <2>3. BitAt(in, n * ByteBits + (k - bits)) = in[n + 1][k - bits]
      BY <2>1, BitOfByte
    <2>4. n * ByteBits \in Nat
      BY <1>1
    <2>5. n * ByteBits + (k - bits) = at + k
      BY <2>4
    <2> QED BY <2>2, <2>3, <2>5
  <1> QED BY <1>2, <1>3

Turns(w) == [acc : [1 .. WordBits -> Bit], bits : 0 .. w - 1, out : Seq([1 .. w -> Bit])]

LEMMA TurnType ==
    ASSUME NEW w, NEW turn \in Turns(w)
    PROVE  turn.acc \in [1 .. WordBits -> Bit] /\ turn.bits \in 0 .. w - 1 /\ turn.out \in Seq([1 .. w -> Bit])
  BY DEF Turns

LEMMA ExpandedType ==
    ASSUME NEW w \in Nat, w >= ByteBits, w - 1 + ByteBits <= WordBits,
           NEW turn \in Turns(w), NEW byte \in Byte
    PROVE  Expanded(turn, byte, w) \in Turns(w)
  <1> DEFINE acc == ShiftIn(turn.acc, byte)
             bits == turn.bits + ByteBits
             piece == [k \in 1 .. w |-> acc[WordBits - bits + k]]
  <1>1. turn.acc \in [1 .. WordBits -> Bit] /\ turn.bits \in 0 .. w - 1 /\ turn.out \in Seq([1 .. w -> Bit])
    BY TurnType, Zenon
  <1>2. acc \in [1 .. WordBits -> Bit]
    <2>1. ASSUME NEW k \in 1 .. WordBits, k <= WordBits - ByteBits PROVE turn.acc[k + ByteBits] \in Bit
      <3>1. k + ByteBits \in 1 .. WordBits
        BY <2>1, Sizes
      <3> QED BY <1>1, <3>1
    <2>2. ASSUME NEW k \in 1 .. WordBits, ~(k <= WordBits - ByteBits)
          PROVE  byte[k - (WordBits - ByteBits)] \in Bit
      <3>1. k - (WordBits - ByteBits) \in 1 .. ByteBits
        BY <2>2, Sizes
      <3> QED BY <3>1 DEF Byte
    <2> QED BY <2>1, <2>2 DEF ShiftIn
  <1> HIDE DEF acc
  <1>3. bits \in Nat /\ bits <= WordBits
    BY <1>1, Sizes
  <1>4. CASE bits >= w
    <2>1. piece \in [1 .. w -> Bit]
      <3>1. ASSUME NEW k \in 1 .. w PROVE acc[WordBits - bits + k] \in Bit
        <4>1. WordBits - bits + k \in 1 .. WordBits
          BY <1>3, <1>4, Sizes
        <4> QED BY <1>2, <4>1
      <3> QED BY <3>1
    <2>2. Append(turn.out, piece) \in Seq([1 .. w -> Bit])
      <3> HIDE DEF piece
      <3> QED BY <1>1, <2>1
    <2>3. bits - w \in 0 .. w - 1
      BY <1>1, <1>4, Sizes
    <2>4. Expanded(turn, byte, w) = [acc |-> acc, bits |-> bits - w, out |-> Append(turn.out, piece)]
      BY <1>4 DEF Expanded, acc
    <2> HIDE DEF piece, bits
    <2> QED BY <1>2, <2>2, <2>3, <2>4 DEF Turns
  <1>5. CASE ~(bits >= w)
    <2>1. bits \in 0 .. w - 1
      BY <1>3, <1>5
    <2>2. Expanded(turn, byte, w) = [acc |-> acc, bits |-> bits, out |-> turn.out]
      BY <1>5 DEF Expanded, acc
    <2> HIDE DEF bits
    <2> QED BY <1>1, <1>2, <2>1, <2>2 DEF Turns
  <1> QED BY <1>4, <1>5

\* A turn of the loop goes from the cut after n bytes to that after n + 1.
LEMMA CutNext ==
    ASSUME NEW in, NEW w \in Nat, w >= ByteBits, w - 1 + ByteBits <= WordBits,
           NEW n \in Nat, NEW q, NEW turn, Cut(in, w, n, q, turn)
    PROVE  \E p : Cut(in, w, n + 1, p, Expanded(turn, in[n + 1], w))
  <1> DEFINE acc == ShiftIn(turn.acc, in[n + 1])
             bits == turn.bits + ByteBits
             piece == [k \in 1 .. w |-> acc[WordBits - bits + k]]
             next == Expanded(turn, in[n + 1], w)
  <1>1. q \in Nat /\ turn.bits \in 0 .. w - 1 /\ q * w + turn.bits = n * ByteBits
    BY DEF Cut
  <1>2. Pending(in, turn.acc, turn.bits, q * w)
    BY DEF Cut
  <1>3. Pending(in, acc, bits, q * w)
    <2>1. q * w \in Nat
      BY <1>1
    <2> QED BY <1>1, <1>2, <2>1, ShiftedBits
  <1>4. bits \in Nat /\ q * w \in Nat /\ q * w + bits = (n + 1) * ByteBits
    <2>1. (n + 1) * ByteBits = n * ByteBits + ByteBits
      BY Sizes
    <2>2. q * w \in Nat /\ ByteBits \in Nat
      BY <1>1, Sizes
    <2> QED BY <1>1, <2>1, <2>2
  <1> HIDE DEF acc
  <1>5. CASE bits >= w
    <2>1. next = [acc |-> acc, bits |-> bits - w, out |-> Append(turn.out, piece)]
      BY <1>5 DEF Expanded, acc
    <2>2. piece = Slice(in, w, q + 1)
      <3>1. \A k \in 1 .. w : acc[WordBits - bits + k] = BitAt(in, w * ((q + 1) - 1) + k)
        <4>1. \A k \in 1 .. w : k \in 1 .. bits
          BY <1>4, <1>5
        <4>2. w * ((q + 1) - 1) = q * w
          BY <1>1
        <4> QED BY <1>3, <4>1, <4>2 DEF Pending
      <3> QED BY <3>1 DEF Slice
    <2>3. Append(turn.out, piece) = [i \in 1 .. q + 1 |-> Slice(in, w, i)]
      <3>1. turn.out = [i \in 1 .. q |-> Slice(in, w, i)]
        BY DEF Cut
      <3> HIDE DEF piece
      <3> QED BY <1>1, <2>2, <3>1
    <2>4. bits - w \in 0 .. w - 1 /\ (q + 1) * w = q * w + w
      BY <1>1, <1>4, <1>5, Sizes
    <2>5. Pending(in, acc, bits - w, (q + 1) * w)
      <3> SUFFICES ASSUME NEW k \in 1 .. bits - w
                   PROVE  acc[WordBits - (bits - w) + k] = BitAt(in, (q + 1) * w + k)
        BY DEF Pending
      <3>1. w + k \in 1 .. bits /\ WordBits - (bits - w) + k = WordBits - bits + (w + k)
            /\ (q + 1) * w + k = q * w + (w + k)
        BY <1>4, <2>4, Sizes
      <3> QED BY <1>3, <3>1 DEF Pending
    <2>6. (q + 1) * w + (bits - w) = (n + 1) * ByteBits /\ q + 1 \in Nat
      BY <1>1, <1>4, <2>4
    <2>7. next.acc = acc /\ next.bits = bits - w /\ next.out = [i \in 1 .. q + 1 |-> Slice(in, w, i)]
      <3> HIDE DEF piece, next, bits
      <3> QED BY <2>1, <2>3
    <2>8. Cut(in, w, n + 1, q + 1, next)
      <3> HIDE DEF piece, next, bits
      <3> QED BY <2>4, <2>5, <2>6, <2>7 DEF Cut
    <2> QED BY <2>8
  <1>6. CASE ~(bits >= w)
    <2>1. next = [acc |-> acc, bits |-> bits, out |-> turn.out]
      BY <1>6 DEF Expanded, acc
    <2>2. bits \in 0 .. w - 1
      BY <1>4, <1>6
    <2>3. next.acc = acc /\ next.bits = bits /\ next.out = [i \in 1 .. q |-> Slice(in, w, i)]
      <3> HIDE DEF next, bits
      <3> QED BY <2>1 DEF Cut
    <2>4. Cut(in, w, n + 1, q, next)
      <3> HIDE DEF next, bits
      <3> QED BY <1>1, <1>3, <1>4, <2>2, <2>3 DEF Cut
    <2> QED BY <2>4
  <1> QED BY <1>5, <1>6

\* ExpandArray returns the slices.
LEMMA ExpandArrayCuts ==
    ASSUME NEW in \in Seq(Byte), NEW w \in Nat, w >= ByteBits, w - 1 + ByteBits <= WordBits
    PROVE  \E q \in Nat : /\ q * w <= Len(in) * ByteBits /\ Len(in) * ByteBits < (q + 1) * w
                          /\ ExpandArray(in, w) = [i \in 1 .. q |-> Slice(in, w, i)]
                          /\ \A i \in 1 .. q : Slice(in, w, i) \in [1 .. w -> Bit]
  <1>1. PICK N \in Nat : N = Len(in) /\ \A n \in 1 .. N : in[n] \in Byte
    OBVIOUS
  <1> DEFINE S == Turns(w)
             z == [acc |-> [k \in 1 .. WordBits |-> 0], bits |-> 0, out |-> <<>>]
             G == [n \in 1 .. N |-> [x \in S |-> Expanded(x, in[n], w)]]
             E(f) == f = [n \in 0 .. N |-> IF n = 0 THEN z ELSE Expanded(f[n - 1], in[n], w)]
             turn == CHOOSE f : E(f)
  <1>2. z \in S
    <2>1. [k \in 1 .. WordBits |-> 0] \in [1 .. WordBits -> Bit] /\ 0 \in 0 .. w - 1
      BY Sizes DEF Bit
    <2>2. <<>> \in Seq([1 .. w -> Bit])
      OBVIOUS
    <2> QED BY <2>1, <2>2 DEF Turns
  <1>3. \A n \in 1 .. N : \A x \in S : Expanded(x, in[n], w) \in S
    BY <1>1, ExpandedType
  <1>4. PICK f : Follows(f, S, z, N, G)
    <2>2. G \in [1 .. N -> [S -> S]]
      <3> HIDE DEF S, z
      <3> QED BY <1>3
    <2> HIDE DEF G, S, z
    <2> QED BY <1>2, <2>2, Recursion
  <1> HIDE DEF S, z
  <1>5. E(f)
    <2>1. f \in [0 .. N -> S] /\ f[0] = z
      BY <1>4 DEF Follows
    <2>2. ASSUME NEW n \in 1 .. N PROVE f[n] = Expanded(f[n - 1], in[n], w)
      <3>1. f[n - 1] \in S
        BY <2>1
      <3>2. f[n] = G[n][f[n - 1]]
        <4> HIDE DEF G
        <4> QED BY <1>4 DEF Follows
      <3> QED BY <3>1, <3>2
    <2>3. \A n \in 0 .. N : f[n] = IF n = 0 THEN z ELSE Expanded(f[n - 1], in[n], w)
      BY <2>1, <2>2
    <2>4. f = [n \in 0 .. N |-> f[n]]
      BY <2>1
    <2> HIDE DEF G
    <2> QED BY <2>3, <2>4
  <1>6. E(turn)
    <2> HIDE DEF E
    <2> QED BY <1>5
  <1>7. ExpandArray(in, w) = turn[N].out
    BY <1>1 DEF ExpandArray, z
  <1>8. turn[0] = z /\ \A n \in 1 .. N : turn[n] = Expanded(turn[n - 1], in[n], w)
    <2> HIDE DEF turn
    <2>1. turn = [n \in 0 .. N |-> IF n = 0 THEN z ELSE Expanded(turn[n - 1], in[n], w)]
      BY <1>6
    <2> QED BY <2>1
  <1> HIDE DEF turn
  <1> DEFINE T == {n \in 0 .. N : turn[n] \in S /\ \E q : Cut(in, w, n, q, turn[n])}
  <1>9. 0 \in T
    <2>1. z.bits = 0 /\ z.out = <<>>
      BY DEF z
    <2>2. Cut(in, w, 0, 0, z)
      <3>1. <<>> = [i \in 1 .. 0 |-> Slice(in, w, i)] /\ 0 \in 0 .. w - 1 /\ 0 * w + 0 = 0 * ByteBits
        BY Sizes
      <3> QED BY <2>1, <3>1 DEF Cut, Pending
    <2>3. 0 \in 0 .. N
      OBVIOUS
    <2> QED BY <1>2, <1>8, <2>2, <2>3
  <1>10. ASSUME NEW n \in 1 .. N, n - 1 \in T PROVE n \in T
    <2>1. PICK q : Cut(in, w, n - 1, q, turn[n - 1])
      BY <1>10
    <2>2. PICK m \in Nat : m = n - 1 /\ n = m + 1
      OBVIOUS
    <2>3. PICK t : t = turn[m]
      OBVIOUS
    <2>4. \E p : Cut(in, w, m + 1, p, Expanded(t, in[m + 1], w))
      BY <2>1, <2>2, <2>3, CutNext
    <2>5. turn[n] \in S
      BY <1>3, <1>8, <1>10
    <2> QED BY <1>8, <2>2, <2>3, <2>4, <2>5
  <1>11. N \in T
    <2>1. 0 .. N \subseteq T
      <3> HIDE DEF T
      <3> QED BY <1>9, <1>10, UpTo
    <2>2. N \in 0 .. N
      OBVIOUS
    <2> QED BY <2>1, <2>2
  <1>12. PICK q : Cut(in, w, N, q, turn[N])
    BY <1>11
  <1>13. \A i \in 1 .. q : Slice(in, w, i) \in [1 .. w -> Bit]
    <2>1. turn[N] \in Turns(w)
      BY <1>11 DEF S
    <2>2. turn[N].out \in Seq([1 .. w -> Bit]) /\ turn[N].out = [i \in 1 .. q |-> Slice(in, w, i)] /\ q \in Nat
      BY <1>12, <2>1 DEF Turns, Cut
    <2> QED BY <2>2
  <1>14. q * w <= N * ByteBits /\ N * ByteBits < (q + 1) * w
    <2>1. q \in Nat /\ turn[N].bits \in 0 .. w - 1 /\ q * w + turn[N].bits = N * ByteBits
      BY <1>12 DEF Cut
    <2>2. (q + 1) * w = q * w + w /\ q * w \in Nat
      BY <2>1
    <2> QED BY <2>1, <2>2
  <1> QED BY <1>1, <1>7, <1>12, <1>14, <1>13 DEF Cut
-----------------------------------------------------------------------------
(* The first rows.                                                           *)

LEMMA LessByFactor ==
    ASSUME NEW m \in Nat, NEW n \in Nat, NEW w \in Nat, m * w < n * w
    PROVE  m < n
  <1> SUFFICES ASSUME n <= m PROVE FALSE
    OBVIOUS
  <1>1. PICK d \in Nat : m = n + d
    <2>1. m - n \in Nat /\ m = n + (m - n)
      OBVIOUS
    <2> QED BY <2>1
  <1>2. m * w = n * w + d * w /\ d * w \in Nat /\ n * w \in Nat
    BY <1>1
  <1> QED BY <1>2

\* The indices of a solution are its leaves.
LEMMA IndicesOfSolution ==
    ASSUME NEW s \in MinimalSolutions
    PROVE  /\ ExpandArray(s, CollisionBitLength + 1) =
                [n \in 1 .. Indices |-> Slice(s, CollisionBitLength + 1, n)]
           /\ \A n \in 1 .. Indices : /\ Slice(s, CollisionBitLength + 1, n) \in [1 .. CollisionBitLength + 1 -> Bit]
                                      /\ Leaf(s, n) \in Nat
  <1> DEFINE w == CollisionBitLength + 1
  <1>1. SolutionWidth * ByteBits = Indices * w /\ Indices \in Nat /\ SolutionWidth \in Nat
    <2>1. Indices \in Nat
      BY IndicesType
    <2>2. Indices * w \in Nat
      BY <2>1, Sizes
    <2>3. SolutionWidth \in Nat
      <3> PICK x \in Nat : x = Indices * w
        BY <2>2
      <3> QED BY Sizes DEF SolutionWidth
    <2> QED BY <2>1, <2>3, EquihashAssumption
  <1>2. s \in Seq(Byte) /\ Len(s) = SolutionWidth
    BY <1>1 DEF MinimalSolutions
  <1>3. w \in Nat /\ w >= ByteBits /\ w - 1 + ByteBits <= WordBits
    BY Sizes
  <1>4. PICK q \in Nat : /\ q * w <= Len(s) * ByteBits /\ Len(s) * ByteBits < (q + 1) * w
                         /\ ExpandArray(s, w) = [i \in 1 .. q |-> Slice(s, w, i)]
                         /\ \A i \in 1 .. q : Slice(s, w, i) \in [1 .. w -> Bit]
    <2> HIDE DEF w
    <2> QED BY <1>2, <1>3, ExpandArrayCuts
  <1>5. q = Indices
    <2>1. Indices < q + 1
      <3> HIDE DEF w
      <3> QED BY <1>1, <1>2, <1>3, <1>4, LessByFactor
    <2>2. q < Indices + 1
      <3>1. q * w < (Indices + 1) * w
        <4>1. (Indices + 1) * w = Indices * w + w /\ w > 0 /\ q * w \in Nat /\ Indices * w \in Nat
          BY <1>1, <1>3, Sizes
        <4>2. q * w <= Indices * w
          BY <1>1, <1>2, <1>4
        <4>3. PICK x, y, z : x = q * w /\ y = Indices * w /\ z = (Indices + 1) * w
          OBVIOUS
        <4>4. x \in Nat /\ y \in Nat /\ z = y + w /\ w > 0 /\ x <= y /\ w \in Nat
          BY <1>3, <4>1, <4>2, <4>3
        <4>5. x < z
          BY <4>4
        <4> QED BY <4>3, <4>5
      <3> HIDE DEF w
      <3> QED BY <1>1, <1>3, <3>1, LessByFactor
    <2> QED BY <1>1, <2>1, <2>2
  <1>6. ASSUME NEW n \in 1 .. Indices PROVE Leaf(s, n) \in Nat
    <2>1. PICK bits, m : bits = Slice(s, w, n) /\ m = w /\ m \in Nat
      BY <1>3
    <2>2. bits \in [1 .. m -> Bit]
      <3>1. Slice(s, w, n) \in [1 .. w -> Bit]
        <4>1. n \in 1 .. q
          BY <1>5
        <4> HIDE DEF w
        <4> QED BY <1>4, <4>1
      <3> QED BY <2>1, <3>1
    <2>3. bits \in Seq(Bit)
      BY <2>1, <2>2
    <2> QED BY <2>1, <2>3, ValueIsNat DEF Leaf
  <1> QED BY <1>4, <1>5, <1>6

\* The pieces of the hash of a leaf are slices of bits.
LEMMA HashOfLeaf ==
    ASSUME NEW b \in GenerateHash, NEW s \in MinimalSolutions, NEW n \in 1 .. Indices
    PROVE  /\ SubSeq(ExpandArray(HashOf(b, Leaf(s, n)), CollisionBitLength), 1, K + 1) =
                [j \in 1 .. K + 1 |-> HashSlice(b, s, n, j)]
           /\ \A j \in 1 .. K + 1 : HashSlice(b, s, n, j) \in [1 .. CollisionBitLength -> Bit]
  <1> DEFINE w == CollisionBitLength
             hash == HashOf(b, Leaf(s, n))
  <1>1. PICK i \in Nat : i = Leaf(s, n)
    BY IndicesOfSolution
  <1>2. b[i \div IndicesPerHashOutput] \in [1 .. IndicesPerHashOutput * HashLen -> Byte]
    <2>1. Slice(s, CollisionBitLength + 1, n) \in [1 .. CollisionBitLength + 1 -> Bit]
      BY IndicesOfSolution
    <2> QED BY <1>1, <2>1, EquihashAssumption DEF Leaf
  <1>3. hash \in Seq(Byte) /\ Len(hash) = HashLen
    <2>1. PICK out : out = b[i \div IndicesPerHashOutput]
      OBVIOUS
    <2>2. PICK at : at = (i % IndicesPerHashOutput) * HashLen
      OBVIOUS
    <2>3. at \in Nat /\ at + HashLen <= IndicesPerHashOutput * HashLen /\ IndicesPerHashOutput * HashLen \in Nat
      <3>1. PICK r : r = i % IndicesPerHashOutput
        OBVIOUS
      <3>2. r \in 0 .. IndicesPerHashOutput - 1
        BY <3>1, Sizes
      <3>3. PICK d \in Nat : IndicesPerHashOutput = r + 1 + d
        <4>1. PICK d : d = IndicesPerHashOutput - (r + 1)
          OBVIOUS
        <4>2. d \in Nat /\ IndicesPerHashOutput = r + 1 + d
          BY <3>2, <4>1, Sizes
        <4> QED BY <4>2
      <3>4. IndicesPerHashOutput * HashLen = r * HashLen + HashLen + d * HashLen
            /\ d * HashLen \in Nat /\ r * HashLen \in Nat
        BY <3>2, <3>3, Sizes
      <3> QED BY <2>2, <3>1, <3>4, Sizes
    <2>4. out \in Seq(Byte) /\ Len(out) = IndicesPerHashOutput * HashLen
      <3>1. PICK m \in Nat : m = IndicesPerHashOutput * HashLen
        BY <2>3
      <3>2. out \in [1 .. m -> Byte]
        BY <1>2, <2>1, <3>1
      <3>3. out \in Seq(Byte) /\ Len(out) = m
        BY <3>2
      <3> QED BY <3>1, <3>3
    <2>5. hash = SubSeq(out, at + 1, at + HashLen)
      BY <1>1, <2>1, <2>2 DEF HashOf
    <2> QED BY <2>3, <2>4, <2>5, Sizes
  <1>4. PICK q \in Nat : /\ Len(hash) * ByteBits < (q + 1) * w
                         /\ ExpandArray(hash, w) = [j \in 1 .. q |-> Slice(hash, w, j)]
                         /\ \A j \in 1 .. q : Slice(hash, w, j) \in [1 .. w -> Bit]
    <2>1. w \in Nat /\ w >= ByteBits /\ w - 1 + ByteBits <= WordBits
      BY Sizes
    <2> HIDE DEF w, hash
    <2> QED BY <1>3, <2>1, ExpandArrayCuts
  <1>5. K + 1 <= q
    <2>1. HashLen * ByteBits >= (K + 1) * w
      BY EquihashAssumption
    <2>2. (K + 1) * w < (q + 1) * w
      <3>1. (K + 1) * w \in Nat /\ (q + 1) * w \in Nat /\ HashLen * ByteBits \in Nat
        BY Sizes
      <3> HIDE DEF w, hash
      <3> QED BY <1>3, <1>4, <2>1, <3>1
    <2>3. K + 1 < q + 1
      <3>1. K + 1 \in Nat /\ q + 1 \in Nat /\ w \in Nat
        BY Sizes
      <3> HIDE DEF w
      <3> QED BY <2>2, <3>1, LessByFactor
    <2> QED BY <2>3, Sizes
  <1>6. \A j \in 1 .. q : Slice(hash, w, j) = HashSlice(b, s, n, j)
    BY DEF HashSlice
  <1>7. SubSeq(ExpandArray(hash, w), 1, K + 1) = [j \in 1 .. K + 1 |-> Slice(hash, w, j)]
    <2> HIDE DEF w, hash
    <2> QED BY <1>4, <1>5, Sizes
  <1> QED BY <1>4, <1>5, <1>6, <1>7, Sizes DEF HashSlice
-----------------------------------------------------------------------------
(* The rows of a round, and what the rounds before it have checked.          *)

\* The exclusive or of the slices of these leaves.
XorOf(b, s, leaves, level) ==
    [bit \in 1 .. CollisionBitLength |->
        Cardinality({n \in leaves : HashSlice(b, s, n, level)[bit] = 1}) % 2]

Row(b, s, l, p) ==
    [hash |-> [j \in 1 .. K + 1 - l |-> XorOf(b, s, Tree(l, p - 1), l + j)],
     indices |-> [n \in 1 .. Pow2[l] |-> Leaf(s, Pow2[l] * (p - 1) + n)]]

DistinctLeaves(s, leaves) == \A m, n \in leaves : Leaf(s, m) = Leaf(s, n) => m = n

\* The checks of pair t of the round that makes trees of 2^l leaves.
PairIsGood(b, s, l, t) ==
    DistinctLeaves(s, Tree(l, t)) /\ Ordered(s, l, t) /\ Collides(b, s, Tree(l, t), l)

\* The parity of a disjoint union.
LEMMA Parity ==
    ASSUME NEW m \in Nat, NEW n \in Nat
    PROVE  /\ m % 2 \in {0, 1}
           /\ (IF m % 2 = n % 2 THEN 0 ELSE 1) = (m + n) % 2
           /\ m % 2 = n % 2 <=> (m + n) % 2 = 0
  OBVIOUS

\* The exclusive or of two sets of leaves, and of all of them.
LEMMA XorOfUnion ==
    ASSUME NEW b, NEW s, NEW level, NEW U, NEW V, IsFiniteSet(U), IsFiniteSet(V), U \cap V = {}
    PROVE  /\ Xor(XorOf(b, s, U, level), XorOf(b, s, V, level)) = XorOf(b, s, U \cup V, level)
           /\ XorOf(b, s, U, level) = XorOf(b, s, V, level) <=> Collides(b, s, U \cup V, level)
  <1> DEFINE Ones(T, bit) == {n \in T : HashSlice(b, s, n, level)[bit] = 1}
  <1>1. ASSUME NEW bit \in 1 .. CollisionBitLength
        PROVE  /\ Cardinality(Ones(U, bit)) \in Nat /\ Cardinality(Ones(V, bit)) \in Nat
               /\ Cardinality(Ones(U \cup V, bit)) = Cardinality(Ones(U, bit)) + Cardinality(Ones(V, bit))
    <2>1. PICK A, B : A = Ones(U, bit) /\ B = Ones(V, bit)
      OBVIOUS
    <2>2. IsFiniteSet(A) /\ IsFiniteSet(B)
      BY <2>1, FS_Subset
    <2>3. A \cap B = {} /\ Ones(U \cup V, bit) = A \cup B
      BY <2>1
    <2>4. Cardinality(A \cup B) = Cardinality(A) + Cardinality(B) - Cardinality(A \cap B)
      BY <2>2, FS_Union
    <2>5. Cardinality(A \cap B) = 0
      BY <2>3, FS_EmptySet
    <2>6. Cardinality(A) \in Nat /\ Cardinality(B) \in Nat
      BY <2>2, FS_CardinalityType
    <2>7. PICK x, y, z : x = Cardinality(A) /\ y = Cardinality(B) /\ z = Cardinality(A \cup B)
      OBVIOUS
    <2>8. x \in Nat /\ y \in Nat /\ z = x + y
      BY <2>4, <2>5, <2>6, <2>7
    <2>9. x = Cardinality(Ones(U, bit)) /\ y = Cardinality(Ones(V, bit)) /\ z = Cardinality(Ones(U \cup V, bit))
      BY <2>1, <2>3, <2>7
    <2> HIDE DEF Ones
    <2> QED BY <2>8, <2>9
  <1>2. \A T : \A bit \in 1 .. CollisionBitLength :
           XorOf(b, s, T, level)[bit] = Cardinality(Ones(T, bit)) % 2
    BY DEF XorOf
  <1>3. \A T : DOMAIN XorOf(b, s, T, level) = 1 .. CollisionBitLength
               /\ XorOf(b, s, T, level) = [bit \in 1 .. CollisionBitLength |-> XorOf(b, s, T, level)[bit]]
    BY DEF XorOf
  <1>4. Collides(b, s, U \cup V, level) <=>
           \A bit \in 1 .. CollisionBitLength : Cardinality(Ones(U \cup V, bit)) % 2 = 0
    BY DEF Collides
  <1> HIDE DEF Ones
  <1>5. ASSUME NEW bit \in 1 .. CollisionBitLength
        PROVE  /\ (IF XorOf(b, s, U, level)[bit] = XorOf(b, s, V, level)[bit] THEN 0 ELSE 1) =
                    XorOf(b, s, U \cup V, level)[bit]
               /\ XorOf(b, s, U, level)[bit] = XorOf(b, s, V, level)[bit]
                    <=> Cardinality(Ones(U \cup V, bit)) % 2 = 0
    <2>1. PICK m, n : m = Cardinality(Ones(U, bit)) /\ n = Cardinality(Ones(V, bit))
      OBVIOUS
    <2>2. m \in Nat /\ n \in Nat /\ Cardinality(Ones(U \cup V, bit)) = m + n
      BY <1>1, <2>1
    <2>3. (IF m % 2 = n % 2 THEN 0 ELSE 1) = (m + n) % 2 /\ (m % 2 = n % 2 <=> (m + n) % 2 = 0)
      BY <2>2, Parity
    <2> QED BY <1>2, <2>1, <2>2, <2>3
  <1>6. Xor(XorOf(b, s, U, level), XorOf(b, s, V, level)) =
           [bit \in 1 .. CollisionBitLength |-> XorOf(b, s, U \cup V, level)[bit]]
    BY <1>3, <1>5 DEF Xor
  <1>7. XorOf(b, s, U, level) = XorOf(b, s, V, level)
           <=> \A bit \in 1 .. CollisionBitLength : XorOf(b, s, U, level)[bit] = XorOf(b, s, V, level)[bit]
    BY <1>3
  <1> QED BY <1>3, <1>4, <1>5, <1>6, <1>7

\* All trees of a level together have the leaves of one tree.
LEMMA LeavesOfLevel == \A l \in 0 .. K : Pow2[l] * Pow2[K - l] = Indices
  <1> DEFINE T == {l \in 0 .. K : Pow2[l] * Pow2[K - l] = Indices}
  <1>1. 0 \in T
    BY Pow2Equation, Sizes DEF Indices
  <1>2. ASSUME NEW l \in 1 .. K, l - 1 \in T PROVE l \in T
    <2>1. Pow2[l] = 2 * Pow2[l - 1]
      BY Pow2Equation, Sizes
    <2>2. Pow2[K - (l - 1)] = 2 * Pow2[K - l]
      <3>1. K - (l - 1) \in 1 .. K + DigestBits /\ (K - (l - 1)) - 1 = K - l
        BY Sizes
      <3> QED BY <3>1, Pow2Equation
    <2>3. PICK x, y : x = Pow2[l - 1] /\ y = Pow2[K - l] /\ x \in Nat /\ y \in Nat
      <3>1. l \in 0 .. K /\ l - 1 \in 0 .. K
        BY Sizes
      <3> QED BY <3>1, Powers
    <2>4. x * (2 * y) = (2 * x) * y
      BY <2>3
    <2>5. Pow2[l - 1] * Pow2[K - (l - 1)] = Indices
      BY <1>2
    <2> QED BY <2>1, <2>2, <2>3, <2>4, <2>5
  <1> HIDE DEF T
  <1>3. 0 .. K \subseteq T
    BY <1>1, <1>2, Sizes, UpTo
  <1> QED BY <1>3 DEF T

\* The two halves of tree p - 1 of level l + 1: P leaves each, from A on.
Halved(l, p, A, P) ==
    /\ A \in Nat /\ P \in Nat \ {0}
    /\ P = Pow2[l] /\ Pow2[l + 1] = 2 * P
    /\ A = Pow2[l] * ((2 * p - 1) - 1) /\ A + P = Pow2[l] * (2 * p - 1)
    /\ A = Pow2[l + 1] * (p - 1)
    /\ Tree(l, (2 * p - 1) - 1) = A + 1 .. A + P
    /\ Tree(l, 2 * p - 1) = A + P + 1 .. A + 2 * P
    /\ Tree(l + 1, p - 1) = A + 1 .. A + 2 * P
    /\ A + 2 * P <= Indices

\* Every tree above the leaves has two halves.
LEMMA Halves ==
    ASSUME NEW l \in 0 .. K - 1, NEW p \in 1 .. Pow2[K - (l + 1)]
    PROVE  \E A, P : Halved(l, p, A, P)
  <1>1. p \in Nat /\ p >= 1 /\ l \in Nat /\ l + 1 \in 1 .. K + DigestBits /\ l \in 0 .. K + DigestBits
    <2>1. Pow2[K - (l + 1)] \in Nat
      BY Pow2Equation, Sizes
    <2> QED BY <2>1, Sizes
  <1>2. PICK P \in Nat \ {0} : P = Pow2[l] /\ Pow2[l + 1] = 2 * P
    <2>1. Pow2[l] \in Nat \ {0} /\ Pow2[l + 1] = 2 * Pow2[(l + 1) - 1]
      BY <1>1, Pow2Equation
    <2> QED BY <2>1, <1>1
  <1>3. PICK A \in Nat : A = P * ((2 * p - 1) - 1)
    BY <1>1, <1>2
  <1>4. /\ A + P = P * (2 * p - 1) /\ A = (2 * P) * (p - 1) /\ A + 2 * P = (2 * P) * p
        /\ P * (((2 * p - 1) - 1) + 1) = A + P /\ P * ((2 * p - 1) + 1) = A + 2 * P
        /\ (2 * P) * ((p - 1) + 1) = A + 2 * P
    BY <1>1, <1>2, <1>3
  <1>5. /\ Tree(l, (2 * p - 1) - 1) = A + 1 .. A + P
        /\ Tree(l, 2 * p - 1) = A + P + 1 .. A + 2 * P
        /\ Tree(l + 1, p - 1) = A + 1 .. A + 2 * P
    BY <1>2, <1>3, <1>4 DEF Tree
  <1>6. A + 2 * P <= Indices
    <2>1. PICK N \in Nat : N = Pow2[K - (l + 1)]
      BY Pow2Equation, Sizes
    <2>2. (2 * P) * N = Indices
      <3>1. l + 1 \in 0 .. K
        BY <1>1, Sizes
      <3> QED BY <1>2, <2>1, <3>1, LeavesOfLevel
    <2>3. PICK d \in Nat : N = p + d
      <3>1. p <= N
        BY <2>1
      <3>2. N - p \in Nat /\ N = p + (N - p)
        BY <1>1, <2>1, <3>1
      <3> QED BY <3>2
    <2>4. (2 * P) * N = (2 * P) * p + (2 * P) * d /\ (2 * P) * d \in Nat /\ (2 * P) * p \in Nat
      BY <1>1, <1>2, <2>3
    <2> QED BY <1>4, <2>2, <2>4
  <1> QED BY <1>2, <1>3, <1>4, <1>5, <1>6 DEF Halved

\* What the operators say of two rows given by their parts.
Operators(L, R, c, d, x, y) ==
    /\ HasCollision(L, R) <=> c[1] = d[1]
    /\ DistinctIndices(L, R) <=> ToSet(x) \cap ToSet(y) = {}
    /\ IndicesBefore(L, R) <=> \E n \in DOMAIN x : x[n] < y[n] /\ \A m \in 1 .. n - 1 : x[m] = y[m]
    /\ IndicesBefore(R, L) <=> \E n \in DOMAIN y : y[n] < x[n] /\ \A m \in 1 .. n - 1 : y[m] = x[m]
    /\ IndicesBefore(L, R) =>
          Merge(L, R) = [hash |-> [n \in 1 .. Len(c) - 1 |-> Xor(c[n + 1], d[n + 1])], indices |-> x \o y]

LEMMA RowOperators ==
    ASSUME NEW c, NEW x, NEW d, NEW y,
           NEW L, L.hash = c, L.indices = x, NEW R, R.hash = d, R.indices = y
    PROVE  Operators(L, R, c, d, x, y)
  <1>1. HasCollision(L, R) <=> c[1] = d[1]
    BY DEF HasCollision
  <1>2. DistinctIndices(L, R) <=> ToSet(x) \cap ToSet(y) = {}
    BY DEF DistinctIndices
  <1>3. IndicesBefore(L, R) <=>
                \E n \in DOMAIN x : x[n] < y[n] /\ \A m \in 1 .. n - 1 : x[m] = y[m]
    BY DEF IndicesBefore
  <1>4. IndicesBefore(R, L) <=>
                \E n \in DOMAIN y : y[n] < x[n] /\ \A m \in 1 .. n - 1 : y[m] = x[m]
    BY DEF IndicesBefore
  <1>5. IndicesBefore(L, R) =>
                Merge(L, R) = [hash |-> [n \in 1 .. Len(c) - 1 |-> Xor(c[n + 1], d[n + 1])],
                               indices |-> x \o y]
    BY DEF Merge
  <1> QED BY <1>1, <1>2, <1>3, <1>4, <1>5, Zenon DEF Operators

\* The leaves from A + 1 on make a tree of two halves of P leaves.
Good(b, s, A, P, l) ==
    /\ DistinctLeaves(s, A + 1 .. A + 2 * P)
    /\ Leaf(s, A + 1) < Leaf(s, A + P + 1)
    /\ Collides(b, s, A + 1 .. A + 2 * P, l + 1)

Merged(b, s, A, P, M, l) ==
    [hash |-> [j \in 1 .. M |-> XorOf(b, s, A + 1 .. A + 2 * P, (l + 1) + j)],
     indices |-> [n \in 1 .. 2 * P |-> Leaf(s, A + n)]]

LeftHalf(b, s, A, P, M, l) ==
    [hash |-> [j \in 1 .. M + 1 |-> XorOf(b, s, A + 1 .. A + P, l + j)],
     indices |-> [n \in 1 .. P |-> Leaf(s, A + n)]]

RightHalf(b, s, A, P, M, l) ==
    [hash |-> [j \in 1 .. M + 1 |-> XorOf(b, s, A + P + 1 .. A + 2 * P, l + j)],
     indices |-> [n \in 1 .. P |-> Leaf(s, A + P + n)]]

LEMMA SequenceOfNumbers ==
    ASSUME NEW P \in Nat, NEW x, x = [n \in 1 .. P |-> x[n]], \A n \in 1 .. P : x[n] \in Nat
    PROVE  x \in Seq(Nat) /\ Len(x) = P
  <1>1. x \in [1 .. P -> Nat]
    OBVIOUS
  <1> QED BY <1>1

\* Two rows are merged if their leaves are distinct, ordered and collide.
LEMMA PairOfRows ==
    ASSUME NEW b, NEW s \in MinimalSolutions, NEW A \in Nat, NEW P \in Nat \ {0}, A + 2 * P <= Indices,
           NEW M \in Nat \ {0}, NEW l \in Nat,
           DistinctLeaves(s, A + 1 .. A + P), DistinctLeaves(s, A + P + 1 .. A + 2 * P),
           NEW L, L = LeftHalf(b, s, A, P, M, l), NEW R, R = RightHalf(b, s, A, P, M, l)
    PROVE  /\ HasCollision(L, R) /\ ~IndicesBefore(R, L) /\ DistinctIndices(L, R) <=> Good(b, s, A, P, l)
           /\ Good(b, s, A, P, l) => Merge(L, R) = Merged(b, s, A, P, M, l)
  <1>1. PICK c, d, x, y :
           /\ c = [j \in 1 .. M + 1 |-> XorOf(b, s, A + 1 .. A + P, l + j)]
           /\ d = [j \in 1 .. M + 1 |-> XorOf(b, s, A + P + 1 .. A + 2 * P, l + j)]
           /\ x = [n \in 1 .. P |-> Leaf(s, A + n)]
           /\ y = [n \in 1 .. P |-> Leaf(s, A + P + n)]
    OBVIOUS
  <1>2. PICK U, V, W : U = A + 1 .. A + P /\ V = A + P + 1 .. A + 2 * P /\ W = A + 1 .. A + 2 * P
    OBVIOUS
  <1>3. IsFiniteSet(U) /\ IsFiniteSet(V) /\ U \cap V = {} /\ W = U \cup V
    <2>1. IsFiniteSet(U) /\ IsFiniteSet(V)
      BY <1>2, FS_Interval
    <2>2. U \cap V = {} /\ W = U \cup V
      BY <1>2
    <2> QED BY <2>1, <2>2
  <1>4. L.hash = c /\ L.indices = x /\ R.hash = d /\ R.indices = y
    BY <1>1 DEF LeftHalf, RightHalf
  <1>5. Operators(L, R, c, d, x, y)
    BY <1>4, RowOperators
  <1>6. \A n \in 1 .. P : /\ x[n] = Leaf(s, A + n) /\ x[n] \in Nat
                          /\ y[n] = Leaf(s, A + P + n) /\ y[n] \in Nat
    <2>1. \A n \in 1 .. P : A + n \in 1 .. Indices /\ A + P + n \in 1 .. Indices
      BY IndicesType
    <2> QED BY <1>1, <2>1, IndicesOfSolution
  <1>7. 1 \in 1 .. P /\ DOMAIN x = 1 .. P /\ DOMAIN y = 1 .. P
    BY <1>1
  <1>8. HasCollision(L, R) <=> Collides(b, s, W, l + 1)
    <2>1. c[1] = XorOf(b, s, U, l + 1) /\ d[1] = XorOf(b, s, V, l + 1)
      BY <1>1, <1>2
    <2>2. PICK v : v = l + 1
      OBVIOUS
    <2>3. XorOf(b, s, U, v) = XorOf(b, s, V, v) <=> Collides(b, s, U \cup V, v)
      BY <1>3, XorOfUnion
    <2>4. HasCollision(L, R) <=> c[1] = d[1]
      BY <1>4, Zenon DEF HasCollision
    <2> QED BY <1>3, <2>1, <2>2, <2>3, <2>4, Zenon
  <1>9. DistinctIndices(L, R) <=> DistinctLeaves(s, W)
    <2>1. DistinctIndices(L, R) <=> \A m, n \in 1 .. P : x[m] # y[n]
      <3>1. ToSet(x) \cap ToSet(y) = {} <=> \A m, n \in 1 .. P : x[m] # y[n]
        <4>1. PICK D : D = 1 .. P /\ DOMAIN x = D /\ DOMAIN y = D
          BY <1>7
        <4>2. ToSet(x) \cap ToSet(y) = {} <=> \A m, n \in D : x[m] # y[n]
          BY <4>1 DEF ToSet
        <4> QED BY <4>1, <4>2, Zenon
      <3> QED BY <1>5, <3>1, Zenon DEF Operators
    <2>2. ASSUME \A m, n \in 1 .. P : x[m] # y[n] PROVE DistinctLeaves(s, W)
      <3>1. ASSUME NEW m \in U, NEW n \in V PROVE Leaf(s, m) # Leaf(s, n)
        <4>1. m - A \in 1 .. P /\ n - (A + P) \in 1 .. P /\ A + (m - A) = m /\ A + P + (n - (A + P)) = n
          BY <1>2
        <4> QED BY <1>6, <2>2, <4>1
      <3>2. DistinctLeaves(s, U) /\ DistinctLeaves(s, V)
        BY <1>2
      <3> QED BY <1>3, <3>1, <3>2 DEF DistinctLeaves
    <2>3. ASSUME DistinctLeaves(s, W), NEW m \in 1 .. P, NEW n \in 1 .. P PROVE x[m] # y[n]
      <3>1. A + m \in W /\ A + P + n \in W /\ A + m # A + P + n
        BY <1>2
      <3> QED BY <1>6, <2>3, <3>1 DEF DistinctLeaves
    <2> QED BY <2>1, <2>2, <2>3
  <1>10. x[1] = Leaf(s, A + 1) /\ y[1] = Leaf(s, A + P + 1) /\ x[1] \in Nat /\ y[1] \in Nat
    BY <1>6, <1>7
  <1>11. DistinctIndices(L, R) => x[1] # y[1]
    BY <1>4, <1>7 DEF DistinctIndices, ToSet
  <1>12. ASSUME x[1] < y[1] PROVE IndicesBefore(L, R) /\ ~IndicesBefore(R, L)
    <2>1. IndicesBefore(L, R)
      BY <1>4, <1>7, <1>12 DEF IndicesBefore
    <2>2. ASSUME NEW n \in 1 .. P, y[n] < x[n], \A m \in 1 .. n - 1 : y[m] = x[m] PROVE FALSE
      <3>1. CASE n = 1
        BY <1>10, <1>12, <2>2, <3>1
      <3>2. CASE n # 1
        <4>1. 1 \in 1 .. n - 1
          BY <3>2
        <4>2. y[1] = x[1]
          BY <2>2, <4>1
        <4> QED BY <1>10, <1>12, <4>2
      <3> QED BY <3>1, <3>2
    <2>3. IndicesBefore(R, L) <=>
             \E n \in 1 .. P : y[n] < x[n] /\ \A m \in 1 .. n - 1 : y[m] = x[m]
      BY <1>7, <1>5, Zenon DEF Operators
    <2> QED BY <2>1, <2>2, <2>3, Zenon
  <1>13. y[1] < x[1] => IndicesBefore(R, L)
    BY <1>4, <1>7 DEF IndicesBefore
  <1>14. ASSUME IndicesBefore(L, R)
         PROVE  Merge(L, R) = [hash |-> [j \in 1 .. M |-> XorOf(b, s, W, (l + 1) + j)],
                               indices |-> [n \in 1 .. 2 * P |-> Leaf(s, A + n)]]
    <2>1. x \o y = [n \in 1 .. 2 * P |-> Leaf(s, A + n)]
      <3>1. x \in Seq(Nat) /\ y \in Seq(Nat) /\ Len(x) = P /\ Len(y) = P
        <4>1. x = [n \in 1 .. P |-> x[n]] /\ y = [n \in 1 .. P |-> y[n]]
          BY <1>1
        <4>2. \A n \in 1 .. P : x[n] \in Nat /\ y[n] \in Nat
          BY <1>6
        <4>3. P \in Nat
          BY <1>1
        <4>4. x \in Seq(Nat) /\ Len(x) = P
          BY <4>1, <4>2, <4>3, SequenceOfNumbers, Zenon
        <4>5. y \in Seq(Nat) /\ Len(y) = P
          BY <4>1, <4>2, <4>3, SequenceOfNumbers, Zenon
        <4> QED BY <4>4, <4>5
      <3>2. DOMAIN (x \o y) = 1 .. 2 * P
        BY <1>1, <3>1
      <3>3. ASSUME NEW n \in 1 .. 2 * P PROVE (x \o y)[n] = Leaf(s, A + n)
        <4>1. CASE n <= P
          <5>1. (x \o y)[n] = x[n] /\ n \in 1 .. P
            BY <3>1, <4>1
          <5> QED BY <1>6, <5>1
        <4>2. CASE n > P
          <5>1. (x \o y)[n] = y[n - P] /\ n - P \in 1 .. P /\ A + P + (n - P) = A + n
            BY <1>1, <3>1, <4>2
          <5> QED BY <1>6, <5>1
        <4>3. n <= P \/ n > P
          OBVIOUS
        <4> QED BY <4>1, <4>2, <4>3, Zenon
      <3>4. PICK z : z = x \o y
        OBVIOUS
      <3>5. x \o y = [n \in 1 .. 2 * P |-> (x \o y)[n]]
        <4>1. x \o y \in Seq(Nat)
          BY <3>1
        <4> QED BY <1>1, <3>2, <3>4, <4>1
      <3> QED BY <3>3, <3>5
    <2>2. [n \in 1 .. Len(c) - 1 |-> Xor(c[n + 1], d[n + 1])] =
             [j \in 1 .. M |-> XorOf(b, s, W, (l + 1) + j)]
      <3>1. Len(c) = M + 1
        BY <1>1
      <3>2. ASSUME NEW j \in 1 .. M PROVE Xor(c[j + 1], d[j + 1]) = XorOf(b, s, W, (l + 1) + j)
        <4>1. j + 1 \in 1 .. M + 1 /\ l + (j + 1) = (l + 1) + j
          OBVIOUS
        <4>2. c[j + 1] = XorOf(b, s, U, (l + 1) + j) /\ d[j + 1] = XorOf(b, s, V, (l + 1) + j)
          BY <1>1, <1>2, <4>1
        <4>3. PICK v : v = (l + 1) + j
          OBVIOUS
        <4>4. /\ Xor(XorOf(b, s, U, v), XorOf(b, s, V, v)) = XorOf(b, s, U \cup V, v)
              /\ XorOf(b, s, U, v) = XorOf(b, s, V, v) <=> Collides(b, s, U \cup V, v)
          BY <1>3, XorOfUnion
        <4> QED BY <1>3, <4>2, <4>3, <4>4, Zenon
      <3>3. Len(c) - 1 = M
        BY <3>1
      <3> QED BY <3>2, <3>3
    <2>3. Merge(L, R) = [hash |-> [n \in 1 .. Len(c) - 1 |-> Xor(c[n + 1], d[n + 1])], indices |-> x \o y]
      BY <1>14, <1>5, Zenon DEF Operators
    <2> QED BY <2>1, <2>2, <2>3, Zenon
  <1>15. Good(b, s, A, P, l) <=> DistinctLeaves(s, W) /\ x[1] < y[1] /\ Collides(b, s, W, l + 1)
    BY <1>2, <1>10, Zenon DEF Good
  <1>16. IndicesBefore(L, R) => Merge(L, R) = Merged(b, s, A, P, M, l)
    BY <1>2, <1>14, Zenon DEF Merged
  <1>17. x[1] < y[1] \/ y[1] < x[1] \/ x[1] = y[1]
    BY <1>10
  <1> QED BY <1>8, <1>9, <1>11, <1>12, <1>13, <1>15, <1>16, <1>17, Zenon

\* A round makes the rows of level l + 1 out of those of level l, or refuses them.
LEMMA RoundOfRows ==
    ASSUME NEW b \in GenerateHash, NEW s \in MinimalSolutions,
           NEW l \in 0 .. K - 1, NEW p \in 1 .. Pow2[K - (l + 1)],
           DistinctLeaves(s, Tree(l, (2 * p - 1) - 1)), DistinctLeaves(s, Tree(l, 2 * p - 1)),
           NEW L, L = Row(b, s, l, 2 * p - 1), NEW R, R = Row(b, s, l, 2 * p)
    PROVE  /\ HasCollision(L, R) /\ ~IndicesBefore(R, L) /\ DistinctIndices(L, R)
                <=> PairIsGood(b, s, l + 1, p - 1)
           /\ PairIsGood(b, s, l + 1, p - 1) => Merge(L, R) = Row(b, s, l + 1, p)
  <1>1. PICK A, P : Halved(l, p, A, P)
    BY Halves
  <1>2. PICK M : M \in Nat \ {0} /\ M = K - l /\ K + 1 - l = M + 1 /\ K + 1 - (l + 1) = M
    BY Sizes
  <1>3. A \in Nat /\ P \in Nat \ {0} /\ A + 2 * P <= Indices /\ l \in Nat
    BY <1>1 DEF Halved
  <1>4. L = LeftHalf(b, s, A, P, M, l)
    BY <1>1, <1>2, Zenon DEF Row, Halved, LeftHalf
  <1>5. R = RightHalf(b, s, A, P, M, l)
    <2>1. 2 * p - 1 = (2 * p) - 1
      OBVIOUS
    <2> QED BY <1>1, <1>2, <2>1, Zenon DEF Row, Halved, RightHalf
  <1>6. DistinctLeaves(s, A + 1 .. A + P) /\ DistinctLeaves(s, A + P + 1 .. A + 2 * P)
    BY <1>1, Zenon DEF Halved
  <1>7. /\ HasCollision(L, R) /\ ~IndicesBefore(R, L) /\ DistinctIndices(L, R) <=> Good(b, s, A, P, l)
        /\ Good(b, s, A, P, l) => Merge(L, R) = Merged(b, s, A, P, M, l)
    BY <1>2, <1>3, <1>4, <1>5, <1>6, PairOfRows, SMTT(40)
  <1>8. PairIsGood(b, s, l + 1, p - 1) <=> Good(b, s, A, P, l)
    <2>1. (l + 1) - 1 = l
      OBVIOUS
    <2> QED BY <1>1, <2>1, Zenon DEF PairIsGood, Ordered, Good, Halved
  <1>9. Row(b, s, l + 1, p) = Merged(b, s, A, P, M, l)
    BY <1>1, <1>2, Zenon DEF Row, Halved, Merged
  <1> QED BY <1>7, <1>8, <1>9, Zenon
-----------------------------------------------------------------------------
(* The invariant: after l rounds, the rows are the trees of 2^l leaves, and  *)
(* all pairs that were merged were good.                                     *)

PairsAreGood(b, s, l) == \A level \in 1 .. l : \A t \in Trees(level) : PairIsGood(b, s, level, t)

RowsOf(b, s, l) == [p \in 1 .. Pow2[K - l] |-> Row(b, s, l, p)]

ShareTypeOK ==
    /\ phase \in {"new", "rows", "solved", "invalid", "low", "accepted"}
    /\ phase = "rows" => base \in GenerateHash /\ soln \in MinimalSolutions

RowsAreTrees == phase = "rows" => \E l \in 0 .. K : X = RowsOf(base, soln, l) /\ PairsAreGood(base, soln, l)

EquihashInv == ShareTypeOK /\ RowsAreTrees /\ VerdictIsRight

\* A tree of one leaf has no two equal ones, a larger one was checked.
LEMMA TreesAreDistinct ==
    ASSUME NEW b, NEW s, NEW l \in 0 .. K, PairsAreGood(b, s, l), NEW t \in Trees(l)
    PROVE  DistinctLeaves(s, Tree(l, t))
  <1>1. CASE l = 0
    <2>1. t \in Nat
      BY Pow2Equation, Sizes DEF Trees
    <2>2. Tree(0, t) = {t + 1}
      BY <2>1, Pow2Equation DEF Tree
    <2> QED BY <1>1, <2>2 DEF DistinctLeaves
  <1>2. CASE l # 0
    BY <1>2, Sizes DEF PairsAreGood, PairIsGood
  <1> QED BY <1>1, <1>2

\* Good pairs on all levels and a last collision are a proof of work.
LEMMA ProofIsGoodPairs ==
    ASSUME NEW b, NEW s
    PROVE  IsProof(b, s) <=> PairsAreGood(b, s, K) /\ Collides(b, s, Tree(K, 0), K + 1)
  <1>1. Tree(K, 0) = 1 .. Indices /\ 0 \in Trees(K) /\ K \in 1 .. K /\ K \in Nat
    <2>1. Pow2[K] \in Nat /\ Pow2[0] = 1
      BY IndicesType, Pow2Equation, Zenon DEF Indices
    <2> QED BY <2>1, Sizes DEF Tree, Trees, Indices
  <1>2. ASSUME IsProof(b, s), NEW level \in 1 .. K, NEW t \in Trees(level) PROVE PairIsGood(b, s, level, t)
    <2>1. Tree(level, t) \subseteq 1 .. Indices
      <3>1. PICK P, N : P = Pow2[level] /\ N = Pow2[K - level]
        OBVIOUS
      <3>2. P \in Nat /\ N \in Nat /\ P * N = Indices
        BY <3>1, Pow2Equation, Sizes, LeavesOfLevel
      <3>3. t \in Nat /\ t + 1 <= N
        BY <3>1, <3>2 DEF Trees
      <3>4. PICK e \in Nat : N = (t + 1) + e
        <4>1. N - (t + 1) \in Nat /\ N = (t + 1) + (N - (t + 1))
          BY <3>2, <3>3
        <4> QED BY <4>1
      <3>5. P * N = P * (t + 1) + P * e /\ P * e \in Nat /\ P * (t + 1) \in Nat /\ P * t \in Nat
        BY <3>2, <3>3, <3>4
      <3>6. P * (t + 1) <= Indices
        BY <3>2, <3>5
      <3>7. Tree(level, t) = P * t + 1 .. P * (t + 1)
        BY <3>1 DEF Tree
      <3>8. PICK x, y : x = P * t /\ y = P * (t + 1)
        OBVIOUS
      <3>9. x \in Nat /\ y \in Nat /\ y <= Indices /\ Tree(level, t) = x + 1 .. y
        BY <3>5, <3>6, <3>7, <3>8
      <3> QED BY <3>9, IndicesType
    <2>2. DistinctLeaves(s, Tree(level, t))
      BY <1>2, <2>1 DEF IsProof, DistinctLeaves
    <2> QED BY <1>2, <2>2 DEF IsProof, PairIsGood
  <1>3. IsProof(b, s) => PairsAreGood(b, s, K) /\ Collides(b, s, Tree(K, 0), K + 1)
    BY <1>2 DEF PairsAreGood, IsProof
  <1>4. ASSUME PairsAreGood(b, s, K), Collides(b, s, Tree(K, 0), K + 1) PROVE IsProof(b, s)
    <2>1. DistinctLeaves(s, 1 .. Indices)
      BY <1>1, <1>4 DEF PairsAreGood, PairIsGood
    <2> QED BY <1>4, <2>1 DEF PairsAreGood, PairIsGood, DistinctLeaves, IsProof
  <1> QED BY <1>3, <1>4

\* A round halves the rows.
LEMMA HalfOfRows ==
    ASSUME NEW l \in 0 .. K
    PROVE  /\ Pow2[K - l] \in Nat \ {0}
           /\ Pow2[K - l] = 1 <=> l = K
           /\ l # K => l \in 0 .. K - 1 /\ l + 1 \in 1 .. K /\ Pow2[K - l] = 2 * Pow2[K - (l + 1)]
                       /\ Pow2[K - (l + 1)] \in Nat \ {0}
  <1>1. K - l \in 0 .. K + DigestBits
    BY Sizes
  <1>2. Pow2[K - l] \in Nat \ {0}
    BY <1>1, Pow2Equation
  <1>3. CASE l = K
    BY <1>2, <1>3, Pow2Equation, Sizes
  <1>4. CASE l # K
    <2>1. K - l \in 1 .. K + DigestBits /\ (K - l) - 1 = K - (l + 1) /\ K - (l + 1) \in 0 .. K + DigestBits
      BY <1>4, Sizes
    <2>2. Pow2[K - l] = 2 * Pow2[K - (l + 1)] /\ Pow2[K - (l + 1)] \in Nat \ {0}
      BY <2>1, Pow2Equation
    <2>3. l \in 0 .. K - 1 /\ l + 1 \in 1 .. K
      BY <1>4, Sizes
    <2>4. Pow2[K - l] # 1
      BY <2>2
    <2> QED BY <1>2, <1>4, <2>2, <2>3, <2>4
  <1> QED BY <1>3, <1>4

\* A single leaf has the parity of its own bits.
LEMMA XorOfOne ==
    ASSUME NEW b \in GenerateHash, NEW s \in MinimalSolutions, NEW n \in 1 .. Indices, NEW j \in 1 .. K + 1
    PROVE  XorOf(b, s, {n}, j) = HashSlice(b, s, n, j)
  <1>1. HashSlice(b, s, n, j) \in [1 .. CollisionBitLength -> Bit]
    BY HashOfLeaf
  <1>2. PICK h : h = HashSlice(b, s, n, j)
    OBVIOUS
  <1>3. ASSUME NEW bit \in 1 .. CollisionBitLength
        PROVE  Cardinality({m \in {n} : HashSlice(b, s, m, j)[bit] = 1}) % 2 = h[bit]
    <2>1. h[bit] \in {0, 1}
      BY <1>1, <1>2 DEF Bit
    <2>2. CASE h[bit] = 1
      <3>1. {m \in {n} : HashSlice(b, s, m, j)[bit] = 1} = {n}
        BY <1>2, <2>2
      <3>2. Cardinality({n}) = 1
        BY FS_Singleton
      <3>3. 1 % 2 = 1
        OBVIOUS
      <3> QED BY <2>2, <3>1, <3>2, <3>3, Zenon
    <2>3. CASE h[bit] = 0
      <3>1. {m \in {n} : HashSlice(b, s, m, j)[bit] = 1} = {}
        BY <1>2, <2>3
      <3>2. Cardinality({}) = 0
        BY FS_EmptySet
      <3>3. 0 % 2 = 0
        OBVIOUS
      <3> QED BY <2>3, <3>1, <3>2, <3>3, Zenon
    <2> QED BY <2>1, <2>2, <2>3, Zenon
  <1>4. h = [bit \in 1 .. CollisionBitLength |-> h[bit]]
    BY <1>1, <1>2
  <1> QED BY <1>2, <1>3, <1>4 DEF XorOf

\* The rows at first are the trees of one leaf.
LEMMA FirstRows ==
    ASSUME NEW b \in GenerateHash, NEW s \in MinimalSolutions
    PROVE  /\ GetIndicesFromMinimal(s) = [n \in 1 .. Indices |-> Leaf(s, n)]
           /\ \A n \in 1 .. Indices : FullStepRow(b, Leaf(s, n)) = Row(b, s, 0, n)
  <1>1. GetIndicesFromMinimal(s) = [n \in 1 .. Indices |-> Leaf(s, n)]
    <2>1. PICK pieces : pieces = ExpandArray(s, CollisionBitLength + 1)
      OBVIOUS
    <2>2. pieces = [n \in 1 .. Indices |-> Slice(s, CollisionBitLength + 1, n)]
      BY <2>1, IndicesOfSolution
    <2>3. Len(pieces) = Indices
      BY <2>2, IndicesType
    <2>4. \A n \in 1 .. Indices : Value(pieces[n]) = Leaf(s, n)
      BY <2>2 DEF Leaf
    <2>5. GetIndicesFromMinimal(s) = [n \in 1 .. Len(pieces) |-> Value(pieces[n])]
      BY <2>1, Zenon DEF GetIndicesFromMinimal
    <2> QED BY <2>3, <2>4, <2>5
  <1>2. ASSUME NEW n \in 1 .. Indices PROVE FullStepRow(b, Leaf(s, n)) = Row(b, s, 0, n)
    <2>1. n \in Nat /\ Pow2[0] = 1
      BY IndicesType, Pow2Equation
    <2>2. Tree(0, n - 1) = {n}
      BY <2>1 DEF Tree
    <2>3. [j \in 1 .. K + 1 |-> HashSlice(b, s, n, j)] = [j \in 1 .. K + 1 - 0 |-> XorOf(b, s, Tree(0, n - 1), 0 + j)]
      <3>1. K + 1 - 0 = K + 1
        BY Sizes
      <3>2. \A j \in 1 .. K + 1 : 0 + j = j
        OBVIOUS
      <3>3. \A j \in 1 .. K + 1 : HashSlice(b, s, n, j) = XorOf(b, s, Tree(0, n - 1), 0 + j)
        BY <2>2, <3>2, XorOfOne
      <3> QED BY <3>1, <3>3
    <2>4. <<Leaf(s, n)>> = [m \in 1 .. Pow2[0] |-> Leaf(s, Pow2[0] * (n - 1) + m)]
      <3>1. \A m \in 1 .. 1 : 1 * (n - 1) + m = n
        BY <2>1
      <3>2. <<Leaf(s, n)>> = [m \in 1 .. 1 |-> Leaf(s, n)]
        OBVIOUS
      <3> QED BY <2>1, <3>1, <3>2
    <2>5. SubSeq(ExpandArray(HashOf(b, Leaf(s, n)), CollisionBitLength), 1, K + 1) =
             [j \in 1 .. K + 1 |-> HashSlice(b, s, n, j)]
      BY HashOfLeaf
    <2> QED BY <2>3, <2>4, <2>5, Zenon DEF FullStepRow, Row
  <1> QED BY <1>1, <1>2

LEMMA UnpackMakesTrees ==
    ASSUME NEW b \in GenerateHash, NEW s \in MinimalSolutions, Unpack(b, s)
    PROVE  X' = RowsOf(b, s, 0) /\ PairsAreGood(b, s, 0)
  <1>1. PICK indices : indices = GetIndicesFromMinimal(s)
    OBVIOUS
  <1>2. indices = [n \in 1 .. Indices |-> Leaf(s, n)] /\ Len(indices) = Indices
    BY <1>1, FirstRows, IndicesType
  <1>3. X' = [n \in 1 .. Len(indices) |-> FullStepRow(b, indices[n])]
    BY <1>1, Zenon DEF Unpack
  <1>4. \A n \in 1 .. Indices : FullStepRow(b, indices[n]) = Row(b, s, 0, n)
    BY <1>2, FirstRows
  <1>5. K - 0 = K
    BY Sizes
  <1>6. X' = RowsOf(b, s, 0)
    BY <1>2, <1>3, <1>4, <1>5 DEF RowsOf, Indices
  <1>7. 1 .. 0 = {}
    OBVIOUS
  <1> QED BY <1>6, <1>7 DEF PairsAreGood

\* One round, in a state of the invariant.
LEMMA RoundMakesTrees ==
    ASSUME NEW l \in 0 .. K, X = RowsOf(base, soln, l), PairsAreGood(base, soln, l),
           base \in GenerateHash, soln \in MinimalSolutions, Round
    PROVE  \/ /\ phase' = "rows" /\ l + 1 \in 0 .. K
              /\ X' = RowsOf(base, soln, l + 1) /\ PairsAreGood(base, soln, l + 1)
           \/ phase' = "invalid" /\ ~IsProof(base, soln)
  <1>1. PICK b, s : b = base /\ s = soln /\ b \in GenerateHash /\ s \in MinimalSolutions
    OBVIOUS
  <1>2. PICK N : N = Pow2[K - l] /\ N \in Nat \ {0} /\ (N = 1 <=> l = K)
    BY HalfOfRows
  <1>3. X = [p \in 1 .. N |-> Row(b, s, l, p)] /\ Len(X) = N
    <2>1. X = [p \in 1 .. N |-> Row(b, s, l, p)]
      BY <1>1, <1>2, Zenon DEF RowsOf
    <2> QED BY <1>2, <2>1
  <1>4. l # K
    BY <1>2, <1>3 DEF Round
  <1>5. PICK M : M = Pow2[K - (l + 1)] /\ M \in Nat \ {0} /\ N = 2 * M /\ l \in 0 .. K - 1 /\ l + 1 \in 1 .. K
    BY <1>2, <1>4, HalfOfRows
  <1>6. Pairs = 1 .. M
    <2>1. (2 * M + 0) \div 2 = M
      BY <1>5
    <2> QED BY <1>3, <1>5, <2>1 DEF Pairs
  <1>7. \A p \in 1 .. M : Left(p) = Row(b, s, l, 2 * p - 1) /\ Right(p) = Row(b, s, l, 2 * p)
    BY <1>3, <1>5 DEF Left, Right
  <1> DEFINE Passes(p) == /\ HasCollision(Left(p), Right(p))
                          /\ ~IndicesBefore(Right(p), Left(p))
                          /\ DistinctIndices(Left(p), Right(p))
  <1>8. ASSUME NEW p \in 1 .. M
        PROVE  /\ Passes(p) <=> PairIsGood(b, s, l + 1, p - 1)
               /\ PairIsGood(b, s, l + 1, p - 1) => Merge(Left(p), Right(p)) = Row(b, s, l + 1, p)
    <2>1. (2 * p - 1) - 1 \in Trees(l) /\ 2 * p - 1 \in Trees(l)
      BY <1>2, <1>5 DEF Trees
    <2>2. DistinctLeaves(s, Tree(l, (2 * p - 1) - 1)) /\ DistinctLeaves(s, Tree(l, 2 * p - 1))
      BY <1>1, <2>1, TreesAreDistinct
    <2>3. PICK L, R : L = Left(p) /\ R = Right(p)
      OBVIOUS
    <2>4. L = Row(b, s, l, 2 * p - 1) /\ R = Row(b, s, l, 2 * p)
      BY <1>7, <2>3
    <2>5. /\ HasCollision(L, R) /\ ~IndicesBefore(R, L) /\ DistinctIndices(L, R)
                <=> PairIsGood(b, s, l + 1, p - 1)
          /\ PairIsGood(b, s, l + 1, p - 1) => Merge(L, R) = Row(b, s, l + 1, p)
      BY <1>1, <1>5, <2>2, <2>4, RoundOfRows
    <2> QED BY <2>3, <2>5, Zenon
  <1>9. Trees(l + 1) = 0 .. M - 1
    BY <1>5 DEF Trees
  <1>10. (\A p \in 1 .. M : Passes(p)) <=> \A t \in Trees(l + 1) : PairIsGood(b, s, l + 1, t)
    <2> HIDE DEF Passes
    <2>1. ASSUME \A p \in 1 .. M : Passes(p), NEW t \in Trees(l + 1) PROVE PairIsGood(b, s, l + 1, t)
      <3>1. t + 1 \in 1 .. M /\ (t + 1) - 1 = t
        BY <1>5, <1>9
      <3> QED BY <1>8, <2>1, <3>1
    <2>2. ASSUME \A t \in Trees(l + 1) : PairIsGood(b, s, l + 1, t), NEW p \in 1 .. M PROVE Passes(p)
      <3>1. p - 1 \in Trees(l + 1)
        BY <1>5, <1>9
      <3> QED BY <1>8, <2>2, <3>1
    <2> QED BY <2>1, <2>2
  <1>11. IF \A p \in 1 .. M : Passes(p)
         THEN X' = [p \in 1 .. M |-> Merge(Left(p), Right(p))] /\ phase' = phase
         ELSE phase' = "invalid" /\ X' = X
    BY <1>6, Zenon DEF Round
  <1>12. ASSUME \A p \in 1 .. M : Passes(p)
         PROVE  /\ phase' = "rows" /\ l + 1 \in 0 .. K
                /\ X' = RowsOf(b, s, l + 1) /\ PairsAreGood(b, s, l + 1)
    <2>1. phase' = "rows"
      BY <1>11, <1>12 DEF Round
    <2>2. \A p \in 1 .. M : Merge(Left(p), Right(p)) = Row(b, s, l + 1, p)
      BY <1>8, <1>12
    <2>3. X' = RowsOf(b, s, l + 1)
      <3> HIDE DEF Passes
      <3> QED BY <1>5, <1>11, <1>12, <2>2 DEF RowsOf
    <2>4. \A t \in Trees(l + 1) : PairIsGood(b, s, l + 1, t)
      BY <1>10, <1>12
    <2>5. PairsAreGood(b, s, l + 1)
      <3>1. \A level \in 1 .. l + 1 : level = l + 1 \/ level \in 1 .. l
        OBVIOUS
      <3> QED BY <1>1, <2>4, <3>1 DEF PairsAreGood
    <2> QED BY <1>5, <2>1, <2>3, <2>5, Sizes
  <1>13. ASSUME ~ \A p \in 1 .. M : Passes(p) PROVE phase' = "invalid" /\ ~IsProof(b, s)
    <2>1. ~ \A t \in Trees(l + 1) : PairIsGood(b, s, l + 1, t)
      BY <1>10, <1>13
    <2>2. ~PairsAreGood(b, s, K)
      BY <1>5, <2>1 DEF PairsAreGood
    <2> QED BY <1>11, <1>13, <2>2, ProofIsGoodPairs
  <1> QED BY <1>1, <1>12, <1>13, Zenon

\* The last row is 0 exactly if the root collides too.
LEMMA FinishIsRight ==
    ASSUME NEW l \in 0 .. K, X = RowsOf(base, soln, l), PairsAreGood(base, soln, l), Finish
    PROVE  \/ phase' = "solved" /\ IsProof(base, soln)
           \/ phase' = "invalid" /\ ~IsProof(base, soln)
  <1>1. PICK b, s : b = base /\ s = soln
    OBVIOUS
  <1>2. PICK N : N = Pow2[K - l] /\ N \in Nat \ {0} /\ (N = 1 <=> l = K)
    BY HalfOfRows
  <1>3. X = [p \in 1 .. N |-> Row(b, s, l, p)] /\ Len(X) = N
    <2>1. X = [p \in 1 .. N |-> Row(b, s, l, p)]
      BY <1>1, <1>2, Zenon DEF RowsOf
    <2> QED BY <1>2, <2>1
  <1>4. N = 1 /\ l = K
    BY <1>2, <1>3 DEF Finish
  <1>5. PICK row : row = X[1] /\ row = Row(b, s, K, 1)
    BY <1>3, <1>4
  <1>6. row.hash = [j \in 1 .. 1 |-> XorOf(b, s, Tree(K, 0), K + j)]
    <2>1. K + 1 - K = 1 /\ 1 - 1 = 0
      BY Sizes
    <2> QED BY <1>5, <2>1 DEF Row
  <1>7. IsZero(row) <=> Collides(b, s, Tree(K, 0), K + 1)
    <2>1. PICK h : h = XorOf(b, s, Tree(K, 0), K + 1)
      OBVIOUS
    <2>2. DOMAIN row.hash = {1} /\ row.hash[1] = h
      BY <1>6, <2>1
    <2>3. DOMAIN h = 1 .. CollisionBitLength
      BY <2>1 DEF XorOf
    <2>4. IsZero(row) <=> \A bit \in 1 .. CollisionBitLength : h[bit] = 0
      BY <2>2, <2>3 DEF IsZero
    <2>5. \A bit \in 1 .. CollisionBitLength :
             h[bit] = Cardinality({n \in Tree(K, 0) : HashSlice(b, s, n, K + 1)[bit] = 1}) % 2
      BY <2>1 DEF XorOf
    <2> QED BY <2>4, <2>5 DEF Collides
  <1>8. IsZero(row) <=> IsProof(b, s)
    BY <1>1, <1>4, <1>7, ProofIsGoodPairs
  <1>9. phase' = IF IsZero(row) THEN "solved" ELSE "invalid"
    BY <1>5, Zenon DEF Finish
  <1> QED BY <1>1, <1>8, <1>9
-----------------------------------------------------------------------------
(* The target.                                                               *)

\* Division with a rest.
LEMMA QuotientExists ==
    ASSUME NEW m \in Nat, NEW d \in Nat, d > 0
    PROVE  \E q \in Nat : \E r \in 0 .. d - 1 : m = d * q + r /\ m \div d = q
  <1> DEFINE T == {n \in 0 .. m : \E q \in Nat : \E r \in 0 .. d - 1 : n = d * q + r}
  <1>1. 0 \in T
    <2>1. 0 = d * 0 + 0 /\ 0 \in 0 .. d - 1 /\ 0 \in 0 .. m
      OBVIOUS
    <2> QED BY <2>1
  <1>2. ASSUME NEW n \in 1 .. m, n - 1 \in T PROVE n \in T
    <2>1. PICK q \in Nat, r \in 0 .. d - 1 : n - 1 = d * q + r
      BY <1>2
    <2>2. CASE r = d - 1
      <3>1. n = d * (q + 1) + 0 /\ 0 \in 0 .. d - 1 /\ q + 1 \in Nat /\ n \in 0 .. m
        BY <2>1, <2>2
      <3> QED BY <3>1
    <2>3. CASE r # d - 1
      <3>1. n = d * q + (r + 1) /\ r + 1 \in 0 .. d - 1 /\ n \in 0 .. m
        BY <2>1, <2>3
      <3> QED BY <3>1
    <2> QED BY <2>2, <2>3
  <1>3. m \in T
    <2>1. 0 .. m \subseteq T
      <3> HIDE DEF T
      <3> QED BY <1>1, <1>2, UpTo
    <2>2. m \in 0 .. m
      OBVIOUS
    <2> QED BY <2>1, <2>2
  <1>4. PICK q \in Nat, r \in 0 .. d - 1 : m = d * q + r
    BY <1>3
  <1>5. m \div d = q
    BY <1>4, Quotient
  <1> QED BY <1>4, <1>5

\* A digest passes exactly if it is below the target, and none does below 3.
LEMMA TargetIsRight ==
    ASSUME NEW d \in Nat \ {0}, NEW h \in Nat
    PROVE  ToSigned(DiffToTarget(d)) <= h <=> ~(d >= 3 /\ (h + 1) * d <= Pow2[DigestBits])
  <1>1. PICK H : H = Pow2[DigestBits - 1] /\ H \in Nat \ {0} /\ Pow2[DigestBits] = 2 * H
    <2>1. DigestBits \in 1 .. K + DigestBits /\ DigestBits - 1 \in 0 .. K + DigestBits
      BY Sizes
    <2>2. Pow2[DigestBits - 1] \in Nat \ {0} /\ Pow2[DigestBits] = 2 * Pow2[DigestBits - 1]
      BY <2>1, Pow2Equation, Zenon
    <2> QED BY <2>2
  <1>2. PICK q \in Nat, r \in 0 .. d - 1 : 2 * H = d * q + r /\ (2 * H) \div d = q
    <2>1. 2 * H \in Nat /\ d \in Nat /\ d > 0
      BY <1>1
    <2> QED BY <2>1, QuotientExists, Zenon
  <1>3. DiffToTarget(d) = IF q < 2 * H THEN q ELSE 0
    BY <1>1, <1>2 DEF DiffToTarget
  <1>4. ToSigned(DiffToTarget(d)) = IF DiffToTarget(d) < H THEN DiffToTarget(d) ELSE DiffToTarget(d) - 2 * H
    BY <1>1 DEF ToSigned
  <1>5. CASE d = 1
    <2>1. q = 2 * H
      BY <1>1, <1>2, <1>5
    <2> QED BY <1>1, <1>3, <1>4, <1>5, <2>1
  <1>6. CASE d = 2
    <2>1. q = H
      BY <1>1, <1>2, <1>6
    <2> QED BY <1>1, <1>3, <1>4, <1>6, <2>1
  <1>7. CASE d >= 3
    <2>1. PICK e \in Nat : d = 3 + e
      <3>1. d - 3 \in Nat /\ d = 3 + (d - 3)
        BY <1>7
      <3> QED BY <3>1
    <2>2. d * q = 3 * q + e * q /\ e * q \in Nat
      BY <2>1
    <2>3. q < H
      BY <1>1, <1>2, <2>2
    <2>4. ToSigned(DiffToTarget(d)) = q
      BY <1>1, <1>3, <1>4, <2>3
    <2>5. q <= h <=> ~((h + 1) * d <= 2 * H)
      <3>1. CASE q <= h
        <4>1. PICK x \in Nat : h = q + x
          <5>1. h - q \in Nat /\ h = q + (h - q)
            BY <3>1
          <5> QED BY <5>1
        <4>2. (h + 1) * d = d * q + d * x + d /\ d * x \in Nat /\ d * q \in Nat
          BY <4>1
        <4>3. PICK y, z : y = d * q /\ z = d * x
          OBVIOUS
        <4> QED BY <1>1, <1>2, <3>1, <4>2
      <3>2. CASE q > h
        <4>1. PICK x \in Nat : q = (h + 1) + x
          <5>1. q - (h + 1) \in Nat /\ q = (h + 1) + (q - (h + 1))
            BY <3>2
          <5> QED BY <5>1
        <4>2. d * q = (h + 1) * d + d * x /\ d * x \in Nat /\ (h + 1) * d \in Nat
          BY <4>1
        <4> QED BY <1>1, <1>2, <3>2, <4>2
      <3> QED BY <3>1, <3>2
    <2> QED BY <1>1, <1>7, <2>4, <2>5
  <1> QED BY <1>5, <1>6, <1>7
-----------------------------------------------------------------------------
LEMMA InvHoldsAtFirst == EquihashInit => EquihashInv
  BY DEF EquihashInit, EquihashInv, ShareTypeOK, RowsAreTrees, VerdictIsRight

LEMMA InvIsKept == EquihashInv /\ [EquihashNext]_equihashVars => EquihashInv'
  <1> SUFFICES ASSUME EquihashInv, [EquihashNext]_equihashVars PROVE EquihashInv'
    OBVIOUS
  <1> USE DEF EquihashInv
  <1>1. ASSUME NEW b \in GenerateHash, NEW s \in MinimalSolutions, Unpack(b, s) PROVE EquihashInv'
    <2>1. base' = b /\ soln' = s /\ phase' = "rows"
      BY <1>1 DEF Unpack
    <2>2. X' = RowsOf(b, s, 0) /\ PairsAreGood(b, s, 0) /\ 0 \in 0 .. K
      BY <1>1, UnpackMakesTrees, Sizes
    <2>3. RowsAreTrees'
      BY <2>1, <2>2 DEF RowsAreTrees
    <2>4. ShareTypeOK' /\ VerdictIsRight'
      BY <2>1 DEF ShareTypeOK, VerdictIsRight
    <2> QED BY <2>3, <2>4
  <1>2. CASE Round
    <2>1. base' = base /\ soln' = soln /\ phase = "rows"
      BY <1>2 DEF Round
    <2>2. PICK l \in 0 .. K : X = RowsOf(base, soln, l) /\ PairsAreGood(base, soln, l)
      BY <2>1 DEF RowsAreTrees
    <2>3. base \in GenerateHash /\ soln \in MinimalSolutions
      BY <2>1 DEF ShareTypeOK
    <2>4. \/ /\ phase' = "rows" /\ l + 1 \in 0 .. K
             /\ X' = RowsOf(base, soln, l + 1) /\ PairsAreGood(base, soln, l + 1)
          \/ phase' = "invalid" /\ ~IsProof(base, soln)
      BY <1>2, <2>2, <2>3, RoundMakesTrees
    <2>5. CASE /\ phase' = "rows" /\ l + 1 \in 0 .. K
               /\ X' = RowsOf(base, soln, l + 1) /\ PairsAreGood(base, soln, l + 1)
      <3>1. RowsAreTrees'
        BY <2>1, <2>5 DEF RowsAreTrees
      <3>2. ShareTypeOK' /\ VerdictIsRight'
        BY <2>1, <2>3, <2>5 DEF ShareTypeOK, VerdictIsRight
      <3> QED BY <3>1, <3>2
    <2>6. CASE phase' = "invalid" /\ ~IsProof(base, soln)
      BY <2>1, <2>6 DEF ShareTypeOK, RowsAreTrees, VerdictIsRight
    <2> QED BY <2>4, <2>5, <2>6
  <1>3. CASE Finish
    <2>1. base' = base /\ soln' = soln /\ phase = "rows"
      BY <1>3 DEF Finish
    <2>2. PICK l \in 0 .. K : X = RowsOf(base, soln, l) /\ PairsAreGood(base, soln, l)
      BY <2>1 DEF RowsAreTrees
    <2>3. \/ phase' = "solved" /\ IsProof(base, soln)
          \/ phase' = "invalid" /\ ~IsProof(base, soln)
      BY <1>3, <2>2, FinishIsRight
    <2> QED BY <2>1, <2>3 DEF ShareTypeOK, RowsAreTrees, VerdictIsRight
  <1>4. ASSUME NEW d \in Difficulties, NEW h \in 0 .. Pow2[DigestBits] - 1, CompareDigest(d, h)
        PROVE  EquihashInv'
    <2>1. base' = base /\ soln' = soln /\ phase = "solved" /\ difficulty' = d /\ digest' = h
      BY <1>4 DEF CompareDigest
    <2>2. d \in Nat \ {0} /\ h \in Nat
      <3>1. d \in Nat \ {0}
        BY EquihashAssumption
      <3>2. Pow2[DigestBits] \in Nat
        BY Pow2Equation, Sizes
      <3> QED BY <3>1, <3>2
    <2>3. PICK pass \in BOOLEAN : pass = (d >= 3 /\ (h + 1) * d <= Pow2[DigestBits])
      OBVIOUS
    <2>4. phase' = IF pass THEN "accepted" ELSE "low"
      <3>1. ToSigned(DiffToTarget(d)) <= h <=> ~pass
        BY <2>2, <2>3, TargetIsRight
      <3> QED BY <1>4, <3>1 DEF CompareDigest
    <2>5. IsProof(base, soln)
      BY <2>1 DEF VerdictIsRight
    <2> QED BY <2>1, <2>3, <2>4, <2>5 DEF ShareTypeOK, RowsAreTrees, VerdictIsRight
  <1>5. CASE UNCHANGED equihashVars
    BY <1>5 DEF equihashVars, ShareTypeOK, RowsAreTrees, VerdictIsRight
  <1> QED BY <1>1, <1>2, <1>3, <1>4, <1>5 DEF EquihashNext

\* The verdict on a share is right: the library finds it valid exactly if it is a
\* proof of work (Equihash.IsValidSolution), and the job takes it exactly if the
\* digest is below the target of the difficulty (AionJob.ProcessShareInternal).
THEOREM VerdictsAreRight == EquihashSpec => []VerdictIsRight
  <1>1. EquihashInv => VerdictIsRight
    BY DEF EquihashInv
  <1> QED BY <1>1, InvHoldsAtFirst, InvIsKept, PTL DEF EquihashSpec
=============================================================================
