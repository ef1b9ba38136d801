----------------------------- MODULE M0aSafety ------------------------------
(***************************************************************************)
(* M0aLedger is type correct, safe and implements its contract, for any    *)
(* candidates, owners, budgets and lease durations.  The proofs come in    *)
(* four parts: types, the invariant of the tables with the properties it   *)
(* implies, the refinement of M0aContract, and the counts of attempts,     *)
(* ordinals and audit events.                                              *)
(*                                                                         *)
(* A fifth part is about M0aDaemon: the daemon keeps the ledger's          *)
(* specification, and its own safety properties hold of every instance:    *)
(* any processes, owners they may use, plan and outcomes.  DaemonInvariant *)
(* is inductive and implies them all: it says what a process's memory      *)
(* tells about the tables and files.                                       *)
(***************************************************************************)
EXTENDS M0aDaemon, FiniteSetTheorems, SequenceTheorems, TLAPS

-----------------------------------------------------------------------------
(* Lemmas about the rows.                                                  *)

\* The rows of attempts are numbered from 1 to their count.
LEMMA AttemptRows ==
  ASSUME TypeOK
  PROVE  /\ Len(attempts) \in Nat
         /\ DOMAIN attempts = 1 .. Len(attempts)
         /\ \A a \in DOMAIN attempts : attempts[a] \in Attempt
         /\ \A a \in DOMAIN attempts : CandidateOf(a) \in Candidates
  <1>1. attempts \in Seq(Attempt)
    BY DEF TypeOK
  <1>2. /\ Len(attempts) \in Nat /\ DOMAIN attempts = 1 .. Len(attempts)
        /\ \A a \in DOMAIN attempts : attempts[a] \in Attempt
    BY <1>1, LenProperties
  <1>3. \A a \in DOMAIN attempts : CandidateOf(a) \in Candidates
    BY <1>2 DEF Attempt, CandidateOf
  <1>. QED
    BY <1>2, <1>3

\* Rewriting one attempt row keeps the table well typed.
LEMMA RowUpdate ==
  ASSUME TypeOK, NEW a \in DOMAIN attempts, NEW r \in Attempt,
         attempts' = [attempts EXCEPT ![a] = r]
  PROVE  /\ attempts' \in Seq(Attempt)
         /\ DOMAIN attempts' = DOMAIN attempts
         /\ attempts'[a] = r
         /\ \A b \in DOMAIN attempts : b # a => attempts'[b] = attempts[b]
BY DEF TypeOK

\* The attempt records the operations build are rows, and tie a lease to RUNNING.
LEMMA NewRows ==
  ASSUME TypeOK, NEW a \in DOMAIN attempts
  PROVE  /\ \A owner \in Owners, wait \in Nat :
              LET r == Leased(attempts[a], owner, wait) IN
              /\ r \in Attempt /\ r.status = "RUNNING" /\ r.owner # NoOwner
              /\ r.candidate = CandidateOf(a) /\ r.number = attempts[a].number
         /\ \A status \in AttemptStatus, systemError \in BOOLEAN :
              LET r == Finished(attempts[a], status, systemError) IN
              /\ r \in Attempt /\ r.status = status /\ r.owner = NoOwner
              /\ r.candidate = CandidateOf(a) /\ r.number = attempts[a].number
  <1>1. attempts[a] \in Attempt
    BY AttemptRows
  <1>2. ASSUME NEW owner \in Owners, NEW wait \in Nat
        PROVE  LET r == Leased(attempts[a], owner, wait) IN
               /\ r \in Attempt /\ r.status = "RUNNING" /\ r.owner # NoOwner
               /\ r.candidate = CandidateOf(a) /\ r.number = attempts[a].number
    <2>1. LeaseTicks - wait \in Int
      BY LedgerAssumption
    <2>. QED
      BY <1>1, <2>1, LedgerAssumption DEF Leased, Attempt, AttemptStatus, ActiveStatus, CandidateOf
  <1>3. ASSUME NEW status \in AttemptStatus, NEW systemError \in BOOLEAN
        PROVE  LET r == Finished(attempts[a], status, systemError) IN
               /\ r \in Attempt /\ r.status = status /\ r.owner = NoOwner
               /\ r.candidate = CandidateOf(a) /\ r.number = attempts[a].number
    BY <1>1 DEF Finished, Attempt, CandidateOf
  <1>. QED
    BY <1>2, <1>3

LEMMA NewAttemptRow ==
  ASSUME NEW c \in Candidates, NEW n \in Nat \ {0}
  PROVE  /\ NewAttempt(c, n) \in Attempt
         /\ NewAttempt(c, n).candidate = c /\ NewAttempt(c, n).number = n
         /\ NewAttempt(c, n).status = "QUEUED" /\ NewAttempt(c, n).owner = NoOwner
BY DEF NewAttempt, Attempt, AttemptStatus, ActiveStatus

\* Finitely many candidates, and so finitely many of any kind, are registered.
LEMMA FinitePeers ==
  ASSUME NEW c \in Candidates
  PROVE  IsFiniteSet(Peers(c)) /\ Cardinality(Peers(c)) \in Nat
  <1>1. Peers(c) \in SUBSET Candidates
    BY DEF Peers, Registered
  <1>. QED
    BY <1>1, LedgerAssumption, FS_Subset, FS_CardinalityType

\* The stale attempts are finitely many, and a walk visits each of them once.
LEMMA StaleWalk ==
  ASSUME TypeOK, NEW wait \in 0 .. MaxWait, NEW walk \in Ascending(Stale(wait))
  PROVE  LET n == Reached(Cardinality(Stale(wait))) IN
         /\ Cardinality(Stale(wait)) \in Nat
         /\ n \in Nat /\ n <= Cardinality(Stale(wait))
         /\ \A i \in 1 .. n : walk[i] \in Stale(wait)
         /\ \A i, j \in 1 .. n : walk[i] = walk[j] => i = j
  <1>1. Stale(wait) \in SUBSET (1 .. Len(attempts))
    BY AttemptRows DEF Stale, Running
  <1>2. IsFiniteSet(1 .. Len(attempts))
    BY AttemptRows, FS_Interval
  <1>3. Cardinality(Stale(wait)) \in Nat
    BY <1>1, <1>2, FS_Subset, FS_CardinalityType
  <1> DEFINE k == Cardinality(Stale(wait))
             n == Reached(k)
  <1>4. n \in Nat /\ n <= k
    BY <1>3, LedgerAssumption DEF Reached, TypeOK
  <1>5. walk \in [1 .. k -> Stale(wait)] /\ \A i, j \in 1 .. k : i < j => walk[i] < walk[j]
    BY DEF Ascending
  <1>6. \A i \in 1 .. n : walk[i] \in Stale(wait)
    BY <1>3, <1>4, <1>5
  <1>7. \A i \in 1 .. k : walk[i] \in Nat
    BY <1>1, <1>5, AttemptRows
  <1>8. \A i, j \in 1 .. n : walk[i] = walk[j] => i = j
    BY <1>3, <1>4, <1>5, <1>7
  <1>. QED
    BY <1>3, <1>4, <1>6, <1>8

-----------------------------------------------------------------------------
(* Type correctness.                                                       *)

\* Appending to an event log, or to a sequence of rows, keeps it one.
LEMMA EventLogs ==
  ASSUME NEW Type, NEW log \in Seq(Type)
  PROVE  /\ \A type \in Type : Append(log, type) \in Seq(Type)
         /\ \A more \in Seq(Type) : log \o more \in Seq(Type)
BY AppendProperties, ConcatProperties

\* The epoch columns keep their types under _complete_epoch_if_idle.
LEMMA CompleteEpochIfIdleType ==
  ASSUME NEW status \in EpochStatus, NEW log \in Seq(EpochEvent),
         CompleteEpochIfIdle(status, log)
  PROVE  epochStatus' \in EpochStatus /\ epochEvents' \in Seq(EpochEvent)
BY EventLogs DEF CompleteEpochIfIdle, EpochStatus, Closed, EpochEvent

\* Rewriting one row for a given owner and status keeps the whole type invariant
\* of the attempts table.
LEMMA RowUpdateType ==
  ASSUME TypeOK, NEW a \in DOMAIN attempts, NEW r \in Attempt,
         attempts' = [attempts EXCEPT ![a] = r],
         r.status = "RUNNING" <=> r.owner # NoOwner
  PROVE  /\ attempts' \in Seq(Attempt)
         /\ \A b \in DOMAIN attempts' : attempts'[b].status = "RUNNING" <=> attempts'[b].owner # NoOwner
BY RowUpdate DEF TypeOK

LEMMA TypeInit == Init => TypeOK
  <1>. SUFFICES ASSUME Init PROVE TypeOK
    OBVIOUS
  <1>1. attempts \in Seq(Attempt) /\ DOMAIN attempts = {}
    BY EmptySeq, LenProperties DEF Init
  <1>2. epochEvents \in Seq(EpochEvent) /\ events \in [Candidates -> Seq(CandidateEvent)]
    BY EmptySeq DEF Init
  <1>3. candidates \in [Candidates -> [status : CandidateStatus, ordinal : Nat, result : Nat]]
    BY DEF Init, CandidateStatus
  <1>. QED
    BY <1>1, <1>2, <1>3 DEF Init, TypeOK, EpochStatus

LEMMA RegisterCandidateType ==
  ASSUME TypeOK, NEW c \in Candidates, RegisterCandidate(c)
  PROVE  TypeOK'
  <1>1. Cardinality(Peers(c)) + 1 \in Nat
    BY FinitePeers
  <1>2. candidates' \in [Candidates -> [status : CandidateStatus, ordinal : Nat, result : Nat]]
    BY <1>1 DEF TypeOK, RegisterCandidate, CandidateStatus
  <1>3. NewAttempt(c, 1) \in Attempt /\ NewAttempt(c, 1).status = "QUEUED"
        /\ NewAttempt(c, 1).owner = NoOwner
    BY NewAttemptRow
  <1>4. attempts' = Append(attempts, NewAttempt(c, 1))
    BY DEF RegisterCandidate
  <1>5. /\ attempts' \in Seq(Attempt)
        /\ \A b \in DOMAIN attempts' :
             attempts'[b].status = "RUNNING" <=> attempts'[b].owner # NoOwner
    BY <1>3, <1>4, AttemptRows, AppendProperties DEF TypeOK
  <1>6. events' \in [Candidates -> Seq(CandidateEvent)]
    <2>1. \A d \in Candidates : events'[d] \in Seq(CandidateEvent)
      BY EventLogs DEF TypeOK, RegisterCandidate, CandidateEvent
    <2>. QED
      BY <2>1 DEF TypeOK, RegisterCandidate
  <1>7. generationComplete' \in BOOLEAN
    BY DEF RegisterCandidate
  <1>8. epochEvents' \in Seq(EpochEvent)
    BY EventLogs DEF TypeOK, RegisterCandidate, EpochEvent
  <1>. QED
    BY <1>2, <1>5, <1>6, <1>7, <1>8 DEF TypeOK, RegisterCandidate

\* What recovery does to the rows of attempts: the walk's first n are CRASHED, and
\* all of them but possibly the last get a new row of the same candidate.
RecoveredRows(walk, n) ==
  /\ n \in Nat \ {0} /\ Retries(n) \in Nat /\ Retries(n) \in {n - 1, n}
  /\ attempts' \in Seq(Attempt)
  /\ DOMAIN attempts' = 1 .. Len(attempts) + Retries(n)
  /\ \A i \in 1 .. n : walk[i] \in Running
  /\ \A i, j \in 1 .. n : walk[i] = walk[j] => i = j
  /\ \A i \in 1 .. n : attempts'[walk[i]] = Finished(attempts[walk[i]], "CRASHED", TRUE)
  /\ \A b \in DOMAIN attempts :
       (\A i \in 1 .. n : walk[i] # b) => attempts'[b] = attempts[b]
  /\ \A i \in 1 .. Retries(n) :
       attempts'[Len(attempts) + i]
         = NewAttempt(CandidateOf(walk[i]), attempts[walk[i]].number + 1)

LEMMA RecoveryRows ==
  ASSUME TypeOK, NEW wait \in 0 .. MaxWait, RecoverStaleAttempts(wait)
  PROVE  \E n \in Nat : \E walk \in Ascending(Stale(wait)) :
           CrashAlong(walk, n) /\ RecoveredRows(walk, n)
  <1>0. PICK walk \in Ascending(Stale(wait)) :
          CrashAlong(walk, Reached(Cardinality(Stale(wait))))
    BY DEF RecoverStaleAttempts
  <1> DEFINE n == Reached(Cardinality(Stale(wait)))
  <1> DEFINE k == Cardinality(Stale(wait))
  <1>1. /\ k \in Nat /\ n \in Nat /\ n <= k
        /\ \A i \in 1 .. n : walk[i] \in Stale(wait)
        /\ \A i, j \in 1 .. n : walk[i] = walk[j] => i = j
    BY StaleWalk
  <1>2. k # 0
    <2>1. Stale(wait) \in SUBSET (1 .. Len(attempts))
      BY AttemptRows DEF Stale, Running
    <2>2. IsFiniteSet(1 .. Len(attempts))
      BY AttemptRows, FS_Interval
    <2>3. IsFiniteSet(Stale(wait))
      BY <2>1, <2>2, FS_Subset
    <2>. QED
      BY <2>3, FS_EmptySet DEF RecoverStaleAttempts
  <1>3. n \in Nat \ {0} /\ Retries(n) \in Nat /\ Retries(n) \in {n - 1, n}
    BY <1>1, <1>2, LedgerAssumption DEF Reached, Retries, TypeOK
  <1>4. \A i \in 1 .. n : walk[i] \in Running /\ walk[i] \in 1 .. Len(attempts)
    BY <1>1, AttemptRows DEF Stale, Running
  <1>5. Len(attempts) \in Nat /\ DOMAIN attempts = 1 .. Len(attempts)
    BY AttemptRows
  <1> DEFINE crashed == {walk[i] : i \in 1 .. n}
             row(b) == IF b \in crashed THEN Finished(attempts[b], "CRASHED", TRUE)
                       ELSE IF b \in DOMAIN attempts THEN attempts[b]
                       ELSE NewAttempt(CandidateOf(walk[b - Len(attempts)]),
                                       attempts[walk[b - Len(attempts)]].number + 1)
             m == Len(attempts) + Retries(n)
  <1>6. attempts' = [b \in 1 .. m |-> row(b)]
    BY <1>0 DEF CrashAlong
  <1>7. m \in Nat
    BY <1>3, <1>5
  <1>8. \A b \in 1 .. m : row(b) \in Attempt
    <2>1. ASSUME NEW b \in crashed PROVE Finished(attempts[b], "CRASHED", TRUE) \in Attempt
      BY <1>4, <1>5, NewRows DEF AttemptStatus
    <2>2. ASSUME NEW b \in 1 .. m, b \notin DOMAIN attempts
          PROVE  NewAttempt(CandidateOf(walk[b - Len(attempts)]),
                            attempts[walk[b - Len(attempts)]].number + 1) \in Attempt
      <3>1. b - Len(attempts) \in 1 .. n
        BY <1>3, <1>5, <2>2
      <3>2. walk[b - Len(attempts)] \in DOMAIN attempts
        BY <1>4, <1>5, <3>1
      <3>3. attempts[walk[b - Len(attempts)]].number + 1 \in Nat \ {0}
        BY <3>2, AttemptRows DEF Attempt
      <3>. QED
        BY <3>2, <3>3, AttemptRows, NewAttemptRow
    <2>. QED
      BY <2>1, <2>2, AttemptRows
  <1>9. attempts' \in Seq(Attempt) /\ DOMAIN attempts' = 1 .. m
    <2>1. attempts' \in [1 .. m -> Attempt]
      BY <1>6, <1>8
    <2>. QED
      BY <2>1, <1>7, SeqDef
  <1>10. \A b \in DOMAIN attempts : attempts'[b] = row(b)
    <2>1. \A b \in 1 .. m : attempts'[b] = row(b)
      BY <1>6
    <2>2. DOMAIN attempts \subseteq 1 .. m
      BY <1>3, <1>5
    <2>. QED
      BY <2>1, <2>2
  <1>11. ASSUME NEW i \in 1 .. n
         PROVE  attempts'[walk[i]] = Finished(attempts[walk[i]], "CRASHED", TRUE)
    <2>1. walk[i] \in crashed /\ walk[i] \in DOMAIN attempts
      BY <1>4, <1>5
    <2>2. row(walk[i]) = Finished(attempts[walk[i]], "CRASHED", TRUE)
      BY <2>1
    <2>. QED
      BY <1>10, <2>1, <2>2
  <1>13. ASSUME NEW b \in DOMAIN attempts, \A i \in 1 .. n : walk[i] # b
         PROVE  attempts'[b] = attempts[b]
    <2>1. b \notin crashed
      BY <1>13
    <2>. QED
      BY <1>10, <2>1
  <1>12. ASSUME NEW i \in 1 .. Retries(n)
         PROVE  attempts'[Len(attempts) + i]
                  = NewAttempt(CandidateOf(walk[i]), attempts[walk[i]].number + 1)
    <2>1. Len(attempts) + i \in 1 .. m /\ Len(attempts) + i \notin DOMAIN attempts
      BY <1>3, <1>5
    <2>2. Len(attempts) + i \notin crashed
      BY <1>4, <1>5, <2>1
    <2>3. (Len(attempts) + i) - Len(attempts) = i
      BY <1>5
    <2>. QED
      BY <1>6, <2>1, <2>2, <2>3
  <1>14. RecoveredRows(walk, n)
    BY <1>1, <1>3, <1>4, <1>9, <1>11, <1>12, <1>13 DEF RecoveredRows
  <1>. QED
    BY <1>0, <1>1, <1>14

LEMMA RecoverStaleAttemptsType ==
  ASSUME TypeOK, NEW wait \in 0 .. MaxWait, RecoverStaleAttempts(wait)
  PROVE  TypeOK'
  <1>1. PICK n \in Nat, walk \in Ascending(Stale(wait)) :
          CrashAlong(walk, n) /\ RecoveredRows(walk, n)
    BY RecoveryRows
  <1>4. attempts' \in Seq(Attempt)
    BY <1>1 DEF RecoveredRows
  <1>5. ASSUME NEW b \in DOMAIN attempts'
        PROVE  attempts'[b].status = "RUNNING" <=> attempts'[b].owner # NoOwner
    <2>1. CASE b \in DOMAIN attempts /\ \A i \in 1 .. n : walk[i] # b
      <3>1. attempts'[b] = attempts[b]
        BY <1>1, <2>1 DEF RecoveredRows
      <3>. QED
        BY <2>1, <3>1 DEF TypeOK
    <2>2. ASSUME NEW i \in 1 .. n, walk[i] = b
          PROVE  attempts'[b].status = "RUNNING" <=> attempts'[b].owner # NoOwner
      <3>1. attempts'[b] = Finished(attempts[b], "CRASHED", TRUE) /\ b \in Running
        BY <1>1, <2>2 DEF RecoveredRows
      <3>2. attempts'[b].status = "CRASHED" /\ attempts'[b].owner = NoOwner
        BY <3>1 DEF Finished
      <3>. QED
        BY <3>2
    <2>3. CASE b \notin DOMAIN attempts
      <3>1. Len(attempts) \in Nat /\ DOMAIN attempts = 1 .. Len(attempts)
        BY AttemptRows
      <3>2. /\ DOMAIN attempts' = 1 .. Len(attempts) + Retries(n)
            /\ Retries(n) \in Nat /\ Retries(n) <= n /\ n \in Nat
        BY <1>1 DEF RecoveredRows
      <3>3. b - Len(attempts) \in 1 .. Retries(n) /\ b = Len(attempts) + (b - Len(attempts))
        BY <2>3, <3>1, <3>2
      <3>4. PICK i \in 1 .. Retries(n) : b = Len(attempts) + i
        BY <3>3
      <3>5. attempts'[b] = NewAttempt(CandidateOf(walk[i]), attempts[walk[i]].number + 1)
        BY <1>1, <3>4 DEF RecoveredRows
      <3>6. attempts'[b].status = "QUEUED" /\ attempts'[b].owner = NoOwner
        BY <3>5 DEF NewAttempt
      <3>. QED
        BY <3>6
    <2>. QED
      BY <2>1, <2>2, <2>3
  <1>6. candidates' \in [Candidates -> [status : CandidateStatus, ordinal : Nat, result : Nat]]
    BY <1>1 DEF TypeOK, CrashAlong, CandidateStatus
  <1>7. events' \in [Candidates -> Seq(CandidateEvent)]
    <2>1. \A retried \in BOOLEAN : CrashEvents(retried) \in Seq(CandidateEvent)
      BY DEF CrashEvents, CandidateEvent
    <2>2. ASSUME NEW c \in Candidates PROVE events'[c] \in Seq(CandidateEvent)
      <3>1. events[c] \in Seq(CandidateEvent)
        BY DEF TypeOK
      <3> DEFINE retried == \E a \in {walk[i] : i \in 1 .. Retries(n)} : CandidateOf(a) = c
      <3>2. events'[c] = events[c] \/ events'[c] = events[c] \o CrashEvents(retried)
        BY <1>1 DEF CrashAlong
      <3>3. events[c] \o CrashEvents(retried) \in Seq(CandidateEvent)
        BY <2>1, <3>1, EventLogs
      <3>. QED
        BY <3>1, <3>2, <3>3
    <2>3. events' = [c \in Candidates |-> events'[c]]
      BY <1>1 DEF CrashAlong
    <2>. QED
      BY <2>2, <2>3
  <1>8. consecutiveErrors' \in Nat /\ epochStatus' \in EpochStatus
    BY <1>1 DEF TypeOK, CrashAlong, EpochStatus, Closed
  <1>9. /\ generationComplete' = generationComplete
        /\ artifacts' = artifacts
        /\ epochEvents' = epochEvents
    BY DEF RecoverStaleAttempts
  <1>. QED
    BY <1>4, <1>5, <1>6, <1>7, <1>8, <1>9 DEF TypeOK

\* The passing of time changes nothing in a row but the ticks left on its lease.
LEMMA TickRows ==
  ASSUME TypeOK, Tick
  PROVE  /\ attempts' \in Seq(Attempt)
         /\ DOMAIN attempts' = DOMAIN attempts
         /\ \A a \in DOMAIN attempts :
              /\ attempts'[a].candidate = attempts[a].candidate
              /\ attempts'[a].number = attempts[a].number
              /\ attempts'[a].status = attempts[a].status
              /\ attempts'[a].owner = attempts[a].owner
              /\ attempts[a].status # "RUNNING" => attempts'[a] = attempts[a]
  <1> DEFINE row(a) == IF a \in Running /\ attempts[a].lease > -MaxWait
                       THEN [attempts[a] EXCEPT !.lease = @ - 1] ELSE attempts[a]
  <1>1. attempts' = [a \in DOMAIN attempts |-> row(a)]
    BY DEF Tick
  <1>2. \A a \in DOMAIN attempts : row(a) \in Attempt
    <2>1. ASSUME NEW a \in DOMAIN attempts
          PROVE  [attempts[a] EXCEPT !.lease = @ - 1] \in Attempt
      BY AttemptRows DEF Attempt
    <2>. QED
      BY <2>1, AttemptRows
  <1>3. attempts' \in [1 .. Len(attempts) -> Attempt] /\ Len(attempts) \in Nat
    BY <1>1, <1>2, AttemptRows
  <1>4. attempts' \in Seq(Attempt)
    BY <1>3, SeqDef
  <1>5. ASSUME NEW a \in DOMAIN attempts
        PROVE  /\ attempts'[a].candidate = attempts[a].candidate
               /\ attempts'[a].number = attempts[a].number
               /\ attempts'[a].status = attempts[a].status
               /\ attempts'[a].owner = attempts[a].owner
               /\ attempts[a].status # "RUNNING" => attempts'[a] = attempts[a]
    BY <1>1, AttemptRows DEF Attempt, Running
  <1>. QED
    BY <1>1, <1>4, <1>5

\* Every other step rewrites at most one attempt row, or only ages the leases.
LEMMA TypeStep == TypeOK /\ [Next]_ledgerVars => TypeOK'
  <1>. SUFFICES ASSUME TypeOK, [Next]_ledgerVars PROVE TypeOK'
    OBVIOUS
  <1>0. \A wait \in 0 .. MaxWait : wait \in Nat
    BY LedgerAssumption
  <1>1. CASE EnsureEpoch
    BY <1>1, EventLogs DEF EnsureEpoch, TypeOK, EpochStatus, EpochEvent
  <1>2. ASSUME NEW c \in Candidates, RegisterCandidate(c) PROVE TypeOK'
    BY <1>2, RegisterCandidateType
  <1>3. CASE MarkGenerationComplete
    <2>1. (IF generationComplete THEN epochEvents
           ELSE Append(epochEvents, "GENERATION_COMPLETED")) \in Seq(EpochEvent)
      BY EventLogs DEF TypeOK, EpochEvent
    <2>2. epochStatus' \in EpochStatus /\ epochEvents' \in Seq(EpochEvent)
      BY <1>3, <2>1, CompleteEpochIfIdleType DEF MarkGenerationComplete, TypeOK
    <2>. QED
      BY <1>3, <2>2 DEF MarkGenerationComplete, TypeOK
  <1>4. ASSUME NEW owner \in Owners, NEW wait \in 0 .. MaxWait, ClaimNothing(owner, wait)
        PROVE  TypeOK'
    <2>1. epochStatus' \in EpochStatus /\ epochEvents' \in Seq(EpochEvent)
      BY <1>4, CompleteEpochIfIdleType DEF ClaimNothing, TypeOK
    <2>. QED
      BY <1>4, <2>1 DEF ClaimNothing, TypeOK
  <1>5. ASSUME NEW owner \in Owners, NEW wait \in 0 .. MaxWait, NEW a \in DOMAIN attempts,
               attempts' = [attempts EXCEPT ![a] = Leased(attempts[a], owner, wait)]
        PROVE  /\ attempts' \in Seq(Attempt)
               /\ \A b \in DOMAIN attempts' :
                    attempts'[b].status = "RUNNING" <=> attempts'[b].owner # NoOwner
    BY <1>0, <1>5, NewRows, RowUpdateType
  <1>6. ASSUME NEW owner \in Owners, NEW wait \in 0 .. MaxWait, NEW a \in DOMAIN attempts,
               ResumeLease(owner, wait, a) \/ Heartbeat(a, owner, wait)
        PROVE  TypeOK'
    <2>1. attempts' = [attempts EXCEPT ![a] = Leased(attempts[a], owner, wait)]
      BY <1>6 DEF ResumeLease, Heartbeat
    <2>. QED
      BY <1>5, <1>6, <2>1 DEF ResumeLease, Heartbeat, epochVars, TypeOK
  <1>7. ASSUME NEW owner \in Owners, NEW wait \in 0 .. MaxWait, NEW a \in DOMAIN attempts,
               StartAttempt(owner, wait, a)
        PROVE  TypeOK'
    <2>1. attempts' = [attempts EXCEPT ![a] = Leased(attempts[a], owner, wait)]
      BY <1>7 DEF StartAttempt
    <2>2. candidates' \in [Candidates -> [status : CandidateStatus, ordinal : Nat, result : Nat]]
      BY <1>7, AttemptRows DEF StartAttempt, TypeOK, CandidateStatus
    <2>3. events' \in [Candidates -> Seq(CandidateEvent)]
      BY <1>7, AttemptRows, EventLogs DEF StartAttempt, TypeOK, CandidateEvent
    <2>. QED
      BY <1>5, <1>7, <2>1, <2>2, <2>3 DEF StartAttempt, TypeOK, EpochStatus
  <1>8. ASSUME NEW a \in DOMAIN attempts, NEW status \in {"COMPLETED", "FAILED"},
               NEW systemError \in BOOLEAN,
               attempts' = [attempts EXCEPT ![a] = Finished(attempts[a], status, systemError)]
        PROVE  /\ attempts' \in Seq(Attempt)
               /\ \A b \in DOMAIN attempts' :
                    attempts'[b].status = "RUNNING" <=> attempts'[b].owner # NoOwner
    <2>1. status \in AttemptStatus
      BY DEF AttemptStatus
    <2>. QED
      BY <1>8, <2>1, NewRows, RowUpdateType
  <1>9. ASSUME NEW owner \in Owners, NEW wait \in 0 .. MaxWait, NEW a \in DOMAIN attempts,
               NEW verdict \in Verdicts, CompleteAttempt(a, owner, wait, verdict)
        PROVE  TypeOK'
    <2>1. attempts' = [attempts EXCEPT ![a] = Finished(attempts[a], "COMPLETED", FALSE)]
      BY <1>9 DEF CompleteAttempt
    <2>2. a \in Nat /\ CandidateOf(a) \in Candidates
      BY AttemptRows
    <2>3. artifacts' \in SUBSET [attempt : Nat, verdict : Verdicts]
      BY <1>9, <2>2 DEF CompleteAttempt, TypeOK
    <2>4. candidates' \in [Candidates -> [status : CandidateStatus, ordinal : Nat, result : Nat]]
      BY <1>9, <2>2 DEF CompleteAttempt, TypeOK, CandidateStatus, Decided
    <2>5. events' \in [Candidates -> Seq(CandidateEvent)]
      <3>1. VerdictEvents(verdict) \in Seq(CandidateEvent)
        <4>1. CASE verdict = "REGISTERED"
          BY <4>1 DEF VerdictEvents, CandidateEvent
        <4>2. CASE verdict # "REGISTERED"
          BY <4>2 DEF VerdictEvents, CandidateEvent
        <4>. QED
          BY <4>1, <4>2
      <3>2. events[CandidateOf(a)] \o VerdictEvents(verdict) \in Seq(CandidateEvent)
        BY <2>2, <3>1, EventLogs DEF TypeOK
      <3>. QED
        BY <1>9, <2>2, <3>2 DEF CompleteAttempt, TypeOK
    <2>6. epochStatus' \in EpochStatus /\ epochEvents' \in Seq(EpochEvent)
      BY <1>9, CompleteEpochIfIdleType DEF CompleteAttempt, TypeOK
    <2>. QED
      BY <1>8, <1>9, <2>1, <2>3, <2>4, <2>5, <2>6 DEF CompleteAttempt, TypeOK
  <1>10. ASSUME NEW wait \in 0 .. MaxWait, RecoverStaleAttempts(wait) PROVE TypeOK'
    BY <1>10, RecoverStaleAttemptsType
  <1>11. ASSUME NEW a \in DOMAIN attempts, NEW owner \in Owners, NEW systemError \in BOOLEAN,
                FailAttempt(a, owner, systemError)
         PROVE  TypeOK'
    <2>1. attempts' = [attempts EXCEPT ![a] = Finished(attempts[a], "FAILED", systemError)]
      BY <1>11 DEF FailAttempt
    <2>2. CandidateOf(a) \in Candidates
      BY AttemptRows
    <2>3. candidates' \in [Candidates -> [status : CandidateStatus, ordinal : Nat, result : Nat]]
      BY <1>11, <2>2 DEF FailAttempt, TypeOK, CandidateStatus, Decided
    <2>4. events' \in [Candidates -> Seq(CandidateEvent)]
      <3>1. Append(events[CandidateOf(a)], "CANDIDATE_FAILED") \in Seq(CandidateEvent)
        BY <2>2, EventLogs DEF TypeOK, CandidateEvent
      <3>. QED
        BY <1>11, <2>2, <3>1 DEF FailAttempt, TypeOK
    <2>5. epochStatus' \in EpochStatus /\ epochEvents' \in Seq(EpochEvent)
      BY <1>11, CompleteEpochIfIdleType DEF FailAttempt, TypeOK, EpochStatus, Closed
    <2>6. consecutiveErrors' \in Nat
      BY <1>11 DEF FailAttempt, ErrorsAfter, TypeOK
    <2>. QED
      BY <1>8, <1>11, <2>1, <2>3, <2>4, <2>5, <2>6 DEF FailAttempt, TypeOK
  <1>12. CASE Tick
    BY <1>12, TickRows DEF Tick, epochVars, TypeOK
  <1>13. CASE UNCHANGED ledgerVars
    BY <1>13 DEF ledgerVars, TypeOK
  <1>. QED
    BY <1>1, <1>2, <1>3, <1>4, <1>6, <1>7, <1>9, <1>10, <1>11, <1>12, <1>13 DEF Next

\* The column types hold of every ledger, and a lease is held exactly while an
\* attempt is RUNNING (the CHECK constraints of attempts, whatever the budgets).
THEOREM TypeCorrect == Spec => []TypeOK
BY TypeInit, TypeStep, PTL DEF Spec

-----------------------------------------------------------------------------
(* The safety properties are not inductive as they stand: LedgerInvariant  *)
(* below is, and implies them all.  It says what each table's rows tell    *)
(* about the others'.                                                      *)

\* A candidate row exists exactly when it has an attempt.
RegisteredAttempted == \A c \in Candidates : c \in Registered <=> Attempted(c) # {}

\* Only the latest attempt of a candidate can be anything but CRASHED.
LaterCrashed ==
  \A a, b \in DOMAIN attempts :
    a < b /\ CandidateOf(a) = CandidateOf(b) => attempts[a].status = "CRASHED"

\* What an attempt row tells of its candidate's.
AttemptTells(a) ==
  LET c == CandidateOf(a) IN
  /\ attempts[a].status \in ActiveStatus \cup {"FAILED"} =>
       candidates[c].status = attempts[a].status
  /\ attempts[a].status = "COMPLETED" =>
       /\ candidates[c].status \in Verdicts
       /\ candidates[c].result = a
       /\ [attempt |-> a, verdict |-> candidates[c].status] \in artifacts
  /\ attempts[a].status = "CRASHED" =>
       candidates[c].status = "CRASHED" \/ \E b \in Attempted(c) : b > a
AttemptsTell == \A a \in DOMAIN attempts : AttemptTells(a)

\* What a candidate row tells of its attempts'.
CandidateTells(c) ==
  /\ candidates[c].status \in ActiveStatus =>
       \E a \in Attempted(c) : attempts[a].status = candidates[c].status
  /\ candidates[c].status \in Verdicts =>
       /\ candidates[c].result \in Attempted(c)
       /\ attempts[candidates[c].result].status = "COMPLETED"
  /\ candidates[c].status = "REGISTERED" => c \in Real
CandidatesTell == \A c \in Candidates : CandidateTells(c)

\* What an artifact row tells of the two.
ArtifactsTell ==
  \A r \in artifacts :
    /\ r.attempt \in DOMAIN attempts
    /\ attempts[r.attempt].status = "COMPLETED"
    /\ candidates[CandidateOf(r.attempt)].status = r.verdict

RowsAgree ==
  /\ RegisteredAttempted
  /\ LaterCrashed
  /\ AttemptsTell
  /\ CandidatesTell
  /\ ArtifactsTell

\* What the epoch row tells of all of them.
EpochAgrees ==
  /\ epochStatus = "COMPLETED" =>
       generationComplete /\ \A a \in DOMAIN attempts : attempts[a].status \notin ActiveStatus
  /\ epochStatus # "HALTED" =>
       /\ consecutiveErrors < Threshold
       /\ \A c \in Candidates : candidates[c].status # "CRASHED"

LedgerInvariant == TypeOK /\ RowsAgree /\ EpochAgrees

-----------------------------------------------------------------------------
(* LedgerInvariant implies the properties.                                 *)

LEMMA InvariantFollows == LedgerInvariant => CandidateFollowsAttempts
  <1>. SUFFICES ASSUME LedgerInvariant PROVE CandidateFollowsAttempts
    OBVIOUS
  <1>1. \A c \in Candidates : c \in Registered <=> Attempted(c) # {}
    BY DEF LedgerInvariant, RowsAgree, RegisteredAttempted
  <1>2. ASSUME NEW a \in DOMAIN attempts
        PROVE  LET c == CandidateOf(a) IN
               IF \E b \in Attempted(c) : b > a THEN attempts[a].status = "CRASHED"
               ELSE candidates[c].status =
                      IF attempts[a].status = "COMPLETED"
                      THEN CHOOSE v \in Verdicts : [attempt |-> a, verdict |-> v] \in artifacts
                      ELSE attempts[a].status
    <2> DEFINE c == CandidateOf(a)
    <2>1. CASE \E b \in Attempted(c) : b > a
      <3>1. attempts[a].status = "CRASHED"
        BY <2>1, AttemptRows DEF LedgerInvariant, RowsAgree, LaterCrashed, Attempted
      <3>. QED
        BY <2>1, <3>1
    <2>2. CASE ~ \E b \in Attempted(c) : b > a
      <3>1. CASE attempts[a].status = "COMPLETED"
        <4>1. /\ candidates[c].status \in Verdicts
              /\ [attempt |-> a, verdict |-> candidates[c].status] \in artifacts
          BY <3>1 DEF LedgerInvariant, RowsAgree, AttemptsTell, AttemptTells
        <4>2. ASSUME NEW v \in Verdicts, [attempt |-> a, verdict |-> v] \in artifacts
              PROVE  v = candidates[c].status
          BY <4>2 DEF LedgerInvariant, RowsAgree, ArtifactsTell
        <4>3. candidates[c].status
                = CHOOSE v \in Verdicts : [attempt |-> a, verdict |-> v] \in artifacts
          BY <4>1, <4>2
        <4>. QED
          BY <2>2, <3>1, <4>3
      <3>2. CASE attempts[a].status # "COMPLETED"
        <4>1. attempts[a].status \in AttemptStatus
          BY AttemptRows DEF LedgerInvariant, Attempt
        <4>2. candidates[c].status = attempts[a].status
          BY <2>2, <3>2, <4>1 DEF LedgerInvariant, RowsAgree, AttemptsTell, AttemptTells, AttemptStatus
        <4>. QED
          BY <2>2, <3>2, <4>2
      <3>. QED
        BY <3>1, <3>2
    <2>. QED
      BY <2>1, <2>2
  <1>. QED
    BY <1>1, <1>2 DEF CandidateFollowsAttempts

LEMMA InvariantLineage == LedgerInvariant => ResultLineage
  <1>. SUFFICES ASSUME LedgerInvariant PROVE ResultLineage
    OBVIOUS
  <1>1. ASSUME NEW c \in Candidates, candidates[c].status \in Verdicts
        PROVE  /\ {a \in Attempted(c) : attempts[a].status = "COMPLETED"} = {candidates[c].result}
               /\ [attempt |-> candidates[c].result, verdict |-> candidates[c].status] \in artifacts
    <2>1. /\ candidates[c].result \in Attempted(c)
          /\ attempts[candidates[c].result].status = "COMPLETED"
      BY <1>1 DEF LedgerInvariant, RowsAgree, CandidatesTell, CandidateTells
    <2>2. \A a \in Attempted(c) : attempts[a].status = "COMPLETED" =>
            /\ candidates[c].result = a
            /\ [attempt |-> a, verdict |-> candidates[c].status] \in artifacts
      BY DEF LedgerInvariant, RowsAgree, AttemptsTell, AttemptTells, Attempted
    <2>. QED
      BY <2>1, <2>2
  <1>2. ASSUME NEW r \in artifacts
        PROVE  /\ r.attempt \in DOMAIN attempts
               /\ candidates[CandidateOf(r.attempt)].result = r.attempt
               /\ candidates[CandidateOf(r.attempt)].status = r.verdict
    BY DEF LedgerInvariant, RowsAgree, ArtifactsTell, AttemptsTell, AttemptTells
  <1>3. \A c \in Null : candidates[c].status # "REGISTERED"
    BY LedgerAssumption DEF LedgerInvariant, RowsAgree, CandidatesTell, CandidateTells, Candidates
  <1>. QED
    BY <1>1, <1>2, <1>3 DEF ResultLineage

LEMMA InvariantDrained == LedgerInvariant => CompletedIsDrained
  <1>. SUFFICES ASSUME LedgerInvariant, epochStatus = "COMPLETED"
                PROVE  generationComplete /\ \A c \in Registered : candidates[c].status \in Decided
    BY DEF CompletedIsDrained
  <1>1. \A a \in DOMAIN attempts : attempts[a].status \notin ActiveStatus
    BY DEF LedgerInvariant, EpochAgrees
  <1>2. ASSUME NEW c \in Registered PROVE candidates[c].status \in Decided
    <2>1. c \in Candidates /\ candidates[c].status \in CandidateStatus \ {"ABSENT"}
      BY DEF LedgerInvariant, TypeOK, Registered
    <2>2. candidates[c].status \notin ActiveStatus
      BY <1>1, <2>1 DEF LedgerInvariant, RowsAgree, CandidatesTell, CandidateTells, Attempted
    <2>3. candidates[c].status # "CRASHED"
      BY <2>1 DEF LedgerInvariant, EpochAgrees
    <2>. QED
      BY <2>1, <2>2, <2>3 DEF CandidateStatus, ActiveStatus
  <1>. QED
    BY <1>2 DEF LedgerInvariant, EpochAgrees

LEMMA InvariantNoOrphan == LedgerInvariant => NoOrphanWhileOpen
  <1>. SUFFICES ASSUME LedgerInvariant, epochStatus # "HALTED", NEW c \in Registered,
                       candidates[c].status \notin Decided
                PROVE  Cardinality({a \in Attempted(c) : attempts[a].status \in ActiveStatus}) = 1
    BY DEF NoOrphanWhileOpen, LedgerInvariant, EpochAgrees
  <1>1. c \in Candidates /\ candidates[c].status \in ActiveStatus
    BY DEF LedgerInvariant, EpochAgrees, TypeOK, Registered, CandidateStatus, ActiveStatus
  <1>2. PICK a \in Attempted(c) : attempts[a].status = candidates[c].status
    BY <1>1 DEF LedgerInvariant, RowsAgree, CandidatesTell, CandidateTells
  <1>3. ASSUME NEW b \in Attempted(c), attempts[b].status \in ActiveStatus PROVE b = a
    <2>1. a \in Nat /\ b \in Nat
      BY AttemptRows DEF LedgerInvariant, Attempted
    <2>2. a < b => attempts[a].status = "CRASHED"
      BY DEF LedgerInvariant, RowsAgree, LaterCrashed, Attempted
    <2>3. b < a => attempts[b].status = "CRASHED"
      BY DEF LedgerInvariant, RowsAgree, LaterCrashed, Attempted
    <2>. QED
      BY <1>1, <1>2, <1>3, <2>1, <2>2, <2>3 DEF ActiveStatus
  <1>4. {b \in Attempted(c) : attempts[b].status \in ActiveStatus} = {a}
    BY <1>1, <1>2, <1>3
  <1>. QED
    BY <1>4, FS_Singleton

-----------------------------------------------------------------------------
(* What the steps do to the rows.                                          *)

\* A step that moves no candidate and no attempt: leases renewed or aged.
LEMMA RowsKept ==
  ASSUME TypeOK, RowsAgree,
         UNCHANGED <<candidates, artifacts>>,
         DOMAIN attempts' = DOMAIN attempts,
         \A a \in DOMAIN attempts : /\ attempts'[a].candidate = attempts[a].candidate
                                    /\ attempts'[a].status = attempts[a].status
  PROVE  RowsAgree'
  <1>1. \A c : Attempted(c)' = Attempted(c)
    BY DEF Attempted, CandidateOf
  <1>2. Registered' = Registered /\ \A a \in DOMAIN attempts : CandidateOf(a)' = CandidateOf(a)
    BY DEF Registered, CandidateOf
  <1>3. RegisteredAttempted'
    BY <1>1, <1>2 DEF RowsAgree, RegisteredAttempted
  <1>4. LaterCrashed'
    BY <1>2 DEF RowsAgree, LaterCrashed
  <1>5. AttemptsTell'
    BY <1>1, <1>2 DEF RowsAgree, AttemptsTell, AttemptTells
  <1>6. CandidatesTell'
    BY <1>1, <1>2 DEF RowsAgree, CandidatesTell, CandidateTells, Attempted
  <1>7. ArtifactsTell'
    BY <1>2 DEF RowsAgree, ArtifactsTell
  <1>. QED
    BY <1>3, <1>4, <1>5, <1>6, <1>7 DEF RowsAgree

\* A step that moves one active attempt and, in the same transaction, its
\* candidate: start, complete and fail.
MovesTo(a, status, verdict) ==
  LET c == CandidateOf(a) IN
  /\ attempts[a].status \in ActiveStatus
  /\ DOMAIN attempts' = DOMAIN attempts
  /\ \A b \in DOMAIN attempts \ {a} : attempts'[b] = attempts[b]
  /\ attempts'[a].candidate = attempts[a].candidate /\ attempts'[a].status = status
  /\ attempts'[a].number = attempts[a].number
  /\ candidates'[c].ordinal = candidates[c].ordinal
  /\ \A d \in Candidates \ {c} : candidates'[d] = candidates[d]
  /\ \/ /\ status \in {"RUNNING", "FAILED"}
        /\ candidates'[c].status = status
        /\ artifacts' = artifacts
     \/ /\ status = "COMPLETED"
        /\ verdict \in Verdicts /\ (verdict = "REGISTERED" => c \in Real)
        /\ candidates'[c].status = verdict /\ candidates'[c].result = a
        /\ artifacts' = artifacts \cup {[attempt |-> a, verdict |-> verdict]}

LEMMA RowsMoved ==
  ASSUME TypeOK, RowsAgree, NEW a \in DOMAIN attempts, NEW status, NEW verdict,
         MovesTo(a, status, verdict)
  PROVE  RowsAgree'
  <1> DEFINE c == CandidateOf(a)
  <1>1. \A d : Attempted(d)' = Attempted(d)
    BY DEF Attempted, CandidateOf, MovesTo
  <1>2. \A b \in DOMAIN attempts : CandidateOf(b)' = CandidateOf(b) /\ CandidateOf(b) \in Candidates
    BY AttemptRows DEF CandidateOf, MovesTo
  <1>3. /\ c \in Candidates
        /\ candidates[c].status = attempts[a].status
        /\ attempts[a].status \in ActiveStatus
    BY <1>2 DEF RowsAgree, AttemptsTell, AttemptTells, MovesTo
  <1>4. candidates'[c].status \in {"RUNNING", "FAILED"} \cup Verdicts
    BY DEF MovesTo
  <1>5. Registered' = Registered
    <2>1. c \in Registered /\ c \in Registered'
      BY <1>3, <1>4 DEF Registered, ActiveStatus, Verdicts
    <2>2. \A d \in Candidates \ {c} : candidates'[d] = candidates[d]
      BY DEF MovesTo
    <2>. QED
      BY <2>1, <2>2 DEF Registered
  <1>6. \A b \in Attempted(c) : b # a => b < a /\ attempts[b].status = "CRASHED"
    BY <1>3, AttemptRows DEF RowsAgree, LaterCrashed, Attempted, ActiveStatus
  <1>7. RegisteredAttempted'
    BY <1>1, <1>5 DEF RowsAgree, RegisteredAttempted
  <1>8. LaterCrashed'
    <2>. SUFFICES ASSUME NEW x \in DOMAIN attempts, NEW y \in DOMAIN attempts,
                         x < y, CandidateOf(x) = CandidateOf(y)
                  PROVE  attempts'[x].status = "CRASHED"
      BY <1>2 DEF LaterCrashed, MovesTo
    <2>1. attempts[x].status = "CRASHED"
      BY DEF RowsAgree, LaterCrashed
    <2>2. x # a
      BY <1>3, <2>1 DEF ActiveStatus
    <2>. QED
      BY <2>1, <2>2 DEF MovesTo
  <1>9. AttemptsTell'
    <2>. SUFFICES ASSUME NEW b \in DOMAIN attempts
                  PROVE  LET d == CandidateOf(b) IN
                         /\ attempts'[b].status \in ActiveStatus \cup {"FAILED"} =>
                              candidates'[d].status = attempts'[b].status
                         /\ attempts'[b].status = "COMPLETED" =>
                              /\ candidates'[d].status \in Verdicts
                              /\ candidates'[d].result = b
                              /\ [attempt |-> b, verdict |-> candidates'[d].status] \in artifacts'
                         /\ attempts'[b].status = "CRASHED" =>
                              candidates'[d].status = "CRASHED" \/ \E e \in Attempted(d) : e > b
      BY <1>1, <1>2 DEF AttemptsTell, AttemptTells, MovesTo
    <2>1. CASE b = a
      BY <2>1 DEF MovesTo, ActiveStatus
    <2>2. CASE b # a /\ CandidateOf(b) = c
      <3>1. b < a /\ attempts[b].status = "CRASHED" /\ a \in Attempted(c)
        BY <1>6, <2>2 DEF Attempted
      <3>2. attempts'[b].status = "CRASHED"
        BY <2>2, <3>1 DEF MovesTo
      <3>3. \E e \in Attempted(c) : e > b
        BY <3>1, AttemptRows
      <3>. QED
        BY <2>2, <3>2, <3>3 DEF ActiveStatus
    <2>3. CASE CandidateOf(b) # c
      <3>1. candidates'[CandidateOf(b)] = candidates[CandidateOf(b)]
            /\ attempts'[b].status = attempts[b].status /\ artifacts \subseteq artifacts'
        BY <1>2, <2>3 DEF MovesTo
      <3>. QED
        BY <3>1 DEF RowsAgree, AttemptsTell, AttemptTells
    <2>. QED
      BY <2>1, <2>2, <2>3
  <1>10. CandidatesTell'
    <2>. SUFFICES ASSUME NEW d \in Candidates
                  PROVE  /\ candidates'[d].status \in ActiveStatus =>
                              \E b \in Attempted(d) : attempts'[b].status = candidates'[d].status
                         /\ candidates'[d].status \in Verdicts =>
                              /\ candidates'[d].result \in Attempted(d)
                              /\ attempts'[candidates'[d].result].status = "COMPLETED"
                         /\ candidates'[d].status = "REGISTERED" => d \in Real
      BY <1>1 DEF CandidatesTell, CandidateTells
    <2>1. CASE d = c
      <3>1. a \in Attempted(c)
        BY DEF Attempted
      <3>. QED
        BY <2>1, <3>1 DEF MovesTo, ActiveStatus, Verdicts
    <2>2. CASE d # c
      <3>1. candidates'[d] = candidates[d]
            /\ \A b \in Attempted(d) : attempts'[b].status = attempts[b].status
        BY <2>2 DEF MovesTo, Attempted
      <3>. QED
        BY <3>1 DEF RowsAgree, CandidatesTell, CandidateTells
    <2>. QED
      BY <2>1, <2>2
  <1>11. ArtifactsTell'
    <2>. SUFFICES ASSUME NEW r \in artifacts'
                  PROVE  /\ r.attempt \in DOMAIN attempts
                         /\ attempts'[r.attempt].status = "COMPLETED"
                         /\ candidates'[CandidateOf(r.attempt)].status = r.verdict
      BY <1>2 DEF ArtifactsTell, MovesTo
    <2>1. CASE r \in artifacts
      <3>1. /\ r.attempt \in DOMAIN attempts
            /\ attempts[r.attempt].status = "COMPLETED"
            /\ candidates[CandidateOf(r.attempt)].status = r.verdict
        BY <2>1 DEF RowsAgree, ArtifactsTell
      <3>2. r.attempt # a
        BY <1>3, <3>1 DEF ActiveStatus
      <3>3. CandidateOf(r.attempt) # c
        BY <1>6, <3>1, <3>2 DEF Attempted
      <3>. QED
        BY <1>2, <3>1, <3>2, <3>3 DEF MovesTo
    <2>2. CASE r = [attempt |-> a, verdict |-> verdict] /\ status = "COMPLETED"
      BY <2>2 DEF MovesTo
    <2>. QED
      BY <2>1, <2>2 DEF MovesTo
  <1>. QED
    BY <1>7, <1>8, <1>9, <1>10, <1>11 DEF RowsAgree

\* Registration appends the first attempt of a candidate that had no row.
LEMMA RowsRegistered ==
  ASSUME TypeOK, TypeOK', RowsAgree, NEW c \in Candidates, RegisterCandidate(c)
  PROVE  RowsAgree'
  <1>0. PICK n : n = Len(attempts) + 1
    OBVIOUS
  <1>1. Len(attempts) \in Nat /\ DOMAIN attempts = 1 .. Len(attempts)
    BY AttemptRows
  <1>2. /\ DOMAIN attempts' = 1 .. n
        /\ attempts'[n] = NewAttempt(c, 1)
        /\ \A a \in DOMAIN attempts : attempts'[a] = attempts[a]
    <2>1. attempts \in Seq(Attempt) /\ NewAttempt(c, 1) \in Attempt
      <3>1. attempts \in Seq(Attempt)
        BY Zenon DEF TypeOK
      <3>2. 1 \in Nat \ {0}
        OBVIOUS
      <3>3. NewAttempt(c, 1) \in Attempt
        BY <3>2, NewAttemptRow, Zenon
      <3>. QED
        BY <3>1, <3>3
    <2>2. attempts' = Append(attempts, NewAttempt(c, 1))
      BY DEF RegisterCandidate
    <2>3. attempts' \in Seq(Attempt) /\ Len(attempts') = n
      BY <1>0, <2>1, <2>2, AppendProperties
    <2>4. attempts'[n] = NewAttempt(c, 1) /\ \A a \in 1 .. Len(attempts) : attempts'[a] = attempts[a]
      BY <1>0, <2>1, <2>2, AppendProperties
    <2>. QED
      BY <1>0, <1>1, <2>3, <2>4, LenProperties
  <1>3. n \notin DOMAIN attempts /\ DOMAIN attempts' = DOMAIN attempts \cup {n}
        /\ \A a \in DOMAIN attempts : a < n
    BY <1>0, <1>1, <1>2
  <1>4. attempts'[n].candidate = c /\ attempts'[n].status = "QUEUED"
    BY <1>2, NewAttemptRow
  <1>5. CandidateOf(n)' = c
        /\ \A a \in DOMAIN attempts : CandidateOf(a)' = CandidateOf(a) /\ CandidateOf(a) \in Candidates
    BY <1>2, <1>4, AttemptRows DEF CandidateOf
  <1>6. candidates[c].status = "ABSENT" /\ Attempted(c) = {}
    BY DEF RegisterCandidate, Registered, RowsAgree, RegisteredAttempted
  <1>7. /\ candidates'[c].status = "QUEUED"
        /\ \A d \in Candidates \ {c} : candidates'[d] = candidates[d]
        /\ artifacts' = artifacts
    BY DEF RegisterCandidate, TypeOK
  <1>8. Attempted(c)' = {n} /\ \A d \in Candidates \ {c} : Attempted(d)' = Attempted(d)
    BY <1>3, <1>5, <1>6 DEF Attempted
  <1>9. \A a \in DOMAIN attempts : CandidateOf(a) # c
    BY <1>6 DEF Attempted
  <1>10. RegisteredAttempted'
    BY <1>7, <1>8 DEF RowsAgree, RegisteredAttempted, Registered
  <1>11. LaterCrashed'
    <2>. SUFFICES ASSUME NEW x \in DOMAIN attempts', NEW y \in DOMAIN attempts',
                         x < y, CandidateOf(x)' = CandidateOf(y)'
                  PROVE  attempts'[x].status = "CRASHED"
      BY DEF LaterCrashed
    <2>1. x \in DOMAIN attempts
      BY <1>0, <1>1, <1>3
    <2>2. y \in DOMAIN attempts
      BY <1>3, <1>5, <1>9, <2>1
    <2>. QED
      BY <1>2, <1>5, <2>1, <2>2 DEF RowsAgree, LaterCrashed
  <1>12. AttemptsTell'
    <2>. SUFFICES ASSUME NEW a \in DOMAIN attempts'
                  PROVE  AttemptTells(a)'
      BY DEF AttemptsTell
    <2>1. CASE a = n
      BY <1>4, <1>5, <1>7, <2>1 DEF AttemptTells
    <2>2. CASE a \in DOMAIN attempts
      <3>1. /\ CandidateOf(a)' = CandidateOf(a) /\ attempts'[a] = attempts[a]
            /\ candidates'[CandidateOf(a)] = candidates[CandidateOf(a)]
            /\ Attempted(CandidateOf(a))' = Attempted(CandidateOf(a))
        BY <1>2, <1>5, <1>7, <1>8, <1>9, <2>2
      <3>. QED
        BY <1>7, <2>2, <3>1 DEF RowsAgree, AttemptsTell, AttemptTells
    <2>. QED
      BY <1>3, <2>1, <2>2
  <1>13. CandidatesTell'
    <2>. SUFFICES ASSUME NEW d \in Candidates
                  PROVE  CandidateTells(d)'
      BY DEF CandidatesTell
    <2>1. CASE d = c
      BY <1>4, <1>7, <1>8, <2>1 DEF CandidateTells, Verdicts
    <2>2. CASE d # c
      <3>1. /\ candidates'[d] = candidates[d] /\ Attempted(d)' = Attempted(d)
            /\ \A b \in Attempted(d) : attempts'[b] = attempts[b]
        BY <1>2, <1>7, <1>8, <2>2 DEF Attempted
      <3>. QED
        BY <3>1 DEF RowsAgree, CandidatesTell, CandidateTells
    <2>. QED
      BY <2>1, <2>2
  <1>14. ArtifactsTell'
    <2>. SUFFICES ASSUME NEW r \in artifacts
                  PROVE  /\ r.attempt \in DOMAIN attempts'
                         /\ attempts'[r.attempt].status = "COMPLETED"
                         /\ candidates'[CandidateOf(r.attempt)'].status = r.verdict
      BY <1>7 DEF ArtifactsTell
    <2>1. /\ r.attempt \in DOMAIN attempts
          /\ attempts[r.attempt].status = "COMPLETED"
          /\ candidates[CandidateOf(r.attempt)].status = r.verdict
      BY DEF RowsAgree, ArtifactsTell
    <2>. QED
      BY <1>2, <1>3, <1>5, <1>7, <1>9, <2>1
  <1>. QED
    BY <1>10, <1>11, <1>12, <1>13, <1>14 DEF RowsAgree

\* Recovery, seen from one candidate: the walk meets at most one of its attempts,
\* the one that is RUNNING, and retries it unless it is the one that halts.
WalkSeen(walk, n) ==
  LET k == Len(attempts)
      m == Retries(n)
  IN
  /\ n \in Nat \ {0} /\ m \in Nat /\ (m = n - 1 \/ m = n)
  /\ k \in Nat /\ DOMAIN attempts = 1 .. k /\ DOMAIN attempts' = 1 .. k + m
  /\ \A i \in 1 .. n : /\ walk[i] \in DOMAIN attempts
                      /\ attempts[walk[i]].status = "RUNNING"
                      /\ CandidateOf(walk[i]) \in Candidates
                      /\ candidates[CandidateOf(walk[i])].status = "RUNNING"
                      /\ attempts'[walk[i]].status = "CRASHED"
                      /\ attempts'[walk[i]].candidate = CandidateOf(walk[i])
                      /\ attempts'[walk[i]].number = attempts[walk[i]].number
  /\ \A i, j \in 1 .. n : CandidateOf(walk[i]) = CandidateOf(walk[j]) => i = j
  /\ \A b \in DOMAIN attempts : (\A i \in 1 .. n : walk[i] # b) => attempts'[b] = attempts[b]
  /\ \A i \in 1 .. m : /\ k + i \in DOMAIN attempts' \ DOMAIN attempts
                      /\ attempts'[k + i].status = "QUEUED"
                      /\ attempts'[k + i].candidate = CandidateOf(walk[i])
                      /\ attempts'[k + i].number = attempts[walk[i]].number + 1
  /\ \A b \in DOMAIN attempts' \ DOMAIN attempts : \E i \in 1 .. m : b = k + i
  /\ \A b \in DOMAIN attempts : b \in DOMAIN attempts' /\ attempts'[b].candidate = CandidateOf(b)
  /\ \A i \in 1 .. n : LET c == CandidateOf(walk[i]) IN
       /\ i \in 1 .. m => /\ candidates'[c].status = "QUEUED"
                          /\ events'[c] = events[c] \o <<"ATTEMPT_CRASHED", "ATTEMPT_RETRY_QUEUED">>
       /\ i \notin 1 .. m => /\ candidates'[c].status = "CRASHED"
                             /\ events'[c] = events[c] \o <<"ATTEMPT_CRASHED">>
       /\ candidates'[c].ordinal = candidates[c].ordinal
  /\ \A c \in Candidates : (\A i \in 1 .. n : CandidateOf(walk[i]) # c) =>
       /\ candidates'[c] = candidates[c] /\ events'[c] = events[c]
       /\ Attempted(c)' = Attempted(c) /\ \A a \in Attempted(c) : attempts'[a] = attempts[a]

LEMMA RecoverySeen ==
  ASSUME TypeOK, TypeOK', RowsAgree, NEW wait \in 0 .. MaxWait, RecoverStaleAttempts(wait)
  PROVE  \E n \in Nat, walk \in Ascending(Stale(wait)) :
           CrashAlong(walk, n) /\ RecoveredRows(walk, n) /\ WalkSeen(walk, n)
  <1>1. PICK n \in Nat, walk \in Ascending(Stale(wait)) :
          CrashAlong(walk, n) /\ RecoveredRows(walk, n)
    BY RecoveryRows
  <1> DEFINE k == Len(attempts)
             m == Retries(n)
  <1>2. /\ k \in Nat /\ DOMAIN attempts = 1 .. k /\ DOMAIN attempts' = 1 .. k + m
        /\ m \in Nat /\ n \in Nat \ {0} /\ (m = n - 1 \/ m = n)
    BY <1>1, AttemptRows DEF RecoveredRows
  <1>3. \A i \in 1 .. n : /\ walk[i] \in DOMAIN attempts
                          /\ attempts[walk[i]].status = "RUNNING"
                          /\ CandidateOf(walk[i]) \in Candidates
                          /\ candidates[CandidateOf(walk[i])].status = "RUNNING"
                          /\ attempts'[walk[i]].status = "CRASHED"
                          /\ attempts'[walk[i]].candidate = CandidateOf(walk[i])
                          /\ attempts'[walk[i]].number = attempts[walk[i]].number
    <2>. SUFFICES ASSUME NEW i \in 1 .. n
                  PROVE  /\ walk[i] \in DOMAIN attempts
                         /\ attempts[walk[i]].status = "RUNNING"
                         /\ CandidateOf(walk[i]) \in Candidates
                         /\ candidates[CandidateOf(walk[i])].status = "RUNNING"
                         /\ attempts'[walk[i]].status = "CRASHED"
                         /\ attempts'[walk[i]].candidate = CandidateOf(walk[i])
                         /\ attempts'[walk[i]].number = attempts[walk[i]].number
      OBVIOUS
    <2>1. walk[i] \in DOMAIN attempts /\ attempts[walk[i]].status = "RUNNING"
      BY <1>1 DEF RecoveredRows, Running
    <2>2. attempts'[walk[i]] = Finished(attempts[walk[i]], "CRASHED", TRUE)
      BY <1>1 DEF RecoveredRows
    <2>3. /\ attempts'[walk[i]].status = "CRASHED"
          /\ attempts'[walk[i]].candidate = CandidateOf(walk[i])
          /\ attempts'[walk[i]].number = attempts[walk[i]].number
      BY <2>2 DEF Finished, CandidateOf
    <2>. QED
      BY <2>1, <2>3, AttemptRows DEF RowsAgree, AttemptsTell, AttemptTells, ActiveStatus
  <1>4. \A i, j \in 1 .. n : CandidateOf(walk[i]) = CandidateOf(walk[j]) => i = j
    <2>1. \A i, j \in 1 .. n : walk[i] = walk[j] => i = j
      BY <1>1 DEF RecoveredRows
    <2>2. ASSUME NEW i \in 1 .. n, NEW j \in 1 .. n, CandidateOf(walk[i]) = CandidateOf(walk[j])
          PROVE  walk[i] = walk[j]
      <3>1. walk[i] \in Nat /\ walk[j] \in Nat
        BY <1>2, <1>3
      <3>2. ~(walk[i] < walk[j]) /\ ~(walk[j] < walk[i])
        BY <1>3, <2>2 DEF RowsAgree, LaterCrashed
      <3>. QED
        BY <3>1, <3>2
    <2>. QED
      BY <2>1, <2>2
  <1>5. \A b \in DOMAIN attempts : (\A i \in 1 .. n : walk[i] # b) => attempts'[b] = attempts[b]
    BY <1>1 DEF RecoveredRows
  <1>6. \A i \in 1 .. m : /\ k + i \in DOMAIN attempts' \ DOMAIN attempts
                          /\ attempts'[k + i].status = "QUEUED"
                          /\ attempts'[k + i].candidate = CandidateOf(walk[i])
                          /\ attempts'[k + i].number = attempts[walk[i]].number + 1
    <2>. SUFFICES ASSUME NEW i \in 1 .. m
                  PROVE  /\ k + i \in DOMAIN attempts' \ DOMAIN attempts
                         /\ attempts'[k + i].status = "QUEUED"
                         /\ attempts'[k + i].candidate = CandidateOf(walk[i])
                         /\ attempts'[k + i].number = attempts[walk[i]].number + 1
      OBVIOUS
    <2>1. attempts'[k + i] = NewAttempt(CandidateOf(walk[i]), attempts[walk[i]].number + 1)
      BY <1>1 DEF RecoveredRows
    <2>. QED
      BY <1>2, <2>1 DEF NewAttempt
  <1>7. \A b \in DOMAIN attempts' \ DOMAIN attempts : \E i \in 1 .. m : b = k + i
    <2>1. ASSUME NEW b \in DOMAIN attempts' \ DOMAIN attempts PROVE \E i \in 1 .. m : b = k + i
      <3>1. b - k \in 1 .. m /\ b = k + (b - k)
        BY <1>2
      <3>. QED
        BY <3>1
    <2>. QED
      BY <2>1
  <1>8. \A b \in DOMAIN attempts : b \in DOMAIN attempts' /\ attempts'[b].candidate = CandidateOf(b)
    <2>. SUFFICES ASSUME NEW b \in DOMAIN attempts
                  PROVE  b \in DOMAIN attempts' /\ attempts'[b].candidate = CandidateOf(b)
      OBVIOUS
    <2>1. b \in DOMAIN attempts'
      BY <1>2
    <2>2. CASE \E i \in 1 .. n : walk[i] = b
      BY <1>3, <2>1, <2>2
    <2>3. CASE \A i \in 1 .. n : walk[i] # b
      <3>1. attempts'[b] = attempts[b]
        BY <1>5, <2>3, Zenon
      <3>. QED
        BY <2>1, <3>1 DEF CandidateOf
    <2>. QED
      BY <2>2, <2>3
  <1>9. ASSUME NEW i \in 1 .. n
        PROVE  LET c == CandidateOf(walk[i]) IN
               /\ i \in 1 .. m =>
                    /\ candidates'[c].status = "QUEUED"
                    /\ events'[c] = events[c] \o <<"ATTEMPT_CRASHED", "ATTEMPT_RETRY_QUEUED">>
               /\ i \notin 1 .. m => /\ candidates'[c].status = "CRASHED"
                                     /\ events'[c] = events[c] \o <<"ATTEMPT_CRASHED">>
               /\ candidates'[c].ordinal = candidates[c].ordinal
    <2> DEFINE c == CandidateOf(walk[i])
    <2>1. c \in Candidates /\ candidates[c] \in [status : CandidateStatus, ordinal : Nat, result : Nat]
      BY <1>3 DEF TypeOK
    <2>2. CASE i \in 1 .. m
      <3>1. \E a \in {walk[j] : j \in 1 .. m} : CandidateOf(a) = c
        BY <2>2
      <3>2. \E a \in {walk[j] : j \in 1 .. n} : CandidateOf(a) = c
        OBVIOUS
      <3>3. candidates'[c] = [candidates[c] EXCEPT !.status = "QUEUED"]
        BY <1>1, <2>1, <3>1 DEF CrashAlong
      <3>4. events'[c] = events[c] \o CrashEvents(TRUE)
        BY <1>1, <2>1, <3>1, <3>2 DEF CrashAlong, CrashEvents
      <3>. QED
        BY <2>1, <2>2, <3>3, <3>4 DEF CrashEvents
    <2>3. CASE i \notin 1 .. m
      <3>1. ~ \E a \in {walk[j] : j \in 1 .. m} : CandidateOf(a) = c
        BY <1>2, <1>4, <2>3
      <3>2. \E a \in {walk[j] : j \in 1 .. n} : CandidateOf(a) = c
        OBVIOUS
      <3>3. candidates'[c] = [candidates[c] EXCEPT !.status = "CRASHED"]
        BY <1>1, <2>1, <3>1, <3>2 DEF CrashAlong
      <3>4. events'[c] = events[c] \o CrashEvents(FALSE)
        BY <1>1, <2>1, <3>1, <3>2 DEF CrashAlong, CrashEvents
      <3>. QED
        BY <2>1, <2>3, <3>3, <3>4 DEF CrashEvents
    <2>. QED
      BY <2>2, <2>3
  <1>10. ASSUME NEW c \in Candidates, \A i \in 1 .. n : CandidateOf(walk[i]) # c
         PROVE  candidates'[c] = candidates[c] /\ events'[c] = events[c]
    <2>1. ~ \E a \in {walk[j] : j \in 1 .. n} : CandidateOf(a) = c
      BY <1>10
    <2>2. ~ \E a \in {walk[j] : j \in 1 .. m} : CandidateOf(a) = c
      BY <1>2, <1>10
    <2>. QED
      BY <1>1, <2>1, <2>2 DEF CrashAlong
  <1>11. ASSUME NEW c \in Candidates, \A i \in 1 .. n : CandidateOf(walk[i]) # c
         PROVE  Attempted(c)' = Attempted(c) /\ \A a \in Attempted(c) : attempts'[a] = attempts[a]
    <2>1. \A a \in Attempted(c) : a \in DOMAIN attempts /\ attempts'[a] = attempts[a]
      BY <1>5, <1>11 DEF Attempted
    <2>2. \A a \in DOMAIN attempts' \ DOMAIN attempts : attempts'[a].candidate # c
      BY <1>2, <1>6, <1>7, <1>11
    <2>3. \A a \in DOMAIN attempts' : attempts'[a].candidate = c <=> a \in Attempted(c)
      BY <1>8, <2>2 DEF Attempted
    <2>. QED
      BY <1>8, <2>1, <2>3 DEF Attempted, CandidateOf
  <1>12. WalkSeen(walk, n)
    BY <1>2, <1>3, <1>4, <1>5, <1>6, <1>7, <1>8, <1>9, <1>10, <1>11, Zenon DEF WalkSeen
  <1>. QED
    BY <1>1, <1>12

LEMMA RowsRecovered ==
  ASSUME TypeOK, TypeOK', RowsAgree, NEW wait \in 0 .. MaxWait, RecoverStaleAttempts(wait)
  PROVE  /\ RowsAgree'
         /\ epochStatus' # "HALTED" => \A c \in Candidates :
              candidates'[c].status = "CRASHED" => candidates[c].status = "CRASHED"
  <1>1. PICK n \in Nat, walk \in Ascending(Stale(wait)) :
          CrashAlong(walk, n) /\ RecoveredRows(walk, n) /\ WalkSeen(walk, n)
    BY RecoverySeen
  <1> DEFINE k == Len(attempts)
             m == Retries(n)
  <1>2. /\ k \in Nat /\ DOMAIN attempts = 1 .. k /\ DOMAIN attempts' = 1 .. k + m
        /\ m \in Nat /\ n \in Nat \ {0} /\ (m = n - 1 \/ m = n)
    BY <1>1 DEF WalkSeen
  <1>3. \A i \in 1 .. n : /\ walk[i] \in DOMAIN attempts
                          /\ attempts[walk[i]].status = "RUNNING"
                          /\ CandidateOf(walk[i]) \in Candidates
                          /\ candidates[CandidateOf(walk[i])].status = "RUNNING"
                          /\ attempts'[walk[i]].status = "CRASHED"
                          /\ attempts'[walk[i]].candidate = CandidateOf(walk[i])
    BY <1>1, Zenon DEF WalkSeen
  <1>4. \A i, j \in 1 .. n : CandidateOf(walk[i]) = CandidateOf(walk[j]) => i = j
    BY <1>1, Zenon DEF WalkSeen
  <1>5. \A b \in DOMAIN attempts : (\A i \in 1 .. n : walk[i] # b) => attempts'[b] = attempts[b]
    BY <1>1, Zenon DEF WalkSeen
  <1>6. \A i \in 1 .. m : /\ k + i \in DOMAIN attempts' \ DOMAIN attempts
                          /\ attempts'[k + i].status = "QUEUED"
                          /\ attempts'[k + i].candidate = CandidateOf(walk[i])
    BY <1>1, Zenon DEF WalkSeen
  <1>7. \A b \in DOMAIN attempts' \ DOMAIN attempts : \E i \in 1 .. m : b = k + i
    BY <1>1, Zenon DEF WalkSeen
  <1>8. \A b \in DOMAIN attempts : b \in DOMAIN attempts' /\ attempts'[b].candidate = CandidateOf(b)
    BY <1>1, Zenon DEF WalkSeen
  <1>9. ASSUME NEW i \in 1 .. n
        PROVE  LET c == CandidateOf(walk[i]) IN
               /\ i \in 1 .. m => candidates'[c].status = "QUEUED"
               /\ i \notin 1 .. m => candidates'[c].status = "CRASHED"
    BY <1>1, Zenon DEF WalkSeen
  <1>10. ASSUME NEW c \in Candidates, \A i \in 1 .. n : CandidateOf(walk[i]) # c
         PROVE  candidates'[c] = candidates[c]
    BY <1>1, <1>10, Zenon DEF WalkSeen
  <1>11. artifacts' = artifacts
    BY DEF RecoverStaleAttempts
  <1>12. ASSUME NEW c \in Candidates, \A i \in 1 .. n : CandidateOf(walk[i]) # c
         PROVE  Attempted(c)' = Attempted(c) /\ \A a \in Attempted(c) : attempts'[a] = attempts[a]
    BY <1>1, <1>12, Zenon DEF WalkSeen
  <1>13. RegisteredAttempted'
    <2>. SUFFICES ASSUME NEW c \in Candidates
                  PROVE  candidates'[c].status # "ABSENT" <=> Attempted(c)' # {}
      BY DEF RegisteredAttempted, Registered
    <2>1. ASSUME NEW i \in 1 .. n, CandidateOf(walk[i]) = c
          PROVE  candidates'[c].status # "ABSENT" /\ Attempted(c)' # {}
      <3>1. walk[i] \in DOMAIN attempts' /\ attempts'[walk[i]].candidate = c
        BY <1>3, <1>8, <2>1
      <3>. QED
        BY <1>9, <2>1, <3>1 DEF Attempted, CandidateOf
    <2>2. CASE \A i \in 1 .. n : CandidateOf(walk[i]) # c
      BY <1>10, <1>12, <2>2 DEF RowsAgree, RegisteredAttempted, Registered
    <2>. QED
      BY <2>1, <2>2
  <1>14. LaterCrashed'
    <2>. SUFFICES ASSUME NEW x \in DOMAIN attempts', NEW y \in DOMAIN attempts',
                         x < y, attempts'[x].candidate = attempts'[y].candidate
                  PROVE  attempts'[x].status = "CRASHED"
      BY DEF LaterCrashed, CandidateOf
    <2>1. ASSUME x \in DOMAIN attempts, NEW i \in 1 .. n, walk[i] = x
          PROVE  attempts'[x].status = "CRASHED"
      BY <1>3, <2>1
    <2>2. CASE x \in DOMAIN attempts /\ \A i \in 1 .. n : walk[i] # x
      <3>1. attempts'[x] = attempts[x]
        BY <1>5, <2>2
      <3>2. CASE y \in DOMAIN attempts
        BY <1>8, <2>2, <3>1, <3>2 DEF RowsAgree, LaterCrashed
      <3>3. CASE y \notin DOMAIN attempts
        <4>1. PICK i \in 1 .. m : y = k + i
          BY <1>7, <3>3
        <4>2. i \in 1 .. n /\ CandidateOf(walk[i]) = CandidateOf(x)
          BY <1>2, <1>6, <1>8, <2>2, <4>1
        <4>3. walk[i] \in DOMAIN attempts /\ attempts[walk[i]].status = "RUNNING" /\ walk[i] # x
          BY <1>3, <2>2, <4>2
        <4>4. ~(walk[i] < x)
          BY <4>2, <4>3, <2>2 DEF RowsAgree, LaterCrashed
        <4>5. x < walk[i]
          BY <1>2, <2>2, <4>3, <4>4
        <4>6. attempts[x].status = "CRASHED"
          BY <2>2, <4>2, <4>3, <4>5 DEF RowsAgree, LaterCrashed
        <4>. QED
          BY <3>1, <4>6
      <3>. QED
        BY <3>2, <3>3
    <2>3. CASE x \notin DOMAIN attempts
      <3>1. y \notin DOMAIN attempts
        BY <1>2, <2>3
      <3>2. PICK i \in 1 .. m, j \in 1 .. m : x = k + i /\ y = k + j
        BY <1>7, <2>3, <3>1
      <3>3. i \in 1 .. n /\ j \in 1 .. n /\ CandidateOf(walk[i]) = CandidateOf(walk[j])
        BY <1>2, <1>6, <3>2
      <3>. QED
        BY <1>2, <1>4, <3>2, <3>3
    <2>. QED
      BY <2>1, <2>2, <2>3
  <1>15. ASSUME NEW a \in DOMAIN attempts' PROVE AttemptTells(a)'
    <2>1. ASSUME NEW i \in 1 .. n, walk[i] = a PROVE AttemptTells(a)'
      <3> DEFINE c == CandidateOf(walk[i])
      <3>1. attempts'[a].status = "CRASHED" /\ attempts'[a].candidate = c
        BY <1>3, <2>1
      <3>2. CASE i \in 1 .. m
        <4>1. /\ k + i \in DOMAIN attempts' /\ attempts'[k + i].candidate = c
              /\ k + i > a
          BY <1>2, <1>3, <1>6, <2>1, <3>2
        <4>. QED
          BY <3>1, <4>1 DEF AttemptTells, Attempted, CandidateOf, ActiveStatus
      <3>3. CASE i \notin 1 .. m
        BY <1>9, <3>1, <3>3 DEF AttemptTells, CandidateOf, ActiveStatus
      <3>. QED
        BY <3>2, <3>3
    <2>2. CASE a \in DOMAIN attempts /\ \A i \in 1 .. n : walk[i] # a
      <3> DEFINE c == CandidateOf(a)
      <3>1. attempts'[a] = attempts[a] /\ attempts'[a].candidate = c /\ c \in Candidates
        BY <1>5, <1>8, <2>2, AttemptRows
      <3>2. ASSUME NEW i \in 1 .. n, CandidateOf(walk[i]) = c PROVE AttemptTells(a)'
        <4>1. walk[i] \in DOMAIN attempts /\ attempts[walk[i]].status = "RUNNING" /\ walk[i] # a
          BY <1>3, <2>2
        <4>2. ~(walk[i] < a)
          BY <2>2, <3>2, <4>1 DEF RowsAgree, LaterCrashed
        <4>3. a < walk[i]
          BY <1>2, <2>2, <4>1, <4>2
        <4>4. attempts[a].status = "CRASHED"
          BY <2>2, <3>2, <4>1, <4>3 DEF RowsAgree, LaterCrashed
        <4>5. walk[i] \in DOMAIN attempts' /\ attempts'[walk[i]].candidate = c /\ walk[i] > a
          BY <1>3, <1>8, <3>2, <4>3, <1>2, <2>2
        <4>. QED
          BY <3>1, <4>4, <4>5 DEF AttemptTells, Attempted, CandidateOf, ActiveStatus
      <3>3. CASE \A i \in 1 .. n : CandidateOf(walk[i]) # c
        <4>1. candidates'[c] = candidates[c]
          BY <1>10, <3>1, <3>3
        <4>2. AttemptTells(a)
          BY <2>2 DEF RowsAgree, AttemptsTell
        <4>3. \A b \in DOMAIN attempts : CandidateOf(b) = c =>
                b \in DOMAIN attempts' /\ attempts'[b].candidate = c
          BY <1>8
        <4>. QED
          BY <1>11, <3>1, <4>1, <4>2, <4>3 DEF AttemptTells, Attempted, CandidateOf
      <3>. QED
        BY <3>2, <3>3
    <2>3. CASE a \notin DOMAIN attempts
      <3>1. PICK i \in 1 .. m : a = k + i
        BY <1>7, <2>3
      <3>2. attempts'[a].status = "QUEUED" /\ attempts'[a].candidate = CandidateOf(walk[i])
        BY <1>6, <3>1
      <3>3. candidates'[CandidateOf(walk[i])].status = "QUEUED"
        BY <1>2, <1>9
      <3>. QED
        BY <3>2, <3>3 DEF AttemptTells, CandidateOf
    <2>. QED
      BY <2>1, <2>2, <2>3
  <1>16. ASSUME NEW c \in Candidates PROVE CandidateTells(c)'
    <2>1. ASSUME NEW i \in 1 .. m, CandidateOf(walk[i]) = c PROVE CandidateTells(c)'
      <3>1. candidates'[c].status = "QUEUED"
        BY <1>2, <1>9, <2>1
      <3>2. k + i \in DOMAIN attempts' /\ attempts'[k + i].candidate = c
            /\ attempts'[k + i].status = "QUEUED"
        BY <1>6, <2>1
      <3>. QED
        BY <3>1, <3>2 DEF CandidateTells, Attempted, CandidateOf, Verdicts
    <2>2. ASSUME NEW i \in 1 .. n, i \notin 1 .. m, CandidateOf(walk[i]) = c
          PROVE  CandidateTells(c)'
      BY <1>9, <2>2 DEF CandidateTells, ActiveStatus, Verdicts
    <2>3. CASE \A i \in 1 .. n : CandidateOf(walk[i]) # c
      <3>1. /\ candidates'[c] = candidates[c] /\ Attempted(c)' = Attempted(c)
            /\ \A a \in Attempted(c) : attempts'[a] = attempts[a]
        BY <1>10, <1>12, <2>3
      <3>2. CandidateTells(c)
        BY DEF RowsAgree, CandidatesTell
      <3>. QED
        BY <3>1, <3>2 DEF CandidateTells
    <2>. QED
      BY <2>1, <2>2, <2>3
  <1>17. ArtifactsTell'
    <2>. SUFFICES ASSUME NEW r \in artifacts
                  PROVE  /\ r.attempt \in DOMAIN attempts'
                         /\ attempts'[r.attempt].status = "COMPLETED"
                         /\ candidates'[CandidateOf(r.attempt)'].status = r.verdict
      BY <1>11 DEF ArtifactsTell
    <2> DEFINE c == CandidateOf(r.attempt)
    <2>1. /\ r.attempt \in DOMAIN attempts /\ c \in Candidates
          /\ attempts[r.attempt].status = "COMPLETED"
          /\ candidates[c].status = r.verdict /\ candidates[c].status \in Verdicts
      BY AttemptRows DEF RowsAgree, ArtifactsTell, AttemptsTell, AttemptTells
    <2>2. \A i \in 1 .. n : walk[i] # r.attempt /\ CandidateOf(walk[i]) # c
      BY <1>3, <2>1 DEF Verdicts
    <2>3. attempts'[r.attempt] = attempts[r.attempt] /\ candidates'[c] = candidates[c]
      BY <1>5, <1>10, <2>1, <2>2
    <2>. QED
      BY <1>8, <2>1, <2>3 DEF CandidateOf
  <1>18. ASSUME epochStatus' # "HALTED", NEW c \in Candidates, candidates'[c].status = "CRASHED"
         PROVE  candidates[c].status = "CRASHED"
    <2>1. m = n
      BY <1>1, <1>2, <1>18 DEF CrashAlong
    <2>2. \A i \in 1 .. n : CandidateOf(walk[i]) # c
      BY <1>9, <1>18, <2>1
    <2>. QED
      BY <1>10, <1>18, <2>2
  <1>19. RowsAgree'
    BY <1>13, <1>14, <1>15, <1>16, <1>17 DEF RowsAgree, AttemptsTell, CandidatesTell
  <1>. QED
    BY <1>18, <1>19

-----------------------------------------------------------------------------
(* The epoch row.                                                          *)

\* _complete_epoch_if_idle closes an epoch only when it is drained, and leaves a
\* closed epoch alone.
LEMMA EpochClosed ==
  ASSUME TypeOK, EpochAgrees, TypeOK', NEW log, CompleteEpochIfIdle(epochStatus, log),
         epochStatus = "COMPLETED" => UNCHANGED generationComplete /\ UNCHANGED attempts,
         consecutiveErrors' < Threshold \/ consecutiveErrors' = consecutiveErrors,
         \A c \in Candidates :
           candidates'[c].status = "CRASHED" => candidates[c].status = "CRASHED"
  PROVE  EpochAgrees'
  <1>1. CASE epochStatus \in Closed
    BY <1>1, LedgerAssumption DEF EpochAgrees, CompleteEpochIfIdle, Closed
  <1>2. CASE epochStatus \notin Closed
    BY <1>2, LedgerAssumption DEF EpochAgrees, CompleteEpochIfIdle, Closed
  <1>. QED
    BY <1>1, <1>2

\* The candidate of a RUNNING attempt is RUNNING, and its epoch is not COMPLETED.
LEMMA RunningRow ==
  ASSUME LedgerInvariant, NEW a \in Running
  PROVE  /\ a \in DOMAIN attempts /\ CandidateOf(a) \in Candidates
         /\ attempts[a].status = "RUNNING"
         /\ candidates[CandidateOf(a)].status = "RUNNING"
         /\ epochStatus # "COMPLETED"
  <1>1. a \in DOMAIN attempts /\ attempts[a].status = "RUNNING"
    BY DEF Running
  <1>. QED
    BY <1>1, AttemptRows
    DEF LedgerInvariant, RowsAgree, AttemptsTell, AttemptTells, EpochAgrees, ActiveStatus

\* The three steps that move one attempt.
LEMMA StartMoves ==
  ASSUME LedgerInvariant, NEW owner \in Owners, NEW wait \in Nat, NEW a \in DOMAIN attempts,
         StartAttempt(owner, wait, a)
  PROVE  MovesTo(a, "RUNNING", "none") /\ attempts[a].status = "QUEUED"
  <1>1. CandidateOf(a) \in Candidates /\ attempts[a].status = "QUEUED"
    BY AttemptRows DEF LedgerInvariant, StartAttempt, Claimable
  <1>2. Leased(attempts[a], owner, wait) \in Attempt
        /\ Leased(attempts[a], owner, wait).status = "RUNNING"
        /\ Leased(attempts[a], owner, wait).candidate = CandidateOf(a)
        /\ Leased(attempts[a], owner, wait).number = attempts[a].number
    BY NewRows DEF LedgerInvariant
  <1>3. attempts' = [attempts EXCEPT ![a] = Leased(attempts[a], owner, wait)]
    BY DEF StartAttempt
  <1>4. /\ DOMAIN attempts' = DOMAIN attempts
        /\ attempts'[a] = Leased(attempts[a], owner, wait)
        /\ \A b \in DOMAIN attempts \ {a} : attempts'[b] = attempts[b]
    BY <1>2, <1>3, RowUpdate DEF LedgerInvariant
  <1>5. /\ candidates'[CandidateOf(a)].status = "RUNNING"
        /\ candidates'[CandidateOf(a)].ordinal = candidates[CandidateOf(a)].ordinal
        /\ \A d \in Candidates \ {CandidateOf(a)} : candidates'[d] = candidates[d]
        /\ artifacts' = artifacts
    BY <1>1 DEF StartAttempt, LedgerInvariant, TypeOK
  <1>. QED
    BY <1>1, <1>2, <1>4, <1>5 DEF MovesTo, ActiveStatus, CandidateOf

LEMMA CompleteMoves ==
  ASSUME LedgerInvariant, NEW owner, NEW wait, NEW verdict, NEW a,
         CompleteAttempt(a, owner, wait, verdict)
  PROVE  /\ MovesTo(a, "COMPLETED", verdict) /\ a \in Running
         /\ verdict \in Verdicts
  <1>1. /\ a \in Running /\ verdict \in Verdicts
        /\ verdict = "REGISTERED" => CandidateOf(a) \in Real
    BY DEF CompleteAttempt, CanComplete, Owned
  <1>2. a \in DOMAIN attempts /\ CandidateOf(a) \in Candidates /\ attempts[a].status = "RUNNING"
    BY <1>1, RunningRow
  <1>3. Finished(attempts[a], "COMPLETED", FALSE) \in Attempt
        /\ Finished(attempts[a], "COMPLETED", FALSE).status = "COMPLETED"
        /\ Finished(attempts[a], "COMPLETED", FALSE).candidate = CandidateOf(a)
        /\ Finished(attempts[a], "COMPLETED", FALSE).number = attempts[a].number
    BY <1>2, NewRows DEF LedgerInvariant, AttemptStatus
  <1>4. attempts' = [attempts EXCEPT ![a] = Finished(attempts[a], "COMPLETED", FALSE)]
    BY DEF CompleteAttempt
  <1>5. /\ DOMAIN attempts' = DOMAIN attempts
        /\ attempts'[a] = Finished(attempts[a], "COMPLETED", FALSE)
        /\ \A b \in DOMAIN attempts \ {a} : attempts'[b] = attempts[b]
    BY <1>2, <1>3, <1>4, RowUpdate DEF LedgerInvariant
  <1>6. /\ candidates'[CandidateOf(a)].status = verdict
        /\ candidates'[CandidateOf(a)].ordinal = candidates[CandidateOf(a)].ordinal
        /\ candidates'[CandidateOf(a)].result = a
        /\ \A d \in Candidates \ {CandidateOf(a)} : candidates'[d] = candidates[d]
        /\ artifacts' = artifacts \cup {[attempt |-> a, verdict |-> verdict]}
    BY <1>2 DEF CompleteAttempt, LedgerInvariant, TypeOK
  <1>. QED
    BY <1>1, <1>2, <1>3, <1>5, <1>6 DEF MovesTo, ActiveStatus, CandidateOf

LEMMA FailMoves ==
  ASSUME LedgerInvariant, NEW owner, NEW systemError \in BOOLEAN, NEW a,
         FailAttempt(a, owner, systemError)
  PROVE  MovesTo(a, "FAILED", "none") /\ a \in Running
  <1>1. a \in Running
    BY DEF FailAttempt, Owned
  <1>2. a \in DOMAIN attempts /\ CandidateOf(a) \in Candidates /\ attempts[a].status = "RUNNING"
    BY <1>1, RunningRow
  <1>3. Finished(attempts[a], "FAILED", systemError) \in Attempt
        /\ Finished(attempts[a], "FAILED", systemError).status = "FAILED"
        /\ Finished(attempts[a], "FAILED", systemError).candidate = CandidateOf(a)
        /\ Finished(attempts[a], "FAILED", systemError).number = attempts[a].number
    BY <1>2, NewRows DEF LedgerInvariant, AttemptStatus
  <1>4. attempts' = [attempts EXCEPT ![a] = Finished(attempts[a], "FAILED", systemError)]
    BY DEF FailAttempt
  <1>5. /\ DOMAIN attempts' = DOMAIN attempts
        /\ attempts'[a] = Finished(attempts[a], "FAILED", systemError)
        /\ \A b \in DOMAIN attempts \ {a} : attempts'[b] = attempts[b]
    BY <1>2, <1>3, <1>4, RowUpdate DEF LedgerInvariant
  <1>6. /\ candidates'[CandidateOf(a)].status = "FAILED"
        /\ candidates'[CandidateOf(a)].ordinal = candidates[CandidateOf(a)].ordinal
        /\ \A d \in Candidates \ {CandidateOf(a)} : candidates'[d] = candidates[d]
        /\ artifacts' = artifacts
    BY <1>2 DEF FailAttempt, LedgerInvariant, TypeOK
  <1>. QED
    BY <1>1, <1>2, <1>3, <1>5, <1>6 DEF MovesTo, ActiveStatus, CandidateOf

\* A step that moves an attempt leaves no candidate CRASHED that was not.
LEMMA MovesNeverCrash ==
  ASSUME NEW a, NEW status, NEW verdict, MovesTo(a, status, verdict), NEW c \in Candidates,
         candidates'[c].status = "CRASHED"
  PROVE  candidates[c].status = "CRASHED"
BY DEF MovesTo, Verdicts

-----------------------------------------------------------------------------
(* LedgerInvariant is inductive.                                           *)

LEMMA InvariantInit == Init => LedgerInvariant
  <1>. SUFFICES ASSUME Init PROVE LedgerInvariant
    OBVIOUS
  <1>1. TypeOK
    BY TypeInit
  <1>2. DOMAIN attempts = {} /\ artifacts = {} /\ epochStatus = "ABSENT" /\ consecutiveErrors = 0
    BY DEF Init
  <1>3. \A c \in Candidates : candidates[c].status = "ABSENT" /\ Attempted(c) = {}
    BY <1>2 DEF Init, Attempted
  <1>4. RowsAgree
    BY <1>2, <1>3
    DEF RowsAgree, RegisteredAttempted, LaterCrashed, AttemptsTell, CandidatesTell,
        CandidateTells, ArtifactsTell, Registered, ActiveStatus, Verdicts
  <1>5. EpochAgrees
    BY <1>2, <1>3, LedgerAssumption DEF EpochAgrees
  <1>. QED
    BY <1>1, <1>4, <1>5 DEF LedgerInvariant

LEMMA InvariantStep == LedgerInvariant /\ [Next]_ledgerVars => LedgerInvariant'
  <1>. SUFFICES ASSUME LedgerInvariant, [Next]_ledgerVars PROVE LedgerInvariant'
    OBVIOUS
  <1>0. TypeOK /\ RowsAgree /\ EpochAgrees /\ TypeOK'
    BY TypeStep DEF LedgerInvariant
  <1>. SUFFICES RowsAgree' /\ EpochAgrees'
    BY <1>0 DEF LedgerInvariant
  <1>1. CASE EnsureEpoch
    <2>1. RowsAgree'
      BY <1>0, <1>1, RowsKept DEF EnsureEpoch
    <2>2. EpochAgrees'
      BY <1>0, <1>1 DEF EnsureEpoch, EpochAgrees
    <2>. QED
      BY <2>1, <2>2
  <1>2. ASSUME NEW c \in Candidates, RegisterCandidate(c) PROVE RowsAgree' /\ EpochAgrees'
    <2>1. RowsAgree'
      BY <1>0, <1>2, RowsRegistered
    <2>2. \A d \in Candidates :
            candidates'[d].status = "CRASHED" => candidates[d].status = "CRASHED"
      BY <1>0, <1>2 DEF RegisterCandidate, TypeOK
    <2>3. epochStatus' = epochStatus /\ consecutiveErrors' = consecutiveErrors
          /\ epochStatus # "COMPLETED"
      BY <1>2 DEF RegisterCandidate, EpochOpen
    <2>4. EpochAgrees'
      BY <1>0, <2>2, <2>3 DEF EpochAgrees
    <2>. QED
      BY <2>1, <2>4
  <1>3. CASE MarkGenerationComplete
    <2>1. RowsAgree'
      BY <1>0, <1>3, RowsKept DEF MarkGenerationComplete
    <2>2. PICK log : CompleteEpochIfIdle(epochStatus, log)
      BY <1>3 DEF MarkGenerationComplete
    <2>3. epochStatus = "COMPLETED" => generationComplete' = generationComplete
      BY <1>0, <1>3 DEF MarkGenerationComplete, EpochAgrees
    <2>4. EpochAgrees'
      BY <1>0, <1>3, <2>2, <2>3, EpochClosed DEF MarkGenerationComplete
    <2>. QED
      BY <2>1, <2>4
  <1>4. ASSUME NEW owner \in Owners, NEW wait \in 0 .. MaxWait, ClaimNothing(owner, wait)
        PROVE  RowsAgree' /\ EpochAgrees'
    <2>1. RowsAgree'
      BY <1>0, <1>4, RowsKept DEF ClaimNothing
    <2>2. EpochAgrees'
      BY <1>0, <1>4, EpochClosed DEF ClaimNothing
    <2>. QED
      BY <2>1, <2>2
  <1>5. ASSUME NEW owner \in Owners, NEW wait \in 0 .. MaxWait, NEW a \in DOMAIN attempts,
               ResumeLease(owner, wait, a) \/ Heartbeat(a, owner, wait)
        PROVE  RowsAgree' /\ EpochAgrees'
    <2>1. /\ attempts' = [attempts EXCEPT ![a] = Leased(attempts[a], owner, wait)]
          /\ UNCHANGED <<candidates, artifacts, epochStatus, consecutiveErrors, generationComplete>>
          /\ a \in Running
      BY <1>5 DEF ResumeLease, Heartbeat, Resumable, Owned, epochVars
    <2>2. /\ attempts[a].status = "RUNNING" /\ epochStatus # "COMPLETED"
      BY <2>1, RunningRow
    <2>3. wait \in Nat
      BY LedgerAssumption
    <2>4. /\ Leased(attempts[a], owner, wait) \in Attempt
          /\ Leased(attempts[a], owner, wait).status = "RUNNING"
          /\ Leased(attempts[a], owner, wait).candidate = CandidateOf(a)
      BY <1>0, <2>3, NewRows
    <2>5. /\ DOMAIN attempts' = DOMAIN attempts
          /\ \A b \in DOMAIN attempts : /\ attempts'[b].candidate = attempts[b].candidate
                                        /\ attempts'[b].status = attempts[b].status
      BY <1>0, <2>1, <2>2, <2>4, RowUpdate DEF CandidateOf
    <2>6. RowsAgree'
      BY <1>0, <2>1, <2>5, RowsKept
    <2>7. EpochAgrees'
      BY <1>0, <2>1, <2>2 DEF EpochAgrees
    <2>. QED
      BY <2>6, <2>7
  <1>6. ASSUME NEW owner \in Owners, NEW wait \in 0 .. MaxWait, NEW a \in DOMAIN attempts,
               StartAttempt(owner, wait, a)
        PROVE  RowsAgree' /\ EpochAgrees'
    <2>1. MovesTo(a, "RUNNING", "none")
      BY <1>6, StartMoves, LedgerAssumption
    <2>2. RowsAgree'
      BY <1>0, <2>1, RowsMoved
    <2>3. epochStatus' = "RUNNING" /\ consecutiveErrors' = consecutiveErrors
          /\ epochStatus # "HALTED"
      BY <1>6 DEF StartAttempt, EpochOpen
    <2>4. EpochAgrees'
      BY <1>0, <2>1, <2>3, MovesNeverCrash DEF EpochAgrees
    <2>. QED
      BY <2>2, <2>4
  <1>7. ASSUME NEW owner \in Owners, NEW wait \in 0 .. MaxWait, NEW a \in DOMAIN attempts,
               NEW verdict \in Verdicts, CompleteAttempt(a, owner, wait, verdict)
        PROVE  RowsAgree' /\ EpochAgrees'
    <2>1. MovesTo(a, "COMPLETED", verdict) /\ a \in Running
      BY <1>7, CompleteMoves
    <2>2. RowsAgree'
      BY <1>0, <2>1, RowsMoved
    <2>3. epochStatus # "COMPLETED"
      BY <2>1, RunningRow
    <2>4. CompleteEpochIfIdle(epochStatus, epochEvents) /\ consecutiveErrors' = 0
      BY <1>7 DEF CompleteAttempt
    <2>5. \A c \in Candidates :
            candidates'[c].status = "CRASHED" => candidates[c].status = "CRASHED"
      BY <2>1, MovesNeverCrash
    <2>6. EpochAgrees'
      BY <1>0, <2>3, <2>4, <2>5, EpochClosed, LedgerAssumption
    <2>. QED
      BY <2>2, <2>6
  <1>8. ASSUME NEW wait \in 0 .. MaxWait, RecoverStaleAttempts(wait)
        PROVE  RowsAgree' /\ EpochAgrees'
    <2>1. RowsAgree'
      BY <1>0, <1>8, RowsRecovered
    <2>2. PICK n \in Nat, walk \in Ascending(Stale(wait)) :
            CrashAlong(walk, n) /\ RecoveredRows(walk, n)
      BY <1>0, <1>8, RecoveryRows
    <2>3. epochStatus \notin {"ABSENT", "HALTED", "COMPLETED"}
      <3>1. PICK a \in Stale(wait) : TRUE
        BY <1>8 DEF RecoverStaleAttempts
      <3>2. a \in Running
        BY DEF Stale
      <3>. QED
        BY <1>8, <3>2, RunningRow DEF RecoverStaleAttempts
    <2>4. CASE epochStatus' = "HALTED"
      BY <2>1, <2>4 DEF EpochAgrees
    <2>5. CASE epochStatus' # "HALTED"
      <3>1. epochStatus' = epochStatus /\ consecutiveErrors' = consecutiveErrors + n
            /\ ~(Retries(n) < n)
        BY <2>2, <2>5 DEF CrashAlong
      <3>2. consecutiveErrors' < Threshold
        BY <1>0, <2>2, <3>1, LedgerAssumption DEF Retries, TypeOK
      <3>3. \A c \in Candidates :
              candidates'[c].status = "CRASHED" => candidates[c].status = "CRASHED"
        BY <1>0, <1>8, <2>5, RowsRecovered
      <3>. QED
        BY <1>0, <2>1, <2>3, <3>1, <3>2, <3>3 DEF EpochAgrees
    <2>. QED
      BY <2>4, <2>5
  <1>9. ASSUME NEW a \in DOMAIN attempts, NEW owner \in Owners, NEW systemError \in BOOLEAN,
               FailAttempt(a, owner, systemError)
        PROVE  RowsAgree' /\ EpochAgrees'
    <2>1. MovesTo(a, "FAILED", "none") /\ a \in Running
      BY <1>9, FailMoves
    <2>2. RowsAgree'
      BY <1>0, <2>1, RowsMoved
    <2>3. epochStatus # "COMPLETED"
      BY <2>1, RunningRow
    <2>4. \A c \in Candidates :
            candidates'[c].status = "CRASHED" => candidates[c].status = "CRASHED"
      BY <2>1, MovesNeverCrash
    <2>5. CASE FailureHalts(systemError)
      BY <1>9, <2>2, <2>5 DEF FailAttempt, EpochAgrees
    <2>6. CASE ~FailureHalts(systemError)
      <3>1. CompleteEpochIfIdle(epochStatus, epochEvents)
        BY <1>9, <2>6 DEF FailAttempt
      <3>2. consecutiveErrors' < Threshold \/ consecutiveErrors' = consecutiveErrors
        BY <1>0, <1>9, <2>6, LedgerAssumption DEF FailAttempt, FailureHalts, ErrorsAfter, TypeOK
      <3>. QED
        BY <1>0, <2>2, <2>3, <2>4, <3>1, <3>2, EpochClosed
    <2>. QED
      BY <2>5, <2>6
  <1>10. CASE Tick
    <2>1. /\ DOMAIN attempts' = DOMAIN attempts
          /\ \A b \in DOMAIN attempts : /\ attempts'[b].candidate = attempts[b].candidate
                                        /\ attempts'[b].status = attempts[b].status
      BY <1>0, <1>10, TickRows
    <2>2. UNCHANGED <<candidates, artifacts, epochStatus, consecutiveErrors, generationComplete>>
      BY <1>10 DEF Tick, epochVars
    <2>3. RowsAgree'
      BY <1>0, <2>1, <2>2, RowsKept
    <2>4. EpochAgrees'
      BY <1>0, <2>1, <2>2 DEF EpochAgrees
    <2>. QED
      BY <2>3, <2>4
  <1>11. CASE UNCHANGED ledgerVars
    <2>1. RowsAgree'
      BY <1>0, <1>11, RowsKept DEF ledgerVars
    <2>2. EpochAgrees'
      BY <1>0, <1>11 DEF ledgerVars, EpochAgrees
    <2>. QED
      BY <2>1, <2>2
  <1>. QED
    BY <1>1, <1>2, <1>3, <1>4, <1>5, <1>6, <1>7, <1>8, <1>9, <1>10, <1>11 DEF Next

-----------------------------------------------------------------------------
(* The theorems.                                                           *)

\* The tables agree with each other in every reachable ledger.
THEOREM TablesAgree == Spec => []LedgerInvariant
BY InvariantInit, InvariantStep, PTL DEF Spec

\* A candidate's status is always the one its latest attempt implies, and all
\* earlier attempts have CRASHED.
THEOREM FollowsAttempts == Spec => []CandidateFollowsAttempts
BY TablesAgree, InvariantFollows, PTL

\* Every evaluated candidate has exactly one COMPLETED attempt and its artifact,
\* bound to each other.
THEOREM Lineage == Spec => []ResultLineage
BY TablesAgree, InvariantLineage, PTL

\* An epoch is COMPLETED only with every registered candidate decided.
THEOREM Drained == Spec => []CompletedIsDrained
BY TablesAgree, InvariantDrained, PTL

\* The tables agree on candidates, attempts, artifacts and the epoch.
THEOREM LedgerHolds == Spec => []LedgerAgrees
BY FollowsAttempts, Lineage, Drained, PTL DEF LedgerAgrees

\* No candidate of an epoch that has not halted is ever without an active attempt
\* or a decision, however often its workers crash.
THEOREM NoOrphan == Spec => []NoOrphanWhileOpen
BY TablesAgree, InvariantNoOrphan, PTL

-----------------------------------------------------------------------------
(* What no step does.                                                      *)

LEMMA Lengths ==
  ASSUME TypeOK, TypeOK', DOMAIN attempts \subseteq DOMAIN attempts'
  PROVE  /\ Len(attempts') >= Len(attempts)
         /\ DOMAIN attempts' = DOMAIN attempts => Len(attempts') = Len(attempts)
  <1>1. /\ Len(attempts) \in Nat /\ DOMAIN attempts = 1 .. Len(attempts)
        /\ Len(attempts') \in Nat /\ DOMAIN attempts' = 1 .. Len(attempts')
    BY LenProperties DEF TypeOK
  <1>2. \A k, m \in Nat : (1 .. k) \subseteq (1 .. m) => k <= m
    OBVIOUS
  <1>3. (1 .. Len(attempts)) \subseteq (1 .. Len(attempts'))
    BY <1>1
  <1>4. Len(attempts) <= Len(attempts')
    BY <1>1, <1>2, <1>3
  <1>5. ASSUME DOMAIN attempts' = DOMAIN attempts PROVE Len(attempts') <= Len(attempts)
    <2>1. (1 .. Len(attempts')) \subseteq (1 .. Len(attempts))
      BY <1>1, <1>5
    <2>. QED
      BY <1>1, <1>2, <2>1
  <1>6. Len(attempts') >= Len(attempts)
    BY <1>1, <1>4
  <1>7. ASSUME DOMAIN attempts' = DOMAIN attempts PROVE Len(attempts') = Len(attempts)
    <2>1. Len(attempts') <= Len(attempts)
      BY <1>5, <1>7
    <2>2. Len(attempts) \in Nat /\ Len(attempts') \in Nat
      BY <1>1
    <2>3. \A k, m \in Nat : k <= m /\ m <= k => k = m
      OBVIOUS
    <2>. QED
      BY <1>4, <2>1, <2>2, <2>3
  <1>. QED
    BY <1>6, <1>7

\* Steps that only renew or age leases, and steps that move one attempt.
LEMMA KeptPermits ==
  ASSUME TypeOK, TypeOK', candidates' = candidates, DOMAIN attempts' = DOMAIN attempts,
         \A a \in DOMAIN attempts : attempts'[a].status = attempts[a].status,
         \A a \in DOMAIN attempts \ Running : attempts'[a] = attempts[a]
  PROVE  TriggersPermit
  <1>1. \A a \in DOMAIN attempts : attempts[a].status \notin ActiveStatus => a \notin Running
    BY DEF Running, ActiveStatus
  <1>. QED
    BY <1>1, Lengths DEF TriggersPermit

LEMMA MovesPermit ==
  ASSUME TypeOK, TypeOK', RowsAgree, NEW a \in DOMAIN attempts, NEW status, NEW verdict,
         MovesTo(a, status, verdict),
         \/ attempts[a].status = "QUEUED" /\ status = "RUNNING"
         \/ attempts[a].status = "RUNNING" /\ status \in {"COMPLETED", "FAILED"}
  PROVE  TriggersPermit
  <1> DEFINE c == CandidateOf(a)
  <1>1. candidates[c].status = attempts[a].status /\ attempts[a].status \in ActiveStatus
    BY DEF RowsAgree, AttemptsTell, AttemptTells, MovesTo
  <1>2. <<candidates[c].status, candidates'[c].status>> \in CandidateMoves
    BY <1>1 DEF MovesTo, CandidateMoves, Decided, Verdicts
  <1>3. <<attempts[a].status, attempts'[a].status>> \in AttemptMoves
    BY <1>1 DEF MovesTo, AttemptMoves
  <1>4. candidates[c].status \notin Decided
    BY <1>1 DEF ActiveStatus, Decided, Verdicts
  <1>5. \A d \in Candidates \ {c} : candidates'[d] = candidates[d]
    BY DEF MovesTo
  <1>6. /\ DOMAIN attempts' = DOMAIN attempts
        /\ \A b \in DOMAIN attempts \ {a} : attempts'[b] = attempts[b]
    BY DEF MovesTo
  <1>7. Len(attempts') >= Len(attempts)
    BY <1>6, Lengths
  <1>. QED
    BY <1>1, <1>2, <1>3, <1>4, <1>5, <1>6, <1>7 DEF TriggersPermit

LEMMA StepPermitted == LedgerInvariant /\ [Next]_ledgerVars => TriggersPermit
  <1>. SUFFICES ASSUME LedgerInvariant, [Next]_ledgerVars PROVE TriggersPermit
    OBVIOUS
  <1>0. TypeOK /\ RowsAgree /\ TypeOK'
    BY TypeStep DEF LedgerInvariant
  <1>1. ASSUME UNCHANGED <<candidates, attempts>> PROVE TriggersPermit
    BY <1>0, <1>1, KeptPermits
  <1>2. ASSUME NEW c \in Candidates, RegisterCandidate(c) PROVE TriggersPermit
    <2>1. /\ candidates[c].status = "ABSENT" /\ candidates'[c].status = "QUEUED"
          /\ \A d \in Candidates \ {c} : candidates'[d] = candidates[d]
      BY <1>0, <1>2 DEF RegisterCandidate, Registered, TypeOK
    <2>2. attempts' = Append(attempts, NewAttempt(c, 1))
      BY <1>2 DEF RegisterCandidate
    <2>3. attempts \in Seq(Attempt) /\ NewAttempt(c, 1) \in Attempt
      <3>1. TypeOK
        BY <1>0
      <3>2. attempts \in Seq(Attempt)
        BY <3>1 DEF TypeOK
      <3>3. NewAttempt(c, 1) \in Attempt
        BY NewAttemptRow
      <3>. QED
        BY <3>2, <3>3
    <2>4. /\ Len(attempts') >= Len(attempts)
          /\ \A a \in DOMAIN attempts : attempts'[a] = attempts[a]
      BY <2>2, <2>3, AppendProperties, LenProperties
    <2>. QED
      BY <2>1, <2>4 DEF TriggersPermit, CandidateMoves, Decided, Verdicts
  <1>3. ASSUME NEW owner \in Owners, NEW wait \in 0 .. MaxWait, NEW a \in DOMAIN attempts,
               ResumeLease(owner, wait, a) \/ Heartbeat(a, owner, wait)
        PROVE  TriggersPermit
    <2>1. /\ attempts' = [attempts EXCEPT ![a] = Leased(attempts[a], owner, wait)]
          /\ candidates' = candidates /\ a \in Running
      BY <1>3 DEF ResumeLease, Heartbeat, Resumable, Owned
    <2>2. wait \in Nat
      BY LedgerAssumption
    <2>3. Leased(attempts[a], owner, wait) \in Attempt
          /\ Leased(attempts[a], owner, wait).status = "RUNNING"
      BY <1>0, <2>2, NewRows
    <2>4. /\ DOMAIN attempts' = DOMAIN attempts
          /\ \A b \in DOMAIN attempts : attempts'[b].status = attempts[b].status
          /\ \A b \in DOMAIN attempts \ Running : attempts'[b] = attempts[b]
      BY <1>0, <2>1, <2>3, RowUpdate DEF Running
    <2>. QED
      BY <1>0, <2>1, <2>4, KeptPermits
  <1>4. ASSUME NEW owner \in Owners, NEW wait \in 0 .. MaxWait, NEW a \in DOMAIN attempts,
               StartAttempt(owner, wait, a)
        PROVE  TriggersPermit
    <2>1. wait \in Nat
      BY LedgerAssumption
    <2>2. MovesTo(a, "RUNNING", "none") /\ attempts[a].status = "QUEUED"
      BY <1>4, <2>1, StartMoves
    <2>. QED
      BY <1>0, <2>2, MovesPermit
  <1>5. ASSUME NEW owner \in Owners, NEW wait \in 0 .. MaxWait, NEW a \in DOMAIN attempts,
               NEW verdict \in Verdicts, CompleteAttempt(a, owner, wait, verdict)
        PROVE  TriggersPermit
    <2>1. MovesTo(a, "COMPLETED", verdict) /\ attempts[a].status = "RUNNING"
      BY <1>5, CompleteMoves DEF Running
    <2>. QED
      BY <1>0, <2>1, MovesPermit
  <1>6. ASSUME NEW a \in DOMAIN attempts, NEW owner \in Owners, NEW systemError \in BOOLEAN,
               FailAttempt(a, owner, systemError)
        PROVE  TriggersPermit
    <2>1. MovesTo(a, "FAILED", "none") /\ attempts[a].status = "RUNNING"
      BY <1>6, FailMoves DEF Running
    <2>. QED
      BY <1>0, <2>1, MovesPermit
  <1>7. ASSUME NEW wait \in 0 .. MaxWait, RecoverStaleAttempts(wait) PROVE TriggersPermit
    <2>1. PICK n \in Nat, walk \in Ascending(Stale(wait)) :
            CrashAlong(walk, n) /\ RecoveredRows(walk, n)
      BY <1>0, <1>7, RecoveryRows
    <2>2. ASSUME NEW a \in DOMAIN attempts
          PROVE  \/ attempts'[a] = attempts[a]
                 \/ attempts[a].status = "RUNNING" /\ attempts'[a].status = "CRASHED"
      <3>1. CASE \A i \in 1 .. n : walk[i] # a
        BY <2>1, <3>1 DEF RecoveredRows
      <3>2. ASSUME NEW i \in 1 .. n, walk[i] = a
            PROVE  attempts[a].status = "RUNNING" /\ attempts'[a].status = "CRASHED"
        <4>1. a \in Running /\ attempts'[a] = Finished(attempts[a], "CRASHED", TRUE)
          BY <2>1, <3>2 DEF RecoveredRows
        <4>. QED
          BY <4>1 DEF Running, Finished
      <3>. QED
        BY <3>1, <3>2
    <2>3. ASSUME NEW c \in Candidates
          PROVE  \/ candidates'[c] = candidates[c]
                 \/ candidates[c].status = "RUNNING" /\ candidates'[c].status \in {"QUEUED", "CRASHED"}
      <3>1. CASE \E a \in {walk[i] : i \in 1 .. n} : CandidateOf(a) = c
        <4>1. PICK a \in Running : CandidateOf(a) = c
          BY <2>1, <3>1 DEF RecoveredRows
        <4>2. candidates[c].status = "RUNNING"
          BY <4>1, RunningRow
        <4>3. \/ candidates' [c] = [candidates[c] EXCEPT !.status = "QUEUED"]
              \/ candidates' [c] = [candidates[c] EXCEPT !.status = "CRASHED"]
          BY <2>1, <3>1 DEF CrashAlong
        <4>4. candidates[c] \in [status : CandidateStatus, ordinal : Nat, result : Nat]
          BY <1>0 DEF TypeOK
        <4>. QED
          BY <4>2, <4>3, <4>4
      <3>2. CASE ~ \E a \in {walk[i] : i \in 1 .. n} : CandidateOf(a) = c
        <4>1. Retries(n) <= n
          BY <2>1 DEF RecoveredRows
        <4>2. ~ \E a \in {walk[i] : i \in 1 .. Retries(n)} : CandidateOf(a) = c
          BY <2>1, <3>2, <4>1 DEF RecoveredRows
        <4>. QED
          BY <2>1, <3>2, <4>2 DEF CrashAlong
      <3>. QED
        BY <3>1, <3>2
    <2>4. DOMAIN attempts \subseteq DOMAIN attempts'
      BY <1>0, <2>1, AttemptRows DEF RecoveredRows
    <2>5. Len(attempts') >= Len(attempts)
      BY <1>0, <2>4, Lengths
    <2>. QED
      BY <2>2, <2>3, <2>5
      DEF TriggersPermit, CandidateMoves, AttemptMoves, ActiveStatus, Decided, Verdicts
  <1>8. CASE Tick
    <2>1. /\ DOMAIN attempts' = DOMAIN attempts
          /\ \A a \in DOMAIN attempts : attempts'[a].status = attempts[a].status
          /\ \A a \in DOMAIN attempts \ Running : attempts'[a] = attempts[a]
      BY <1>0, <1>8, TickRows DEF Running
    <2>. QED
      BY <1>0, <1>8, <2>1, KeptPermits DEF Tick
  <1>. QED
    BY <1>1, <1>2, <1>3, <1>4, <1>5, <1>6, <1>7, <1>8
    DEF Next, EnsureEpoch, MarkGenerationComplete, ClaimNothing, ledgerVars

LEMMA StepStaysClosed == LedgerInvariant /\ [Next]_ledgerVars => StaysClosed
  <1>. SUFFICES ASSUME LedgerInvariant, [Next]_ledgerVars, epochStatus \in Closed
                PROVE  /\ epochStatus' = epochStatus
                       /\ Len(attempts') = Len(attempts)
                       /\ \A a \in DOMAIN attempts :
                            attempts'[a].status = "RUNNING" => attempts[a].status = "RUNNING"
    BY DEF StaysClosed
  <1>0. TypeOK /\ RowsAgree /\ TypeOK'
    BY TypeStep DEF LedgerInvariant
  <1> DEFINE NoneStarts == /\ Len(attempts') = Len(attempts)
                           /\ \A a \in DOMAIN attempts :
                                attempts'[a].status = "RUNNING" => attempts[a].status = "RUNNING"
  <1>1. \A log : CompleteEpochIfIdle(epochStatus, log) => epochStatus' = epochStatus
    BY DEF CompleteEpochIfIdle
  <1>2. ~EnsureEpoch /\ \A c \in Candidates : ~RegisterCandidate(c)
    BY DEF EnsureEpoch, RegisterCandidate, EpochOpen, Closed
  <1>3. CASE MarkGenerationComplete
    BY <1>1, <1>3 DEF MarkGenerationComplete
  <1>4. ASSUME NEW owner \in Owners, NEW wait \in 0 .. MaxWait, ClaimNothing(owner, wait)
        PROVE  epochStatus' = epochStatus /\ NoneStarts
    BY <1>1, <1>4 DEF ClaimNothing
  <1>5. \A owner \in Owners, wait \in 0 .. MaxWait, a \in DOMAIN attempts :
          ~ResumeLease(owner, wait, a) /\ ~StartAttempt(owner, wait, a)
    BY DEF ResumeLease, StartAttempt, EpochOpen, Closed
  <1>6. ASSUME NEW owner \in Owners, NEW wait \in 0 .. MaxWait, NEW a \in DOMAIN attempts,
               Heartbeat(a, owner, wait)
        PROVE  epochStatus' = epochStatus /\ NoneStarts
    <2>1. /\ attempts' = [attempts EXCEPT ![a] = Leased(attempts[a], owner, wait)]
          /\ epochStatus' = epochStatus /\ attempts[a].status = "RUNNING"
      BY <1>6 DEF Heartbeat, Owned, Running, epochVars
    <2>2. wait \in Nat
      BY LedgerAssumption
    <2>3. Leased(attempts[a], owner, wait) \in Attempt
      BY <1>0, <2>2, NewRows
    <2>4. /\ DOMAIN attempts' = DOMAIN attempts
          /\ \A b \in DOMAIN attempts : b # a => attempts'[b] = attempts[b]
      BY <1>0, <2>1, <2>3, RowUpdate
    <2>5. Len(attempts') = Len(attempts)
      BY <1>0, <2>4, Lengths
    <2>. QED
      BY <2>1, <2>4, <2>5
  <1>7. ASSUME NEW a \in DOMAIN attempts, NEW status \in {"COMPLETED", "FAILED"}, NEW verdict,
               MovesTo(a, status, verdict)
        PROVE  NoneStarts
    <2>1. /\ DOMAIN attempts' = DOMAIN attempts
          /\ \A b \in DOMAIN attempts \ {a} : attempts'[b] = attempts[b]
          /\ attempts'[a].status = status
      BY <1>7 DEF MovesTo
    <2>2. Len(attempts') = Len(attempts)
      BY <1>0, <2>1, Lengths
    <2>. QED
      BY <2>1, <2>2
  <1>8. ASSUME NEW owner \in Owners, NEW wait \in 0 .. MaxWait, NEW a \in DOMAIN attempts,
               NEW verdict \in Verdicts, CompleteAttempt(a, owner, wait, verdict)
        PROVE  epochStatus' = epochStatus /\ NoneStarts
    <2>1. MovesTo(a, "COMPLETED", verdict)
      BY <1>8, CompleteMoves
    <2>2. epochStatus' = epochStatus
      BY <1>1, <1>8 DEF CompleteAttempt
    <2>. QED
      BY <1>7, <2>1, <2>2
  <1>9. \A wait \in 0 .. MaxWait : ~RecoverStaleAttempts(wait)
    <2>. SUFFICES ASSUME NEW wait \in 0 .. MaxWait, RecoverStaleAttempts(wait) PROVE FALSE
      OBVIOUS
    <2>1. PICK a \in Stale(wait) : TRUE
      BY DEF RecoverStaleAttempts
    <2>2. a \in Running
      BY DEF Stale
    <2>3. epochStatus # "COMPLETED"
      BY <2>2, RunningRow
    <2>. QED
      BY <2>3 DEF RecoverStaleAttempts, Closed
  <1>10. ASSUME NEW a \in DOMAIN attempts, NEW owner \in Owners, NEW systemError \in BOOLEAN,
                FailAttempt(a, owner, systemError)
         PROVE  epochStatus' = epochStatus /\ NoneStarts
    <2>1. MovesTo(a, "FAILED", "none") /\ a \in Running
      BY <1>10, FailMoves
    <2>2. epochStatus # "COMPLETED"
      BY <2>1, RunningRow
    <2>3. epochStatus' = epochStatus
      BY <1>1, <1>10, <2>2 DEF FailAttempt, Closed
    <2>. QED
      BY <1>7, <2>1, <2>3
  <1>11. CASE Tick
    <2>1. /\ DOMAIN attempts' = DOMAIN attempts
          /\ \A a \in DOMAIN attempts : attempts'[a].status = attempts[a].status
      BY <1>0, <1>11, TickRows
    <2>2. Len(attempts') = Len(attempts)
      BY <1>0, <2>1, Lengths
    <2>. QED
      BY <1>11, <2>1, <2>2 DEF Tick, epochVars
  <1>12. CASE UNCHANGED ledgerVars
    BY <1>12 DEF ledgerVars
  <1>. QED
    BY <1>2, <1>3, <1>4, <1>5, <1>6, <1>8, <1>9, <1>10, <1>11, <1>12 DEF Next

\* No write of any operation is one a lifecycle or immutability trigger aborts.
THEOREM TriggersHold == Spec => TriggersNeverAbort
  <1>1. LedgerInvariant /\ [Next]_ledgerVars => [TriggersPermit]_ledgerVars
    BY StepPermitted
  <1>. QED
    BY <1>1, TablesAgree, PTL DEF Spec, TriggersNeverAbort

\* A COMPLETED or HALTED epoch hands out no more work, for good.
THEOREM Closing == Spec => ClosedIsFinal
  <1>1. LedgerInvariant /\ [Next]_ledgerVars => [StaysClosed]_ledgerVars
    BY StepStaysClosed
  <1>. QED
    BY <1>1, TablesAgree, PTL DEF Spec, ClosedIsFinal

-----------------------------------------------------------------------------
(* The ledger implements the epoch contract: attempts, leases, retries and *)
(* clocks map to stuttering steps.  Besides LedgerInvariant the proof      *)
(* needs that an epoch whose generation is over is never left open with    *)
(* nothing to do, since every transaction that ends an attempt completes   *)
(* an idle epoch itself.                                                   *)

NeverIdle ==
  generationComplete /\ epochStatus \notin Closed =>
    \E a \in DOMAIN attempts : attempts[a].status \in ActiveStatus

RefinementInvariant == LedgerInvariant /\ NeverIdle

-----------------------------------------------------------------------------
(* NeverIdle.                                                              *)

LEMMA IdleCompletes ==
  ASSUME NEW log, CompleteEpochIfIdle(epochStatus, log)
  PROVE  NeverIdle'
BY DEF CompleteEpochIfIdle, NeverIdle, Closed

LEMMA NeverIdleStep == RefinementInvariant /\ [Next]_ledgerVars => NeverIdle'
  <1>. SUFFICES ASSUME LedgerInvariant, NeverIdle, [Next]_ledgerVars PROVE NeverIdle'
    BY DEF RefinementInvariant
  <1>0. TypeOK
    BY DEF LedgerInvariant
  <1>1. CASE EnsureEpoch
    BY <1>1 DEF EnsureEpoch, NeverIdle, Closed
  <1>2. ASSUME NEW c \in Candidates, RegisterCandidate(c) PROVE NeverIdle'
    <2>1. attempts \in Seq(Attempt)
      BY <1>0 DEF TypeOK
    <2>2. NewAttempt(c, 1) \in Attempt /\ NewAttempt(c, 1).status = "QUEUED"
      BY NewAttemptRow
    <2>3. attempts' = Append(attempts, NewAttempt(c, 1))
      BY <1>2 DEF RegisterCandidate
    <2>4. PICK n : n = Len(attempts) + 1
      OBVIOUS
    <2>5. n \in DOMAIN attempts' /\ attempts'[n] = NewAttempt(c, 1)
      BY <2>1, <2>2, <2>3, <2>4, AppendProperties, LenProperties
    <2>. QED
      BY <2>2, <2>5 DEF NeverIdle, ActiveStatus
  <1>3. CASE MarkGenerationComplete
    BY <1>3, IdleCompletes DEF MarkGenerationComplete
  <1>4. ASSUME NEW owner, NEW wait, ClaimNothing(owner, wait) PROVE NeverIdle'
    BY <1>4, IdleCompletes DEF ClaimNothing
  <1>5. ASSUME NEW owner \in Owners, NEW wait \in 0 .. MaxWait, NEW a \in DOMAIN attempts,
               ResumeLease(owner, wait, a) \/ Heartbeat(a, owner, wait) \/ StartAttempt(owner, wait, a)
        PROVE  NeverIdle'
    <2>1. attempts' = [attempts EXCEPT ![a] = Leased(attempts[a], owner, wait)]
      BY <1>5 DEF ResumeLease, Heartbeat, StartAttempt
    <2>2. wait \in Nat
      BY LedgerAssumption
    <2>3. Leased(attempts[a], owner, wait) \in Attempt
          /\ Leased(attempts[a], owner, wait).status = "RUNNING"
      BY <1>0, <2>2, NewRows
    <2>4. a \in DOMAIN attempts' /\ attempts'[a].status = "RUNNING"
      BY <1>0, <2>1, <2>3, RowUpdate
    <2>. QED
      BY <2>4 DEF NeverIdle, ActiveStatus
  <1>6. ASSUME NEW owner, NEW wait, NEW a, NEW verdict, CompleteAttempt(a, owner, wait, verdict)
        PROVE  NeverIdle'
    BY <1>6, IdleCompletes DEF CompleteAttempt
  <1>7. ASSUME NEW wait \in 0 .. MaxWait, RecoverStaleAttempts(wait) PROVE NeverIdle'
    <2>1. PICK n \in Nat, walk \in Ascending(Stale(wait)) :
            CrashAlong(walk, n) /\ RecoveredRows(walk, n)
      BY <1>0, <1>7, RecoveryRows
    <2>2. CASE epochStatus' = "HALTED"
      BY <2>2 DEF NeverIdle, Closed
    <2>3. CASE epochStatus' # "HALTED"
      <3>1. Retries(n) = n /\ n \in Nat \ {0}
        BY <2>1, <2>3 DEF CrashAlong, RecoveredRows
      <3>2. PICK b : b = Len(attempts) + 1
        OBVIOUS
      <3>3. attempts'[b] = NewAttempt(CandidateOf(walk[1]), attempts[walk[1]].number + 1)
        BY <2>1, <3>1, <3>2 DEF RecoveredRows
      <3>4. b \in DOMAIN attempts' /\ attempts'[b].status = "QUEUED"
        BY <1>0, <2>1, <3>1, <3>2, <3>3, AttemptRows DEF RecoveredRows, NewAttempt
      <3>. QED
        BY <3>4 DEF NeverIdle, ActiveStatus
    <2>. QED
      BY <2>2, <2>3
  <1>8. ASSUME NEW a, NEW owner, NEW systemError, FailAttempt(a, owner, systemError)
        PROVE  NeverIdle'
    <2>1. CASE FailureHalts(systemError)
      BY <1>8, <2>1 DEF FailAttempt, NeverIdle, Closed
    <2>2. CASE ~FailureHalts(systemError)
      BY <1>8, <2>2, IdleCompletes DEF FailAttempt
    <2>. QED
      BY <2>1, <2>2
  <1>9. CASE Tick
    <2>1. /\ DOMAIN attempts' = DOMAIN attempts
          /\ \A b \in DOMAIN attempts : attempts'[b].status = attempts[b].status
      BY <1>0, <1>9, TickRows
    <2>. QED
      BY <1>9, <2>1 DEF Tick, NeverIdle, epochVars
  <1>10. CASE UNCHANGED ledgerVars
    BY <1>10 DEF ledgerVars, NeverIdle
  <1>. QED
    BY <1>1, <1>2, <1>3, <1>4, <1>5, <1>6, <1>7, <1>8, <1>9, <1>10 DEF Next

LEMMA RefinementInvariantHolds == Spec => []RefinementInvariant
  <1>1. Init => RefinementInvariant
    BY InvariantInit DEF RefinementInvariant, NeverIdle, Init
  <1>2. RefinementInvariant /\ [Next]_ledgerVars => RefinementInvariant'
    BY InvariantStep, NeverIdleStep DEF RefinementInvariant
  <1>. QED
    BY <1>1, <1>2, PTL DEF Spec

-----------------------------------------------------------------------------
(* The refinement mapping, step by step.                                   *)

InProgress == {"QUEUED", "RUNNING", "CRASHED"}

\* The contract's undecided candidates are those in progress; while the epoch has
\* not halted, they are the ones with an active attempt.
LEMMA UndecidedRows ==
  ASSUME LedgerInvariant
  PROVE  /\ Contract!Undecided = {c \in Candidates : candidates[c].status \in InProgress}
         /\ \A a \in DOMAIN attempts : attempts[a].status \in ActiveStatus =>
              CandidateOf(a) \in Contract!Undecided
         /\ epochStatus # "HALTED" => \A c \in Contract!Undecided :
              \E a \in Attempted(c) : attempts[a].status \in ActiveStatus
  <1>1. Contract!Undecided = {c \in Candidates : candidates[c].status \in InProgress}
    <2>1. \A c \in Candidates : candidates[c].status \in CandidateStatus
      BY DEF LedgerInvariant, TypeOK
    <2>2. \A c \in Candidates : Decision[c] = "pending" <=> candidates[c].status \in InProgress
      BY <2>1 DEF Decision, InProgress, CandidateStatus, Decided, Verdicts
    <2>. QED
      BY <2>2 DEF Contract!Undecided, Candidates
  <1>2. ASSUME NEW a \in DOMAIN attempts, attempts[a].status \in ActiveStatus
        PROVE  CandidateOf(a) \in Contract!Undecided
    <2>1. CandidateOf(a) \in Candidates
      BY AttemptRows DEF LedgerInvariant
    <2>2. candidates[CandidateOf(a)].status \in ActiveStatus
      BY <1>2 DEF LedgerInvariant, RowsAgree, AttemptsTell, AttemptTells
    <2>. QED
      BY <1>1, <2>1, <2>2 DEF InProgress, ActiveStatus
  <1>3. ASSUME epochStatus # "HALTED", NEW c \in Contract!Undecided
        PROVE  \E a \in Attempted(c) : attempts[a].status \in ActiveStatus
    <2>1. c \in Candidates /\ candidates[c].status \in ActiveStatus
      BY <1>1, <1>3 DEF LedgerInvariant, EpochAgrees, InProgress, ActiveStatus
    <2>. QED
      BY <2>1 DEF LedgerInvariant, RowsAgree, CandidatesTell, CandidateTells
  <1>. QED
    BY <1>1, <1>2, <1>3

\* Steps that leave every candidate's row alone leave the decisions alone.
LEMMA DecisionKept ==
  ASSUME UNCHANGED candidates
  PROVE  Decision' = Decision
BY DEF Decision

\* An attempt that ends with a decision is a Decide step of the contract: it
\* completes the epoch exactly when it was the last one in progress.
LEMMA Decides ==
  ASSUME LedgerInvariant, LedgerInvariant', NEW a \in Running, NEW d, NEW status, NEW verdict,
         MovesTo(a, status, verdict), status \in {"COMPLETED", "FAILED"},
         d = candidates'[CandidateOf(a)].status,
         UNCHANGED generationComplete,
         \/ \E log : CompleteEpochIfIdle(epochStatus, log)
         \/ /\ d = "FAILED" /\ epochStatus' = "HALTED"
  PROVE  \E c \in Candidates : \E e \in Contract!DecisionsFor(c) : Contract!Decide(c, e)
  <1> DEFINE c == CandidateOf(a)
  <1>1. /\ a \in DOMAIN attempts /\ c \in Candidates /\ attempts[a].status = "RUNNING"
        /\ candidates[c].status = "RUNNING" /\ epochStatus # "COMPLETED"
    BY RunningRow
  <1>2. d \in Contract!DecisionsFor(c) /\ d \in Decided
    BY <1>1, LedgerAssumption DEF MovesTo, Contract!DecisionsFor, Decided, Verdicts, Candidates
  <1>3. Decision' = [Decision EXCEPT ![c] = d]
    <2>1. \A b \in Candidates \ {c} : candidates'[b] = candidates[b]
      BY DEF MovesTo
    <2>2. \A b \in Candidates : Decision'[b] = IF b = c THEN d ELSE Decision[b]
      BY <1>2, <2>1 DEF Decision, Decided, Verdicts
    <2>3. Decision' = [b \in Candidates |-> Decision'[b]] /\ DOMAIN Decision = Candidates
      BY DEF Decision
    <2>. QED
      BY <2>2, <2>3
  <1>4. c \in Contract!Undecided
    BY <1>1, UndecidedRows DEF InProgress
  <1>5. Phase # "completed"
    BY <1>1 DEF Phase
  <1>6. ASSUME epochStatus # "HALTED"
        PROVE  Contract!Undecided = {c} <=>
                 \A b \in DOMAIN attempts' : attempts'[b].status \notin ActiveStatus
    <2>1. /\ DOMAIN attempts' = DOMAIN attempts
          /\ \A b \in DOMAIN attempts \ {a} : attempts'[b] = attempts[b]
          /\ attempts'[a].status \notin ActiveStatus
      BY DEF MovesTo, ActiveStatus
    <2>2. ASSUME Contract!Undecided = {c}, NEW b \in DOMAIN attempts, b # a
          PROVE  attempts[b].status \notin ActiveStatus
      <3>. SUFFICES ASSUME attempts[b].status \in ActiveStatus PROVE FALSE
        OBVIOUS
      <3>1. CandidateOf(b) = c
        BY <2>2, UndecidedRows
      <3>2. a \in Nat /\ b \in Nat
        BY <1>1, AttemptRows DEF LedgerInvariant
      <3>3. ~(a < b) /\ ~(b < a)
        BY <1>1, <3>1 DEF LedgerInvariant, RowsAgree, LaterCrashed, ActiveStatus
      <3>. QED
        BY <2>2, <3>2, <3>3
    <2>3. ASSUME \A b \in DOMAIN attempts \ {a} : attempts[b].status \notin ActiveStatus,
                 NEW b \in Contract!Undecided
          PROVE  b = c
      <3>1. PICK e \in Attempted(b) : attempts[e].status \in ActiveStatus
        BY <1>6, UndecidedRows
      <3>. QED
        BY <2>3, <3>1 DEF Attempted
    <2>. QED
      BY <1>4, <2>1, <2>2, <2>3
  <1>7. \/ Phase' = IF Phase = "open" /\ ~(~generationComplete) /\ Contract!Undecided = {c}
                    THEN "completed" ELSE Phase
        \/ Phase = "open" /\ d = "FAILED" /\ Phase' = "halted"
    <2>1. CASE epochStatus = "HALTED"
      BY <2>1 DEF CompleteEpochIfIdle, Phase, Closed
    <2>2. CASE epochStatus # "HALTED" /\ d = "FAILED" /\ epochStatus' = "HALTED"
      BY <1>1, <2>2 DEF Phase
    <2>3. ASSUME epochStatus # "HALTED", NEW log, CompleteEpochIfIdle(epochStatus, log)
          PROVE  Phase' = IF Phase = "open" /\ ~(~generationComplete) /\ Contract!Undecided = {c}
                          THEN "completed" ELSE Phase
      <3>1. Phase = "open" /\ epochStatus \notin Closed
        BY <1>1, <2>3 DEF Phase, Closed
      <3>2. CASE generationComplete /\ Contract!Undecided = {c}
        <4>1. epochStatus' = "COMPLETED"
          BY <1>6, <2>3, <3>1, <3>2 DEF CompleteEpochIfIdle
        <4>. QED
          BY <3>1, <3>2, <4>1 DEF Phase
      <3>3. CASE ~(generationComplete /\ Contract!Undecided = {c})
        <4>1. epochStatus' = epochStatus
          BY <1>6, <2>3, <3>1, <3>3 DEF CompleteEpochIfIdle
        <4>. QED
          BY <3>1, <3>3, <4>1 DEF Phase
      <3>. QED
        BY <3>2, <3>3
    <2>. QED
      BY <2>1, <2>2, <2>3
  <1>8. Contract!Decide(c, d)
    BY <1>3, <1>4, <1>5, <1>7 DEF Contract!Decide
  <1>. QED
    BY <1>1, <1>2, <1>8

\* Recovery puts candidates back in the queue, or halts the epoch: it decides none.
LEMMA RecoveryKeepsDecisions ==
  ASSUME LedgerInvariant, NEW wait \in 0 .. MaxWait, RecoverStaleAttempts(wait)
  PROVE  /\ Decision' = Decision /\ Contract!Undecided # {}
         /\ epochStatus \notin Closed /\ epochStatus' \in {epochStatus, "HALTED"}
  <1>0. TypeOK
    BY DEF LedgerInvariant
  <1>1. PICK n \in Nat, walk \in Ascending(Stale(wait)) :
          CrashAlong(walk, n) /\ RecoveredRows(walk, n)
    BY <1>0, RecoveryRows
  <1>2. /\ n \in Nat \ {0} /\ Retries(n) \in Nat /\ Retries(n) <= n
        /\ \A i \in 1 .. n : walk[i] \in Running
    BY <1>1 DEF RecoveredRows
  <1>3. \A i \in 1 .. n : candidates[CandidateOf(walk[i])].status = "RUNNING"
    BY <1>2, RunningRow
  <1>4. ASSUME NEW c \in Candidates
        PROVE  \/ candidates'[c].status = candidates[c].status
               \/ /\ candidates[c].status = "RUNNING"
                  /\ candidates'[c].status \in {"QUEUED", "CRASHED"}
    <2>1. CASE \E i \in 1 .. Retries(n) : CandidateOf(walk[i]) = c
      <3>1. candidates'[c] = [candidates[c] EXCEPT !.status = "QUEUED"]
        BY <1>1, <2>1 DEF CrashAlong
      <3>2. candidates[c].status = "RUNNING"
        BY <1>2, <1>3, <2>1
      <3>. QED
        BY <1>0, <3>1, <3>2 DEF TypeOK
    <2>2. CASE /\ ~\E i \in 1 .. Retries(n) : CandidateOf(walk[i]) = c
               /\ \E i \in 1 .. n : CandidateOf(walk[i]) = c
      <3>1. candidates'[c] = [candidates[c] EXCEPT !.status = "CRASHED"]
        BY <1>1, <2>2 DEF CrashAlong
      <3>2. candidates[c].status = "RUNNING"
        BY <1>3, <2>2
      <3>. QED
        BY <1>0, <3>1, <3>2 DEF TypeOK
    <2>3. CASE /\ ~\E i \in 1 .. Retries(n) : CandidateOf(walk[i]) = c
               /\ ~\E i \in 1 .. n : CandidateOf(walk[i]) = c
      BY <1>1, <2>3 DEF CrashAlong
    <2>. QED
      BY <2>1, <2>2, <2>3
  <1>5. Decision' = Decision
    BY <1>4 DEF Decision, Decided, Verdicts
  <1>6. Contract!Undecided # {}
    <2>1. walk[1] \in Running
      BY <1>2
    <2>. QED
      BY <2>1, RunningRow, UndecidedRows DEF ActiveStatus
  <1>7. epochStatus \notin Closed
    <2>1. epochStatus # "COMPLETED"
      BY <1>2, RunningRow
    <2>. QED
      BY <2>1 DEF RecoverStaleAttempts, Closed
  <1>8. epochStatus' \in {epochStatus, "HALTED"}
    BY <1>1 DEF CrashAlong
  <1>. QED
    BY <1>5, <1>6, <1>7, <1>8

\* Every step of the ledger is a step of the contract, or changes nothing it sees.
LEMMA StepKeepsContract ==
  RefinementInvariant /\ RefinementInvariant' /\ [Next]_ledgerVars
    => [Contract!ContractNext]_Contract!contractVars
  <1> DEFINE Seen == Contract!ContractNext \/ UNCHANGED Contract!contractVars
  <1>. SUFFICES ASSUME LedgerInvariant, NeverIdle, LedgerInvariant', [Next]_ledgerVars
                PROVE  Seen
    BY DEF RefinementInvariant
  <1>0. TypeOK /\ EpochAgrees
    BY DEF LedgerInvariant
  <1>a. ASSUME Phase' = Phase, UNCHANGED generationComplete, UNCHANGED candidates PROVE Seen
    BY <1>a, DecisionKept DEF Contract!contractVars
  <1>1. CASE EnsureEpoch
    BY <1>1, <1>a DEF EnsureEpoch, Phase
  <1>2. ASSUME NEW c \in Candidates, RegisterCandidate(c) PROVE Seen
    <2>1. Phase = "open" /\ Phase' = Phase /\ ~generationComplete
      BY <1>2 DEF RegisterCandidate, EpochOpen, Phase
    <2>2. candidates[c].status = "ABSENT"
      BY <1>2 DEF RegisterCandidate, Registered
    <2>3. /\ candidates'[c].status = "QUEUED"
          /\ \A b \in Candidates \ {c} : candidates'[b] = candidates[b]
      BY <1>0, <1>2 DEF RegisterCandidate, TypeOK
    <2>4. Decision[c] = "absent"
      BY <2>2 DEF Decision, Decided, Verdicts
    <2>5. Decision' = [Decision EXCEPT ![c] = "pending"]
      <3>1. \A b \in Candidates : Decision'[b] = IF b = c THEN "pending" ELSE Decision[b]
        BY <2>3 DEF Decision, Decided, Verdicts
      <3>2. Decision' = [b \in Candidates |-> Decision'[b]] /\ DOMAIN Decision = Candidates
        BY DEF Decision
      <3>. QED
        BY <3>1, <3>2
    <2>6. (~generationComplete)' \in BOOLEAN
      OBVIOUS
    <2>7. Contract!Admit(c)
      BY <2>1, <2>4, <2>5, <2>6 DEF Contract!Admit
    <2>. QED
      BY <2>7 DEF Contract!ContractNext, Candidates
  <1>3. CASE MarkGenerationComplete
    <2>1. PICK log : CompleteEpochIfIdle(epochStatus, log)
      BY <1>3 DEF MarkGenerationComplete
    <2>2. /\ generationComplete' /\ UNCHANGED <<candidates, attempts>>
          /\ epochStatus # "HALTED" /\ Decision' = Decision
      BY <1>3, DecisionKept DEF MarkGenerationComplete
    <2>3. CASE epochStatus = "COMPLETED"
      BY <1>0, <1>a, <2>1, <2>2, <2>3
      DEF CompleteEpochIfIdle, Closed, EpochAgrees, Phase, TypeOK
    <2>4. CASE epochStatus # "COMPLETED" /\ generationComplete
      <3>1. \E a \in DOMAIN attempts : attempts[a].status \in ActiveStatus
        BY <2>2, <2>4 DEF NeverIdle, Closed
      <3>2. epochStatus' = epochStatus
        BY <2>1, <2>2, <3>1 DEF CompleteEpochIfIdle
      <3>. QED
        BY <1>0, <1>a, <2>2, <2>4, <3>2 DEF Phase, TypeOK
    <2>5. CASE epochStatus # "COMPLETED" /\ ~generationComplete
      <3>1. Contract!Undecided = {} <=>
              \A a \in DOMAIN attempts : attempts[a].status \notin ActiveStatus
        BY <2>2, UndecidedRows DEF Attempted
      <3>2. Phase = "open"
        BY <2>2, <2>5 DEF Phase
      <3>3. Phase' = IF Contract!Undecided = {} THEN "completed" ELSE "open"
        BY <2>1, <2>2, <2>5, <3>1 DEF CompleteEpochIfIdle, Closed, Phase
      <3>4. Contract!CloseGeneration
        BY <2>2, <2>5, <3>2, <3>3 DEF Contract!CloseGeneration
      <3>. QED
        BY <3>4 DEF Contract!ContractNext
    <2>. QED
      BY <2>3, <2>4, <2>5
  <1>4. ASSUME NEW owner, NEW wait, ClaimNothing(owner, wait) PROVE Seen
    <2>1. epochStatus' = epochStatus
      BY <1>4 DEF ClaimNothing, CompleteEpochIfIdle, NeverIdle, Closed
    <2>. QED
      BY <1>4, <1>a, <2>1 DEF ClaimNothing, Phase
  <1>5. ASSUME NEW owner, NEW wait, NEW a,
               ResumeLease(owner, wait, a) \/ Heartbeat(a, owner, wait)
        PROVE  Seen
    BY <1>5, <1>a DEF ResumeLease, Heartbeat, epochVars, Phase
  <1>6. ASSUME NEW owner \in Owners, NEW wait \in 0 .. MaxWait, NEW a \in DOMAIN attempts,
               StartAttempt(owner, wait, a)
        PROVE  Seen
    <2>1. wait \in Nat
      BY LedgerAssumption
    <2>2. MovesTo(a, "RUNNING", "none") /\ attempts[a].status = "QUEUED"
      BY <1>6, <2>1, StartMoves
    <2>3. candidates[CandidateOf(a)].status = "QUEUED"
      BY <1>6 DEF StartAttempt, Claimable
    <2>4. Decision' = Decision
      BY <2>2, <2>3 DEF MovesTo, Decision, Decided, Verdicts
    <2>5. Phase' = Phase /\ UNCHANGED generationComplete
      BY <1>6 DEF StartAttempt, EpochOpen, Phase
    <2>. QED
      BY <2>4, <2>5 DEF Contract!contractVars
  <1>7. ASSUME NEW owner, NEW wait, NEW a, NEW verdict, CompleteAttempt(a, owner, wait, verdict)
        PROVE  Seen
    <2>1. /\ MovesTo(a, "COMPLETED", verdict) /\ a \in Running
      BY <1>7, CompleteMoves
    <2>2. UNCHANGED generationComplete /\ \E log : CompleteEpochIfIdle(epochStatus, log)
      BY <1>7 DEF CompleteAttempt
    <2>3. \E c \in Candidates : \E e \in Contract!DecisionsFor(c) : Contract!Decide(c, e)
      BY <2>1, <2>2, Decides
    <2>. QED
      BY <2>3 DEF Contract!ContractNext, Candidates
  <1>8. ASSUME NEW wait \in 0 .. MaxWait, RecoverStaleAttempts(wait) PROVE Seen
    <2>1. /\ Decision' = Decision /\ Contract!Undecided # {}
          /\ epochStatus \notin Closed /\ epochStatus' \in {epochStatus, "HALTED"}
      BY <1>8, RecoveryKeepsDecisions
    <2>2. UNCHANGED generationComplete
      BY <1>8 DEF RecoverStaleAttempts
    <2>3. CASE epochStatus' = epochStatus
      BY <2>1, <2>2, <2>3 DEF Phase, Contract!contractVars
    <2>4. CASE epochStatus' = "HALTED"
      <3>1. Phase = "open" /\ Phase' = "halted"
        BY <2>1, <2>4 DEF Phase, Closed
      <3>2. Contract!Halt
        BY <2>1, <2>2, <3>1 DEF Contract!Halt
      <3>. QED
        BY <3>2 DEF Contract!ContractNext
    <2>. QED
      BY <2>1, <2>3, <2>4
  <1>9. ASSUME NEW a, NEW owner, NEW systemError \in BOOLEAN,
               FailAttempt(a, owner, systemError)
        PROVE  Seen
    <2>1. MovesTo(a, "FAILED", "none") /\ a \in Running
      BY <1>9, FailMoves
    <2>2. candidates'[CandidateOf(a)].status = "FAILED"
      BY <2>1 DEF MovesTo
    <2>3. /\ UNCHANGED generationComplete
          /\ epochStatus' = "HALTED" \/ \E log : CompleteEpochIfIdle(epochStatus, log)
      BY <1>9 DEF FailAttempt
    <2>4. \E c \in Candidates : \E e \in Contract!DecisionsFor(c) : Contract!Decide(c, e)
      BY <2>1, <2>2, <2>3, Decides
    <2>. QED
      BY <2>4 DEF Contract!ContractNext, Candidates
  <1>10. CASE Tick
    BY <1>10, <1>a DEF Tick, epochVars, Phase
  <1>11. CASE UNCHANGED ledgerVars
    BY <1>11, <1>a DEF ledgerVars, Phase
  <1>. QED
    BY <1>1, <1>2, <1>3, <1>4, <1>5, <1>6, <1>7, <1>8, <1>9, <1>10, <1>11 DEF Next

\* The ledger implements the contract of an epoch: whatever clients, crashes, retries
\* and late results do, a candidate is admitted while generation is open, decided at
\* most once and for good, and the epoch ends drained or halted by system errors.
THEOREM Refines == Spec => KeepsContract
  <1>1. Init => Contract!ContractInit
    <2>. SUFFICES ASSUME Init PROVE Contract!ContractInit
      OBVIOUS
    <2>1. Phase = "open" /\ (~generationComplete) = TRUE
      BY DEF Init, Phase
    <2>2. Decision = [c \in Real \cup Null |-> "absent"]
      BY DEF Init, Decision, Decided, Verdicts, Candidates
    <2>. QED
      BY <2>1, <2>2 DEF Contract!ContractInit
  <1>2. RefinementInvariant /\ RefinementInvariant' /\ [Next]_ledgerVars
          => [Contract!ContractNext]_Contract!contractVars
    BY StepKeepsContract
  <1>. QED
    BY <1>1, <1>2, RefinementInvariantHolds, PTL DEF Spec, KeepsContract, Contract!ContractSpec

-----------------------------------------------------------------------------
(* What is counted.  The audit events, the attempt numbers and the         *)
(* ordinals of one candidate follow its rows: CountsOf(c) below, which     *)
(* every step keeps for every candidate.                                   *)

CrashedOf(c) == {a \in Attempted(c) : attempts[a].status = "CRASHED"}
StartedOf(c) == {a \in Attempted(c) : attempts[a].status # "QUEUED"}
UpTo(c, a) == {b \in Attempted(c) : b <= a}

\* The status that the last event of a candidate names.
StatusOf(last) ==
  CASE last \in {"CANDIDATE_QUEUED", "ATTEMPT_RETRY_QUEUED"} -> "QUEUED"
    [] last = "ATTEMPT_STARTED" -> "RUNNING"
    [] last = "ATTEMPT_CRASHED" -> "CRASHED"
    [] last = "CANDIDATE_FAILED" -> "FAILED"
    [] last = "CANDIDATE_REGISTERED" -> "REGISTERED"
    [] last = "CANDIDATE_SCREENED_OUT" -> "SCREENED_OUT"

\* A log tells of a candidate in some status, with n attempts, k of them crashed
\* and s of them started.
LogTells(log, status, n, k, s) ==
  /\ log \in Seq(CandidateEvent) /\ log # <<>> /\ log[1] = "CANDIDATE_QUEUED"
  /\ Count(log, "ATTEMPT_RETRY_QUEUED") + 1 = n
  /\ Count(log, "ATTEMPT_CRASHED") = k
  /\ Count(log, "ATTEMPT_STARTED") = s
  /\ status = StatusOf(log[Len(log)])

Told(c) == LogTells(events[c], candidates[c].status, Cardinality(Attempted(c)),
                    Cardinality(CrashedOf(c)), Cardinality(StartedOf(c)))
Numbered(c) == \A a \in Attempted(c) : attempts[a].number = Cardinality(UpTo(c, a))

CountsOf(c) ==
  /\ Numbered(c)
  /\ c \in Registered => Told(c)
  /\ c \notin Registered => events[c] = <<>>

\* The ordinals of a kind number its candidates.
OrdinalOf(c) ==
  /\ candidates[c].ordinal \in 1 .. Cardinality(Peers(c))
  /\ Cardinality(Peers(c)) <= Budget(c)
  /\ \A d \in Registered :
       SameKind(c) = SameKind(d) /\ candidates[c].ordinal = candidates[d].ordinal => c = d

CountInvariant ==
  /\ \A c \in Candidates : CountsOf(c)
  /\ \A c \in Registered : OrdinalOf(c)

LEMMA InvariantCounts == LedgerInvariant /\ CountInvariant => CountsAgree
  <1>. SUFFICES ASSUME LedgerInvariant, CountInvariant PROVE CountsAgree
    OBVIOUS
  <1>0. TypeOK
    BY DEF LedgerInvariant
  <1>1. AttemptsNumbered
    <2>. SUFFICES ASSUME NEW a \in DOMAIN attempts
                  PROVE  attempts[a].number = Cardinality(UpTo(CandidateOf(a), a))
      BY DEF AttemptsNumbered, UpTo
    <2>1. CandidateOf(a) \in Candidates /\ a \in Attempted(CandidateOf(a))
      BY <1>0, AttemptRows DEF Attempted
    <2>. QED
      BY <2>1 DEF CountInvariant, CountsOf, Numbered
  <1>2. OrdinalsWithinBudget
    <2>. SUFFICES ASSUME NEW c \in Registered, NEW d \in Registered
                  PROVE  /\ candidates[c].ordinal \in 1 .. Budget(c)
                         /\ SameKind(c) = SameKind(d)
                              /\ candidates[c].ordinal = candidates[d].ordinal => c = d
      BY DEF OrdinalsWithinBudget
    <2>1. OrdinalOf(c) /\ c \in Candidates
      BY DEF CountInvariant, Registered
    <2>2. Cardinality(Peers(c)) \in Nat /\ Budget(c) \in Nat
      BY <2>1, FinitePeers, LedgerAssumption DEF Budget
    <2>. QED
      BY <2>1, <2>2 DEF OrdinalOf
  <1>3. AuditTrail
    <2>. SUFFICES ASSUME NEW c \in Registered
                  PROVE  LogTells(events[c], candidates[c].status, Cardinality(Attempted(c)),
                                  Cardinality(CrashedOf(c)), Cardinality(StartedOf(c)))
      BY Zenon DEF AuditTrail, LogTells, CrashedOf, StartedOf, StatusOf
    <2>1. c \in Candidates
      BY DEF Registered
    <2>. QED
      BY <2>1 DEF CountInvariant, CountsOf, Told
  <1>. QED
    BY <1>1, <1>2, <1>3 DEF CountsAgree

-----------------------------------------------------------------------------
(* Event logs.                                                             *)

\* One more event is counted once, under its own type.
LEMMA CountAppend ==
  ASSUME NEW log \in Seq(CandidateEvent), NEW e \in CandidateEvent, NEW type
  PROVE  /\ Count(log, type) \in Nat
         /\ Count(Append(log, e), type) = IF e = type THEN Count(log, type) + 1
                                                      ELSE Count(log, type)
  <1> DEFINE n == Len(log) + 1
             more == Append(log, e)
             of == {i \in DOMAIN log : log[i] = type}
             all == {i \in DOMAIN more : more[i] = type}
  <1>1. Len(log) \in Nat /\ DOMAIN log = 1 .. Len(log)
    BY LenProperties
  <1>2. more \in Seq(CandidateEvent) /\ DOMAIN more = 1 .. n /\ more[n] = e
        /\ \A i \in 1 .. Len(log) : more[i] = log[i]
    BY <1>1, AppendProperties
  <1>3. IsFiniteSet(1 .. Len(log)) /\ of \in SUBSET (1 .. Len(log))
    BY <1>1, FS_Interval
  <1>4. IsFiniteSet(of) /\ Cardinality(of) \in Nat
    BY <1>3, FS_Subset, FS_CardinalityType
  <1>5. n \notin of
    BY <1>1
  <1>. HIDE DEF more, n
  <1>6. CASE e = type
    <2>1. all = of \cup {n}
      BY <1>1, <1>2, <1>6 DEF n
    <2>2. Cardinality(all) = Cardinality(of) + 1
      BY <1>4, <1>5, <2>1, FS_AddElement
    <2>. QED
      BY <1>4, <1>6, <2>2 DEF Count, more
  <1>7. CASE e # type
    <2>1. all = of
      BY <1>1, <1>2, <1>7 DEF n
    <2>. QED
      BY <1>4, <1>7, <2>1 DEF Count, more
  <1>. QED
    BY <1>6, <1>7

LEMMA TellsMore ==
  ASSUME NEW log, NEW status, NEW n \in Nat, NEW k \in Nat, NEW s \in Nat,
         LogTells(log, status, n, k, s), NEW e \in CandidateEvent
  PROVE  LogTells(Append(log, e), StatusOf(e),
                  IF e = "ATTEMPT_RETRY_QUEUED" THEN n + 1 ELSE n,
                  IF e = "ATTEMPT_CRASHED" THEN k + 1 ELSE k,
                  IF e = "ATTEMPT_STARTED" THEN s + 1 ELSE s)
  <1> DEFINE more == Append(log, e)
  <1>1. log \in Seq(CandidateEvent) /\ log # <<>> /\ log[1] = "CANDIDATE_QUEUED"
    BY DEF LogTells
  <1>2. more \in Seq(CandidateEvent) /\ more # <<>> /\ more[1] = "CANDIDATE_QUEUED"
        /\ more[Len(more)] = e
    BY <1>1
  <1>3. /\ Count(log, "ATTEMPT_RETRY_QUEUED") + 1 = n /\ Count(log, "ATTEMPT_CRASHED") = k
        /\ Count(log, "ATTEMPT_STARTED") = s
    BY DEF LogTells
  <1>4. Count(more, "ATTEMPT_RETRY_QUEUED") + 1
          = IF e = "ATTEMPT_RETRY_QUEUED" THEN n + 1 ELSE n
    BY <1>1, <1>3, CountAppend
  <1>5. Count(more, "ATTEMPT_CRASHED") = IF e = "ATTEMPT_CRASHED" THEN k + 1 ELSE k
    BY <1>1, <1>3, CountAppend
  <1>6. Count(more, "ATTEMPT_STARTED") = IF e = "ATTEMPT_STARTED" THEN s + 1 ELSE s
    BY <1>1, <1>3, CountAppend
  <1>. HIDE DEF more
  <1>7. LogTells(more, StatusOf(e),
                 IF e = "ATTEMPT_RETRY_QUEUED" THEN n + 1 ELSE n,
                 IF e = "ATTEMPT_CRASHED" THEN k + 1 ELSE k,
                 IF e = "ATTEMPT_STARTED" THEN s + 1 ELSE s)
    BY <1>2, <1>4, <1>5, <1>6, Zenon DEF LogTells
  <1>. QED
    BY <1>7 DEF more

LEMMA TellsOfCrash ==
  ASSUME NEW log, NEW status, NEW n \in Nat, NEW k \in Nat, NEW s \in Nat,
         LogTells(log, status, n, k, s)
  PROVE  LogTells(Append(log, "ATTEMPT_CRASHED"), "CRASHED", n, k + 1, s)
  <1>1. StatusOf("ATTEMPT_CRASHED") = "CRASHED"
    BY DEF StatusOf
  <1>. QED
    BY <1>1, TellsMore DEF CandidateEvent

LEMMA TellsOfRetry ==
  ASSUME NEW log, NEW status, NEW n \in Nat, NEW k \in Nat, NEW s \in Nat,
         LogTells(log, status, n, k, s)
  PROVE  LogTells(Append(log, "ATTEMPT_RETRY_QUEUED"), "QUEUED", n + 1, k, s)
  <1>1. StatusOf("ATTEMPT_RETRY_QUEUED") = "QUEUED"
    BY DEF StatusOf
  <1>. QED
    BY <1>1, TellsMore DEF CandidateEvent

\* Events written together are events written in turn.
LEMMA Concatenated ==
  ASSUME NEW log \in Seq(CandidateEvent), NEW e \in CandidateEvent, NEW f \in CandidateEvent,
         NEW g \in CandidateEvent
  PROVE  /\ log \o <<e>> = Append(log, e)
         /\ log \o <<e, f>> = Append(Append(log, e), f)
         /\ log \o <<e, f, g>> = Append(Append(Append(log, e), f), g)
OBVIOUS

-----------------------------------------------------------------------------
(* What a step does to the rows of one candidate.                          *)

\* Nothing; one attempt takes another status; one is crashed and retried under b;
\* the first one is made.
Alike(c) ==
  /\ Attempted(c)' = Attempted(c)
  /\ \A b \in Attempted(c) : /\ attempts'[b].number = attempts[b].number
                             /\ attempts'[b].status = attempts[b].status
Turns(c, a, status) ==
  /\ Attempted(c)' = Attempted(c) /\ a \in Attempted(c)
  /\ \A b \in Attempted(c) : attempts'[b].number = attempts[b].number
  /\ \A b \in Attempted(c) \ {a} : attempts'[b].status = attempts[b].status
  /\ attempts'[a].status = status
Retried(c, a, b) ==
  /\ Attempted(c)' = Attempted(c) \cup {b} /\ a \in Attempted(c)
  /\ b \in Nat /\ \A x \in Attempted(c) : x <= a /\ x < b
  /\ \A x \in Attempted(c) : attempts'[x].number = attempts[x].number
  /\ \A x \in Attempted(c) \ {a} : attempts'[x].status = attempts[x].status
  /\ attempts[a].status = "RUNNING" /\ attempts'[a].status = "CRASHED"
  /\ attempts'[b].status = "QUEUED" /\ attempts'[b].number = attempts[a].number + 1
Begins(c, b) ==
  /\ Attempted(c) = {} /\ Attempted(c)' = {b} /\ b \in Nat
  /\ attempts'[b].status = "QUEUED" /\ attempts'[b].number = 1

LEMMA FiniteCounts ==
  ASSUME TypeOK, NEW c
  PROVE  /\ IsFiniteSet(Attempted(c)) /\ IsFiniteSet(CrashedOf(c)) /\ IsFiniteSet(StartedOf(c))
         /\ Cardinality(Attempted(c)) \in Nat /\ Cardinality(CrashedOf(c)) \in Nat
         /\ Cardinality(StartedOf(c)) \in Nat
         /\ Attempted(c) \subseteq Nat
  <1>1. Attempted(c) \in SUBSET (1 .. Len(attempts)) /\ IsFiniteSet(1 .. Len(attempts))
    BY AttemptRows, FS_Interval DEF Attempted
  <1>2. IsFiniteSet(Attempted(c)) /\ Attempted(c) \subseteq Nat
    BY <1>1, FS_Subset
  <1>3. CrashedOf(c) \in SUBSET Attempted(c) /\ StartedOf(c) \in SUBSET Attempted(c)
    BY DEF CrashedOf, StartedOf
  <1>. QED
    BY <1>2, <1>3, FS_Subset, FS_CardinalityType

\* The counts of a candidate whose log grew by what happened to its rows.
LEMMA AlikeCounts ==
  ASSUME NEW c, CountsOf(c), Alike(c), UNCHANGED events[c],
         c \in Registered => UNCHANGED candidates[c].status,
         c \in Registered <=> c \in Registered'
  PROVE  CountsOf(c)'
  <1>1. \A a \in Attempted(c) : UpTo(c, a)' = UpTo(c, a)
    BY DEF UpTo, Alike
  <1>2. Numbered(c)'
    BY <1>1 DEF Numbered, Alike, CountsOf
  <1>3. CrashedOf(c)' = CrashedOf(c) /\ StartedOf(c)' = StartedOf(c)
    BY DEF CrashedOf, StartedOf, Alike
  <1>4. c \in Registered' => Told(c)'
    BY <1>3 DEF Told, CountsOf, Alike
  <1>. QED
    BY <1>2, <1>4 DEF CountsOf

LEMMA TurnsSets ==
  ASSUME NEW c, NEW a, NEW status, Turns(c, a, status), attempts[a].status # "CRASHED"
  PROVE  /\ Numbered(c) => Numbered(c)'
         /\ a \notin CrashedOf(c)
         /\ CrashedOf(c)' = IF status = "CRASHED" THEN CrashedOf(c) \cup {a} ELSE CrashedOf(c)
         /\ attempts[a].status = "QUEUED" => a \notin StartedOf(c)
         /\ status # "QUEUED" => StartedOf(c)' = StartedOf(c) \cup {a}
         /\ attempts[a].status # "QUEUED" => a \in StartedOf(c)
  <1>1. \A b \in Attempted(c) : UpTo(c, b)' = UpTo(c, b)
    BY DEF UpTo, Turns
  <1>2. Numbered(c) => Numbered(c)'
    BY <1>1 DEF Numbered, Turns
  <1>3. /\ CrashedOf(c)' = IF status = "CRASHED" THEN CrashedOf(c) \cup {a} ELSE CrashedOf(c)
        /\ status # "QUEUED" => StartedOf(c)' = StartedOf(c) \cup {a}
    BY DEF CrashedOf, StartedOf, Turns
  <1>. QED
    BY <1>2, <1>3 DEF CrashedOf, StartedOf, Turns

LEMMA OneMore ==
  ASSUME NEW S, NEW x, IsFiniteSet(S), x \notin S
  PROVE  Cardinality(S \cup {x}) = Cardinality(S) + 1
BY FS_AddElement

LEMMA RetriedSets ==
  ASSUME TypeOK, NEW c, NEW a, NEW b, Retried(c, a, b), Numbered(c)
  PROVE  /\ Numbered(c)'
         /\ Cardinality(Attempted(c)') = Cardinality(Attempted(c)) + 1
         /\ Cardinality(CrashedOf(c)') = Cardinality(CrashedOf(c)) + 1
         /\ StartedOf(c)' = StartedOf(c)
  <1>1. /\ IsFiniteSet(Attempted(c)) /\ IsFiniteSet(CrashedOf(c)) /\ Attempted(c) \subseteq Nat
        /\ Cardinality(Attempted(c)) \in Nat
    BY FiniteCounts
  <1>2. Attempted(c)' = Attempted(c) \cup {b} /\ b \notin Attempted(c) /\ b \in Nat
        /\ a \in Attempted(c) /\ \A x \in Attempted(c) : x <= a /\ x < b
    BY <1>1 DEF Retried
  <1>3. Cardinality(Attempted(c)') = Cardinality(Attempted(c)) + 1
    <2>1. Cardinality(Attempted(c) \cup {b}) = Cardinality(Attempted(c)) + 1
      BY <1>1, <1>2, OneMore
    <2>. QED
      BY <1>2, <2>1, Zenon
  <1>4. CrashedOf(c)' = CrashedOf(c) \cup {a} /\ a \notin CrashedOf(c)
    BY <1>2 DEF CrashedOf, Retried
  <1>5. Cardinality(CrashedOf(c)') = Cardinality(CrashedOf(c)) + 1
    <2>1. Cardinality(CrashedOf(c) \cup {a}) = Cardinality(CrashedOf(c)) + 1
      BY <1>1, <1>4, OneMore
    <2>. QED
      BY <1>4, <2>1, Zenon
  <1>6. StartedOf(c)' = StartedOf(c)
    BY <1>2 DEF StartedOf, Retried
  <1>7. \A x \in Attempted(c) : UpTo(c, x)' = UpTo(c, x)
    BY <1>1, <1>2 DEF UpTo
  <1>8. UpTo(c, a) = Attempted(c) /\ UpTo(c, b)' = Attempted(c)'
    BY <1>1, <1>2 DEF UpTo
  <1>9. attempts'[b].number = Cardinality(UpTo(c, b)')
    BY <1>2, <1>3, <1>8 DEF Retried, Numbered
  <1>10. Numbered(c)'
    BY <1>2, <1>7, <1>9 DEF Numbered, Retried
  <1>. QED
    BY <1>3, <1>5, <1>6, <1>10

LEMMA StartCounts ==
  ASSUME TypeOK, NEW c, CountsOf(c), c \in Registered, NEW a, Turns(c, a, "RUNNING"),
         attempts[a].status = "QUEUED", events'[c] = Append(events[c], "ATTEMPT_STARTED"),
         candidates'[c].status = "RUNNING", c \in Registered'
  PROVE  CountsOf(c)'
  <1>1. /\ Numbered(c)' /\ CrashedOf(c)' = CrashedOf(c) /\ a \notin StartedOf(c)
        /\ StartedOf(c)' = StartedOf(c) \cup {a} /\ Attempted(c)' = Attempted(c)
    BY TurnsSets DEF CountsOf, Turns
  <1>2. Cardinality(StartedOf(c)') = Cardinality(StartedOf(c)) + 1
    BY <1>1, FiniteCounts, FS_AddElement
  <1>3. LogTells(events'[c], StatusOf("ATTEMPT_STARTED"), Cardinality(Attempted(c)),
                 Cardinality(CrashedOf(c)), Cardinality(StartedOf(c)) + 1)
    <2>1. LogTells(events[c], candidates[c].status, Cardinality(Attempted(c)),
                   Cardinality(CrashedOf(c)), Cardinality(StartedOf(c)))
      BY DEF CountsOf, Told
    <2>. QED
      BY <2>1, FiniteCounts, TellsMore DEF CandidateEvent
  <1>4. StatusOf("ATTEMPT_STARTED") = "RUNNING"
    BY DEF StatusOf
  <1>. QED
    BY <1>1, <1>2, <1>3, <1>4 DEF CountsOf, Told

\* A decision: complete and fail write as last event the one that names it.
LEMMA DecideCounts ==
  ASSUME TypeOK, NEW c, CountsOf(c), c \in Registered, NEW a, NEW status,
         Turns(c, a, status), status \in {"COMPLETED", "FAILED"},
         attempts[a].status = "RUNNING", c \in Registered',
         LogTells(events'[c], candidates'[c].status, Cardinality(Attempted(c)),
                  Cardinality(CrashedOf(c)), Cardinality(StartedOf(c)))
  PROVE  CountsOf(c)'
  <1>1. /\ Numbered(c)' /\ CrashedOf(c)' = CrashedOf(c) /\ a \in StartedOf(c)
        /\ StartedOf(c)' = StartedOf(c) \cup {a} /\ Attempted(c)' = Attempted(c)
    BY TurnsSets DEF CountsOf, Turns
  <1>2. StartedOf(c)' = StartedOf(c)
    BY <1>1
  <1>. QED
    BY <1>1, <1>2 DEF CountsOf, Told

LEMMA CrashCounts ==
  ASSUME TypeOK, NEW c, CountsOf(c), c \in Registered, NEW a, Turns(c, a, "CRASHED"),
         attempts[a].status = "RUNNING", events'[c] = events[c] \o <<"ATTEMPT_CRASHED">>,
         candidates'[c].status = "CRASHED", c \in Registered'
  PROVE  CountsOf(c)'
  <1>1. /\ Numbered(c)' /\ CrashedOf(c)' = CrashedOf(c) \cup {a} /\ a \notin CrashedOf(c)
        /\ a \in StartedOf(c) /\ StartedOf(c)' = StartedOf(c) \cup {a}
        /\ Attempted(c)' = Attempted(c)
    BY TurnsSets DEF CountsOf, Turns
  <1>2. StartedOf(c)' = StartedOf(c)
        /\ Cardinality(CrashedOf(c)') = Cardinality(CrashedOf(c)) + 1
    <2>1. Cardinality(CrashedOf(c) \cup {a}) = Cardinality(CrashedOf(c)) + 1
      BY <1>1, FiniteCounts, OneMore
    <2>. QED
      BY <1>1, <2>1, Zenon
  <1>3. LogTells(events[c], candidates[c].status, Cardinality(Attempted(c)),
                 Cardinality(CrashedOf(c)), Cardinality(StartedOf(c)))
    BY DEF CountsOf, Told
  <1>4. events[c] \in Seq(CandidateEvent) /\ "ATTEMPT_CRASHED" \in CandidateEvent
    BY <1>3 DEF LogTells, CandidateEvent
  <1>5. events'[c] = Append(events[c], "ATTEMPT_CRASHED")
    BY <1>4, Concatenated
  <1>6. LogTells(events'[c], "CRASHED", Cardinality(Attempted(c)),
                 Cardinality(CrashedOf(c)) + 1, Cardinality(StartedOf(c)))
    <2>1. LogTells(Append(events[c], "ATTEMPT_CRASHED"), "CRASHED", Cardinality(Attempted(c)),
                   Cardinality(CrashedOf(c)) + 1, Cardinality(StartedOf(c)))
      BY <1>3, FiniteCounts, TellsOfCrash
    <2>. QED
      BY <1>5, <2>1
  <1>. QED
    BY <1>1, <1>2, <1>6 DEF CountsOf, Told

LEMMA RetryCounts ==
  ASSUME TypeOK, NEW c, CountsOf(c), c \in Registered, NEW a, NEW b, Retried(c, a, b),
         events'[c] = events[c] \o <<"ATTEMPT_CRASHED", "ATTEMPT_RETRY_QUEUED">>,
         candidates'[c].status = "QUEUED", c \in Registered'
  PROVE  CountsOf(c)'
  <1> DEFINE n == Cardinality(Attempted(c))
             k == Cardinality(CrashedOf(c))
             s == Cardinality(StartedOf(c))
  <1>1. /\ Numbered(c)' /\ Cardinality(Attempted(c)') = n + 1
        /\ Cardinality(CrashedOf(c)') = k + 1 /\ Cardinality(StartedOf(c)') = s
    BY RetriedSets DEF CountsOf
  <1>2. LogTells(events[c], candidates[c].status, n, k, s) /\ n \in Nat /\ k \in Nat /\ s \in Nat
    BY FiniteCounts DEF CountsOf, Told
  <1>3. /\ events[c] \in Seq(CandidateEvent)
        /\ "ATTEMPT_CRASHED" \in CandidateEvent /\ "ATTEMPT_RETRY_QUEUED" \in CandidateEvent
    BY <1>2 DEF LogTells, CandidateEvent
  <1> DEFINE log == Append(events[c], "ATTEMPT_CRASHED")
  <1>4. events'[c] = Append(log, "ATTEMPT_RETRY_QUEUED")
    BY <1>3, Concatenated
  <1>. HIDE DEF n, k, s
  <1>5. LogTells(log, "CRASHED", n, k + 1, s) /\ k + 1 \in Nat
    BY <1>2, TellsOfCrash
  <1>. HIDE DEF log
  <1>6. LogTells(events'[c], "QUEUED", n + 1, k + 1, s)
    <2>1. LogTells(Append(log, "ATTEMPT_RETRY_QUEUED"), "QUEUED", n + 1, k + 1, s)
      BY <1>2, <1>5, TellsOfRetry
    <2>. QED
      BY <1>4, <2>1
  <1>. QED
    BY <1>1, <1>6, Zenon DEF CountsOf, Told, n, k, s

LEMMA BeginCounts ==
  ASSUME NEW c, NEW b, Begins(c, b), events[c] = <<>>,
         events'[c] = Append(events[c], "CANDIDATE_QUEUED"), candidates'[c].status = "QUEUED",
         c \in Registered'
  PROVE  CountsOf(c)'
  <1>1. Attempted(c)' = {b} /\ b \in Nat /\ attempts'[b].status = "QUEUED"
        /\ attempts'[b].number = 1
    BY DEF Begins
  <1>2. CrashedOf(c)' = {} /\ StartedOf(c)' = {} /\ UpTo(c, b)' = {b}
    BY <1>1 DEF CrashedOf, StartedOf, UpTo
  <1>3. Numbered(c)'
    BY <1>1, <1>2, FS_Singleton DEF Numbered
  <1>4. events'[c] = <<"CANDIDATE_QUEUED">> /\ "CANDIDATE_QUEUED" \in CandidateEvent
    BY DEF CandidateEvent
  <1>5. \A type : type # "CANDIDATE_QUEUED" => Count(<<"CANDIDATE_QUEUED">>, type) = 0
    <2>. SUFFICES ASSUME NEW type, type # "CANDIDATE_QUEUED"
                  PROVE  Count(<<"CANDIDATE_QUEUED">>, type) = 0
      OBVIOUS
    <2>1. {i \in DOMAIN <<"CANDIDATE_QUEUED">> : <<"CANDIDATE_QUEUED">>[i] = type} = {}
      OBVIOUS
    <2>. QED
      BY <2>1, FS_EmptySet, Zenon DEF Count
  <1>6. StatusOf("CANDIDATE_QUEUED") = "QUEUED"
    BY DEF StatusOf
  <1>7. LogTells(<<"CANDIDATE_QUEUED">>, "QUEUED", 1, 0, 0)
    BY <1>4, <1>5, <1>6 DEF LogTells
  <1>. QED
    BY <1>1, <1>2, <1>3, <1>4, <1>7, FS_EmptySet, FS_Singleton DEF CountsOf, Told

-----------------------------------------------------------------------------
(* Every step keeps the counts of every candidate.                         *)

\* A candidate the walk meets is crashed and retried, or crashed for good.
LEMMA WalkedCounts ==
  ASSUME TypeOK, RowsAgree, NEW walk, NEW n, WalkSeen(walk, n), NEW i \in 1 .. n,
         NEW c \in Candidates, CandidateOf(walk[i]) = c
  PROVE  /\ i \in 1 .. Retries(n) => \E b \in Nat : Retried(c, walk[i], b)
         /\ i \notin 1 .. Retries(n) => Turns(c, walk[i], "CRASHED")
  <1> DEFINE k == Len(attempts)
             m == Retries(n)
  <1>1. /\ k \in Nat /\ DOMAIN attempts = 1 .. k /\ m \in Nat /\ n \in Nat /\ m <= n
        /\ DOMAIN attempts' = 1 .. k + m
    BY DEF WalkSeen
  <1>2. /\ walk[i] \in DOMAIN attempts /\ attempts[walk[i]].status = "RUNNING"
        /\ attempts'[walk[i]].status = "CRASHED"
        /\ attempts'[walk[i]].number = attempts[walk[i]].number
    BY DEF WalkSeen
  <1>3. \A j \in 1 .. n : CandidateOf(walk[j]) = c => j = i
    BY DEF WalkSeen
  <1>4. \A b \in DOMAIN attempts : (\A j \in 1 .. n : walk[j] # b) => attempts'[b] = attempts[b]
    BY Zenon DEF WalkSeen
  <1>5. \A b \in DOMAIN attempts : b \in DOMAIN attempts' /\ attempts'[b].candidate = CandidateOf(b)
    BY Zenon DEF WalkSeen
  <1>6. \A j \in 1 .. m : /\ k + j \in DOMAIN attempts' \ DOMAIN attempts
                          /\ attempts'[k + j].status = "QUEUED"
                          /\ attempts'[k + j].candidate = CandidateOf(walk[j])
                          /\ attempts'[k + j].number = attempts[walk[j]].number + 1
    BY Zenon DEF WalkSeen
  <1>7. \A b \in DOMAIN attempts' \ DOMAIN attempts : \E j \in 1 .. m : b = k + j
    BY Zenon DEF WalkSeen
  <1>8. walk[i] \in Attempted(c)
    BY <1>2 DEF Attempted
  <1>9. \A x \in Attempted(c) \ {walk[i]} : attempts'[x] = attempts[x]
    BY <1>3, <1>4 DEF Attempted
  <1>10. \A x \in Attempted(c) : x \in DOMAIN attempts /\ CandidateOf(x) = c
    BY DEF Attempted
  <1>11. \A x \in Attempted(c) : x <= walk[i]
    BY <1>1, <1>2, <1>10 DEF RowsAgree, LaterCrashed
  <1>12. \A b \in DOMAIN attempts' : b \notin DOMAIN attempts =>
           (attempts'[b].candidate = c <=> i \in 1 .. m /\ b = k + i)
    <2>. SUFFICES ASSUME NEW b \in DOMAIN attempts', b \notin DOMAIN attempts
                  PROVE  attempts'[b].candidate = c <=> i \in 1 .. m /\ b = k + i
      OBVIOUS
    <2>1. PICK j \in 1 .. m : b = k + j
      BY <1>7
    <2>2. attempts'[b].candidate = CandidateOf(walk[j]) /\ j \in 1 .. n
      BY <1>1, <1>6, <2>1
    <2>3. attempts'[b].candidate = c <=> j = i
      BY <1>3, <2>2
    <2>. QED
      BY <1>1, <2>1, <2>3
  <1>13. \A b \in DOMAIN attempts : attempts'[b].candidate = c <=> b \in Attempted(c)
    BY <1>5 DEF Attempted
  <1>14. Attempted(c)' = {b \in DOMAIN attempts' : attempts'[b].candidate = c}
    BY DEF Attempted, CandidateOf
  <1>15. CASE i \in 1 .. m
    <2>1. Attempted(c)' = Attempted(c) \cup {k + i}
      <3>1. k + i \in DOMAIN attempts' /\ attempts'[k + i].candidate = c
        BY <1>6, <1>15
      <3>2. ASSUME NEW b \in DOMAIN attempts'
            PROVE  attempts'[b].candidate = c <=> b \in Attempted(c) \cup {k + i}
        <4>1. CASE b \in DOMAIN attempts
          BY <1>6, <1>13, <1>15, <4>1
        <4>2. CASE b \notin DOMAIN attempts
          BY <1>10, <1>12, <1>15, <4>2
        <4>. QED
          BY <4>1, <4>2
      <3>3. \A b \in Attempted(c) \cup {k + i} : b \in DOMAIN attempts'
        BY <1>5, <1>10, <3>1
      <3>. HIDE DEF k
      <3>. QED
        BY <1>14, <3>2, <3>3
    <2>2. k + i \in Nat /\ \A x \in Attempted(c) : x < k + i
      BY <1>1, <1>10
    <2>3. attempts'[k + i].status = "QUEUED" /\ attempts'[k + i].number = attempts[walk[i]].number + 1
      BY <1>6, <1>15
    <2>4. \A x \in Attempted(c) : attempts'[x].number = attempts[x].number
      BY <1>2, <1>9
    <2>5. \A x \in Attempted(c) : x <= walk[i] /\ x < k + i
      BY <1>11, <2>2
    <2>6. \A x \in Attempted(c) \ {walk[i]} : attempts'[x].status = attempts[x].status
      BY <1>9
    <2>7. Retried(c, walk[i], k + i)
      BY <1>2, <1>8, <2>1, <2>2, <2>3, <2>4, <2>5, <2>6, Zenon DEF Retried
    <2>. QED
      BY <1>15, <2>2, <2>7
  <1>16. CASE i \notin 1 .. m
    <2>1. Attempted(c)' = Attempted(c)
      BY <1>5, <1>10, <1>12, <1>13, <1>14, <1>16
    <2>2. Turns(c, walk[i], "CRASHED")
      BY <1>2, <1>8, <1>9, <2>1 DEF Turns
    <2>. QED
      BY <1>16, <2>2
  <1>. QED
    BY <1>15, <1>16

LEMMA RecoveryCounts ==
  ASSUME TypeOK, TypeOK', RowsAgree, NEW wait \in 0 .. MaxWait, RecoverStaleAttempts(wait),
         NEW c \in Candidates, CountsOf(c)
  PROVE  /\ CountsOf(c)'
         /\ c \in Registered <=> c \in Registered'
         /\ candidates'[c].ordinal = candidates[c].ordinal
  <1>1. PICK n \in Nat, walk \in Ascending(Stale(wait)) : WalkSeen(walk, n)
    BY RecoverySeen
  <1>2. CASE \A i \in 1 .. n : CandidateOf(walk[i]) # c
    <2>1. /\ candidates'[c] = candidates[c] /\ events'[c] = events[c]
          /\ Attempted(c)' = Attempted(c) /\ \A a \in Attempted(c) : attempts'[a] = attempts[a]
      BY <1>1, <1>2, Zenon DEF WalkSeen
    <2>2. Alike(c) /\ (c \in Registered <=> c \in Registered')
      BY <2>1 DEF Alike, Registered
    <2>. QED
      BY <2>1, <2>2, AlikeCounts
  <1>3. ASSUME NEW i \in 1 .. n, CandidateOf(walk[i]) = c
        PROVE  /\ CountsOf(c)'
               /\ c \in Registered <=> c \in Registered'
               /\ candidates'[c].ordinal = candidates[c].ordinal
    <2>1. /\ i \in 1 .. Retries(n) =>
               /\ candidates'[c].status = "QUEUED"
               /\ events'[c] = events[c] \o <<"ATTEMPT_CRASHED", "ATTEMPT_RETRY_QUEUED">>
          /\ i \notin 1 .. Retries(n) => /\ candidates'[c].status = "CRASHED"
                                         /\ events'[c] = events[c] \o <<"ATTEMPT_CRASHED">>
          /\ candidates'[c].ordinal = candidates[c].ordinal
          /\ candidates[c].status = "RUNNING" /\ attempts[walk[i]].status = "RUNNING"
      BY <1>1, <1>3, Zenon DEF WalkSeen
    <2>2. c \in Registered /\ c \in Registered'
      BY <2>1 DEF Registered
    <2>3. /\ i \in 1 .. Retries(n) => \E b \in Nat : Retried(c, walk[i], b)
          /\ i \notin 1 .. Retries(n) => Turns(c, walk[i], "CRASHED")
      BY <1>1, <1>3, WalkedCounts, Zenon
    <2>4. CountsOf(c)'
      <3>1. CASE i \in 1 .. Retries(n)
        BY <2>1, <2>2, <2>3, <3>1, RetryCounts
      <3>2. CASE i \notin 1 .. Retries(n)
        BY <2>1, <2>2, <2>3, <3>2, CrashCounts
      <3>. QED
        BY <3>1, <3>2
    <2>. QED
      BY <2>1, <2>2, <2>4
  <1>. QED
    BY <1>2, <1>3

\* A step that rewrites no status and no number.
LEMMA KeptCounts ==
  ASSUME TypeOK, NEW c \in Candidates, CountsOf(c), UNCHANGED <<candidates, events>>,
         DOMAIN attempts' = DOMAIN attempts,
         \A b \in DOMAIN attempts : /\ attempts'[b].candidate = attempts[b].candidate
                                    /\ attempts'[b].number = attempts[b].number
                                    /\ attempts'[b].status = attempts[b].status
  PROVE  CountsOf(c)'
  <1>1. Attempted(c)' = Attempted(c) /\ Registered' = Registered
    BY DEF Attempted, CandidateOf, Registered
  <1>2. Alike(c)
    BY <1>1 DEF Alike, Attempted
  <1>. QED
    BY <1>1, <1>2, AlikeCounts

\* A step that moves an attempt, seen from any other candidate and from its own.
LEMMA MovesSeen ==
  ASSUME TypeOK, NEW a \in DOMAIN attempts, NEW status, NEW verdict,
         MovesTo(a, status, verdict), NEW c \in Candidates
  PROVE  /\ c # CandidateOf(a) => Alike(c) /\ candidates'[c] = candidates[c]
         /\ c = CandidateOf(a) => Turns(c, a, status)
         /\ candidates'[c].ordinal = candidates[c].ordinal
  <1>1. /\ DOMAIN attempts' = DOMAIN attempts
        /\ \A b \in DOMAIN attempts \ {a} : attempts'[b] = attempts[b]
        /\ attempts'[a].candidate = attempts[a].candidate /\ attempts'[a].status = status
        /\ attempts'[a].number = attempts[a].number
        /\ \A d \in Candidates \ {CandidateOf(a)} : candidates'[d] = candidates[d]
        /\ candidates'[CandidateOf(a)].ordinal = candidates[CandidateOf(a)].ordinal
    BY DEF MovesTo
  <1>2. Attempted(c)' = Attempted(c)
    BY <1>1 DEF Attempted, CandidateOf
  <1>3. \A b \in Attempted(c) : b \in DOMAIN attempts /\ CandidateOf(b) = c
    BY DEF Attempted
  <1>4. ASSUME c # CandidateOf(a) PROVE Alike(c)
    BY <1>1, <1>2, <1>3, <1>4 DEF Alike
  <1>5. ASSUME c = CandidateOf(a) PROVE Turns(c, a, status)
    <2>1. a \in Attempted(c)
      BY <1>5 DEF Attempted
    <2>. QED
      BY <1>1, <1>2, <1>3, <2>1 DEF Turns
  <1>. QED
    BY <1>1, <1>4, <1>5

LEMMA RegisteredMoved ==
  ASSUME NEW a, NEW status, NEW verdict, MovesTo(a, status, verdict), NEW c \in Candidates,
         CandidateOf(a) \in Registered
  PROVE  c \in Registered <=> c \in Registered'
BY DEF MovesTo, Registered, Verdicts

LEMMA StartedCounts ==
  ASSUME LedgerInvariant, NEW owner \in Owners, NEW wait \in Nat, NEW a \in DOMAIN attempts,
         StartAttempt(owner, wait, a), NEW c \in Candidates, CountsOf(c)
  PROVE  /\ CountsOf(c)' /\ candidates'[c].ordinal = candidates[c].ordinal
         /\ c \in Registered <=> c \in Registered'
  <1>1. MovesTo(a, "RUNNING", "none") /\ attempts[a].status = "QUEUED" /\ TypeOK
    BY StartMoves DEF LedgerInvariant
  <1>2. /\ c # CandidateOf(a) => Alike(c) /\ candidates'[c] = candidates[c]
        /\ c = CandidateOf(a) => Turns(c, a, "RUNNING")
        /\ candidates'[c].ordinal = candidates[c].ordinal
    BY <1>1, MovesSeen
  <1>3. CandidateOf(a) \in Candidates /\ candidates[CandidateOf(a)].status = "QUEUED"
    BY <1>1, AttemptRows DEF StartAttempt, Claimable
  <1>4. c \in Registered <=> c \in Registered'
    BY <1>1, <1>3, RegisteredMoved DEF Registered
  <1>5. /\ events'[CandidateOf(a)] = Append(events[CandidateOf(a)], "ATTEMPT_STARTED")
        /\ c # CandidateOf(a) => events'[c] = events[c]
    BY <1>1, <1>3 DEF StartAttempt, TypeOK
  <1>6. CASE c = CandidateOf(a)
    <2>1. candidates'[c].status = "RUNNING"
      BY <1>1, <1>6 DEF MovesTo
    <2>2. c \in Registered
      BY <1>3, <1>6 DEF Registered
    <2>. QED
      BY <1>1, <1>2, <1>4, <1>5, <1>6, <2>1, <2>2, StartCounts
  <1>7. CASE c # CandidateOf(a)
    BY <1>2, <1>4, <1>5, <1>7, AlikeCounts
  <1>. QED
    BY <1>2, <1>4, <1>6, <1>7

LEMMA VerdictTells ==
  ASSUME NEW log, NEW status, NEW n \in Nat, NEW k \in Nat, NEW s \in Nat,
         LogTells(log, status, n, k, s), NEW verdict \in Verdicts
  PROVE  LogTells(log \o VerdictEvents(verdict), verdict, n, k, s)
  <1>0. /\ log \in Seq(CandidateEvent)
        /\ {"SEQUENTIAL_TEST_COMPLETED", "WALK_FORWARD_COMPLETED", "CANDIDATE_REGISTERED",
            "CANDIDATE_SCREENED_OUT", "CANDIDATE_FAILED"} \subseteq CandidateEvent
    BY DEF LogTells, CandidateEvent
  <1>1. ASSUME NEW some, NEW was, LogTells(some, was, n, k, s),
               NEW e \in {"SEQUENTIAL_TEST_COMPLETED", "WALK_FORWARD_COMPLETED",
                          "CANDIDATE_REGISTERED", "CANDIDATE_SCREENED_OUT"}
        PROVE  LogTells(Append(some, e), StatusOf(e), n, k, s)
    <2>1. /\ e \in CandidateEvent /\ e # "ATTEMPT_RETRY_QUEUED" /\ e # "ATTEMPT_CRASHED"
          /\ e # "ATTEMPT_STARTED"
      BY <1>0
    <2>. QED
      BY <1>1, <2>1, TellsMore
  <1>2. CASE verdict = "REGISTERED"
    <2> DEFINE first == Append(log, "SEQUENTIAL_TEST_COMPLETED")
               then == Append(first, "WALK_FORWARD_COMPLETED")
    <2>1. log \o VerdictEvents(verdict) = Append(then, "CANDIDATE_REGISTERED")
      BY <1>0, <1>2, Concatenated DEF VerdictEvents
    <2>2. LogTells(first, StatusOf("SEQUENTIAL_TEST_COMPLETED"), n, k, s)
      BY <1>1
    <2>. HIDE DEF first
    <2>3. LogTells(then, StatusOf("WALK_FORWARD_COMPLETED"), n, k, s)
      BY <1>1, <2>2
    <2>. HIDE DEF then
    <2>4. LogTells(Append(then, "CANDIDATE_REGISTERED"), StatusOf("CANDIDATE_REGISTERED"), n, k, s)
      BY <1>1, <2>3
    <2>5. StatusOf("CANDIDATE_REGISTERED") = "REGISTERED"
      BY DEF StatusOf
    <2>. QED
      BY <1>2, <2>1, <2>4, <2>5
  <1>3. CASE verdict = "SCREENED_OUT"
    <2>1. log \o VerdictEvents(verdict) = Append(log, "CANDIDATE_SCREENED_OUT")
      BY <1>0, <1>3, Concatenated DEF VerdictEvents
    <2>2. LogTells(Append(log, "CANDIDATE_SCREENED_OUT"), StatusOf("CANDIDATE_SCREENED_OUT"), n, k, s)
      BY <1>1
    <2>3. StatusOf("CANDIDATE_SCREENED_OUT") = "SCREENED_OUT"
      BY DEF StatusOf
    <2>. QED
      BY <1>3, <2>1, <2>2, <2>3
  <1>. QED
    BY <1>2, <1>3 DEF Verdicts

LEMMA FailureTells ==
  ASSUME NEW log, NEW status, NEW n \in Nat, NEW k \in Nat, NEW s \in Nat,
         LogTells(log, status, n, k, s)
  PROVE  LogTells(Append(log, "CANDIDATE_FAILED"), "FAILED", n, k, s)
  <1>1. StatusOf("CANDIDATE_FAILED") = "FAILED"
    BY DEF StatusOf
  <1>. QED
    BY <1>1, TellsMore DEF CandidateEvent

\* A decided attempt: its own candidate by DecideCounts, any other by AlikeCounts.
LEMMA DecidedCounts ==
  ASSUME LedgerInvariant, NEW a \in Running, NEW status \in {"COMPLETED", "FAILED"}, NEW verdict,
         MovesTo(a, status, verdict), NEW c \in Candidates, CountsOf(c),
         c # CandidateOf(a) => events'[c] = events[c],
         \A n, k, s \in Nat :
           c = CandidateOf(a) /\ LogTells(events[c], candidates[c].status, n, k, s) =>
             LogTells(events'[c], candidates'[c].status, n, k, s)
  PROVE  /\ CountsOf(c)' /\ candidates'[c].ordinal = candidates[c].ordinal
         /\ c \in Registered <=> c \in Registered'
  <1>1. /\ a \in DOMAIN attempts /\ attempts[a].status = "RUNNING" /\ TypeOK
        /\ CandidateOf(a) \in Registered
    BY RunningRow DEF LedgerInvariant, Registered
  <1>2. /\ c # CandidateOf(a) => Alike(c) /\ candidates'[c] = candidates[c]
        /\ c = CandidateOf(a) => Turns(c, a, status)
        /\ candidates'[c].ordinal = candidates[c].ordinal
    BY <1>1, MovesSeen
  <1>3. c \in Registered <=> c \in Registered'
    BY <1>1, RegisteredMoved
  <1>4. CASE c = CandidateOf(a)
    <2>1. LogTells(events[c], candidates[c].status, Cardinality(Attempted(c)),
                   Cardinality(CrashedOf(c)), Cardinality(StartedOf(c)))
      BY <1>1, <1>4 DEF CountsOf, Told
    <2>2. LogTells(events'[c], candidates'[c].status, Cardinality(Attempted(c)),
                   Cardinality(CrashedOf(c)), Cardinality(StartedOf(c)))
      BY <1>1, <1>4, <2>1, FiniteCounts
    <2>. QED
      BY <1>1, <1>2, <1>3, <1>4, <2>2, DecideCounts
  <1>5. CASE c # CandidateOf(a)
    BY <1>2, <1>3, <1>5, AlikeCounts
  <1>. QED
    BY <1>2, <1>3, <1>4, <1>5

\* Registration: the first row of one candidate, and nothing for any other.
LEMMA RegisteredRows ==
  ASSUME TypeOK, RowsAgree, NEW c \in Candidates, RegisterCandidate(c)
  PROVE  /\ \E b \in Nat : Begins(c, b)
         /\ c \notin Registered /\ Registered' = Registered \cup {c}
         /\ candidates'[c].status = "QUEUED"
         /\ candidates'[c].ordinal = Cardinality(Peers(c)) + 1
         /\ events'[c] = Append(events[c], "CANDIDATE_QUEUED")
         /\ \A d \in Candidates \ {c} : /\ Alike(d) /\ candidates'[d] = candidates[d]
                                        /\ events'[d] = events[d]
  <1>0. PICK n : n = Len(attempts) + 1
    OBVIOUS
  <1>1. Len(attempts) \in Nat /\ DOMAIN attempts = 1 .. Len(attempts) /\ attempts \in Seq(Attempt)
    BY AttemptRows DEF TypeOK
  <1>2. NewAttempt(c, 1) \in Attempt /\ NewAttempt(c, 1).candidate = c
        /\ NewAttempt(c, 1).status = "QUEUED" /\ NewAttempt(c, 1).number = 1
    BY NewAttemptRow DEF NewAttempt
  <1>3. attempts' = Append(attempts, NewAttempt(c, 1))
    BY DEF RegisterCandidate
  <1>4. /\ Len(attempts') = n /\ attempts' \in Seq(Attempt) /\ attempts'[n] = NewAttempt(c, 1)
        /\ \A a \in 1 .. Len(attempts) : attempts'[a] = attempts[a]
    BY <1>0, <1>1, <1>2, <1>3, AppendProperties
  <1>5. n \in Nat /\ n \notin DOMAIN attempts /\ DOMAIN attempts' = DOMAIN attempts \cup {n}
    BY <1>0, <1>1, <1>4, LenProperties
  <1>6. c \notin Registered /\ Attempted(c) = {}
    BY DEF RegisterCandidate, RowsAgree, RegisteredAttempted
  <1>7. Attempted(c)' = {n} /\ \A d \in Candidates \ {c} : Attempted(d)' = Attempted(d)
    BY <1>1, <1>2, <1>4, <1>5, <1>6 DEF Attempted, CandidateOf
  <1>8. Begins(c, n)
    BY <1>2, <1>4, <1>5, <1>6, <1>7 DEF Begins
  <1>9. /\ candidates'[c].status = "QUEUED"
        /\ candidates'[c].ordinal = Cardinality(Peers(c)) + 1
        /\ events'[c] = Append(events[c], "CANDIDATE_QUEUED")
        /\ \A d \in Candidates \ {c} : candidates'[d] = candidates[d] /\ events'[d] = events[d]
    BY DEF RegisterCandidate, TypeOK
  <1>10. \A d \in Candidates \ {c} : Alike(d)
    <2>. SUFFICES ASSUME NEW d \in Candidates \ {c} PROVE Alike(d)
      OBVIOUS
    <2>1. \A b \in Attempted(d) : attempts'[b] = attempts[b]
      BY <1>1, <1>4 DEF Attempted
    <2>. QED
      BY <1>7, <2>1 DEF Alike
  <1>11. Registered' = Registered \cup {c}
    BY <1>9 DEF Registered
  <1>. QED
    BY <1>5, <1>6, <1>8, <1>9, <1>10, <1>11

LEMMA RegisteredCounts ==
  ASSUME TypeOK, RowsAgree, NEW c \in Candidates, RegisterCandidate(c),
         NEW d \in Candidates, CountsOf(d)
  PROVE  CountsOf(d)'
  <1>1. CASE d = c
    <2>1. PICK b \in Nat : Begins(c, b)
      BY RegisteredRows
    <2>2. events[c] = <<>> /\ c \in Registered'
      BY <1>1, RegisteredRows DEF CountsOf
    <2>. QED
      BY <1>1, <2>1, <2>2, RegisteredRows, BeginCounts
  <1>2. CASE d # c
    <2>1. /\ Alike(d) /\ candidates'[d] = candidates[d] /\ events'[d] = events[d]
          /\ d \in Registered <=> d \in Registered'
      BY <1>2, RegisteredRows
    <2>. QED
      BY <2>1, AlikeCounts
  <1>. QED
    BY <1>1, <1>2

LEMMA RegisteredOrdinals ==
  ASSUME TypeOK, RowsAgree, NEW c \in Candidates, RegisterCandidate(c),
         \A d \in Registered : OrdinalOf(d), NEW d \in Registered'
  PROVE  OrdinalOf(d)'
  <1> DEFINE Number(x) == candidates[x].ordinal
  <1>1. /\ c \notin Registered /\ Registered' = Registered \cup {c} /\ Registered \subseteq Candidates
        /\ Number(c)' = Cardinality(Peers(c)) + 1
        /\ \A x \in Registered : Number(x)' = Number(x)
    BY RegisteredRows DEF Registered
  <1>2. Cardinality(Peers(c)) < Budget(c)
    BY DEF RegisterCandidate
  <1>3. \A x \in Candidates : IsFiniteSet(Peers(x)) /\ Cardinality(Peers(x)) \in Nat /\ Budget(x) \in Nat
    BY FinitePeers, LedgerAssumption DEF Budget
  <1>4. \A x, y \in Candidates : SameKind(x) = SameKind(y) =>
          Peers(x) = Peers(y) /\ Budget(x) = Budget(y)
    BY LedgerAssumption DEF SameKind, Peers, Budget, Candidates
  <1>5. \A x \in Candidates : x \in SameKind(x)
    BY DEF SameKind, Candidates
  <1>6. \A x \in Candidates : SameKind(x) = SameKind(c) => Peers(x)' = Peers(x) \cup {c}
    BY <1>1, <1>5 DEF Peers
  <1>7. \A x \in Candidates : SameKind(x) # SameKind(c) => Peers(x)' = Peers(x)
    BY <1>1, LedgerAssumption DEF Peers, SameKind, Candidates
  <1>8. ASSUME NEW x \in Candidates, SameKind(x) = SameKind(c)
        PROVE  Cardinality(Peers(x)') = Cardinality(Peers(c)) + 1
    <2>1. c \notin Peers(x) /\ Peers(x) = Peers(c)
      BY <1>1, <1>4, <1>8 DEF Peers
    <2>2. Cardinality(Peers(x) \cup {c}) = Cardinality(Peers(x)) + 1
      BY <1>3, <2>1, OneMore
    <2>. QED
      BY <1>6, <1>8, <2>1, <2>2
  <1>9. ASSUME NEW x \in Registered
        PROVE  Number(x) \in 1 .. Cardinality(Peers(x)) /\ Cardinality(Peers(x)) <= Budget(x)
               /\ \A y \in Registered : SameKind(x) = SameKind(y) /\ Number(x) = Number(y) => x = y
    BY DEF OrdinalOf
  <1>. HIDE DEF Number
  <1>10. /\ Number(d)' \in 1 .. Cardinality(Peers(d)')
         /\ Cardinality(Peers(d)') <= Budget(d)
    <2>1. CASE d = c
      BY <1>1, <1>2, <1>3, <1>8, <2>1
    <2>2. CASE d \in Registered /\ SameKind(d) = SameKind(c)
      BY <1>1, <1>2, <1>3, <1>4, <1>8, <1>9, <2>2
    <2>3. CASE d \in Registered /\ SameKind(d) # SameKind(c)
      BY <1>1, <1>3, <1>7, <1>9, <2>3
    <2>. QED
      BY <1>1, <2>1, <2>2, <2>3
  <1>11. ASSUME NEW e \in Registered', SameKind(d) = SameKind(e), Number(d)' = Number(e)'
         PROVE  d = e
    <2>1. CASE d \in Registered /\ e \in Registered
      BY <1>1, <1>9, <1>11, <2>1
    <2>2. CASE d = c /\ e \in Registered
      <3>1. Peers(e) = Peers(c) /\ e \in Candidates
        BY <1>1, <1>4, <1>11, <2>2
      <3>. QED
        BY <1>1, <1>3, <1>9, <1>11, <2>2, <3>1
    <2>3. CASE e = c /\ d \in Registered
      <3>1. Peers(d) = Peers(c) /\ d \in Candidates
        BY <1>1, <1>4, <1>11, <2>3
      <3>. QED
        BY <1>1, <1>3, <1>9, <1>11, <2>3, <3>1
    <2>. QED
      BY <1>1, <2>1, <2>2, <2>3
  <1>. QED
    BY <1>10, <1>11 DEF OrdinalOf, Number, Budget, SameKind

LEMMA OrdinalsKept ==
  ASSUME \A d \in Candidates : (d \in Registered <=> d \in Registered')
                               /\ candidates'[d].ordinal = candidates[d].ordinal,
         NEW c \in Candidates, OrdinalOf(c)
  PROVE  OrdinalOf(c)'
  <1>1. Registered' = Registered
    BY DEF Registered
  <1>2. Peers(c)' = Peers(c)
    BY <1>1 DEF Peers, SameKind
  <1>3. \A d \in Registered : candidates'[d].ordinal = candidates[d].ordinal
    BY DEF Registered
  <1>. QED
    BY <1>1, <1>2, <1>3 DEF OrdinalOf, Budget, SameKind

-----------------------------------------------------------------------------
(* CountInvariant is inductive, given LedgerInvariant.                     *)

LEMMA CountsInit == Init => CountInvariant
  <1>. SUFFICES ASSUME Init PROVE CountInvariant
    OBVIOUS
  <1>1. Registered = {} /\ \A c : Attempted(c) = {}
    BY DEF Init, Registered, Attempted
  <1>2. \A c \in Candidates : events[c] = <<>>
    BY DEF Init
  <1>. QED
    BY <1>1, <1>2 DEF CountInvariant, CountsOf, Numbered

LEMMA CountsStep ==
  ASSUME LedgerInvariant, LedgerInvariant', CountInvariant, [Next]_ledgerVars
  PROVE  CountInvariant'
  <1>0. /\ TypeOK /\ RowsAgree /\ TypeOK' /\ \A c \in Candidates : CountsOf(c)
        /\ \A c \in Registered : OrdinalOf(c) /\ c \in Candidates
    BY DEF LedgerInvariant, CountInvariant, Registered
  <1> DEFINE Keeps(c) == /\ CountsOf(c)'
                         /\ c \in Registered <=> c \in Registered'
                         /\ candidates'[c].ordinal = candidates[c].ordinal
  <1>1. ASSUME \A c \in Candidates : Keeps(c) PROVE CountInvariant'
    <2>1. \A c \in Registered' : c \in Candidates /\ c \in Registered
      BY <1>1 DEF Registered
    <2>2. \A c \in Registered' : OrdinalOf(c)'
      BY <1>0, <1>1, <2>1, OrdinalsKept
    <2>. QED
      BY <1>1, <2>2 DEF CountInvariant
  <1>2. ASSUME NEW c \in Candidates, RegisterCandidate(c) PROVE CountInvariant'
    <2>1. \A d \in Candidates : CountsOf(d)'
      BY <1>0, <1>2, RegisteredCounts
    <2>2. \A d \in Registered' : OrdinalOf(d)'
      BY <1>0, <1>2, RegisteredOrdinals
    <2>. QED
      BY <2>1, <2>2 DEF CountInvariant
  <1>3. ASSUME UNCHANGED <<candidates, events>>, DOMAIN attempts' = DOMAIN attempts,
               \A b \in DOMAIN attempts : /\ attempts'[b].candidate = attempts[b].candidate
                                          /\ attempts'[b].number = attempts[b].number
                                          /\ attempts'[b].status = attempts[b].status
        PROVE  CountInvariant'
    <2>1. \A c \in Candidates : CountsOf(c)'
      BY <1>0, <1>3, KeptCounts
    <2>2. \A c \in Candidates : Keeps(c)
      BY <1>3, <2>1 DEF Registered
    <2>. QED
      BY <1>1, <2>2
  <1>4. CASE EnsureEpoch \/ MarkGenerationComplete \/ UNCHANGED ledgerVars
             \/ \E owner \in Owners, wait \in 0 .. MaxWait : ClaimNothing(owner, wait)
    <2>1. UNCHANGED <<candidates, events, attempts>>
      BY <1>4 DEF EnsureEpoch, MarkGenerationComplete, ClaimNothing, ledgerVars
    <2>. QED
      BY <1>3, <2>1
  <1>5. ASSUME NEW owner \in Owners, NEW wait \in 0 .. MaxWait, NEW a \in DOMAIN attempts,
               ResumeLease(owner, wait, a) \/ Heartbeat(a, owner, wait)
        PROVE  CountInvariant'
    <2>1. /\ attempts' = [attempts EXCEPT ![a] = Leased(attempts[a], owner, wait)]
          /\ UNCHANGED <<candidates, events>> /\ a \in Running
      BY <1>5 DEF ResumeLease, Heartbeat, Resumable, Owned, epochVars
    <2>2. attempts[a].status = "RUNNING" /\ wait \in Nat
      BY <2>1, RunningRow, LedgerAssumption
    <2>3. /\ Leased(attempts[a], owner, wait) \in Attempt
          /\ Leased(attempts[a], owner, wait).status = "RUNNING"
          /\ Leased(attempts[a], owner, wait).candidate = attempts[a].candidate
          /\ Leased(attempts[a], owner, wait).number = attempts[a].number
      BY <1>0, <2>2, NewRows DEF CandidateOf
    <2>4. /\ DOMAIN attempts' = DOMAIN attempts
          /\ attempts'[a] = Leased(attempts[a], owner, wait)
          /\ \A b \in DOMAIN attempts : b # a => attempts'[b] = attempts[b]
      BY <1>0, <2>1, <2>3, RowUpdate
    <2>5. \A b \in DOMAIN attempts : /\ attempts'[b].candidate = attempts[b].candidate
                                     /\ attempts'[b].number = attempts[b].number
                                     /\ attempts'[b].status = attempts[b].status
      BY <2>2, <2>3, <2>4
    <2>. QED
      BY <1>3, <2>1, <2>4, <2>5
  <1>6. ASSUME NEW owner \in Owners, NEW wait \in 0 .. MaxWait, NEW a \in DOMAIN attempts,
               StartAttempt(owner, wait, a)
        PROVE  CountInvariant'
    <2>1. wait \in Nat
      BY LedgerAssumption
    <2>2. \A c \in Candidates : Keeps(c)
      BY <1>0, <1>6, <2>1, StartedCounts
    <2>. QED
      BY <1>1, <2>2
  <1>7. ASSUME NEW owner \in Owners, NEW wait \in 0 .. MaxWait, NEW a \in DOMAIN attempts,
               NEW verdict \in Verdicts, CompleteAttempt(a, owner, wait, verdict)
        PROVE  CountInvariant'
    <2>1. MovesTo(a, "COMPLETED", verdict) /\ a \in Running
      BY <1>7, CompleteMoves
    <2>2. CandidateOf(a) \in Candidates
      BY <2>1, RunningRow
    <2>3. /\ events'[CandidateOf(a)] = events[CandidateOf(a)] \o VerdictEvents(verdict)
          /\ candidates'[CandidateOf(a)].status = verdict
          /\ \A c \in Candidates : c # CandidateOf(a) => events'[c] = events[c]
      BY <1>0, <1>7, <2>1, <2>2 DEF CompleteAttempt, TypeOK, MovesTo
    <2>4. ASSUME NEW c \in Candidates PROVE Keeps(c)
      <3>1. \A n, k, s \in Nat :
              c = CandidateOf(a) /\ LogTells(events[c], candidates[c].status, n, k, s) =>
                LogTells(events'[c], candidates'[c].status, n, k, s)
        <4>. SUFFICES ASSUME NEW n \in Nat, NEW k \in Nat, NEW s \in Nat, c = CandidateOf(a),
                             LogTells(events[c], candidates[c].status, n, k, s)
                      PROVE  LogTells(events'[c], candidates'[c].status, n, k, s)
          OBVIOUS
        <4>1. LogTells(events[c] \o VerdictEvents(verdict), verdict, n, k, s)
          BY VerdictTells
        <4>. QED
          BY <2>3, <4>1
      <3>. QED
        BY <1>0, <2>1, <2>3, <3>1, DecidedCounts
    <2>. QED
      BY <1>1, <2>4
  <1>8. ASSUME NEW wait \in 0 .. MaxWait, RecoverStaleAttempts(wait) PROVE CountInvariant'
    <2>1. \A c \in Candidates : Keeps(c)
      BY <1>0, <1>8, RecoveryCounts
    <2>. QED
      BY <1>1, <2>1
  <1>9. ASSUME NEW a \in DOMAIN attempts, NEW owner \in Owners, NEW systemError \in BOOLEAN,
               FailAttempt(a, owner, systemError)
        PROVE  CountInvariant'
    <2>1. MovesTo(a, "FAILED", "none") /\ a \in Running
      BY <1>9, FailMoves
    <2>2. CandidateOf(a) \in Candidates
      BY <2>1, RunningRow
    <2>3. /\ events'[CandidateOf(a)] = Append(events[CandidateOf(a)], "CANDIDATE_FAILED")
          /\ candidates'[CandidateOf(a)].status = "FAILED"
          /\ \A c \in Candidates : c # CandidateOf(a) => events'[c] = events[c]
      BY <1>0, <1>9, <2>1, <2>2 DEF FailAttempt, TypeOK, MovesTo
    <2>4. ASSUME NEW c \in Candidates PROVE Keeps(c)
      <3>1. \A n, k, s \in Nat :
              c = CandidateOf(a) /\ LogTells(events[c], candidates[c].status, n, k, s) =>
                LogTells(events'[c], candidates'[c].status, n, k, s)
        BY <2>3, FailureTells
      <3>. QED
        BY <1>0, <2>1, <2>3, <3>1, DecidedCounts
    <2>. QED
      BY <1>1, <2>4
  <1>10. CASE Tick
    <2>1. UNCHANGED <<candidates, events>>
      BY <1>10 DEF Tick
    <2>. QED
      BY <1>0, <1>3, <1>10, <2>1, TickRows
  <1>. QED
    BY <1>2, <1>4, <1>5, <1>6, <1>7, <1>8, <1>9, <1>10 DEF Next

LEMMA CountInvariantHolds == Spec => []CountInvariant
  <1>1. LedgerInvariant /\ LedgerInvariant' /\ CountInvariant /\ [Next]_ledgerVars
          => CountInvariant'
    BY CountsStep
  <1>. QED
    BY <1>1, CountsInit, TablesAgree, PTL DEF Spec

\* Whatever is counted agrees with the rows it counts in every reachable ledger:
\* attempt numbers, ordinals within the budgets, and the audit events.
THEOREM CountsHold == Spec => []CountsAgree
BY CountInvariantHolds, TablesAgree, InvariantCounts, PTL

-----------------------------------------------------------------------------
(* The daemon: what its processes remember.                                *)

\* What a process remembers agrees with the attempt rows.  One that holds an attempt
\* once had its lease: the attempt has left the queue, and while it is RUNNING its
\* owner is the process's own.
RemembersLease(me, rows) ==
  /\ me.pc \in Holding =>
       /\ me.attempt \in DOMAIN rows
       /\ me.owner \in Owners
       /\ rows[me.attempt].status # "QUEUED"
       /\ rows[me.attempt].status = "RUNNING" => rows[me.attempt].owner = me.owner
  /\ me.pc \notin Holding => me.attempt = 0 /\ me.owner = NoOwner
LeasesAgree == \A w \in Workers : RemembersLease(worker[w], attempts)

\* A process about to commit a result has an evaluation, and has published it.
Published(me, result) ==
  /\ me.pc \in {"publish", "complete"} => me.outcome \in Evaluations
  /\ me.pc = "complete" => [attempt |-> me.attempt, verdict |-> me.outcome] \in result
ResultsPublished == \A w \in Workers : Published(worker[w], files)

Memory ==
  /\ worker \in [Workers -> Worker]
  /\ files \in SUBSET [attempt : Nat, verdict : Evaluations]

DaemonInvariant ==
  /\ LedgerInvariant
  /\ Memory
  /\ LeasesAgree
  /\ OneOwnerPerAttempt
  /\ ResultsPublished
  /\ RowsHaveFiles

-----------------------------------------------------------------------------
(* What a ledger step does to the leases.                                  *)

\* An attempt that has left the queue does not return to it, and is RUNNING after
\* a step only if it was before, under the same owner.
LeaseKept(a) ==
  /\ a \in DOMAIN attempts'
  /\ attempts[a].status # "QUEUED" =>
       /\ attempts'[a].status # "QUEUED"
       /\ attempts'[a].status = "RUNNING" =>
            attempts[a].status = "RUNNING" /\ attempts'[a].owner = attempts[a].owner

LEMMA SameRowKept ==
  ASSUME NEW a \in DOMAIN attempts, a \in DOMAIN attempts',
         attempts'[a].status = attempts[a].status,
         attempts'[a].owner = attempts[a].owner
  PROVE  LeaseKept(a)
BY DEF LeaseKept

\* A lease never changes hands: only its owner renews it, and only a queued
\* attempt is leased anew.
LEMMA LeasesKept ==
  ASSUME LedgerInvariant, [Next]_ledgerVars
  PROVE  \A a \in DOMAIN attempts : LeaseKept(a)
  <1> DEFINE Kept == \A a \in DOMAIN attempts : LeaseKept(a)
  <1>0. TypeOK
    BY DEF LedgerInvariant
  <1>1. ASSUME UNCHANGED attempts PROVE Kept
    BY <1>1 DEF LeaseKept
  <1>2. ASSUME NEW c \in Candidates, RegisterCandidate(c) PROVE Kept
    <2>1. attempts' = Append(attempts, NewAttempt(c, 1))
      BY <1>2 DEF RegisterCandidate
    <2>2. attempts \in Seq(Attempt)
      BY <1>0 DEF TypeOK
    <2>3. NewAttempt(c, 1) \in Attempt
      BY NewAttemptRow
    <2>4. \A a \in DOMAIN attempts : a \in DOMAIN attempts' /\ attempts'[a] = attempts[a]
      BY <2>1, <2>2, <2>3, AppendProperties, LenProperties
    <2>. QED
      BY <2>4, SameRowKept
  <1>3. ASSUME NEW owner \in Owners, NEW wait \in 0 .. MaxWait, NEW a \in DOMAIN attempts,
               ResumeLease(owner, wait, a) \/ Heartbeat(a, owner, wait)
        PROVE  Kept
    <2>1. /\ attempts' = [attempts EXCEPT ![a] = Leased(attempts[a], owner, wait)]
          /\ a \in Running /\ attempts[a].owner = owner
      BY <1>3 DEF ResumeLease, Heartbeat, Resumable, Owned
    <2>2. Leased(attempts[a], owner, wait).owner = owner
          /\ Leased(attempts[a], owner, wait).status = "RUNNING"
      BY <1>0, AttemptRows DEF Leased, Attempt
    <2>3. /\ DOMAIN attempts' = DOMAIN attempts
          /\ attempts'[a] = Leased(attempts[a], owner, wait)
          /\ \A b \in DOMAIN attempts \ {a} : attempts'[b] = attempts[b]
      BY <2>1
    <2>4. ASSUME NEW b \in DOMAIN attempts PROVE LeaseKept(b)
      BY <2>1, <2>2, <2>3, SameRowKept DEF Running
    <2>. QED
      BY <2>4
  <1>4. ASSUME NEW a \in DOMAIN attempts, NEW status, NEW verdict,
               MovesTo(a, status, verdict), status # "QUEUED",
               status = "RUNNING" => attempts[a].status = "QUEUED"
        PROVE  Kept
    BY <1>4, SameRowKept DEF MovesTo, LeaseKept
  <1>5. ASSUME NEW owner \in Owners, NEW wait \in 0 .. MaxWait, NEW a \in DOMAIN attempts,
               StartAttempt(owner, wait, a)
        PROVE  Kept
    <2>1. wait \in Nat
      BY LedgerAssumption
    <2>2. MovesTo(a, "RUNNING", "none") /\ attempts[a].status = "QUEUED"
      BY <1>5, <2>1, StartMoves
    <2>. QED
      BY <1>4, <2>2
  <1>6. ASSUME NEW owner \in Owners, NEW wait \in 0 .. MaxWait, NEW a \in DOMAIN attempts,
               NEW verdict \in Verdicts, CompleteAttempt(a, owner, wait, verdict)
        PROVE  Kept
    <2>1. MovesTo(a, "COMPLETED", verdict)
      BY <1>6, CompleteMoves
    <2>. QED
      BY <1>4, <2>1
  <1>7. ASSUME NEW a \in DOMAIN attempts, NEW owner \in Owners, NEW systemError \in BOOLEAN,
               FailAttempt(a, owner, systemError)
        PROVE  Kept
    <2>1. MovesTo(a, "FAILED", "none")
      BY <1>7, FailMoves
    <2>. QED
      BY <1>4, <2>1
  <1>8. ASSUME NEW wait \in 0 .. MaxWait, RecoverStaleAttempts(wait) PROVE Kept
    <2>1. PICK n \in Nat, walk \in Ascending(Stale(wait)) : RecoveredRows(walk, n)
      BY <1>0, <1>8, RecoveryRows
    <2>2. DOMAIN attempts \subseteq DOMAIN attempts'
      BY <1>0, <2>1, AttemptRows DEF RecoveredRows
    <2>3. ASSUME NEW a \in DOMAIN attempts, NEW i \in 1 .. n, walk[i] = a PROVE LeaseKept(a)
      <3>1. attempts'[a] = Finished(attempts[a], "CRASHED", TRUE)
        BY <2>1, <2>3 DEF RecoveredRows
      <3>2. attempts'[a].status = "CRASHED"
        BY <3>1 DEF Finished
      <3>. QED
        BY <2>2, <3>2 DEF LeaseKept
    <2>4. ASSUME NEW a \in DOMAIN attempts, \A i \in 1 .. n : walk[i] # a PROVE LeaseKept(a)
      <3>1. attempts'[a] = attempts[a]
        BY <2>1, <2>4 DEF RecoveredRows
      <3>. QED
        BY <2>2, <3>1, SameRowKept
    <2>. QED
      BY <2>3, <2>4
  <1>9. CASE Tick
    BY <1>0, <1>9, TickRows, SameRowKept
  <1>. QED
    BY <1>1, <1>2, <1>3, <1>5, <1>6, <1>7, <1>8, <1>9
    DEF Next, EnsureEpoch, MarkGenerationComplete, ClaimNothing, ledgerVars

-----------------------------------------------------------------------------
(* DaemonInvariant is inductive.                                           *)

LEMMA DaemonInvariantInit == DaemonInit => DaemonInvariant
  <1>. SUFFICES ASSUME DaemonInit PROVE DaemonInvariant
    OBVIOUS
  <1>1. LedgerInvariant /\ artifacts = {}
    BY InvariantInit DEF DaemonInit, Init
  <1>2. /\ worker \in [Workers -> Worker] /\ files = {}
        /\ \A w \in Workers : worker[w] = Idle("down")
    BY LedgerAssumption DEF DaemonInit, Idle, Worker, Stopped
  <1>3. Idle("down").pc = "down" /\ Idle("down").attempt = 0 /\ Idle("down").owner = NoOwner
    BY DEF Idle
  <1>. QED
    BY <1>1, <1>2, <1>3
    DEF DaemonInvariant, Memory, LeasesAgree, RemembersLease, OneOwnerPerAttempt,
        ResultsPublished, Published, RowsHaveFiles, Holding

\* Every process step changes the memory of one process, to s.  What it needs to
\* keep the invariant: s agrees with the rows and files as the step leaves them,
\* and shares its attempt with processes of its own owner only.
LEMMA ProcessMoves ==
  ASSUME DaemonInvariant, [Next]_ledgerVars,
         NEW w \in Workers, NEW s \in Worker, Go(w, s), RemembersLease(s, attempts'),
         \A v \in Workers \ {w} :
           worker[v].pc \in Holding /\ s.pc \in Holding /\ worker[v].attempt = s.attempt
             => worker[v].owner = s.owner,
         files \subseteq files', files' \in SUBSET [attempt : Nat, verdict : Evaluations],
         Published(s, files'), RowsHaveFiles'
  PROVE  DaemonInvariant'
  <1>1. LedgerInvariant'
    BY InvariantStep DEF DaemonInvariant
  <1>2. /\ worker' \in [Workers -> Worker] /\ worker'[w] = s
        /\ \A v \in Workers \ {w} : worker'[v] = worker[v]
    BY DEF Go, DaemonInvariant, Memory
  <1>3. ASSUME NEW v \in Workers \ {w} PROVE RemembersLease(worker[v], attempts')
    <2>1. RemembersLease(worker[v], attempts)
      BY DEF DaemonInvariant, LeasesAgree
    <2>2. CASE worker[v].pc \in Holding
      <3>1. LeaseKept(worker[v].attempt)
        BY <2>1, <2>2, LeasesKept DEF DaemonInvariant, RemembersLease
      <3>. QED
        BY <2>1, <2>2, <3>1 DEF RemembersLease, LeaseKept
    <2>3. CASE worker[v].pc \notin Holding
      BY <2>1, <2>3 DEF RemembersLease
    <2>. QED
      BY <2>2, <2>3
  <1>4. LeasesAgree'
    BY <1>2, <1>3 DEF LeasesAgree
  <1>5. OneOwnerPerAttempt'
    BY <1>2 DEF DaemonInvariant, OneOwnerPerAttempt
  <1>6. ResultsPublished'
    BY <1>2 DEF DaemonInvariant, ResultsPublished, Published
  <1>. QED
    BY <1>1, <1>2, <1>4, <1>5, <1>6 DEF DaemonInvariant, Memory

\* The two ways most steps move a process: it lets go of what it holds, or goes on
\* with the attempt it holds.
LEMMA LetsGo ==
  ASSUME DaemonInvariant, [Next]_ledgerVars, NEW w \in Workers,
         NEW pc \in Stopped \cup (Steps \ Holding), Go(w, Idle(pc)),
         UNCHANGED <<artifacts, files>> \/ (RowsHaveFiles' /\ UNCHANGED files)
  PROVE  DaemonInvariant'
  <1> DEFINE s == Idle(pc)
  <1>1. /\ s \in Worker /\ s.pc = pc /\ s.pc \notin Holding
        /\ s.attempt = 0 /\ s.owner = NoOwner
    BY LedgerAssumption DEF Idle, Worker, Holding, Stopped
  <1>2. RemembersLease(s, attempts') /\ Published(s, files')
    BY <1>1 DEF RemembersLease, Published, Holding
  <1>3. files \subseteq files' /\ files' \in SUBSET [attempt : Nat, verdict : Evaluations]
        /\ RowsHaveFiles'
    BY DEF DaemonInvariant, Memory, RowsHaveFiles
  <1>. QED
    BY <1>1, <1>2, <1>3, ProcessMoves

LEMMA GoesOn ==
  ASSUME DaemonInvariant, UNCHANGED ledgerVars, NEW w \in Workers,
         worker[w].pc \in Holding, NEW pc \in Holding,
         NEW outcome \in Evaluations \cup Failures, Proceed(w, pc, outcome),
         files \subseteq files', files' \in SUBSET [attempt : Nat, verdict : Evaluations],
         pc \in {"publish", "complete"} => outcome \in Evaluations,
         pc = "complete" => [attempt |-> worker[w].attempt, verdict |-> outcome] \in files'
  PROVE  DaemonInvariant'
  <1>1. worker[w] \in Worker
    BY DEF DaemonInvariant, Memory
  <1>2. PICK s \in Worker :
          /\ Go(w, s) /\ s.pc = pc /\ s.outcome = outcome
          /\ s.attempt = worker[w].attempt /\ s.owner = worker[w].owner
    <2> DEFINE t == [worker[w] EXCEPT !.pc = pc, !.outcome = outcome, !.age = 0]
    <2>0. 0 \in 0 .. MaxWait /\ pc \in Stopped \cup Steps
      BY LedgerAssumption DEF Holding, Steps
    <2>1. /\ t \in Worker /\ t.pc = pc /\ t.outcome = outcome
          /\ t.attempt = worker[w].attempt /\ t.owner = worker[w].owner
      BY <1>1, <2>0 DEF Worker
    <2>2. Go(w, t)
      BY DEF Proceed
    <2>. QED
      BY <2>1, <2>2
  <1>3. RemembersLease(s, attempts') /\ Published(s, files')
    <2>1. RemembersLease(worker[w], attempts)
      BY DEF DaemonInvariant, LeasesAgree
    <2>2. attempts' = attempts
      BY DEF ledgerVars
    <2>3. RemembersLease(s, attempts')
      BY <1>2, <2>1, <2>2 DEF RemembersLease
    <2>4. Published(s, files')
      BY <1>2 DEF Published
    <2>. QED
      BY <2>3, <2>4
  <1>4. \A v \in Workers \ {w} :
          worker[v].pc \in Holding /\ s.pc \in Holding /\ worker[v].attempt = s.attempt
            => worker[v].owner = s.owner
    BY <1>2 DEF DaemonInvariant, OneOwnerPerAttempt
  <1>5. RowsHaveFiles'
    BY DEF DaemonInvariant, RowsHaveFiles, ledgerVars
  <1>. QED
    BY <1>2, <1>3, <1>4, <1>5, ProcessMoves

-----------------------------------------------------------------------------
(* Every process step is one ledger transaction, or leaves the ledger      *)
(* alone.                                                                  *)

\* What is at hand in a process step: the ages it may act on are waits, and the
\* lease it holds is one some owner was given.
LEMMA ProcessFacts ==
  ASSUME DaemonInvariant, NEW w \in Workers
  PROVE  /\ worker[w] \in Worker
         /\ OwnersOf[w] \subseteq Owners
         /\ 0 .. worker[w].age \subseteq 0 .. MaxWait
         /\ worker[w].pc \in Holding =>
              worker[w].attempt \in DOMAIN attempts /\ worker[w].owner \in Owners
  <1>1. worker[w] \in Worker
    BY DEF DaemonInvariant, Memory
  <1>2. worker[w].age \in 0 .. MaxWait
    BY <1>1 DEF Worker
  <1>3. 0 .. worker[w].age \subseteq 0 .. MaxWait
    BY <1>2, LedgerAssumption
  <1>4. OwnersOf[w] \subseteq Owners
    BY DaemonAssumption
  <1>. QED
    BY <1>1, <1>3, <1>4 DEF DaemonInvariant, LeasesAgree, RemembersLease

LEMMA LedgerStep == DaemonInvariant /\ [DaemonNext]_daemonVars => [Next]_ledgerVars
  <1>. SUFFICES ASSUME DaemonInvariant, [DaemonNext]_daemonVars PROVE [Next]_ledgerVars
    OBVIOUS
  <1>1. ASSUME NEW w \in Workers, PrepareRegister(w) PROVE Next
    <2>1. CASE EnsureEpoch
      BY <2>1 DEF Next
    <2>2. ASSUME NEW i \in Missing, RegisterCandidate(Plan[i]) PROVE Next
      <3>1. Plan[i] \in Candidates
        BY DaemonAssumption, ElementOfSeq DEF Missing
      <3>. QED
        BY <2>2, <3>1 DEF Next
    <2>. QED
      BY <1>1, <2>1, <2>2 DEF PrepareRegister
  <1>2. ASSUME NEW w \in Workers, Recover(w) PROVE [Next]_ledgerVars
    <2>1. PICK wait \in 0 .. worker[w].age : RecoverStaleAttempts(wait) \/ UNCHANGED ledgerVars
      BY <1>2 DEF Recover
    <2>2. wait \in 0 .. MaxWait
      BY <2>1, ProcessFacts
    <2>. QED
      BY <2>1, <2>2 DEF Next
  <1>3. ASSUME NEW w \in Workers, Claim(w) PROVE Next
    <2>1. PICK owner \in OwnersOf[w], wait \in 0 .. worker[w].age, a \in DOMAIN attempts :
            ResumeLease(owner, wait, a) \/ StartAttempt(owner, wait, a)
      BY <1>3 DEF Claim
    <2>2. owner \in Owners /\ wait \in 0 .. MaxWait
      BY <2>1, ProcessFacts
    <2>. QED
      BY <2>1, <2>2 DEF Next
  <1>4. ASSUME NEW w \in Workers, ClaimIdle(w) PROVE Next
    <2>1. PICK owner \in OwnersOf[w], wait \in 0 .. worker[w].age : ClaimNothing(owner, wait)
      BY <1>4 DEF ClaimIdle
    <2>2. owner \in Owners /\ wait \in 0 .. MaxWait
      BY <2>1, ProcessFacts
    <2>. QED
      BY <2>1, <2>2 DEF Next
  <1>5. ASSUME NEW w \in Workers, Complete(w) PROVE [Next]_ledgerVars
    <2>1. worker[w].attempt \in DOMAIN attempts /\ worker[w].owner \in Owners
      BY <1>5, ProcessFacts DEF Complete, At, Holding
    <2>2. PICK wait \in 0 .. worker[w].age :
            \/ CompleteAttempt(worker[w].attempt, worker[w].owner, wait, worker[w].outcome)
            \/ UNCHANGED ledgerVars
      BY <1>5 DEF Complete
    <2>3. wait \in 0 .. MaxWait
      BY <2>2, ProcessFacts
    <2>4. CompleteAttempt(worker[w].attempt, worker[w].owner, wait, worker[w].outcome)
            => worker[w].outcome \in Verdicts
      BY DEF CompleteAttempt, CanComplete
    <2>. QED
      BY <2>1, <2>2, <2>3, <2>4 DEF Next
  <1>6. ASSUME NEW w \in Workers, Fail(w) PROVE [Next]_ledgerVars
    <2>1. worker[w].attempt \in DOMAIN attempts /\ worker[w].owner \in Owners
      BY <1>6, ProcessFacts DEF Fail, At, Holding
    <2>2. PICK system \in BOOLEAN :
            \/ FailAttempt(worker[w].attempt, worker[w].owner, system)
            \/ UNCHANGED ledgerVars
      BY <1>6 DEF Fail
    <2>. QED
      BY <2>1, <2>2 DEF Next
  <1>7. ASSUME NEW w \in Workers, Start(w) \/ Crash(w) \/ Evaluate(w) \/ Publish(w)
        PROVE  UNCHANGED ledgerVars
    BY <1>7 DEF Start, Crash, Evaluate, Publish
  <1>8. ASSUME NEW w \in Workers, PrepareDone(w) PROVE [Next]_ledgerVars
    BY <1>8 DEF PrepareDone, Next
  <1>9. CASE ClockTick
    BY <1>9 DEF ClockTick, Next
  <1>10. CASE UNCHANGED daemonVars
    BY <1>10 DEF daemonVars, ledgerVars
  <1>. QED
    BY <1>1, <1>2, <1>3, <1>4, <1>5, <1>6, <1>7, <1>8, <1>9, <1>10 DEF DaemonNext, Work

\* The clock ages processes and leases, and moves nothing else.
LEMMA ClockTickStep ==
  ASSUME DaemonInvariant, [Next]_ledgerVars, ClockTick
  PROVE  DaemonInvariant'
  <1>1. ASSUME NEW w \in Workers
        PROVE  /\ worker'[w] \in Worker
               /\ worker'[w].pc = worker[w].pc /\ worker'[w].outcome = worker[w].outcome
               /\ worker'[w].attempt = worker[w].attempt /\ worker'[w].owner = worker[w].owner
    <2>1. worker[w] \in Worker /\ worker[w].age \in 0 .. MaxWait
      BY ProcessFacts DEF Worker
    <2>2. CASE worker[w].pc \in {"recover", "claim", "complete"} /\ worker[w].age < MaxWait
      <3>1. worker'[w] = [worker[w] EXCEPT !.age = worker[w].age + 1]
        BY <2>2 DEF ClockTick
      <3>2. worker[w].age + 1 \in 0 .. MaxWait
        BY <2>1, <2>2, LedgerAssumption
      <3>. QED
        BY <2>1, <3>1, <3>2 DEF Worker
    <2>3. CASE ~(worker[w].pc \in {"recover", "claim", "complete"} /\ worker[w].age < MaxWait)
      BY <2>1, <2>3 DEF ClockTick
    <2>. QED
      BY <2>2, <2>3
  <1>2. worker' \in [Workers -> Worker]
    BY <1>1 DEF ClockTick
  <1>3. /\ files' = files /\ artifacts' = artifacts
        /\ DOMAIN attempts' = DOMAIN attempts
        /\ \A a \in DOMAIN attempts : /\ attempts'[a].status = attempts[a].status
                                      /\ attempts'[a].owner = attempts[a].owner
    BY TickRows DEF ClockTick, Tick, DaemonInvariant, LedgerInvariant
  <1>4. LedgerInvariant'
    BY InvariantStep DEF DaemonInvariant
  <1>5. Memory'
    BY <1>2, <1>3 DEF Memory, DaemonInvariant
  <1>6. LeasesAgree'
    BY <1>1, <1>3 DEF DaemonInvariant, LeasesAgree, RemembersLease
  <1>7. OneOwnerPerAttempt'
    BY <1>1 DEF DaemonInvariant, OneOwnerPerAttempt
  <1>8. ResultsPublished' /\ RowsHaveFiles'
    BY <1>1, <1>3 DEF DaemonInvariant, ResultsPublished, Published, RowsHaveFiles
  <1>. QED
    BY <1>4, <1>5, <1>6, <1>7, <1>8 DEF DaemonInvariant

\* What a process remembers after its claim.
Claimed(a, owner) == [Idle("evaluate") EXCEPT !.attempt = a, !.owner = owner]

LEMMA ClaimedProcess ==
  ASSUME NEW a \in Nat, NEW owner \in Owners
  PROVE  /\ Claimed(a, owner) \in Worker
         /\ Claimed(a, owner).pc = "evaluate" /\ Claimed(a, owner).attempt = a
         /\ Claimed(a, owner).owner = owner /\ Claimed(a, owner).outcome = "none"
  <1>1. "evaluate" \in Stopped \cup Steps
    BY DEF Steps
  <1>2. 0 \in 0 .. MaxWait
    BY LedgerAssumption
  <1>3. Idle("evaluate") \in Worker
    BY <1>1, <1>2, Zenon DEF Idle, Worker
  <1>4. Idle("evaluate").pc = "evaluate" /\ Idle("evaluate").outcome = "none"
    BY DEF Idle
  <1>. QED
    BY <1>3, <1>4 DEF Worker, Claimed

LEMMA DaemonInvariantStep ==
  DaemonInvariant /\ [DaemonNext]_daemonVars => DaemonInvariant'
  <1>. SUFFICES ASSUME DaemonInvariant, [DaemonNext]_daemonVars PROVE DaemonInvariant'
    OBVIOUS
  <1>0. [Next]_ledgerVars
    BY LedgerStep
  <1>1. ASSUME NEW w \in Workers, Start(w) \/ Crash(w) PROVE DaemonInvariant'
    <2>1. PICK pc \in Stopped \cup (Steps \ Holding) : Go(w, Idle(pc))
      BY <1>1 DEF Start, Crash, Stopped, Steps, Holding
    <2>2. UNCHANGED <<artifacts, files>>
      BY <1>1 DEF Start, Crash, ledgerVars
    <2>. QED
      BY <1>0, <2>1, <2>2, LetsGo
  <1>2. ASSUME NEW w \in Workers, PrepareRegister(w) PROVE DaemonInvariant'
    <2>1. UNCHANGED <<worker, files, artifacts>>
      BY <1>2 DEF PrepareRegister, EnsureEpoch, RegisterCandidate
    <2>2. worker[w] \in Worker /\ Go(w, worker[w])
      BY <2>1 DEF Go, DaemonInvariant, Memory
    <2>3. PICK s \in Worker : Go(w, s) /\ s = worker[w]
      BY <2>2
    <2>4. RemembersLease(s, attempts')
      <3>1. RemembersLease(s, attempts) /\ s.pc \notin Holding
        BY <1>2, <2>3 DEF DaemonInvariant, LeasesAgree, PrepareRegister, At, Holding
      <3>. QED
        BY <3>1 DEF RemembersLease
    <2>5. s.pc \notin Holding
      BY <1>2, <2>3 DEF PrepareRegister, At, Holding
    <2>6. Published(s, files')
      BY <2>5 DEF Published, Holding
    <2>7. RowsHaveFiles' /\ files' = files /\ files \in SUBSET [attempt : Nat, verdict : Evaluations]
      BY <2>1 DEF RowsHaveFiles, DaemonInvariant, Memory
    <2>. QED
      BY <1>0, <2>3, <2>4, <2>5, <2>6, <2>7, ProcessMoves
  <1>3. ASSUME NEW w \in Workers, PrepareDone(w) PROVE DaemonInvariant'
    <2>1. PICK pc \in Stopped \cup (Steps \ Holding) : Go(w, Idle(pc))
      BY <1>3 DEF PrepareDone, Stopped, Steps, Holding
    <2>2. UNCHANGED <<artifacts, files>>
      BY <1>3 DEF PrepareDone, MarkGenerationComplete, ledgerVars
    <2>. QED
      BY <1>0, <2>1, <2>2, LetsGo
  <1>4. ASSUME NEW w \in Workers, Recover(w) PROVE DaemonInvariant'
    <2>1. PICK pc \in Stopped \cup (Steps \ Holding) : Go(w, Idle(pc))
      BY <1>4 DEF Recover, Stopped, Steps, Holding
    <2>2. UNCHANGED <<artifacts, files>>
      BY <1>4 DEF Recover, RecoverStaleAttempts, ledgerVars
    <2>. QED
      BY <1>0, <2>1, <2>2, LetsGo
  <1>5. ASSUME NEW w \in Workers, ClaimIdle(w) PROVE DaemonInvariant'
    <2>1. PICK pc \in Stopped \cup (Steps \ Holding) : Go(w, Idle(pc))
      BY <1>5 DEF ClaimIdle, Stopped, Steps, Holding
    <2>2. UNCHANGED <<artifacts, files>>
      BY <1>5 DEF ClaimIdle, ClaimNothing
    <2>. QED
      BY <1>0, <2>1, <2>2, LetsGo
  <1>6. ASSUME NEW w \in Workers, Claim(w) PROVE DaemonInvariant'
    <2>1. PICK owner \in OwnersOf[w], wait \in 0 .. worker[w].age, a \in DOMAIN attempts :
            /\ ResumeLease(owner, wait, a) \/ StartAttempt(owner, wait, a)
            /\ Go(w, Claimed(a, owner))
      BY <1>6, Zenon DEF Claim, Claimed
    <2>2. owner \in Owners /\ wait \in 0 .. MaxWait /\ a \in Nat
      <3>1. a \in Nat
        BY AttemptRows DEF DaemonInvariant, LedgerInvariant
      <3>. QED
        BY <2>1, <3>1, ProcessFacts
    <2>3. PICK s \in Worker : /\ Go(w, s) /\ s.pc = "evaluate" /\ s.attempt = a
                              /\ s.owner = owner /\ s.outcome = "none"
      BY <2>1, <2>2, ClaimedProcess
    <2>4. /\ attempts' = [attempts EXCEPT ![a] = Leased(attempts[a], owner, wait)]
          /\ \/ attempts[a].status = "QUEUED"
             \/ attempts[a].status = "RUNNING" /\ attempts[a].owner = owner
      BY <2>1 DEF ResumeLease, StartAttempt, Resumable, Claimable, Running
    <2>5. Leased(attempts[a], owner, wait).owner = owner
          /\ Leased(attempts[a], owner, wait).status = "RUNNING"
      BY AttemptRows DEF Leased, Attempt, DaemonInvariant, LedgerInvariant
    <2>6. RemembersLease(s, attempts')
      BY <2>2, <2>3, <2>4, <2>5 DEF RemembersLease, Holding
    <2>7. ASSUME NEW v \in Workers \ {w}, worker[v].pc \in Holding, worker[v].attempt = a
          PROVE  worker[v].owner = owner
      BY <2>4, <2>7 DEF DaemonInvariant, LeasesAgree, RemembersLease
    <2>8. Published(s, files')
      BY <2>3 DEF Published
    <2>9. files' = files /\ artifacts' = artifacts
      BY <1>6, <2>1 DEF Claim, ResumeLease, StartAttempt
    <2>10. RowsHaveFiles' /\ files \in SUBSET [attempt : Nat, verdict : Evaluations]
      BY <2>9 DEF RowsHaveFiles, DaemonInvariant, Memory
    <2>. QED
      BY <1>0, <2>3, <2>6, <2>7, <2>8, <2>9, <2>10, ProcessMoves
  <1>7. ASSUME NEW w \in Workers, Evaluate(w) PROVE DaemonInvariant'
    <2>1. PICK pc \in {"publish", "fail"}, e \in Evaluations \cup Failures :
            Proceed(w, pc, e) /\ (pc = "publish" => e \in Evaluations)
      BY <1>7 DEF Evaluate
    <2>2. worker[w].pc \in Holding /\ pc \in Holding /\ UNCHANGED ledgerVars /\ files' = files
      BY <1>7, <2>1 DEF Evaluate, At, Holding
    <2>3. files \in SUBSET [attempt : Nat, verdict : Evaluations]
      BY DEF DaemonInvariant, Memory
    <2>. QED
      BY <2>1, <2>2, <2>3, GoesOn
  <1>8. ASSUME NEW w \in Workers, Publish(w) PROVE DaemonInvariant'
    <2>1. /\ worker[w].pc = "publish" /\ UNCHANGED ledgerVars
          /\ files' = files \cup {[attempt |-> worker[w].attempt, verdict |-> worker[w].outcome]}
          /\ Proceed(w, "complete", worker[w].outcome)
      BY <1>8 DEF Publish, At
    <2>2. worker[w].outcome \in Evaluations /\ worker[w].attempt \in Nat
      BY <2>1, ProcessFacts DEF DaemonInvariant, ResultsPublished, Published, Worker
    <2>3. files' \in SUBSET [attempt : Nat, verdict : Evaluations]
      BY <2>1, <2>2 DEF DaemonInvariant, Memory
    <2>4. PICK e \in Evaluations : e = worker[w].outcome
      BY <2>2
    <2>. QED
      BY <2>1, <2>3, <2>4, GoesOn DEF Holding
  <1>9. ASSUME NEW w \in Workers, Complete(w) PROVE DaemonInvariant'
    <2>1. worker[w].pc = "complete" /\ files' = files
      BY <1>9 DEF Complete, At
    <2>2. PICK wait \in 0 .. worker[w].age :
            \/ /\ CompleteAttempt(worker[w].attempt, worker[w].owner, wait, worker[w].outcome)
               /\ Go(w, Idle("recover"))
            \/ UNCHANGED ledgerVars /\ Proceed(w, "fail", "systemError")
      BY <1>9 DEF Complete
    <2>3. CASE /\ CompleteAttempt(worker[w].attempt, worker[w].owner, wait, worker[w].outcome)
               /\ Go(w, Idle("recover"))
      <3>1. artifacts' = artifacts \cup
              {[attempt |-> worker[w].attempt, verdict |-> worker[w].outcome]}
        BY <2>3 DEF CompleteAttempt
      <3>2. [attempt |-> worker[w].attempt, verdict |-> worker[w].outcome] \in files
        BY <2>1 DEF DaemonInvariant, ResultsPublished, Published
      <3>3. RowsHaveFiles'
        BY <2>1, <3>1, <3>2 DEF RowsHaveFiles, DaemonInvariant
      <3>. QED
        BY <1>0, <2>1, <2>3, <3>3, LetsGo DEF Steps, Holding
    <2>4. CASE UNCHANGED ledgerVars /\ Proceed(w, "fail", "systemError")
      BY <2>1, <2>4, GoesOn DEF Holding, Failures, DaemonInvariant, Memory
    <2>. QED
      BY <2>2, <2>3, <2>4
  <1>10. ASSUME NEW w \in Workers, Fail(w) PROVE DaemonInvariant'
    <2>1. PICK pc \in Stopped \cup (Steps \ Holding) : Go(w, Idle(pc))
      BY <1>10 DEF Fail, Stopped, Steps, Holding
    <2>2. UNCHANGED <<artifacts, files>>
      BY <1>10 DEF Fail, FailAttempt, ledgerVars
    <2>. QED
      BY <1>0, <2>1, <2>2, LetsGo
  <1>11. CASE ClockTick
    BY <1>0, <1>11, ClockTickStep
  <1>12. CASE UNCHANGED daemonVars
    <2>1. LedgerInvariant'
      BY <1>0, InvariantStep DEF DaemonInvariant
    <2>. QED
      BY <1>12, <2>1
      DEF daemonVars, ledgerVars, DaemonInvariant, Memory, LeasesAgree, RemembersLease,
          OneOwnerPerAttempt, ResultsPublished, Published, RowsHaveFiles
  <1>. QED
    BY <1>1, <1>2, <1>3, <1>4, <1>5, <1>6, <1>7, <1>8, <1>9, <1>10, <1>11, <1>12
    DEF DaemonNext, Work

-----------------------------------------------------------------------------
(* The theorems.                                                           *)

\* What a process remembers of its lease and its result is what the tables and
\* the files say, whatever the other processes, kills and the clock do.
THEOREM MemoryAgrees == DaemonSpec => []DaemonInvariant
  <1>. QED
    BY DaemonInvariantInit, DaemonInvariantStep, PTL DEF DaemonSpec

\* The daemon uses the ledger as its specification allows: each process step is
\* one ledger transaction or none, so every ledger theorem holds of the daemon.
THEOREM DaemonKeepsLedger == DaemonSpec => Spec
  <1>1. DaemonInit => Init
    BY DEF DaemonInit
  <1>. QED
    BY <1>1, LedgerStep, MemoryAgrees, PTL DEF DaemonSpec, Spec

\* In particular the daemon keeps the contract of its epoch.
THEOREM DaemonKeepsContract == DaemonSpec => KeepsContract
  <1>. QED
    BY DaemonKeepsLedger, Refines, PTL

LEMMA InvariantHolding ==
  ASSUME DaemonInvariant, NEW w \in Workers
  PROVE  /\ worker[w].pc \in Holding <=> worker[w].attempt \in DOMAIN attempts
         /\ worker[w].pc \in Holding <=> worker[w].owner # NoOwner
  <1>1. RemembersLease(worker[w], attempts)
    BY DEF DaemonInvariant, LeasesAgree
  <1>2. 0 \notin DOMAIN attempts
    BY AttemptRows DEF DaemonInvariant, LedgerInvariant
  <1>3. NoOwner \notin Owners
    BY LedgerAssumption
  <1>. QED
    BY <1>1, <1>2, <1>3 DEF RemembersLease

\* Types, and that a process holds a lease exactly between its claim and its
\* terminal call.
THEOREM DaemonTypeCorrect == DaemonSpec => []DaemonTypeOK
  <1>1. DaemonInvariant => DaemonTypeOK
    BY InvariantHolding DEF DaemonInvariant, DaemonTypeOK, LedgerInvariant, Memory
  <1>. QED
    BY <1>1, MemoryAgrees, PTL

\* No artifact row without its file, at whatever step a process is killed.
THEOREM FilesFirst == DaemonSpec => []RowsHaveFiles
  <1>1. DaemonInvariant => RowsHaveFiles
    BY DEF DaemonInvariant
  <1>. QED
    BY <1>1, MemoryAgrees, PTL

\* No two owners ever work on one attempt.
THEOREM OneOwner == DaemonSpec => []OneOwnerPerAttempt
  <1>1. DaemonInvariant => OneOwnerPerAttempt
    BY DEF DaemonInvariant
  <1>. QED
    BY <1>1, MemoryAgrees, PTL

-----------------------------------------------------------------------------
(* Fencing: an expired lease can no longer decide.                         *)

\* A ledger step decides no candidate unless it completes or fails an attempt.
LEMMA UndecidedKept ==
  ASSUME LedgerInvariant,
         \/ EnsureEpoch \/ MarkGenerationComplete \/ Tick \/ UNCHANGED ledgerVars
         \/ \E c \in Candidates : RegisterCandidate(c)
         \/ \E owner \in Owners, wait \in 0 .. MaxWait :
              \/ ClaimNothing(owner, wait)
              \/ \E a \in DOMAIN attempts :
                   ResumeLease(owner, wait, a) \/ StartAttempt(owner, wait, a)
         \/ \E wait \in 0 .. MaxWait : RecoverStaleAttempts(wait),
         NEW c \in Candidates, candidates'[c].status \in Decided
  PROVE  candidates[c].status \in Decided
  <1>0. TypeOK
    BY DEF LedgerInvariant
  <1>1. CASE UNCHANGED candidates
    BY <1>1
  <1>2. ASSUME NEW d \in Candidates, RegisterCandidate(d)
        PROVE  candidates[c].status \in Decided
    <2>1. candidates'[d].status = "QUEUED"
          /\ \A e \in Candidates \ {d} : candidates'[e] = candidates[e]
      BY <1>0, <1>2 DEF RegisterCandidate, TypeOK
    <2>. QED
      BY <2>1 DEF Decided, Verdicts
  <1>3. ASSUME NEW owner \in Owners, NEW wait \in 0 .. MaxWait, NEW a \in DOMAIN attempts,
               StartAttempt(owner, wait, a)
        PROVE  candidates[c].status \in Decided
    <2>1. CandidateOf(a) \in Candidates
      BY <1>0, AttemptRows
    <2>2. candidates'[CandidateOf(a)].status = "RUNNING"
          /\ \A e \in Candidates \ {CandidateOf(a)} : candidates'[e] = candidates[e]
      BY <1>0, <1>3, <2>1 DEF StartAttempt, TypeOK
    <2>. QED
      BY <2>2 DEF Decided, Verdicts
  <1>4. ASSUME NEW wait \in 0 .. MaxWait, RecoverStaleAttempts(wait)
        PROVE  candidates[c].status \in Decided
    <2>1. PICK walk \in Ascending(Stale(wait)) :
            CrashAlong(walk, Reached(Cardinality(Stale(wait))))
      BY <1>4 DEF RecoverStaleAttempts
    <2>2. \/ candidates'[c] = [candidates[c] EXCEPT !.status = "QUEUED"]
          \/ candidates'[c] = [candidates[c] EXCEPT !.status = "CRASHED"]
          \/ candidates'[c] = candidates[c]
      BY <2>1 DEF CrashAlong
    <2>3. candidates[c] \in [status : CandidateStatus, ordinal : Nat, result : Nat]
      BY <1>0 DEF TypeOK
    <2>. QED
      BY <2>2, <2>3 DEF Decided, Verdicts
  <1>. QED
    BY <1>1, <1>2, <1>3, <1>4
    DEF EnsureEpoch, MarkGenerationComplete, Tick, ClaimNothing, ResumeLease, ledgerVars

\* A process that ends its attempt with a decision decides that attempt's candidate,
\* and holds the candidate's latest attempt: a later one means it was taken over.
LEMMA DeciderHoldsLatest ==
  ASSUME DaemonInvariant, NEW w \in Workers, worker[w].pc \in {"complete", "fail"},
         worker[w].attempt \in Running, NEW status, NEW verdict,
         MovesTo(worker[w].attempt, status, verdict), NEW pc, Go(w, Idle(pc)),
         NEW c \in Candidates, candidates'[c].status # candidates[c].status
  PROVE  /\ worker'[w] # worker[w]
         /\ CandidateOf(worker[w].attempt) = c
         /\ \A a \in Attempted(c) : a <= worker[w].attempt
  <1>1. PICK mine \in DOMAIN attempts : mine = worker[w].attempt
    BY DEF Running
  <1>2. CandidateOf(mine) = c
    BY <1>1 DEF MovesTo
  <1>3. mine \in Nat \ {0} /\ DOMAIN attempts \subseteq Nat
    BY <1>1, AttemptRows DEF DaemonInvariant, LedgerInvariant
  <1>4. worker'[w] = Idle(pc)
    BY DEF Go, DaemonInvariant, Memory
  <1>5. worker'[w].attempt = 0
    BY <1>4 DEF Idle
  <1>6. ASSUME NEW a \in Attempted(c) PROVE a <= mine
    <2>1. a \in DOMAIN attempts /\ CandidateOf(a) = CandidateOf(mine)
      BY <1>2 DEF Attempted
    <2>2. attempts[mine].status = "RUNNING"
      BY <1>1 DEF Running
    <2>3. ~(mine < a)
      BY <2>1, <2>2 DEF DaemonInvariant, LedgerInvariant, RowsAgree, LaterCrashed
    <2>. QED
      BY <1>3, <2>1, <2>3
  <1>. QED
    BY <1>1, <1>2, <1>3, <1>5, <1>6

LEMMA FencedStep == DaemonInvariant /\ [DaemonNext]_daemonVars => FencedDecision
  <1> DEFINE Fenced(c) ==
        \E w \in Workers :
          /\ worker[w].pc \in {"complete", "fail"} /\ worker'[w] # worker[w]
          /\ CandidateOf(worker[w].attempt) = c
          /\ \A a \in Attempted(c) : a <= worker[w].attempt
  <1>. SUFFICES ASSUME DaemonInvariant, [DaemonNext]_daemonVars,
                       NEW c \in Candidates,
                       candidates[c].status \notin Decided, candidates'[c].status \in Decided
                PROVE  Fenced(c)
    BY DEF FencedDecision
  <1>0. LedgerInvariant
    BY DEF DaemonInvariant
  <1>1. ASSUME NEW w \in Workers, PrepareRegister(w) PROVE FALSE
    <2>1. ASSUME NEW i \in Missing PROVE Plan[i] \in Candidates
      BY DaemonAssumption, ElementOfSeq DEF Missing
    <2>. QED
      BY <1>0, <1>1, <2>1, UndecidedKept DEF PrepareRegister
  <1>2. ASSUME NEW w \in Workers, Recover(w) PROVE FALSE
    <2>1. PICK wait \in 0 .. worker[w].age : RecoverStaleAttempts(wait) \/ UNCHANGED ledgerVars
      BY <1>2 DEF Recover
    <2>2. wait \in 0 .. MaxWait
      BY <2>1, ProcessFacts
    <2>. QED
      BY <1>0, <2>1, <2>2, UndecidedKept
  <1>3. ASSUME NEW w \in Workers, Claim(w) PROVE FALSE
    <2>1. PICK owner \in OwnersOf[w], wait \in 0 .. worker[w].age, a \in DOMAIN attempts :
            ResumeLease(owner, wait, a) \/ StartAttempt(owner, wait, a)
      BY <1>3, Zenon DEF Claim
    <2>2. owner \in Owners /\ wait \in 0 .. MaxWait
      BY <2>1, ProcessFacts
    <2>. QED
      BY <1>0, <2>1, <2>2, UndecidedKept
  <1>4. ASSUME NEW w \in Workers, ClaimIdle(w) PROVE FALSE
    <2>1. PICK owner \in OwnersOf[w], wait \in 0 .. worker[w].age : ClaimNothing(owner, wait)
      BY <1>4 DEF ClaimIdle
    <2>2. owner \in Owners /\ wait \in 0 .. MaxWait
      BY <2>1, ProcessFacts
    <2>. QED
      BY <1>0, <2>1, <2>2, UndecidedKept
  <1>5. ASSUME NEW w \in Workers, Complete(w) PROVE Fenced(c)
    <2>1. worker[w].pc = "complete"
      BY <1>5 DEF Complete, At
    <2>2. PICK wait \in 0 .. worker[w].age :
            \/ /\ CompleteAttempt(worker[w].attempt, worker[w].owner, wait, worker[w].outcome)
               /\ Go(w, Idle("recover"))
            \/ UNCHANGED ledgerVars
      BY <1>5 DEF Complete
    <2>3. CASE UNCHANGED ledgerVars
      BY <1>0, <2>3, UndecidedKept
    <2>4. CASE /\ CompleteAttempt(worker[w].attempt, worker[w].owner, wait, worker[w].outcome)
               /\ Go(w, Idle("recover"))
      <3>1. PICK a, owner, verdict :
              /\ a = worker[w].attempt /\ owner = worker[w].owner /\ verdict = worker[w].outcome
              /\ CompleteAttempt(a, owner, wait, verdict)
        BY <2>4
      <3>2. MovesTo(a, "COMPLETED", verdict) /\ a \in Running
        BY <1>0, <3>1, CompleteMoves
      <3>. QED
        BY <2>1, <2>4, <3>1, <3>2, DeciderHoldsLatest
    <2>. QED
      BY <2>2, <2>3, <2>4
  <1>6. ASSUME NEW w \in Workers, Fail(w) PROVE Fenced(c)
    <2>1. worker[w].pc = "fail"
      BY <1>6 DEF Fail, At
    <2>2. PICK system \in BOOLEAN, pc \in {"down", "recover"} :
            \/ /\ FailAttempt(worker[w].attempt, worker[w].owner, system)
               /\ Go(w, Idle(pc))
            \/ UNCHANGED ledgerVars
      BY <1>6 DEF Fail
    <2>3. CASE UNCHANGED ledgerVars
      BY <1>0, <2>3, UndecidedKept
    <2>4. CASE /\ FailAttempt(worker[w].attempt, worker[w].owner, system)
               /\ Go(w, Idle(pc))
      <3>1. PICK a, owner :
              /\ a = worker[w].attempt /\ owner = worker[w].owner
              /\ FailAttempt(a, owner, system)
        BY <2>4
      <3>2. MovesTo(a, "FAILED", "none") /\ a \in Running
        BY <1>0, <3>1, FailMoves
      <3>. QED
        BY <2>1, <2>4, <3>1, <3>2, DeciderHoldsLatest
    <2>. QED
      BY <2>2, <2>3, <2>4
  <1>7. ASSUME NEW w \in Workers,
               Start(w) \/ Crash(w) \/ Evaluate(w) \/ Publish(w) \/ PrepareDone(w)
        PROVE  FALSE
    BY <1>0, <1>7, UndecidedKept DEF Start, Crash, Evaluate, Publish, PrepareDone
  <1>8. CASE ClockTick
    BY <1>0, <1>8, UndecidedKept DEF ClockTick
  <1>9. CASE UNCHANGED daemonVars
    BY <1>0, <1>9, UndecidedKept DEF daemonVars, ledgerVars
  <1>. QED
    BY <1>1, <1>2, <1>3, <1>4, <1>5, <1>6, <1>7, <1>8, <1>9 DEF DaemonNext, Work

\* A result is decided by a process that holds the candidate's latest attempt: one
\* whose lease was taken over can finish its evaluation, but not decide.
THEOREM Fencing == DaemonSpec => StaleWorkersCannotDecide
  <1>1. DaemonInvariant /\ [DaemonNext]_daemonVars => [FencedDecision]_daemonVars
    BY FencedStep
  <1>. QED
    BY <1>1, MemoryAgrees, PTL DEF DaemonSpec, StaleWorkersCannotDecide
=============================================================================
