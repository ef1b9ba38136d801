------------------------------ MODULE M0aLedger ------------------------------
(***************************************************************************)
(* The durable ledger of one M0a discovery epoch                           *)
(* (src/systematic_fx/research/m0a/ledger.py): the rows of its SQLite      *)
(* tables as variables, one action per public operation.  Every operation  *)
(* is one BEGIN IMMEDIATE transaction, hence one step.                     *)
(*                                                                         *)
(* Time.  attempts[a].lease is the number of ticks left until              *)
(* lease_expires_at_us, so that the model needs no absolute clock.  An     *)
(* operation reads the clock BEFORE it queues for the write lock: it acts  *)
(* on a reading that is "wait" ticks old when it commits, wait being at    *)
(* most MaxWait (the busy timeout).  "lease_expires_at_us <= now" is then  *)
(* "lease <= -wait".                                                       *)
(***************************************************************************)
EXTENDS Integers, Sequences, FiniteSets

CONSTANTS
  Real, Null,             \* hashes of the candidates, by candidate_kind
  Parent,                 \* the REAL parent each null control names
  Owners, NoOwner,        \* lease_owner values, and SQL NULL
  RealBudget, NullBudget, \* the epoch's immutable budgets
  Threshold,              \* system_error_threshold
  LeaseTicks,             \* lease duration
  MaxWait                 \* longest wait for the write lock

Candidates == Real \cup Null

ASSUME LedgerAssumption ==
  /\ Real \cap Null = {}
  /\ IsFiniteSet(Candidates)
  /\ Parent \in [Null -> Real]
  /\ NoOwner \notin Owners
  /\ RealBudget \in Nat \ {0}
  /\ NullBudget \in Nat \ {0}
  /\ Threshold \in Nat \ {0}
  /\ LeaseTicks \in Nat \ {0}
  /\ MaxWait \in Nat

VARIABLES
  epochStatus,        \* epochs.status, "ABSENT" before ensure_epoch
  generationComplete, \* epochs.generation_complete
  consecutiveErrors,  \* epochs.consecutive_system_errors
  candidates,         \* candidates rows, by hash; status "ABSENT": no row
  attempts,           \* attempts rows in attempt_id order
  artifacts,          \* artifacts rows
  epochEvents,        \* types of the events that name no candidate, in order
  events              \* types of the events of each candidate, in order

epochVars  == <<epochStatus, generationComplete, consecutiveErrors, epochEvents>>
ledgerVars == <<epochStatus, generationComplete, consecutiveErrors, candidates,
                attempts, artifacts, epochEvents, events>>

Verdicts        == {"REGISTERED", "SCREENED_OUT"}
Decided         == Verdicts \cup {"FAILED"}
CandidateStatus == {"ABSENT", "QUEUED", "RUNNING", "CRASHED"} \cup Decided
ActiveStatus    == {"QUEUED", "RUNNING"}
AttemptStatus   == ActiveStatus \cup {"COMPLETED", "FAILED", "CRASHED"}
Closed          == {"COMPLETED", "HALTED"}
EpochStatus     == {"ABSENT", "QUEUED", "RUNNING"} \cup Closed

EpochEvent      == {"EPOCH_REGISTERED", "GENERATION_BUDGET_EXHAUSTED",
                    "GENERATION_COMPLETED", "EPOCH_COMPLETED"}
CandidateEvent  == {"CANDIDATE_QUEUED", "ATTEMPT_STARTED", "ATTEMPT_CRASHED",
                    "ATTEMPT_RETRY_QUEUED", "SEQUENTIAL_TEST_COMPLETED",
                    "WALK_FORWARD_COMPLETED", "CANDIDATE_REGISTERED",
                    "CANDIDATE_SCREENED_OUT", "CANDIDATE_FAILED"}

Attempt == [candidate : Candidates, number : Nat \ {0}, status : AttemptStatus,
            owner : Owners \cup {NoOwner}, lease : Int, systemError : BOOLEAN]

\* The column types, and the CHECK that ties a lease to the RUNNING status.
TypeOK ==
  /\ epochStatus \in EpochStatus
  /\ generationComplete \in BOOLEAN
  /\ consecutiveErrors \in Nat
  /\ candidates \in [Candidates -> [status : CandidateStatus, ordinal : Nat, result : Nat]]
  /\ attempts \in Seq(Attempt)
  /\ artifacts \in SUBSET [attempt : Nat, verdict : Verdicts]
  /\ epochEvents \in Seq(EpochEvent)
  /\ events \in [Candidates -> Seq(CandidateEvent)]
  /\ \A a \in DOMAIN attempts : attempts[a].status = "RUNNING" <=> attempts[a].owner # NoOwner

-----------------------------------------------------------------------------
(* Rows and queries.  A definition named Bug_... is a plausible mistake in *)
(* the one it precedes; the specification uses none of them, they serve to *)
(* show that the properties would notice.                                  *)

Registered == {c \in Candidates : candidates[c].status # "ABSENT"}
Running    == {a \in DOMAIN attempts : attempts[a].status = "RUNNING"}
CandidateOf(a) == attempts[a].candidate

Budget(c) == IF c \in Real THEN RealBudget ELSE NullBudget
SameKind(c) == IF c \in Real THEN Real ELSE Null

\* The earlier candidates of a kind, whose number fixes the next ordinal.
Peers(c) == Registered \cap SameKind(c)

Bug_OpenUnlessCompleted == epochStatus \notin {"ABSENT", "COMPLETED"}
EpochOpen == epochStatus \in {"QUEUED", "RUNNING"}

NewAttempt(c, n) == [candidate |-> c, number |-> n, status |-> "QUEUED",
                     owner |-> NoOwner, lease |-> 0, systemError |-> FALSE]
Leased(att, owner, wait) ==
  [att EXCEPT !.status = "RUNNING", !.owner = owner, !.lease = LeaseTicks - wait]
Finished(att, status, systemError) ==
  [candidate |-> att.candidate, number |-> att.number, status |-> status,
   owner |-> NoOwner, lease |-> 0, systemError |-> systemError]

Expired(a, wait) == attempts[a].lease <= -wait
Bug_OwnedIgnoresOwner(a, owner) == attempts[a].status # "QUEUED"
Owned(a, owner)  == a \in Running /\ attempts[a].owner = owner

Bug_ResumableByAnyone(owner, wait) == {a \in Running : ~Expired(a, wait)}

\* The attempts this owner may resume, and the order of the resume query:
\* candidate_kind as text, so NULL sorts before REAL.
Resumable(owner, wait) ==
  {a \in Running : attempts[a].owner = owner /\ ~Expired(a, wait)}
ResumeBefore(a, b) ==
  LET c == CandidateOf(a)  d == CandidateOf(b) IN
  \/ c \in Null /\ d \in Real
  \/ SameKind(c) = SameKind(d) /\ candidates[c].ordinal < candidates[d].ordinal

Bug_ClaimableFirstAttempts ==
  {a \in DOMAIN attempts : attempts[a].status = "QUEUED" /\ attempts[a].number = 1}

\* The attempts a worker may start, and the order of the queue: REAL first.
Claimable ==
  {a \in DOMAIN attempts : /\ attempts[a].status = "QUEUED"
                           /\ candidates[CandidateOf(a)].status = "QUEUED"}
QueueBefore(a, b) ==
  LET c == CandidateOf(a)  d == CandidateOf(b) IN
  \/ c \in Real /\ d \in Null
  \/ SameKind(c) = SameKind(d) /\ candidates[c].ordinal < candidates[d].ordinal
  \/ c = d /\ attempts[a].number < attempts[b].number

-----------------------------------------------------------------------------
Init ==
  /\ epochStatus = "ABSENT"
  /\ generationComplete = FALSE
  /\ consecutiveErrors = 0
  /\ candidates = [c \in Candidates |-> [status |-> "ABSENT", ordinal |-> 0, result |-> 0]]
  /\ attempts = <<>>
  /\ artifacts = {}
  /\ epochEvents = <<>>
  /\ events = [c \in Candidates |-> <<>>]

EnsureEpoch ==
  /\ epochStatus = "ABSENT"
  /\ epochStatus' = "QUEUED"
  /\ epochEvents' = Append(epochEvents, "EPOCH_REGISTERED")
  /\ UNCHANGED <<generationComplete, consecutiveErrors, candidates, attempts,
                 artifacts, events>>

\* A duplicate, an exhausted budget, a closed epoch and a null control without
\* its parent change nothing: the code returns or raises.
RegisterCandidate(c) ==
  LET now     == Registered \cup {c}
      fullNow == /\ Cardinality(now \cap Real) = RealBudget
                 /\ Cardinality(now \cap Null) = NullBudget
  IN
  /\ EpochOpen
  /\ ~generationComplete
  /\ c \notin Registered
  /\ Cardinality(Peers(c)) < Budget(c)
  /\ c \in Null => Parent[c] \in Registered
  /\ candidates' = [candidates EXCEPT ![c] =
       [status |-> "QUEUED", ordinal |-> Cardinality(Peers(c)) + 1, result |-> 0]]
  /\ attempts' = Append(attempts, NewAttempt(c, 1))
  /\ events' = [events EXCEPT ![c] = Append(@, "CANDIDATE_QUEUED")]
  /\ generationComplete' = fullNow
  /\ epochEvents' = IF fullNow THEN Append(epochEvents, "GENERATION_BUDGET_EXHAUSTED")
                               ELSE epochEvents
  /\ UNCHANGED <<epochStatus, consecutiveErrors, artifacts>>

Bug_CompleteEpochIfNoneRunning(status, log) ==
  IF /\ status \notin Closed
     /\ generationComplete'
     /\ \A a \in DOMAIN attempts' : attempts'[a].status # "RUNNING"
  THEN epochStatus' = "COMPLETED" /\ epochEvents' = Append(log, "EPOCH_COMPLETED")
  ELSE epochStatus' = status /\ epochEvents' = log

\* _complete_epoch_if_idle, run last in its transaction: on the rows as the
\* transaction leaves them, with status the epoch's own and log its events.
CompleteEpochIfIdle(status, log) ==
  IF /\ status \notin Closed
     /\ generationComplete'
     /\ \A a \in DOMAIN attempts' : attempts'[a].status \notin ActiveStatus
  THEN epochStatus' = "COMPLETED" /\ epochEvents' = Append(log, "EPOCH_COMPLETED")
  ELSE epochStatus' = status /\ epochEvents' = log

MarkGenerationComplete ==
  /\ epochStatus \notin {"ABSENT", "HALTED"}
  /\ generationComplete' = TRUE
  /\ UNCHANGED <<consecutiveErrors, candidates, attempts, artifacts, events>>
  /\ CompleteEpochIfIdle(epochStatus,
       IF generationComplete THEN epochEvents
                             ELSE Append(epochEvents, "GENERATION_COMPLETED"))

\* claim_next_attempt, first outcome: the owner's live lease is renewed.
ResumeLease(owner, wait, a) ==
  /\ EpochOpen
  /\ a \in Resumable(owner, wait)
  /\ \A b \in Resumable(owner, wait) \ {a} : ResumeBefore(a, b)
  /\ attempts' = [attempts EXCEPT ![a] = Leased(@, owner, wait)]
  /\ UNCHANGED <<epochVars, candidates, artifacts, events>>

\* Second outcome: the head of the queue is leased.
StartAttempt(owner, wait, a) ==
  /\ EpochOpen
  /\ Resumable(owner, wait) = {}
  /\ a \in Claimable
  /\ \A b \in Claimable \ {a} : QueueBefore(a, b)
  /\ attempts' = [attempts EXCEPT ![a] = Leased(@, owner, wait)]
  /\ candidates' = [candidates EXCEPT ![CandidateOf(a)].status = "RUNNING"]
  /\ epochStatus' = "RUNNING"
  /\ events' = [events EXCEPT ![CandidateOf(a)] = Append(@, "ATTEMPT_STARTED")]
  /\ UNCHANGED <<generationComplete, consecutiveErrors, artifacts, epochEvents>>

\* Third outcome: nothing to hand out (the epoch completes if it is drained).
ClaimNothing(owner, wait) ==
  /\ epochStatus # "ABSENT"
  /\ epochStatus \notin Closed => Resumable(owner, wait) = {} /\ Claimable = {}
  /\ UNCHANGED <<generationComplete, consecutiveErrors, candidates, attempts,
                 artifacts, events>>
  /\ CompleteEpochIfIdle(epochStatus, epochEvents)

Heartbeat(a, owner, wait) ==
  /\ Owned(a, owner)
  /\ ~Expired(a, wait)
  /\ attempts' = [attempts EXCEPT ![a] = Leased(@, owner, wait)]
  /\ UNCHANGED <<epochVars, candidates, artifacts, events>>

-----------------------------------------------------------------------------
(* recover_stale_attempts walks the expired RUNNING attempts in attempt_id *)
(* order.  Each is CRASHED and counted; it is retried under the next       *)
(* number unless it takes the counter to the threshold, which halts the    *)
(* epoch and ends the walk.                                                *)

Stale(wait) == {a \in Running : Expired(a, wait)}

\* The one enumeration of S in increasing order.
Ascending(S) ==
  {s \in [1 .. Cardinality(S) -> S] :
     \A i, j \in 1 .. Cardinality(S) : i < j => s[i] < s[j]}

\* How many of n stale attempts the walk reaches.
Reached(n) ==
  IF n = 0 \/ consecutiveErrors + n < Threshold THEN n
  ELSE IF consecutiveErrors >= Threshold THEN 1 ELSE Threshold - consecutiveErrors

Bug_NoRetryEvent(retried) == <<"ATTEMPT_CRASHED">>
CrashEvents(retried) ==
  IF retried THEN <<"ATTEMPT_CRASHED", "ATTEMPT_RETRY_QUEUED">> ELSE <<"ATTEMPT_CRASHED">>

\* How many of the n attempts it reaches it retries: not the one that halts.
Retries(n) == IF consecutiveErrors + n >= Threshold THEN n - 1 ELSE n

CrashAlong(walk, n) ==
  LET crashed == {walk[i] : i \in 1 .. n}
      retried == {walk[i] : i \in 1 .. Retries(n)}
      Retry(a) == NewAttempt(CandidateOf(a), attempts[a].number + 1)
      Of(S, c) == \E a \in S : CandidateOf(a) = c
  IN
  /\ attempts' = [b \in 1 .. Len(attempts) + Retries(n) |->
       IF b \in crashed THEN Finished(attempts[b], "CRASHED", TRUE)
       ELSE IF b \in DOMAIN attempts THEN attempts[b]
       ELSE Retry(walk[b - Len(attempts)])]
  /\ candidates' = [c \in Candidates |->
       IF Of(retried, c) THEN [candidates[c] EXCEPT !.status = "QUEUED"]
       ELSE IF Of(crashed, c) THEN [candidates[c] EXCEPT !.status = "CRASHED"]
       ELSE candidates[c]]
  /\ events' = [c \in Candidates |->
       IF Of(crashed, c) THEN events[c] \o CrashEvents(Of(retried, c)) ELSE events[c]]
  /\ consecutiveErrors' = consecutiveErrors + n
  /\ epochStatus' = IF Retries(n) < n THEN "HALTED" ELSE epochStatus

RecoverStaleAttempts(wait) ==
  /\ epochStatus \notin {"ABSENT", "HALTED"}
  /\ Stale(wait) # {}
  /\ \E walk \in Ascending(Stale(wait)) :
       CrashAlong(walk, Reached(Cardinality(Stale(wait))))
  /\ UNCHANGED <<generationComplete, artifacts, epochEvents>>

-----------------------------------------------------------------------------
(* The two terminal operations.  complete_attempt asks for an unexpired    *)
(* lease and takes no notice of the epoch's status; fail_attempt asks for  *)
(* the lease only.                                                         *)

Bug_CanCompleteWithoutLease(a, owner, wait, verdict) ==
  attempts[a].status # "QUEUED" /\ verdict = "SCREENED_OUT"
CanComplete(a, owner, wait, verdict) ==
  /\ Owned(a, owner)
  /\ ~Expired(a, wait)
  /\ verdict \in Verdicts
  /\ verdict = "REGISTERED" => CandidateOf(a) \in Real

VerdictEvents(verdict) ==
  IF verdict = "REGISTERED"
  THEN <<"SEQUENTIAL_TEST_COMPLETED", "WALK_FORWARD_COMPLETED", "CANDIDATE_REGISTERED">>
  ELSE <<"CANDIDATE_SCREENED_OUT">>

CompleteAttempt(a, owner, wait, verdict) ==
  /\ CanComplete(a, owner, wait, verdict)
  /\ artifacts' = artifacts \cup {[attempt |-> a, verdict |-> verdict]}
  /\ attempts' = [attempts EXCEPT ![a] = Finished(@, "COMPLETED", FALSE)]
  /\ candidates' = [candidates EXCEPT ![CandidateOf(a)].status = verdict,
                                      ![CandidateOf(a)].result = a]
  /\ consecutiveErrors' = 0
  /\ events' = [events EXCEPT ![CandidateOf(a)] = @ \o VerdictEvents(verdict)]
  /\ UNCHANGED generationComplete
  /\ CompleteEpochIfIdle(epochStatus, epochEvents)

ErrorsAfter(systemError) ==
  consecutiveErrors + (IF systemError THEN 1 ELSE 0)
Bug_FailureHaltsLate(systemError) ==
  systemError /\ ErrorsAfter(systemError) > Threshold
FailureHalts(systemError) ==
  systemError /\ ErrorsAfter(systemError) >= Threshold

FailAttempt(a, owner, systemError) ==
  /\ Owned(a, owner)
  /\ attempts' = [attempts EXCEPT ![a] = Finished(@, "FAILED", systemError)]
  /\ candidates' = [candidates EXCEPT ![CandidateOf(a)].status = "FAILED"]
  /\ consecutiveErrors' = ErrorsAfter(systemError)
  /\ events' = [events EXCEPT ![CandidateOf(a)] = Append(@, "CANDIDATE_FAILED")]
  /\ UNCHANGED <<generationComplete, artifacts>>
  /\ IF FailureHalts(systemError)
     THEN epochStatus' = "HALTED" /\ UNCHANGED epochEvents
     ELSE CompleteEpochIfIdle(epochStatus, epochEvents)

\* The wall clock advances.  A lease more than MaxWait in the past is stale
\* under every reading of the clock, so it is not counted further down.
Tick ==
  /\ attempts' = [a \in DOMAIN attempts |->
       IF a \in Running /\ attempts[a].lease > -MaxWait
       THEN [attempts[a] EXCEPT !.lease = @ - 1] ELSE attempts[a]]
  /\ UNCHANGED <<epochVars, candidates, artifacts, events>>

-----------------------------------------------------------------------------
\* Any client, with any lease it was ever given, at any time.
Next ==
  \/ EnsureEpoch
  \/ \E c \in Candidates : RegisterCandidate(c)
  \/ MarkGenerationComplete
  \/ \E owner \in Owners, wait \in 0 .. MaxWait :
       \/ ClaimNothing(owner, wait)
       \/ \E a \in DOMAIN attempts :
            \/ ResumeLease(owner, wait, a)
            \/ StartAttempt(owner, wait, a)
            \/ Heartbeat(a, owner, wait)
            \/ \E verdict \in Verdicts : CompleteAttempt(a, owner, wait, verdict)
  \/ \E wait \in 0 .. MaxWait : RecoverStaleAttempts(wait)
  \/ \E a \in DOMAIN attempts, owner \in Owners, systemError \in BOOLEAN :
       FailAttempt(a, owner, systemError)
  \/ Tick

Spec == Init /\ [][Next]_ledgerVars

-----------------------------------------------------------------------------
(* Safety.                                                                 *)

Attempted(c) == {a \in DOMAIN attempts : CandidateOf(a) = c}

\* A candidate's row and its attempts tell one story: every attempt but the
\* latest has CRASHED, and the candidate's status is the one the latest attempt
\* implies.  register, claim, recover, complete and fail each write both tables;
\* a retry racing a late worker is what would tear them apart.  It implies the
\* unique index attempts_one_active (ledger.py:1909-1910).
CandidateFollowsAttempts ==
  /\ \A c \in Candidates : c \in Registered <=> Attempted(c) # {}
  /\ \A a \in DOMAIN attempts :
       LET c == CandidateOf(a) IN
       IF \E b \in Attempted(c) : b > a THEN attempts[a].status = "CRASHED"
       ELSE candidates[c].status =
              IF attempts[a].status = "COMPLETED"
              THEN CHOOSE v \in Verdicts : [attempt |-> a, verdict |-> v] \in artifacts
              ELSE attempts[a].status

\* Attempt numbers of a candidate are 1, 2, ... in attempt_id order, so that the
\* attempt_key derived from them never collides (_insert_attempt).
AttemptsNumbered ==
  \A a \in DOMAIN attempts :
    attempts[a].number = Cardinality({b \in Attempted(CandidateOf(a)) : b <= a})

\* What verify_invariants asserts of every evaluated candidate: one COMPLETED
\* attempt, one artifact row, bound to each other and carrying the verdict; no
\* other attempt owns an artifact; a null control is never REGISTERED.
ResultLineage ==
  /\ \A c \in Candidates :
       candidates[c].status \in Verdicts =>
         /\ {a \in Attempted(c) : attempts[a].status = "COMPLETED"} = {candidates[c].result}
         /\ [attempt |-> candidates[c].result, verdict |-> candidates[c].status] \in artifacts
  /\ \A r \in artifacts :
       /\ r.attempt \in DOMAIN attempts
       /\ candidates[CandidateOf(r.attempt)].result = r.attempt
       /\ candidates[CandidateOf(r.attempt)].status = r.verdict
  /\ \A c \in Null : candidates[c].status # "REGISTERED"

\* An epoch is COMPLETED only when generation is over and nothing is queued or
\* leased: no candidate is left without a decision.
CompletedIsDrained ==
  epochStatus = "COMPLETED" =>
    /\ generationComplete
    /\ \A c \in Registered : candidates[c].status \in Decided

\* The three parts of what verify_invariants says of the tables, at every commit.
LedgerAgrees == CandidateFollowsAttempts /\ ResultLineage /\ CompletedIsDrained

\* While the epoch is open the error counter is below the threshold and no
\* candidate is orphaned: each one registered is decided, or queued or leased
\* under exactly one active attempt, however often its workers crashed.
NoOrphanWhileOpen ==
  epochStatus # "HALTED" =>
    /\ consecutiveErrors < Threshold
    /\ \A c \in Registered :
         \/ candidates[c].status \in Decided
         \/ Cardinality({a \in Attempted(c) : attempts[a].status \in ActiveStatus}) = 1

\* The claim order is a total order: no two candidates of a kind share an ordinal,
\* and neither budget is exceeded.
OrdinalsWithinBudget ==
  \A c, d \in Registered :
    /\ candidates[c].ordinal \in 1 .. Budget(c)
    /\ SameKind(c) = SameKind(d) /\ candidates[c].ordinal = candidates[d].ordinal => c = d

Count(log, type) == Cardinality({i \in DOMAIN log : log[i] = type})

\* The append-only events are a complete account of a candidate: they number its
\* attempts, its starts and its crashes, and the last one names its status.
AuditTrail ==
  \A c \in Registered :
    LET log  == events[c]
        last == log[Len(log)] IN
    /\ log[1] = "CANDIDATE_QUEUED"
    /\ Count(log, "ATTEMPT_RETRY_QUEUED") + 1 = Cardinality(Attempted(c))
    /\ Count(log, "ATTEMPT_CRASHED")
          = Cardinality({a \in Attempted(c) : attempts[a].status = "CRASHED"})
    /\ Count(log, "ATTEMPT_STARTED")
          = Cardinality({a \in Attempted(c) : attempts[a].status # "QUEUED"})
    /\ candidates[c].status = CASE last \in {"CANDIDATE_QUEUED", "ATTEMPT_RETRY_QUEUED"} -> "QUEUED"
                               [] last = "ATTEMPT_STARTED" -> "RUNNING"
                               [] last = "ATTEMPT_CRASHED" -> "CRASHED"
                               [] last = "CANDIDATE_FAILED" -> "FAILED"
                               [] last = "CANDIDATE_REGISTERED" -> "REGISTERED"
                               [] last = "CANDIDATE_SCREENED_OUT" -> "SCREENED_OUT"

\* Whatever is counted agrees with the rows it counts: attempt numbers, ordinals
\* and audit events, each written by another operation than the one it describes.
CountsAgree == AttemptsNumbered /\ OrdinalsWithinBudget /\ AuditTrail

-----------------------------------------------------------------------------
(* What a step may never do.                                               *)

\* The lifecycle and immutability triggers never abort a transaction: every
\* write the operations make is one candidates_lifecycle, attempts_lifecycle
\* and the terminal triggers let through.  (REGISTERED stands for the two
\* intermediate states complete_attempt passes through in one transaction, and
\* RUNNING to QUEUED for the CRASHED that recovery passes through.)
CandidateMoves ==
  {<<"ABSENT", "QUEUED">>, <<"QUEUED", "RUNNING">>, <<"RUNNING", "QUEUED">>}
    \cup {<<"RUNNING", s>> : s \in Decided \cup {"CRASHED"}}
AttemptMoves ==
  {<<"QUEUED", "RUNNING">>}
    \cup {<<"RUNNING", s>> : s \in {"COMPLETED", "FAILED", "CRASHED"}}
TriggersPermit ==
  /\ \A c \in Candidates :
       /\ candidates'[c].status # candidates[c].status =>
            <<candidates[c].status, candidates'[c].status>> \in CandidateMoves
       /\ candidates[c].status \in Decided => candidates'[c] = candidates[c]
  /\ Len(attempts') >= Len(attempts)
  /\ \A a \in DOMAIN attempts :
       /\ attempts'[a].status # attempts[a].status =>
            <<attempts[a].status, attempts'[a].status>> \in AttemptMoves
       /\ attempts[a].status \notin ActiveStatus => attempts'[a] = attempts[a]
TriggersNeverAbort == [][TriggersPermit]_ledgerVars

\* A closed epoch hands out no more work: once COMPLETED or HALTED it stays so,
\* no attempt starts and none is added.  Work leased before a halt may still end.
StaysClosed ==
  epochStatus \in Closed =>
    /\ epochStatus' = epochStatus
    /\ Len(attempts') = Len(attempts)
    /\ \A a \in DOMAIN attempts :
         attempts'[a].status = "RUNNING" => attempts[a].status = "RUNNING"
ClosedIsFinal == [][StaysClosed]_ledgerVars

-----------------------------------------------------------------------------
(* The ledger keeps the epoch's contract: attempts, leases and retries are *)
(* invisible, a candidate in any of them is merely pending.                *)

Phase ==
  CASE epochStatus = "COMPLETED" -> "completed"
    [] epochStatus = "HALTED"    -> "halted"
    [] OTHER                     -> "open"
Decision ==
  [c \in Candidates |->
     CASE candidates[c].status = "ABSENT"    -> "absent"
       [] candidates[c].status \in Decided   -> candidates[c].status
       [] OTHER                              -> "pending"]

Contract == INSTANCE M0aContract
              WITH phase <- Phase, generating <- ~generationComplete, decision <- Decision

\* Every ledger step is a step the contract allows, or invisible in it: whatever
\* clients, crashes, retries and late results do, a candidate is decided at most
\* once, none is admitted late, and an epoch ends drained or halted.
KeepsContract == Contract!ContractSpec
=============================================================================
