----------------------------- MODULE M0bControl -----------------------------
(***************************************************************************)
(* The M0b control plane: the PostgreSQL rows of one epoch and the four    *)
(* capability functions of migration 0030, with the epoch and candidate    *)
(* registration of migration 0029.  A call is one transaction; it locks    *)
(* the rows it is about before it looks at them, hence it is one step.     *)
(*                                                                         *)
(* An attempt and its lease are two rows written together; attempts[a]     *)
(* holds the columns of both, and the number of its checkpoints (their     *)
(* content is a function of the candidate's immutable work).               *)
(*                                                                         *)
(* Time.  left is the number of ticks until leased_until.  A function      *)
(* compares with statement_timestamp(), read before it waits for locks:    *)
(* its reading is "wait" ticks old when it acts.                           *)
(*                                                                         *)
(* The campaign is RUNNING with its holdout unrevealed throughout: the     *)
(* triggers of 0029 make both permanent.                                   *)
(***************************************************************************)
EXTENDS Integers, Sequences, FiniteSets

CONSTANTS
  Real, Null,              \* candidates by candidate_kind
  Parent,                  \* the REAL parent of each null control
  Ordinal,                 \* per candidate
  Controls, ControlOf,     \* declared null controls, and which one a candidate is
  Admitted,                \* candidates whose metrics pass the numeric rules
  Tokens,                  \* lease_token_sha256 values
  RealBudget, NullBudget,
  MaxAttempts,             \* max_attempts_per_candidate
  Shards,                  \* checkpoints of a whole computation
  LeaseTicks,              \* what a claim grants: one hour, also the longest renewal
  CheckpointTicks,         \* what a checkpoint grants at least: five minutes
  MaxWait                  \* longest wait for a row lock

Candidates == Real \cup Null

ASSUME ControlAssumption ==
  /\ Real \cap Null = {}
  /\ IsFiniteSet(Candidates)
  /\ Parent \in [Null -> Real]
  /\ Ordinal \in [Candidates -> Nat \ {0}]
  /\ ControlOf \in [Null -> Controls]
  /\ Admitted \subseteq Candidates
  /\ RealBudget \in Nat \ {0} /\ NullBudget \in Nat \ {0}
  /\ MaxAttempts \in Nat \ {0}
  /\ Shards \in Nat \ {0}
  /\ LeaseTicks \in Nat \ {0}
  /\ CheckpointTicks \in 0 .. LeaseTicks
  /\ MaxWait \in Nat

VARIABLES
  epochStatus, \* m0b_epochs.status
  candidates,  \* m0b_candidates.status, "ABSENT" when there is no row
  attempts,    \* research_run_attempts and m0b_worker_leases rows, in id order
  decisions    \* m0b_admission_decisions rows

controlVars == <<epochStatus, candidates, attempts, decisions>>

Given         == {"REGISTERED", "SCREENED_OUT"}
GivenUp       == {"FAILED", "CRASHED"}
Terminal      == Given \cup GivenUp
Ended         == {"COMPLETED", "FAILED"}
EpochStatus   == {"PREPARED", "RUNNING"} \cup Ended
Status        == {"ABSENT", "QUEUED", "RUNNING"} \cup Terminal
AttemptStatus == {"RUNNING", "SUCCEEDED", "FAILED"}
Errors        == {"none", "expired", "work"}

Attempt == [candidate : Candidates, number : Nat \ {0}, status : AttemptStatus,
            error : Errors, token : Tokens, lease : {"ACTIVE", "RELEASED"},
            left : Int, retryable : BOOLEAN, checkpoints : 0 .. Shards]
Decision == [candidate : Candidates, attempt : Nat, classification : Given]

TypeOK ==
  /\ epochStatus \in EpochStatus
  /\ candidates \in [Candidates -> Status]
  /\ attempts \in Seq(Attempt)
  /\ decisions \in SUBSET Decision

-----------------------------------------------------------------------------
(* Rows and queries.  The specification uses no definition named Bug_...:  *)
(* each is a plausible mistake in the one that follows it.                 *)

Registered     == {c \in Candidates : candidates[c] # "ABSENT"}
CandidateOf(a) == attempts[a].candidate
Attempted(c)   == {a \in DOMAIN attempts : CandidateOf(a) = c}
SameKind(c)    == IF c \in Real THEN Real ELSE Null
Budget(c)      == IF c \in Real THEN RealBudget ELSE NullBudget
Classification == [c \in Candidates |->
  IF c \in Real /\ c \in Admitted THEN "REGISTERED" ELSE "SCREENED_OUT"]

FreshToken(token) == \A a \in DOMAIN attempts : attempts[a].token # token
Finished(att)     == att.checkpoints = Shards

NewAttempt(c, n, token, wait) ==
  [candidate |-> c, number |-> n, status |-> "RUNNING", error |-> "none",
   token |-> token, lease |-> "ACTIVE", left |-> LeaseTicks - wait,
   retryable |-> FALSE, checkpoints |-> 0]
\* (Nothing reads leased_until of a released lease: it is 0 here.)
EndedAttempt(att, status, error, retryable) ==
  [candidate |-> att.candidate, number |-> att.number, status |-> status,
   error |-> error, token |-> att.token, lease |-> "RELEASED", left |-> 0,
   retryable |-> retryable, checkpoints |-> att.checkpoints]

Live(a, wait) == attempts[a].lease = "ACTIVE" /\ attempts[a].left >= -wait

Bug_RenewableUnexpired(a, wait) == attempts[a].left \in -wait .. LeaseTicks - wait

\* validate_m0b_worker_lease lets no renewal end more than an hour after the
\* reading it is made with.  A renewal that waited for a later one is refused.
Renewable(a, wait) == attempts[a].left <= LeaseTicks - wait

Before(c, d) ==
  \/ c \in Real /\ d \in Null
  \/ SameKind(c) = SameKind(d) /\ Ordinal[c] < Ordinal[d]

-----------------------------------------------------------------------------
Init ==
  /\ epochStatus = "PREPARED"
  /\ candidates = [c \in Candidates |-> "ABSENT"]
  /\ attempts = <<>>
  /\ decisions = {}

\* register_m0b_candidate with validate_m0b_candidate_insert.
RegisterCandidate(c) ==
  LET peers == Registered \cap SameKind(c) IN
  /\ epochStatus \notin Ended
  /\ c \notin Registered
  /\ c \in Null => Parent[c] \in Registered
  /\ Ordinal[c] <= Budget(c) /\ \A d \in peers : Ordinal[d] # Ordinal[c]
  /\ Cardinality(peers) < Budget(c)
  /\ candidates' = [candidates EXCEPT ![c] = "QUEUED"]
  /\ UNCHANGED <<epochStatus, attempts, decisions>>

\* The operator starts and ends the epoch; protect_m0b_epoch and
\* validate_m0b_epoch_terminal are what permits it.
StartEpoch ==
  /\ epochStatus = "PREPARED"
  /\ epochStatus' = "RUNNING"
  /\ UNCHANGED <<candidates, attempts, decisions>>

Spent ==
  /\ Cardinality(Registered \cap Real) = RealBudget
  /\ Cardinality(Registered \cap Null) = NullBudget
  /\ {ControlOf[c] : c \in Registered \cap Null} = Controls

CanFinish(status) ==
  /\ \A a \in DOMAIN attempts : attempts[a].status # "RUNNING"
  /\ \/ /\ status = "COMPLETED" /\ epochStatus = "RUNNING"
        /\ Spent
        /\ \A c \in Registered : candidates[c] \in Given
     \/ /\ status = "FAILED" /\ epochStatus \notin Ended
        /\ \A c \in Registered : candidates[c] \in Terminal

FinishEpoch(status) ==
  /\ CanFinish(status)
  /\ epochStatus' = status
  /\ UNCHANGED <<candidates, attempts, decisions>>

-----------------------------------------------------------------------------
(* m0b_worker_claim_next.  A token that names a lease renews it, expired   *)
(* or not.  A fresh one first fails one attempt whose lease has expired    *)
(* without a complete checkpoint (s, or 0), then takes the first candidate *)
(* free.  Both queries skip rows another transaction has locked, so an     *)
(* earlier one may be passed over, but never the candidate just recovered. *)

RenewLease(a, wait) ==
  /\ attempts[a].lease = "ACTIVE" /\ attempts[a].status = "RUNNING"
  /\ Renewable(a, wait)
  /\ attempts' = [attempts EXCEPT ![a].left = LeaseTicks - wait]
  /\ UNCHANGED <<epochStatus, candidates, decisions>>

Bug_LapsedAtExpiry(a, wait) == attempts[a].lease = "ACTIVE" /\ attempts[a].left <= -wait
Lapsed(a, wait) == attempts[a].lease = "ACTIVE" /\ attempts[a].left < -wait

Bug_RecoverableComplete(a, wait) ==
  /\ Lapsed(a, wait)
  /\ attempts[a].status = "RUNNING" /\ candidates[CandidateOf(a)] = "RUNNING"
Recoverable(a, wait) ==
  /\ Lapsed(a, wait)
  /\ attempts[a].status = "RUNNING" /\ candidates[CandidateOf(a)] = "RUNNING"
  /\ ~Finished(attempts[a])

Bug_ExhaustedLate(a) == attempts[a].number > MaxAttempts
Exhausted(a) == attempts[a].number >= MaxAttempts

AttemptsRecovering(s) ==
  IF s = 0 THEN attempts
  ELSE [attempts EXCEPT ![s] = EndedAttempt(@, "FAILED", "expired", ~Exhausted(s))]
CandidatesRecovering(s) ==
  IF s # 0 /\ Exhausted(s) THEN [candidates EXCEPT ![CandidateOf(s)] = "CRASHED"]
  ELSE candidates

Free(c, rows, status) ==
  \/ status[c] = "QUEUED"
  \/ /\ status[c] = "RUNNING"
     /\ \A a \in Attempted(c) : rows[a].status = "FAILED"
     /\ Cardinality(Attempted(c)) < MaxAttempts

ClaimNext(token, wait, s, c) ==
  LET rows == AttemptsRecovering(s)  status == CandidatesRecovering(s) IN
  /\ epochStatus = "RUNNING"
  /\ FreshToken(token)
  /\ s # 0 => Recoverable(s, wait)
  /\ Free(c, rows, status)
  /\ s # 0 /\ ~Exhausted(s) => ~Before(CandidateOf(s), c)
  /\ attempts' = Append(rows, NewAttempt(c, Cardinality(Attempted(c)) + 1, token, wait))
  /\ candidates' = [status EXCEPT ![c] = "RUNNING"]
  /\ UNCHANGED <<epochStatus, decisions>>

\* The claim recovers an attempt that was its candidate's last and finds no work.
RecoverOnly(token, wait, s) ==
  /\ epochStatus = "RUNNING"
  /\ FreshToken(token)
  /\ Recoverable(s, wait) /\ Exhausted(s)
  /\ attempts' = AttemptsRecovering(s)
  /\ candidates' = CandidatesRecovering(s)
  /\ UNCHANGED <<epochStatus, decisions>>

-----------------------------------------------------------------------------
(* The other three capabilities, called with the token that names a.  A    *)
(* call that repeats what is already stored changes nothing.               *)

\* m0b_worker_checkpoint: the next of a contiguous chain, none after the last.
CanCheckpoint(a, wait) ==
  Live(a, wait) /\ Renewable(a, wait) /\ ~Finished(attempts[a])

Checkpointed(att, wait) ==
  [att EXCEPT !.checkpoints = @ + 1,
              !.left = IF @ >= CheckpointTicks - wait THEN @ ELSE CheckpointTicks - wait]

Checkpoint(a, wait) ==
  /\ CanCheckpoint(a, wait)
  /\ attempts' = [attempts EXCEPT ![a] = Checkpointed(@, wait)]
  /\ UNCHANGED <<epochStatus, candidates, decisions>>

Bug_CanTerminalizeAnyCheckpoint(a, wait) ==
  /\ attempts[a].checkpoints > 0
  /\ Live(a, wait)
  /\ candidates[CandidateOf(a)] = "RUNNING" /\ attempts[a].status = "RUNNING"
CanTerminalize(a, wait) ==
  /\ Finished(attempts[a])
  /\ Live(a, wait)
  /\ candidates[CandidateOf(a)] = "RUNNING" /\ attempts[a].status = "RUNNING"

\* m0b_worker_terminalize: the database derives the classification itself.
Terminalize(a, wait) ==
  LET c == CandidateOf(a) IN
  /\ CanTerminalize(a, wait)
  /\ decisions' = decisions \cup
       {[candidate |-> c, attempt |-> a, classification |-> Classification[c]]}
  /\ attempts' = [attempts EXCEPT ![a] = EndedAttempt(@, "SUCCEEDED", "none", FALSE)]
  /\ candidates' = [candidates EXCEPT ![c] = Classification[c]]
  /\ UNCHANGED epochStatus

Bug_CanFailLate(a, wait) ==
  /\ attempts[a].lease = "ACTIVE" \/ attempts[a].status = "FAILED"
  /\ ~Finished(attempts[a])
CanFail(a, wait) ==
  /\ Live(a, wait)
  /\ ~Finished(attempts[a])
  /\ candidates[CandidateOf(a)] = "RUNNING" /\ attempts[a].status = "RUNNING"

\* m0b_worker_fail.
Fail(a, wait, retryable) ==
  /\ CanFail(a, wait)
  /\ attempts' = [attempts EXCEPT ![a] = EndedAttempt(@, "FAILED", "work", retryable)]
  /\ candidates' = IF retryable /\ ~Exhausted(a) THEN candidates
                   ELSE [candidates EXCEPT ![CandidateOf(a)] = "FAILED"]
  /\ UNCHANGED <<epochStatus, decisions>>

\* The clock advances.  A lease more than MaxWait in the past is expired under
\* every reading and is not counted further down.
Tick ==
  /\ attempts' = [a \in DOMAIN attempts |->
       IF attempts[a].lease = "ACTIVE" /\ attempts[a].left > -MaxWait - 1
       THEN [attempts[a] EXCEPT !.left = @ - 1] ELSE attempts[a]]
  /\ UNCHANGED <<epochStatus, candidates, decisions>>

-----------------------------------------------------------------------------
\* Any authorised worker, with any token it was ever given, at any time.
Next ==
  \/ \E c \in Candidates : RegisterCandidate(c)
  \/ StartEpoch
  \/ \E status \in Ended : FinishEpoch(status)
  \/ \E wait \in 0 .. MaxWait :
       \/ \E token \in Tokens, s \in {0} \cup DOMAIN attempts, c \in Candidates :
            ClaimNext(token, wait, s, c)
       \/ \E token \in Tokens, s \in DOMAIN attempts : RecoverOnly(token, wait, s)
       \/ \E a \in DOMAIN attempts :
            \/ RenewLease(a, wait)
            \/ Checkpoint(a, wait)
            \/ Terminalize(a, wait)
            \/ \E retryable \in BOOLEAN : Fail(a, wait, retryable)
  \/ Tick

Spec == Init /\ [][Next]_controlVars

-----------------------------------------------------------------------------
(* Safety.                                                                 *)

\* The lease row and the attempt row tell one story: a lease is ACTIVE exactly
\* while its attempt runs, attempts of a candidate end before the next begins,
\* and the candidate's status is the one its latest attempt implies.  Claim,
\* recovery, terminalize and fail each write all three tables.
CandidateFollowsAttempts ==
  /\ \A a \in DOMAIN attempts :
       LET c == CandidateOf(a) IN
       /\ attempts[a].lease = "ACTIVE" <=> attempts[a].status = "RUNNING"
       /\ IF \E b \in Attempted(c) : b > a THEN attempts[a].status = "FAILED"
          ELSE CASE attempts[a].status = "RUNNING"   -> candidates[c] = "RUNNING"
                 [] attempts[a].status = "SUCCEEDED" -> candidates[c] = Classification[c]
                 [] attempts[a].status = "FAILED"    -> candidates[c] \in {"RUNNING"} \cup GivenUp
  /\ \A c \in Candidates : candidates[c] \in {"ABSENT", "QUEUED"} <=> Attempted(c) = {}

\* A complete checkpoint is never thrown away: its attempt runs until it has
\* succeeded.  Recovery and fail both look for one, under the same row lock.
CompleteWorkKept ==
  \A a \in DOMAIN attempts : Finished(attempts[a]) => attempts[a].status # "FAILED"

\* Only complete work is decided, each candidate once, as the rules say; a null
\* control is never REGISTERED.
DecisionLineage ==
  /\ \A d \in decisions :
       /\ d.attempt \in Attempted(d.candidate)
       /\ attempts[d.attempt].status = "SUCCEEDED" /\ Finished(attempts[d.attempt])
       /\ candidates[d.candidate] = d.classification
  /\ \A c \in Candidates :
       candidates[c] \in Given => Cardinality({d \in decisions : d.candidate = c}) = 1
  /\ \A c \in Null : candidates[c] # "REGISTERED"

\* No candidate is stranded: one that is neither decided nor given up is queued,
\* leased to one attempt, or free for another, and its attempts are numbered
\* 1, 2, ... within the frozen cap.
NoneStranded ==
  /\ \A c \in Candidates :
       candidates[c] = "RUNNING" =>
         \/ \E a \in Attempted(c) : attempts[a].status = "RUNNING"
         \/ Free(c, attempts, candidates)
  /\ \A a \in DOMAIN attempts :
       /\ attempts[a].number = Cardinality({b \in Attempted(CandidateOf(a)) : b <= a})
       /\ attempts[a].number <= MaxAttempts

\* An ended epoch has nothing open in it, and a COMPLETED one no failure.
EndedIsDrained ==
  /\ epochStatus \in Ended => \A c \in Registered : candidates[c] \in Terminal
  /\ epochStatus = "COMPLETED" => \A c \in Registered : candidates[c] \in Given
  /\ \A a \in DOMAIN attempts : attempts[a].status = "RUNNING" => epochStatus = "RUNNING"

\* A token is bound to one attempt for ever: whoever replays it gets that attempt.
TokenNeverRebound ==
  \A a, b \in DOMAIN attempts : attempts[a].token = attempts[b].token => a = b

\* What the epoch, candidate, attempt, lease and decision rows say of one another,
\* after every call.
TablesAgree ==
  /\ CandidateFollowsAttempts /\ DecisionLineage
  /\ NoneStranded /\ EndedIsDrained /\ TokenNeverRebound

-----------------------------------------------------------------------------
(* What a step may never do.                                               *)

\* The lifecycle triggers never abort a capability call: it makes only moves
\* protect_m0b_candidate and protect_m0b_attempt_lifecycle let through, and
\* leaves no candidate in a state the deferred triggers would refuse at commit.
CandidateMoves ==
  {<<"ABSENT", "QUEUED">>, <<"QUEUED", "RUNNING">>}
    \cup {<<"RUNNING", s>> : s \in Terminal}
TriggersPermit ==
  /\ \A c \in Candidates :
       /\ candidates'[c] # candidates[c] =>
            <<candidates[c], candidates'[c]>> \in CandidateMoves
       /\ candidates'[c] # candidates[c] /\ candidates'[c] \in GivenUp =>
            \A a \in Attempted(c) : attempts'[a].status = "FAILED"
  /\ Len(attempts') >= Len(attempts)
  /\ \A a \in DOMAIN attempts :
       attempts[a].lease = "RELEASED" => attempts'[a] = attempts[a]
TriggersNeverAbort == [][TriggersPermit]_controlVars

\* A lease that is still valid under every reading of the clock is not taken from
\* its holder: only its own terminalize or fail ends it.
NotTaken ==
  \A a \in DOMAIN attempts :
    attempts[a].left >= 0 /\ attempts[a].lease = "ACTIVE" => attempts'[a].error # "expired"
LiveLeaseNotTaken == [][NotTaken]_controlVars

-----------------------------------------------------------------------------
(* The control plane keeps the contract.                                   *)

Phase == CASE epochStatus = "COMPLETED" -> "completed"
           [] epochStatus = "FAILED"    -> "failed"
           [] OTHER                     -> "open"
Outcome == [c \in Candidates |->
  CASE candidates[c] = "ABSENT"      -> "absent"
    [] candidates[c] \in Terminal    -> candidates[c]
    [] OTHER -> IF \E a \in Attempted(c) : Finished(attempts[a]) THEN "computed" ELSE "pending"]
Tries == [c \in Candidates |-> Cardinality(Attempted(c))]

Contract == INSTANCE M0bContract WITH phase <- Phase, outcome <- Outcome, tries <- Tries

\* Every transaction is a step the contract allows, or invisible in it.
KeepsContract == Contract!ContractSpec
=============================================================================
