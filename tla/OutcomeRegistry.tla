--------------------------- MODULE OutcomeRegistry ---------------------------
(***************************************************************************)
(* The outcome replay registry: db/outcome_registry.py over the tables of  *)
(* migrations 0013 and 0028.  Every operation of the code is one           *)
(* SERIALIZABLE transaction, so each is one action here.  An operation is  *)
(* a pair: what the transaction requires (...Granted; otherwise it raises  *)
(* and rolls back) and what it writes (...Effect).  The callers, with      *)
(* their lost answers and crashes, are in OutcomePipeline.                 *)
(*                                                                         *)
(* A replay manifest and its generic run attempt are written by the same   *)
(* transaction and compared by every other; they are one record here.  The *)
(* triggers and unique indexes that guard the same facts a second time in  *)
(* the database are not modelled: the invariants hold without them.        *)
(***************************************************************************)
EXTENDS Naturals, Sequences, FiniteSets

CONSTANTS Queries,      \* outcome queries, one governed RunSpec each
          Pair,         \* the queries released together (the two P4 candidates), or {}
          Lineages,     \* contents of checkpoints and results, named by their digest
          NoLineage,    \* no predecessor, no result
          Messages,     \* error messages
          NoError,      \* no error message
          SourceDates,  \* planned number of source dates
          MaxAttempts   \* _MAX_ATTEMPT_NUMBER

ASSUME PairIsAmongQueries == Pair \subseteq Queries
ASSUME NoLineageIsApart == NoLineage \notin Lineages
ASSUME NoErrorIsApart == NoError \notin Messages
ASSUME LimitsAreNumbers == SourceDates \in Nat \ {0} /\ MaxAttempts \in Nat \ {0}

VARIABLES attempts,   \* [Queries -> Seq(Attempt)]: attempts of a run with their manifests
          batches,    \* Seq(Batch): pair batches
          releases    \* set of pair releases, append-only

registryVars == <<attempts, batches, releases>>

Live == {"QUEUED", "RUNNING"}
AttemptStatus == Live \cup {"SUCCEEDED", "FAILED", "SKIPPED_DUPLICATE"}
Attempt == [status: AttemptStatus, error: Messages \cup {NoError},
            chain: Seq(Lineages), result: Lineages \cup {NoLineage}]
Members == [Pair -> Nat \ {0}]
Batch == [members: Members, status: {"PREPARED", "RELEASED", "FAILED"},
          error: Messages \cup {NoError}]
Release == [batch: Nat \ {0}, members: Members, results: [Pair -> Lineages]]

(* The columns that exist exactly in some states.                         *)
Shaped(row) ==
  /\ row.error # NoError <=> row.status = "FAILED"
  /\ row.result # NoLineage <=> row.status = "SUCCEEDED"
  /\ Len(row.chain) <= SourceDates

RegistryTypeOK ==
  /\ attempts \in [Queries -> Seq(Attempt)]
  /\ \A q \in Queries : \A a \in DOMAIN attempts[q] : Shaped(attempts[q][a])
  /\ batches \in Seq(Batch)
  /\ releases \subseteq Release

RegistryInit ==
  /\ attempts = [q \in Queries |-> <<>>]
  /\ batches = <<>>
  /\ releases = {}

-----------------------------------------------------------------------------
(* Attempts of a query. *)

HasAttempt(q, a) == a \in DOMAIN attempts[q]
InStatus(q, S) == {a \in DOMAIN attempts[q] : attempts[q][a].status \in S}
Row(status) == [status |-> status, error |-> NoError, chain |-> <<>>, result |-> NoLineage]

Bug_ReserveRefusesLive(q) ==
  InStatus(q, Live) = {} /\ Len(attempts[q]) < MaxAttempts

(* reserve_phase1a_outcome_replay: a success is skipped as a duplicate, a  *)
(* live attempt is resumed as it is, otherwise a new one is queued.        *)
ReserveGranted(q) ==
  /\ Cardinality(InStatus(q, {"SUCCEEDED"})) <= 1
  /\ Cardinality(InStatus(q, Live)) <= 1
  /\ \/ Len(attempts[q]) < MaxAttempts
     \/ InStatus(q, {"SUCCEEDED"}) = {} /\ InStatus(q, Live) # {}

ReserveEffect(q) ==
  /\ \/ /\ InStatus(q, {"SUCCEEDED"}) # {}
        /\ attempts' = [attempts EXCEPT ![q] = Append(@, Row("SKIPPED_DUPLICATE"))]
     \/ /\ InStatus(q, {"SUCCEEDED"}) = {}
        /\ InStatus(q, Live) # {}
        /\ attempts' = attempts
     \/ /\ InStatus(q, {"SUCCEEDED"} \cup Live) = {}
        /\ attempts' = [attempts EXCEPT ![q] = Append(@, Row("QUEUED"))]
  /\ UNCHANGED <<batches, releases>>

(* The reservation that answer describes: the manifest's attempt and       *)
(* whether the caller is to execute it.                                    *)
Reserved(q, a, execute) ==
  \/ a \in InStatus(q, {"SUCCEEDED"}) /\ ~execute
  \/ InStatus(q, {"SUCCEEDED"}) = {} /\ a \in InStatus(q, Live) /\ execute
  \/ /\ InStatus(q, {"SUCCEEDED"} \cup Live) = {}
     /\ a = Len(attempts[q]) + 1
     /\ execute

(* start_phase1a_outcome_replay: a RUNNING replay is started again as it   *)
(* is; a P4 member needs its exact PREPARED pair batch.                    *)
StartGranted(q, a) ==
  /\ HasAttempt(q, a)
  /\ attempts[q][a].status \in Live
  /\ q \in Pair => \E b \in DOMAIN batches : /\ batches[b].status = "PREPARED"
                                             /\ batches[b].members[q] = a

Run(q, a) == [attempts[q] EXCEPT ![a].status = "RUNNING"]

StartEffect(q, a) ==
  /\ attempts' = [attempts EXCEPT ![q] = Run(q, a)]
  /\ UNCHANGED <<batches, releases>>

-----------------------------------------------------------------------------
(* The checkpoint chain of a replay. *)

Predecessor(chain, n) == IF n = 1 THEN NoLineage ELSE chain[n - 1]

(* register_phase1a_outcome_checkpoint: a registered sequence number is    *)
(* confirmed when nothing differs, otherwise it must extend the latest.    *)
RegisterGranted(q, a, n, content, predecessor) ==
  /\ HasAttempt(q, a)
  /\ attempts[q][a].status = "RUNNING"
  /\ LET chain == attempts[q][a].chain
     IN  /\ n \in 1..(Len(chain) + 1)
         /\ predecessor = Predecessor(chain, n)
         /\ n \in DOMAIN chain => chain[n] = content

Extend(q, a, content) == [attempts[q] EXCEPT ![a].chain = Append(@, content)]

RegisterEffect(q, a, n, content) ==
  /\ attempts' = IF n \in DOMAIN attempts[q][a].chain THEN attempts
                 ELSE [attempts EXCEPT ![q] = Extend(q, a, content)]
  /\ UNCHANGED <<batches, releases>>

(* load_latest_phase1a_outcome_checkpoint reads the whole chain.           *)
LoadGranted(q, a) == HasAttempt(q, a) /\ attempts[q][a].status \in Live

(* _validate_final_checkpoint: the result names the last checkpoint of the *)
(* chain and the chain covers every planned source date.                   *)
FinalCheckpoint(q, a, content) ==
  LET chain == attempts[q][a].chain
  IN  Len(chain) = SourceDates /\ chain[Len(chain)] = content

-----------------------------------------------------------------------------
(* Terminal transitions of a query that is released alone. *)

(* complete_phase1a_outcome_replay: a success is confirmed when it is the  *)
(* same result.                                                            *)
CompleteGranted(q, a, content, result) ==
  /\ q \notin Pair
  /\ HasAttempt(q, a)
  /\ FinalCheckpoint(q, a, content)
  /\ \/ attempts[q][a].status = "RUNNING"
     \/ attempts[q][a].status = "SUCCEEDED" /\ attempts[q][a].result = result

Succeed(q, a, result) ==
  [attempts[q] EXCEPT ![a].status = "SUCCEEDED", ![a].result = result]

CompleteEffect(q, a, result) ==
  /\ attempts' = [attempts EXCEPT ![q] = Succeed(q, a, result)]
  /\ UNCHANGED <<batches, releases>>

FailableBy(q, a, message, from) ==
  \/ attempts[q][a].status \in from
  \/ attempts[q][a].status = "FAILED" /\ attempts[q][a].error = message

(* fail_phase1a_outcome_replay.                                            *)
FailGranted(q, a, message) ==
  q \notin Pair /\ HasAttempt(q, a) /\ FailableBy(q, a, message, Live)

Bug_FailRowWithoutError(q, a, message) == [attempts[q] EXCEPT ![a].status = "FAILED"]
FailRow(q, a, message) ==
  [attempts[q] EXCEPT ![a].status = "FAILED", ![a].error = message]

FailEffect(q, a, message) ==
  /\ attempts' = [attempts EXCEPT ![q] = FailRow(q, a, message)]
  /\ UNCHANGED <<batches, releases>>

Bug_FailUnpairedInBatch(q, a, message) ==
  q \in Pair /\ HasAttempt(q, a) /\ FailableBy(q, a, message, {"QUEUED"})

(* fail_unpaired_phase1a_p4_outcome_replay: a queued P4 attempt that never *)
(* belonged to a batch.                                                    *)
FailUnpairedGranted(q, a, message) ==
  /\ q \in Pair
  /\ HasAttempt(q, a)
  /\ \A b \in DOMAIN batches : batches[b].members[q] # a
  /\ FailableBy(q, a, message, {"QUEUED"})

-----------------------------------------------------------------------------
(* The pair. *)

MembersExist(members) == \A q \in Pair : HasAttempt(q, members[q])
MembersIn(members, S) == \A q \in Pair : attempts[q][members[q]].status \in S
InBatchStatus(S) == {b \in DOMAIN batches : batches[b].status \in S}

(* reserve_phase1a_p4_outcome_pair: the released or prepared batch of      *)
(* exactly these members is returned, otherwise both must be QUEUED.       *)
PairReleased(members) ==
  \E b \in InBatchStatus({"RELEASED"}) :
    batches[b].members = members /\ MembersIn(members, {"SUCCEEDED"})

PairResumed(members) ==
  /\ InBatchStatus({"RELEASED"}) = {}
  /\ \E b \in InBatchStatus({"PREPARED"}) : batches[b].members = members
  /\ MembersIn(members, Live)

PairIsNew(members) ==
  /\ InBatchStatus({"RELEASED", "PREPARED"}) = {}
  /\ MembersIn(members, {"QUEUED"})

ReservePairGranted(members) ==
  /\ MembersExist(members)
  /\ PairReleased(members) \/ PairResumed(members) \/ PairIsNew(members)

ReservePairEffect(members) ==
  /\ batches' = IF PairIsNew(members)
                THEN Append(batches, [members |-> members, status |-> "PREPARED",
                                      error |-> NoError])
                ELSE batches
  /\ UNCHANGED <<attempts, releases>>

(* The batch the answer names.                                             *)
ReservedBatch(members, b) ==
  \/ PairIsNew(members) /\ b = Len(batches) + 1
  \/ ~PairIsNew(members) /\ b \in InBatchStatus({"RELEASED", "PREPARED"})

(* complete_phase1a_p4_outcome_pair: both successes, the release and the   *)
(* batch in one transaction.                                               *)
CompletePairGranted(b, members, contents, results) ==
  /\ b \in DOMAIN batches
  /\ batches[b].members = members
  /\ MembersExist(members)
  /\ \A q \in Pair : FinalCheckpoint(q, members[q], contents[q])
  /\ \/ batches[b].status = "PREPARED" /\ MembersIn(members, {"RUNNING"})
     \/ /\ batches[b].status = "RELEASED"
        /\ MembersIn(members, {"SUCCEEDED"})
        /\ \E r \in releases : r.batch = b /\ r.results = results

CompletePairEffect(b, members, results) ==
  /\ attempts' = [q \in Queries |-> IF q \in Pair
                                    THEN Succeed(q, members[q], results[q])
                                    ELSE attempts[q]]
  /\ batches' = [batches EXCEPT ![b].status = "RELEASED"]
  /\ releases' = releases \cup {[batch |-> b, members |-> members, results |-> results]}

Bug_FailPairUnchecked(b, message) ==
  b \in DOMAIN batches /\ MembersExist(batches[b].members)

(* fail_phase1a_p4_outcome_pair: both failures and the batch in one        *)
(* transaction.                                                            *)
FailPairGranted(b, message) ==
  /\ b \in DOMAIN batches
  /\ MembersExist(batches[b].members)
  /\ \/ /\ batches[b].status = "PREPARED"
        /\ MembersIn(batches[b].members, Live)
     \/ /\ batches[b].status = "FAILED"
        /\ \A q \in Pair : LET row == attempts[q][batches[b].members[q]]
                           IN  row.status = "FAILED" /\ row.error = message

FailPairEffect(b, message) ==
  /\ attempts' = [q \in Queries |-> IF q \in Pair
                                    THEN FailRow(q, batches[b].members[q], message)
                                    ELSE attempts[q]]
  /\ batches' = [batches EXCEPT ![b].status = "FAILED", ![b].error = message]
  /\ UNCHANGED releases

(* load_phase1a_p4_outcome_pair_release finds the exact release.           *)
ReleaseOf(members) == {r \in releases : r.members = members}

-----------------------------------------------------------------------------
(* Any caller may call any operation with any arguments. *)

Reserve(q) == ReserveGranted(q) /\ ReserveEffect(q)
Start(q, a) == StartGranted(q, a) /\ StartEffect(q, a)
RegisterCheckpoint(q, a, n, content, predecessor) ==
  RegisterGranted(q, a, n, content, predecessor) /\ RegisterEffect(q, a, n, content)
Complete(q, a, content, result) ==
  CompleteGranted(q, a, content, result) /\ CompleteEffect(q, a, result)
Fail(q, a, message) == FailGranted(q, a, message) /\ FailEffect(q, a, message)
FailUnpaired(q, a, message) == FailUnpairedGranted(q, a, message) /\ FailEffect(q, a, message)
ReservePair(members) == ReservePairGranted(members) /\ ReservePairEffect(members)
CompletePair(b, members, contents, results) ==
  CompletePairGranted(b, members, contents, results) /\ CompletePairEffect(b, members, results)
FailPair(b, message) == FailPairGranted(b, message) /\ FailPairEffect(b, message)

RegistryNext ==
  \/ \E q \in Queries : Reserve(q)
  \/ \E q \in Queries : \E a \in DOMAIN attempts[q] :
       \/ Start(q, a)
       \/ \E n \in 1..SourceDates, content \in Lineages,
             predecessor \in Lineages \cup {NoLineage} :
            RegisterCheckpoint(q, a, n, content, predecessor)
       \/ \E content, result \in Lineages : Complete(q, a, content, result)
       \/ \E message \in Messages : Fail(q, a, message) \/ FailUnpaired(q, a, message)
  \/ /\ Pair # {}
     /\ \/ \E members \in [Pair -> 1..MaxAttempts] :
             \/ ReservePair(members)
             \/ \E b \in DOMAIN batches, contents, results \in [Pair -> Lineages] :
                  CompletePair(b, members, contents, results)
        \/ \E b \in DOMAIN batches, message \in Messages : FailPair(b, message)

RegistrySpec == RegistryInit /\ [][RegistryNext]_registryVars

-----------------------------------------------------------------------------
(* A run is executed by at most one attempt at a time, never again after a *)
(* success, and succeeds at most once (the reservation decides from rows   *)
(* it locks; completion and failure come from other transactions).         *)
OneExecution ==
  \A q \in Queries : \A a, c \in InStatus(q, Live \cup {"SUCCEEDED"}) : a = c

(* Both members of a pair batch are live, failed or released together, and *)
(* a release exists for exactly the released batch with the members'       *)
(* results: no economics of one P4 candidate is ever visible alone.        *)
BatchOutcome(b) ==
  /\ MembersExist(batches[b].members)
  /\ MembersIn(batches[b].members,
               CASE batches[b].status = "PREPARED" -> Live
                 [] batches[b].status = "RELEASED" -> {"SUCCEEDED"}
                 [] batches[b].status = "FAILED" -> {"FAILED"})

ReleaseIsExact(r) ==
  /\ r.batch \in DOMAIN batches
  /\ batches[r.batch].status = "RELEASED"
  /\ batches[r.batch].members = r.members
  /\ \A q \in Pair : attempts[q][r.members[q]].result = r.results[q]

PairTogether ==
  /\ \A b \in DOMAIN batches : BatchOutcome(b)
  /\ \A r \in releases : ReleaseIsExact(r)
  /\ \A b \in InBatchStatus({"RELEASED"}) : \E r \in releases : r.batch = b

(* A P4 attempt that runs or succeeded is bound to a batch, and no attempt *)
(* is bound to two: a failed batch's members are never prepared again.     *)
BoundOnce ==
  \A q \in Pair : \A a \in DOMAIN attempts[q] :
    LET binding == {b \in DOMAIN batches : batches[b].members[q] = a}
    IN  /\ \A b, c \in binding : b = c
        /\ attempts[q][a].status \in {"RUNNING", "SUCCEEDED"} => binding # {}

(* At most one batch is prepared or released, ever after a release.        *)
OneOpenBatch ==
  \A b, c \in InBatchStatus({"PREPARED", "RELEASED"}) : b = c

(* What the replays, the pair batches and the release say of one another.  *)
RegistryAgrees == OneExecution /\ PairTogether /\ BoundOnce /\ OneOpenBatch

-----------------------------------------------------------------------------
(* The registry implements its contract. *)

Units == {{q} : q \in Queries \ Pair} \cup (IF Pair = {} THEN {} ELSE {Pair})

PublishedAt(q) == InStatus(q, {"SUCCEEDED"})
Stage(u) ==
  IF \E q \in u : PublishedAt(q) # {} THEN "published"
  ELSE IF IF u = Pair THEN InBatchStatus({"PREPARED"}) # {}
                      ELSE \E q \in u : InStatus(q, Live) # {}
       THEN "open" ELSE "closed"
Value(q) == IF PublishedAt(q) = {} THEN NoLineage
            ELSE attempts[q][CHOOSE a \in PublishedAt(q) : TRUE].result

Contract == INSTANCE OutcomeContract
              WITH Results <- Lineages, NoResult <- NoLineage,
                   stage <- [u \in Units |-> Stage(u)],
                   value <- [q \in UNION Units |-> Value(q)]

(* The results a reader sees appear once, completely, and stay: the        *)
(* reservation, failure and completion transactions of any callers         *)
(* implement the contract.                                                 *)
KeepsContract == Contract!Spec
=============================================================================
