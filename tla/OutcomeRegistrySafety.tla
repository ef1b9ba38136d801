------------------------ MODULE OutcomeRegistrySafety ------------------------
(***************************************************************************)
(* Proofs that the outcome registry keeps its tables consistent and        *)
(* implements its contract, for any queries, any pair among them, any      *)
(* contents and any number of dates.                                       *)
(***************************************************************************)
EXTENDS OutcomeRegistry, TLAPS

(* The inductive invariant is the conjunction of the checked invariants:   *)
(* PairTogether carries the steps of a single query past the batches, and  *)
(* OneOpenBatch carries the steps of a batch past the other batches.       *)
RegistryInv ==
  /\ RegistryTypeOK
  /\ OneExecution
  /\ PairTogether
  /\ BoundOnce
  /\ OneOpenBatch

-----------------------------------------------------------------------------
(* What the effects do to a single row.                                    *)

WithStatus(row, status) ==
  [status |-> status, error |-> row.error, chain |-> row.chain, result |-> row.result]
Failed(row, message) ==
  [status |-> "FAILED", error |-> message, chain |-> row.chain, result |-> row.result]
Succeeded(row, result) ==
  [status |-> "SUCCEEDED", error |-> row.error, chain |-> row.chain, result |-> result]
Longer(row, content) ==
  [status |-> row.status, error |-> row.error, chain |-> Append(row.chain, content),
   result |-> row.result]

(* Every row of the tables is an attempt with the columns its status asks  *)
(* for, every batch has its members and one of three statuses.             *)
LEMMA RowShape ==
  ASSUME RegistryTypeOK, NEW q \in Queries, NEW a \in DOMAIN attempts[q]
  PROVE  /\ attempts[q] \in Seq(Attempt)
         /\ attempts[q][a] \in Attempt
         /\ Shaped(attempts[q][a])
         /\ a \in Nat \ {0}
BY DEF RegistryTypeOK

LEMMA BatchShape ==
  ASSUME RegistryTypeOK, NEW b \in DOMAIN batches
  PROVE  /\ batches \in Seq(Batch)
         /\ batches[b] \in Batch
         /\ b \in Nat \ {0}
<1>1. batches \in Seq(Batch)
  BY DEF RegistryTypeOK
<1>2. QED
  BY <1>1

(* The successors of a row are attempts again.                             *)
LEMMA RowSuccessors ==
  ASSUME NEW row \in Attempt, Shaped(row)
  PROVE  /\ row.status = "QUEUED" =>
              WithStatus(row, "RUNNING") \in Attempt /\ Shaped(WithStatus(row, "RUNNING"))
         /\ row.status = "RUNNING" => WithStatus(row, "RUNNING") = row
         /\ \A message \in Messages : row.status \in Live \cup {"FAILED"} =>
              Failed(row, message) \in Attempt /\ Shaped(Failed(row, message))
         /\ \A result \in Lineages : row.status \in {"RUNNING", "SUCCEEDED"} =>
              Succeeded(row, result) \in Attempt /\ Shaped(Succeeded(row, result))
         /\ \A content \in Lineages : Len(row.chain) < SourceDates =>
              Longer(row, content) \in Attempt /\ Shaped(Longer(row, content))
<1> USE DEF Attempt, AttemptStatus, Live, Shaped
<1>1. row.status = "QUEUED" =>
        WithStatus(row, "RUNNING") \in Attempt /\ Shaped(WithStatus(row, "RUNNING"))
  BY DEF WithStatus
<1>2. row.status = "RUNNING" => WithStatus(row, "RUNNING") = row
  BY DEF WithStatus
<1>3. ASSUME NEW message \in Messages, row.status \in Live \cup {"FAILED"}
      PROVE  Failed(row, message) \in Attempt /\ Shaped(Failed(row, message))
  BY <1>3, NoErrorIsApart DEF Failed
<1>4. ASSUME NEW result \in Lineages, row.status \in {"RUNNING", "SUCCEEDED"}
      PROVE  Succeeded(row, result) \in Attempt /\ Shaped(Succeeded(row, result))
  BY <1>4, NoLineageIsApart DEF Succeeded
<1>5. ASSUME NEW content \in Lineages, Len(row.chain) < SourceDates
      PROVE  Longer(row, content) \in Attempt /\ Shaped(Longer(row, content))
  <2>1. /\ Append(row.chain, content) \in Seq(Lineages)
        /\ Len(Append(row.chain, content)) = Len(row.chain) + 1
    OBVIOUS
  <2>2. Len(row.chain) + 1 <= SourceDates
    BY <1>5, LimitsAreNumbers
  <2>3. QED
    BY <2>1, <2>2 DEF Longer
<1>6. QED
  BY <1>1, <1>2, <1>3, <1>4, <1>5

(* The update operators of the registry, row by row.                       *)
LEMMA RowUpdates ==
  ASSUME RegistryTypeOK, NEW q \in Queries, NEW a \in DOMAIN attempts[q]
  PROVE  /\ Run(q, a) = [attempts[q] EXCEPT ![a] = WithStatus(attempts[q][a], "RUNNING")]
         /\ \A message : FailRow(q, a, message) =
              [attempts[q] EXCEPT ![a] = Failed(attempts[q][a], message)]
         /\ \A result : Succeed(q, a, result) =
              [attempts[q] EXCEPT ![a] = Succeeded(attempts[q][a], result)]
         /\ \A content : Extend(q, a, content) =
              [attempts[q] EXCEPT ![a] = Longer(attempts[q][a], content)]
<1>1. attempts[q][a] \in Attempt /\ attempts[q] \in Seq(Attempt)
  BY RowShape
<1>2. Run(q, a) = [attempts[q] EXCEPT ![a] = WithStatus(attempts[q][a], "RUNNING")]
  <2>1. [attempts[q][a] EXCEPT !.status = "RUNNING"] = WithStatus(attempts[q][a], "RUNNING")
    BY <1>1 DEF WithStatus, Attempt
  <2>2. QED
    BY <2>1, Zenon DEF Run
<1>3. ASSUME NEW message
      PROVE  FailRow(q, a, message) = [attempts[q] EXCEPT ![a] = Failed(attempts[q][a], message)]
  BY <1>1 DEF FailRow, Failed, Attempt
<1>4. ASSUME NEW result
      PROVE  Succeed(q, a, result) = [attempts[q] EXCEPT ![a] = Succeeded(attempts[q][a], result)]
  <2>1. [attempts[q][a] EXCEPT !.status = "SUCCEEDED"] = WithStatus(attempts[q][a], "SUCCEEDED")
    BY <1>1 DEF WithStatus, Attempt
  <2>2. [attempts[q][a] EXCEPT !.status = "SUCCEEDED", !.result = result]
          = [WithStatus(attempts[q][a], "SUCCEEDED") EXCEPT !.result = result]
    BY <2>1
  <2>3. [WithStatus(attempts[q][a], "SUCCEEDED") EXCEPT !.result = result]
          = Succeeded(attempts[q][a], result)
    BY DEF Succeeded, WithStatus
  <2>4. [attempts[q][a] EXCEPT !.status = "SUCCEEDED", !.result = result]
          = Succeeded(attempts[q][a], result)
    BY <2>2, <2>3
  <2>5. QED
    BY <2>4 DEF Succeed
<1>5. ASSUME NEW content
      PROVE  Extend(q, a, content) = [attempts[q] EXCEPT ![a] = Longer(attempts[q][a], content)]
  <2>1. \A chain : [attempts[q][a] EXCEPT !.chain = chain]
          = [status |-> attempts[q][a].status, error |-> attempts[q][a].error,
             chain |-> chain, result |-> attempts[q][a].result]
    BY <1>1 DEF Attempt
  <2>2. [attempts[q][a] EXCEPT !.chain = Append(@, content)] = Longer(attempts[q][a], content)
    BY <2>1 DEF Longer
  <2>3. QED
    BY <2>2, Zenon DEF Extend
<1>6. QED
  BY <1>2, <1>3, <1>4, <1>5

-----------------------------------------------------------------------------
(* Steps that change one row, and what keeps the invariant across them.    *)

ReplacesRow(q, a, row) ==
  /\ row \in Attempt
  /\ Shaped(row)
  /\ attempts' = [attempts EXCEPT ![q] = [attempts[q] EXCEPT ![a] = row]]
  /\ UNCHANGED <<batches, releases>>

RowBecomes(q, a, row) ==
  /\ attempts' \in [Queries -> Seq(Attempt)]
  /\ \A p \in Queries : DOMAIN attempts'[p] = DOMAIN attempts[p]
  /\ attempts'[q][a] = row
  /\ \A p \in Queries : \A c \in DOMAIN attempts[p] :
       p # q \/ c # a => attempts'[p][c] = attempts[p][c]
  /\ UNCHANGED <<batches, releases>>

(* A row replaced by a well shaped one leaves the tables well typed.       *)
LEMMA RowReplaced ==
  ASSUME RegistryTypeOK, NEW q \in Queries, NEW a \in DOMAIN attempts[q],
         NEW row, ReplacesRow(q, a, row)
  PROVE  RowBecomes(q, a, row) /\ RegistryTypeOK'
<1> USE DEF ReplacesRow
<1>1. attempts \in [Queries -> Seq(Attempt)]
  BY DEF RegistryTypeOK
<1>2. RowBecomes(q, a, row)
  BY <1>1 DEF RowBecomes
<1>3. \A p \in Queries : \A c \in DOMAIN attempts'[p] : Shaped(attempts'[p][c])
  BY <1>2 DEF RowBecomes, RegistryTypeOK
<1>4. QED
  BY <1>2, <1>3 DEF RowBecomes, RegistryTypeOK

(* A row that opens no execution keeps OneExecution.                       *)
LEMMA RowKeepsExecution ==
  ASSUME OneExecution, NEW q \in Queries, NEW a \in DOMAIN attempts[q], NEW row,
         RowBecomes(q, a, row),
         row.status \in Live \cup {"SUCCEEDED"} =>
           attempts[q][a].status \in Live \cup {"SUCCEEDED"}
  PROVE  OneExecution'
<1>1. \A p \in Queries : InStatus(p, Live \cup {"SUCCEEDED"})'
                            \subseteq InStatus(p, Live \cup {"SUCCEEDED"})
  BY DEF InStatus, RowBecomes, Live
<1>2. QED
  BY <1>1 DEF OneExecution

(* A row outside the pair, outside every batch, or live before and after   *)
(* leaves the batches and releases as consistent as they were.             *)
LEMMA RowKeepsPair ==
  ASSUME RegistryTypeOK, PairTogether, NEW q \in Queries, NEW a \in DOMAIN attempts[q],
         NEW row, RowBecomes(q, a, row),
         \/ q \notin Pair
         \/ \A b \in DOMAIN batches : batches[b].members[q] # a
         \/ attempts[q][a].status \in Live /\ row.status \in Live
  PROVE  PairTogether'
<1> USE PairIsAmongQueries
<1>1. ASSUME NEW b \in DOMAIN batches
      PROVE  BatchOutcome(b)'
  <2>1. BatchOutcome(b)
    BY DEF PairTogether
  <2>2. MembersExist(batches[b].members)'
    BY <2>1 DEF BatchOutcome, MembersExist, HasAttempt, RowBecomes
  <2>3. MembersIn(batches[b].members,
               CASE batches[b].status = "PREPARED" -> Live
                 [] batches[b].status = "RELEASED" -> {"SUCCEEDED"}
                 [] batches[b].status = "FAILED" -> {"FAILED"})'
    <3>1. batches[b].status \in {"PREPARED", "RELEASED", "FAILED"}
      BY BatchShape DEF Batch
    <3>2. CASE batches[b].status = "PREPARED"
      BY <2>1, <3>2 DEF BatchOutcome, MembersExist, MembersIn, HasAttempt, RowBecomes
    <3>3. CASE batches[b].status = "RELEASED"
      BY <2>1, <3>3 DEF BatchOutcome, MembersExist, MembersIn, HasAttempt, RowBecomes, Live
    <3>4. CASE batches[b].status = "FAILED"
      BY <2>1, <3>4 DEF BatchOutcome, MembersExist, MembersIn, HasAttempt, RowBecomes, Live
    <3>5. QED
      BY <3>1, <3>2, <3>3, <3>4
  <2>4. QED
    BY <2>2, <2>3 DEF BatchOutcome
<1>2. ASSUME NEW r \in releases
      PROVE  ReleaseIsExact(r)'
  <2>1. /\ ReleaseIsExact(r)
        /\ r.batch \in DOMAIN batches
        /\ BatchOutcome(r.batch)
    BY DEF PairTogether, ReleaseIsExact
  <2>2. \A p \in Pair : attempts[p][r.members[p]].status = "SUCCEEDED"
    BY <2>1 DEF ReleaseIsExact, BatchOutcome, MembersIn
  <2>3. \A p \in Pair : attempts'[p][r.members[p]] = attempts[p][r.members[p]]
    BY <2>1, <2>2 DEF ReleaseIsExact, BatchOutcome, MembersExist, HasAttempt, RowBecomes, Live
  <2>4. QED
    BY <2>1, <2>3 DEF ReleaseIsExact, RowBecomes
<1>3. QED
  BY <1>1, <1>2 DEF PairTogether, InBatchStatus, RowBecomes

(* A row that starts to run without a batch would break BoundOnce.         *)
LEMMA RowKeepsBinding ==
  ASSUME BoundOnce, NEW q \in Queries, NEW a \in DOMAIN attempts[q],
         NEW row, RowBecomes(q, a, row),
         \/ q \notin Pair
         \/ \E b \in DOMAIN batches : batches[b].members[q] = a
         \/ row.status \notin {"RUNNING", "SUCCEEDED"}
  PROVE  BoundOnce'
<1> DEFINE Binding(p, c) == {b \in DOMAIN batches : batches[b].members[p] = c}
<1>1. SUFFICES ASSUME NEW p \in Pair, NEW c \in DOMAIN attempts[p]
               PROVE  /\ \A b, e \in Binding(p, c) : b = e
                      /\ attempts'[p][c].status \in {"RUNNING", "SUCCEEDED"} => Binding(p, c) # {}
  BY PairIsAmongQueries DEF BoundOnce, RowBecomes
<1>2. /\ \A b, e \in Binding(p, c) : b = e
      /\ attempts[p][c].status \in {"RUNNING", "SUCCEEDED"} => Binding(p, c) # {}
  BY DEF BoundOnce
<1>3. CASE p # q \/ c # a
  BY <1>2, <1>3, PairIsAmongQueries DEF RowBecomes
<1>4. CASE p = q /\ c = a
  BY <1>2, <1>4 DEF RowBecomes
<1>5. QED
  BY <1>3, <1>4

(* The batches are those of before, so at most one of them is open.        *)
LEMMA SameOpenBatch ==
  ASSUME OneOpenBatch, UNCHANGED batches
  PROVE  OneOpenBatch'
BY DEF OneOpenBatch, InBatchStatus

(* A step that changes no table.                                           *)
LEMMA StutterKeeps ==
  ASSUME RegistryInv, UNCHANGED registryVars
  PROVE  RegistryInv'
<1> USE DEF registryVars
<1>1. RegistryTypeOK'
  BY DEF RegistryInv, RegistryTypeOK, Shaped
<1>2. OneExecution'
  BY DEF RegistryInv, OneExecution, InStatus
<1>3. PairTogether'
  <2>1. PairTogether
    BY DEF RegistryInv
  <2>2. (\A b \in DOMAIN batches : BatchOutcome(b))'
    BY <2>1 DEF PairTogether, BatchOutcome, MembersExist, MembersIn, HasAttempt
  <2>3. (\A r \in releases : ReleaseIsExact(r))'
    BY <2>1 DEF PairTogether, ReleaseIsExact
  <2>4. QED
    BY <2>1, <2>2, <2>3 DEF PairTogether, InBatchStatus
<1>4. BoundOnce'
  BY DEF RegistryInv, BoundOnce
<1>5. OneOpenBatch'
  BY SameOpenBatch DEF RegistryInv
<1>6. QED
  BY <1>1, <1>2, <1>3, <1>4, <1>5 DEF RegistryInv

(* The five facts together.                                                *)
LEMMA RowKeepsInv ==
  ASSUME RegistryInv, NEW q \in Queries, NEW a \in DOMAIN attempts[q],
         NEW row, ReplacesRow(q, a, row),
         row.status \in Live \cup {"SUCCEEDED"} =>
           attempts[q][a].status \in Live \cup {"SUCCEEDED"},
         \/ q \notin Pair
         \/ \A b \in DOMAIN batches : batches[b].members[q] # a
         \/ attempts[q][a].status \in Live /\ row.status \in Live,
         \/ q \notin Pair
         \/ \E b \in DOMAIN batches : batches[b].members[q] = a
         \/ row.status \notin {"RUNNING", "SUCCEEDED"}
  PROVE  RegistryInv'
<1>1. RowBecomes(q, a, row) /\ RegistryTypeOK'
  BY RowReplaced DEF RegistryInv
<1>2. OneExecution'
  BY <1>1, RowKeepsExecution DEF RegistryInv
<1>3. PairTogether'
  BY <1>1, RowKeepsPair DEF RegistryInv
<1>4. BoundOnce'
  BY <1>1, RowKeepsBinding DEF RegistryInv
<1>5. OneOpenBatch'
  BY SameOpenBatch DEF RegistryInv, ReplacesRow
<1>6. QED
  BY <1>1, <1>2, <1>3, <1>4, <1>5 DEF RegistryInv

(* start_phase1a_outcome_replay.                                           *)
LEMMA StartRow ==
  ASSUME RegistryInv, NEW q \in Queries, NEW a \in DOMAIN attempts[q], Start(q, a)
  PROVE  /\ attempts[q][a].status \in Live
         /\ WithStatus(attempts[q][a], "RUNNING").status = "RUNNING"
         /\ ReplacesRow(q, a, WithStatus(attempts[q][a], "RUNNING"))
<1>1. RegistryTypeOK
  BY DEF RegistryInv
<1>2. /\ attempts[q][a] \in Attempt
      /\ Shaped(attempts[q][a])
  BY <1>1, RowShape
<1>3. attempts[q][a].status \in Live
  BY DEF Start, StartGranted
<1>4. /\ WithStatus(attempts[q][a], "RUNNING") \in Attempt
      /\ Shaped(WithStatus(attempts[q][a], "RUNNING"))
  BY <1>2, <1>3, RowSuccessors DEF Live
<1>5. /\ attempts' = [attempts EXCEPT ![q] =
                       [attempts[q] EXCEPT ![a] = WithStatus(attempts[q][a], "RUNNING")]]
      /\ UNCHANGED <<batches, releases>>
  BY <1>1, RowUpdates DEF Start, StartEffect
<1>6. WithStatus(attempts[q][a], "RUNNING").status = "RUNNING"
  BY DEF WithStatus
<1>7. QED
  BY <1>3, <1>4, <1>5, <1>6 DEF ReplacesRow

LEMMA StartKeeps ==
  ASSUME RegistryInv, NEW q \in Queries, NEW a \in DOMAIN attempts[q], Start(q, a)
  PROVE  RegistryInv'
<1>1. q \notin Pair \/ \E b \in DOMAIN batches : batches[b].members[q] = a
  BY DEF Start, StartGranted
<1>2. QED
  BY <1>1, StartRow, RowKeepsInv DEF Live

(* register_phase1a_outcome_checkpoint.                                    *)
LEMMA RegisterRow ==
  ASSUME RegistryInv, NEW q \in Queries, NEW a \in DOMAIN attempts[q],
         NEW n \in 1..SourceDates, NEW content \in Lineages,
         NEW predecessor \in Lineages \cup {NoLineage},
         RegisterCheckpoint(q, a, n, content, predecessor)
  PROVE  \/ UNCHANGED registryVars
         \/ /\ attempts[q][a].status = "RUNNING"
            /\ Longer(attempts[q][a], content).status = "RUNNING"
            /\ ReplacesRow(q, a, Longer(attempts[q][a], content))
<1>1. RegistryTypeOK
  BY DEF RegistryInv
<1>2. /\ attempts[q][a] \in Attempt
      /\ Shaped(attempts[q][a])
  BY <1>1, RowShape
<1>3. /\ attempts[q][a].status = "RUNNING"
      /\ n \in 1..(Len(attempts[q][a].chain) + 1)
      /\ UNCHANGED <<batches, releases>>
  BY DEF RegisterCheckpoint, RegisterGranted, RegisterEffect
<1>4. CASE n \in DOMAIN attempts[q][a].chain
  BY <1>4 DEF RegisterCheckpoint, RegisterEffect, registryVars
<1>5. CASE n \notin DOMAIN attempts[q][a].chain
  <2>1. attempts[q][a].chain \in Seq(Lineages)
    BY <1>2 DEF Attempt
  <2>2. Len(attempts[q][a].chain) < SourceDates
    BY <1>3, <1>5, <2>1, LimitsAreNumbers
  <2>3. /\ Longer(attempts[q][a], content) \in Attempt
        /\ Shaped(Longer(attempts[q][a], content))
    BY <1>2, <2>2, RowSuccessors
  <2>4. attempts' = [attempts EXCEPT ![q] =
                      [attempts[q] EXCEPT ![a] = Longer(attempts[q][a], content)]]
    <3>1. Extend(q, a, content) = [attempts[q] EXCEPT ![a] = Longer(attempts[q][a], content)]
      BY <1>1, RowUpdates
    <3>2. QED
      BY <1>5, <3>1 DEF RegisterCheckpoint, RegisterEffect
  <2>5. Longer(attempts[q][a], content).status = "RUNNING"
    BY <1>3 DEF Longer
  <2>6. QED
    BY <1>3, <2>3, <2>4, <2>5 DEF ReplacesRow
<1>6. QED
  BY <1>4, <1>5

LEMMA RegisterKeeps ==
  ASSUME RegistryInv, NEW q \in Queries, NEW a \in DOMAIN attempts[q],
         NEW n \in 1..SourceDates, NEW content \in Lineages,
         NEW predecessor \in Lineages \cup {NoLineage},
         RegisterCheckpoint(q, a, n, content, predecessor)
  PROVE  RegistryInv'
<1>1. CASE UNCHANGED registryVars
  BY <1>1, StutterKeeps
<1>2. CASE /\ attempts[q][a].status = "RUNNING"
           /\ Longer(attempts[q][a], content).status = "RUNNING"
           /\ ReplacesRow(q, a, Longer(attempts[q][a], content))
  <2>1. q \in Pair => \E b \in DOMAIN batches : batches[b].members[q] = a
    BY <1>2 DEF RegistryInv, BoundOnce
  <2>2. QED
    BY <1>2, <2>1, RowKeepsInv DEF Live
<1>3. QED
  BY <1>1, <1>2, RegisterRow

(* complete_phase1a_outcome_replay.                                        *)
LEMMA CompleteRow ==
  ASSUME RegistryInv, NEW q \in Queries, NEW a \in DOMAIN attempts[q],
         NEW content \in Lineages, NEW result \in Lineages,
         Complete(q, a, content, result)
  PROVE  /\ q \notin Pair
         /\ \/ attempts[q][a].status = "RUNNING"
            \/ attempts[q][a].status = "SUCCEEDED" /\ attempts[q][a].result = result
         /\ Succeeded(attempts[q][a], result).status = "SUCCEEDED"
         /\ Succeeded(attempts[q][a], result).result = result
         /\ ReplacesRow(q, a, Succeeded(attempts[q][a], result))
<1>1. RegistryTypeOK
  BY DEF RegistryInv
<1>2. /\ attempts[q][a] \in Attempt
      /\ Shaped(attempts[q][a])
  BY <1>1, RowShape
<1>3. /\ q \notin Pair
      /\ \/ attempts[q][a].status = "RUNNING"
         \/ attempts[q][a].status = "SUCCEEDED" /\ attempts[q][a].result = result
  BY DEF Complete, CompleteGranted
<1>4. /\ Succeeded(attempts[q][a], result) \in Attempt
      /\ Shaped(Succeeded(attempts[q][a], result))
  BY <1>2, <1>3, RowSuccessors
<1>5. /\ attempts' = [attempts EXCEPT ![q] =
                       [attempts[q] EXCEPT ![a] = Succeeded(attempts[q][a], result)]]
      /\ UNCHANGED <<batches, releases>>
  <2>1. Succeed(q, a, result) = [attempts[q] EXCEPT ![a] = Succeeded(attempts[q][a], result)]
    BY <1>1, RowUpdates
  <2>2. QED
    BY <2>1 DEF Complete, CompleteEffect
<1>6. /\ Succeeded(attempts[q][a], result).status = "SUCCEEDED"
      /\ Succeeded(attempts[q][a], result).result = result
  BY DEF Succeeded
<1>7. QED
  BY <1>3, <1>4, <1>5, <1>6 DEF ReplacesRow

LEMMA CompleteKeeps ==
  ASSUME RegistryInv, NEW q \in Queries, NEW a \in DOMAIN attempts[q],
         NEW content \in Lineages, NEW result \in Lineages,
         Complete(q, a, content, result)
  PROVE  RegistryInv'
BY CompleteRow, RowKeepsInv DEF Live

(* fail_phase1a_outcome_replay, and the failure of an unpaired P4 member.  *)
LEMMA FailedRow ==
  ASSUME RegistryInv, NEW q \in Queries, NEW a \in DOMAIN attempts[q],
         NEW message \in Messages, Fail(q, a, message) \/ FailUnpaired(q, a, message)
  PROVE  /\ attempts[q][a].status \in Live \cup {"FAILED"}
         /\ q \notin Pair \/ \A b \in DOMAIN batches : batches[b].members[q] # a
         /\ Failed(attempts[q][a], message).status = "FAILED"
         /\ ReplacesRow(q, a, Failed(attempts[q][a], message))
<1>1. RegistryTypeOK
  BY DEF RegistryInv
<1>2. /\ attempts[q][a] \in Attempt
      /\ Shaped(attempts[q][a])
  BY <1>1, RowShape
<1>3. /\ attempts[q][a].status \in Live \cup {"FAILED"}
      /\ q \notin Pair \/ \A b \in DOMAIN batches : batches[b].members[q] # a
  BY DEF Fail, FailUnpaired, FailGranted, FailUnpairedGranted, FailableBy, Live
<1>4. /\ Failed(attempts[q][a], message) \in Attempt
      /\ Shaped(Failed(attempts[q][a], message))
  BY <1>2, <1>3, RowSuccessors
<1>5. /\ attempts' = [attempts EXCEPT ![q] =
                       [attempts[q] EXCEPT ![a] = Failed(attempts[q][a], message)]]
      /\ UNCHANGED <<batches, releases>>
  BY <1>1, RowUpdates DEF Fail, FailUnpaired, FailEffect
<1>6. Failed(attempts[q][a], message).status = "FAILED"
  BY DEF Failed
<1>7. QED
  BY <1>3, <1>4, <1>5, <1>6 DEF ReplacesRow

LEMMA FailKeeps ==
  ASSUME RegistryInv, NEW q \in Queries, NEW a \in DOMAIN attempts[q],
         NEW message \in Messages, Fail(q, a, message) \/ FailUnpaired(q, a, message)
  PROVE  RegistryInv'
BY FailedRow, RowKeepsInv DEF Live

-----------------------------------------------------------------------------
(* Reservations add rows and batches.                                      *)

(* Every batch names rows that exist, so a row yet to come is in none.     *)
LEMMA BoundRowsExist ==
  ASSUME RegistryInv, NEW b \in DOMAIN batches, NEW q \in Pair
  PROVE  batches[b].members[q] \in DOMAIN attempts[q]
BY DEF RegistryInv, PairTogether, BatchOutcome, MembersExist, HasAttempt

(* A new row that is queued after no live or successful one, or skipped.   *)
LEMMA RowAppended ==
  ASSUME RegistryInv, NEW q \in Queries, NEW status \in {"QUEUED", "SKIPPED_DUPLICATE"},
         status = "QUEUED" => InStatus(q, {"SUCCEEDED"} \cup Live) = {},
         attempts' = [attempts EXCEPT ![q] = Append(@, Row(status))],
         UNCHANGED <<batches, releases>>
  PROVE  RegistryInv'
<1> DEFINE new == Len(attempts[q]) + 1
<1>1. attempts \in [Queries -> Seq(Attempt)]
  BY DEF RegistryInv, RegistryTypeOK
<1>2. Row(status) \in Attempt /\ Shaped(Row(status)) /\ Row(status).status = status
  <2>1. Row(status) = [status |-> status, error |-> NoError, chain |-> <<>>,
                       result |-> NoLineage]
    BY DEF Row
  <2>2. Len(<<>>) <= SourceDates
    BY LimitsAreNumbers
  <2>3. QED
    BY <2>1, <2>2 DEF Attempt, AttemptStatus, Live, Shaped
<1>3. /\ attempts' \in [Queries -> Seq(Attempt)]
      /\ attempts'[q] = Append(attempts[q], Row(status))
      /\ \A p \in Queries : p # q => attempts'[p] = attempts[p]
  BY <1>1, <1>2
<1>4. /\ DOMAIN attempts'[q] = DOMAIN attempts[q] \cup {new}
      /\ attempts'[q][new] = Row(status)
      /\ new \notin DOMAIN attempts[q]
      /\ \A c \in DOMAIN attempts[q] : attempts'[q][c] = attempts[q][c]
  <2>1. attempts[q] \in Seq(Attempt)
    BY <1>1
  <2>2. QED
    BY <1>2, <1>3, <2>1
<1> HIDE DEF new
<1>5. \A p \in Queries : /\ DOMAIN attempts[p] \subseteq DOMAIN attempts'[p]
                         /\ \A c \in DOMAIN attempts[p] : attempts'[p][c] = attempts[p][c]
                         /\ \A c \in DOMAIN attempts'[p] :
                              c \in DOMAIN attempts[p] \/ (p = q /\ c = new)
  <2>1. TAKE p \in Queries
  <2>2. CASE p = q
    BY <1>4, <2>2
  <2>3. CASE p # q
    <3>1. attempts'[p] = attempts[p]
      BY <1>3, <2>3
    <3>2. QED
      BY <3>1
  <2>4. QED
    BY <2>2, <2>3
<1>6. RegistryTypeOK'
  <2>1. \A p \in Queries : \A c \in DOMAIN attempts'[p] : Shaped(attempts'[p][c])
    BY <1>2, <1>4, <1>5 DEF RegistryInv, RegistryTypeOK
  <2>2. QED
    BY <1>3, <2>1 DEF RegistryInv, RegistryTypeOK
<1>7. OneExecution'
  <2>1. SUFFICES ASSUME NEW p \in Queries,
                        NEW a \in InStatus(p, Live \cup {"SUCCEEDED"})',
                        NEW c \in InStatus(p, Live \cup {"SUCCEEDED"})'
                 PROVE  a = c
    BY DEF OneExecution
  <2>2. \A e \in InStatus(p, Live \cup {"SUCCEEDED"})' :
          e \in InStatus(p, Live \cup {"SUCCEEDED"}) \/ (p = q /\ e = new /\ status = "QUEUED")
    <3>1. TAKE e \in InStatus(p, Live \cup {"SUCCEEDED"})'
    <3>2. /\ e \in DOMAIN attempts'[p]
          /\ attempts'[p][e].status \in Live \cup {"SUCCEEDED"}
      BY DEF InStatus, Live
    <3>3. CASE e \in DOMAIN attempts[p]
      <4>1. attempts'[p][e] = attempts[p][e]
        BY <1>5, <3>3
      <4>2. QED
        BY <3>2, <3>3, <4>1 DEF InStatus
    <3>4. CASE e \notin DOMAIN attempts[p]
      <4>1. p = q /\ e = new
        BY <1>5, <3>2, <3>4
      <4>2. attempts'[p][e].status = status
        BY <1>2, <1>4, <4>1
      <4>3. QED
        BY <3>2, <4>1, <4>2 DEF Live
    <3>5. QED
      BY <3>3, <3>4
  <2>3. status = "QUEUED" => InStatus(q, Live \cup {"SUCCEEDED"}) = {}
    BY DEF InStatus
  <2>4. QED
    BY <2>2, <2>3 DEF RegistryInv, OneExecution
<1>8. PairTogether'
  <2>1. PairTogether
    BY DEF RegistryInv
  <2>2. \A b \in DOMAIN batches : \A p \in Pair :
          /\ batches[b].members[p] \in DOMAIN attempts'[p]
          /\ attempts'[p][batches[b].members[p]] = attempts[p][batches[b].members[p]]
    <3>1. \A b \in DOMAIN batches : \A p \in Pair : batches[b].members[p] \in DOMAIN attempts[p]
      BY BoundRowsExist
    <3>2. QED
      BY <1>5, <3>1, PairIsAmongQueries
  <2>3. ASSUME NEW b \in DOMAIN batches
        PROVE  BatchOutcome(b)'
    <3>1. BatchOutcome(b)
      BY <2>1 DEF PairTogether
    <3>2. MembersExist(batches[b].members)'
      BY <2>2 DEF MembersExist, HasAttempt
    <3>3. \A S : MembersIn(batches[b].members, S) => MembersIn(batches[b].members, S)'
      BY <2>2 DEF MembersIn
    <3>4. QED
      BY <3>1, <3>2, <3>3 DEF BatchOutcome
  <2>4. (\A r \in releases : ReleaseIsExact(r))'
    BY <2>1, <2>2 DEF PairTogether, ReleaseIsExact
  <2>5. QED
    BY <2>1, <2>3, <2>4 DEF PairTogether, InBatchStatus
<1>9. BoundOnce'
  <2> DEFINE Binding(p, c) == {b \in DOMAIN batches : batches[b].members[p] = c}
  <2>1. SUFFICES ASSUME NEW p \in Pair, NEW c \in DOMAIN attempts'[p]
                 PROVE  /\ \A b, e \in Binding(p, c) : b = e
                        /\ attempts'[p][c].status \in {"RUNNING", "SUCCEEDED"}
                             => Binding(p, c) # {}
    BY DEF BoundOnce
  <2>2. CASE c \in DOMAIN attempts[p]
    BY <1>5, <2>2, PairIsAmongQueries DEF RegistryInv, BoundOnce
  <2>3. CASE c \notin DOMAIN attempts[p]
    <3>1. Binding(p, c) = {}
      BY <2>3, BoundRowsExist
    <3>2. attempts'[p][c].status \in {"QUEUED", "SKIPPED_DUPLICATE"}
      BY <1>2, <1>4, <1>5, <2>3, PairIsAmongQueries
    <3>3. QED
      BY <3>1, <3>2
  <2>4. QED
    BY <2>2, <2>3
<1>10. OneOpenBatch'
  BY SameOpenBatch DEF RegistryInv
<1>11. QED
  BY <1>6, <1>7, <1>8, <1>9, <1>10 DEF RegistryInv

(* reserve_phase1a_outcome_replay.                                         *)
LEMMA ReserveKeeps ==
  ASSUME RegistryInv, NEW q \in Queries, Reserve(q)
  PROVE  RegistryInv'
<1>1. UNCHANGED <<batches, releases>>
  BY DEF Reserve, ReserveEffect
<1>2. CASE attempts' = [attempts EXCEPT ![q] = Append(@, Row("SKIPPED_DUPLICATE"))]
  BY <1>1, <1>2, RowAppended
<1>3. CASE attempts' = attempts
  BY <1>1, <1>3, StutterKeeps DEF registryVars
<1>4. CASE /\ InStatus(q, {"SUCCEEDED"} \cup Live) = {}
           /\ attempts' = [attempts EXCEPT ![q] = Append(@, Row("QUEUED"))]
  BY <1>1, <1>4, RowAppended
<1>5. QED
  BY <1>2, <1>3, <1>4 DEF Reserve, ReserveEffect

(* reserve_phase1a_p4_outcome_pair: a queued attempt was never in a batch, *)
(* because no batch is open and members of a failed batch are failed.      *)
LEMMA ReservePairKeeps ==
  ASSUME RegistryInv, NEW members \in [Pair -> 1..MaxAttempts], ReservePair(members)
  PROVE  RegistryInv'
<1>1. CASE ~PairIsNew(members)
  BY <1>1, StutterKeeps DEF ReservePair, ReservePairEffect, registryVars
<1>2. CASE PairIsNew(members)
  <2> DEFINE batch == [members |-> members, status |-> "PREPARED", error |-> NoError]
             new == Len(batches) + 1
  <2>1. /\ batches' = Append(batches, batch)
        /\ UNCHANGED <<attempts, releases>>
        /\ MembersExist(members)
        /\ MembersIn(members, {"QUEUED"})
        /\ InBatchStatus({"RELEASED", "PREPARED"}) = {}
    BY <1>2 DEF ReservePair, ReservePairGranted, ReservePairEffect, PairIsNew
  <2>2. batches \in Seq(Batch)
    BY DEF RegistryInv, RegistryTypeOK
  <2>3. batch \in Batch
    BY LimitsAreNumbers DEF Batch, Members
  <2>4. /\ batch.members = members
        /\ batch.status = "PREPARED"
    OBVIOUS
  <2> HIDE DEF batch
  <2>5. /\ DOMAIN batches' = DOMAIN batches \cup {new}
        /\ batches'[new] = batch
        /\ new \notin DOMAIN batches
        /\ \A b \in DOMAIN batches : batches'[b] = batches[b]
        /\ batches' \in Seq(Batch)
    BY <2>1, <2>2, <2>3
  <2> HIDE DEF new
  <2>6. \A b \in DOMAIN batches : batches[b].status = "FAILED"
    <3>1. \A b \in DOMAIN batches : batches[b].status \in {"PREPARED", "RELEASED", "FAILED"}
      BY BatchShape DEF RegistryInv, Batch
    <3>2. QED
      BY <2>1, <3>1 DEF InBatchStatus
  <2>7. \A b \in DOMAIN batches : \A q \in Pair :
          attempts[q][batches[b].members[q]].status = "FAILED"
    <3>1. SUFFICES ASSUME NEW b \in DOMAIN batches
                   PROVE  \A q \in Pair : attempts[q][batches[b].members[q]].status = "FAILED"
      OBVIOUS
    <3>2. BatchOutcome(b)
      BY DEF RegistryInv, PairTogether
    <3>3. QED
      BY <2>6, <3>2 DEF BatchOutcome, MembersIn
  <2>8. RegistryTypeOK'
    <3>1. \A q \in Queries : \A a \in DOMAIN attempts[q] : Shaped(attempts[q][a])
      BY DEF RegistryInv, RegistryTypeOK
    <3>2. \A q \in Queries : \A a \in DOMAIN attempts'[q] : Shaped(attempts'[q][a])
      BY <2>1, <3>1
    <3>3. QED
      BY <2>1, <2>5, <3>2 DEF RegistryInv, RegistryTypeOK
  <2>9. OneExecution'
    BY <2>1 DEF RegistryInv, OneExecution, InStatus
  <2>10. PairTogether'
    <3>1. PairTogether
      BY DEF RegistryInv
    <3>2. ASSUME NEW b \in DOMAIN batches'
          PROVE  BatchOutcome(b)'
      <4>1. CASE b \in DOMAIN batches
        BY <2>1, <2>5, <3>1, <4>1 DEF PairTogether, BatchOutcome, MembersExist, MembersIn,
                                      HasAttempt
      <4>2. CASE b = new
        BY <2>1, <2>4, <2>5, <4>2 DEF BatchOutcome, MembersExist, MembersIn, HasAttempt, Live
      <4>3. QED
        BY <2>5, <4>1, <4>2
    <3>3. ASSUME NEW r \in releases
          PROVE  ReleaseIsExact(r)'
      BY <2>1, <2>5, <3>1 DEF PairTogether, ReleaseIsExact
    <3>4. InBatchStatus({"RELEASED"})' \subseteq InBatchStatus({"RELEASED"})
      BY <2>4, <2>5 DEF InBatchStatus
    <3>5. QED
      BY <2>1, <3>1, <3>2, <3>3, <3>4 DEF PairTogether
  <2>11. BoundOnce'
    <3> DEFINE Binding(p, c) == {b \in DOMAIN batches : batches[b].members[p] = c}
               Bindings(p, c) == {b \in DOMAIN batches' : batches'[b].members[p] = c}
    <3>1. SUFFICES ASSUME NEW p \in Pair, NEW c \in DOMAIN attempts[p]
                   PROVE  /\ \A b, e \in Bindings(p, c) : b = e
                          /\ attempts[p][c].status \in {"RUNNING", "SUCCEEDED"}
                               => Bindings(p, c) # {}
      BY <2>1 DEF BoundOnce
    <3>2. /\ \A b, e \in Binding(p, c) : b = e
          /\ attempts[p][c].status \in {"RUNNING", "SUCCEEDED"} => Binding(p, c) # {}
      BY DEF RegistryInv, BoundOnce
    <3>3. CASE members[p] # c
      <4>1. Bindings(p, c) = Binding(p, c)
        BY <2>4, <2>5, <3>3
      <4>2. QED
        BY <3>2, <4>1
    <3>4. CASE members[p] = c
      <4>1. attempts[p][c].status = "QUEUED"
        BY <2>1, <3>4 DEF MembersIn
      <4>2. Binding(p, c) = {}
        BY <2>7, <4>1
      <4>3. \A b \in Bindings(p, c) : b = new
        BY <2>5, <4>2
      <4>4. QED
        BY <4>1, <4>3
    <3>5. QED
      BY <3>3, <3>4
  <2>12. OneOpenBatch'
    BY <2>5, <2>6 DEF OneOpenBatch, InBatchStatus
  <2>13. QED
    BY <2>8, <2>9, <2>10, <2>11, <2>12 DEF RegistryInv
<1>3. QED
  BY <1>1, <1>2

-----------------------------------------------------------------------------
(* The end of a pair: both members and their batch change in one step.     *)

PairBecomes(b, rows, status) ==
  /\ attempts' = [q \in Queries |->
                    IF q \in Pair
                    THEN [attempts[q] EXCEPT ![batches[b].members[q]] = rows[q]]
                    ELSE attempts[q]]
  /\ DOMAIN batches' = DOMAIN batches
  /\ batches' \in Seq(Batch)
  /\ batches'[b].members = batches[b].members
  /\ batches'[b].status = status
  /\ \A c \in DOMAIN batches : c # b => batches'[c] = batches[c]

PairFailedAs(b, rows) ==
  /\ batches[b].status \in {"PREPARED", "FAILED"}
  /\ \A q \in Pair : rows[q].status = "FAILED"
  /\ releases' = releases

PairReleasedAs(b, rows) ==
  /\ batches[b].status = "PREPARED"
  /\ \A q \in Pair : rows[q].status = "SUCCEEDED"
  /\ \E r \in Release : /\ r.batch = b
                        /\ r.members = batches[b].members
                        /\ \A q \in Pair : r.results[q] = rows[q].result
                        /\ releases' = releases \cup {r}

(* What the rows of the tables are after such a step.                      *)
LEMMA PairRows ==
  ASSUME RegistryInv, NEW b \in DOMAIN batches, NEW rows \in [Pair -> Attempt], NEW status,
         PairBecomes(b, rows, status)
  PROVE  /\ attempts' \in [Queries -> Seq(Attempt)]
         /\ \A q \in Queries : DOMAIN attempts'[q] = DOMAIN attempts[q]
         /\ \A q \in Pair : attempts'[q][batches[b].members[q]] = rows[q]
         /\ \A q \in Queries : \A a \in DOMAIN attempts[q] :
              attempts'[q][a] # attempts[q][a] => q \in Pair /\ a = batches[b].members[q]
<1>1. attempts \in [Queries -> Seq(Attempt)]
  BY DEF RegistryInv, RegistryTypeOK
<1>2. \A q \in Pair : batches[b].members[q] \in DOMAIN attempts[q]
  BY BoundRowsExist
<1>3. ASSUME NEW q \in Queries
      PROVE  /\ attempts'[q] \in Seq(Attempt)
             /\ DOMAIN attempts'[q] = DOMAIN attempts[q]
             /\ q \in Pair => attempts'[q][batches[b].members[q]] = rows[q]
             /\ \A a \in DOMAIN attempts[q] :
                  attempts'[q][a] # attempts[q][a] => q \in Pair /\ a = batches[b].members[q]
  <2>1. CASE q \in Pair
    <3>1. attempts'[q] = [attempts[q] EXCEPT ![batches[b].members[q]] = rows[q]]
      BY <2>1 DEF PairBecomes
    <3>2. attempts[q] \in Seq(Attempt) /\ rows[q] \in Attempt
      BY <1>1, <2>1
    <3>3. QED
      BY <1>2, <2>1, <3>1, <3>2
  <2>2. CASE q \notin Pair
    <3>1. attempts'[q] = attempts[q]
      BY <2>2 DEF PairBecomes
    <3>2. QED
      BY <1>1, <2>2, <3>1
  <2>3. QED
    BY <2>1, <2>2
<1>4. attempts' \in [Queries -> Seq(Attempt)]
  <2>1. attempts' = [q \in Queries |-> attempts'[q]]
    BY DEF PairBecomes
  <2>2. QED
    BY <1>3, <2>1
<1>5. QED
  BY <1>3, <1>4, PairIsAmongQueries

(* The members of a batch are in no other batch, so the others keep their  *)
(* outcome; the batch itself takes the outcome of its new status.          *)
LEMMA PairEnds ==
  ASSUME RegistryInv, NEW b \in DOMAIN batches, NEW rows \in [Pair -> Attempt], NEW status,
         PairBecomes(b, rows, status),
         \A q \in Pair : Shaped(rows[q]),
         \/ status = "FAILED" /\ PairFailedAs(b, rows)
         \/ status = "RELEASED" /\ PairReleasedAs(b, rows)
  PROVE  RegistryInv'
<1>1. /\ attempts' \in [Queries -> Seq(Attempt)]
      /\ \A q \in Queries : DOMAIN attempts'[q] = DOMAIN attempts[q]
      /\ \A q \in Pair : attempts'[q][batches[b].members[q]] = rows[q]
      /\ \A q \in Queries : \A a \in DOMAIN attempts[q] :
           attempts'[q][a] # attempts[q][a] => q \in Pair /\ a = batches[b].members[q]
  BY PairRows
<1> USE DEF PairFailedAs, PairReleasedAs
<1>2. /\ RegistryTypeOK /\ OneExecution /\ PairTogether /\ BoundOnce /\ OneOpenBatch
      /\ DOMAIN batches' = DOMAIN batches
      /\ batches' \in Seq(Batch)
      /\ batches'[b].members = batches[b].members
      /\ batches'[b].status = status
      /\ \A c \in DOMAIN batches : c # b => batches'[c] = batches[c]
  BY DEF RegistryInv, PairBecomes
<1>3. \A c \in DOMAIN batches : batches'[c].members = batches[c].members
  BY <1>2
<1>4. \A c \in DOMAIN batches : \A q \in Pair : batches[c].members[q] \in DOMAIN attempts[q]
  BY BoundRowsExist
<1>5. \A c \in DOMAIN batches : c # b => \A q \in Pair :
        attempts'[q][batches[c].members[q]] = attempts[q][batches[c].members[q]]
  <2>1. \A c \in DOMAIN batches : c # b =>
          \A q \in Pair : batches[c].members[q] # batches[b].members[q]
    BY <1>2, <1>4 DEF BoundOnce
  <2>2. QED
    BY <1>1, <1>4, <2>1, PairIsAmongQueries
<1>6. RegistryTypeOK'
  <2>1. releases' \subseteq Release
    BY <1>2 DEF RegistryTypeOK
  <2>2. \A q \in Queries : \A a \in DOMAIN attempts'[q] : Shaped(attempts'[q][a])
    <3>1. TAKE q \in Queries
    <3>2. TAKE a \in DOMAIN attempts'[q]
    <3>3. CASE attempts'[q][a] = attempts[q][a]
      BY <1>1, <1>2, <3>3 DEF RegistryTypeOK
    <3>4. CASE attempts'[q][a] # attempts[q][a]
      BY <1>1, <3>4
    <3>5. QED
      BY <3>3, <3>4
  <2>3. QED
    BY <1>1, <1>2, <2>1, <2>2 DEF RegistryTypeOK
<1>7. OneExecution'
  <2>1. ASSUME NEW q \in Queries
        PROVE  InStatus(q, Live \cup {"SUCCEEDED"})' \subseteq InStatus(q, Live \cup {"SUCCEEDED"})
    <3>1. SUFFICES ASSUME NEW a \in DOMAIN attempts[q],
                          attempts'[q][a].status \in Live \cup {"SUCCEEDED"}
                   PROVE  attempts[q][a].status \in Live \cup {"SUCCEEDED"}
      BY <1>1 DEF InStatus, Live
    <3>2. CASE attempts'[q][a] = attempts[q][a]
      BY <3>1, <3>2
    <3>3. CASE attempts'[q][a] # attempts[q][a]
      <4>1. q \in Pair /\ a = batches[b].members[q] /\ attempts'[q][a] = rows[q]
        BY <1>1, <3>3
      <4>2. batches[b].status = "PREPARED"
        BY <3>1, <4>1 DEF Live
      <4>3. BatchOutcome(b)
        BY <1>2 DEF PairTogether
      <4>4. QED
        BY <4>1, <4>2, <4>3 DEF BatchOutcome, MembersIn
    <3>4. QED
      BY <3>2, <3>3
  <2>2. OneExecution
    BY <1>2
  <2>3. \A q \in Queries :
          InStatus(q, Live \cup {"SUCCEEDED"})' \subseteq InStatus(q, Live \cup {"SUCCEEDED"})
    BY <2>1
  <2>4. QED
    BY <2>2, <2>3 DEF OneExecution
<1>8. PairTogether'
  <2>1. ASSUME NEW c \in DOMAIN batches'
        PROVE  BatchOutcome(c)'
    <3>1. MembersExist(batches[c].members)'
      BY <1>1, <1>2, <1>3, <1>4, PairIsAmongQueries DEF MembersExist, HasAttempt
    <3>2. CASE c = b
      <4>1. status = "RELEASED" => MembersIn(batches[c].members, {"SUCCEEDED"})'
        BY <1>1, <1>3, <3>2 DEF MembersIn
      <4>2. status = "FAILED" => MembersIn(batches[c].members, {"FAILED"})'
        BY <1>1, <1>3, <3>2 DEF MembersIn
      <4>3. QED
        BY <1>2, <3>1, <3>2, <4>1, <4>2 DEF BatchOutcome
    <3>3. CASE c # b
      <4>1. BatchOutcome(c) /\ batches'[c] = batches[c]
        BY <1>2, <3>3 DEF PairTogether
      <4>2. c \in DOMAIN batches
        BY <1>2
      <4>3. \A q \in Pair :
              attempts'[q][batches[c].members[q]] = attempts[q][batches[c].members[q]]
        BY <1>5, <3>3, <4>2
      <4>4. \A S : MembersIn(batches[c].members, S) => MembersIn(batches[c].members, S)'
        BY <4>1, <4>3 DEF MembersIn
      <4>5. batches[c].status \in {"PREPARED", "RELEASED", "FAILED"}
        BY <1>2, <4>2, BatchShape DEF Batch
      <4>6. CASE batches[c].status = "PREPARED"
        BY <3>1, <4>1, <4>4, <4>6 DEF BatchOutcome
      <4>7. CASE batches[c].status = "RELEASED"
        BY <3>1, <4>1, <4>4, <4>7 DEF BatchOutcome
      <4>8. CASE batches[c].status = "FAILED"
        BY <3>1, <4>1, <4>4, <4>8 DEF BatchOutcome
      <4>9. QED
        BY <4>5, <4>6, <4>7, <4>8
    <3>4. QED
      BY <3>2, <3>3
  <2>2. ASSUME NEW r \in releases'
        PROVE  ReleaseIsExact(r)'
    <3>1. CASE r \in releases
      <4>1. /\ ReleaseIsExact(r)
            /\ r.batch \in DOMAIN batches
            /\ r.batch # b
        BY <1>2, <3>1 DEF PairTogether, ReleaseIsExact
      <4>2. QED
        BY <1>2, <1>5, <4>1 DEF ReleaseIsExact
    <3>2. CASE r \notin releases
      BY <1>1, <1>2, <3>2 DEF ReleaseIsExact
    <3>3. QED
      BY <3>1, <3>2
  <2>3. ASSUME NEW c \in InBatchStatus({"RELEASED"})'
        PROVE  \E r \in releases' : r.batch = c
    <3>1. CASE c = b
      BY <1>2, <2>3, <3>1 DEF InBatchStatus
    <3>2. CASE c # b
      <4>1. c \in InBatchStatus({"RELEASED"})
        BY <1>2, <2>3, <3>2 DEF InBatchStatus
      <4>2. PICK r \in releases : r.batch = c
        BY <1>2, <4>1 DEF PairTogether
      <4>3. QED
        BY <4>2
    <3>3. QED
      BY <3>1, <3>2
  <2>4. QED
    BY <2>1, <2>2, <2>3 DEF PairTogether
<1>9. BoundOnce'
  <2> DEFINE Binding(p, c) == {e \in DOMAIN batches : batches[e].members[p] = c}
             Bindings(p, c) == {e \in DOMAIN batches' : batches'[e].members[p] = c}
  <2>1. \A p \in Pair : DOMAIN attempts'[p] = DOMAIN attempts[p]
    BY <1>1, PairIsAmongQueries
  <2>2. \A p, c : Bindings(p, c) = Binding(p, c)
    BY <1>2, <1>3
  <2>3. SUFFICES ASSUME NEW p \in Pair, NEW c \in DOMAIN attempts[p]
                 PROVE  /\ \A d, e \in Bindings(p, c) : d = e
                        /\ attempts'[p][c].status \in {"RUNNING", "SUCCEEDED"}
                             => Bindings(p, c) # {}
    BY <2>1 DEF BoundOnce
  <2>4. Bindings(p, c) = Binding(p, c)
    BY <2>2
  <2> HIDE DEF Bindings, Binding
  <2>5. SUFFICES /\ \A d, e \in Binding(p, c) : d = e
                 /\ attempts'[p][c].status \in {"RUNNING", "SUCCEEDED"} => Binding(p, c) # {}
    BY <2>4
  <2> USE DEF Binding
  <2>6. CASE attempts'[p][c] = attempts[p][c]
    BY <1>2, <2>6 DEF BoundOnce
  <2>7. CASE attempts'[p][c] # attempts[p][c]
    <3>1. b \in Binding(p, c)
      BY <1>1, <2>7, PairIsAmongQueries
    <3>2. QED
      BY <1>2, <3>1 DEF BoundOnce
  <2>8. QED
    BY <2>6, <2>7
<1>10. OneOpenBatch'
  <2>1. InBatchStatus({"PREPARED", "RELEASED"})' \subseteq InBatchStatus({"PREPARED", "RELEASED"})
    BY <1>2 DEF InBatchStatus
  <2>2. QED
    BY <1>2, <2>1 DEF OneOpenBatch
<1>11. QED
  BY <1>6, <1>7, <1>8, <1>9, <1>10 DEF RegistryInv

(* complete_phase1a_p4_outcome_pair: a released batch is confirmed with    *)
(* the results it has, otherwise both running members succeed.             *)
LEMMA CompletePairStep ==
  ASSUME RegistryInv, NEW members \in [Pair -> 1..MaxAttempts], NEW b \in DOMAIN batches,
         NEW contents \in [Pair -> Lineages], NEW results \in [Pair -> Lineages],
         CompletePair(b, members, contents, results)
  PROVE  \/ UNCHANGED registryVars
         \/ \E rows \in [Pair -> Attempt] :
              /\ PairBecomes(b, rows, "RELEASED")
              /\ PairReleasedAs(b, rows)
              /\ \A q \in Pair : /\ Shaped(rows[q])
                                 /\ rows[q].result = results[q]
                                 /\ rows[q].chain = attempts[q][members[q]].chain
<1> DEFINE row(q) == attempts[q][members[q]]
           rows == [q \in Pair |-> Succeeded(row(q), results[q])]
           release == [batch |-> b, members |-> members, results |-> results]
<1>1. /\ batches[b].members = members
      /\ RegistryTypeOK
      /\ attempts \in [Queries -> Seq(Attempt)]
      /\ BatchOutcome(b)
  BY DEF CompletePair, CompletePairGranted, RegistryInv, RegistryTypeOK, PairTogether
<1>2. /\ attempts' = [q \in Queries |-> IF q \in Pair THEN Succeed(q, members[q], results[q])
                                        ELSE attempts[q]]
      /\ batches' = [batches EXCEPT ![b].status = "RELEASED"]
      /\ releases' = releases \cup {release}
  BY DEF CompletePair, CompletePairEffect
<1>3. ASSUME NEW q \in Pair
      PROVE  /\ members[q] \in DOMAIN attempts[q]
             /\ row(q) \in Attempt
             /\ Shaped(row(q))
             /\ Succeed(q, members[q], results[q])
                  = [attempts[q] EXCEPT ![members[q]] = Succeeded(row(q), results[q])]
  <2>1. q \in Queries /\ members[q] \in DOMAIN attempts[q]
    BY <1>1, BoundRowsExist, PairIsAmongQueries
  <2>2. row(q) \in Attempt /\ Shaped(row(q))
    BY <1>1, <2>1, RowShape
  <2>3. Succeed(q, members[q], results[q])
          = [attempts[q] EXCEPT ![members[q]] = Succeeded(row(q), results[q])]
    BY <1>1, <2>1, RowUpdates
  <2>4. QED
    BY <2>1, <2>2, <2>3
<1>4. /\ batches \in Seq(Batch)
      /\ batches[b] \in Batch
  BY <1>1, BatchShape
<1>5. /\ DOMAIN batches' = DOMAIN batches
      /\ batches'[b].members = batches[b].members
      /\ batches'[b].status = "RELEASED"
      /\ batches' \in Seq(Batch)
      /\ \A c \in DOMAIN batches : c # b => batches'[c] = batches[c]
  <2> DEFINE released == [members |-> batches[b].members, status |-> "RELEASED",
                          error |-> batches[b].error]
  <2>1. released \in Batch
    BY <1>4 DEF Batch
  <2>2. [batches[b] EXCEPT !.status = "RELEASED"] = released
    BY <1>4 DEF Batch
  <2>3. batches' = [batches EXCEPT ![b] = released]
    BY <1>2, <2>2
  <2>4. released.members = batches[b].members /\ released.status = "RELEASED"
    OBVIOUS
  <2> HIDE DEF released
  <2>5. QED
    BY <1>4, <2>1, <2>3, <2>4
<1>6. CASE batches[b].status = "PREPARED" /\ MembersIn(members, {"RUNNING"})
  <2>1. ASSUME NEW q \in Pair
        PROVE  /\ Succeeded(row(q), results[q]) \in Attempt
               /\ Shaped(Succeeded(row(q), results[q]))
               /\ Succeeded(row(q), results[q]).status = "SUCCEEDED"
               /\ Succeeded(row(q), results[q]).result = results[q]
               /\ Succeeded(row(q), results[q]).chain = row(q).chain
    <3>1. row(q).status = "RUNNING"
      BY <1>6 DEF MembersIn
    <3>2. Succeeded(row(q), results[q]) \in Attempt /\ Shaped(Succeeded(row(q), results[q]))
      BY <1>3, <3>1, RowSuccessors
    <3>3. QED
      BY <3>2 DEF Succeeded
  <2>2. /\ rows \in [Pair -> Attempt]
        /\ \A q \in Pair : /\ rows[q] = Succeeded(row(q), results[q])
                           /\ Shaped(rows[q])
                           /\ rows[q].status = "SUCCEEDED"
                           /\ rows[q].result = results[q]
                           /\ rows[q].chain = row(q).chain
    BY <2>1
  <2>3. attempts' = [q \in Queries |->
                       IF q \in Pair THEN [attempts[q] EXCEPT ![batches[b].members[q]] = rows[q]]
                       ELSE attempts[q]]
    BY <1>1, <1>2, <1>3, <2>2
  <2>4. release \in Release
    BY <1>1, <1>4 DEF Release, Batch, RegistryTypeOK
  <2>5. /\ release.batch = b
        /\ release.members = members
        /\ release.results = results
    OBVIOUS
  <2> HIDE DEF rows, release
  <2>6. PairBecomes(b, rows, "RELEASED")
    BY <1>5, <2>3 DEF PairBecomes
  <2>7. \A q \in Pair : release.results[q] = rows[q].result
    BY <2>2, <2>5
  <2>8. \E r \in Release : /\ r.batch = b
                           /\ r.members = batches[b].members
                           /\ \A q \in Pair : r.results[q] = rows[q].result
                           /\ releases' = releases \cup {r}
    BY <1>1, <1>2, <2>4, <2>5, <2>7
  <2>9. PairReleasedAs(b, rows)
    BY <1>6, <2>2, <2>8 DEF PairReleasedAs
  <2>10. /\ rows \in [Pair -> Attempt]
         /\ \A q \in Pair : /\ Shaped(rows[q])
                            /\ rows[q].result = results[q]
                            /\ rows[q].chain = row(q).chain
    BY <2>2
  <2>11. QED
    BY <2>6, <2>9, <2>10
<1>7. CASE /\ batches[b].status = "RELEASED"
           /\ MembersIn(members, {"SUCCEEDED"})
           /\ \E r \in releases : r.batch = b /\ r.results = results
  <2>1. PICK r \in releases : r.batch = b /\ r.results = results
    BY <1>7
  <2>2. /\ r \in Release
        /\ ReleaseIsExact(r)
    BY <2>1 DEF RegistryInv, RegistryTypeOK, PairTogether
  <2>3. r = release
    BY <1>1, <2>1, <2>2 DEF Release, ReleaseIsExact
  <2>4. releases' = releases
    BY <1>2, <2>1, <2>3
  <2>5. ASSUME NEW q \in Pair
        PROVE  [attempts[q] EXCEPT ![members[q]] = Succeeded(row(q), results[q])] = attempts[q]
    <3>1. row(q).status = "SUCCEEDED" /\ row(q).result = results[q]
      BY <1>1, <1>7, <2>1, <2>2 DEF MembersIn, ReleaseIsExact
    <3>2. Succeeded(row(q), results[q]) = row(q)
      BY <1>3, <3>1 DEF Succeeded, Attempt
    <3>3. attempts[q] = [a \in 1..Len(attempts[q]) |-> attempts[q][a]]
      <4>1. attempts[q] \in Seq(Attempt)
        BY <1>1, PairIsAmongQueries
      <4>2. QED
        BY <4>1
    <3>4. [attempts[q] EXCEPT ![members[q]] = row(q)] = attempts[q]
      BY <3>3
    <3>5. QED
      BY <3>2, <3>4
  <2>6. attempts' = attempts
    BY <1>1, <1>2, <1>3, <2>5
  <2>7. batches' = batches
    <3>1. [batches[b] EXCEPT !.status = "RELEASED"] = batches[b]
      BY <1>4, <1>7 DEF Batch
    <3>2. QED
      BY <1>2, <1>4, <3>1
  <2>8. QED
    BY <2>4, <2>6, <2>7 DEF registryVars
<1>8. QED
  BY <1>6, <1>7 DEF CompletePair, CompletePairGranted

LEMMA CompletePairKeeps ==
  ASSUME RegistryInv, NEW members \in [Pair -> 1..MaxAttempts], NEW b \in DOMAIN batches,
         NEW contents \in [Pair -> Lineages], NEW results \in [Pair -> Lineages],
         CompletePair(b, members, contents, results)
  PROVE  RegistryInv'
BY CompletePairStep, PairEnds, StutterKeeps

(* fail_phase1a_p4_outcome_pair.                                           *)
LEMMA FailPairStep ==
  ASSUME RegistryInv, NEW b \in DOMAIN batches, NEW message \in Messages, FailPair(b, message)
  PROVE  \E rows \in [Pair -> Attempt] :
           /\ PairBecomes(b, rows, "FAILED")
           /\ PairFailedAs(b, rows)
           /\ batches'[b].error = message
           /\ \A q \in Pair : /\ Shaped(rows[q])
                              /\ rows[q] = Failed(attempts[q][batches[b].members[q]], message)
<1> DEFINE members == batches[b].members
           row(q) == attempts[q][members[q]]
           rows == [q \in Pair |-> Failed(row(q), message)]
<1>1. /\ RegistryTypeOK
      /\ attempts \in [Queries -> Seq(Attempt)]
  BY DEF RegistryInv, RegistryTypeOK
<1>2. /\ attempts' = [q \in Queries |-> IF q \in Pair THEN FailRow(q, members[q], message)
                                        ELSE attempts[q]]
      /\ batches' = [batches EXCEPT ![b].status = "FAILED", ![b].error = message]
      /\ releases' = releases
  BY DEF FailPair, FailPairEffect
<1>3. /\ batches[b].status \in {"PREPARED", "FAILED"}
      /\ \A q \in Pair : row(q).status \in Live \cup {"FAILED"}
  BY DEF FailPair, FailPairGranted, MembersIn
<1>4. ASSUME NEW q \in Pair
      PROVE  /\ Failed(row(q), message) \in Attempt
             /\ Shaped(Failed(row(q), message))
             /\ Failed(row(q), message).status = "FAILED"
             /\ FailRow(q, members[q], message)
                  = [attempts[q] EXCEPT ![members[q]] = Failed(row(q), message)]
  <2>1. q \in Queries /\ members[q] \in DOMAIN attempts[q]
    BY BoundRowsExist, PairIsAmongQueries
  <2>2. row(q) \in Attempt /\ Shaped(row(q))
    BY <1>1, <2>1, RowShape
  <2>3. Failed(row(q), message) \in Attempt /\ Shaped(Failed(row(q), message))
    BY <1>3, <2>2, RowSuccessors
  <2>4. FailRow(q, members[q], message)
          = [attempts[q] EXCEPT ![members[q]] = Failed(row(q), message)]
    BY <1>1, <2>1, RowUpdates
  <2>5. QED
    BY <2>3, <2>4 DEF Failed
<1>5. /\ batches \in Seq(Batch)
      /\ batches[b] \in Batch
  BY <1>1, BatchShape
<1>6. /\ DOMAIN batches' = DOMAIN batches
      /\ batches'[b].members = batches[b].members
      /\ batches'[b].status = "FAILED"
      /\ batches'[b].error = message
      /\ batches' \in Seq(Batch)
      /\ \A c \in DOMAIN batches : c # b => batches'[c] = batches[c]
  <2> DEFINE failed == [members |-> batches[b].members, status |-> "FAILED", error |-> message]
  <2>1. failed \in Batch
    BY <1>5 DEF Batch
  <2>2. batches' = [batches EXCEPT ![b] = failed]
    <3>1. [batches EXCEPT ![b].status = "FAILED", ![b].error = message]
            = [batches EXCEPT ![b] = [batches[b] EXCEPT !.status = "FAILED", !.error = message]]
      BY <1>5
    <3>2. [batches[b] EXCEPT !.status = "FAILED", !.error = message] = failed
      <4> DEFINE half == [members |-> batches[b].members, status |-> "FAILED",
                          error |-> batches[b].error]
      <4>1. [batches[b] EXCEPT !.status = "FAILED"] = half
        BY <1>5 DEF Batch
      <4>2. [half EXCEPT !.error = message] = failed
        OBVIOUS
      <4>3. [batches[b] EXCEPT !.status = "FAILED", !.error = message]
              = [[batches[b] EXCEPT !.status = "FAILED"] EXCEPT !.error = message]
        BY <1>5 DEF Batch
      <4>4. QED
        BY <4>1, <4>2, <4>3
    <3>3. QED
      BY <1>2, <3>1, <3>2
  <2>3. /\ failed.members = batches[b].members
        /\ failed.status = "FAILED"
        /\ failed.error = message
    OBVIOUS
  <2> HIDE DEF failed
  <2>4. QED
    BY <1>5, <2>1, <2>2, <2>3
<1>7. /\ rows \in [Pair -> Attempt]
      /\ \A q \in Pair : /\ rows[q] = Failed(row(q), message)
                         /\ Shaped(rows[q])
                         /\ rows[q].status = "FAILED"
  BY <1>4
<1>8. attempts' = [q \in Queries |->
                     IF q \in Pair THEN [attempts[q] EXCEPT ![members[q]] = rows[q]]
                     ELSE attempts[q]]
  BY <1>2, <1>4, <1>7
<1> HIDE DEF rows
<1>9. PairBecomes(b, rows, "FAILED")
  BY <1>6, <1>8 DEF PairBecomes
<1>10. PairFailedAs(b, rows)
  BY <1>2, <1>3, <1>7 DEF PairFailedAs
<1>11. QED
  BY <1>6, <1>7, <1>9, <1>10

LEMMA FailPairKeeps ==
  ASSUME RegistryInv, NEW b \in DOMAIN batches, NEW message \in Messages, FailPair(b, message)
  PROVE  RegistryInv'
BY FailPairStep, PairEnds

-----------------------------------------------------------------------------
(* The tables start consistent.                                            *)
LEMMA InitHolds ==
  ASSUME RegistryInit
  PROVE  RegistryInv
<1>1. /\ attempts \in [Queries -> Seq(Attempt)]
      /\ batches \in Seq(Batch)
      /\ releases = {}
      /\ \A q \in Queries : DOMAIN attempts[q] = {}
      /\ DOMAIN batches = {}
  BY DEF RegistryInit
<1>2. RegistryTypeOK
  BY <1>1 DEF RegistryTypeOK
<1>3. OneExecution
  BY <1>1 DEF OneExecution, InStatus
<1>4. PairTogether
  BY <1>1 DEF PairTogether, InBatchStatus
<1>5. BoundOnce
  BY <1>1, PairIsAmongQueries DEF BoundOnce
<1>6. OneOpenBatch
  BY <1>1 DEF OneOpenBatch, InBatchStatus
<1>7. QED
  BY <1>2, <1>3, <1>4, <1>5, <1>6 DEF RegistryInv

(* Every operation keeps them consistent.                                  *)
LEMMA StepKeeps ==
  ASSUME RegistryInv, [RegistryNext]_registryVars
  PROVE  RegistryInv'
<1>1. ASSUME NEW q \in Queries, Reserve(q)
      PROVE  RegistryInv'
  BY <1>1, ReserveKeeps
<1>2. ASSUME NEW q \in Queries, NEW a \in DOMAIN attempts[q], Start(q, a)
      PROVE  RegistryInv'
  BY <1>2, StartKeeps
<1>3. ASSUME NEW q \in Queries, NEW a \in DOMAIN attempts[q],
             NEW n \in 1..SourceDates, NEW content \in Lineages,
             NEW predecessor \in Lineages \cup {NoLineage},
             RegisterCheckpoint(q, a, n, content, predecessor)
      PROVE  RegistryInv'
  BY <1>3, RegisterKeeps
<1>4. ASSUME NEW q \in Queries, NEW a \in DOMAIN attempts[q],
             NEW content \in Lineages, NEW result \in Lineages,
             Complete(q, a, content, result)
      PROVE  RegistryInv'
  BY <1>4, CompleteKeeps
<1>5. ASSUME NEW q \in Queries, NEW a \in DOMAIN attempts[q], NEW message \in Messages,
             Fail(q, a, message) \/ FailUnpaired(q, a, message)
      PROVE  RegistryInv'
  BY <1>5, FailKeeps
<1>6. ASSUME NEW members \in [Pair -> 1..MaxAttempts], ReservePair(members)
      PROVE  RegistryInv'
  BY <1>6, ReservePairKeeps
<1>7. ASSUME NEW members \in [Pair -> 1..MaxAttempts], NEW b \in DOMAIN batches,
             NEW contents \in [Pair -> Lineages], NEW results \in [Pair -> Lineages],
             CompletePair(b, members, contents, results)
      PROVE  RegistryInv'
  BY <1>7, CompletePairKeeps
<1>8. ASSUME NEW b \in DOMAIN batches, NEW message \in Messages, FailPair(b, message)
      PROVE  RegistryInv'
  BY <1>8, FailPairKeeps
<1>9. CASE UNCHANGED registryVars
  BY <1>9, StutterKeeps
<1>10. QED
  BY <1>1, <1>2, <1>3, <1>4, <1>5, <1>6, <1>7, <1>8, <1>9 DEF RegistryNext

(* The registry's tables stay consistent whatever operations any callers   *)
(* issue, in any order and with any arguments.                             *)
THEOREM RegistryConsistent == RegistrySpec => []RegistryInv
<1>1. RegistryInit => RegistryInv
  BY InitHolds
<1>2. RegistryInv /\ [RegistryNext]_registryVars => RegistryInv'
  BY StepKeeps
<1>3. QED
  BY <1>1, <1>2, PTL DEF RegistrySpec

(* Rows have the columns their status asks for: a failed attempt has its   *)
(* error, a successful one its result, a chain never exceeds the plan.     *)
THEOREM RegistryTypeCorrect == RegistrySpec => []RegistryTypeOK
<1>1. RegistryInv => RegistryTypeOK
  BY DEF RegistryInv
<1>2. QED
  BY <1>1, RegistryConsistent, PTL

(* No run has two live attempts, two successes, or a live attempt after a  *)
(* success: concurrent reservations never execute a run twice.             *)
THEOREM RunsExecuteOnce == RegistrySpec => []OneExecution
<1>1. RegistryInv => OneExecution
  BY DEF RegistryInv
<1>2. QED
  BY <1>1, RegistryConsistent, PTL

(* The two P4 candidates are live, failed or released together, with one   *)
(* exact release for a released batch.                                     *)
THEOREM PairStaysTogether == RegistrySpec => []PairTogether
<1>1. RegistryInv => PairTogether
  BY DEF RegistryInv
<1>2. QED
  BY <1>1, RegistryConsistent, PTL

(* A P4 attempt runs and succeeds only inside the one batch it belongs to. *)
THEOREM AttemptsBoundOnce == RegistrySpec => []BoundOnce
<1>1. RegistryInv => BoundOnce
  BY DEF RegistryInv
<1>2. QED
  BY <1>1, RegistryConsistent, PTL

(* At most one batch is ever prepared or released.                         *)
THEOREM BatchesOpenOnce == RegistrySpec => []OneOpenBatch
<1>1. RegistryInv => OneOpenBatch
  BY DEF RegistryInv
<1>2. QED
  BY <1>1, RegistryConsistent, PTL

(* Replays, pair batches and the release agree with one another.           *)
THEOREM RegistryHolds == RegistrySpec => []RegistryAgrees
BY RunsExecuteOnce, PairStaysTogether, AttemptsBoundOnce, BatchesOpenOnce, PTL
   DEF RegistryAgrees

-----------------------------------------------------------------------------
(* The registry implements its contract: a reservation opens a unit, a     *)
(* failure abandons it, a completion publishes it, and every other         *)
(* transaction is a stuttering step for a reader of results.  RegistryInv  *)
(* supplies what the mapping needs: one execution per run makes the        *)
(* published value unique, and a pair's members and its open batch agree   *)
(* on the stage of the pair.                                               *)

StageMap == [u \in Units |-> Stage(u)]
ValueMap == [q \in UNION Units |-> Value(q)]

-----------------------------------------------------------------------------
(* Units of publication.                                                   *)

LEMMA UnitsPartition ==
  /\ UNION Units = Queries
  /\ \A u \in Units : u = Pair \/ \E q \in Queries \ Pair : u = {q}
  /\ \A q \in Queries \ Pair : {q} \in Units /\ {q} # Pair
  /\ Pair # {} => Pair \in Units
  /\ \A u, v \in Units : u # v => u \cap v = {}
<1>1. \A u \in Units : (u = Pair /\ Pair # {}) \/ \E q \in Queries \ Pair : u = {q}
  BY DEF Units
<1>2. \A q \in Queries \ Pair : {q} \in Units /\ {q} # Pair
  BY DEF Units
<1>3. Pair # {} => Pair \in Units
  BY DEF Units
<1>4. UNION Units = Queries
  <2>1. ASSUME NEW u \in Units, NEW q \in u PROVE q \in Queries
    BY <1>1, <2>1, PairIsAmongQueries
  <2>2. ASSUME NEW q \in Queries PROVE \E u \in Units : q \in u
    BY <1>2, <1>3
  <2>3. QED
    BY <2>1, <2>2
<1>5. ASSUME NEW u \in Units, NEW v \in Units, u # v PROVE u \cap v = {}
  BY <1>1, <1>5
<1>6. QED
  BY <1>1, <1>2, <1>3, <1>4, <1>5

(* A query succeeds in at most one attempt, so its value is that result.   *)
LEMMA OnlyChoice ==
  ASSUME NEW S, NEW a \in S, \A c, d \in S : c = d
  PROVE  (CHOOSE c \in S : TRUE) = a
OBVIOUS

LEMMA ValueNow ==
  ASSUME OneExecution, NEW q \in Queries, NEW a \in PublishedAt(q)
  PROVE  Value(q) = attempts[q][a].result
<1>1. \A c, d \in PublishedAt(q) : c = d
  BY DEF OneExecution, PublishedAt, InStatus
<1>2. QED
  BY <1>1, OnlyChoice DEF Value

LEMMA ValueNext ==
  ASSUME OneExecution', NEW q \in Queries, NEW a \in PublishedAt(q)'
  PROVE  Value(q)' = attempts'[q][a].result
<1>1. \A c, d \in PublishedAt(q)' : c = d
  BY DEF OneExecution, PublishedAt, InStatus
<1>2. (CHOOSE c \in PublishedAt(q)' : TRUE) = a
  BY <1>1, OnlyChoice
<1>3. QED
  BY <1>2 DEF Value

LEMMA SameValue ==
  ASSUME OneExecution, OneExecution', NEW q \in Queries,
         PublishedAt(q)' = PublishedAt(q),
         \A a \in PublishedAt(q) : attempts'[q][a].result = attempts[q][a].result
  PROVE  Value(q)' = Value(q)
<1>1. CASE PublishedAt(q) = {}
  BY <1>1 DEF Value
<1>2. CASE PublishedAt(q) # {}
  <2>1. PICK a \in PublishedAt(q) : TRUE
    BY <1>2
  <2>2. Value(q) = attempts[q][a].result
    BY ValueNow
  <2>3. a \in PublishedAt(q)'
    OBVIOUS
  <2>4. Value(q)' = attempts'[q][a].result
    BY <2>3, ValueNext
  <2>5. QED
    BY <2>2, <2>4
<1>3. QED
  BY <1>1, <1>2

-----------------------------------------------------------------------------
(* What a step leaves as it was for readers outside the set u of queries.  *)

KeptOutside(u) ==
  /\ \A q \in Queries \ u : /\ PublishedAt(q)' = {} <=> PublishedAt(q) = {}
                            /\ Value(q)' = Value(q)
  /\ \A q \in Queries \ (Pair \cup u) : InStatus(q, Live)' = {} <=> InStatus(q, Live) = {}
  /\ u # Pair => (InBatchStatus({"PREPARED"})' = {} <=> InBatchStatus({"PREPARED"}) = {})

LEMMA StagesKept ==
  ASSUME NEW u, KeptOutside(u), NEW v \in Units, u \cap v = {}, u # v
  PROVE  Stage(v)' = Stage(v)
<1>1. \A q \in v : q \in Queries \ u
  BY UnitsPartition
<1>2. (\E q \in v : PublishedAt(q)' # {}) <=> (\E q \in v : PublishedAt(q) # {})
  BY <1>1 DEF KeptOutside
<1>3. CASE v = Pair
  <2>1. InBatchStatus({"PREPARED"})' = {} <=> InBatchStatus({"PREPARED"}) = {}
    BY <1>3 DEF KeptOutside
  <2>2. QED
    BY <1>2, <1>3, <2>1 DEF Stage
<1>4. CASE v # Pair
  <2>1. PICK q \in Queries \ Pair : v = {q}
    BY <1>4, UnitsPartition
  <2>2. InStatus(q, Live)' = {} <=> InStatus(q, Live) = {}
    BY <1>1, <2>1 DEF KeptOutside
  <2>3. (\E p \in v : InStatus(p, Live)' # {}) <=> (\E p \in v : InStatus(p, Live) # {})
    BY <2>1, <2>2
  <2>4. QED
    BY <1>2, <1>4, <2>3 DEF Stage
<1>5. QED
  BY <1>3, <1>4

(* A step that keeps everything is a stuttering step of the contract.      *)
LEMMA AllKept ==
  ASSUME KeptOutside({})
  PROVE  UNCHANGED <<StageMap, ValueMap>>
<1>1. {} \notin Units
  BY DEF Units
<1>2. \A v \in Units : Stage(v)' = Stage(v)
  BY <1>1, StagesKept
<1>3. \A q \in UNION Units : Value(q)' = Value(q)
  BY UnitsPartition DEF KeptOutside
<1>4. QED
  BY <1>2, <1>3 DEF StageMap, ValueMap, Units

(* A step that keeps everything outside one unit changes its stage only.   *)
LEMMA OneUnitChanges ==
  ASSUME NEW u \in Units, KeptOutside(u)
  PROVE  /\ StageMap' = [StageMap EXCEPT ![u] = Stage(u)']
         /\ ValueMap' = [q \in UNION Units |-> IF q \in u THEN Value(q)' ELSE ValueMap[q]]
         /\ StageMap[u] = Stage(u)
<1>1. \A v \in Units : v # u => Stage(v)' = Stage(v)
  BY UnitsPartition, StagesKept
<1>2. \A q \in UNION Units : q \notin u => Value(q)' = Value(q)
  BY UnitsPartition DEF KeptOutside
<1>3. Units' = Units
  BY DEF Units
<1>4. QED
  BY <1>1, <1>2, <1>3 DEF StageMap, ValueMap

-----------------------------------------------------------------------------
(* Steps that change one row.                                              *)

(* Other queries see nothing of it, and the batches stay.                  *)
LEMMA RowOutside ==
  ASSUME OneExecution, OneExecution', NEW q \in Queries, NEW a \in DOMAIN attempts[q], NEW row,
         RowBecomes(q, a, row)
  PROVE  KeptOutside({q})
<1>1. ASSUME NEW p \in Queries \ {q}
      PROVE  /\ PublishedAt(p)' = PublishedAt(p)
             /\ InStatus(p, Live)' = InStatus(p, Live)
             /\ \A c \in PublishedAt(p) : attempts'[p][c].result = attempts[p][c].result
  BY DEF RowBecomes, PublishedAt, InStatus, Live
<1>2. \A p \in Queries \ {q} : Value(p)' = Value(p)
  BY <1>1, SameValue
<1>3. InBatchStatus({"PREPARED"})' = InBatchStatus({"PREPARED"})
  BY DEF RowBecomes, InBatchStatus
<1>4. QED
  BY <1>1, <1>2, <1>3 DEF KeptOutside

(* A row that stays as live and as successful as it was is not seen.       *)
LEMMA RowQuiet ==
  ASSUME OneExecution, OneExecution', NEW q \in Queries, NEW a \in DOMAIN attempts[q], NEW row,
         RowBecomes(q, a, row),
         row.status = "SUCCEEDED" <=> attempts[q][a].status = "SUCCEEDED",
         row.status = "SUCCEEDED" => row.result = attempts[q][a].result,
         q \in Pair \/ (row.status \in Live <=> attempts[q][a].status \in Live)
  PROVE  KeptOutside({})
<1>1. KeptOutside({q})
  BY RowOutside
<1>2. PublishedAt(q)' = PublishedAt(q)
  BY DEF RowBecomes, PublishedAt, InStatus
<1>3. \A c \in PublishedAt(q) : attempts'[q][c].result = attempts[q][c].result
  BY DEF RowBecomes, PublishedAt, InStatus
<1>4. Value(q)' = Value(q)
  BY <1>2, <1>3, SameValue
<1>5. q \notin Pair => InStatus(q, Live)' = InStatus(q, Live)
  BY DEF RowBecomes, InStatus, Live
<1>6. InBatchStatus({"PREPARED"})' = InBatchStatus({"PREPARED"})
  BY DEF RowBecomes, InBatchStatus
<1>7. QED
  BY <1>1, <1>2, <1>4, <1>5, <1>6 DEF KeptOutside

(* The stage of a query released alone.                                    *)
LEMMA StageAlone ==
  ASSUME NEW q \in Queries \ Pair
  PROVE  /\ PublishedAt(q) = {} /\ InStatus(q, Live) # {} => Stage({q}) = "open"
         /\ PublishedAt(q) = {} /\ InStatus(q, Live) = {} => Stage({q}) = "closed"
BY UnitsPartition DEF Stage

LEMMA StageAloneNext ==
  ASSUME NEW q \in Queries \ Pair
  PROVE  /\ PublishedAt(q)' # {} => Stage({q})' = "published"
         /\ PublishedAt(q)' = {} /\ InStatus(q, Live)' # {} => Stage({q})' = "open"
         /\ PublishedAt(q)' = {} /\ InStatus(q, Live)' = {} => Stage({q})' = "closed"
BY UnitsPartition DEF Stage

Seen == [Contract!Next]_(Contract!vars)

LEMMA StutterSeen ==
  ASSUME KeptOutside({})
  PROVE  Seen
BY AllKept DEF Seen, Contract!vars, StageMap, ValueMap

(* A unit's stage changes along one of the steps of the contract.          *)
LEMMA UnitSeen ==
  ASSUME NEW u \in Units, KeptOutside(u),
         \/ /\ Stage(u) = "closed" /\ Stage(u)' = "open"
            /\ \A q \in u : Value(q)' = Value(q)
         \/ /\ Stage(u) = "open" /\ Stage(u)' = "closed"
            /\ \A q \in u : Value(q)' = Value(q)
         \/ /\ Stage(u) = "open" /\ Stage(u)' = "published"
            /\ \A q \in u : Value(q)' \in Lineages
  PROVE  Seen
<1>1. /\ StageMap' = [StageMap EXCEPT ![u] = Stage(u)']
      /\ ValueMap' = [q \in UNION Units |-> IF q \in u THEN Value(q)' ELSE ValueMap[q]]
      /\ StageMap[u] = Stage(u)
  BY OneUnitChanges
<1>2. (\A q \in u : Value(q)' = Value(q)) => ValueMap' = ValueMap
  BY <1>1 DEF ValueMap
<1>3. CASE /\ Stage(u) = "closed" /\ Stage(u)' = "open"
           /\ \A q \in u : Value(q)' = Value(q)
  <2>1. Contract!Open(u)
    BY <1>1, <1>2, <1>3 DEF Contract!Open, StageMap, ValueMap
  <2>2. QED
    BY <2>1 DEF Seen, Contract!Next
<1>4. CASE /\ Stage(u) = "open" /\ Stage(u)' = "closed"
           /\ \A q \in u : Value(q)' = Value(q)
  <2>1. Contract!Abandon(u)
    BY <1>1, <1>2, <1>4 DEF Contract!Abandon, StageMap, ValueMap
  <2>2. QED
    BY <2>1 DEF Seen, Contract!Next
<1>5. CASE /\ Stage(u) = "open" /\ Stage(u)' = "published"
           /\ \A q \in u : Value(q)' \in Lineages
  <2>1. PICK result : result = [q \in u |-> Value(q)']
    OBVIOUS
  <2>2. result \in [u -> Lineages]
    BY <1>5, <2>1
  <2>3. ValueMap' = [q \in UNION Units |-> IF q \in u THEN result[q] ELSE ValueMap[q]]
    BY <1>1, <2>1
  <2>4. Contract!Publish(u)
    BY <1>1, <1>5, <2>2, <2>3 DEF Contract!Publish, StageMap, ValueMap
  <2>5. QED
    BY <2>4 DEF Seen, Contract!Next
<1>6. QED
  BY <1>3, <1>4, <1>5

-----------------------------------------------------------------------------
(* The operations on one row.                                              *)

LEMMA StartSeen ==
  ASSUME RegistryInv, RegistryInv', NEW q \in Queries, NEW a \in DOMAIN attempts[q], Start(q, a)
  PROVE  Seen
<1>1. /\ attempts[q][a].status \in Live
      /\ WithStatus(attempts[q][a], "RUNNING").status = "RUNNING"
      /\ RowBecomes(q, a, WithStatus(attempts[q][a], "RUNNING"))
  BY StartRow, RowReplaced DEF RegistryInv
<1>2. KeptOutside({})
  BY <1>1, RowQuiet DEF RegistryInv, Live
<1>3. QED
  BY <1>2, StutterSeen

LEMMA RegisterSeen ==
  ASSUME RegistryInv, RegistryInv', NEW q \in Queries, NEW a \in DOMAIN attempts[q],
         NEW n \in 1..SourceDates, NEW content \in Lineages,
         NEW predecessor \in Lineages \cup {NoLineage},
         RegisterCheckpoint(q, a, n, content, predecessor)
  PROVE  Seen
<1>1. CASE UNCHANGED registryVars
  BY <1>1 DEF Seen, Contract!vars, registryVars, Stage, Value, PublishedAt, InStatus,
              InBatchStatus
<1>2. CASE /\ attempts[q][a].status = "RUNNING"
           /\ Longer(attempts[q][a], content).status = "RUNNING"
           /\ ReplacesRow(q, a, Longer(attempts[q][a], content))
  <2>1. RowBecomes(q, a, Longer(attempts[q][a], content))
    BY <1>2, RowReplaced DEF RegistryInv
  <2>2. KeptOutside({})
    BY <1>2, <2>1, RowQuiet DEF RegistryInv, Live
  <2>3. QED
    BY <2>2, StutterSeen
<1>3. QED
  BY <1>1, <1>2, RegisterRow

LEMMA CompleteSeen ==
  ASSUME RegistryInv, RegistryInv', NEW q \in Queries, NEW a \in DOMAIN attempts[q],
         NEW content \in Lineages, NEW result \in Lineages,
         Complete(q, a, content, result)
  PROVE  Seen
<1> DEFINE row == Succeeded(attempts[q][a], result)
<1>1. /\ q \notin Pair
      /\ \/ attempts[q][a].status = "RUNNING"
         \/ attempts[q][a].status = "SUCCEEDED" /\ attempts[q][a].result = result
      /\ row.status = "SUCCEEDED"
      /\ row.result = result
      /\ RowBecomes(q, a, row)
  BY CompleteRow, RowReplaced DEF RegistryInv
<1>2. OneExecution /\ OneExecution'
  BY DEF RegistryInv
<1> HIDE DEF row
<1>3. CASE attempts[q][a].status = "SUCCEEDED" /\ attempts[q][a].result = result
  <2>1. KeptOutside({})
    BY <1>1, <1>2, <1>3, RowQuiet DEF Live
  <2>2. QED
    BY <2>1, StutterSeen
<1>4. CASE attempts[q][a].status = "RUNNING"
  <2>1. PublishedAt(q) = {} /\ InStatus(q, Live) # {}
    BY <1>2, <1>4 DEF OneExecution, PublishedAt, InStatus, Live
  <2>2. Stage({q}) = "open"
    BY <1>1, <2>1, StageAlone
  <2>3. a \in PublishedAt(q)' /\ attempts'[q][a].result = result
    BY <1>1 DEF RowBecomes, PublishedAt, InStatus
  <2>4. Stage({q})' = "published"
    BY <1>1, <2>3, StageAloneNext
  <2>5. Value(q)' = result
    BY <1>2, <2>3, ValueNext
  <2>6. KeptOutside({q})
    BY <1>1, <1>2, RowOutside
  <2>7. {q} \in Units
    BY <1>1, UnitsPartition
  <2>8. QED
    BY <2>2, <2>4, <2>5, <2>6, <2>7, UnitSeen
<1>5. QED
  BY <1>1, <1>3, <1>4

(* The failure of a query released alone abandons it; a queued member of   *)
(* the pair that is in no batch does not count for the pair's stage.       *)
LEMMA FailSeen ==
  ASSUME RegistryInv, RegistryInv', NEW q \in Queries, NEW a \in DOMAIN attempts[q],
         NEW message \in Messages, Fail(q, a, message) \/ FailUnpaired(q, a, message)
  PROVE  Seen
<1> DEFINE row == Failed(attempts[q][a], message)
<1>1. /\ attempts[q][a].status \in Live \cup {"FAILED"}
      /\ row.status = "FAILED"
      /\ RowBecomes(q, a, row)
  BY FailedRow, RowReplaced DEF RegistryInv
<1>2. OneExecution /\ OneExecution'
  BY DEF RegistryInv
<1> HIDE DEF row
<1>3. CASE q \in Pair \/ attempts[q][a].status = "FAILED"
  <2>1. KeptOutside({})
    BY <1>1, <1>2, <1>3, RowQuiet DEF Live
  <2>2. QED
    BY <2>1, StutterSeen
<1>4. CASE q \notin Pair /\ attempts[q][a].status \in Live
  <2>1. PublishedAt(q) = {} /\ InStatus(q, Live) # {}
    BY <1>2, <1>4 DEF OneExecution, PublishedAt, InStatus, Live
  <2>2. Stage({q}) = "open"
    BY <1>4, <2>1, StageAlone
  <2>3. PublishedAt(q)' = {} /\ InStatus(q, Live)' = {}
    <3>1. \A c \in DOMAIN attempts[q] : attempts[q][c].status \in Live \cup {"SUCCEEDED"} => c = a
      BY <1>2, <1>4 DEF OneExecution, InStatus
    <3>2. \A c \in DOMAIN attempts'[q] : attempts'[q][c].status \notin Live \cup {"SUCCEEDED"}
      BY <1>1, <3>1 DEF RowBecomes, Live
    <3>3. QED
      BY <3>2 DEF PublishedAt, InStatus
  <2>4. Stage({q})' = "closed"
    BY <1>4, <2>3, StageAloneNext
  <2>5. Value(q)' = Value(q)
    BY <2>1, <2>3 DEF Value
  <2>6. KeptOutside({q})
    BY <1>1, <1>2, RowOutside
  <2>7. {q} \in Units
    BY <1>4, UnitsPartition
  <2>8. QED
    BY <2>2, <2>4, <2>5, <2>6, <2>7, UnitSeen
<1>5. QED
  BY <1>1, <1>3, <1>4

(* A new row opens a query released alone when it is queued.               *)
LEMMA ReserveSeen ==
  ASSUME RegistryInv, RegistryInv', NEW q \in Queries, Reserve(q)
  PROVE  Seen
<1>1. /\ OneExecution /\ OneExecution'
      /\ attempts \in [Queries -> Seq(Attempt)]
      /\ UNCHANGED <<batches, releases>>
  BY DEF RegistryInv, RegistryTypeOK, Reserve, ReserveEffect
<1>2. InBatchStatus({"PREPARED"})' = InBatchStatus({"PREPARED"})
  BY <1>1 DEF InBatchStatus
<1>3. ASSUME NEW status \in {"QUEUED", "SKIPPED_DUPLICATE"},
             attempts' = [attempts EXCEPT ![q] = Append(@, Row(status))]
      PROVE  /\ KeptOutside({q})
             /\ PublishedAt(q)' = PublishedAt(q)
             /\ Value(q)' = Value(q)
             /\ status = "QUEUED" => InStatus(q, Live)' # {}
             /\ status # "QUEUED" => InStatus(q, Live)' = InStatus(q, Live)
  <2>1. Row(status).status = status
    BY DEF Row
  <2>2. PICK new : new = Len(attempts[q]) + 1
    OBVIOUS
  <2>3. /\ DOMAIN attempts'[q] = DOMAIN attempts[q] \cup {new}
        /\ attempts'[q][new] = Row(status)
        /\ new \notin DOMAIN attempts[q]
        /\ \A c \in DOMAIN attempts[q] : attempts'[q][c] = attempts[q][c]
    <3>1. attempts'[q] = Append(attempts[q], Row(status)) /\ attempts[q] \in Seq(Attempt)
      BY <1>1, <1>3
    <3>2. QED
      BY <2>2, <3>1
  <2>4. PublishedAt(q)' = PublishedAt(q)
    BY <2>1, <2>3 DEF PublishedAt, InStatus
  <2>5. \A c \in PublishedAt(q) : attempts'[q][c].result = attempts[q][c].result
    BY <2>3 DEF PublishedAt, InStatus
  <2>6. Value(q)' = Value(q)
    BY <1>1, <2>4, <2>5, SameValue
  <2>7. status = "QUEUED" => InStatus(q, Live)' # {}
    BY <2>1, <2>3 DEF InStatus, Live
  <2>8. status # "QUEUED" => InStatus(q, Live)' = InStatus(q, Live)
    BY <2>1, <2>3 DEF InStatus, Live
  <2>9. ASSUME NEW p \in Queries \ {q}
        PROVE  /\ PublishedAt(p)' = PublishedAt(p)
               /\ InStatus(p, Live)' = InStatus(p, Live)
               /\ Value(p)' = Value(p)
    <3>1. attempts'[p] = attempts[p]
      BY <1>1, <1>3
    <3>2. PublishedAt(p)' = PublishedAt(p) /\ InStatus(p, Live)' = InStatus(p, Live)
      BY <3>1 DEF PublishedAt, InStatus, Live
    <3>3. Value(p)' = Value(p)
      BY <1>1, <3>1, <3>2, SameValue
    <3>4. QED
      BY <3>2, <3>3
  <2>10. KeptOutside({q})
    BY <1>2, <2>9 DEF KeptOutside
  <2>11. QED
    BY <2>4, <2>6, <2>7, <2>8, <2>10
<1>4. CASE attempts' = [attempts EXCEPT ![q] = Append(@, Row("SKIPPED_DUPLICATE"))]
  <2>1. KeptOutside({})
    BY <1>2, <1>3, <1>4 DEF KeptOutside
  <2>2. QED
    BY <2>1, StutterSeen
<1>5. CASE attempts' = attempts
  BY <1>1, <1>5 DEF Seen, Contract!vars, Stage, Value, PublishedAt, InStatus, InBatchStatus
<1>6. CASE /\ InStatus(q, {"SUCCEEDED"} \cup Live) = {}
           /\ attempts' = [attempts EXCEPT ![q] = Append(@, Row("QUEUED"))]
  <2>1. /\ KeptOutside({q})
        /\ PublishedAt(q)' = PublishedAt(q)
        /\ Value(q)' = Value(q)
        /\ InStatus(q, Live)' # {}
    BY <1>3, <1>6
  <2>2. PublishedAt(q) = {} /\ InStatus(q, Live) = {}
    BY <1>6 DEF PublishedAt, InStatus, Live
  <2>3. CASE q \in Pair
    <3>1. KeptOutside({})
      BY <1>2, <2>1, <2>3 DEF KeptOutside
    <3>2. QED
      BY <3>1, StutterSeen
  <2>4. CASE q \notin Pair
    <3>1. Stage({q}) = "closed" /\ Stage({q})' = "open" /\ {q} \in Units
      BY <2>1, <2>2, <2>4, StageAlone, StageAloneNext, UnitsPartition
    <3>2. QED
      BY <2>1, <3>1, UnitSeen
  <2>5. QED
    BY <2>3, <2>4
<1>7. QED
  BY <1>4, <1>5, <1>6 DEF Reserve, ReserveEffect

-----------------------------------------------------------------------------
(* The operations on the pair.                                             *)

(* Members of a prepared batch are live, so no member is published; a      *)
(* published member is in a released batch.                                *)
LEMMA PreparedIsOpen ==
  ASSUME RegistryInv, NEW b \in DOMAIN batches, batches[b].status = "PREPARED", NEW q \in Pair
  PROVE  PublishedAt(q) = {}
<1>1. OneExecution /\ BatchOutcome(b)
  BY DEF RegistryInv, PairTogether
<1>2. batches[b].members[q] \in InStatus(q, Live)
  BY <1>1 DEF BatchOutcome, MembersExist, MembersIn, HasAttempt, InStatus
<1>3. QED
  BY <1>1, <1>2, PairIsAmongQueries DEF OneExecution, PublishedAt, InStatus, Live

LEMMA PublishedIsReleased ==
  ASSUME RegistryInv, NEW q \in Pair, PublishedAt(q) # {}
  PROVE  InBatchStatus({"RELEASED"}) # {}
<1>1. PICK a \in DOMAIN attempts[q] : attempts[q][a].status = "SUCCEEDED"
  BY DEF PublishedAt, InStatus
<1>2. PICK b \in DOMAIN batches : batches[b].members[q] = a
  BY <1>1 DEF RegistryInv, BoundOnce
<1>3. BatchOutcome(b) /\ batches[b].status \in {"PREPARED", "RELEASED", "FAILED"}
  BY BatchShape DEF RegistryInv, PairTogether, Batch
<1>4. batches[b].status = "RELEASED"
  BY <1>1, <1>2, <1>3 DEF BatchOutcome, MembersIn, Live
<1>5. QED
  BY <1>4 DEF InBatchStatus

(* A step of the pair is not seen by readers of the other queries.         *)
LEMMA PairOutside ==
  ASSUME RegistryInv, RegistryInv', NEW b \in DOMAIN batches, NEW rows \in [Pair -> Attempt],
         NEW status, PairBecomes(b, rows, status)
  PROVE  KeptOutside(Pair)
<1>1. OneExecution /\ OneExecution'
  BY DEF RegistryInv
<1>2. ASSUME NEW q \in Queries \ Pair
      PROVE  /\ PublishedAt(q)' = PublishedAt(q)
             /\ InStatus(q, Live)' = InStatus(q, Live)
             /\ Value(q)' = Value(q)
  <2>1. attempts'[q] = attempts[q]
    BY DEF PairBecomes
  <2>2. PublishedAt(q)' = PublishedAt(q) /\ InStatus(q, Live)' = InStatus(q, Live)
    BY <2>1 DEF PublishedAt, InStatus, Live
  <2>3. Value(q)' = Value(q)
    BY <1>1, <2>1, <2>2, SameValue
  <2>4. QED
    BY <2>2, <2>3
<1>3. QED
  BY <1>2 DEF KeptOutside

LEMMA ReservePairSeen ==
  ASSUME RegistryInv, RegistryInv', NEW members \in [Pair -> 1..MaxAttempts], Pair # {},
         ReservePair(members)
  PROVE  Seen
<1>1. /\ UNCHANGED <<attempts, releases>>
      /\ OneExecution /\ OneExecution'
      /\ batches \in Seq(Batch)
  BY DEF RegistryInv, RegistryTypeOK, ReservePair, ReservePairEffect
<1>2. \A q \in Queries : /\ PublishedAt(q)' = PublishedAt(q)
                         /\ InStatus(q, Live)' = InStatus(q, Live)
  BY <1>1 DEF PublishedAt, InStatus, Live
<1>3. \A q \in Queries : Value(q)' = Value(q)
  BY <1>1, <1>2, SameValue
<1>4. CASE ~PairIsNew(members)
  <2>1. batches' = batches
    BY <1>4 DEF ReservePair, ReservePairEffect
  <2>2. KeptOutside({})
    BY <1>2, <1>3, <2>1 DEF KeptOutside, InBatchStatus
  <2>3. QED
    BY <2>2, StutterSeen
<1>5. CASE PairIsNew(members)
  <2> DEFINE batch == [members |-> members, status |-> "PREPARED", error |-> NoError]
  <2>1. batches' = Append(batches, batch)
    BY <1>5 DEF ReservePair, ReservePairEffect
  <2>2. batch \in Batch /\ batch.status = "PREPARED"
    BY LimitsAreNumbers DEF Batch, Members
  <2> HIDE DEF batch
  <2>3. InBatchStatus({"PREPARED"})' # {}
    <3>1. PICK new : new = Len(batches) + 1
      OBVIOUS
    <3>2. new \in DOMAIN batches' /\ batches'[new] = batch
      BY <1>1, <2>1, <2>2, <3>1
    <3>3. QED
      BY <2>2, <3>2 DEF InBatchStatus
  <2>4. InBatchStatus({"PREPARED"}) = {} /\ InBatchStatus({"RELEASED"}) = {}
    BY <1>5 DEF PairIsNew, InBatchStatus
  <2>5. \A q \in Pair : PublishedAt(q) = {}
    BY <2>4, PublishedIsReleased
  <2>6. Stage(Pair) = "closed"
    BY <2>4, <2>5 DEF Stage
  <2>7. Stage(Pair)' = "open"
    BY <1>2, <2>3, <2>5, PairIsAmongQueries DEF Stage
  <2>8. KeptOutside(Pair)
    BY <1>2, <1>3 DEF KeptOutside
  <2>9. Pair \in Units /\ \A q \in Pair : Value(q)' = Value(q)
    BY <1>3, UnitsPartition, PairIsAmongQueries
  <2>10. QED
    BY <2>6, <2>7, <2>8, <2>9, UnitSeen
<1>6. QED
  BY <1>4, <1>5

LEMMA CompletePairSeen ==
  ASSUME RegistryInv, RegistryInv', NEW members \in [Pair -> 1..MaxAttempts], Pair # {},
         NEW b \in DOMAIN batches,
         NEW contents \in [Pair -> Lineages], NEW results \in [Pair -> Lineages],
         CompletePair(b, members, contents, results)
  PROVE  Seen
<1>1. CASE UNCHANGED registryVars
  BY <1>1 DEF Seen, Contract!vars, registryVars, Stage, Value, PublishedAt, InStatus,
              InBatchStatus
<1>2. ASSUME NEW rows \in [Pair -> Attempt],
             PairBecomes(b, rows, "RELEASED"),
             PairReleasedAs(b, rows),
             \A q \in Pair : Shaped(rows[q]) /\ rows[q].result = results[q]
      PROVE  Seen
  <2>1. batches[b].status = "PREPARED" /\ \A q \in Pair : rows[q].status = "SUCCEEDED"
    BY <1>2 DEF PairReleasedAs
  <2>2. \A q \in Pair : PublishedAt(q) = {}
    BY <2>1, PreparedIsOpen
  <2>3. Stage(Pair) = "open"
    BY <2>1, <2>2 DEF Stage, InBatchStatus
  <2>4. ASSUME NEW q \in Pair
        PROVE  PublishedAt(q)' # {} /\ Value(q)' = results[q]
    <3>1. PICK a : a = batches[b].members[q]
      OBVIOUS
    <3>2. /\ a \in DOMAIN attempts'[q]
          /\ attempts'[q][a] = rows[q]
      BY <1>2, <3>1, PairRows, BoundRowsExist, PairIsAmongQueries
    <3>3. a \in PublishedAt(q)' /\ attempts'[q][a].result = results[q]
      BY <1>2, <2>1, <3>2 DEF PublishedAt, InStatus
    <3>4. QED
      BY <3>3, ValueNext, PairIsAmongQueries DEF RegistryInv
  <2>5. Stage(Pair)' = "published"
    BY <2>4 DEF Stage
  <2>6. KeptOutside(Pair) /\ Pair \in Units
    BY <1>2, PairOutside, UnitsPartition
  <2>7. \A q \in Pair : Value(q)' \in Lineages
    BY <2>4
  <2>8. QED
    BY <2>3, <2>5, <2>6, <2>7, UnitSeen
<1>3. CASE ~UNCHANGED registryVars
  <2>1. PICK rows \in [Pair -> Attempt] :
          /\ PairBecomes(b, rows, "RELEASED")
          /\ PairReleasedAs(b, rows)
          /\ \A q \in Pair : /\ Shaped(rows[q])
                             /\ rows[q].result = results[q]
                             /\ rows[q].chain = attempts[q][members[q]].chain
    BY <1>3, CompletePairStep
  <2>2. QED
    BY <1>2, <2>1
<1>4. QED
  BY <1>1, <1>3

LEMMA FailPairSeen ==
  ASSUME RegistryInv, RegistryInv', Pair # {}, NEW b \in DOMAIN batches,
         NEW message \in Messages, FailPair(b, message)
  PROVE  Seen
<1>1. PICK rows \in [Pair -> Attempt] : /\ PairBecomes(b, rows, "FAILED")
                                        /\ PairFailedAs(b, rows)
                                        /\ \A q \in Pair : Shaped(rows[q])
  BY FailPairStep
<1>2. /\ batches[b].status \in {"PREPARED", "FAILED"}
      /\ \A q \in Pair : rows[q].status = "FAILED"
      /\ DOMAIN batches' = DOMAIN batches
      /\ batches'[b].status = "FAILED"
      /\ \A c \in DOMAIN batches : c # b => batches'[c] = batches[c]
  BY <1>1 DEF PairFailedAs, PairBecomes
<1>3. KeptOutside(Pair) /\ Pair \in Units
  BY <1>1, PairOutside, UnitsPartition
<1>4. ASSUME NEW q \in Pair
      PROVE  /\ \A a \in PublishedAt(q)' : a \in PublishedAt(q)
                                           /\ attempts'[q][a] = attempts[q][a]
             /\ batches[b].status = "FAILED" => PublishedAt(q)' = PublishedAt(q)
  <2>1. /\ DOMAIN attempts'[q] = DOMAIN attempts[q]
        /\ attempts'[q][batches[b].members[q]] = rows[q]
        /\ \A a \in DOMAIN attempts[q] :
             attempts'[q][a] # attempts[q][a] => a = batches[b].members[q]
    BY <1>1, PairRows, PairIsAmongQueries
  <2>2. BatchOutcome(b)
    BY DEF RegistryInv, PairTogether
  <2>3. batches[b].status = "FAILED" => attempts[q][batches[b].members[q]].status = "FAILED"
    BY <2>2 DEF BatchOutcome, MembersIn
  <2>4. QED
    BY <1>2, <2>1, <2>3 DEF PublishedAt, InStatus
<1>5. CASE batches[b].status = "FAILED"
  <2>1. InBatchStatus({"PREPARED"})' = InBatchStatus({"PREPARED"})
    BY <1>2, <1>5 DEF InBatchStatus
  <2>2. \A q \in Pair : PublishedAt(q)' = PublishedAt(q) /\ Value(q)' = Value(q)
    BY <1>4, <1>5, SameValue, PairIsAmongQueries DEF RegistryInv
  <2>3. KeptOutside({})
    BY <1>3, <2>1, <2>2 DEF KeptOutside
  <2>4. QED
    BY <2>3, StutterSeen
<1>6. CASE batches[b].status = "PREPARED"
  <2>1. \A q \in Pair : PublishedAt(q) = {}
    BY <1>6, PreparedIsOpen
  <2>2. Stage(Pair) = "open"
    BY <1>6, <2>1 DEF Stage, InBatchStatus
  <2>3. \A q \in Pair : PublishedAt(q)' = {}
    BY <1>4, <2>1
  <2>4. InBatchStatus({"PREPARED"})' = {}
    BY <1>2, <1>6 DEF RegistryInv, OneOpenBatch, InBatchStatus
  <2>5. Stage(Pair)' = "closed"
    BY <2>3, <2>4 DEF Stage
  <2>6. \A q \in Pair : Value(q)' = Value(q)
    BY <2>1, <2>3 DEF Value
  <2>7. QED
    BY <1>3, <2>2, <2>5, <2>6, UnitSeen
<1>7. QED
  BY <1>2, <1>5, <1>6

-----------------------------------------------------------------------------
LEMMA StepSeen ==
  ASSUME RegistryInv, RegistryInv', [RegistryNext]_registryVars
  PROVE  Seen
<1>1. ASSUME NEW q \in Queries, Reserve(q)
      PROVE  Seen
  BY <1>1, ReserveSeen
<1>2. ASSUME NEW q \in Queries, NEW a \in DOMAIN attempts[q], Start(q, a)
      PROVE  Seen
  BY <1>2, StartSeen
<1>3. ASSUME NEW q \in Queries, NEW a \in DOMAIN attempts[q],
             NEW n \in 1..SourceDates, NEW content \in Lineages,
             NEW predecessor \in Lineages \cup {NoLineage},
             RegisterCheckpoint(q, a, n, content, predecessor)
      PROVE  Seen
  BY <1>3, RegisterSeen
<1>4. ASSUME NEW q \in Queries, NEW a \in DOMAIN attempts[q],
             NEW content \in Lineages, NEW result \in Lineages,
             Complete(q, a, content, result)
      PROVE  Seen
  BY <1>4, CompleteSeen
<1>5. ASSUME NEW q \in Queries, NEW a \in DOMAIN attempts[q], NEW message \in Messages,
             Fail(q, a, message) \/ FailUnpaired(q, a, message)
      PROVE  Seen
  BY <1>5, FailSeen
<1>6. ASSUME NEW members \in [Pair -> 1..MaxAttempts], Pair # {}, ReservePair(members)
      PROVE  Seen
  BY <1>6, ReservePairSeen
<1>7. ASSUME NEW members \in [Pair -> 1..MaxAttempts], Pair # {}, NEW b \in DOMAIN batches,
             NEW contents \in [Pair -> Lineages], NEW results \in [Pair -> Lineages],
             CompletePair(b, members, contents, results)
      PROVE  Seen
  BY <1>7, CompletePairSeen
<1>8. ASSUME Pair # {}, NEW b \in DOMAIN batches, NEW message \in Messages, FailPair(b, message)
      PROVE  Seen
  BY <1>8, FailPairSeen
<1>9. CASE UNCHANGED registryVars
  BY <1>9 DEF Seen, Contract!vars, registryVars, Stage, Value, PublishedAt, InStatus,
              InBatchStatus
<1>10. QED
  BY <1>1, <1>2, <1>3, <1>4, <1>5, <1>6, <1>7, <1>8, <1>9 DEF RegistryNext

(* The registry implements the contract of its readers: whatever callers   *)
(* reserve, start, complete and fail, a query's or the pair's results      *)
(* appear at once, at most once, and never change.                         *)
THEOREM RegistryRefines == RegistrySpec => KeepsContract
<1>1. RegistryInit => Contract!Init
  <2>1. SUFFICES ASSUME RegistryInit PROVE Contract!Init
    OBVIOUS
  <2>2. \A q \in Queries : InStatus(q, {"SUCCEEDED"}) = {} /\ InStatus(q, Live) = {}
    BY <2>1 DEF RegistryInit, InStatus
  <2>3. InBatchStatus({"PREPARED"}) = {}
    BY <2>1 DEF RegistryInit, InBatchStatus
  <2>4. \A u \in Units : Stage(u) = "closed"
    BY <2>2, <2>3, UnitsPartition, PairIsAmongQueries DEF Stage, PublishedAt
  <2>5. \A q \in UNION Units : Value(q) = NoLineage
    BY <2>2, UnitsPartition DEF Value, PublishedAt
  <2>6. QED
    BY <2>4, <2>5 DEF Contract!Init
<1>2. RegistryInv /\ RegistryInv' /\ [RegistryNext]_registryVars => Seen
  BY StepSeen
<1>3. QED
  BY <1>1, <1>2, RegistryConsistent, PTL
  DEF RegistrySpec, KeepsContract, Contract!Spec, Seen
=============================================================================
