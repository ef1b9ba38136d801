------------------------ MODULE OutcomePipelineSafety ------------------------
(***************************************************************************)
(* Proofs about the drivers of outcome replays: what they hold in memory   *)
(* agrees with the registry whichever answers are lost, whichever driver   *)
(* crashes and whatever the others do, for any drivers, queries, number of *)
(* source dates and number of faults.                                      *)
(***************************************************************************)
EXTENDS OutcomePipeline, OutcomeRegistrySafety

(* The plan up to a source date, and the whole plan.                       *)
Prefix(n) == [date \in 1..n |-> date]
Planned == Prefix(SourceDates)

(* Replays register the dates of the plan, one checkpoint after each, and  *)
(* succeed with the whole plan.                                            *)
PlannedRow(row) ==
  /\ \A n \in 1..Len(row.chain) : row.chain[n] = Prefix(n)
  /\ row.status = "SUCCEEDED" => row.result = Planned

PlannedRows ==
  \A q \in Queries : /\ Len(attempts[q]) <= MaxAttempts
                     /\ \A a \in DOMAIN attempts[q] : PlannedRow(attempts[q][a])

(* A failed batch has the error of its members: a repeated failure of the  *)
(* pair changes nothing.                                                   *)
BatchErrors ==
  \A b \in DOMAIN batches : batches[b].status = "FAILED" =>
    \A q \in Pair : attempts[q][batches[b].members[q]].error = batches[b].error

TablesInv == RegistryInv /\ PlannedRows /\ BatchErrors

-----------------------------------------------------------------------------
(* What a driver holds in memory, and what the registry says of it.        *)

RunBy(p) == {Unit[p][m] : m \in DOMAIN Unit[p]}
Running == {"start", "load", "replay", "register", "publish"}

(* Its reservations and its batch exist.                                   *)
Holds(p, me) ==
  /\ \A q \in Queries : me.attempt[q] # 0 => me.attempt[q] \in DOMAIN attempts[q]
  /\ me.execute \subseteq RunBy(p)
  /\ \A q \in me.execute : me.attempt[q] # 0
  /\ me.batch # 0 => /\ me.batch \in DOMAIN batches
                     /\ batches[me.batch].members = [q \in Pair |-> me.attempt[q]]

(* Where a driver can be, alone and for a pair.                            *)
Placed(p, me) ==
  /\ me.m = 2 => Paired(p)
  /\ me.pc \in {"complete", "fail", "succeeded", "skipped"} => ~Paired(p)
  /\ me.pc \in {"reserve_pair", "complete_pair", "release", "fail_pair", "cleanup"} => Paired(p)
  /\ me.pc \in {"reserve_pair", "release"} => me.m = 1 /\ ~me.broken
  /\ me.pc = "reserve" => /\ me.batch = 0 /\ ~me.broken
                          /\ me.m = 2 => me.attempt[Unit[p][1]] # 0
  /\ me.pc \in Running \cup {"reserve_pair", "complete", "complete_pair"} =>
       \A q \in RunBy(p) : me.attempt[q] # 0

(* How far its replay is, against the chain of its row.                    *)
Worked(p, me) ==
  LET q == Unit[p][me.m]
      chain == attempts[q][me.attempt[q]].chain
  IN  /\ me.pc \in {"replay", "register", "publish", "complete"} =>
           /\ me.shards = Prefix(Len(me.shards))
           /\ me.economics = me.shards
           /\ Len(me.shards) <= SourceDates
      /\ me.pc = "replay" => Len(me.shards) < SourceDates /\ Len(me.shards) <= Len(chain)
      /\ me.pc = "register" => Len(me.shards) \in 1..(Len(chain) + 1)
      /\ me.pc \in {"publish", "complete"} =>
           Len(me.shards) = SourceDates /\ Len(chain) = SourceDates
      /\ me.pc = "complete" => me.finals[q] = Planned /\ me.results[q] = Planned
      /\ me.pc = "complete_pair" =>
           \A r \in Pair : me.finals[r] = Planned /\ me.results[r] = Planned
      /\ me.pc \in Running /\ me.m = 2 =>
           me.finals[Unit[p][1]] = Planned /\ me.results[Unit[p][1]] = Planned

IsFailed(me, q) == attempts[q][me.attempt[q]].status = "FAILED"

(* What it has reported, or is about to.                                   *)
Said(p, me) ==
  LET q == Unit[p][me.m]
      row == attempts[q][me.attempt[q]]
  IN  /\ me.pc \in {"succeeded", "skipped"} => me.attempt[q] # 0 /\ row.status = "SUCCEEDED"
      /\ me.pc = "succeeded" => row.result = me.results[q]
      /\ me.pc = "released" => \E r \in releases : r.members = [s \in Pair |-> me.attempt[s]]
      /\ me.pc = "failed" => \A s \in me.execute : IsFailed(me, s)
      /\ me.pc = "cleanup" /\ me.m = 2 /\ ~me.broken /\ Unit[p][1] \in me.execute =>
           IsFailed(me, Unit[p][1])

Knows(p, me) == Holds(p, me) /\ Placed(p, me) /\ Worked(p, me) /\ Said(p, me)

(* The inductive invariant.                                                *)
PipelineInv ==
  /\ TablesInv
  /\ driver \in [Drivers -> Process]
  /\ faults \in 0..MaxFaults
  /\ \A p \in Drivers : Knows(p, driver[p])

-----------------------------------------------------------------------------
(* The plan, date by date.                                                 *)

LEMMA PrefixShape ==
  ASSUME NEW n \in Nat
  PROVE  /\ Prefix(n) \in Seq(Nat)
         /\ Len(Prefix(n)) = n
         /\ \A date \in 1..n : Prefix(n)[date] = date
BY DEF Prefix

LEMMA PrefixNone == Prefix(0) = <<>>
BY DEF Prefix

LEMMA PrefixAppend ==
  ASSUME NEW n \in Nat
  PROVE  Append(Prefix(n), n + 1) = Prefix(n + 1)
BY DEF Prefix

LEMMA PrefixBefore ==
  ASSUME NEW n \in Nat \ {0}
  PROVE  SubSeq(Prefix(n), 1, n - 1) = Prefix(n - 1)
BY DEF Prefix

LEMMA PrefixIsLineage ==
  ASSUME NEW n \in 1..SourceDates
  PROVE  Prefix(n) \in Lineages
BY PlanIsAmongLineages DEF Prefix

(* The members of a unit.                                                  *)
LEMMA UnitShape ==
  ASSUME NEW p \in Drivers
  PROVE  /\ RunBy(p) \subseteq Queries
         /\ ~Paired(p) => /\ DOMAIN Unit[p] = {1} /\ Len(Unit[p]) = 1
                          /\ RunBy(p) = {Unit[p][1]} /\ Unit[p][1] \notin Pair
         /\ Paired(p) => /\ DOMAIN Unit[p] = {1, 2} /\ Len(Unit[p]) = 2
                         /\ RunBy(p) = Pair /\ Unit[p][1] # Unit[p][2]
                         /\ Pair = {Unit[p][1], Unit[p][2]}
<1>1. CASE \E q \in Queries \ Pair : Unit[p] = <<q>>
  BY <1>1 DEF RunBy, Paired
<1>2. CASE \E q, r \in Pair : q # r /\ Pair = {q, r} /\ Unit[p] = <<q, r>>
  BY <1>2, PairIsAmongQueries DEF RunBy, Paired
<1>3. QED
  BY <1>1, <1>2, DriversRunUnits

-----------------------------------------------------------------------------
(* Every operation of the registry only advances what it holds.            *)

Advances ==
  /\ \A q \in Queries : \A a \in DOMAIN attempts[q] :
       /\ a \in DOMAIN attempts'[q]
       /\ TerminalRow(q, a) => attempts'[q][a] = attempts[q][a]
       /\ Len(attempts[q][a].chain) <= Len(attempts'[q][a].chain)
  /\ \A b \in DOMAIN batches :
       /\ b \in DOMAIN batches'
       /\ batches'[b].members = batches[b].members
       /\ batches[b].status # "PREPARED" => batches'[b] = batches[b]
  /\ releases \subseteq releases'

LEMMA AdvancesStays ==
  ASSUME Advances
  PROVE  TerminalRowsStay
BY DEF Advances, TerminalRowsStay

(* A step that leaves the tables alone.                                    *)
LEMMA SameTables ==
  ASSUME TablesInv, UNCHANGED registryVars
  PROVE  TablesInv' /\ Advances
<1> USE DEF registryVars
<1>1. RegistryInv'
  BY StutterKeeps DEF TablesInv
<1>2. PlannedRows'
  BY DEF TablesInv, PlannedRows
<1>3. BatchErrors'
  BY DEF TablesInv, BatchErrors
<1>4. Advances
  <2>1. \A q \in Queries : \A a \in DOMAIN attempts[q] : Len(attempts[q][a].chain) \in Nat
    BY RowShape DEF TablesInv, RegistryInv, Attempt
  <2>2. QED
    BY <2>1 DEF Advances
<1>5. QED
  BY <1>1, <1>2, <1>3, <1>4 DEF TablesInv

(* The members of a failed batch are terminal rows, so their errors stay   *)
(* while no batch fails.                                                   *)
LEMMA ErrorsStay ==
  ASSUME TablesInv, Advances,
         \A b \in DOMAIN batches' : batches'[b].status = "FAILED" =>
           b \in DOMAIN batches /\ batches[b].status = "FAILED"
  PROVE  BatchErrors'
<1>1. SUFFICES ASSUME NEW b \in DOMAIN batches', batches'[b].status = "FAILED", NEW q \in Pair
               PROVE  attempts'[q][batches'[b].members[q]].error = batches'[b].error
  BY DEF BatchErrors
<1>2. /\ b \in DOMAIN batches
      /\ batches[b].status = "FAILED"
  BY <1>1
<1>3. batches'[b] = batches[b]
  BY <1>2 DEF Advances
<1>4. attempts[q][batches[b].members[q]].error = batches[b].error
  BY <1>2 DEF TablesInv, BatchErrors
<1>5. batches[b].members[q] \in DOMAIN attempts[q]
  BY <1>2, BoundRowsExist DEF TablesInv
<1>6. attempts[q][batches[b].members[q]].status = "FAILED"
  BY <1>2 DEF TablesInv, RegistryInv, PairTogether, BatchOutcome, MembersIn
<1>7. TerminalRow(q, batches[b].members[q])
  BY <1>6 DEF TerminalRow, Live
<1>8. QED
  BY <1>3, <1>4, <1>5, <1>7, PairIsAmongQueries DEF Advances

(* A step that replaces one row.                                           *)
LEMMA RowAdvances ==
  ASSUME TablesInv, RegistryInv', NEW q \in Queries, NEW a \in DOMAIN attempts[q], NEW row,
         ReplacesRow(q, a, row), PlannedRow(row),
         TerminalRow(q, a) => row = attempts[q][a],
         Len(attempts[q][a].chain) <= Len(row.chain)
  PROVE  TablesInv' /\ Advances
<1>1. RowBecomes(q, a, row)
  BY RowReplaced DEF TablesInv, RegistryInv
<1> USE DEF RowBecomes
<1>2. \A p \in Queries : /\ attempts[p] \in Seq(Attempt)
                         /\ attempts'[p] \in Seq(Attempt)
  BY <1>1 DEF TablesInv, RegistryInv, RegistryTypeOK
<1>3. \A p \in Queries : Len(attempts'[p]) = Len(attempts[p])
  <2>1. TAKE p \in Queries
  <2>2. DOMAIN attempts'[p] = DOMAIN attempts[p]
    BY <1>1
  <2>3. QED
    BY <1>2, <2>2
<1>4. PlannedRows'
  <2>1. ASSUME NEW p \in Queries, NEW c \in DOMAIN attempts'[p]
        PROVE  PlannedRow(attempts'[p][c])
    <3>1. c \in DOMAIN attempts[p]
      BY <1>1
    <3>2. CASE p = q /\ c = a
      BY <1>1, <3>2
    <3>3. CASE p # q \/ c # a
      BY <1>1, <3>1, <3>3 DEF TablesInv, PlannedRows
    <3>4. QED
      BY <3>2, <3>3
  <2>2. QED
    BY <1>3, <2>1 DEF TablesInv, PlannedRows
<1>5. Advances
  <2>1. ASSUME NEW p \in Queries, NEW c \in DOMAIN attempts[p]
        PROVE  /\ c \in DOMAIN attempts'[p]
               /\ TerminalRow(p, c) => attempts'[p][c] = attempts[p][c]
               /\ Len(attempts[p][c].chain) <= Len(attempts'[p][c].chain)
    <3>1. c \in DOMAIN attempts'[p]
      BY <1>1
    <3>2. CASE p = q /\ c = a
      BY <1>1, <3>1, <3>2
    <3>3. CASE p # q \/ c # a
      <4>1. attempts'[p][c] = attempts[p][c]
        BY <1>1, <3>3
      <4>2. Len(attempts[p][c].chain) \in Nat
        BY RowShape DEF TablesInv, RegistryInv, Attempt
      <4>3. QED
        BY <3>1, <4>1, <4>2
    <3>4. QED
      BY <3>2, <3>3
  <2>2. QED
    BY <1>1, <2>1 DEF Advances
<1>6. BatchErrors'
  BY <1>1, <1>5, ErrorsStay
<1>7. QED
  BY <1>4, <1>5, <1>6 DEF TablesInv

(* start_phase1a_outcome_replay.                                           *)
LEMMA StartAdvances ==
  ASSUME TablesInv, NEW q \in Queries, NEW a \in DOMAIN attempts[q], Start(q, a)
  PROVE  TablesInv' /\ Advances
<1> DEFINE row == WithStatus(attempts[q][a], "RUNNING")
<1>1. RegistryInv /\ RegistryInv'
  BY StartKeeps DEF TablesInv
<1>2. /\ attempts[q][a].status \in Live
      /\ row.status = "RUNNING"
      /\ ReplacesRow(q, a, row)
  BY <1>1, StartRow
<1>3. row.chain = attempts[q][a].chain
  BY DEF WithStatus
<1> HIDE DEF row
<1>4. PlannedRow(row)
  BY <1>2, <1>3 DEF TablesInv, PlannedRows, PlannedRow
<1>5. Len(attempts[q][a].chain) <= Len(row.chain)
  BY <1>1, <1>3, RowShape DEF RegistryInv, Attempt
<1>6. ~TerminalRow(q, a)
  BY <1>2 DEF TerminalRow
<1>7. QED
  BY <1>1, <1>2, <1>4, <1>5, <1>6, RowAdvances

(* register_phase1a_outcome_checkpoint, of the plan up to a date.          *)
LEMMA RegisterAdvances ==
  ASSUME TablesInv, NEW q \in Queries, NEW a \in DOMAIN attempts[q],
         NEW n \in 1..SourceDates, NEW predecessor \in Lineages \cup {NoLineage},
         RegisterCheckpoint(q, a, n, Prefix(n), predecessor)
  PROVE  TablesInv' /\ Advances /\ n <= Len(attempts'[q][a].chain)
<1>1. /\ RegistryInv /\ RegistryInv'
      /\ Prefix(n) \in Lineages
  BY RegisterKeeps, PrefixIsLineage DEF TablesInv
<1>2. PICK chain \in Seq(Lineages) : chain = attempts[q][a].chain
  BY <1>1, RowShape DEF RegistryInv, Attempt
<1>3. n \in 1..(Len(chain) + 1)
  BY <1>2 DEF RegisterCheckpoint, RegisterGranted
<1>4. CASE n \in DOMAIN chain
  <2>1. UNCHANGED registryVars
    BY <1>2, <1>4 DEF RegisterCheckpoint, RegisterEffect, registryVars
  <2>2. QED
    BY <1>2, <1>4, <2>1, SameTables DEF registryVars
<1>5. CASE n \notin DOMAIN chain
  <2>1. n = Len(chain) + 1
    BY <1>3, <1>5
  <2>2. PICK row : row = Longer(attempts[q][a], Prefix(n))
    OBVIOUS
  <2>3. /\ attempts[q][a].status = "RUNNING"
        /\ row.status = "RUNNING"
        /\ ReplacesRow(q, a, row)
    <3>1. ASSUME UNCHANGED registryVars
          PROVE  FALSE
      <4>1. attempts' = [attempts EXCEPT ![q] = Extend(q, a, Prefix(n))]
        BY <1>2, <1>5 DEF RegisterCheckpoint, RegisterEffect
      <4>2. attempts[q] = [attempts[q] EXCEPT ![a] = row]
        BY <1>1, <2>2, <3>1, <4>1, RowUpdates DEF registryVars, RegistryInv, RegistryTypeOK
      <4>3. attempts[q][a] = row
        BY <4>2
      <4>4. row.chain = Append(chain, Prefix(n))
        BY <1>2, <2>2 DEF Longer
      <4>5. QED
        BY <1>1, <1>2, <4>3, <4>4
    <3>2. QED
      BY <1>1, <2>2, <3>1, RegisterRow
  <2>4. row.chain = Append(chain, Prefix(n))
    BY <1>2, <2>2 DEF Longer
  <2>5. \A i \in 1..Len(chain) : chain[i] = Prefix(i)
    BY <1>2 DEF TablesInv, PlannedRows, PlannedRow
  <2>6. PlannedRow(row)
    BY <1>1, <2>1, <2>3, <2>4, <2>5 DEF PlannedRow
  <2>7. Len(row.chain) = n /\ Len(chain) <= Len(row.chain)
    BY <1>1, <2>1, <2>4
  <2>8. ~TerminalRow(q, a)
    BY <2>3 DEF TerminalRow, Live
  <2>9. TablesInv' /\ Advances
    BY <1>1, <1>2, <2>3, <2>6, <2>7, <2>8, RowAdvances
  <2>10. attempts'[q][a] = row
    BY <1>1, <2>3, RowReplaced DEF RowBecomes, RegistryInv
  <2>11. QED
    BY <2>7, <2>9, <2>10
<1>6. QED
  BY <1>4, <1>5

(* complete_phase1a_outcome_replay, with the whole plan.                   *)
LEMMA CompleteAdvances ==
  ASSUME TablesInv, NEW q \in Queries, NEW a \in DOMAIN attempts[q],
         Complete(q, a, Planned, Planned)
  PROVE  /\ TablesInv' /\ Advances
         /\ attempts'[q][a].status = "SUCCEEDED"
         /\ attempts'[q][a].result = Planned
<1> DEFINE row == Succeeded(attempts[q][a], Planned)
<1>1. Planned \in Lineages
  BY PrefixIsLineage, LimitsAreNumbers DEF Planned
<1>2. RegistryInv /\ RegistryInv'
  BY <1>1, CompleteKeeps DEF TablesInv
<1>3. /\ \/ attempts[q][a].status = "RUNNING"
         \/ attempts[q][a].status = "SUCCEEDED" /\ attempts[q][a].result = Planned
      /\ row.status = "SUCCEEDED"
      /\ row.result = Planned
      /\ ReplacesRow(q, a, row)
  BY <1>1, <1>2, CompleteRow
<1>4. row.chain = attempts[q][a].chain /\ row.error = attempts[q][a].error
  BY DEF Succeeded
<1>5. TerminalRow(q, a) => row = attempts[q][a]
  BY <1>2, <1>3, RowShape DEF Succeeded, TerminalRow, Live, RegistryInv, Attempt
<1> HIDE DEF row
<1>6. PlannedRow(row)
  BY <1>3, <1>4 DEF TablesInv, PlannedRows, PlannedRow
<1>7. Len(attempts[q][a].chain) <= Len(row.chain)
  BY <1>2, <1>4, RowShape DEF RegistryInv, Attempt
<1>8. TablesInv' /\ Advances
  BY <1>2, <1>3, <1>5, <1>6, <1>7, RowAdvances
<1>9. attempts'[q][a] = row
  BY <1>2, <1>3, RowReplaced DEF RowBecomes, RegistryInv
<1>10. QED
  BY <1>3, <1>8, <1>9

(* fail_phase1a_outcome_replay, and the failure of an unpaired P4 member.  *)
LEMMA FailAdvances ==
  ASSUME TablesInv, NEW q \in Queries, NEW a \in DOMAIN attempts[q],
         NEW message \in Messages, Fail(q, a, message) \/ FailUnpaired(q, a, message)
  PROVE  /\ TablesInv' /\ Advances
         /\ attempts'[q][a].status = "FAILED"
<1> DEFINE row == Failed(attempts[q][a], message)
<1>1. RegistryInv /\ RegistryInv'
  BY FailKeeps DEF TablesInv
<1>2. row.status = "FAILED" /\ ReplacesRow(q, a, row)
  BY <1>1, FailedRow
<1>3. \/ attempts[q][a].status \in Live
      \/ attempts[q][a].status = "FAILED" /\ attempts[q][a].error = message
  BY DEF Fail, FailUnpaired, FailGranted, FailUnpairedGranted, FailableBy, Live
<1>4. row.chain = attempts[q][a].chain /\ row.result = attempts[q][a].result
  BY DEF Failed
<1>5. TerminalRow(q, a) => row = attempts[q][a]
  BY <1>1, <1>3, RowShape DEF Failed, TerminalRow, Live, RegistryInv, Attempt
<1> HIDE DEF row
<1>6. PlannedRow(row)
  BY <1>2, <1>4 DEF TablesInv, PlannedRows, PlannedRow
<1>7. Len(attempts[q][a].chain) <= Len(row.chain)
  BY <1>1, <1>4, RowShape DEF RegistryInv, Attempt
<1>8. TablesInv' /\ Advances
  BY <1>1, <1>2, <1>5, <1>6, <1>7, RowAdvances
<1>9. attempts'[q][a] = row
  BY <1>1, <1>2, RowReplaced DEF RowBecomes, RegistryInv
<1>10. QED
  BY <1>2, <1>8, <1>9

(* reserve_phase1a_outcome_replay: what it answers names a row.            *)
LEMMA ReserveAdvances ==
  ASSUME TablesInv, NEW q \in Queries, Reserve(q)
  PROVE  /\ TablesInv' /\ Advances
         /\ \A a \in Nat, execute \in BOOLEAN : Reserved(q, a, execute) =>
              /\ a \in DOMAIN attempts'[q]
              /\ ~execute => attempts'[q][a].status = "SUCCEEDED"
<1>1. RegistryInv /\ RegistryInv'
  BY ReserveKeeps DEF TablesInv
<1>2. /\ attempts \in [Queries -> Seq(Attempt)]
      /\ UNCHANGED <<batches, releases>>
  BY <1>1 DEF RegistryInv, RegistryTypeOK, Reserve, ReserveEffect
<1>3. ASSUME NEW status \in {"QUEUED", "SKIPPED_DUPLICATE"},
             attempts' = [attempts EXCEPT ![q] = Append(@, Row(status))],
             Len(attempts[q]) < MaxAttempts
      PROVE  /\ TablesInv' /\ Advances
             /\ Len(attempts[q]) + 1 \in DOMAIN attempts'[q]
  <2>1. PICK row : row = Row(status)
    OBVIOUS
  <2>2. row.chain = <<>> /\ row.status = status
    BY <2>1 DEF Row
  <2>3. PlannedRow(row)
    BY <2>2 DEF PlannedRow
  <2>4. /\ attempts[q] \in Seq(Attempt)
        /\ attempts'[q] = Append(attempts[q], row)
        /\ \A p \in Queries : p # q => attempts'[p] = attempts[p]
    BY <1>2, <1>3, <2>1
  <2>5. /\ Len(attempts'[q]) = Len(attempts[q]) + 1
        /\ DOMAIN attempts'[q] = DOMAIN attempts[q] \cup {Len(attempts[q]) + 1}
        /\ attempts'[q][Len(attempts[q]) + 1] = row
        /\ \A c \in DOMAIN attempts[q] : attempts'[q][c] = attempts[q][c]
    BY <2>4
  <2>6. Len(attempts'[q]) <= MaxAttempts
    BY <1>3, <2>4, <2>5, LimitsAreNumbers
  <2>7. PlannedRows'
    <3>1. ASSUME NEW p \in Queries
          PROVE  /\ Len(attempts'[p]) <= MaxAttempts
                 /\ \A a \in DOMAIN attempts'[p] : PlannedRow(attempts'[p][a])
      <4>1. CASE p = q
        BY <2>3, <2>5, <2>6, <4>1 DEF TablesInv, PlannedRows
      <4>2. CASE p # q
        <5>1. attempts'[p] = attempts[p]
          BY <2>4, <4>2
        <5>2. QED
          BY <5>1 DEF TablesInv, PlannedRows
      <4>3. QED
        BY <4>1, <4>2
    <3>2. QED
      BY <3>1 DEF PlannedRows
  <2>8. Advances
    <3>1. ASSUME NEW p \in Queries, NEW a \in DOMAIN attempts[p]
          PROVE  /\ a \in DOMAIN attempts'[p]
                 /\ attempts'[p][a] = attempts[p][a]
      <4>1. CASE p = q
        BY <2>5, <4>1
      <4>2. CASE p # q
        <5>1. attempts'[p] = attempts[p]
          BY <2>4, <4>2
        <5>2. QED
          BY <5>1
      <4>3. QED
        BY <4>1, <4>2
    <3>2. \A p \in Queries : \A a \in DOMAIN attempts[p] : Len(attempts[p][a].chain) \in Nat
      BY <1>1, RowShape DEF RegistryInv, Attempt
    <3>3. QED
      BY <1>2, <3>1, <3>2 DEF Advances
  <2>9. BatchErrors'
    BY <1>2, <2>8, ErrorsStay
  <2>10. QED
    BY <1>1, <2>5, <2>7, <2>8, <2>9 DEF TablesInv
<1>4. CASE /\ InStatus(q, {"SUCCEEDED"}) # {}
           /\ attempts' = [attempts EXCEPT ![q] = Append(@, Row("SKIPPED_DUPLICATE"))]
  <2>1. Len(attempts[q]) < MaxAttempts
    BY <1>4 DEF Reserve, ReserveGranted
  <2>2. TablesInv' /\ Advances
    BY <1>3, <1>4, <2>1
  <2>3. ASSUME NEW a \in Nat, NEW execute \in BOOLEAN, Reserved(q, a, execute)
        PROVE  a \in DOMAIN attempts'[q] /\ attempts'[q][a].status = "SUCCEEDED"
    <3>1. a \in InStatus(q, {"SUCCEEDED"})
      BY <1>4, <2>3 DEF Reserved, InStatus
    <3>2. /\ a \in DOMAIN attempts[q]
          /\ attempts[q][a].status = "SUCCEEDED"
          /\ TerminalRow(q, a)
      BY <3>1 DEF InStatus, TerminalRow, Live
    <3>3. QED
      BY <2>2, <3>2 DEF Advances
  <2>4. QED
    BY <2>2, <2>3
<1>5. CASE /\ InStatus(q, {"SUCCEEDED"}) = {}
           /\ InStatus(q, Live) # {}
           /\ attempts' = attempts
  <2>1. TablesInv' /\ Advances
    BY <1>2, <1>5, SameTables DEF registryVars
  <2>2. ASSUME NEW a \in Nat, NEW execute \in BOOLEAN, Reserved(q, a, execute)
        PROVE  a \in DOMAIN attempts'[q] /\ execute
    BY <1>5, <2>2 DEF Reserved, InStatus, Live
  <2>3. QED
    BY <2>1, <2>2
<1>6. CASE /\ InStatus(q, {"SUCCEEDED"} \cup Live) = {}
           /\ attempts' = [attempts EXCEPT ![q] = Append(@, Row("QUEUED"))]
  <2>1. Len(attempts[q]) < MaxAttempts
    BY <1>6 DEF Reserve, ReserveGranted, InStatus, Live
  <2>2. TablesInv' /\ Advances /\ Len(attempts[q]) + 1 \in DOMAIN attempts'[q]
    BY <1>3, <1>6, <2>1
  <2>3. ASSUME NEW a \in Nat, NEW execute \in BOOLEAN, Reserved(q, a, execute)
        PROVE  a \in DOMAIN attempts'[q] /\ execute
    BY <1>6, <2>2, <2>3 DEF Reserved, InStatus, Live
  <2>4. QED
    BY <2>2, <2>3
<1>7. QED
  BY <1>4, <1>5, <1>6 DEF Reserve, ReserveEffect

(* A step that replaces both rows of a batch.                              *)
LEMMA PairAdvances ==
  ASSUME TablesInv, RegistryInv', NEW b \in DOMAIN batches, NEW rows \in [Pair -> Attempt],
         NEW status, PairBecomes(b, rows, status),
         releases \subseteq releases',
         batches[b].status # "PREPARED" => batches'[b] = batches[b],
         \A q \in Pair : LET a == batches[b].members[q]
                         IN  /\ PlannedRow(rows[q])
                             /\ TerminalRow(q, a) => rows[q] = attempts[q][a]
                             /\ Len(attempts[q][a].chain) <= Len(rows[q].chain)
  PROVE  PlannedRows' /\ Advances
<1>1. RegistryInv
  BY DEF TablesInv
<1>2. /\ attempts' \in [Queries -> Seq(Attempt)]
      /\ attempts \in [Queries -> Seq(Attempt)]
      /\ \A q \in Queries : DOMAIN attempts'[q] = DOMAIN attempts[q]
      /\ \A q \in Pair : attempts'[q][batches[b].members[q]] = rows[q]
      /\ \A q \in Queries : \A a \in DOMAIN attempts[q] :
           attempts'[q][a] # attempts[q][a] => q \in Pair /\ a = batches[b].members[q]
  BY <1>1, PairRows DEF RegistryInv, RegistryTypeOK
<1>3. ASSUME NEW q \in Queries, NEW a \in DOMAIN attempts[q]
      PROVE  /\ PlannedRow(attempts'[q][a])
             /\ TerminalRow(q, a) => attempts'[q][a] = attempts[q][a]
             /\ Len(attempts[q][a].chain) <= Len(attempts'[q][a].chain)
  <2>1. CASE attempts'[q][a] = attempts[q][a]
    <3>1. Len(attempts[q][a].chain) \in Nat
      BY <1>1, RowShape DEF RegistryInv, Attempt
    <3>2. QED
      BY <2>1, <3>1 DEF TablesInv, PlannedRows
  <2>2. CASE attempts'[q][a] # attempts[q][a]
    <3>1. q \in Pair /\ a = batches[b].members[q] /\ attempts'[q][a] = rows[q]
      BY <1>2, <2>2
    <3>2. QED
      BY <3>1
  <2>3. QED
    BY <2>1, <2>2
<1>4. PlannedRows'
  <2>1. ASSUME NEW q \in Queries
        PROVE  Len(attempts'[q]) <= MaxAttempts
    <3>1. DOMAIN attempts'[q] = DOMAIN attempts[q] /\ Len(attempts[q]) <= MaxAttempts
      BY <1>2 DEF TablesInv, PlannedRows
    <3>2. attempts[q] \in Seq(Attempt) /\ attempts'[q] \in Seq(Attempt)
      BY <1>2
    <3>3. QED
      BY <3>1, <3>2
  <2>2. QED
    BY <1>2, <1>3, <2>1 DEF PlannedRows
<1>5. Advances
  <2>1. \A c \in DOMAIN batches : /\ c \in DOMAIN batches'
                                  /\ batches'[c].members = batches[c].members
                                  /\ batches[c].status # "PREPARED" => batches'[c] = batches[c]
    BY DEF PairBecomes
  <2>2. QED
    BY <1>2, <1>3, <2>1 DEF Advances
<1>6. QED
  BY <1>4, <1>5

(* Members that exist are attempt numbers.                                 *)
LEMMA MembersAreNumbers ==
  ASSUME TablesInv, NEW members \in [Pair -> Nat], MembersExist(members)
  PROVE  members \in [Pair -> 1..MaxAttempts]
<1>1. ASSUME NEW q \in Pair
      PROVE  members[q] \in 1..MaxAttempts
  <2>1. attempts[q] \in Seq(Attempt) /\ Len(attempts[q]) <= MaxAttempts
    BY PairIsAmongQueries DEF TablesInv, RegistryInv, RegistryTypeOK, PlannedRows
  <2>2. members[q] \in DOMAIN attempts[q]
    BY DEF MembersExist, HasAttempt
  <2>3. QED
    BY <2>1, <2>2, LimitsAreNumbers
<1>2. QED
  BY <1>1

(* reserve_phase1a_p4_outcome_pair: what it answers names the batch of     *)
(* exactly these members.                                                  *)
LEMMA ReservePairAdvances ==
  ASSUME TablesInv, NEW members \in [Pair -> 1..MaxAttempts], ReservePair(members)
  PROVE  /\ TablesInv' /\ Advances
         /\ \A b \in Nat : ReservedBatch(members, b) =>
              b \in DOMAIN batches' /\ batches'[b].members = members
<1>1. RegistryInv /\ RegistryInv'
  BY ReservePairKeeps DEF TablesInv
<1>2. UNCHANGED <<attempts, releases>> /\ batches \in Seq(Batch)
  BY <1>1 DEF RegistryInv, RegistryTypeOK, ReservePair, ReservePairEffect
<1>3. CASE ~PairIsNew(members)
  <2>1. batches' = batches
    BY <1>3 DEF ReservePair, ReservePairEffect
  <2>2. TablesInv' /\ Advances
    BY <1>2, <2>1, SameTables DEF registryVars
  <2>3. PICK c \in InBatchStatus({"PREPARED", "RELEASED"}) : batches[c].members = members
    BY <1>3 DEF ReservePair, ReservePairGranted, PairReleased, PairResumed, InBatchStatus
  <2>4. ASSUME NEW b \in Nat, ReservedBatch(members, b)
        PROVE  b \in DOMAIN batches /\ batches[b].members = members
    <3>1. b \in InBatchStatus({"PREPARED", "RELEASED"})
      BY <1>3, <2>4 DEF ReservedBatch, InBatchStatus
    <3>2. b = c
      BY <1>1, <2>3, <3>1 DEF RegistryInv, OneOpenBatch
    <3>3. QED
      BY <2>3, <3>1, <3>2 DEF InBatchStatus
  <2>5. QED
    BY <2>1, <2>2, <2>4
<1>4. CASE PairIsNew(members)
  <2> DEFINE batch == [members |-> members, status |-> "PREPARED", error |-> NoError]
  <2>1. batches' = Append(batches, batch)
    BY <1>4 DEF ReservePair, ReservePairEffect
  <2>2. batch.members = members /\ batch.status = "PREPARED"
    OBVIOUS
  <2> HIDE DEF batch
  <2>3. /\ DOMAIN batches' = DOMAIN batches \cup {Len(batches) + 1}
        /\ batches'[Len(batches) + 1] = batch
        /\ \A b \in DOMAIN batches : batches'[b] = batches[b]
    BY <1>2, <2>1
  <2>4. PlannedRows'
    BY <1>2 DEF TablesInv, PlannedRows
  <2>5. Advances
    <3>1. \A q \in Queries : \A a \in DOMAIN attempts[q] : Len(attempts[q][a].chain) \in Nat
      BY <1>1, RowShape DEF RegistryInv, Attempt
    <3>2. QED
      BY <1>2, <2>3, <3>1 DEF Advances
  <2>6. BatchErrors'
    BY <2>2, <2>3, <2>5, ErrorsStay
  <2>7. \A b \in Nat : ReservedBatch(members, b) => b = Len(batches) + 1
    BY <1>4 DEF ReservedBatch
  <2>8. QED
    BY <1>1, <2>2, <2>3, <2>4, <2>5, <2>6, <2>7 DEF TablesInv
<1>5. QED
  BY <1>3, <1>4

(* Both members of a prepared batch are live.                              *)
LEMMA PreparedIsLive ==
  ASSUME TablesInv, NEW b \in DOMAIN batches, batches[b].status = "PREPARED", NEW q \in Pair
  PROVE  ~TerminalRow(q, batches[b].members[q])
BY DEF TablesInv, RegistryInv, PairTogether, BatchOutcome, MembersIn, TerminalRow

(* complete_phase1a_p4_outcome_pair, with the whole plan for both.         *)
LEMMA CompletePairAdvances ==
  ASSUME TablesInv, NEW members \in [Pair -> 1..MaxAttempts], NEW b \in DOMAIN batches,
         NEW plans, plans = [q \in Pair |-> Planned],
         CompletePair(b, members, plans, plans)
  PROVE  /\ TablesInv' /\ Advances
         /\ \E r \in releases' : r.members = members
<1>1. plans \in [Pair -> Lineages]
  BY PrefixIsLineage, LimitsAreNumbers DEF Planned
<1>2. RegistryInv /\ RegistryInv'
  BY <1>1, CompletePairKeeps DEF TablesInv
<1>3. \E r \in releases' : r.members = members
  <2> DEFINE release == [batch |-> b, members |-> members, results |-> plans]
  <2>1. release \in releases' /\ release.members = members
    BY DEF CompletePair, CompletePairEffect
  <2>2. QED
    BY <2>1
<1>4. CASE UNCHANGED registryVars
  BY <1>3, <1>4, SameTables
<1>5. CASE ~UNCHANGED registryVars
  <2>1. PICK rows \in [Pair -> Attempt] :
          /\ PairBecomes(b, rows, "RELEASED")
          /\ PairReleasedAs(b, rows)
          /\ \A q \in Pair : /\ rows[q].result = plans[q]
                             /\ rows[q].chain = attempts[q][members[q]].chain
    BY <1>1, <1>2, <1>5, CompletePairStep
  <2>2. /\ batches[b].status = "PREPARED"
        /\ \A q \in Pair : rows[q].status = "SUCCEEDED"
        /\ releases \subseteq releases'
    BY <2>1 DEF PairReleasedAs
  <2>3. batches[b].members = members
    BY DEF CompletePair, CompletePairGranted
  <2>4. ASSUME NEW q \in Pair
        PROVE  /\ PlannedRow(rows[q])
               /\ ~TerminalRow(q, members[q])
               /\ Len(attempts[q][members[q]].chain) <= Len(rows[q].chain)
    <3>1. q \in Queries /\ members[q] \in DOMAIN attempts[q]
      BY <1>2, <2>3, BoundRowsExist, PairIsAmongQueries
    <3>2. PlannedRow(attempts[q][members[q]]) /\ Len(attempts[q][members[q]].chain) \in Nat
      BY <1>2, <3>1, RowShape DEF TablesInv, PlannedRows, RegistryInv, Attempt
    <3>3. PlannedRow(rows[q])
      BY <2>1, <2>2, <3>2 DEF PlannedRow
    <3>4. ~TerminalRow(q, members[q])
      BY <2>2, <2>3, PreparedIsLive
    <3>5. QED
      BY <2>1, <3>2, <3>3, <3>4
  <2>5. PlannedRows' /\ Advances
    BY <1>2, <2>1, <2>2, <2>3, <2>4, PairAdvances
  <2>6. \A c \in DOMAIN batches' : batches'[c].status = "FAILED" =>
          c \in DOMAIN batches /\ batches[c].status = "FAILED"
    BY <2>1 DEF PairBecomes
  <2>7. BatchErrors'
    BY <2>5, <2>6, ErrorsStay
  <2>8. QED
    BY <1>2, <1>3, <2>5, <2>7 DEF TablesInv
<1>6. QED
  BY <1>4, <1>5

(* fail_phase1a_p4_outcome_pair.                                           *)
LEMMA FailPairAdvances ==
  ASSUME TablesInv, Pair # {}, NEW b \in DOMAIN batches, NEW message \in Messages,
         FailPair(b, message)
  PROVE  /\ TablesInv' /\ Advances
         /\ \A q \in Pair : attempts'[q][batches[b].members[q]].status = "FAILED"
<1>1. RegistryInv /\ RegistryInv'
  BY FailPairKeeps DEF TablesInv
<1>2. PICK rows \in [Pair -> Attempt] :
        /\ PairBecomes(b, rows, "FAILED")
        /\ PairFailedAs(b, rows)
        /\ batches'[b].error = message
        /\ \A q \in Pair : rows[q] = Failed(attempts[q][batches[b].members[q]], message)
  BY <1>1, FailPairStep
<1>3. PICK members : members = batches[b].members
  OBVIOUS
<1>4. /\ batches[b].status \in {"PREPARED", "FAILED"}
      /\ releases' = releases
      /\ \A q \in Pair : rows[q].status = "FAILED"
  BY <1>2 DEF PairFailedAs
<1>5. ASSUME NEW q \in Pair
      PROVE  /\ members[q] \in DOMAIN attempts[q]
             /\ attempts[q][members[q]] \in Attempt
             /\ PlannedRow(attempts[q][members[q]])
             /\ rows[q].chain = attempts[q][members[q]].chain
             /\ rows[q].error = message
             /\ batches[b].status = "FAILED" =>
                  attempts[q][members[q]].status = "FAILED" /\ attempts[q][members[q]].error = message
  <2>1. q \in Queries /\ members[q] \in DOMAIN attempts[q]
    BY <1>1, <1>3, BoundRowsExist, PairIsAmongQueries
  <2>2. attempts[q][members[q]] \in Attempt
    BY <1>1, <2>1, RowShape DEF RegistryInv
  <2>3. rows[q].chain = attempts[q][members[q]].chain /\ rows[q].error = message
    BY <1>2, <1>3 DEF Failed
  <2>4. batches[b].status = "FAILED" =>
          attempts[q][members[q]].status = "FAILED" /\ attempts[q][members[q]].error = message
    BY <1>3 DEF FailPair, FailPairGranted
  <2>5. QED
    BY <2>1, <2>2, <2>3, <2>4 DEF TablesInv, PlannedRows
<1>6. ASSUME NEW q \in Pair
      PROVE  /\ PlannedRow(rows[q])
             /\ TerminalRow(q, members[q]) => rows[q] = attempts[q][members[q]]
             /\ Len(attempts[q][members[q]].chain) <= Len(rows[q].chain)
  <2>1. PlannedRow(rows[q])
    BY <1>4, <1>5 DEF PlannedRow
  <2>2. TerminalRow(q, members[q]) => batches[b].status = "FAILED"
    BY <1>3, <1>4, PreparedIsLive
  <2>3. batches[b].status = "FAILED" => rows[q] = attempts[q][members[q]]
    BY <1>2, <1>3, <1>5 DEF Failed, Attempt
  <2>4. Len(attempts[q][members[q]].chain) \in Nat
    BY <1>5 DEF Attempt
  <2>5. QED
    BY <1>5, <2>1, <2>2, <2>3, <2>4
<1>7. /\ batches[b] \in Batch
      /\ batches'[b] \in Batch
      /\ batches'[b].members = batches[b].members
      /\ batches'[b].status = "FAILED"
      /\ DOMAIN batches' = DOMAIN batches
  BY <1>1, <1>2, BatchShape DEF RegistryInv, PairBecomes
<1>8. batches[b].status # "PREPARED" => batches'[b] = batches[b]
  <2>1. SUFFICES ASSUME batches[b].status = "FAILED"
                 PROVE  batches'[b] = batches[b]
    BY <1>4
  <2>2. PICK q \in Pair : TRUE
    OBVIOUS
  <2>3. attempts[q][members[q]].error = batches[b].error
    BY <1>3, <2>1 DEF TablesInv, BatchErrors
  <2>4. batches[b].error = message
    BY <1>5, <2>1, <2>3
  <2>5. QED
    BY <1>2, <1>7, <2>1, <2>4 DEF Batch
<1>9. PlannedRows' /\ Advances
  BY <1>1, <1>2, <1>3, <1>4, <1>6, <1>8, PairAdvances
<1>10. \A q \in Pair : attempts'[q][members[q]] = rows[q]
  BY <1>1, <1>2, <1>3, PairRows
<1>11. BatchErrors'
  <2>1. SUFFICES ASSUME NEW c \in DOMAIN batches', batches'[c].status = "FAILED", NEW q \in Pair
                 PROVE  attempts'[q][batches'[c].members[q]].error = batches'[c].error
    BY DEF BatchErrors
  <2>2. CASE c = b
    BY <1>2, <1>3, <1>5, <1>7, <1>10, <2>2
  <2>3. CASE c # b
    <3>1. c \in DOMAIN batches /\ batches'[c] = batches[c]
      BY <1>2, <2>3 DEF PairBecomes
    <3>2. batches[c].status = "FAILED"
      BY <2>1, <3>1
    <3>3. attempts[q][batches[c].members[q]].error = batches[c].error
      BY <3>1, <3>2 DEF TablesInv, BatchErrors
    <3>4. batches[c].members[q] \in DOMAIN attempts[q]
      BY <1>1, <3>1, BoundRowsExist
    <3>5. attempts[q][batches[c].members[q]].status = "FAILED"
      BY <1>1, <3>1, <3>2 DEF RegistryInv, PairTogether, BatchOutcome, MembersIn
    <3>6. TerminalRow(q, batches[c].members[q])
      BY <3>5 DEF TerminalRow, Live
    <3>7. attempts'[q][batches[c].members[q]] = attempts[q][batches[c].members[q]]
      BY <1>9, <3>4, <3>6, PairIsAmongQueries DEF Advances
    <3>8. QED
      BY <3>1, <3>3, <3>7
  <2>4. QED
    BY <2>2, <2>3
<1>12. QED
  BY <1>1, <1>3, <1>4, <1>9, <1>10, <1>11 DEF TablesInv

-----------------------------------------------------------------------------
(* What a driver knows stays so while the registry advances.               *)

LEMMA AtWork ==
  ASSUME NEW p \in Drivers, NEW me \in Process, Placed(p, me)
  PROVE  Unit[p][me.m] \in RunBy(p) /\ me.m \in DOMAIN Unit[p] /\ Unit[p][me.m] \in Queries
<1>1. me.m \in 1..2 /\ (me.m = 2 => Paired(p))
  BY DEF Process, Placed
<1>2. CASE Paired(p)
  BY <1>1, <1>2, UnitShape DEF RunBy
<1>3. CASE ~Paired(p)
  BY <1>1, <1>3, UnitShape
<1>4. QED
  BY <1>2, <1>3

LEMMA KnowsStays ==
  ASSUME TablesInv, TablesInv', Advances, NEW p \in Drivers, NEW me \in Process, Knows(p, me)
  PROVE  Knows(p, me)'
<1>1. Holds(p, me)'
  BY DEF Knows, Holds, Advances
<1>2. Placed(p, me)'
  BY DEF Knows, Placed
<1>3. PICK q : q = Unit[p][me.m]
  OBVIOUS
<1>4. q \in RunBy(p) /\ q \in Queries
  BY <1>3, AtWork DEF Knows
<1>5. me.attempt[q] # 0 => /\ me.attempt[q] \in DOMAIN attempts[q]
                           /\ me.attempt[q] \in DOMAIN attempts'[q]
  BY <1>1, <1>4 DEF Knows, Holds
<1>6. Worked(p, me)'
  <2>1. CASE me.attempt[q] # 0
    <3>1. PICK chain, next : /\ chain = attempts[q][me.attempt[q]].chain
                             /\ next = attempts'[q][me.attempt[q]].chain
      OBVIOUS
    <3>2. Len(chain) \in Nat /\ Len(next) \in Nat /\ Len(next) <= SourceDates
      <4>1. Len(chain) \in Nat
        BY <1>4, <1>5, <2>1, <3>1, RowShape DEF TablesInv, RegistryInv, Attempt
      <4>2. /\ attempts'[q] \in Seq(Attempt)
            /\ Shaped(attempts'[q][me.attempt[q]])
        BY <1>4, <1>5, <2>1 DEF TablesInv, RegistryInv, RegistryTypeOK
      <4>3. attempts'[q][me.attempt[q]] \in Attempt
        BY <1>5, <2>1, <4>2
      <4>4. QED
        BY <3>1, <4>1, <4>2, <4>3 DEF Attempt, Shaped
    <3>3. Len(chain) <= Len(next)
      BY <1>4, <1>5, <2>1, <3>1 DEF Advances
    <3>4. Len(me.shards) \in Nat
      BY DEF Process
    <3>5. Worked(p, me)
      BY DEF Knows
    <3>6. Len(chain) = SourceDates => Len(next) = SourceDates
      BY <3>2, <3>3, LimitsAreNumbers
    <3>7. Len(me.shards) \in 1..(Len(chain) + 1) => Len(me.shards) \in 1..(Len(next) + 1)
      BY <3>2, <3>3, <3>4
    <3>8. Len(me.shards) <= Len(chain) => Len(me.shards) <= Len(next)
      BY <3>2, <3>3, <3>4
    <3>9. me.pc = "replay" => Len(me.shards) < SourceDates /\ Len(me.shards) <= Len(next)
      BY <1>3, <3>1, <3>5, <3>8 DEF Worked
    <3>10. me.pc = "register" => Len(me.shards) \in 1..(Len(next) + 1)
      BY <1>3, <3>1, <3>5, <3>7 DEF Worked
    <3>11. me.pc \in {"publish", "complete"} =>
             Len(me.shards) = SourceDates /\ Len(next) = SourceDates
      BY <1>3, <3>1, <3>5, <3>6 DEF Worked
    <3>12. QED
      BY <1>3, <3>1, <3>5, <3>9, <3>10, <3>11 DEF Worked
  <2>2. CASE me.attempt[q] = 0
    <3>1. me.pc \notin Running \cup {"reserve_pair", "complete", "complete_pair"}
      BY <1>4, <2>2 DEF Knows, Placed
    <3>2. QED
      BY <3>1 DEF Worked, Running
  <2>3. QED
    BY <2>1, <2>2
<1>7. ASSUME NEW s \in Queries, me.attempt[s] # 0
      PROVE  attempts[s][me.attempt[s]].status \in {"SUCCEEDED", "FAILED"}
               => attempts'[s][me.attempt[s]] = attempts[s][me.attempt[s]]
  BY <1>7 DEF Knows, Holds, Advances, TerminalRow, Live
<1>8. \A s \in me.execute : me.attempt[s] # 0 /\ s \in Queries
  BY UnitShape DEF Knows, Holds
<1>9. Said(p, me)'
  <2>1. Said(p, me)
    BY DEF Knows
  <2>2. me.pc \in {"succeeded", "skipped"} =>
          (me.attempt[q] # 0 /\ attempts'[q][me.attempt[q]] = attempts[q][me.attempt[q]])
    BY <1>3, <1>4, <1>7, <2>1 DEF Said
  <2>3. \A s \in me.execute : IsFailed(me, s) => IsFailed(me, s)'
    BY <1>7, <1>8 DEF IsFailed
  <2>4. releases \subseteq releases'
    BY DEF Advances
  <2>5. (me.pc \in {"succeeded", "skipped"} =>
          me.attempt[q] # 0 /\ attempts'[q][me.attempt[q]].status = "SUCCEEDED")
    BY <1>3, <2>1, <2>2 DEF Said
  <2>6. me.pc = "succeeded" => attempts'[q][me.attempt[q]].result = me.results[q]
    BY <1>3, <2>1, <2>2 DEF Said
  <2>7. me.pc = "released" => \E r \in releases' : r.members = [s \in Pair |-> me.attempt[s]]
    BY <2>1, <2>4 DEF Said
  <2>8. me.pc = "failed" => \A s \in me.execute : IsFailed(me, s)'
    BY <2>1, <2>3 DEF Said
  <2>9. me.pc = "cleanup" /\ me.m = 2 /\ ~me.broken /\ Unit[p][1] \in me.execute =>
          IsFailed(me, Unit[p][1])'
    BY <2>1, <2>3 DEF Said
  <2>10. QED
    BY <1>3, <2>5, <2>6, <2>7, <2>8, <2>9, Zenon DEF Said
<1>10. QED
  BY <1>1, <1>2, <1>6, <1>9 DEF Knows

-----------------------------------------------------------------------------
(* A driver that moves on and keeps its memory.                            *)

Pcs == Ended \cup Steps \cup {"idle"}

SameMemory(to, me) ==
  /\ to.attempt = me.attempt
  /\ to.execute = me.execute
  /\ to.batch = me.batch
  /\ to.shards = me.shards
  /\ to.economics = me.economics
  /\ to.finals = me.finals
  /\ to.results = me.results

(* Records with one field changed; the updates of a driver compose them.   *)
WithPc(me, pc) == [me EXCEPT !.pc = pc]
WithContext(me, context) == [me EXCEPT !.context = context]
WithMember(me, m) == [me EXCEPT !.m = m]
WithBroken(me, broken) == [me EXCEPT !.broken = broken]

Differs(to, me, pc, m, broken) ==
  to \in Process /\ SameMemory(to, me) /\ to.pc = pc /\ to.m = m /\ to.broken = broken

LEMMA GotoIs ==
  ASSUME NEW me \in Process, NEW pc \in Pcs
  PROVE  /\ Differs(WithPc(me, pc), me, pc, me.m, me.broken)
         /\ WithPc(me, pc).context = me.context
<1>1. WithPc(me, pc) \in Process
  BY DEF WithPc, Process, Pcs
<1>2. QED
  BY <1>1 DEF WithPc, SameMemory, Differs, Process

LEMMA OnlyContextIs ==
  ASSUME NEW me \in Process, NEW context \in Contexts
  PROVE  /\ Differs(WithContext(me, context), me, me.pc, me.m, me.broken)
         /\ WithContext(me, context).context = context
<1>1. WithContext(me, context) \in Process
  BY DEF WithContext, Process
<1>2. QED
  BY <1>1 DEF WithContext, SameMemory, Differs, Process

LEMMA MemberIs ==
  ASSUME NEW me \in Process, NEW m \in 1..2
  PROVE  /\ Differs(WithMember(me, m), me, me.pc, m, me.broken)
         /\ WithMember(me, m).context = me.context
<1>1. WithMember(me, m) \in Process
  BY DEF WithMember, Process
<1>2. QED
  BY <1>1 DEF WithMember, SameMemory, Differs, Process

LEMMA BrokenIs ==
  ASSUME NEW me \in Process, NEW broken \in BOOLEAN
  PROVE  /\ Differs(WithBroken(me, broken), me, me.pc, me.m, broken)
         /\ WithBroken(me, broken).context = me.context
<1>1. WithBroken(me, broken) \in Process
  BY DEF WithBroken, Process
<1>2. QED
  BY <1>1 DEF WithBroken, SameMemory, Differs, Process

WithPcContext(me, pc, context) == [me EXCEPT !.pc = pc, !.context = context]
Handled(me, pc, context) ==
  [me EXCEPT !.pc = pc, !.context = context, !.m = 1, !.broken = FALSE]

LEMMA ContextIs ==
  ASSUME NEW me \in Process, NEW pc \in Pcs, NEW context \in Contexts
  PROVE  Differs(WithPcContext(me, pc, context), me, pc, me.m, me.broken)
<1>1. WithPcContext(me, pc, context) = WithContext(WithPc(me, pc), context)
  BY DEF WithPcContext, WithContext, WithPc
<1>2. PICK mid : mid = WithPc(me, pc)
  OBVIOUS
<1>3. Differs(mid, me, pc, me.m, me.broken)
  BY <1>2, GotoIs
<1>4. Differs(WithContext(mid, context), mid, pc, me.m, me.broken)
  BY <1>3, OnlyContextIs DEF Differs
<1>5. QED
  BY <1>1, <1>2, <1>3, <1>4 DEF Differs, SameMemory

LEMMA HandleIs ==
  ASSUME NEW me \in Process, NEW pc \in Pcs, NEW context \in Contexts
  PROVE  Differs(Handled(me, pc, context), me, pc, 1, FALSE)
<1>1. PICK mid : mid = WithPcContext(me, pc, context)
  OBVIOUS
<1>2. PICK next : next = WithMember(mid, 1)
  OBVIOUS
<1>3. Handled(me, pc, context) = WithBroken(next, FALSE)
  BY <1>1, <1>2 DEF WithMember, WithBroken, WithPcContext, Handled
<1>4. Differs(mid, me, pc, me.m, me.broken)
  BY <1>1, ContextIs
<1>5. Differs(next, mid, pc, 1, me.broken)
  BY <1>2, <1>4, MemberIs DEF Differs
<1>6. Differs(WithBroken(next, FALSE), next, pc, 1, FALSE)
  BY <1>5, BrokenIs DEF Differs
<1>7. QED
  BY <1>3, <1>4, <1>5, <1>6 DEF Differs, SameMemory

Quiet == {"idle", "release", "fail", "fail_pair", "raised", "ambiguous", "cleanup", "reserve_pair"}

LEMMA QuietKnows ==
  ASSUME NEW p \in Drivers, NEW me \in Process, Knows(p, me), NEW to \in Process,
         SameMemory(to, me), to.pc \in Quiet, Placed(p, to),
         to.pc = "cleanup" => to.m = 1 \/ to.broken
  PROVE  Knows(p, to)
<1>1. Holds(p, to)
  BY DEF Knows, Holds, SameMemory
<1>2. Worked(p, to)
  BY DEF Worked, Quiet, Running
<1>3. to.pc \notin {"succeeded", "skipped", "released", "failed"}
  BY DEF Quiet
<1>4. ~(to.pc = "cleanup" /\ to.m = 2 /\ ~to.broken)
  OBVIOUS
<1>5. Said(p, to)
  BY <1>3, <1>4, Zenon DEF Said
<1>6. QED
  BY <1>1, <1>2, <1>5 DEF Knows

-----------------------------------------------------------------------------
(* The outcomes of a step: the registry advances or stays, and the driver  *)
(* goes where it knows what the place requires, before the step already    *)
(* (an error) or because of it (an answer).                                *)

RegistryMoves == TablesInv' /\ Advances /\ [RegistryNext]_registryVars
Falls(p) == \E to \in Process : driver' = [driver EXCEPT ![p] = to] /\ Knows(p, to)
Moves(p) == \E to \in Process : driver' = [driver EXCEPT ![p] = to] /\ Knows(p, to)'
StepHolds(p) == RegistryMoves /\ Moves(p) /\ faults' \in 0..MaxFaults

LEMMA Stays ==
  ASSUME PipelineInv, UNCHANGED registryVars
  PROVE  RegistryMoves
BY SameTables DEF PipelineInv, RegistryMoves

LEMMA FallsMoves ==
  ASSUME PipelineInv, RegistryMoves, NEW p \in Drivers, Falls(p)
  PROVE  Moves(p)
<1>1. PICK to \in Process : driver' = [driver EXCEPT ![p] = to] /\ Knows(p, to)
  BY DEF Falls
<1>2. TablesInv /\ TablesInv' /\ Advances
  BY DEF PipelineInv, RegistryMoves
<1>3. Knows(p, to)'
  BY <1>1, <1>2, KnowsStays
<1>4. QED
  BY <1>1, <1>3 DEF Moves

LEMMA FaultBound ==
  ASSUME PipelineInv, NoFault \/ Fault
  PROVE  faults' \in 0..MaxFaults
BY FaultsAreBounded DEF PipelineInv, NoFault, Fault

(* A registry call, answered or not.                                       *)
LEMMA Stepped ==
  ASSUME PipelineInv, NEW p \in Drivers, NoFault \/ Fault, RegistryMoves, Falls(p) \/ Moves(p)
  PROVE  StepHolds(p)
BY FallsMoves, FaultBound DEF StepHolds

(* What the process of a driver is.                                        *)
LEMMA Memory ==
  ASSUME PipelineInv, NEW p \in Drivers
  PROVE  driver[p] \in Process /\ Knows(p, driver[p])
BY DEF PipelineInv

LEMMA HandleFalls ==
  ASSUME PipelineInv, NEW p \in Drivers, Paired(p), NEW pc \in {"release", "cleanup"},
         NEW context \in Contexts, Handle(p, pc, context)
  PROVE  Falls(p)
<1>1. PICK me \in Process : me = driver[p] /\ Knows(p, me)
  BY Memory
<1>2. PICK to : to = Handled(me, pc, context)
  OBVIOUS
<1>3. pc \in Pcs
  BY DEF Pcs, Steps
<1>4. Differs(to, me, pc, 1, FALSE)
  BY <1>2, <1>3, HandleIs
<1>5. Placed(p, to)
  BY <1>4 DEF Placed, Differs, Running
<1>6. Knows(p, to)
  BY <1>1, <1>4, <1>5, QuietKnows DEF Differs, Quiet
<1>7. driver' = [driver EXCEPT ![p] = to]
  BY <1>1, <1>2, Zenon DEF Handle, Hold, Handled
<1>8. QED
  BY <1>4, <1>6, <1>7 DEF Falls, Differs

LEMMA GotoFalls ==
  ASSUME PipelineInv, NEW p \in Drivers, NEW pc \in {"fail", "fail_pair", "raised", "ambiguous"},
         pc = "fail" => ~Paired(p), pc = "fail_pair" => Paired(p), Goto(p, pc)
  PROVE  Falls(p)
<1>1. PICK me \in Process : me = driver[p] /\ Knows(p, me)
  BY Memory
<1>2. PICK to : to = WithPc(me, pc)
  OBVIOUS
<1>3. pc \in Pcs
  BY DEF Pcs, Steps, Ended
<1>4. Differs(to, me, pc, me.m, me.broken)
  BY <1>2, <1>3, GotoIs
<1>5. Placed(p, to)
  BY <1>1, <1>4 DEF Placed, Differs, Running, Knows
<1>6. Knows(p, to)
  BY <1>1, <1>4, <1>5, QuietKnows DEF Differs, Quiet
<1>7. driver' = [driver EXCEPT ![p] = to]
  BY <1>1, <1>2, Zenon DEF Goto, Hold, WithPc
<1>8. QED
  BY <1>4, <1>6, <1>7 DEF Falls, Differs

(* An error while the replay is executed.                                  *)
LEMMA RunFailedFalls ==
  ASSUME PipelineInv, NEW p \in Drivers, RunFailed(p)
  PROVE  Falls(p)
<1>1. CASE Paired(p)
  BY <1>1, HandleFalls DEF RunFailed, Contexts
<1>2. CASE ~Paired(p)
  BY <1>2, GotoFalls DEF RunFailed
<1>3. QED
  BY <1>1, <1>2

-----------------------------------------------------------------------------
(* A run begins, or a process crashes.                                     *)

LEMMA IdleIsProcess ==
  /\ Idle \in Process
  /\ [Idle EXCEPT !.pc = "reserve"] \in Process
  /\ [Idle EXCEPT !.pc = "reserve"].pc = "reserve"
  /\ SameMemory([Idle EXCEPT !.pc = "reserve"], Idle)
  /\ [Idle EXCEPT !.pc = "reserve"].m = 1 /\ [Idle EXCEPT !.pc = "reserve"].broken = FALSE
  /\ Idle.pc = "idle" /\ Idle.m = 1 /\ Idle.broken = FALSE
  /\ Idle.attempt = [q \in Queries |-> 0] /\ Idle.execute = {} /\ Idle.batch = 0
<1>1. /\ "idle" \in Ended \cup Steps \cup {"idle"}
      /\ "prepare" \in Contexts
      /\ [q \in Queries |-> <<>>] \in [Queries -> Seq(Nat)]
      /\ [q \in Queries |-> 0] \in [Queries -> Nat]
      /\ <<>> \in Seq(Nat)
      /\ 1 \in 1..2 /\ 0 \in Nat /\ {} \in SUBSET Queries /\ FALSE \in BOOLEAN
  BY DEF Contexts
<1>2. Idle \in Process
  BY <1>1, Zenon DEF Idle, Process
<1>3. /\ Idle.pc = "idle" /\ Idle.m = 1 /\ Idle.broken = FALSE
      /\ Idle.attempt = [q \in Queries |-> 0] /\ Idle.execute = {} /\ Idle.batch = 0
  BY DEF Idle
<1>4. "reserve" \in Pcs
  BY DEF Pcs, Steps
<1>5. Differs(WithPc(Idle, "reserve"), Idle, "reserve", Idle.m, Idle.broken)
  BY <1>2, <1>4, GotoIs
<1>6. QED
  BY <1>2, <1>3, <1>5 DEF Differs, WithPc

LEMMA IdleKnows ==
  ASSUME NEW p \in Drivers, NEW to \in {Idle, [Idle EXCEPT !.pc = "reserve"]}
  PROVE  to \in Process /\ Knows(p, to)
<1>1. /\ to \in Process
      /\ to.pc \in {"idle", "reserve"} /\ to.m = 1 /\ to.broken = FALSE
      /\ to.attempt = [q \in Queries |-> 0] /\ to.execute = {} /\ to.batch = 0
  BY IdleIsProcess DEF SameMemory
<1>2. Holds(p, to)
  BY <1>1 DEF Holds
<1>3. Placed(p, to)
  <2>1. to.m # 2 /\ ~to.broken
    BY <1>1
  <2>2. to.pc \notin Running \cup {"reserve_pair", "complete", "complete_pair"}
    BY <1>1 DEF Running
  <2>3. /\ to.pc \notin {"complete", "fail", "succeeded", "skipped"}
        /\ to.pc \notin {"reserve_pair", "complete_pair", "release", "fail_pair", "cleanup"}
        /\ to.pc \notin {"reserve_pair", "release"}
    BY <1>1
  <2>4. QED
    BY <1>1, <2>1, <2>2, <2>3, Zenon DEF Placed
<1>4. Worked(p, to)
  BY <1>1 DEF Worked, Running
<1>5. Said(p, to)
  BY <1>1 DEF Said
<1>6. QED
  BY <1>1, <1>2, <1>3, <1>4, <1>5 DEF Knows

LEMMA BeginKeeps ==
  ASSUME PipelineInv, NEW p \in Drivers, Begin(p)
  PROVE  StepHolds(p)
<1>1. PICK to : to = [Idle EXCEPT !.pc = "reserve"]
  OBVIOUS
<1>2. to \in Process /\ Knows(p, to)
  BY <1>1, IdleKnows
<1>3. driver' = [driver EXCEPT ![p] = to]
  BY <1>1, Zenon DEF Begin, Hold
<1>4. Falls(p)
  BY <1>2, <1>3 DEF Falls
<1>5. QED
  BY <1>4, Stays, Stepped DEF Begin

LEMMA CrashKeeps ==
  ASSUME PipelineInv, NEW p \in Drivers, Crash(p)
  PROVE  StepHolds(p)
<1>1. PICK to : to = Idle
  OBVIOUS
<1>2. to \in Process /\ Knows(p, to)
  BY <1>1, IdleKnows
<1>3. driver' = [driver EXCEPT ![p] = to]
  BY <1>1, Zenon DEF Crash, Hold
<1>4. Falls(p)
  BY <1>2, <1>3 DEF Falls
<1>5. QED
  BY <1>4, Stays, Stepped DEF Crash

-----------------------------------------------------------------------------
(* The reservations of a unit.                                             *)

WithReservation(me, q, a, members) ==
  [me EXCEPT !.attempt[q] = a, !.execute = @ \cup members]

LEMMA ReservationIs ==
  ASSUME NEW me \in Process, NEW q \in Queries, NEW a \in Nat, NEW members \in SUBSET Queries
  PROVE  LET to == WithReservation(me, q, a, members)
         IN  /\ to \in Process
             /\ to.attempt = [me.attempt EXCEPT ![q] = a]
             /\ to.execute = me.execute \cup members
             /\ to.pc = me.pc /\ to.m = me.m /\ to.broken = me.broken /\ to.batch = me.batch
<1>1. PICK attempt : attempt = [me.attempt EXCEPT ![q] = a]
  OBVIOUS
<1>2. PICK execute : execute = me.execute \cup members
  OBVIOUS
<1>3. attempt \in [Queries -> Nat] /\ execute \in SUBSET Queries
  BY <1>1, <1>2 DEF Process
<1>4. WithReservation(me, q, a, members) = [me EXCEPT !.attempt = attempt, !.execute = execute]
  BY <1>1, <1>2 DEF WithReservation, Process
<1>5. PICK to : to = [me EXCEPT !.attempt = attempt, !.execute = execute]
  OBVIOUS
<1>6. to \in Process
  BY <1>3, <1>5 DEF Process
<1>7. /\ to.attempt = attempt /\ to.execute = execute
      /\ to.pc = me.pc /\ to.m = me.m /\ to.broken = me.broken /\ to.batch = me.batch
  BY <1>5 DEF Process
<1>8. QED
  BY <1>1, <1>2, <1>4, <1>5, <1>6, <1>7

(* Where the next member, or the end of the reservations, leaves a driver. *)
Follows(p, mid, to) ==
  \/ Paired(p) /\ mid.m = 1 /\ to.m = 2 /\ to.pc = "reserve"
  \/ ~Paired(p) /\ to.m = 1 /\ mid.execute = {} /\ to.pc = "skipped"
  \/ ~Paired(p) /\ to.m = 1 /\ mid.execute # {} /\ to.pc = "start"
  \/ Paired(p) /\ mid.m = 2 /\ to.m = 1 /\ to.pc = "release"
  \/ Paired(p) /\ mid.m = 2 /\ to.m = 1 /\ to.pc = "reserve_pair" /\ mid.execute = Pair

LEMMA NextMemberIs ==
  ASSUME NEW p \in Drivers, NEW mid \in Process, mid.pc = "reserve",
         mid.m = 2 => Paired(p), NEW to, to = NextMember(p, mid)
  PROVE  /\ to \in Process /\ SameMemory(to, mid) /\ to.broken = mid.broken
         /\ Follows(p, mid, to)
<1>1. mid.m \in 1..2
  BY DEF Process
<1>2. CASE Paired(p) /\ mid.m = 1
  <2>1. mid.m < Len(Unit[p])
    BY <1>2, UnitShape
  <2>2. to = WithMember(mid, 2)
    <3>1. mid.m + 1 = 2
      BY <1>2
    <3>2. to = [mid EXCEPT !.m = mid.m + 1]
      BY <2>1, Zenon DEF NextMember
    <3>3. QED
      BY <3>1, <3>2 DEF WithMember
  <2>3. Differs(to, mid, "reserve", 2, mid.broken)
    BY <2>2, MemberIs
  <2>4. QED
    BY <1>2, <2>3 DEF Follows, Differs
<1>3. CASE ~(Paired(p) /\ mid.m = 1)
  <2>1. ~(mid.m < Len(Unit[p]))
    <3>1. CASE Paired(p)
      BY <1>1, <1>3, <3>1, UnitShape
    <3>2. CASE ~Paired(p)
      <4>1. Len(Unit[p]) = 1 /\ mid.m = 1
        BY <1>1, <3>2, UnitShape
      <4>2. QED
        BY <4>1
    <3>3. QED
      BY <3>1, <3>2
  <2>2. PICK first : first = WithMember(mid, 1)
    OBVIOUS
  <2>3. Differs(first, mid, "reserve", 1, mid.broken)
    BY <2>2, MemberIs
  <2>4. to = AfterReservations(p, first)
    BY <2>1, <2>2, Zenon DEF NextMember, WithMember
  <2>5. first.execute = mid.execute /\ first \in Process
    BY <2>3 DEF Differs, SameMemory
  <2>6. CASE ~Paired(p) /\ first.execute = {}
    <3>1. to = WithPc(first, "skipped")
      BY <2>4, <2>6, Zenon DEF AfterReservations, WithPc
    <3>2. Differs(to, first, "skipped", 1, mid.broken)
      BY <2>3, <3>1, GotoIs DEF Differs, Pcs, Ended
    <3>3. QED
      BY <2>3, <2>5, <2>6, <3>2 DEF Follows, Differs, SameMemory
  <2>7. CASE ~Paired(p) /\ first.execute # {}
    <3>1. to = WithPc(first, "start")
      BY <2>4, <2>7, Zenon DEF AfterReservations, WithPc
    <3>2. Differs(to, first, "start", 1, mid.broken)
      BY <2>3, <3>1, GotoIs DEF Differs, Pcs, Steps
    <3>3. QED
      BY <2>3, <2>5, <2>7, <3>2 DEF Follows, Differs, SameMemory
  <2>8. CASE Paired(p)
    <3>1. mid.m = 2
      BY <1>1, <1>3, <2>8
    <3>2. ASSUME NEW context \in Contexts, to = WithPcContext(first, "release", context)
          PROVE  Differs(to, mid, "release", 1, mid.broken)
      <4>1. "release" \in Pcs
        BY DEF Pcs, Steps
      <4>2. Differs(to, first, "release", first.m, first.broken)
        BY <2>5, <3>2, <4>1, ContextIs
      <4>3. QED
        BY <2>3, <4>2 DEF Differs, SameMemory
    <3>3. \/ to = WithPcContext(first, "release", "duplicate")
          \/ to = WithPc(first, "reserve_pair") /\ first.execute = Pair
          \/ to = WithPcContext(first, "release", "mixed")
      <4>1. CASE first.execute = {}
        <5>1. Pair # {}
          BY <2>8, UnitShape
        <5>2. to = WithPcContext(first, "release", "duplicate")
          BY <2>4, <2>8, <4>1, <5>1, Zenon DEF AfterReservations, WithPcContext
        <5>3. QED
          BY <5>2
      <4>2. CASE first.execute = Pair /\ first.execute # {}
        BY <2>4, <2>8, <4>2, Zenon DEF AfterReservations, WithPc
      <4>3. CASE first.execute # {} /\ first.execute # Pair
        BY <2>4, <2>8, <4>3, Zenon DEF AfterReservations, WithPcContext
      <4>4. QED
        BY <4>1, <4>2, <4>3
    <3>4. CASE to = WithPc(first, "reserve_pair") /\ first.execute = Pair
      <4>1. Differs(to, first, "reserve_pair", 1, mid.broken)
        BY <2>3, <3>4, GotoIs DEF Differs, Pcs, Steps
      <4>2. QED
        BY <2>3, <2>5, <2>8, <3>1, <3>4, <4>1 DEF Follows, Differs, SameMemory
    <3>5. CASE Differs(to, mid, "release", 1, mid.broken)
      BY <2>8, <3>1, <3>5 DEF Follows, Differs
    <3>6. "duplicate" \in Contexts /\ "mixed" \in Contexts
      BY DEF Contexts
    <3>7. QED
      BY <3>2, <3>3, <3>4, <3>5, <3>6
  <2>9. QED
    BY <2>6, <2>7, <2>8
<1>4. QED
  BY <1>2, <1>3

(* _prepare_phase1a_outcomes, one member.                                  *)
LEMMA ReserveMemberKeeps ==
  ASSUME PipelineInv, NEW p \in Drivers, ReserveMember(p)
  PROVE  StepHolds(p)
<1>1. PICK me \in Process : me = driver[p] /\ Knows(p, me)
  BY Memory
<1>2. me.pc = "reserve"
  BY <1>1 DEF ReserveMember, At
<1>3. PICK q \in Queries : q = Unit[p][me.m] /\ q \in RunBy(p) /\ q = Query(p)
  BY <1>1, AtWork DEF Knows, Query
<1>4. Placed(p, me) /\ Holds(p, me)
  BY <1>1 DEF Knows
<1>5. TablesInv /\ attempts[q] \in Seq(Attempt)
  BY DEF PipelineInv, TablesInv, RegistryInv, RegistryTypeOK
<1>6. ASSUME Reserve(q)
      PROVE  /\ RegistryMoves
             /\ \A a \in Nat, execute \in BOOLEAN : Reserved(q, a, execute) =>
                  /\ a \in DOMAIN attempts'[q]
                  /\ ~execute => attempts'[q][a].status = "SUCCEEDED"
  BY <1>5, <1>6, ReserveAdvances DEF RegistryMoves, RegistryNext
<1>7. ASSUME IF Paired(p) THEN Handle(p, "cleanup", "prepare") ELSE Goto(p, "raised")
      PROVE  Falls(p)
  <2>1. CASE Paired(p)
    BY <1>7, <2>1, HandleFalls DEF Contexts
  <2>2. CASE ~Paired(p)
    BY <1>7, <2>2, GotoFalls
  <2>3. QED
    BY <2>1, <2>2
<1>8. ASSUME NEW a \in 1..(Len(attempts[q]) + 1), NEW execute \in BOOLEAN,
             Reserve(q), Reserved(q, a, execute),
             Hold(p, NextMember(p, WithReservation(me, q, a, IF execute THEN {q} ELSE {})))
      PROVE  Moves(p)
  <2>1. a \in Nat /\ a # 0
    BY <1>5
  <2>2. PICK members \in SUBSET Queries : members = IF execute THEN {q} ELSE {}
    OBVIOUS
  <2>3. PICK mid : mid = WithReservation(me, q, a, members)
    OBVIOUS
  <2>4. /\ mid \in Process
        /\ mid.attempt = [me.attempt EXCEPT ![q] = a]
        /\ mid.execute = me.execute \cup members
        /\ mid.pc = "reserve" /\ mid.m = me.m /\ mid.broken = me.broken /\ mid.batch = me.batch
    BY <1>2, <2>1, <2>3, ReservationIs
  <2>5. PICK to : to = NextMember(p, mid)
    OBVIOUS
  <2>6. mid.m = 2 => Paired(p)
    BY <1>4, <2>4 DEF Placed
  <2>7. /\ to \in Process /\ SameMemory(to, mid) /\ to.broken = mid.broken
        /\ Follows(p, mid, to)
    BY <2>4, <2>5, <2>6, NextMemberIs
  <2>8. /\ to.attempt = [me.attempt EXCEPT ![q] = a]
        /\ to.execute = me.execute \cup members
        /\ to.batch = 0 /\ ~to.broken
    BY <1>2, <1>4, <2>4, <2>7 DEF SameMemory, Placed
  <2>9. /\ \A s \in Queries : s # q => to.attempt[s] = me.attempt[s]
        /\ to.attempt[q] = a
    BY <2>8 DEF Process
  <2>10. a \in DOMAIN attempts'[q] /\ (~execute => attempts'[q][a].status = "SUCCEEDED")
    BY <1>6, <1>8, <2>1
  <2>11. Holds(p, to)'
    <3>1. \A s \in Queries : me.attempt[s] # 0 => me.attempt[s] \in DOMAIN attempts'[s]
      BY <1>4, <1>6, <1>8 DEF Holds, RegistryMoves, Advances
    <3>2. \A s \in Queries : to.attempt[s] # 0 => to.attempt[s] \in DOMAIN attempts'[s]
      BY <2>9, <2>10, <3>1
    <3>3. to.execute \subseteq RunBy(p) /\ me.execute \subseteq RunBy(p) /\ RunBy(p) \subseteq Queries
      BY <1>3, <1>4, <2>2, <2>8, UnitShape DEF Holds
    <3>4. \A s \in to.execute : to.attempt[s] # 0
      BY <1>4, <2>1, <2>2, <2>8, <2>9, <3>3 DEF Holds
    <3>5. QED
      BY <2>8, <3>2, <3>3, <3>4 DEF Holds
  <2>12. Paired(p) /\ mid.m = 1 => q = Unit[p][1]
    BY <1>3, <2>4
  <2>13. /\ ~Paired(p) => \A s \in RunBy(p) : to.attempt[s] # 0
         /\ Paired(p) /\ mid.m = 2 => \A s \in RunBy(p) : to.attempt[s] # 0
    <3>1. CASE ~Paired(p)
      BY <1>3, <2>1, <2>9, <3>1, UnitShape
    <3>2. CASE Paired(p) /\ mid.m = 2
      <4>1. me.attempt[Unit[p][1]] # 0
        BY <1>2, <1>4, <2>4, <3>2 DEF Placed
      <4>2. RunBy(p) = {Unit[p][1], q} /\ Unit[p][1] # q /\ Unit[p][1] \in Queries
        BY <1>3, <2>4, <3>2, UnitShape
      <4>3. QED
        BY <2>1, <2>9, <4>1, <4>2
    <3>3. QED
      BY <3>1, <3>2
  <2>14. Placed(p, to)
    BY <2>1, <2>7, <2>8, <2>9, <2>12, <2>13 DEF Placed, Follows, Running
  <2>15. Worked(p, to)'
    BY <2>7 DEF Worked, Follows, Running
  <2>16. Said(p, to)'
    <3>1. CASE to.pc = "skipped"
      <4>1. ~Paired(p) /\ to.m = 1 /\ mid.execute = {}
        BY <2>7, <3>1 DEF Follows
      <4>2. ~execute
        BY <2>2, <2>4, <4>1
      <4>3. me.m = 1
        BY <2>6, <2>4, <4>1 DEF Process
      <4>4. Unit[p][to.m] = q
        BY <1>3, <4>1, <4>3
      <4>5. QED
        BY <2>1, <2>9, <2>10, <3>1, <4>2, <4>4 DEF Said
    <3>2. CASE to.pc # "skipped"
      BY <2>7, <3>2 DEF Follows, Said
    <3>3. QED
      BY <3>1, <3>2
  <2>17. Knows(p, to)'
    BY <2>11, <2>14, <2>15, <2>16 DEF Knows, Placed
  <2>18. driver' = [driver EXCEPT ![p] = to]
    BY <1>8, <2>2, <2>3, <2>5, Zenon DEF Hold
  <2>19. QED
    BY <2>7, <2>17, <2>18 DEF Moves
<1>9. /\ Call(ReserveGranted(q), ReserveEffect(q),
              \E a \in 1..(Len(attempts[q]) + 1), execute \in BOOLEAN :
                /\ Reserved(q, a, execute)
                /\ Hold(p, NextMember(p, WithReservation(me, q, a, IF execute THEN {q} ELSE {}))),
              IF Paired(p) THEN Handle(p, "cleanup", "prepare") ELSE Goto(p, "raised"))
  BY <1>1, <1>3, Zenon DEF ReserveMember, WithReservation
<1>10. \/ Reserve(q) /\ Moves(p) /\ NoFault
       \/ Falls(p) /\ NoFault /\ UNCHANGED registryVars
       \/ Falls(p) /\ Fault /\ UNCHANGED registryVars
       \/ Reserve(q) /\ Falls(p) /\ Fault
  BY <1>7, <1>8, <1>9 DEF Call, Reserve
<1>11. QED
  BY <1>6, <1>10, Stays, Stepped

WithBatch(me, b) == [me EXCEPT !.batch = b]

LEMMA BatchIs ==
  ASSUME NEW me \in Process, NEW b \in Nat
  PROVE  LET to == WithBatch(me, b)
         IN  /\ to \in Process
             /\ to.attempt = me.attempt /\ to.execute = me.execute
             /\ to.pc = me.pc /\ to.m = me.m /\ to.broken = me.broken /\ to.batch = b
<1>1. WithBatch(me, b) \in Process
  BY DEF WithBatch, Process
<1>2. QED
  BY <1>1 DEF WithBatch, Process

(* reserve_phase1a_p4_outcome_pair as a driver calls it.                   *)
LEMMA ReserveThePairKeeps ==
  ASSUME PipelineInv, NEW p \in Drivers, ReserveThePair(p)
  PROVE  StepHolds(p)
<1>1. PICK me \in Process : me = driver[p] /\ Knows(p, me)
  BY Memory
<1>2. me.pc = "reserve_pair" /\ Placed(p, me) /\ Holds(p, me)
  BY <1>1 DEF ReserveThePair, At, Knows
<1>3. Paired(p) /\ me.m = 1 /\ ~me.broken /\ \A q \in RunBy(p) : me.attempt[q] # 0
  BY <1>2 DEF Placed
<1>4. Pair # {} /\ RunBy(p) = Pair
  BY <1>3, UnitShape
<1>5. PICK members \in [Pair -> Nat] : members = [q \in Pair |-> me.attempt[q]]
  BY PairIsAmongQueries DEF Process
<1>6. Bound(p) = members
  BY <1>1, <1>5 DEF Bound
<1>7. TablesInv /\ batches \in Seq(Batch)
  BY DEF PipelineInv, TablesInv, RegistryInv, RegistryTypeOK
<1>8. ASSUME ReservePair(members)
      PROVE  /\ RegistryMoves
             /\ \A b \in Nat : ReservedBatch(members, b) =>
                  b \in DOMAIN batches' /\ batches'[b].members = members
  <2>1. members \in [Pair -> 1..MaxAttempts]
    BY <1>7, <1>8, MembersAreNumbers DEF ReservePair, ReservePairGranted
  <2>2. RegistryNext
    BY <1>4, <1>8, <2>1 DEF RegistryNext
  <2>3. QED
    BY <1>7, <1>8, <2>1, <2>2, ReservePairAdvances DEF RegistryMoves
<1>9. ASSUME Handle(p, "release", "reserve")
      PROVE  Falls(p)
  BY <1>3, <1>9, HandleFalls DEF Contexts
<1>10. ASSUME NEW b \in 1..(Len(batches) + 1), ReservePair(members), ReservedBatch(members, b),
              NEW to, driver' = [driver EXCEPT ![p] = to],
              \/ to = WithPcContext(WithBatch(me, b), "release", "already")
              \/ to = WithPc(WithBatch(me, b), "start")
       PROVE  Moves(p)
  <2>1. b \in Nat
    BY <1>7
  <2>2. PICK mid : mid = WithBatch(me, b)
    OBVIOUS
  <2>3. /\ mid \in Process
        /\ mid.attempt = me.attempt /\ mid.execute = me.execute
        /\ mid.pc = me.pc /\ mid.m = 1 /\ mid.broken = FALSE /\ mid.batch = b
    <3>1. me.broken = FALSE
      BY <1>3 DEF Process
    <3>2. QED
      BY <1>3, <2>1, <2>2, <3>1, BatchIs
  <2>4. PICK pc \in {"release", "start"} : Differs(to, mid, pc, 1, FALSE)
    <3>1. "release" \in Pcs /\ "start" \in Pcs /\ "already" \in Contexts
      BY DEF Pcs, Steps, Contexts
    <3>2. CASE to = WithPcContext(mid, "release", "already")
      BY <2>3, <3>1, <3>2, ContextIs
    <3>3. CASE to = WithPc(mid, "start")
      BY <2>3, <3>1, <3>3, GotoIs
    <3>4. QED
      BY <1>10, <2>2, <3>2, <3>3
  <2>5. /\ to \in Process /\ to.pc = pc /\ to.m = 1 /\ to.broken = FALSE
        /\ to.attempt = me.attempt /\ to.execute = me.execute /\ to.batch = b
    BY <2>3, <2>4 DEF Differs, SameMemory
  <2>6. Holds(p, to)'
    <3>1. b \in DOMAIN batches' /\ batches'[b].members = members
      BY <1>8, <1>10, <2>1
    <3>2. \A s \in Queries : me.attempt[s] # 0 => me.attempt[s] \in DOMAIN attempts'[s]
      BY <1>2, <1>8, <1>10 DEF Holds, RegistryMoves, Advances
    <3>3. QED
      BY <1>2, <1>5, <2>5, <3>1, <3>2 DEF Holds
  <2>7. Placed(p, to)
    BY <1>3, <2>5 DEF Placed, Running
  <2>8. Worked(p, to)'
    BY <2>5 DEF Worked, Running
  <2>9. Said(p, to)'
    BY <2>5 DEF Said
  <2>10. Knows(p, to)'
    BY <2>6, <2>7, <2>8, <2>9 DEF Knows, Placed
  <2>11. QED
    BY <1>10, <2>5, <2>10 DEF Moves
<1>11. ASSUME NEW b \in 1..(Len(batches) + 1),
              Hold(p, IF PairReleased(members)
                      THEN [me EXCEPT !.batch = b, !.pc = "release", !.context = "already"]
                      ELSE [me EXCEPT !.batch = b, !.pc = "start"])
       PROVE  \E to : /\ driver' = [driver EXCEPT ![p] = to]
                      /\ \/ to = WithPcContext(WithBatch(me, b), "release", "already")
                         \/ to = WithPc(WithBatch(me, b), "start")
  BY <1>11, Zenon DEF Hold, WithPcContext, WithBatch, WithPc
<1>12. /\ Call(ReservePairGranted(members), ReservePairEffect(members),
               \E b \in 1..(Len(batches) + 1) :
                 /\ ReservedBatch(members, b)
                 /\ Hold(p, IF PairReleased(members)
                            THEN [me EXCEPT !.batch = b, !.pc = "release", !.context = "already"]
                            ELSE [me EXCEPT !.batch = b, !.pc = "start"]),
               Handle(p, "release", "reserve"))
  BY <1>1, <1>6, Zenon DEF ReserveThePair
<1>13. ASSUME ReservePair(members),
              \E b \in 1..(Len(batches) + 1) :
                 /\ ReservedBatch(members, b)
                 /\ Hold(p, IF PairReleased(members)
                            THEN [me EXCEPT !.batch = b, !.pc = "release", !.context = "already"]
                            ELSE [me EXCEPT !.batch = b, !.pc = "start"])
       PROVE  Moves(p)
  BY <1>10, <1>11, <1>13, Zenon
<1>14. \/ ReservePair(members) /\ Moves(p) /\ NoFault
       \/ Falls(p) /\ NoFault /\ UNCHANGED registryVars
       \/ Falls(p) /\ Fault /\ UNCHANGED registryVars
       \/ ReservePair(members) /\ Falls(p) /\ Fault
  BY <1>9, <1>12, <1>13, Zenon DEF Call, ReservePair
<1>15. QED
  BY <1>8, <1>14, Stays, Stepped

-----------------------------------------------------------------------------
(* The execution of a replay.                                              *)

LEMMA ChainShape ==
  ASSUME NEW row \in Attempt, Shaped(row), PlannedRow(row)
  PROVE  /\ row.chain \in Seq(Lineages)
         /\ Len(row.chain) \in Nat /\ Len(row.chain) <= SourceDates
         /\ \A n \in 1..Len(row.chain) : row.chain[n] = Prefix(n)
         /\ row.status = "SUCCEEDED" => row.result = Planned
<1>1. row.chain \in Seq(Lineages) /\ Len(row.chain) <= SourceDates
  BY DEF Attempt, Shaped
<1>2. Len(row.chain) \in Nat
  BY <1>1
<1>3. QED
  BY <1>1, <1>2 DEF PlannedRow

(* A driver at work has its row, and the row has a part of the plan.       *)
LEMMA RowAtWork ==
  ASSUME PipelineInv, NEW p \in Drivers, NEW me \in Process, Knows(p, me),
         me.pc \in Running \cup {"complete"}, NEW q, q = Unit[p][me.m]
  PROVE  /\ q \in Queries /\ q \in RunBy(p)
         /\ me.attempt[q] \in DOMAIN attempts[q]
         /\ attempts[q][me.attempt[q]] \in Attempt
         /\ Shaped(attempts[q][me.attempt[q]])
         /\ PlannedRow(attempts[q][me.attempt[q]])
<1>1. q \in Queries /\ q \in RunBy(p)
  BY AtWork DEF Knows
<1>2. me.attempt[q] \in DOMAIN attempts[q]
  <2>1. me.attempt[q] # 0
    BY <1>1 DEF Knows, Placed
  <2>2. QED
    BY <1>1, <2>1 DEF Knows, Holds
<1>3. TablesInv
  BY DEF PipelineInv
<1>4. attempts[q][me.attempt[q]] \in Attempt /\ Shaped(attempts[q][me.attempt[q]])
  BY <1>1, <1>2, <1>3, RowShape DEF TablesInv, RegistryInv
<1>5. PlannedRow(attempts[q][me.attempt[q]])
  BY <1>1, <1>2, <1>3 DEF TablesInv, PlannedRows
<1>6. QED
  BY <1>1, <1>2, <1>4, <1>5, Zenon

(* start_phase1a_outcome_replay as a driver calls it.                      *)
LEMMA StartReplayKeeps ==
  ASSUME PipelineInv, NEW p \in Drivers, StartReplay(p)
  PROVE  StepHolds(p)
<1>1. PICK me \in Process : me = driver[p] /\ Knows(p, me)
  BY Memory
<1>2. me.pc = "start"
  BY <1>1 DEF StartReplay, At
<1>3. PICK q : q = Unit[p][me.m]
  OBVIOUS
<1>4. PICK a : a = me.attempt[q]
  OBVIOUS
<1>5. q = Query(p) /\ a = Manifest(p)
  BY <1>1, <1>3, <1>4 DEF Query, Manifest
<1>6. q \in Queries /\ a \in DOMAIN attempts[q]
  BY <1>1, <1>2, <1>3, <1>4, RowAtWork DEF Running
<1>7. ASSUME Start(q, a)
      PROVE  RegistryMoves
  <2>1. TablesInv' /\ Advances
    BY <1>6, <1>7, StartAdvances DEF PipelineInv
  <2>2. RegistryNext
    BY <1>6, <1>7 DEF RegistryNext
  <2>3. QED
    BY <2>1, <2>2 DEF RegistryMoves
<1>8. ASSUME Goto(p, "load")
      PROVE  Falls(p)
  <2>1. PICK to : to = WithPc(me, "load")
    OBVIOUS
  <2>2. "load" \in Pcs
    BY DEF Pcs, Steps
  <2>3. Differs(to, me, "load", me.m, me.broken)
    BY <2>1, <2>2, GotoIs
  <2>4. Holds(p, to)
    BY <1>1, <2>3 DEF Knows, Holds, Differs, SameMemory
  <2>5. Placed(p, to)
    BY <1>1, <1>2, <2>3 DEF Knows, Placed, Differs, SameMemory, Running
  <2>6. Worked(p, to)
    BY <1>1, <1>2, <2>3 DEF Knows, Worked, Differs, SameMemory, Running
  <2>7. Said(p, to)
    BY <2>3 DEF Said, Differs
  <2>8. driver' = [driver EXCEPT ![p] = to]
    BY <1>1, <1>8, <2>1, Zenon DEF Goto, Hold, WithPc
  <2>9. QED
    BY <2>3, <2>4, <2>5, <2>6, <2>7, <2>8 DEF Falls, Knows, Differs
<1>9. \/ Start(q, a) /\ Falls(p) /\ (NoFault \/ Fault)
      \/ Falls(p) /\ (NoFault \/ Fault) /\ UNCHANGED registryVars
  <2>1. Call(StartGranted(q, a), StartEffect(q, a), Goto(p, "load"), RunFailed(p))
    BY <1>5 DEF StartReplay
  <2>2. RunFailed(p) => Falls(p)
    BY RunFailedFalls
  <2>3. Goto(p, "load") => Falls(p)
    BY <1>8
  <2>4. QED
    BY <2>1, <2>2, <2>3, Zenon DEF Call, Start
<1>10. QED
  BY <1>7, <1>9, Stays, Stepped

WithWork(me, shards, economics, pc) ==
  [me EXCEPT !.shards = shards, !.economics = economics, !.pc = pc]

Restores(to, me, plan, pc) ==
  /\ to \in Process
  /\ to.attempt = me.attempt /\ to.execute = me.execute /\ to.batch = me.batch
  /\ to.finals = me.finals /\ to.results = me.results
  /\ to.m = me.m /\ to.broken = me.broken
  /\ to.shards = plan /\ to.economics = plan /\ to.pc = pc

LEMMA WorkIs ==
  ASSUME NEW me \in Process, NEW plan \in Seq(Nat), NEW pc \in Pcs
  PROVE  Restores(WithWork(me, plan, plan, pc), me, plan, pc)
<1>1. WithWork(me, plan, plan, pc) \in Process
  BY DEF WithWork, Process, Pcs
<1>2. QED
  BY <1>1 DEF WithWork, Restores, Process

(* The places of a replay that has n dates of the plan when its row's      *)
(* chain has len.                                                          *)
Reaches(n, len, pc) ==
  \/ pc = "replay" /\ n < SourceDates /\ n <= len
  \/ pc = "register" /\ n \in 1..(len + 1)
  \/ pc = "publish" /\ n = SourceDates /\ len = SourceDates

ChainOf(p, me) == attempts[Unit[p][me.m]][me.attempt[Unit[p][me.m]]].chain

LEMMA WorkPlaced ==
  ASSUME NEW p \in Drivers, NEW me \in Process, me.pc \in Running, NEW n \in 0..SourceDates,
         NEW pc \in {"replay", "register", "publish"}, Placed(p, me),
         NEW to, Restores(to, me, Prefix(n), pc)
  PROVE  Placed(p, to)
<1>1. /\ to.pc \in {"replay", "register", "publish"} /\ to.m = me.m
      /\ to.attempt = me.attempt
  BY DEF Restores
<1>2. QED
  BY <1>1 DEF Placed, Running

(* The work of a replay continues with a part of the plan.                 *)
LEMMA WorkWorked ==
  ASSUME NEW p \in Drivers, NEW me \in Process, me.pc \in Running, Worked(p, me),
         NEW n \in 0..SourceDates, NEW pc \in {"replay", "register", "publish"},
         NEW to, Restores(to, me, Prefix(n), pc), Reaches(n, Len(ChainOf(p, me)), pc)
  PROVE  Worked(p, to)
<1>1. n \in Nat /\ n <= SourceDates
  BY LimitsAreNumbers
<1>2. /\ to.pc = pc /\ to.m = me.m /\ to.attempt = me.attempt
      /\ to.shards = Prefix(n) /\ to.economics = Prefix(n)
      /\ to.finals = me.finals /\ to.results = me.results
  BY Zenon DEF Restores
<1>3. Len(to.shards) = n
  BY <1>1, <1>2, PrefixShape
<1>4. me.m = 2 => me.finals[Unit[p][1]] = Planned /\ me.results[Unit[p][1]] = Planned
  BY DEF Worked
<1>5. PICK chain : chain = ChainOf(p, me) /\ Reaches(n, Len(chain), pc)
  OBVIOUS
<1>6. /\ to.shards = Prefix(Len(to.shards))
      /\ to.economics = to.shards
      /\ Len(to.shards) <= SourceDates
  BY <1>1, <1>2, <1>3
<1>7. chain = ChainOf(p, to)
  BY <1>2, <1>5, Zenon DEF ChainOf
<1>8. /\ to.pc = "replay" => Len(to.shards) < SourceDates /\ Len(to.shards) <= Len(chain)
      /\ to.pc = "register" => Len(to.shards) \in 1..(Len(chain) + 1)
      /\ to.pc \in {"publish", "complete"} =>
           Len(to.shards) = SourceDates /\ Len(chain) = SourceDates
      /\ to.pc # "complete" /\ to.pc # "complete_pair"
  BY <1>2, <1>3, <1>5 DEF Reaches
<1>9. to.m = 2 => to.finals[Unit[p][1]] = Planned /\ to.results[Unit[p][1]] = Planned
  BY <1>2, <1>4
<1>10. QED
  BY <1>6, <1>7, <1>8, <1>9, Zenon DEF Worked, ChainOf

LEMMA WorkKnows ==
  ASSUME NEW p \in Drivers, NEW me \in Process, Knows(p, me), me.pc \in Running,
         NEW n \in 0..SourceDates, NEW pc \in {"replay", "register", "publish"},
         NEW to, Restores(to, me, Prefix(n), pc), Reaches(n, Len(ChainOf(p, me)), pc)
  PROVE  Knows(p, to)
<1>1. Holds(p, to)
  BY DEF Knows, Holds, Restores
<1>2. Placed(p, to)
  BY WorkPlaced DEF Knows
<1>3. Worked(p, to)
  BY WorkWorked DEF Knows
<1>4. Said(p, to)
  BY DEF Said, Restores
<1>5. QED
  BY <1>1, <1>2, <1>3, <1>4 DEF Knows

LEMMA WorkGoesOn ==
  ASSUME NEW p \in Drivers, NEW me \in Process, Knows(p, me), me.pc \in Running,
         NEW n \in 0..SourceDates, NEW pc \in {"replay", "register", "publish"},
         Reaches(n, Len(ChainOf(p, me)), pc), NEW plan, plan = Prefix(n)
  PROVE  WithWork(me, plan, plan, pc) \in Process /\ Knows(p, WithWork(me, plan, plan, pc))
<1>1. n \in Nat
  BY LimitsAreNumbers
<1>2. plan \in Seq(Nat)
  BY <1>1, PrefixShape
<1>3. pc \in Pcs
  BY DEF Pcs, Steps
<1>4. PICK to : to = WithWork(me, plan, plan, pc)
  OBVIOUS
<1>5. Restores(to, me, plan, pc)
  BY <1>2, <1>3, <1>4, WorkIs
<1>6. Knows(p, to)
  BY <1>5, WorkKnows
<1>7. QED
  BY <1>4, <1>5, <1>6 DEF Restores

(* What load_latest_phase1a_outcome_checkpoint restores is a part of the   *)
(* plan, as long as the chain.                                             *)
LEMMA LatestIs ==
  ASSUME NEW q, NEW a, attempts[q][a] \in Attempt, Shaped(attempts[q][a]),
         PlannedRow(attempts[q][a])
  PROVE  Latest(q, a) = Prefix(Len(attempts[q][a].chain))
<1>1. PICK chain \in Seq(Lineages) : chain = attempts[q][a].chain
  BY DEF Attempt
<1>2. \A n \in 1..Len(chain) : chain[n] = Prefix(n)
  BY <1>1 DEF PlannedRow
<1>3. CASE chain = <<>>
  BY <1>1, <1>3, PrefixNone DEF Latest
<1>4. CASE chain # <<>>
  <2>1. Len(chain) \in 1..Len(chain)
    BY <1>4
  <2>2. Latest(q, a) = chain[Len(chain)]
    BY <1>1, <1>4 DEF Latest
  <2>3. QED
    BY <1>1, <1>2, <2>1, <2>2
<1>5. QED
  BY <1>3, <1>4

LEMMA LoadCheckpointKeeps ==
  ASSUME PipelineInv, NEW p \in Drivers, LoadCheckpoint(p)
  PROVE  StepHolds(p)
<1>1. PICK me \in Process : me = driver[p] /\ Knows(p, me)
  BY Memory
<1>2. me.pc = "load"
  BY <1>1 DEF LoadCheckpoint, At
<1>3. PICK q : q = Unit[p][me.m]
  OBVIOUS
<1>4. PICK a : a = me.attempt[q]
  OBVIOUS
<1>5. q = Query(p) /\ a = Manifest(p)
  BY <1>1, <1>3, <1>4 DEF Query, Manifest
<1>6. attempts[q][a] \in Attempt /\ Shaped(attempts[q][a]) /\ PlannedRow(attempts[q][a])
  BY <1>1, <1>2, <1>3, <1>4, RowAtWork DEF Running
<1>7. PICK n \in Nat : n = Len(attempts[q][a].chain) /\ n <= SourceDates
  BY <1>6, ChainShape
<1>8. PICK plan : plan = Prefix(n) /\ plan = Latest(q, a) /\ plan = RestoredEconomics(q, a)
  BY <1>6, <1>7, LatestIs DEF RestoredEconomics
<1>9. Len(plan) = n /\ n \in 0..SourceDates
  <2>1. Len(Prefix(n)) = n
    BY PrefixShape
  <2>2. n \in 0..SourceDates
    <3>1. n <= SourceDates
      BY <1>7
    <3>2. QED
      BY <3>1, LimitsAreNumbers
  <2>3. QED
    BY <1>8, <2>1, <2>2
<1>10. PICK pc \in {"replay", "publish"} : pc = IF n = SourceDates THEN "publish" ELSE "replay"
  OBVIOUS
<1>11. Reaches(n, n, pc)
  BY <1>7, <1>10, LimitsAreNumbers DEF Reaches
<1>12. n = Len(ChainOf(p, me))
  BY <1>3, <1>4, <1>7, Zenon DEF ChainOf
<1>13. WithWork(me, plan, plan, pc) \in Process /\ Knows(p, WithWork(me, plan, plan, pc))
  <2>1. me.pc \in Running /\ pc \in {"replay", "register", "publish"}
    BY <1>2 DEF Running
  <2>2. Reaches(n, Len(ChainOf(p, me)), pc)
    BY <1>11, <1>12
  <2>3. QED
    BY <1>1, <1>8, <1>9, <2>1, <2>2, WorkGoesOn
<1>14. ASSUME LET shards == Latest(q, a)
                  economics == RestoredEconomics(q, a)
              IN  Hold(p, [driver[p] EXCEPT !.shards = shards, !.economics = economics,
                             !.pc = IF Len(shards) = SourceDates THEN "publish" ELSE "replay"])
       PROVE  Falls(p)
  <2>1. driver' = [driver EXCEPT ![p] = WithWork(me, plan, plan, pc)]
    BY <1>1, <1>8, <1>9, <1>10, <1>14, Zenon DEF Hold, WithWork
  <2>2. QED
    BY <1>13, <2>1, Zenon DEF Falls
<1>15. Call(LoadGranted(q, a), UNCHANGED registryVars,
            LET shards == Latest(q, a)
                economics == RestoredEconomics(q, a)
            IN  Hold(p, [driver[p] EXCEPT !.shards = shards, !.economics = economics,
                           !.pc = IF Len(shards) = SourceDates THEN "publish" ELSE "replay"]),
            RunFailed(p))
  BY <1>5, Zenon DEF LoadCheckpoint
<1>16. UNCHANGED registryVars /\ Falls(p) /\ (NoFault \/ Fault)
  <2>1. RunFailed(p) => Falls(p)
    BY RunFailedFalls
  <2>2. QED
    BY <1>14, <1>15, <2>1, Zenon DEF Call
<1>17. QED
  BY <1>16, Stays, Stepped

(* One more source date replayed and its shard published.                  *)
LEMMA ReplayDateKeeps ==
  ASSUME PipelineInv, NEW p \in Drivers, ReplayDate(p)
  PROVE  StepHolds(p)
<1>1. PICK me \in Process : me = driver[p] /\ Knows(p, me)
  BY Memory
<1>2. me.pc = "replay" /\ Worked(p, me)
  BY <1>1 DEF ReplayDate, At, Knows
<1>3. PICK n \in Nat : n = Len(me.shards)
  BY DEF Process
<1>4. me.shards = Prefix(n) /\ me.economics = Prefix(n) /\ n < SourceDates
  BY <1>2, <1>3 DEF Worked
<1>5. PICK chain : chain = ChainOf(p, me) /\ n <= Len(chain)
  BY <1>2, <1>3 DEF Worked, ChainOf
<1>6. Len(chain) \in Nat
  <2>1. me.pc \in Running
    BY <1>2 DEF Running
  <2>2. PICK row : row = attempts[Unit[p][me.m]][me.attempt[Unit[p][me.m]]]
    OBVIOUS
  <2>3. row \in Attempt /\ Shaped(row) /\ PlannedRow(row)
    BY <1>1, <2>1, <2>2, RowAtWork
  <2>4. chain = row.chain
    BY <1>5, <2>2, Zenon DEF ChainOf
  <2>5. QED
    BY <2>3, <2>4, ChainShape
<1>7. PICK k \in 0..SourceDates : k = n + 1
  BY <1>4, LimitsAreNumbers
<1>8. Reaches(k, Len(chain), "register")
  BY <1>5, <1>6, <1>7 DEF Reaches
<1>9. PICK plan : plan = Prefix(k) /\ plan = Append(Prefix(n), n + 1)
  BY <1>7, PrefixAppend
<1>10. WithWork(me, plan, plan, "register") \in Process /\ Knows(p, WithWork(me, plan, plan, "register"))
  <2>1. me.pc \in Running
    BY <1>2 DEF Running
  <2>2. Reaches(k, Len(ChainOf(p, me)), "register")
    BY <1>5, <1>8
  <2>3. QED
    BY <1>1, <1>9, <2>1, <2>2, WorkGoesOn
<1>11. ASSUME Hold(p, [driver[p] EXCEPT !.shards = Append(@, NextDate(p)),
                                       !.economics = Append(@, NextDate(p)),
                                       !.pc = "register"])
       PROVE  Falls(p)
  <2>1. NextDate(p) = n + 1
    BY <1>1, <1>3, Zenon DEF NextDate
  <2>2. /\ Append(me.shards, NextDate(p)) = plan
        /\ Append(me.economics, NextDate(p)) = plan
    BY <1>4, <1>9, <2>1
  <2>3. [me EXCEPT !.shards = Append(@, NextDate(p)), !.economics = Append(@, NextDate(p)),
                   !.pc = "register"]
          = WithWork(me, plan, plan, "register")
    BY <2>2 DEF WithWork, Process
  <2>4. driver' = [driver EXCEPT ![p] = WithWork(me, plan, plan, "register")]
    BY <1>1, <1>11, <2>3, Zenon DEF Hold
  <2>5. QED
    BY <1>10, <2>4, Zenon DEF Falls
<1>12. UNCHANGED registryVars /\ Falls(p) /\ (NoFault \/ Fault)
  <2>1. RunFailed(p) => Falls(p)
    BY RunFailedFalls
  <2>2. QED
    BY <1>11, <2>1, Zenon DEF ReplayDate
<1>13. QED
  BY <1>12, Stays, Stepped

(* register_phase1a_outcome_checkpoint as a driver calls it: the           *)
(* checkpoint it names as the predecessor is the plan up to the date       *)
(* before.                                                                 *)
LEMMA BeforeIs ==
  ASSUME NEW n \in 1..SourceDates
  PROVE  Before(Prefix(n)) = IF n = 1 THEN NoLineage ELSE Prefix(n - 1)
<1>1. n \in Nat \ {0}
  BY LimitsAreNumbers
<1>2. Len(Prefix(n)) = n
  BY <1>1, PrefixShape
<1>3. SubSeq(Prefix(n), 1, n - 1) = Prefix(n - 1)
  BY <1>1, PrefixBefore
<1>4. QED
  BY <1>2, <1>3 DEF Before

LEMMA BeforeIsLineage ==
  ASSUME NEW n \in 1..SourceDates
  PROVE  Before(Prefix(n)) \in Lineages \cup {NoLineage}
<1>1. CASE n = 1
  BY <1>1, BeforeIs
<1>2. CASE n # 1
  <2>1. n - 1 \in 1..SourceDates
    BY <1>2, LimitsAreNumbers
  <2>2. Prefix(n - 1) \in Lineages
    BY <2>1, PrefixIsLineage
  <2>3. QED
    BY <1>2, <2>2, BeforeIs
<1>3. QED
  BY <1>1, <1>2

LEMMA RegisterDateKeeps ==
  ASSUME PipelineInv, NEW p \in Drivers, RegisterDate(p)
  PROVE  StepHolds(p)
<1>1. PICK me \in Process : me = driver[p] /\ Knows(p, me)
  BY Memory
<1>2. me.pc = "register" /\ Worked(p, me) /\ me.pc \in Running
  BY <1>1 DEF RegisterDate, At, Knows, Running
<1>3. PICK q : q = Unit[p][me.m]
  OBVIOUS
<1>4. PICK a : a = me.attempt[q]
  OBVIOUS
<1>5. q = Query(p) /\ a = Manifest(p)
  BY <1>1, <1>3, <1>4 DEF Query, Manifest
<1>6. q \in Queries /\ a \in DOMAIN attempts[q]
  BY <1>1, <1>2, <1>3, <1>4, RowAtWork
<1>7. PICK n \in Nat : n = Len(me.shards)
  BY DEF Process
<1>8. me.shards = Prefix(n) /\ me.economics = me.shards /\ n <= SourceDates /\ n >= 1
  BY <1>2, <1>7 DEF Worked
<1>9. n \in 1..SourceDates
  BY <1>8, LimitsAreNumbers
<1>10. PICK before \in Lineages \cup {NoLineage} : before = Before(Prefix(n))
  BY <1>9, BeforeIsLineage
<1>11. ASSUME RegisterCheckpoint(q, a, n, Prefix(n), before)
       PROVE  RegistryMoves /\ n <= Len(attempts'[q][a].chain)
  <2>1. TablesInv' /\ Advances /\ n <= Len(attempts'[q][a].chain)
    BY <1>6, <1>9, <1>11, RegisterAdvances DEF PipelineInv
  <2>2. Prefix(n) \in Lineages
    BY <1>9, PrefixIsLineage
  <2>3. RegistryNext
    BY <1>6, <1>9, <1>11, <2>2 DEF RegistryNext
  <2>4. QED
    BY <2>1, <2>3 DEF RegistryMoves
<1>12. PICK pc \in {"publish", "replay"} : pc = IF n = SourceDates THEN "publish" ELSE "replay"
  OBVIOUS
<1>13. ASSUME Goto(p, pc), RegisterCheckpoint(q, a, n, Prefix(n), before)
       PROVE  Moves(p)
  <2>1. PICK to : to = WithPc(me, pc)
    OBVIOUS
  <2>2. pc \in Pcs
    BY DEF Pcs, Steps
  <2>3. Differs(to, me, pc, me.m, me.broken)
    BY <2>1, <2>2, GotoIs
  <2>4. TablesInv /\ TablesInv' /\ Advances
    BY <1>11, <1>13 DEF PipelineInv, RegistryMoves
  <2>5. Holds(p, me)' /\ Placed(p, me)' /\ Worked(p, me)'
    BY <1>1, <2>4, KnowsStays DEF Knows
  <2>6. Holds(p, to)'
    BY <2>3, <2>5 DEF Holds, Differs, SameMemory
  <2>7. Placed(p, to)'
    BY <1>2, <2>3, <2>5 DEF Placed, Differs, SameMemory, Running
  <2>8. PICK chain : chain = attempts'[q][a].chain
    OBVIOUS
  <2>9. Len(chain) \in Nat /\ Len(chain) <= SourceDates
    <3>1. a \in DOMAIN attempts'[q]
      BY <1>6, <2>4 DEF Advances
    <3>2. attempts'[q] \in Seq(Attempt) /\ Shaped(attempts'[q][a])
      BY <1>6, <2>4, <3>1 DEF TablesInv, RegistryInv, RegistryTypeOK
    <3>3. attempts'[q][a] \in Attempt
      BY <3>1, <3>2
    <3>4. QED
      BY <2>8, <3>2, <3>3 DEF Attempt, Shaped
  <2>10. n <= Len(chain)
    BY <1>11, <1>13, <2>8
  <2>11. Worked(p, to)'
    <3>1. /\ to.pc = pc /\ to.m = me.m /\ to.attempt = me.attempt
          /\ to.shards = Prefix(n) /\ to.economics = Prefix(n) /\ Len(to.shards) = n
          /\ to.finals = me.finals /\ to.results = me.results
      BY <1>7, <1>8, <2>3 DEF Differs, SameMemory
    <3>2. to.m = 2 => to.finals[Unit[p][1]] = Planned /\ to.results[Unit[p][1]] = Planned
      BY <1>2, <3>1 DEF Worked
    <3>3. chain = attempts'[Unit[p][to.m]][to.attempt[Unit[p][to.m]]].chain
      BY <1>3, <1>4, <2>8, <3>1, Zenon
    <3>4. /\ to.shards = Prefix(Len(to.shards))
          /\ to.economics = to.shards
          /\ Len(to.shards) <= SourceDates
      BY <1>8, <3>1
    <3>5. /\ to.pc = "replay" => Len(to.shards) < SourceDates /\ Len(to.shards) <= Len(chain)
          /\ to.pc # "register" /\ to.pc # "complete" /\ to.pc # "complete_pair"
          /\ to.pc \in {"publish", "complete"} =>
               Len(to.shards) = SourceDates /\ Len(chain) = SourceDates
      BY <1>8, <1>12, <2>9, <2>10, <3>1, LimitsAreNumbers
    <3>6. QED
      BY <3>2, <3>3, <3>4, <3>5, Zenon DEF Worked
  <2>12. Said(p, to)'
    BY <2>3 DEF Said, Differs
  <2>13. driver' = [driver EXCEPT ![p] = to]
    BY <1>1, <1>13, <2>1, Zenon DEF Goto, Hold, WithPc
  <2>14. QED
    BY <2>3, <2>6, <2>7, <2>11, <2>12, <2>13 DEF Moves, Knows, Differs
<1>14. Call(RegisterGranted(q, a, n, Prefix(n), before), RegisterEffect(q, a, n, Prefix(n)),
            Goto(p, pc), RunFailed(p))
  BY <1>1, <1>5, <1>7, <1>8, <1>10, <1>12, Zenon DEF RegisterDate
<1>15. \/ RegisterCheckpoint(q, a, n, Prefix(n), before) /\ (Moves(p) \/ Falls(p)) /\ (NoFault \/ Fault)
       \/ Falls(p) /\ (NoFault \/ Fault) /\ UNCHANGED registryVars
  <2>1. RunFailed(p) => Falls(p)
    BY RunFailedFalls
  <2>2. Goto(p, pc) /\ RegisterCheckpoint(q, a, n, Prefix(n), before) => Moves(p)
    BY <1>13
  <2>3. QED
    BY <1>14, <2>1, <2>2, Zenon DEF Call, RegisterCheckpoint
<1>16. QED
  BY <1>11, <1>15, Stays, Stepped

WithFinal(me, q, plan) == [me EXCEPT !.results[q] = plan, !.finals[q] = plan]

Prepares(to, me, q, plan) ==
  /\ to \in Process
  /\ to.attempt = me.attempt /\ to.execute = me.execute /\ to.batch = me.batch
  /\ to.shards = me.shards /\ to.economics = me.economics
  /\ to.pc = me.pc /\ to.m = me.m /\ to.broken = me.broken
  /\ to.finals[q] = plan /\ to.results[q] = plan
  /\ \A r \in Queries : r # q => to.finals[r] = me.finals[r] /\ to.results[r] = me.results[r]

LEMMA FinalIs ==
  ASSUME NEW me \in Process, NEW q \in Queries, NEW plan \in Seq(Nat)
  PROVE  Prepares(WithFinal(me, q, plan), me, q, plan)
<1>1. PICK finals \in [Queries -> Seq(Nat)] : finals = [me.finals EXCEPT ![q] = plan]
  BY DEF Process
<1>2. PICK results \in [Queries -> Seq(Nat)] : results = [me.results EXCEPT ![q] = plan]
  BY DEF Process
<1>3. WithFinal(me, q, plan) = [me EXCEPT !.results = results, !.finals = finals]
  BY <1>1, <1>2 DEF WithFinal, Process
<1>4. PICK to : to = [me EXCEPT !.results = results, !.finals = finals]
  OBVIOUS
<1>5. to \in Process
  BY <1>4 DEF Process
<1>6. /\ to.attempt = me.attempt /\ to.execute = me.execute /\ to.batch = me.batch
      /\ to.shards = me.shards /\ to.economics = me.economics
      /\ to.pc = me.pc /\ to.m = me.m /\ to.broken = me.broken
      /\ to.finals = finals /\ to.results = results
  BY <1>4 DEF Process
<1>7. /\ finals[q] = plan /\ results[q] = plan
      /\ \A r \in Queries : r # q => finals[r] = me.finals[r] /\ results[r] = me.results[r]
  BY <1>1, <1>2 DEF Process
<1>8. QED
  BY <1>3, <1>4, <1>5, <1>6, <1>7 DEF Prepares

(* Where a prepared result leaves a driver.                                *)
WithMemberAt(me, m, pc) == [me EXCEPT !.m = m, !.pc = pc]

LEMMA MemberAtIs ==
  ASSUME NEW me \in Process, NEW m \in 1..2, NEW pc \in Pcs
  PROVE  Differs(WithMemberAt(me, m, pc), me, pc, m, me.broken)
<1>1. PICK mid : mid = WithMember(me, m)
  OBVIOUS
<1>2. WithMemberAt(me, m, pc) = WithPc(mid, pc)
  BY <1>1 DEF WithMemberAt, WithMember, WithPc
<1>3. Differs(mid, me, me.pc, m, me.broken)
  BY <1>1, MemberIs
<1>4. Differs(WithPc(mid, pc), mid, pc, m, me.broken)
  BY <1>3, GotoIs DEF Differs
<1>5. QED
  BY <1>2, <1>3, <1>4 DEF Differs, SameMemory

AfterResult(p, me, m, pc) ==
  \/ Paired(p) /\ me.m = 1 /\ m = 2 /\ pc = "start"
  \/ Paired(p) /\ me.m = 2 /\ m = 2 /\ pc = "complete_pair"
  \/ ~Paired(p) /\ m = me.m /\ pc = "complete"

(* The result of a member is prepared.                                     *)
LEMMA PreparedKnows ==
  ASSUME NEW p \in Drivers, NEW me \in Process, Knows(p, me), me.pc = "publish",
         NEW mid, Prepares(mid, me, Unit[p][me.m], Planned),
         NEW to, NEW m \in 1..2, NEW pc \in {"start", "complete", "complete_pair"},
         Differs(to, mid, pc, m, mid.broken),
         AfterResult(p, me, m, pc)
  PROVE  Knows(p, to)
<1>1. Holds(p, me) /\ Placed(p, me) /\ Worked(p, me)
  BY DEF Knows
<1>2. PICK q \in Queries : q = Unit[p][me.m] /\ q \in RunBy(p)
  BY <1>1, AtWork
<1>3. /\ to \in Process /\ to.pc = pc /\ to.m = m /\ to.broken = me.broken
      /\ to.attempt = me.attempt /\ to.execute = me.execute /\ to.batch = me.batch
      /\ to.shards = me.shards /\ to.economics = me.economics
      /\ to.finals[q] = Planned /\ to.results[q] = Planned
      /\ \A r \in Queries : r # q => to.finals[r] = me.finals[r] /\ to.results[r] = me.results[r]
  BY <1>2 DEF Prepares, Differs, SameMemory
<1>4. Holds(p, to)
  BY <1>1, <1>3 DEF Holds
<1>5. Placed(p, to)
  <2>1. \A s \in RunBy(p) : to.attempt[s] # 0
    BY <1>1, <1>3 DEF Placed, Running
  <2>2. me.m = 2 => Paired(p)
    BY <1>1 DEF Placed
  <2>3. QED
    BY <1>3, <2>1, <2>2 DEF Placed, AfterResult
<1>6. /\ me.shards = Prefix(Len(me.shards)) /\ me.economics = me.shards
      /\ Len(me.shards) = SourceDates /\ Len(ChainOf(p, me)) = SourceDates
  BY <1>1 DEF Worked, ChainOf
<1>7. CASE pc = "complete"
  <2>1. to.m = me.m
    BY <1>3, <1>7 DEF AfterResult
  <2>2. ChainOf(p, to) = ChainOf(p, me)
    BY <1>3, <2>1, Zenon DEF ChainOf
  <2>3. /\ to.shards = Prefix(Len(to.shards))
        /\ to.economics = to.shards
        /\ Len(to.shards) <= SourceDates
        /\ Len(to.shards) = SourceDates /\ Len(ChainOf(p, to)) = SourceDates
    BY <1>3, <1>6, <2>2, LimitsAreNumbers
  <2>4. Unit[p][to.m] = q
    BY <1>2, <2>1
  <2>5. /\ to.pc # "replay" /\ to.pc # "register" /\ to.pc # "complete_pair"
        /\ to.pc \notin Running
    BY <1>3, <1>7 DEF Running
  <2>6. Worked(p, to)
    BY <1>3, <2>3, <2>4, <2>5, Zenon DEF Worked, ChainOf
  <2>7. Said(p, to)
    BY <1>3, <1>7 DEF Said
  <2>8. QED
    BY <1>4, <1>5, <2>6, <2>7 DEF Knows
<1>8. CASE pc = "start"
  <2>1. Unit[p][1] = q
    BY <1>2, <1>8 DEF AfterResult
  <2>2. to.finals[Unit[p][1]] = Planned /\ to.results[Unit[p][1]] = Planned
    BY <1>3, <2>1
  <2>3. Worked(p, to)
    BY <1>3, <1>8, <2>2 DEF Worked
  <2>4. Said(p, to)
    BY <1>3, <1>8 DEF Said
  <2>5. QED
    BY <1>4, <1>5, <2>3, <2>4 DEF Knows
<1>9. CASE pc = "complete_pair"
  <2>1. Pair = {Unit[p][1], q} /\ Unit[p][1] # q /\ Unit[p][1] \in Queries
    BY <1>2, <1>9, UnitShape, PairIsAmongQueries DEF AfterResult
  <2>2. me.finals[Unit[p][1]] = Planned /\ me.results[Unit[p][1]] = Planned
    BY <1>1, <1>9 DEF Worked, Running, AfterResult
  <2>3. \A r \in Pair : to.finals[r] = Planned /\ to.results[r] = Planned
    BY <1>3, <2>1, <2>2
  <2>4. Worked(p, to)
    BY <1>3, <1>9, <2>3 DEF Worked, Running
  <2>5. Said(p, to)
    BY <1>3, <1>9 DEF Said
  <2>6. QED
    BY <1>4, <1>5, <2>4, <2>5 DEF Knows
<1>10. QED
  BY <1>7, <1>8, <1>9

(* The final result of a member is published.                              *)
LEMMA PublishResultKeeps ==
  ASSUME PipelineInv, NEW p \in Drivers, PublishResult(p)
  PROVE  StepHolds(p)
<1>1. PICK me \in Process : me = driver[p] /\ Knows(p, me)
  BY Memory
<1>2. me.pc = "publish" /\ Worked(p, me) /\ Placed(p, me)
  BY <1>1 DEF PublishResult, At, Knows
<1>3. PICK q \in Queries : q = Unit[p][me.m] /\ q = Query(p)
  BY <1>1, <1>2, AtWork DEF Query
<1>4. Planned \in Seq(Nat)
  BY PrefixShape, LimitsAreNumbers DEF Planned
<1>5. me.shards = Planned /\ me.economics = Planned
  BY <1>2 DEF Worked, Planned
<1>6. PICK mid : mid = WithFinal(me, q, Planned)
  OBVIOUS
<1>7. Prepares(mid, me, q, Planned)
  BY <1>4, <1>6, FinalIs
<1>8. mid \in Process /\ mid.m = me.m /\ me.m \in 1..2
  BY <1>7 DEF Prepares, Process
<1>9. "start" \in Pcs /\ "complete" \in Pcs /\ "complete_pair" \in Pcs
  BY DEF Pcs, Steps
<1>10. ASSUME NEW to, to = IF Paired(p) /\ me.m = 1 THEN WithMemberAt(mid, 2, "start")
                           ELSE WithPc(mid, IF Paired(p) THEN "complete_pair" ELSE "complete")
       PROVE  to \in Process /\ Knows(p, to)
  <2>1. CASE Paired(p) /\ me.m = 1
    <3>1. Differs(to, mid, "start", 2, mid.broken)
      BY <1>8, <1>9, <1>10, <2>1, MemberAtIs
    <3>2. AfterResult(p, me, 2, "start") /\ 2 \in 1..2
      BY <2>1 DEF AfterResult
    <3>3. Knows(p, to)
      BY <1>1, <1>2, <1>3, <1>7, <3>1, <3>2, PreparedKnows
    <3>4. QED
      BY <3>1, <3>3 DEF Differs
  <2>2. CASE Paired(p) /\ me.m # 1
    <3>1. Differs(to, mid, "complete_pair", me.m, mid.broken)
      BY <1>8, <1>9, <1>10, <2>2, GotoIs
    <3>2. AfterResult(p, me, me.m, "complete_pair")
      BY <1>8, <2>2 DEF AfterResult
    <3>3. Knows(p, to)
      BY <1>1, <1>2, <1>3, <1>7, <1>8, <3>1, <3>2, PreparedKnows
    <3>4. QED
      BY <3>1, <3>3 DEF Differs
  <2>3. CASE ~Paired(p)
    <3>1. Differs(to, mid, "complete", me.m, mid.broken)
      BY <1>8, <1>9, <1>10, <2>3, GotoIs
    <3>2. AfterResult(p, me, me.m, "complete")
      BY <2>3 DEF AfterResult
    <3>3. Knows(p, to)
      BY <1>1, <1>2, <1>3, <1>7, <1>8, <3>1, <3>2, PreparedKnows
    <3>4. QED
      BY <3>1, <3>3 DEF Differs
  <2>4. QED
    BY <2>1, <2>2, <2>3
<1>11. ASSUME LET final == [driver[p] EXCEPT !.results[Query(p)] = driver[p].economics,
                                            !.finals[Query(p)] = driver[p].shards]
              IN  Hold(p, IF Paired(p) /\ final.m = 1 THEN [final EXCEPT !.m = 2, !.pc = "start"]
                          ELSE [final EXCEPT !.pc = IF Paired(p) THEN "complete_pair" ELSE "complete"])
       PROVE  Falls(p)
  <2>1. mid = [me EXCEPT !.results[q] = me.economics, !.finals[q] = me.shards]
    BY <1>5, <1>6, Zenon DEF WithFinal
  <2>2. PICK to : to = IF Paired(p) /\ me.m = 1 THEN WithMemberAt(mid, 2, "start")
                       ELSE WithPc(mid, IF Paired(p) THEN "complete_pair" ELSE "complete")
    OBVIOUS
  <2>3. Hold(p, IF Paired(p) /\ mid.m = 1 THEN [mid EXCEPT !.m = 2, !.pc = "start"]
                ELSE [mid EXCEPT !.pc = IF Paired(p) THEN "complete_pair" ELSE "complete"])
    BY <1>1, <1>3, <1>11, <2>1, Zenon
  <2>4. driver' = [driver EXCEPT ![p] = to]
    BY <1>8, <2>2, <2>3, Zenon DEF Hold, WithMemberAt, WithPc
  <2>5. QED
    BY <1>10, <2>2, <2>4, Zenon DEF Falls
<1>12. UNCHANGED registryVars /\ Falls(p) /\ (NoFault \/ Fault)
  <2>1. RunFailed(p) => Falls(p)
    BY RunFailedFalls
  <2>2. QED
    BY <1>11, <2>1, Zenon DEF PublishResult
<1>13. QED
  BY <1>12, Stays, Stepped

(* complete_phase1a_outcome_replay as a driver calls it.                   *)
LEMMA CompleteAloneKeeps ==
  ASSUME PipelineInv, NEW p \in Drivers, CompleteAlone(p)
  PROVE  StepHolds(p)
<1>1. PICK me \in Process : me = driver[p] /\ Knows(p, me)
  BY Memory
<1>2. me.pc = "complete" /\ Worked(p, me) /\ Placed(p, me) /\ Holds(p, me)
  BY <1>1 DEF CompleteAlone, At, Knows
<1>3. PICK q : q = Unit[p][me.m]
  OBVIOUS
<1>4. PICK a : a = me.attempt[q]
  OBVIOUS
<1>5. q = Query(p) /\ a = Manifest(p)
  BY <1>1, <1>3, <1>4 DEF Query, Manifest
<1>6. q \in Queries /\ q \in RunBy(p) /\ a \in DOMAIN attempts[q]
  BY <1>1, <1>2, <1>3, <1>4, RowAtWork
<1>7. me.finals[q] = Planned /\ me.results[q] = Planned
  BY <1>2, <1>3 DEF Worked
<1>8. a # 0
  BY <1>2, <1>4, <1>6 DEF Placed
<1>9. Planned \in Lineages
  BY PrefixIsLineage, LimitsAreNumbers DEF Planned
<1>10. ASSUME Complete(q, a, Planned, Planned)
       PROVE  /\ RegistryMoves
              /\ attempts'[q][a].status = "SUCCEEDED"
              /\ attempts'[q][a].result = Planned
  <2>1. /\ TablesInv' /\ Advances
        /\ attempts'[q][a].status = "SUCCEEDED"
        /\ attempts'[q][a].result = Planned
    BY <1>6, <1>10, CompleteAdvances DEF PipelineInv
  <2>2. RegistryNext
    BY <1>6, <1>9, <1>10 DEF RegistryNext
  <2>3. QED
    BY <2>1, <2>2 DEF RegistryMoves
<1>11. ASSUME Goto(p, "succeeded"), Complete(q, a, Planned, Planned)
       PROVE  Moves(p)
  <2>1. PICK to : to = WithPc(me, "succeeded")
    OBVIOUS
  <2>2. "succeeded" \in Pcs
    BY DEF Pcs, Ended
  <2>3. Differs(to, me, "succeeded", me.m, me.broken)
    BY <2>1, <2>2, GotoIs
  <2>4. TablesInv /\ TablesInv' /\ Advances
    BY <1>10, <1>11 DEF PipelineInv, RegistryMoves
  <2>5. Holds(p, me)'
    BY <1>1, <2>4, KnowsStays DEF Knows
  <2>6. Holds(p, to)'
    BY <2>3, <2>5 DEF Holds, Differs, SameMemory
  <2>7. Placed(p, to)'
    BY <1>2, <2>3 DEF Placed, Differs, SameMemory, Running
  <2>8. Worked(p, to)'
    BY <2>3 DEF Worked, Differs, Running
  <2>9. /\ to.attempt[q] = a /\ to.results[q] = Planned /\ Unit[p][to.m] = q
        /\ to.pc = "succeeded"
    BY <1>3, <1>4, <1>7, <2>3 DEF Differs, SameMemory
  <2>10. Said(p, to)'
    BY <1>8, <1>10, <1>11, <2>9 DEF Said
  <2>11. driver' = [driver EXCEPT ![p] = to]
    BY <1>1, <1>11, <2>1, Zenon DEF Goto, Hold, WithPc
  <2>12. QED
    BY <2>3, <2>6, <2>7, <2>8, <2>10, <2>11 DEF Moves, Knows, Differs
<1>12. Call(CompleteGranted(q, a, Planned, Planned), CompleteEffect(q, a, Planned),
            Goto(p, "succeeded"), RunFailed(p))
  BY <1>1, <1>5, <1>7, Zenon DEF CompleteAlone
<1>13. \/ Complete(q, a, Planned, Planned) /\ (Moves(p) \/ Falls(p)) /\ (NoFault \/ Fault)
       \/ Falls(p) /\ (NoFault \/ Fault) /\ UNCHANGED registryVars
  <2>1. RunFailed(p) => Falls(p)
    BY RunFailedFalls
  <2>2. Goto(p, "succeeded") /\ Complete(q, a, Planned, Planned) => Moves(p)
    BY <1>11
  <2>3. QED
    BY <1>12, <2>1, <2>2, Zenon DEF Call, Complete
<1>14. QED
  BY <1>10, <1>13, Stays, Stepped

(* A driver that ends, with what the registry says of it.                  *)
LEMMA EndsKnows ==
  ASSUME TablesInv, TablesInv', Advances, NEW p \in Drivers, NEW me \in Process, Knows(p, me),
         NEW pc \in {"released", "failed"}, NEW to, Differs(to, me, pc, me.m, me.broken),
         pc = "released" => \E r \in releases' : r.members = [s \in Pair |-> me.attempt[s]],
         pc = "failed" => \A s \in me.execute : IsFailed(me, s)'
  PROVE  Knows(p, to)'
<1>1. Holds(p, me)' /\ Placed(p, me)
  BY KnowsStays DEF Knows
<1>2. /\ to.pc = pc /\ to.m = me.m /\ to.attempt = me.attempt /\ to.execute = me.execute
      /\ to.batch = me.batch
  BY DEF Differs, SameMemory
<1>3. Holds(p, to)'
  BY <1>1, <1>2 DEF Holds
<1>4. Placed(p, to)'
  BY <1>1, <1>2 DEF Placed, Running
<1>5. Worked(p, to)'
  BY <1>2 DEF Worked, Running
<1>6. Said(p, to)'
  <2>1. pc = "released" => \E r \in releases' : r.members = [s \in Pair |-> to.attempt[s]]
    BY <1>2
  <2>2. pc = "failed" => \A s \in to.execute : IsFailed(to, s)'
    BY <1>2 DEF IsFailed
  <2>3. QED
    BY <1>2, <2>1, <2>2 DEF Said
<1>7. QED
  BY <1>3, <1>4, <1>5, <1>6 DEF Knows

LEMMA EndsMoves ==
  ASSUME PipelineInv, RegistryMoves, NEW p \in Drivers, NEW me \in Process, me = driver[p],
         Knows(p, me), NEW pc \in {"released", "failed"}, Goto(p, pc),
         pc = "released" => \E r \in releases' : r.members = [s \in Pair |-> me.attempt[s]],
         pc = "failed" => \A s \in me.execute : IsFailed(me, s)'
  PROVE  Moves(p)
<1>1. PICK to : to = WithPc(me, pc)
  OBVIOUS
<1>2. pc \in Pcs
  BY DEF Pcs, Ended
<1>3. Differs(to, me, pc, me.m, me.broken)
  BY <1>1, <1>2, GotoIs
<1>4. TablesInv /\ TablesInv' /\ Advances
  BY DEF PipelineInv, RegistryMoves
<1>5. Knows(p, to)'
  BY <1>3, <1>4, EndsKnows
<1>6. driver' = [driver EXCEPT ![p] = to]
  BY <1>1, Zenon DEF Goto, Hold, WithPc
<1>7. QED
  BY <1>3, <1>5, <1>6 DEF Moves, Differs

(* complete_phase1a_p4_outcome_pair as a driver calls it.                  *)
LEMMA CompleteBothKeeps ==
  ASSUME PipelineInv, NEW p \in Drivers, CompleteBoth(p)
  PROVE  StepHolds(p)
<1>1. PICK me \in Process : me = driver[p] /\ Knows(p, me)
  BY Memory
<1>2. me.pc = "complete_pair" /\ Worked(p, me) /\ Placed(p, me)
  BY <1>1 DEF CompleteBoth, At, Knows
<1>3. Pair # {} /\ RunBy(p) = Pair
  BY <1>2, UnitShape DEF Placed
<1>4. PICK members \in [Pair -> Nat] : members = [q \in Pair |-> me.attempt[q]]
  BY PairIsAmongQueries DEF Process
<1>5. Bound(p) = members
  BY <1>1, <1>4 DEF Bound
<1>6. PICK plans : plans = [q \in Pair |-> Planned]
  OBVIOUS
<1>7. /\ [q \in Pair |-> me.finals[q]] = plans
      /\ [q \in Pair |-> me.results[q]] = plans
  BY <1>2, <1>6 DEF Worked
<1>8. plans \in [Pair -> Lineages]
  BY <1>6, PrefixIsLineage, LimitsAreNumbers DEF Planned
<1>9. PICK b : b = me.batch
  OBVIOUS
<1>10. ASSUME CompletePair(b, members, plans, plans)
       PROVE  RegistryMoves /\ \E r \in releases' : r.members = members
  <2>1. TablesInv
    BY DEF PipelineInv
  <2>2. b \in DOMAIN batches /\ MembersExist(members)
    BY <1>10 DEF CompletePair, CompletePairGranted
  <2>3. members \in [Pair -> 1..MaxAttempts]
    BY <2>1, <2>2, MembersAreNumbers
  <2>4. TablesInv' /\ Advances /\ \E r \in releases' : r.members = members
    BY <1>6, <1>10, <2>1, <2>2, <2>3, CompletePairAdvances
  <2>5. RegistryNext
    BY <1>3, <1>8, <1>10, <2>2, <2>3 DEF RegistryNext
  <2>6. QED
    BY <2>4, <2>5 DEF RegistryMoves
<1>11. ASSUME Goto(p, "released"), CompletePair(b, members, plans, plans)
       PROVE  Moves(p)
  BY <1>1, <1>4, <1>10, <1>11, EndsMoves
<1>12. Call(CompletePairGranted(b, members, plans, plans), CompletePairEffect(b, members, plans),
            Goto(p, "released"), RunFailed(p))
  BY <1>1, <1>5, <1>7, <1>9, Zenon DEF CompleteBoth
<1>13. \/ CompletePair(b, members, plans, plans) /\ (Moves(p) \/ Falls(p)) /\ (NoFault \/ Fault)
       \/ Falls(p) /\ (NoFault \/ Fault) /\ UNCHANGED registryVars
  <2>1. RunFailed(p) => Falls(p)
    BY RunFailedFalls
  <2>2. Goto(p, "released") /\ CompletePair(b, members, plans, plans) => Moves(p)
    BY <1>11
  <2>3. QED
    BY <1>12, <2>1, <2>2, Zenon DEF Call, CompletePair
<1>14. QED
  BY <1>10, <1>13, Stays, Stepped

-----------------------------------------------------------------------------
(* Errors.                                                                 *)

(* fail_phase1a_outcome_replay as a driver calls it.                       *)
LEMMA RegisterFailureKeeps ==
  ASSUME PipelineInv, NEW p \in Drivers, RegisterFailure(p)
  PROVE  StepHolds(p)
<1>1. PICK me \in Process : me = driver[p] /\ Knows(p, me)
  BY Memory
<1>2. me.pc = "fail" /\ Placed(p, me) /\ Holds(p, me)
  BY <1>1 DEF RegisterFailure, At, Knows
<1>3. ~Paired(p) /\ me.m = 1
  BY <1>2 DEF Placed, Process
<1>4. PICK q \in Queries : q = Unit[p][me.m] /\ RunBy(p) = {q}
  BY <1>2, <1>3, AtWork, UnitShape
<1>5. PICK a : a = me.attempt[q]
  OBVIOUS
<1>6. q = Query(p) /\ a = Manifest(p)
  BY <1>1, <1>4, <1>5 DEF Query, Manifest
<1>7. PICK message \in Messages :
        Call(FailGranted(q, a, message), FailEffect(q, a, message),
             Goto(p, "failed"), Goto(p, "raised"))
  BY <1>6, Zenon DEF RegisterFailure
<1>8. ASSUME Fail(q, a, message)
      PROVE  RegistryMoves /\ attempts'[q][a].status = "FAILED"
  <2>1. a \in DOMAIN attempts[q]
    BY <1>8 DEF Fail, FailGranted, HasAttempt
  <2>2. TablesInv' /\ Advances /\ attempts'[q][a].status = "FAILED"
    BY <1>8, <2>1, FailAdvances DEF PipelineInv
  <2>3. RegistryNext
    BY <1>8, <2>1 DEF RegistryNext
  <2>4. QED
    BY <2>2, <2>3 DEF RegistryMoves
<1>9. ASSUME Goto(p, "failed"), Fail(q, a, message)
      PROVE  Moves(p)
  <2>1. \A s \in me.execute : IsFailed(me, s)'
    BY <1>2, <1>4, <1>5, <1>8, <1>9 DEF Holds, IsFailed
  <2>2. QED
    BY <1>1, <1>8, <1>9, <2>1, EndsMoves
<1>10. \/ Fail(q, a, message) /\ (Moves(p) \/ Falls(p)) /\ (NoFault \/ Fault)
       \/ Falls(p) /\ (NoFault \/ Fault) /\ UNCHANGED registryVars
  <2>1. Goto(p, "raised") => Falls(p)
    BY GotoFalls
  <2>2. Goto(p, "failed") /\ Fail(q, a, message) => Moves(p)
    BY <1>9
  <2>3. QED
    BY <1>7, <2>1, <2>2, Zenon DEF Call, Fail
<1>11. QED
  BY <1>8, <1>10, Stays, Stepped

(* fail_phase1a_p4_outcome_pair as a driver calls it: the batch it names   *)
(* has exactly its reservations as members.                                *)
LEMMA RegisterPairFailureKeeps ==
  ASSUME PipelineInv, NEW p \in Drivers, RegisterPairFailure(p)
  PROVE  StepHolds(p)
<1>1. PICK me \in Process : me = driver[p] /\ Knows(p, me)
  BY Memory
<1>2. me.pc = "fail_pair" /\ Placed(p, me) /\ Holds(p, me)
  BY <1>1 DEF RegisterPairFailure, At, Knows
<1>3. Paired(p) /\ Pair # {} /\ RunBy(p) = Pair
  BY <1>2, UnitShape DEF Placed
<1>4. PICK b : b = me.batch
  OBVIOUS
<1>5. PICK message \in Messages :
        Call(FailPairGranted(b, message), FailPairEffect(b, message),
             Goto(p, "failed"), Handle(p, "release", "again"))
  BY <1>1, <1>4, Zenon DEF RegisterPairFailure
<1>6. ASSUME FailPair(b, message)
      PROVE  /\ RegistryMoves
             /\ b \in DOMAIN batches
             /\ \A q \in Pair : attempts'[q][batches[b].members[q]].status = "FAILED"
  <2>1. b \in DOMAIN batches
    BY <1>6 DEF FailPair, FailPairGranted
  <2>2. /\ TablesInv' /\ Advances
        /\ \A q \in Pair : attempts'[q][batches[b].members[q]].status = "FAILED"
    BY <1>3, <1>6, <2>1, FailPairAdvances DEF PipelineInv
  <2>3. RegistryNext
    BY <1>3, <1>6, <2>1 DEF RegistryNext
  <2>4. QED
    BY <2>1, <2>2, <2>3 DEF RegistryMoves
<1>7. ASSUME Goto(p, "failed"), FailPair(b, message)
      PROVE  Moves(p)
  <2>1. b # 0
    BY <1>6, <1>7 DEF PipelineInv, TablesInv, RegistryInv, RegistryTypeOK
  <2>2. batches[b].members = [q \in Pair |-> me.attempt[q]]
    BY <1>2, <1>4, <2>1 DEF Holds
  <2>3. \A s \in me.execute : IsFailed(me, s)'
    BY <1>2, <1>3, <1>6, <1>7, <2>2 DEF Holds, IsFailed
  <2>4. QED
    BY <1>1, <1>6, <1>7, <2>3, EndsMoves
<1>8. \/ FailPair(b, message) /\ (Moves(p) \/ Falls(p)) /\ (NoFault \/ Fault)
      \/ Falls(p) /\ (NoFault \/ Fault) /\ UNCHANGED registryVars
  <2>1. Handle(p, "release", "again") => Falls(p)
    BY <1>3, HandleFalls DEF Contexts
  <2>2. Goto(p, "failed") /\ FailPair(b, message) => Moves(p)
    BY <1>7
  <2>3. QED
    BY <1>5, <2>1, <2>2, Zenon DEF Call, FailPair
<1>9. QED
  BY <1>6, <1>8, Stays, Stepped

(* _try_load_released_p4_pair: found, proven absent, or left ambiguous.    *)
LEMMA LoadReleaseKeeps ==
  ASSUME PipelineInv, NEW p \in Drivers, LoadRelease(p)
  PROVE  StepHolds(p)
<1>1. PICK me \in Process : me = driver[p] /\ Knows(p, me)
  BY Memory
<1>2. me.pc = "release" /\ Placed(p, me)
  BY <1>1 DEF LoadRelease, At, Knows
<1>3. Paired(p) /\ me.m = 1
  BY <1>2 DEF Placed
<1>4. RegistryMoves /\ releases' = releases
  BY Stays DEF LoadRelease, registryVars
<1>5. ASSUME ReleaseOf(Bound(p)) # {}, Goto(p, "released")
      PROVE  Moves(p)
  <2>1. Bound(p) = [s \in Pair |-> me.attempt[s]]
    BY <1>1 DEF Bound
  <2>2. \E r \in releases' : r.members = [s \in Pair |-> me.attempt[s]]
    BY <1>4, <1>5, <2>1 DEF ReleaseOf
  <2>3. QED
    BY <1>1, <1>4, <1>5, <2>2, EndsMoves
<1>6. ASSUME Goto(p, "cleanup")
      PROVE  Falls(p)
  <2>1. PICK to : to = WithPc(me, "cleanup")
    OBVIOUS
  <2>2. "cleanup" \in Pcs
    BY DEF Pcs, Steps
  <2>3. Differs(to, me, "cleanup", 1, me.broken)
    BY <1>3, <2>1, <2>2, GotoIs
  <2>4. Placed(p, to)
    BY <1>3, <2>3 DEF Placed, Differs, Running
  <2>5. Knows(p, to)
    BY <1>1, <2>3, <2>4, QuietKnows DEF Differs, Quiet
  <2>6. driver' = [driver EXCEPT ![p] = to]
    BY <1>1, <1>6, <2>1, Zenon DEF Goto, Hold, WithPc
  <2>7. QED
    BY <2>3, <2>5, <2>6 DEF Falls, Differs
<1>7. ASSUME AbsentRelease(p), ~Goto(p, "cleanup")
      PROVE  Falls(p)
  <2>1. \E pc \in {"fail_pair", "raised"} : Goto(p, pc)
    BY <1>7 DEF AbsentRelease
  <2>2. QED
    BY <1>3, <2>1, GotoFalls
<1>8. ASSUME Goto(p, "ambiguous") \/ Handle(p, "release", "duplicate")
      PROVE  Falls(p)
  BY <1>3, <1>8, GotoFalls, HandleFalls DEF Contexts
<1>9. Falls(p) \/ Moves(p)
  BY <1>5, <1>6, <1>7, <1>8, Zenon DEF LoadRelease
<1>10. NoFault \/ Fault
  BY Zenon DEF LoadRelease
<1>11. QED
  BY <1>4, <1>9, <1>10, Stepped

(* _fail_unpaired_p4_reservations: where it leaves a driver.               *)
WithPcBroken(me, pc, broken) == [me EXCEPT !.pc = pc, !.broken = broken]
WithMemberBroken(me, m, broken) == [me EXCEPT !.m = m, !.broken = broken]

LEMMA PcBrokenIs ==
  ASSUME NEW me \in Process, NEW pc \in Pcs, NEW broken \in BOOLEAN
  PROVE  Differs(WithPcBroken(me, pc, broken), me, pc, me.m, broken)
<1>1. PICK mid : mid = WithPc(me, pc)
  OBVIOUS
<1>2. WithPcBroken(me, pc, broken) = WithBroken(mid, broken)
  BY <1>1 DEF WithPcBroken, WithBroken, WithPc
<1>3. Differs(mid, me, pc, me.m, me.broken)
  BY <1>1, GotoIs
<1>4. Differs(WithBroken(mid, broken), mid, pc, me.m, broken)
  BY <1>3, BrokenIs DEF Differs
<1>5. QED
  BY <1>2, <1>3, <1>4 DEF Differs, SameMemory

LEMMA MemberBrokenIs ==
  ASSUME NEW me \in Process, NEW m \in 1..2, NEW broken \in BOOLEAN
  PROVE  Differs(WithMemberBroken(me, m, broken), me, me.pc, m, broken)
<1>1. PICK mid : mid = WithMember(me, m)
  OBVIOUS
<1>2. WithMemberBroken(me, m, broken) = WithBroken(mid, broken)
  BY <1>1 DEF WithMemberBroken, WithBroken, WithMember
<1>3. Differs(mid, me, me.pc, m, me.broken)
  BY <1>1, MemberIs
<1>4. Differs(WithBroken(mid, broken), mid, me.pc, m, broken)
  BY <1>3, BrokenIs DEF Differs
<1>5. QED
  BY <1>2, <1>3, <1>4 DEF Differs, SameMemory

(* The second member's turn, the first one's failure registered.           *)
LEMMA CleanupKnows ==
  ASSUME TablesInv, TablesInv', Advances, NEW p \in Drivers, NEW me \in Process, Knows(p, me),
         me.pc = "cleanup", NEW to, Differs(to, me, "cleanup", 2, FALSE),
         Unit[p][1] \in me.execute => IsFailed(me, Unit[p][1])'
  PROVE  Knows(p, to)'
<1>1. Holds(p, me)' /\ Placed(p, me)
  BY KnowsStays DEF Knows
<1>2. /\ to.pc = "cleanup" /\ to.m = 2 /\ to.attempt = me.attempt /\ to.execute = me.execute
      /\ to.batch = me.batch /\ to.broken = FALSE
  BY DEF Differs, SameMemory
<1>3. Holds(p, to)'
  BY <1>1, <1>2 DEF Holds
<1>4. Placed(p, to)'
  BY <1>1, <1>2 DEF Placed, Running
<1>5. Worked(p, to)'
  BY <1>2 DEF Worked, Running
<1>6. Said(p, to)'
  <2>1. Unit[p][1] \in to.execute => IsFailed(to, Unit[p][1])'
    BY <1>2 DEF IsFailed
  <2>2. QED
    BY <1>2, <2>1 DEF Said
<1>7. QED
  BY <1>3, <1>4, <1>5, <1>6 DEF Knows

LEMMA CleanupMoves ==
  ASSUME PipelineInv, RegistryMoves, NEW p \in Drivers, NEW me \in Process, me = driver[p],
         Knows(p, me), me.pc = "cleanup", NEW broken \in BOOLEAN, CleanupNext(p, broken),
         ~broken => /\ ~me.broken
                    /\ Unit[p][me.m] \in me.execute => IsFailed(me, Unit[p][me.m])'
  PROVE  Moves(p)
<1>1. Placed(p, me) /\ Holds(p, me) /\ me.m \in 1..2
  BY DEF Knows, Process
<1>2. Paired(p) /\ RunBy(p) = Pair
  BY <1>1, UnitShape DEF Placed
<1>3. TablesInv /\ TablesInv' /\ Advances
  BY DEF PipelineInv, RegistryMoves
<1>4. PICK to : /\ driver' = [driver EXCEPT ![p] = to]
                /\ to = IF me.m = 1 THEN WithMemberBroken(me, 2, broken) ELSE CleanupEnd(p, broken)
  BY Zenon DEF CleanupNext, Hold, WithMemberBroken
<1>5. CASE me.m = 1
  <2>1. Differs(to, me, "cleanup", 2, broken)
    BY <1>4, <1>5, MemberBrokenIs
  <2>2. CASE broken
    <3>1. Placed(p, to)
      BY <1>2, <2>1 DEF Placed, Differs, Running
    <3>2. Knows(p, to)
      BY <2>1, <2>2, <3>1, QuietKnows DEF Differs, Quiet
    <3>3. Falls(p)
      BY <1>4, <2>1, <3>2 DEF Falls, Differs
    <3>4. QED
      BY <3>3, FallsMoves
  <2>3. CASE ~broken
    <3>1. broken = FALSE
      BY <2>3
    <3>2. Differs(to, me, "cleanup", 2, FALSE)
      BY <2>1, <3>1, Zenon
    <3>3. Unit[p][1] \in me.execute => IsFailed(me, Unit[p][1])'
      BY <1>5, <2>3
    <3>4. Knows(p, to)'
      BY <1>3, <3>2, <3>3, CleanupKnows
    <3>5. QED
      BY <1>4, <2>1, <3>4 DEF Moves, Differs
  <2>4. QED
    BY <2>2, <2>3
<1>6. CASE me.m = 2
  <2>1. to = CleanupEnd(p, broken)
    BY <1>4, <1>6
  <2>2. CASE ~broken
    <3>1. to = WithPcBroken(me, "failed", FALSE)
      BY <2>1, <2>2, Zenon DEF CleanupEnd, WithPcBroken
    <3>2. "failed" \in Pcs
      BY DEF Pcs, Ended
    <3>3. me.broken = FALSE
      BY <2>2 DEF Process
    <3>4. Differs(to, me, "failed", me.m, me.broken)
      BY <3>1, <3>2, <3>3, PcBrokenIs
    <3>5. \A s \in me.execute : IsFailed(me, s)'
      <4>1. Said(p, me)'
        BY <1>3, KnowsStays DEF Knows
      <4>2. Unit[p][1] \in me.execute => IsFailed(me, Unit[p][1])'
        BY <1>6, <3>3, <4>1 DEF Said
      <4>3. Unit[p][2] \in me.execute => IsFailed(me, Unit[p][2])'
        BY <1>6, <2>2
      <4>4. me.execute \subseteq {Unit[p][1], Unit[p][2]}
        BY <1>1, <1>2, UnitShape DEF Holds
      <4>5. QED
        BY <4>2, <4>3, <4>4
    <3>6. Knows(p, to)'
      BY <1>3, <3>4, <3>5, EndsKnows
    <3>7. QED
      BY <1>4, <3>4, <3>6 DEF Moves, Differs
  <2>3. CASE broken
    <3>1. \/ to = WithPcBroken(me, "raised", TRUE)
          \/ to = [me EXCEPT !.pc = "release", !.context = "again", !.broken = FALSE, !.m = 1]
      BY <2>1, <2>3, Zenon DEF CleanupEnd, WithPcBroken
    <3>2. CASE to = WithPcBroken(me, "raised", TRUE)
      <4>1. "raised" \in Pcs
        BY DEF Pcs, Ended
      <4>2. Differs(to, me, "raised", 2, TRUE)
        BY <1>6, <3>2, <4>1, PcBrokenIs
      <4>3. Placed(p, to)
        BY <1>2, <4>2 DEF Placed, Differs, Running
      <4>4. Knows(p, to)
        BY <4>2, <4>3, QuietKnows DEF Differs, Quiet
      <4>5. QED
        BY <1>4, <4>2, <4>4, FallsMoves DEF Falls, Differs
    <3>3. CASE to = [me EXCEPT !.pc = "release", !.context = "again", !.broken = FALSE, !.m = 1]
      <4>1. PICK mid : mid = WithPcContext(me, "release", "again")
        OBVIOUS
      <4>2. PICK last : last = WithBroken(mid, FALSE)
        OBVIOUS
      <4>3. to = WithMember(last, 1)
        BY <3>3, <4>1, <4>2 DEF WithPcContext, WithBroken, WithMember
      <4>4. "release" \in Pcs /\ "again" \in Contexts
        BY DEF Pcs, Steps, Contexts
      <4>5. Differs(mid, me, "release", 2, me.broken)
        BY <1>6, <4>1, <4>4, ContextIs
      <4>6. Differs(last, mid, "release", 2, FALSE)
        BY <4>2, <4>5, BrokenIs DEF Differs
      <4>7. Differs(to, last, "release", 1, FALSE)
        BY <4>3, <4>6, MemberIs DEF Differs
      <4>8. Differs(to, me, "release", 1, FALSE)
        BY <4>5, <4>6, <4>7 DEF Differs, SameMemory
      <4>9. Placed(p, to)
        BY <1>2, <4>8 DEF Placed, Differs, Running
      <4>10. Knows(p, to)
        BY <4>8, <4>9, QuietKnows DEF Differs, Quiet
      <4>11. QED
        BY <1>4, <4>8, <4>10, FallsMoves DEF Falls, Differs
    <3>4. QED
      BY <3>1, <3>2, <3>3
  <2>4. QED
    BY <2>2, <2>3
<1>7. QED
  BY <1>1, <1>5, <1>6

(* _fail_unpaired_p4_reservations, one member.                             *)
LEMMA CleanupMemberKeeps ==
  ASSUME PipelineInv, NEW p \in Drivers, CleanupMember(p)
  PROVE  StepHolds(p)
<1>1. PICK me \in Process : me = driver[p] /\ Knows(p, me)
  BY Memory
<1>2. me.pc = "cleanup" /\ Placed(p, me) /\ me.broken \in BOOLEAN
  BY <1>1 DEF CleanupMember, At, Knows, Process
<1>3. PICK q \in Queries : q = Unit[p][me.m]
  BY <1>2, AtWork
<1>4. PICK a : a = me.attempt[q]
  OBVIOUS
<1>5. q = Query(p) /\ a = Manifest(p)
  BY <1>1, <1>3, <1>4 DEF Query, Manifest
<1>6. ASSUME NEW message \in Messages, FailUnpaired(q, a, message)
      PROVE  RegistryMoves /\ attempts'[q][a].status = "FAILED"
  <2>1. a \in DOMAIN attempts[q]
    BY <1>6 DEF FailUnpaired, FailUnpairedGranted, HasAttempt
  <2>2. TablesInv' /\ Advances /\ attempts'[q][a].status = "FAILED"
    BY <1>6, <2>1, FailAdvances DEF PipelineInv
  <2>3. RegistryNext
    BY <1>6, <2>1 DEF RegistryNext
  <2>4. QED
    BY <2>2, <2>3 DEF RegistryMoves
<1>7. ASSUME CleanupNext(p, TRUE), RegistryMoves
      PROVE  Moves(p)
  BY <1>1, <1>2, <1>7, CleanupMoves
<1>8. ASSUME CleanupNext(p, me.broken), RegistryMoves,
             q \in me.execute => attempts'[q][a].status = "FAILED"
      PROVE  Moves(p)
  <2>1. Unit[p][me.m] \in me.execute => IsFailed(me, Unit[p][me.m])'
    BY <1>3, <1>4, <1>8 DEF IsFailed
  <2>2. QED
    BY <1>1, <1>2, <1>8, <2>1, CleanupMoves
<1>9. CASE q \notin me.execute /\ CleanupNext(p, me.broken) /\ UNCHANGED registryVars /\ NoFault
  <2>1. RegistryMoves
    BY <1>9, Stays
  <2>2. Moves(p)
    BY <1>8, <1>9, <2>1
  <2>3. QED
    BY <1>9, <2>1, <2>2, Stepped
<1>10. CASE \E message \in Messages :
              Call(FailUnpairedGranted(q, a, message), FailEffect(q, a, message),
                   CleanupNext(p, me.broken), CleanupNext(p, TRUE))
  <2>1. PICK message \in Messages :
          Call(FailUnpairedGranted(q, a, message), FailEffect(q, a, message),
               CleanupNext(p, me.broken), CleanupNext(p, TRUE))
    BY <1>10
  <2>2. \/ /\ FailUnpaired(q, a, message)
           /\ CleanupNext(p, me.broken) \/ CleanupNext(p, TRUE)
           /\ NoFault \/ Fault
        \/ CleanupNext(p, TRUE) /\ (NoFault \/ Fault) /\ UNCHANGED registryVars
    BY <2>1, Zenon DEF Call, FailUnpaired
  <2>3. RegistryMoves /\ (NoFault \/ Fault)
    BY <1>6, <2>2, Stays
  <2>4. Moves(p)
    BY <1>6, <1>7, <1>8, <2>2, <2>3
  <2>5. QED
    BY <2>3, <2>4, Stepped
<1>11. QED
  BY <1>1, <1>5, <1>9, <1>10, Zenon DEF CleanupMember

-----------------------------------------------------------------------------

(* The inductive invariant holds, and every step of a driver is a step of  *)
(* the registry.                                                           *)

LEMMA PipelineInitHolds ==
  ASSUME Init
  PROVE  PipelineInv
<1>1. RegistryInv
  BY InitHolds DEF Init
<1>2. /\ \A q \in Queries : attempts[q] = <<>>
      /\ batches = <<>>
      /\ driver = [p \in Drivers |-> Idle]
      /\ faults = 0
  BY DEF Init, RegistryInit
<1>3. PlannedRows
  BY <1>2, LimitsAreNumbers DEF PlannedRows
<1>4. BatchErrors
  BY <1>2 DEF BatchErrors
<1>5. driver \in [Drivers -> Process]
  BY <1>2, IdleIsProcess
<1>6. ASSUME NEW p \in Drivers
      PROVE  Knows(p, driver[p])
  <2>1. PICK me : me = Idle
    OBVIOUS
  <2>2. Knows(p, me)
    BY <2>1, IdleKnows
  <2>3. driver[p] = me
    BY <1>2, <2>1
  <2>4. QED
    BY <2>2, <2>3
<1>7. faults \in 0..MaxFaults
  BY <1>2, FaultsAreBounded
<1>8. QED
  BY <1>1, <1>3, <1>4, <1>5, <1>6, <1>7 DEF PipelineInv, TablesInv

LEMMA DriverKeeps ==
  ASSUME PipelineInv, NEW p \in Drivers, Begin(p) \/ DriverStep(p) \/ Crash(p)
  PROVE  StepHolds(p)
BY BeginKeeps, CrashKeeps, ReserveMemberKeeps, ReserveThePairKeeps, StartReplayKeeps,
   LoadCheckpointKeeps, ReplayDateKeeps, RegisterDateKeeps, PublishResultKeeps,
   CompleteAloneKeeps, CompleteBothKeeps, RegisterFailureKeeps, LoadReleaseKeeps,
   RegisterPairFailureKeeps, CleanupMemberKeeps
   DEF DriverStep

LEMMA StepKeepsAll ==
  ASSUME PipelineInv, NEW p \in Drivers, StepHolds(p)
  PROVE  PipelineInv'
<1>1. PICK to \in Process : driver' = [driver EXCEPT ![p] = to] /\ Knows(p, to)'
  BY DEF StepHolds, Moves
<1>2. TablesInv /\ TablesInv' /\ Advances
  BY DEF PipelineInv, StepHolds, RegistryMoves
<1>3. driver \in [Drivers -> Process]
  BY DEF PipelineInv
<1>4. driver' \in [Drivers -> Process]
  BY <1>1, <1>3
<1>5. ASSUME NEW r \in Drivers
      PROVE  \E me \in Process : me = driver'[r] /\ Knows(r, me)'
  <2>1. CASE r = p
    BY <1>1, <1>3, <2>1
  <2>2. CASE r # p
    <3>1. PICK me \in Process : me = driver[r] /\ Knows(r, me)
      BY Memory
    <3>2. me = driver'[r]
      BY <1>1, <1>3, <2>2, <3>1
    <3>3. Knows(r, me)'
      BY <1>2, <3>1, KnowsStays
    <3>4. QED
      BY <3>2, <3>3
  <2>3. QED
    BY <2>1, <2>2
<1>6. ASSUME NEW r \in Drivers
      PROVE  Knows(r, driver[r])'
  <2>1. PICK me \in Process : me = driver'[r] /\ Knows(r, me)'
    BY <1>5
  <2>2. Holds(r, driver[r])'
    BY <2>1, Zenon DEF Knows, Holds
  <2>3. Placed(r, driver[r])'
    BY <2>1, Zenon DEF Knows, Placed
  <2>4. Worked(r, driver[r])'
    BY <2>1, Zenon DEF Knows, Worked
  <2>5. Said(r, driver[r])'
    BY <2>1, Zenon DEF Knows, Said, IsFailed
  <2>6. QED
    BY <2>2, <2>3, <2>4, <2>5 DEF Knows
<1>7. faults' \in 0..MaxFaults
  BY DEF StepHolds
<1>8. QED
  BY <1>2, <1>4, <1>6, <1>7 DEF PipelineInv

LEMMA NextKeeps ==
  ASSUME PipelineInv, [Next]_vars
  PROVE  PipelineInv' /\ RegistryMoves
<1>1. CASE Next
  <2>1. PICK p \in Drivers : Begin(p) \/ DriverStep(p) \/ Crash(p)
    BY <1>1 DEF Next
  <2>2. StepHolds(p)
    BY <2>1, DriverKeeps
  <2>3. QED
    BY <2>2, StepKeepsAll DEF StepHolds
<1>2. CASE UNCHANGED vars
  <2>1. UNCHANGED registryVars /\ driver' = driver /\ faults' = faults
    BY <1>2 DEF vars, registryVars
  <2>2. RegistryMoves
    BY <2>1, Stays
  <2>3. ASSUME NEW p \in Drivers
        PROVE  StepHolds(p)
    <3>1. PICK me \in Process : me = driver[p] /\ Knows(p, me)
      BY Memory
    <3>2. driver' = [driver EXCEPT ![p] = me]
      BY <2>1, <3>1 DEF PipelineInv
    <3>3. Falls(p)
      BY <3>1, <3>2 DEF Falls
    <3>4. QED
      BY <2>1, <2>2, <3>3, Stepped DEF NoFault
  <2>4. CASE Drivers # {}
    BY <2>2, <2>3, <2>4, StepKeepsAll
  <2>5. CASE Drivers = {}
    BY <2>1, <2>2, <2>5 DEF PipelineInv, RegistryMoves
  <2>6. QED
    BY <2>4, <2>5
<1>3. QED
  BY <1>1, <1>2

(* Whatever happens, what a driver holds in memory agrees with the         *)
(* registry.                                                               *)
THEOREM PipelineConsistent == Spec => []PipelineInv
<1>1. Init => PipelineInv
  BY PipelineInitHolds
<1>2. PipelineInv /\ [Next]_vars => PipelineInv'
  BY NextKeeps
<1>3. QED
  BY <1>1, <1>2, PTL DEF Spec

(* What the drivers do to the registry are operations of the registry: all *)
(* that is proved of the registry holds of the pipeline.                   *)
THEOREM PipelineKeepsRegistry == Spec => RegistrySpec
<1>1. Init => RegistryInit
  BY DEF Init
<1>2. PipelineInv /\ [Next]_vars => [RegistryNext]_registryVars
  BY NextKeeps DEF RegistryMoves
<1>3. QED
  BY <1>1, <1>2, PipelineConsistent, PTL DEF Spec, RegistrySpec

(* The results a reader sees appear once, completely, and stay.            *)
THEOREM PipelineKeepsContract == Spec => KeepsContract
BY PipelineKeepsRegistry, RegistryRefines, PTL

(* A run is executed at most once and the pair stays together, whatever    *)
(* the drivers do.                                                         *)
THEOREM PipelineRegistryHolds == Spec => []RegistryAgrees
BY PipelineKeepsRegistry, RegistryHolds, PTL

(* Every variable has its type.                                            *)
THEOREM PipelineTypeCorrect == Spec => []PipelineTypeOK
<1>1. PipelineInv => PipelineTypeOK
  BY DEF PipelineInv, TablesInv, RegistryInv, PipelineTypeOK
<1>2. QED
  BY <1>1, PipelineConsistent, PTL

(* A published result accumulates every planned source date exactly once,  *)
(* in order, however often its replay was interrupted and resumed.         *)
THEOREM DatesCountOnce == Spec => []EveryDateOnce
<1>1. PipelineInv => EveryDateOnce
  BY DEF PipelineInv, TablesInv, PlannedRows, PlannedRow, EveryDateOnce, PublishedAt, InStatus,
         Planned, Prefix
<1>2. QED
  BY <1>1, PipelineConsistent, PTL

LEMMA NoDriftAtRegister ==
  ASSUME PipelineInv, NEW p \in Drivers, At(p, "register"),
         Manifest(p) \in InStatus(Query(p), {"RUNNING"})
  PROVE  RegisterGranted(Query(p), Manifest(p), Len(driver[p].shards), driver[p].shards,
                         Before(driver[p].shards))
<1>1. PICK me \in Process : me = driver[p] /\ Knows(p, me)
  BY Memory
<1>2. me.pc = "register" /\ Worked(p, me) /\ me.pc \in Running
  BY <1>1 DEF At, Knows, Running
<1>3. PICK q : q = Unit[p][me.m]
  OBVIOUS
<1>4. PICK a : a = me.attempt[q]
  OBVIOUS
<1>5. q = Query(p) /\ a = Manifest(p)
  BY <1>1, <1>3, <1>4 DEF Query, Manifest
<1>6. PICK row : row = attempts[q][a]
  OBVIOUS
<1>7. /\ a \in DOMAIN attempts[q]
      /\ row \in Attempt /\ Shaped(row) /\ PlannedRow(row)
  BY <1>1, <1>2, <1>3, <1>4, <1>6, RowAtWork
<1>8. PICK chain \in Seq(Lineages) :
        /\ chain = row.chain
        /\ \A i \in 1..Len(chain) : chain[i] = Prefix(i)
  BY <1>7, ChainShape
<1>9. row.status = "RUNNING"
  BY <1>5, <1>6 DEF InStatus
<1>10. PICK n \in Nat : n = Len(me.shards)
  BY DEF Process
<1>11. me.shards = Prefix(n) /\ n <= SourceDates /\ n \in 1..(Len(chain) + 1)
  BY <1>2, <1>3, <1>4, <1>6, <1>8, <1>10 DEF Worked
<1>12. Before(Prefix(n)) = IF n = 1 THEN NoLineage ELSE Prefix(n - 1)
  <2>1. n \in 1..SourceDates
    BY <1>11, LimitsAreNumbers
  <2>2. QED
    BY <2>1, BeforeIs
<1>13. Before(Prefix(n)) = Predecessor(chain, n)
  <2>1. n # 1 => chain[n - 1] = Prefix(n - 1)
    BY <1>8, <1>11
  <2>2. QED
    BY <1>12, <2>1 DEF Predecessor
<1>14. n \in DOMAIN chain => chain[n] = Prefix(n)
  BY <1>8
<1>15. RegisterGranted(q, a, n, Prefix(n), Before(Prefix(n)))
  BY <1>6, <1>7, <1>8, <1>9, <1>11, <1>13, <1>14, Zenon DEF RegisterGranted, HasAttempt
<1>16. QED
  BY <1>1, <1>5, <1>10, <1>11, <1>15

LEMMA NoDriftAtComplete ==
  ASSUME PipelineInv, NEW p \in Drivers, At(p, "complete"),
         Manifest(p) \in InStatus(Query(p), {"RUNNING", "SUCCEEDED"})
  PROVE  CompleteGranted(Query(p), Manifest(p), driver[p].shards,
                         driver[p].results[Query(p)])
<1>1. PICK me \in Process : me = driver[p] /\ Knows(p, me)
  BY Memory
<1>2. me.pc = "complete" /\ Worked(p, me) /\ Placed(p, me)
  BY <1>1 DEF At, Knows
<1>3. PICK q : q = Unit[p][me.m]
  OBVIOUS
<1>4. PICK a : a = me.attempt[q]
  OBVIOUS
<1>5. q = Query(p) /\ a = Manifest(p)
  BY <1>1, <1>3, <1>4 DEF Query, Manifest
<1>6. PICK row : row = attempts[q][a]
  OBVIOUS
<1>7. /\ a \in DOMAIN attempts[q] /\ q \in RunBy(p)
      /\ row \in Attempt /\ Shaped(row) /\ PlannedRow(row)
  BY <1>1, <1>2, <1>3, <1>4, <1>6, RowAtWork
<1>8. PICK chain \in Seq(Lineages) :
        /\ chain = row.chain
        /\ \A i \in 1..Len(chain) : chain[i] = Prefix(i)
        /\ row.status = "SUCCEEDED" => row.result = Planned
  BY <1>7, ChainShape
<1>9. row.status \in {"RUNNING", "SUCCEEDED"}
  BY <1>5, <1>6 DEF InStatus
<1>10. /\ me.shards = Prefix(SourceDates) /\ me.results[q] = Planned
       /\ Len(chain) = SourceDates
  BY <1>2, <1>3, <1>4, <1>6, <1>8 DEF Worked
<1>11. chain[Len(chain)] = me.shards
  BY <1>8, <1>10, LimitsAreNumbers
<1>12. q \notin Pair
  BY <1>2, <1>7, UnitShape DEF Placed
<1>13. FinalCheckpoint(q, a, me.shards)
  BY <1>6, <1>8, <1>10, <1>11, Zenon DEF FinalCheckpoint
<1>14. CompleteGranted(q, a, me.shards, me.results[q])
  BY <1>6, <1>7, <1>8, <1>9, <1>10, <1>12, <1>13 DEF CompleteGranted, HasAttempt
<1>15. QED
  BY <1>1, <1>5, <1>14

(* Drivers that execute the same live replay never meet the registry's     *)
(* drift errors.                                                           *)
THEOREM NoDrift == Spec => []DriversNeverDrift
<1>1. PipelineInv => DriversNeverDrift
  BY NoDriftAtRegister, NoDriftAtComplete DEF DriversNeverDrift, AgreesWithRegistry
<1>2. QED
  BY <1>1, PipelineConsistent, PTL

LEMMA ReportHolds ==
  ASSUME PipelineInv, NEW p \in Drivers
  PROVE  ReportIsTrue(p)
<1>1. PICK me \in Process : me = driver[p] /\ Knows(p, me)
  BY Memory
<1>2. Said(p, me) /\ Holds(p, me) /\ Placed(p, me)
  BY <1>1 DEF Knows
<1>3. PICK q \in Queries : q = Unit[p][me.m] /\ q = Query(p)
  BY <1>1, <1>2, AtWork DEF Query
<1>4. PICK a : a = me.attempt[q] /\ a = Manifest(p)
  BY <1>1, <1>3 DEF Manifest
<1>5. At(p, "succeeded") \/ At(p, "skipped") => a \in PublishedAt(q)
  BY <1>1, <1>2, <1>3, <1>4 DEF At, Said, Holds, PublishedAt, InStatus
<1>6. At(p, "succeeded") => Value(q) = me.results[q]
  <2>1. SUFFICES ASSUME At(p, "succeeded") PROVE Value(q) = me.results[q]
    OBVIOUS
  <2>2. attempts[q][a].result = me.results[q]
    BY <1>1, <1>2, <1>3, <1>4, <2>1 DEF At, Said
  <2>3. QED
    BY <1>5, <2>1, <2>2, ValueNow DEF PipelineInv, TablesInv, RegistryInv
<1>7. At(p, "released") => ReleaseOf(Bound(p)) # {}
  BY <1>1, <1>2 DEF At, Said, ReleaseOf, Bound
<1>8. At(p, "failed") => \A s \in me.execute : me.attempt[s] \in InStatus(s, {"FAILED"})
  <2>1. \A s \in me.execute : s \in Queries
    BY <1>2, UnitShape DEF Holds
  <2>2. QED
    BY <1>1, <1>2, <2>1 DEF At, Said, Holds, IsFailed, InStatus
<1>9. QED
  BY <1>1, <1>3, <1>4, <1>5, <1>6, <1>7, <1>8 DEF ReportIsTrue

(* What a driver has reported is so and stays so, whichever answers were   *)
(* lost and whatever late calls arrive.                                    *)
THEOREM ReportsHold == Spec => ReportsStayTrue
<1>1. PipelineInv => ReportsAreTrue
  BY ReportHolds DEF ReportsAreTrue
<1>2. PipelineInv /\ [Next]_vars => TerminalRowsStay
  BY NextKeeps, AdvancesStays DEF RegistryMoves
<1>3. QED
  BY <1>1, <1>2, PipelineConsistent, PTL DEF Spec, ReportsStayTrue
=============================================================================
