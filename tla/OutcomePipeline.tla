--------------------------- MODULE OutcomePipeline ---------------------------
(***************************************************************************)
(* The drivers of outcome replays, research/phase1a_outcome_pipeline.py:   *)
(* _run_phase1a_outcomes for a query released alone and                    *)
(* run_phase1a_p4_outcome_pair for the two P4 candidates, several driver   *)
(* processes against one registry.  A driver keeps nothing across a crash  *)
(* but the content-addressed files it published and its registry rows.     *)
(*                                                                         *)
(* Every registry call can be refused by the registry, or fail at the      *)
(* connection before or after its commit.  A serialization failure is      *)
(* retried inside the call and leaves no trace of its own.                 *)
(***************************************************************************)
EXTENDS OutcomeRegistry

CONSTANTS Drivers,    \* driver processes
          Unit,       \* [Drivers -> the sequence of queries a driver runs]
          MaxFaults   \* bound of the instance: crashes and lost connections

(* A driver runs one query that is released alone, or the pair; whatever   *)
(* part of the plan it has replayed is a content a checkpoint can have.    *)
ASSUME DriversRunUnits ==
  \A p \in Drivers : \/ \E q \in Queries \ Pair : Unit[p] = <<q>>
                     \/ \E q, r \in Pair : q # r /\ Pair = {q, r} /\ Unit[p] = <<q, r>>
ASSUME PlanIsAmongLineages ==
  \A n \in 1..SourceDates : [date \in 1..n |-> date] \in Lineages
ASSUME FaultsAreBounded == MaxFaults \in Nat

VARIABLES driver,     \* [Drivers -> what the process holds in memory]
          faults      \* faults so far

vars == <<attempts, batches, releases, driver, faults>>

Ended == {"succeeded", "skipped", "released", "failed", "raised", "ambiguous"}
Steps == {"reserve", "reserve_pair", "start", "load", "replay", "register", "publish",
          "complete", "complete_pair", "fail", "fail_pair", "release", "cleanup"}
Contexts == {"prepare", "duplicate", "already", "mixed", "reserve", "run", "again"}

(* pc: the call in progress; m: the member at work; attempt, execute: the  *)
(* reservations; shards: detail shards published or restored; economics:   *)
(* dates accumulated into the summaries; finals, results: the prepared     *)
(* completions, last checkpoint and result of each member;                 *)
(* context, broken: where an error is handled and whether cleanup failed.  *)
Process == [pc: Ended \cup Steps \cup {"idle"}, m: 1..2, attempt: [Queries -> Nat],
            execute: SUBSET Queries, batch: Nat, shards: Seq(Nat), economics: Seq(Nat),
            finals: [Queries -> Seq(Nat)],
            results: [Queries -> Seq(Nat)], context: Contexts, broken: BOOLEAN]

Idle == [pc |-> "idle", m |-> 1, attempt |-> [q \in Queries |-> 0], execute |-> {},
         batch |-> 0, shards |-> <<>>, economics |-> <<>>,
         finals |-> [q \in Queries |-> <<>>],
         results |-> [q \in Queries |-> <<>>], context |-> "prepare", broken |-> FALSE]

Init ==
  /\ RegistryInit
  /\ driver = [p \in Drivers |-> Idle]
  /\ faults = 0

-----------------------------------------------------------------------------
(* Control of a driver. *)

At(p, pc) == driver[p].pc = pc
Paired(p) == Len(Unit[p]) = 2
Query(p) == Unit[p][driver[p].m]
Manifest(p) == driver[p].attempt[Query(p)]
Bound(p) == [q \in Pair |-> driver[p].attempt[q]]
Hold(p, me) == driver' = [driver EXCEPT ![p] = me]

Fault == faults < MaxFaults /\ faults' = faults + 1
NoFault == faults' = faults

(* One registry call: answered after its commit, refused, or its           *)
(* connection lost before or after the commit.                             *)
Call(granted, effect, answered, failed) ==
  \/ granted /\ effect /\ answered /\ NoFault
  \/ ~granted /\ failed /\ NoFault /\ UNCHANGED registryVars
  \/ failed /\ Fault /\ UNCHANGED registryVars
  \/ granted /\ effect /\ failed /\ Fault

Goto(p, pc) == Hold(p, [driver[p] EXCEPT !.pc = pc])
Handle(p, pc, context) ==
  Hold(p, [driver[p] EXCEPT !.pc = pc, !.context = context, !.m = 1, !.broken = FALSE])

(* Errors while the replay is executed: alone they are registered as the   *)
(* replay's failure; in a pair the exact release is looked for first.      *)
RunFailed(p) == IF Paired(p) THEN Handle(p, "release", "run") ELSE Goto(p, "fail")

-----------------------------------------------------------------------------
(* A run begins again after it ended, or after a crash. *)

Begin(p) ==
  /\ driver[p].pc \in Ended \cup {"idle"}
  /\ Hold(p, [Idle EXCEPT !.pc = "reserve"])
  /\ UNCHANGED registryVars /\ NoFault

Crash(p) ==
  /\ driver[p].pc \in Steps
  /\ Hold(p, Idle)
  /\ UNCHANGED registryVars /\ Fault

(* What follows the last reservation of a unit.                            *)
AfterReservations(p, me) ==
  CASE ~Paired(p) /\ me.execute = {} -> [me EXCEPT !.pc = "skipped"]
    [] ~Paired(p) /\ me.execute # {} -> [me EXCEPT !.pc = "start"]
    [] Paired(p) /\ me.execute = {} -> [me EXCEPT !.pc = "release", !.context = "duplicate"]
    [] Paired(p) /\ me.execute = Pair -> [me EXCEPT !.pc = "reserve_pair"]
    [] OTHER -> [me EXCEPT !.pc = "release", !.context = "mixed"]

(* Its next member, the first one again after the last.                    *)
NextMember(p, me) ==
  IF me.m < Len(Unit[p]) THEN [me EXCEPT !.m = @ + 1]
  ELSE AfterReservations(p, [me EXCEPT !.m = 1])

(* The end of _prepare_phase1a_outcomes: the reservation of the next       *)
(* member.  An unpaired driver raises its error unregistered.              *)
ReserveMember(p) ==
  /\ At(p, "reserve")
  /\ Call(ReserveGranted(Query(p)), ReserveEffect(Query(p)),
          \E a \in 1..(Len(attempts[Query(p)]) + 1), execute \in BOOLEAN :
            /\ Reserved(Query(p), a, execute)
            /\ Hold(p, NextMember(p,
                 [driver[p] EXCEPT !.attempt[Query(p)] = a,
                                   !.execute = @ \cup IF execute THEN {Query(p)} ELSE {}])),
          IF Paired(p) THEN Handle(p, "cleanup", "prepare") ELSE Goto(p, "raised"))

ReserveThePair(p) ==
  /\ At(p, "reserve_pair")
  /\ Call(ReservePairGranted(Bound(p)), ReservePairEffect(Bound(p)),
          \E b \in 1..(Len(batches) + 1) :
            /\ ReservedBatch(Bound(p), b)
            /\ Hold(p, IF PairReleased(Bound(p))
                       THEN [driver[p] EXCEPT !.batch = b, !.pc = "release", !.context = "already"]
                       ELSE [driver[p] EXCEPT !.batch = b, !.pc = "start"]),
          Handle(p, "release", "reserve"))

-----------------------------------------------------------------------------
(* _run_replay: start, restore from the latest checkpoint, one shard, one  *)
(* checkpoint file and one registration per source date, the result.       *)

StartReplay(p) ==
  /\ At(p, "start")
  /\ Call(StartGranted(Query(p), Manifest(p)), StartEffect(Query(p), Manifest(p)),
          Goto(p, "load"), RunFailed(p))

(* The restored state: shard lineage of the latest checkpoint, with every  *)
(* shard read back into the economics.                                     *)
Latest(q, a) == IF attempts[q][a].chain = <<>> THEN <<>>
                ELSE attempts[q][a].chain[Len(attempts[q][a].chain)]
Bug_EconomicsNotRestored(q, a) == <<>>
RestoredEconomics(q, a) == Latest(q, a)

LoadCheckpoint(p) ==
  /\ At(p, "load")
  /\ Call(LoadGranted(Query(p), Manifest(p)), UNCHANGED registryVars,
          LET shards == Latest(Query(p), Manifest(p))
              economics == RestoredEconomics(Query(p), Manifest(p))
          IN  Hold(p, [driver[p] EXCEPT !.shards = shards, !.economics = economics,
                         !.pc = IF Len(shards) = SourceDates THEN "publish" ELSE "replay"]),
          RunFailed(p))

(* The first source date after the completed ones.                         *)
NextDate(p) == Len(driver[p].shards) + 1

ReplayDate(p) ==
  /\ At(p, "replay")
  /\ \/ /\ Hold(p, [driver[p] EXCEPT !.shards = Append(@, NextDate(p)),
                                     !.economics = Append(@, NextDate(p)),
                                     !.pc = "register"])
        /\ NoFault
     \/ RunFailed(p) /\ Fault
  /\ UNCHANGED registryVars

Bug_BeforeIsFirst(shards) == IF Len(shards) = 1 THEN NoLineage ELSE <<shards[1]>>

(* The predecessor a driver names: the checkpoint before its own.          *)
Before(shards) == IF Len(shards) = 1 THEN NoLineage ELSE SubSeq(shards, 1, Len(shards) - 1)

RegisterDate(p) ==
  LET shards == driver[p].shards
  IN  /\ At(p, "register")
      /\ Call(RegisterGranted(Query(p), Manifest(p), Len(shards), shards, Before(shards)),
              RegisterEffect(Query(p), Manifest(p), Len(shards), shards),
              Goto(p, IF Len(shards) = SourceDates THEN "publish" ELSE "replay"),
              RunFailed(p))

(* The final result file is written and reloaded; a pair then runs its     *)
(* second member before anything is completed.                             *)
PublishResult(p) ==
  /\ At(p, "publish")
  /\ \/ /\ LET me == [driver[p] EXCEPT !.results[Query(p)] = driver[p].economics,
                                       !.finals[Query(p)] = driver[p].shards]
           IN  Hold(p, IF Paired(p) /\ me.m = 1 THEN [me EXCEPT !.m = 2, !.pc = "start"]
                       ELSE [me EXCEPT !.pc = IF Paired(p) THEN "complete_pair" ELSE "complete"])
        /\ NoFault
     \/ RunFailed(p) /\ Fault
  /\ UNCHANGED registryVars

CompleteAlone(p) ==
  LET final == driver[p].finals[Query(p)]
      result == driver[p].results[Query(p)]
  IN  /\ At(p, "complete")
      /\ Call(CompleteGranted(Query(p), Manifest(p), final, result),
              CompleteEffect(Query(p), Manifest(p), result),
              Goto(p, "succeeded"), RunFailed(p))

CompleteBoth(p) ==
  LET finals == [q \in Pair |-> driver[p].finals[q]]
      results == [q \in Pair |-> driver[p].results[q]]
  IN  /\ At(p, "complete_pair")
      /\ Call(CompletePairGranted(driver[p].batch, Bound(p), finals, results),
              CompletePairEffect(driver[p].batch, Bound(p), results),
              Goto(p, "released"), RunFailed(p))

-----------------------------------------------------------------------------
(* Errors. *)

RegisterFailure(p) ==
  /\ At(p, "fail")
  /\ \E message \in Messages :
       Call(FailGranted(Query(p), Manifest(p), message),
            FailEffect(Query(p), Manifest(p), message),
            Goto(p, "failed"), Goto(p, "raised"))

(* _try_load_released_p4_pair: found, proven absent, or left ambiguous.    *)
AbsentRelease(p) ==
  CASE driver[p].context \in {"mixed", "reserve"} -> Goto(p, "cleanup")
    [] driver[p].context = "run" -> Goto(p, "fail_pair")
    [] OTHER -> Goto(p, "raised")

LoadRelease(p) ==
  /\ At(p, "release")
  /\ UNCHANGED registryVars
  /\ \/ /\ NoFault
        /\ IF ReleaseOf(Bound(p)) # {} THEN Goto(p, "released") ELSE AbsentRelease(p)
     \/ /\ Fault
        /\ IF driver[p].context = "already" THEN Handle(p, "release", "duplicate")
           ELSE Goto(p, "ambiguous")

RegisterPairFailure(p) ==
  /\ At(p, "fail_pair")
  /\ \E message \in Messages :
       Call(FailPairGranted(driver[p].batch, message), FailPairEffect(driver[p].batch, message),
            Goto(p, "failed"), Handle(p, "release", "again"))

Bug_CleanupForgets(p, broken) == [driver[p] EXCEPT !.pc = "failed", !.broken = FALSE]

(* _fail_unpaired_p4_reservations: every member this driver is to execute  *)
(* is tried, whatever became of the one before.                            *)
CleanupEnd(p, broken) ==
  CASE ~broken -> [driver[p] EXCEPT !.pc = "failed", !.broken = FALSE]
    [] broken /\ driver[p].context = "prepare" -> [driver[p] EXCEPT !.pc = "raised", !.broken = TRUE]
    [] OTHER -> [driver[p] EXCEPT !.pc = "release", !.context = "again", !.broken = FALSE, !.m = 1]

CleanupNext(p, broken) ==
  Hold(p, IF driver[p].m = 1 THEN [driver[p] EXCEPT !.m = 2, !.broken = broken]
          ELSE CleanupEnd(p, broken))

CleanupMember(p) ==
  /\ At(p, "cleanup")
  /\ \/ /\ Query(p) \notin driver[p].execute
        /\ CleanupNext(p, driver[p].broken)
        /\ UNCHANGED registryVars /\ NoFault
     \/ /\ Query(p) \in driver[p].execute
        /\ \E message \in Messages :
             Call(FailUnpairedGranted(Query(p), Manifest(p), message),
                  FailEffect(Query(p), Manifest(p), message),
                  CleanupNext(p, driver[p].broken), CleanupNext(p, TRUE))

DriverStep(p) ==
  \/ ReserveMember(p) \/ ReserveThePair(p) \/ StartReplay(p) \/ LoadCheckpoint(p)
  \/ ReplayDate(p) \/ RegisterDate(p) \/ PublishResult(p) \/ CompleteAlone(p)
  \/ CompleteBoth(p) \/ RegisterFailure(p) \/ LoadRelease(p) \/ RegisterPairFailure(p)
  \/ CleanupMember(p)

Next == \E p \in Drivers : Begin(p) \/ DriverStep(p) \/ Crash(p)

Spec == Init /\ [][Next]_vars

(* A process takes its next step unless it crashed; an operator starts a   *)
(* run again until the unit's results are there.                           *)
Published(p) == \A m \in DOMAIN Unit[p] : PublishedAt(Unit[p][m]) # {}
FairSpec ==
  /\ Spec
  /\ \A p \in Drivers : WF_vars(DriverStep(p)) /\ WF_vars(~Published(p) /\ Begin(p))

-----------------------------------------------------------------------------
PipelineTypeOK ==
  /\ RegistryTypeOK
  /\ driver \in [Drivers -> Process]
  /\ faults \in 0..MaxFaults

(* What a run reports is so, whichever answers were lost and whatever the  *)
(* other driver did: success and release are in the registry with the      *)
(* complete result, a failure said to be registered never hides one.       *)
ReportIsTrue(p) ==
  /\ At(p, "succeeded") => Value(Query(p)) = driver[p].results[Query(p)]
  /\ At(p, "skipped") => Manifest(p) \in PublishedAt(Query(p))
  /\ At(p, "released") => ReleaseOf(Bound(p)) # {}
  /\ At(p, "failed") => \A q \in driver[p].execute :
                          driver[p].attempt[q] \in InStatus(q, {"FAILED"})

ReportsAreTrue == \A p \in Drivers : ReportIsTrue(p)

(* A published result accumulates every planned source date exactly once,  *)
(* in order, however often its replay was interrupted and resumed.         *)
EveryDateOnce ==
  \A q \in Queries : \A a \in PublishedAt(q) :
    attempts[q][a].result = [date \in 1..SourceDates |-> date]

(* Two drivers that execute the same live replay never meet the registry's *)
(* drift errors: what one is about to register or complete always agrees   *)
(* with what the other has registered.                                     *)
AgreesWithRegistry(p) ==
  LET shards == driver[p].shards
  IN  /\ /\ At(p, "register")
         /\ Manifest(p) \in InStatus(Query(p), {"RUNNING"})
         => RegisterGranted(Query(p), Manifest(p), Len(shards), shards, Before(shards))
      /\ /\ At(p, "complete")
         /\ Manifest(p) \in InStatus(Query(p), {"RUNNING", "SUCCEEDED"})
         => CompleteGranted(Query(p), Manifest(p), shards, driver[p].results[Query(p)])

DriversNeverDrift == \A p \in Drivers : AgreesWithRegistry(p)

(* Terminal rows and releases are never rewritten, whatever late calls     *)
(* arrive after a lost answer or from a driver with a stale reservation:   *)
(* what a driver has reported stays true.                                  *)
TerminalRow(q, a) == attempts[q][a].status \notin Live
TerminalRowsStay ==
  /\ \A q \in Queries : \A a \in DOMAIN attempts[q] :
       TerminalRow(q, a) => attempts'[q][a] = attempts[q][a]
  /\ \A b \in DOMAIN batches : batches[b].status # "PREPARED" => batches'[b] = batches[b]
  /\ releases \subseteq releases'
ReportsStayTrue == [][ReportsAreTrue' /\ TerminalRowsStay]_vars

(* Results are published eventually when faults cease and runs are started *)
(* again: no crash leaves rows behind that block every later run.          *)
PublishedEventually == \A p \in Drivers : <>Published(p)
=============================================================================
