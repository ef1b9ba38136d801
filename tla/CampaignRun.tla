----------------------------- MODULE CampaignRun -----------------------------
(***************************************************************************)
(* The invocations of the AI all-cases campaign, run.py of                 *)
(* campaigns/ai_all_cases_v1: precommit_ai_all_cases and run_ai_all_cases  *)
(* under the mutation lock, verify_ai_all_cases beside them.  An           *)
(* invocation keeps nothing in memory that the next one can use; it may be *)
(* killed between any two steps and the machine may lose power.            *)
(***************************************************************************)
EXTENDS CampaignFiles

CONSTANTS Procs,          \* processes that invoke precommit or run
          MaxFaults,      \* bound of the instance: faults of any kind
          LateWriteback   \* may a link of an ended invocation stay unsynced
                          \* until the next invocation?

ASSUME LateWritebackType == LateWriteback \in BOOLEAN
ASSUME MaxFaultsType == MaxFaults \in Nat

VARIABLES proc,       \* [Procs -> what the process holds in memory]
          audit,      \* the reader verify_ai_all_cases
          consulted,  \* history: the events whose service was called
          openings,   \* history: calls of evaluate_holdout by a run
          condemned,  \* history: a service or a check failed for good
          faults

history == <<consulted, openings, condemned>>
vars == <<science, files, proc, audit, history, faults>>

Operations == {"precommit", "run"}
Publishing == {"temp", "link", "sync", "unlink"}
Steps == {"idle", "preflight", "outer", "internal", "precommit", "resume", "stage", "service",
          "fail", "close"} \cup Publishing

(* pc: the step in progress; at: the event at work; dir: where a           *)
(* publication goes; seq: the event number it was prepared for; known:     *)
(* preexisting_event_types.                                                *)
Process == [op: Operations, pc: Steps, at: EventTypes, dir: Directories, seq: Nat,
            known: SUBSET EventTypes]
Idle == [op |-> "run", pc |-> "idle", at |-> "PRECOMMITTED", dir |-> "events", seq |-> 0,
         known |-> {}]

Reading == {"idle", "read", "judge"}
Tree == <<ledger, artifacts, universe, chunks, marks, temps>>
Asleep == [pc |-> "idle", before |-> <<>>, events |-> <<>>]

Init ==
  /\ FilesInit
  /\ proc = [p \in Procs |-> Idle]
  /\ audit = Asleep
  /\ consulted = {} /\ openings = 0 /\ condemned = FALSE
  /\ faults = 0

-----------------------------------------------------------------------------
(* Control. *)

At(p, pc) == proc[p].pc = pc
Hold(p, op, pc, at, dir, seq, known) ==
  proc' = [proc EXCEPT ![p] = [op |-> op, pc |-> pc, at |-> at, dir |-> dir, seq |-> seq,
                               known |-> known]]
Goto(p, pc) == Hold(p, proc[p].op, pc, proc[p].at, proc[p].dir, proc[p].seq, proc[p].known)
Work(p, pc, at, dir) == Hold(p, proc[p].op, pc, at, dir, proc[p].seq, proc[p].known)
End(p) == proc' = [proc EXCEPT ![p] = Idle]

(* The try block of _run_with_services, from the first stage on.           *)
InTry(p) ==
  \/ proc[p].pc \in {"stage", "service"}
  \/ proc[p].pc \in Publishing /\ proc[p].at \notin {"PRECOMMITTED", "FAILED"}

Others == <<science, audit, history, faults>>
Fault == faults < MaxFaults /\ faults' = faults + 1

-----------------------------------------------------------------------------
(* An invocation up to its first stage. *)

(* _exclusive_mutation: the lock is free when no other process holds it.   *)
Invoke(p, op) ==
  /\ At(p, "idle")
  /\ \A q \in Procs : At(q, "idle")
  /\ Hold(p, op, "preflight", "PRECOMMITTED", "artifacts", 0, {})
  /\ unsynced' = IF LateWriteback THEN unsynced ELSE {}
  /\ UNCHANGED <<ledger, artifacts, universe, chunks, marks, temps, Others>>

(* The preflight of both operations: the tree is checked, the linked       *)
(* temporaries are unlinked; a run that ended, or a precommit overtaken by *)
(* a run, returns.                                                         *)
Preflight(p) ==
  /\ At(p, "preflight")
  /\ temps' = IF TempsBounded THEN WithoutLinked ELSE temps
  /\ IF ~TempsBounded \/ Ended \/ (proc[p].op = "precommit" /\ Len(ledger) > 1)
     THEN End(p) ELSE Goto(p, "outer")
  /\ UNCHANGED <<ledger, artifacts, universe, chunks, marks, unsynced, Others>>

(* Mutant: only linked temporaries are recovered.                          *)
Bug_RecoverOuter(p) ==
  /\ At(p, "outer")
  /\ temps' = WithoutLinked
  /\ IF EvidenceInOrder
     THEN Hold(p, proc[p].op, "internal", proc[p].at, proc[p].dir, 0, Recorded)
     ELSE End(p)
  /\ UNCHANGED <<ledger, artifacts, universe, chunks, marks, unsynced, Others>>

(* _outer_artifact_staging and _Ledger with create: every temporary of the *)
(* outer publishers goes; then the internal evidence must not predate the  *)
(* events that admit it.                                                   *)
RecoverOuter(p) ==
  /\ At(p, "outer")
  /\ temps' = Cleared({"artifacts", "events"})
  /\ IF EvidenceInOrder
     THEN Hold(p, proc[p].op, "internal", proc[p].at, proc[p].dir, 0, Recorded)
     ELSE End(p)
  /\ UNCHANGED <<ledger, artifacts, universe, chunks, marks, unsynced, Others>>

(* recover_and_verify_internal_prefix: internal temporaries go, and the    *)
(* Search chunk published before its event.                                *)
RecoverInternal(p) ==
  /\ At(p, "internal")
  /\ temps' = Cleared({"universe", "search"})
  /\ IF StoreSound THEN DiscardChunk /\ Goto(p, "precommit")
                   ELSE End(p) /\ UNCHANGED <<chunks, unsynced>>
  /\ UNCHANGED <<ledger, artifacts, universe, marks, Others>>

(* _append_precommit: the request is published first, or found as the      *)
(* orphan of a precommit that was cut off.                                 *)
Precommit(p) ==
  /\ At(p, "precommit")
  /\ CASE ledger = <<>> -> Work(p, "temp", "PRECOMMITTED", "artifacts")
       [] ledger # <<>> /\ proc[p].op = "run" /\ LeafSet(1) -> Goto(p, "resume")
       [] OTHER -> End(p)
  /\ UNCHANGED <<files, Others>>

(* Mutant: only a released holdout result stops a restart.                 *)
Bug_Resume(p) ==
  /\ At(p, "resume")
  /\ DiscardArtifact
  /\ CASE "HOLDOUT_RESULTS_RELEASED" \in Recorded /\ (Orphans # {} \/ ReleasesClosed) ->
            Goto(p, "fail")
       [] "HOLDOUT_RESULTS_RELEASED" \notin Recorded /\ ReleasesClosed ->
            Work(p, "stage", "PRECOMMITTED", "artifacts")
       [] OTHER -> End(p)
  /\ UNCHANGED <<ledger, universe, chunks, marks, temps, Others>>

(* The rules of a restart: an artifact published before its event is       *)
(* discarded; nothing continues past an authorization it did not write.    *)
Resume(p) ==
  /\ At(p, "resume")
  /\ DiscardArtifact
  /\ CASE "HOLDOUT_AUTHORIZED" \in Recorded /\ (Orphans # {} \/ ReleasesClosed) ->
            Goto(p, "fail")
       [] "HOLDOUT_AUTHORIZED" \notin Recorded /\ ReleasesClosed ->
            Work(p, "stage", "PRECOMMITTED", "artifacts")
       [] OTHER -> End(p)
  /\ UNCHANGED <<ledger, universe, chunks, marks, temps, Others>>

-----------------------------------------------------------------------------
(* The stages of _run_with_services. *)

Call(e) ==
  /\ consulted' = consulted \cup {e}
  /\ openings' = IF e = "HOLDOUT_RESULTS_RELEASED" THEN openings + 1 ELSE openings
  /\ UNCHANGED condemned

(* The next event: one that was there when the invocation began is         *)
(* replayed from its service and compared; any other is computed by its    *)
(* service, or published at once.  _complete first requires that nothing   *)
(* is left to close.                                                       *)
Advance(p) ==
  /\ At(p, "stage")
  /\ LET e == Successor(proc[p].at)
         step == CASE e \in proc[p].known -> "stage"
                   [] e \notin proc[p].known /\ e \in Served -> "service"
                   [] /\ e \notin proc[p].known /\ e = "COMPLETED"
                      /\ ~(LeafSet(0) /\ chunks = marks) -> "fail"
                   [] OTHER -> "temp"
     IN  /\ Work(p, step, e, "artifacts")
         /\ IF e \in Served THEN Call(e) ELSE UNCHANGED history
  /\ UNCHANGED <<science, files, audit, faults>>

(* A service at work.  freeze_search_universe publishes the chunks of its  *)
(* plan, train_select_search a chunk and then its event; each begins at    *)
(* the lowest chunk missing.                                               *)
Serve(p) ==
  /\ At(p, "service")
  /\ CASE proc[p].at = "SEARCH_UNIVERSE_FROZEN" /\ universe < Chunks ->
            Work(p, "temp", proc[p].at, "universe")
       [] proc[p].at = "SEARCH_RESULTS_RELEASED" /\ marks < Chunks ->
            Work(p, "temp", proc[p].at, IF chunks = marks THEN "chunks" ELSE "marks")
       [] OTHER -> Work(p, "temp", proc[p].at, "artifacts")
  /\ UNCHANGED <<files, Others>>

-----------------------------------------------------------------------------
(* Publication: _publish, _Ledger.append and _publish_mode_0444.           *)

(* What follows a publication.                                             *)
Proceed(p) ==
  CASE proc[p].dir = "artifacts" -> Work(p, "temp", proc[p].at, "events")
    [] proc[p].dir \in {"universe", "chunks", "marks"} -> Goto(p, "service")
    [] proc[p].dir = "events" /\ proc[p].at = "PRECOMMITTED" ->
         IF proc[p].op = "run" THEN Goto(p, "resume") ELSE End(p)
    [] proc[p].dir = "events" /\ proc[p].at \in Terminals -> End(p)
    [] OTHER -> Goto(p, "stage")

(* AllCasesIntegrityError: registered as FAILED inside the try block.      *)
Refuse(p) == IF InTry(p) THEN Goto(p, "fail") ELSE End(p)

(* Mutant: an orphan is refused even when it is the artifact to publish.   *)
Bug_Stage(p) ==
  /\ At(p, "temp")
  /\ CASE proc[p].dir = "artifacts" /\ Orphans # {} -> Refuse(p) /\ UNCHANGED temps
       [] proc[p].dir = "events" /\ ~LegalNext(proc[p].at) ->
            Refuse(p) /\ UNCHANGED temps
       [] OTHER -> /\ WriteTemp(proc[p].dir)
                   /\ Hold(p, proc[p].op, "link", proc[p].at, proc[p].dir, Len(ledger) + 1,
                           proc[p].known)
  /\ UNCHANGED <<ledger, artifacts, universe, chunks, marks, unsynced, Others>>

(* An artifact that is there already is used as it is.                     *)
Stage(p) ==
  /\ At(p, "temp")
  /\ CASE proc[p].dir = "artifacts" /\ Orphans \ {proc[p].at} # {} ->
            Refuse(p) /\ UNCHANGED temps
       [] proc[p].dir = "artifacts" /\ Orphans = {proc[p].at} ->
            Proceed(p) /\ UNCHANGED temps
       [] proc[p].dir = "events" /\ ~LegalNext(proc[p].at) ->
            Refuse(p) /\ UNCHANGED temps
       [] OTHER -> /\ WriteTemp(proc[p].dir)
                   /\ Hold(p, proc[p].op, "link", proc[p].at, proc[p].dir, Len(ledger) + 1,
                           proc[p].known)
  /\ UNCHANGED <<ledger, artifacts, universe, chunks, marks, unsynced, Others>>

(* os.link never replaces: an event number already taken is a conflict.    *)
Link(p) ==
  /\ At(p, "link")
  /\ IF proc[p].dir = "events" /\ Len(ledger) >= proc[p].seq
     THEN /\ UnlinkTemp("events") /\ Refuse(p)
          /\ UNCHANGED <<ledger, artifacts, universe, chunks, marks, unsynced>>
     ELSE LinkEntry(proc[p].dir, proc[p].at) /\ Goto(p, "sync")
  /\ UNCHANGED Others

(* Mutant: the directory is not synced after the link.                     *)
Bug_Sync(p) ==
  /\ At(p, "sync")
  /\ Goto(p, "unlink")
  /\ UNCHANGED <<files, Others>>

Sync(p) ==
  /\ At(p, "sync")
  /\ unsynced' = Synced(proc[p].dir)
  /\ Goto(p, "unlink")
  /\ UNCHANGED <<ledger, artifacts, universe, chunks, marks, temps, Others>>

Unlink(p) ==
  /\ At(p, "unlink")
  /\ UnlinkTemp(proc[p].dir)
  /\ Proceed(p)
  /\ UNCHANGED <<ledger, artifacts, universe, chunks, marks, unsynced, Others>>

-----------------------------------------------------------------------------
(* _append_failed_and_close_artifact_set. *)

(* Mutant: FAILED is written over the orphan.                              *)
Bug_DiscardOrphan(p) ==
  /\ At(p, "fail")
  /\ IF LeafSet(1) THEN Goto(p, "close") ELSE End(p)
  /\ UNCHANGED <<files, Others>>

DiscardOrphan(p) ==
  /\ At(p, "fail")
  /\ IF LeafSet(1) THEN DiscardArtifact /\ Goto(p, "close")
                   ELSE End(p) /\ UNCHANGED <<artifacts, unsynced>>
  /\ UNCHANGED <<ledger, universe, chunks, marks, temps, Others>>

CloseInternal(p) ==
  /\ At(p, "close")
  /\ temps' = Cleared({"universe", "search"})
  /\ IF StoreSound THEN DiscardChunk ELSE UNCHANGED <<chunks, unsynced>>
  /\ IF Staged("artifacts") \/ Staged("events") \/ ~StoreSound \/ Ended
     THEN End(p) ELSE Work(p, "temp", "FAILED", "events")
  /\ UNCHANGED <<ledger, artifacts, universe, marks, Others>>

-----------------------------------------------------------------------------
(* verify_ai_all_cases takes no lock: it photographs the tree, reads and   *)
(* recomputes, and requires the same tree at the end.                      *)

Quiet == \A s \in Stagings : ~Staged(s)
ReadOn(pc, before, events) == audit' = [pc |-> pc, before |-> before, events |-> events]

AuditStart ==
  /\ audit.pc = "idle" /\ Quiet
  /\ ReadOn("read", Tree, <<>>)
  /\ UNCHANGED <<science, files, proc, history, faults>>

Auditable ==
  /\ Quiet /\ ledger # <<>> /\ LeafSet(0) /\ ReleasesClosed
  /\ "HOLDOUT_RESULTS_RELEASED" \in Recorded => "COMPLETED" \in Recorded
  /\ Ended => chunks = marks

AuditRead ==
  /\ audit.pc = "read" /\ Auditable
  /\ ReadOn("judge", audit.before, ledger)
  /\ UNCHANGED <<science, files, proc, history, faults>>

(* Mutant: the tree is not compared with the first photograph.             *)
Bug_AuditFinish ==
  /\ audit.pc = "judge"
  /\ Quiet
  /\ audit' = Asleep
  /\ UNCHANGED <<science, files, proc, history, faults>>

AuditFinish ==
  /\ audit.pc = "judge"
  /\ Quiet /\ Tree = audit.before
  /\ audit' = Asleep
  /\ UNCHANGED <<science, files, proc, history, faults>>

AuditRefused ==
  /\ \/ audit.pc = "read" /\ ~Auditable
     \/ audit.pc = "judge" /\ ~(Quiet /\ Tree = audit.before)
  /\ audit' = Asleep
  /\ UNCHANGED <<science, files, proc, history, faults>>

-----------------------------------------------------------------------------
(* Faults. *)

Kill(p) ==
  /\ ~At(p, "idle") /\ Fault
  /\ End(p)
  /\ UNCHANGED <<science, files, audit, history>>

PowerLoss ==
  /\ Fault
  /\ Lose
  /\ proc' = [p \in Procs |-> Idle]
  /\ audit' = Asleep
  /\ UNCHANGED <<science, history>>

(* Mutant: every OSError of the try block fails the run.                   *)
Bug_OsError(p) ==
  /\ ~At(p, "idle") /\ ~At(p, "unlink") /\ Fault
  /\ IF proc[p].pc \in {"link", "sync"} THEN UnlinkTemp(proc[p].dir) ELSE UNCHANGED temps
  /\ IF InTry(p) THEN Goto(p, "fail") ELSE End(p)
  /\ UNCHANGED <<science, ledger, artifacts, universe, chunks, marks, unsynced, audit, history>>

(* OSError: the publication unlinks its temporary; before the holdout      *)
(* boundary the error leaves the run resumable, past it the run fails.     *)
OsError(p) ==
  /\ ~At(p, "idle") /\ ~At(p, "unlink") /\ Fault
  /\ IF proc[p].pc \in {"link", "sync"} THEN UnlinkTemp(proc[p].dir) ELSE UNCHANGED temps
  /\ IF InTry(p) /\ "HOLDOUT_AUTHORIZED" \in Recorded THEN Goto(p, "fail") ELSE End(p)
  /\ UNCHANGED <<science, ledger, artifacts, universe, chunks, marks, unsynced, audit, history>>

(* A service that fails, a replay that differs, a resource cap reached:    *)
(* any exception that is no OSError.                                       *)
IntegrityError(p) ==
  /\ InTry(p) /\ proc[p].pc \in {"stage", "service", "temp"} /\ Fault
  /\ Goto(p, "fail")
  /\ condemned' = TRUE
  /\ UNCHANGED <<science, files, audit, consulted, openings>>

-----------------------------------------------------------------------------
Step(p) ==
  \/ Preflight(p) \/ RecoverOuter(p) \/ RecoverInternal(p) \/ Precommit(p) \/ Resume(p)
  \/ Advance(p) \/ Serve(p) \/ Stage(p) \/ Link(p) \/ Sync(p) \/ Unlink(p)
  \/ DiscardOrphan(p) \/ CloseInternal(p)

Next ==
  \/ \E p \in Procs : \/ \E op \in Operations : Invoke(p, op)
                      \/ Step(p)
                      \/ Kill(p) \/ OsError(p) \/ IntegrityError(p)
  \/ AuditStart \/ AuditRead \/ AuditFinish \/ AuditRefused
  \/ PowerLoss

Spec == Init /\ [][Next]_vars

(* A process that is scheduled makes progress, and whoever runs the        *)
(* campaign invokes run again as often as the lock is free.                *)
Fairness ==
  /\ \A p \in Procs : WF_vars(Step(p))
  /\ SF_vars(\E p \in Procs : Invoke(p, "run"))
FairSpec == Spec /\ Fairness

-----------------------------------------------------------------------------
(* Properties. *)

CampaignTypeOK ==
  /\ science \in Branches
  /\ ledger \in Seq(EventTypes)
  /\ artifacts \subseteq EventTypes
  /\ universe \in 0..Chunks /\ marks \in 0..Chunks /\ chunks \in 0..Chunks
  /\ temps \in [Stagings -> Seq(Directories \cup {"unlinked"})]
  /\ \A u \in unsynced : \/ u \in {"artifacts"} \X EventTypes
                         \/ u \in (Directories \ {"artifacts"}) \X Nat
  /\ proc \in [Procs -> Process]
  /\ audit.pc \in Reading
  /\ consulted \subseteq Served /\ openings \in Nat /\ condemned \in BOOLEAN
  /\ faults \in 0..MaxFaults

(* The holdout is one shot: a run evaluates it at most once over every     *)
(* restart, and only the invocation that wrote the authorization, on the   *)
(* disk to stay, works past it.                                            *)
HoldoutIsOneShot ==
  /\ openings <= 1
  /\ openings = 1 => "HOLDOUT_AUTHORIZED" \in Durable
  /\ \A p \in Procs :
       proc[p].pc \in {"service"} \cup Publishing
         /\ proc[p].at \in {"HOLDOUT_MASKS_FROZEN", "HOLDOUT_RESULTS_RELEASED"}
       => "HOLDOUT_AUTHORIZED" \in Durable \ proc[p].known

(* verify_ai_all_cases recomputes the holdout, but only of a run that has  *)
(* opened it and is complete: no run is at work whose conclusion could     *)
(* still depend on it.                                                     *)
AuditsKeepTheSeal ==
  (\E i \in DOMAIN audit.events : audit.events[i] = "HOLDOUT_RESULTS_RELEASED")
  => openings = 1 /\ Ended /\ \A p \in Procs : ~InTry(p)

(* The event that commits to what a service may see.                       *)
Commitment == [e \in {"SEARCH_RESULTS_RELEASED", "WALK_FORWARD_RESULTS_RELEASED",
                      "HOLDOUT_MASKS_FROZEN", "HOLDOUT_RESULTS_RELEASED"} |->
                 CASE e = "SEARCH_RESULTS_RELEASED" -> "SEARCH_UNIVERSE_FROZEN"
                   [] e = "WALK_FORWARD_RESULTS_RELEASED" -> "WALK_FORWARD_MASKS_FROZEN"
                   [] e = "HOLDOUT_MASKS_FROZEN" -> "HOLDOUT_AUTHORIZED"
                   [] OTHER -> "HOLDOUT_MASKS_FROZEN"]

(* Outcomes are opened only behind a commitment that no crash and no power *)
(* loss can take back: _run_with_services calls each outcome service after *)
(* the append of the event that freezes what it will be asked.             *)
OutcomesAreCommitted ==
  \A e \in consulted \cap DOMAIN Commitment : Commitment[e] \in Durable

(* Whatever instant a kill chooses, the files it leaves pass every check   *)
(* of the next invocation: one temporary a staging directory, every event  *)
(* with its artifact, at most the next event's artifact without its event, *)
(* no internal evidence ahead of the event that admits it.                 *)
Recoverable ==
  /\ CampaignTypeOK
  /\ TempsBounded
  /\ LeafSet(1)
  /\ \A e \in Orphans : LegalNext(e)
  /\ EvidenceInOrder /\ StoreSound /\ ReleasesClosed

(* COMPLETED and FAILED are written on closed files: no orphan, no         *)
(* temporary but that of the last event, no Search chunk without event.    *)
TerminalIsClosed ==
  Ended =>
    /\ artifacts = Referenced
    /\ \A s \in Stagings \ {"events"} : ~Staged(s)
    /\ \A i \in DOMAIN temps["events"] : temps["events"][i] = "events"
    /\ chunks = marks
    /\ "COMPLETED" \in Recorded => universe = Chunks /\ marks = Chunks

(* A kill, a power loss or an OSError alone never fails a run that has not *)
(* reached the holdout: it fails for a service or a check that failed, or  *)
(* past the authorization.                                                 *)
FailuresAreEarned ==
  "FAILED" \in Recorded => condemned \/ "HOLDOUT_AUTHORIZED" \in Recorded

(* The verdict of an audit is about the tree it returns on: the ledger it  *)
(* read is the ledger there, with its artifacts and nothing half linked.   *)
AuditsDescribeTheTree ==
  AuditFinish => audit.events = ledger /\ Referenced \subseteq artifacts

(* An audit that takes no lock neither misreads the run nor opens anything.*)
AuditsAreSound == [][AuditsKeepTheSeal' /\ AuditsDescribeTheTree]_vars

(* The run ends: invoked again after every fault it reaches COMPLETED or   *)
(* FAILED and stays there.                                                 *)
RunsEnd == <>[]Ended
=============================================================================
