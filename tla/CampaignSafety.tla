--------------------------- MODULE CampaignSafety ---------------------------
(***************************************************************************)
(* The safety of the AI all-cases campaign, for any number of processes,   *)
(* chunks and faults, in two parts.                                        *)
(*                                                                         *)
(* The holdout is opened at most once, whether or not a link of an ended   *)
(* invocation has reached the disk.  The argument: what is durable stays   *)
(* durable; an invocation finds every earlier authorization and fails on   *)
(* it, so one that works past the authorization wrote it, synced it, and   *)
(* found none; and only such an invocation, once, moves from the masks to  *)
(* the evaluation.                                                         *)
(*                                                                         *)
(* The files survive every kill, error and power loss: what an invocation  *)
(* leaves behind passes every check of the next one, a terminal event is   *)
(* written on closed files, and only a failed service or check, or the     *)
(* holdout, fails a run -- if the links of an ended invocation are on the  *)
(* disk before the next one.  The argument: one invocation is at work and  *)
(* what it publishes next is the event the lifecycle calls for; its        *)
(* artifact is the only one without event; and at every step a power loss  *)
(* can take only the entry of the publication in progress, or an event of  *)
(* a run that is failing.                                                  *)
(***************************************************************************)
EXTENDS CampaignRun, FiniteSetTheorems, TLAPS

Authorization == "HOLDOUT_AUTHORIZED"
PastIt == {"HOLDOUT_MASKS_FROZEN", "HOLDOUT_RESULTS_RELEASED"}
Internal == {"universe", "chunks", "marks"}

(* Steps that hold no stage.                                               *)
Early == {"idle", "preflight", "outer", "internal", "precommit", "resume", "fail", "close"}

(* What is true of the process at work.                                    *)
Sound(p) ==
  /\ proc[p].pc \in {"internal", "precommit", "resume"} => proc[p].known \subseteq Recorded
  /\ proc[p].pc \in Publishing /\ proc[p].at = "PRECOMMITTED" => proc[p].known = {}
  /\ InTry(p) => Authorization \notin proc[p].known
  /\ proc[p].pc = "service" => proc[p].at \in Served
  /\ proc[p].pc \in Publishing /\ proc[p].dir \in Internal => proc[p].at \in Served
  /\ proc[p].pc \notin Early /\ proc[p].at \in PastIt => Authorization \in Durable
  /\ proc[p].pc = "stage" /\ proc[p].at = Authorization => Authorization \in Durable
  /\ proc[p].pc = "sync" /\ proc[p].dir = "events" => proc[p].at \in Recorded
  /\ proc[p].pc = "unlink" /\ proc[p].dir = "events" => proc[p].at \in Durable
  /\ openings = 1 => \/ proc[p].pc \in Early
                     \/ proc[p].at \in {"HOLDOUT_RESULTS_RELEASED", "COMPLETED", "FAILED"}

Exclusive == \A p, q \in Procs : p # q => At(p, "idle") \/ At(q, "idle")

OneShotInv ==
  /\ ledger \in Seq(EventTypes)
  /\ proc \in [Procs -> Process]
  /\ Exclusive
  /\ openings \in 0..1
  /\ openings = 1 => Authorization \in Durable
  /\ \A p \in Procs : Sound(p)

-----------------------------------------------------------------------------
(* Durable events. *)

LEMMA DurableRecorded == Durable \subseteq Recorded
BY DEF Durable, Recorded

(* Without a link and without a power loss nothing durable is lost.        *)
LEMMA DurableStays ==
  ASSUME UNCHANGED ledger, unsynced' \subseteq unsynced
  PROVE  Durable \subseteq Durable' /\ Recorded' = Recorded
BY DEF Durable, Recorded

(* A link adds an entry after those that are durable.                      *)
LEMMA LinkKeeps ==
  ASSUME ledger \in Seq(EventTypes), NEW dir \in Directories, NEW e \in EventTypes,
         LinkEntry(dir, e)
  PROVE  /\ ledger' \in Seq(EventTypes)
         /\ Durable \subseteq Durable'
         /\ dir = "events" => e \in Recorded'
<1>1. CASE dir = "events"
  <2>1. ledger' = Append(ledger, e) /\ unsynced' = unsynced \cup {<<dir, Len(ledger) + 1>>}
    BY <1>1 DEF LinkEntry
  <2>2. \A i \in DOMAIN ledger : i \in DOMAIN ledger' /\ ledger'[i] = ledger[i]
                                 /\ <<"events", i>> # <<dir, Len(ledger) + 1>>
    BY <2>1
  <2>3. Durable \subseteq Durable'
    BY <2>1, <2>2 DEF Durable
  <2>4. Len(ledger) + 1 \in DOMAIN ledger' /\ ledger'[Len(ledger) + 1] = e
    BY <2>1
  <2> QED BY <2>1, <2>3, <2>4 DEF Recorded
<1>2. CASE dir # "events"
  <2>1. ledger' = ledger
    BY <1>2 DEF LinkEntry, Directories
  <2>2. \E x : unsynced' = unsynced \cup {<<dir, x>>}
    BY <1>2 DEF LinkEntry, Directories
  <2>3. \A i \in DOMAIN ledger : <<"events", i>> \notin unsynced => <<"events", i>> \notin unsynced'
    BY <1>2, <2>2
  <2> QED BY <1>2, <2>1, <2>3 DEF Durable
<1> QED BY <1>1, <1>2

(* A power loss cuts the ledger after its last durable event.              *)
LEMMA LoseKeeps ==
  ASSUME ledger \in Seq(EventTypes), Lose
  PROVE  ledger' \in Seq(EventTypes) /\ Durable \subseteq Durable'
<1>1. PICK n \in Survivors("events", Len(ledger)) :
        ledger' = SubSeq(ledger, 1, n) /\ unsynced' = {}
  BY DEF Lose
<1>2. n \in 0..Len(ledger) /\ \A i \in (n + 1)..Len(ledger) : <<"events", i>> \in unsynced
  BY <1>1 DEF Survivors
<1>3. ledger' \in Seq(EventTypes) /\ \A i \in 1..n : i \in DOMAIN ledger' /\ ledger'[i] = ledger[i]
  BY <1>1, <1>2
<1>4. \A i \in DOMAIN ledger : <<"events", i>> \notin unsynced => i \in 1..n
  BY <1>2
<1>5. Durable \subseteq Durable'
  BY <1>1, <1>3, <1>4 DEF Durable
<1> QED BY <1>3, <1>5

-----------------------------------------------------------------------------
(* Assembling a step of one process. *)

(* Every other process is idle, and stays so.                              *)
LEMMA Assemble ==
  ASSUME OneShotInv, NEW p \in Procs,
         \A q \in Procs \ {p} : At(q, "idle"),
         \A q \in Procs \ {p} : proc'[q] = proc[q],
         proc' \in [Procs -> Process], ledger' \in Seq(EventTypes),
         Durable \subseteq Durable', UNCHANGED openings, Sound(p)'
  PROVE  OneShotInv'
<1>1. Exclusive'
  BY DEF Exclusive, At
<1>2. \A q \in Procs \ {p} : Sound(q)'
  BY DEF Sound, At, InTry, Early, Publishing
<1> QED BY <1>1, <1>2 DEF OneShotInv

LEMMA Alone ==
  ASSUME OneShotInv, NEW p \in Procs, ~At(p, "idle")
  PROVE  \A q \in Procs \ {p} : At(q, "idle")
BY DEF OneShotInv, Exclusive

(* What Hold leaves of the processes.                                      *)
LEMMA Held ==
  ASSUME proc \in [Procs -> Process], NEW p \in Procs,
         NEW op \in Operations, NEW pc \in Steps, NEW at \in EventTypes,
         NEW dir \in Directories, NEW seq \in Nat, NEW known \in SUBSET EventTypes,
         Hold(p, op, pc, at, dir, seq, known)
  PROVE  /\ proc' \in [Procs -> Process]
         /\ proc'[p].pc = pc /\ proc'[p].at = at /\ proc'[p].dir = dir
         /\ proc'[p].known = known
         /\ \A q \in Procs \ {p} : proc'[q] = proc[q]
BY DEF Hold, Process

LEMMA EndHeld ==
  ASSUME proc \in [Procs -> Process], NEW p \in Procs, End(p)
  PROVE  /\ proc' \in [Procs -> Process] /\ proc'[p].pc = "idle"
         /\ \A q \in Procs \ {p} : proc'[q] = proc[q]
BY DEF End, Idle, Process, Operations, Steps, Publishing, EventTypes, Directories

LEMMA GotoHeld ==
  ASSUME proc \in [Procs -> Process], NEW p \in Procs, NEW pc \in Steps, Goto(p, pc)
  PROVE  /\ proc' \in [Procs -> Process]
         /\ proc'[p].pc = pc /\ proc'[p].at = proc[p].at /\ proc'[p].dir = proc[p].dir
         /\ proc'[p].known = proc[p].known
         /\ \A q \in Procs \ {p} : proc'[q] = proc[q]
<1>1. proc[p] \in Process
  OBVIOUS
<1> QED BY <1>1, Held DEF Goto, Process

LEMMA WorkHeld ==
  ASSUME proc \in [Procs -> Process], NEW p \in Procs, NEW pc \in Steps,
         NEW at \in EventTypes, NEW dir \in Directories, Work(p, pc, at, dir)
  PROVE  /\ proc' \in [Procs -> Process]
         /\ proc'[p].pc = pc /\ proc'[p].at = at /\ proc'[p].dir = dir
         /\ proc'[p].known = proc[p].known
         /\ \A q \in Procs \ {p} : proc'[q] = proc[q]
<1>1. proc[p] \in Process
  OBVIOUS
<1> QED BY <1>1, Held DEF Work, Process

(* A process without a stage has nothing to show.                          *)
Calm == {"idle", "preflight", "outer", "fail", "close"}
LEMMA CalmSound ==
  ASSUME NEW p \in Procs, proc'[p].pc \in Calm
  PROVE  Sound(p)'
BY DEF Sound, Calm, Early, InTry, Publishing

(* What the files lend a step that does not touch the ledger.              *)
LEMMA Quietly ==
  ASSUME OneShotInv, UNCHANGED ledger, unsynced' \subseteq unsynced
  PROVE  /\ ledger' \in Seq(EventTypes) /\ Durable \subseteq Durable'
         /\ Recorded' = Recorded
BY DurableStays DEF OneShotInv

LEMMA SyncedShrinks == \A dir \in Directories : Synced(dir) \subseteq unsynced
BY DEF Synced

(* A step of a process that ends, or leaves its stages, is sound.          *)
LEMMA CalmStep ==
  ASSUME OneShotInv, NEW p \in Procs, \A q \in Procs \ {p} : At(q, "idle"),
         NEW pc \in Calm, End(p) \/ Goto(p, pc),
         ledger' \in Seq(EventTypes), Durable \subseteq Durable', UNCHANGED openings
  PROVE  OneShotInv'
<1>1. proc \in [Procs -> Process] /\ pc \in Steps
  BY DEF OneShotInv, Calm, Steps, Publishing
<1>2. /\ proc' \in [Procs -> Process] /\ proc'[p].pc \in Calm
      /\ \A q \in Procs \ {p} : proc'[q] = proc[q]
  BY <1>1, EndHeld, GotoHeld DEF Calm
<1> QED BY <1>2, CalmSound, Assemble

-----------------------------------------------------------------------------
(* The steps, one by one. *)

LEMMA InvokeSafe ==
  ASSUME OneShotInv, NEW p \in Procs, NEW op \in Operations, Invoke(p, op)
  PROVE  OneShotInv'
<1>1. proc \in [Procs -> Process]
  BY DEF OneShotInv
<1>2. /\ proc' \in [Procs -> Process] /\ proc'[p].pc = "preflight"
      /\ \A q \in Procs \ {p} : proc'[q] = proc[q]
  BY <1>1, Held DEF Invoke, Operations, Steps, EventTypes, Directories
<1>3. unsynced' \subseteq unsynced /\ UNCHANGED <<ledger, openings>>
  BY DEF Invoke, Others, history
<1>4. ledger' \in Seq(EventTypes) /\ Durable \subseteq Durable'
  BY <1>3, Quietly
<1>5. Sound(p)'
  BY <1>2, CalmSound DEF Calm
<1> QED BY <1>2, <1>3, <1>4, <1>5, Assemble DEF Invoke

LEMMA PreflightSafe ==
  ASSUME OneShotInv, NEW p \in Procs, Preflight(p)
  PROVE  OneShotInv'
<1>1. UNCHANGED <<ledger, unsynced, openings>>
  BY DEF Preflight, Others, history
<1>2. ledger' \in Seq(EventTypes) /\ Durable \subseteq Durable'
  BY <1>1, Quietly
<1>3. \A q \in Procs \ {p} : At(q, "idle")
  BY Alone DEF Preflight, At
<1>4. End(p) \/ Goto(p, "outer")
  BY DEF Preflight
<1> QED BY <1>1, <1>2, <1>3, <1>4, CalmStep DEF Calm

LEMMA RecoverOuterSafe ==
  ASSUME OneShotInv, NEW p \in Procs, RecoverOuter(p)
  PROVE  OneShotInv'
<1>1. UNCHANGED <<ledger, unsynced, openings>>
  BY DEF RecoverOuter, Others, history
<1>2. /\ ledger' \in Seq(EventTypes) /\ Durable \subseteq Durable'
      /\ Recorded' = Recorded
  BY <1>1, Quietly
<1>3. \A q \in Procs \ {p} : At(q, "idle")
  BY Alone DEF RecoverOuter, At
<1>4. CASE End(p)
  BY <1>1, <1>2, <1>3, <1>4, CalmStep DEF Calm
<1>5. CASE Hold(p, proc[p].op, "internal", proc[p].at, proc[p].dir, 0, Recorded)
  <2>1. proc \in [Procs -> Process] /\ proc[p] \in Process /\ Recorded \subseteq EventTypes
    BY DEF OneShotInv, Recorded
  <2>2. /\ proc' \in [Procs -> Process] /\ proc'[p].pc = "internal"
        /\ proc'[p].known = Recorded
        /\ \A q \in Procs \ {p} : proc'[q] = proc[q]
    BY <1>5, <2>1, Held DEF Process, Steps
  <2>3. Sound(p)'
    BY <1>2, <2>2 DEF Sound, Early, InTry, Publishing
  <2> QED BY <1>1, <1>2, <1>3, <2>2, <2>3, Assemble
<1> QED BY <1>4, <1>5 DEF RecoverOuter

LEMMA RecoverInternalSafe ==
  ASSUME OneShotInv, NEW p \in Procs, RecoverInternal(p)
  PROVE  OneShotInv'
<1>1. UNCHANGED <<ledger, openings>> /\ unsynced' \subseteq unsynced
  BY SyncedShrinks DEF RecoverInternal, Others, history, DiscardChunk, Directories
<1>2. /\ ledger' \in Seq(EventTypes) /\ Durable \subseteq Durable'
      /\ Recorded' = Recorded
  BY <1>1, Quietly
<1>3. \A q \in Procs \ {p} : At(q, "idle")
  BY Alone DEF RecoverInternal, At
<1>4. CASE End(p)
  BY <1>1, <1>2, <1>3, <1>4, CalmStep DEF Calm
<1>5. CASE Goto(p, "precommit")
  <2>1. proc \in [Procs -> Process] /\ proc[p].known \subseteq Recorded
    BY DEF OneShotInv, Sound, RecoverInternal, At
  <2>2. /\ proc' \in [Procs -> Process] /\ proc'[p].pc = "precommit"
        /\ proc'[p].known = proc[p].known
        /\ \A q \in Procs \ {p} : proc'[q] = proc[q]
    BY <1>5, <2>1, GotoHeld DEF Steps
  <2>3. Sound(p)'
    BY <1>2, <2>1, <2>2 DEF Sound, Early, InTry, Publishing
  <2> QED BY <1>1, <1>2, <1>3, <2>2, <2>3, Assemble
<1> QED BY <1>4, <1>5 DEF RecoverInternal

LEMMA PrecommitSafe ==
  ASSUME OneShotInv, NEW p \in Procs, Precommit(p)
  PROVE  OneShotInv'
<1>1. UNCHANGED <<ledger, unsynced, openings>>
  BY DEF Precommit, Others, history, files
<1>2. /\ ledger' \in Seq(EventTypes) /\ Durable \subseteq Durable'
      /\ Recorded' = Recorded
  BY <1>1, Quietly
<1>3. \A q \in Procs \ {p} : At(q, "idle")
  BY Alone DEF Precommit, At
<1>4. proc \in [Procs -> Process] /\ proc[p].known \subseteq Recorded
  BY DEF OneShotInv, Sound, Precommit, At
<1>5. CASE End(p)
  BY <1>1, <1>2, <1>3, <1>5, CalmStep DEF Calm
<1>6. CASE Goto(p, "resume")
  <2>1. /\ proc' \in [Procs -> Process] /\ proc'[p].pc = "resume"
        /\ proc'[p].known = proc[p].known
        /\ \A q \in Procs \ {p} : proc'[q] = proc[q]
    BY <1>4, <1>6, GotoHeld DEF Steps
  <2>2. Sound(p)'
    BY <1>2, <1>4, <2>1 DEF Sound, Early, InTry, Publishing
  <2> QED BY <1>1, <1>2, <1>3, <2>1, <2>2, Assemble
<1>7. CASE ledger = <<>> /\ Work(p, "temp", "PRECOMMITTED", "artifacts")
  <2>1. Recorded = {} /\ Durable = {}
    BY <1>7 DEF Recorded, Durable
  <2>2. /\ proc' \in [Procs -> Process] /\ proc'[p].pc = "temp"
        /\ proc'[p].at = "PRECOMMITTED" /\ proc'[p].dir = "artifacts"
        /\ proc'[p].known = proc[p].known
        /\ \A q \in Procs \ {p} : proc'[q] = proc[q]
    BY <1>4, <1>7, WorkHeld DEF Steps, Publishing, EventTypes, Directories
  <2>3. openings' # 1
    BY <1>1, <2>1 DEF OneShotInv
  <2>4. Sound(p)'
    BY <1>4, <2>1, <2>2, <2>3
    DEF Sound, Early, InTry, Publishing, PastIt, Authorization, Internal
  <2> QED BY <1>1, <1>2, <1>3, <2>2, <2>4, Assemble
<1> QED BY <1>5, <1>6, <1>7 DEF Precommit

LEMMA ResumeSafe ==
  ASSUME OneShotInv, NEW p \in Procs, Resume(p)
  PROVE  OneShotInv'
<1>1. UNCHANGED <<ledger, openings>> /\ unsynced' \subseteq unsynced
  BY SyncedShrinks DEF Resume, Others, history, DiscardArtifact, Directories
<1>2. /\ ledger' \in Seq(EventTypes) /\ Durable \subseteq Durable'
      /\ Recorded' = Recorded
  BY <1>1, Quietly
<1>3. \A q \in Procs \ {p} : At(q, "idle")
  BY Alone DEF Resume, At
<1>4. CASE End(p) \/ Goto(p, "fail")
  BY <1>1, <1>2, <1>3, <1>4, CalmStep DEF Calm
<1>5. CASE "HOLDOUT_AUTHORIZED" \notin Recorded /\ Work(p, "stage", "PRECOMMITTED", "artifacts")
  <2>1. proc \in [Procs -> Process] /\ proc[p].known \subseteq Recorded
    BY DEF OneShotInv, Sound, Resume, At
  <2>2. /\ proc' \in [Procs -> Process] /\ proc'[p].pc = "stage"
        /\ proc'[p].at = "PRECOMMITTED" /\ proc'[p].known = proc[p].known
        /\ \A q \in Procs \ {p} : proc'[q] = proc[q]
    BY <1>5, <2>1, WorkHeld DEF Steps, EventTypes, Directories
  <2>3. openings' # 1
    BY <1>1, <1>5, DurableRecorded DEF OneShotInv, Authorization
  <2>4. Sound(p)'
    BY <1>5, <2>1, <2>2, <2>3 DEF Sound, Early, InTry, Publishing, PastIt, Authorization
  <2> QED BY <1>1, <1>2, <1>3, <2>2, <2>4, Assemble
<1> QED BY <1>4, <1>5 DEF Resume

(* The successors that matter for the holdout.                             *)
LEMMA Followers ==
  ASSUME NEW e \in EventTypes
  PROVE  /\ Successor(e) \in EventTypes
         /\ Successor(e) = "HOLDOUT_MASKS_FROZEN" => e = Authorization
         /\ Successor(e) = "HOLDOUT_RESULTS_RELEASED" <=> e = "HOLDOUT_MASKS_FROZEN"
         /\ e \in {"HOLDOUT_RESULTS_RELEASED", "COMPLETED", "FAILED"} =>
              Successor(e) \in {"COMPLETED", "FAILED"}
BY DEF Successor, EventTypes, Authorization

LEMMA AdvanceSafe ==
  ASSUME OneShotInv, NEW p \in Procs, Advance(p)
  PROVE  OneShotInv'
<1> DEFINE e == Successor(proc[p].at)
<1>1. UNCHANGED <<ledger, unsynced>>
  BY DEF Advance, files
<1>2. /\ ledger' \in Seq(EventTypes) /\ Durable \subseteq Durable'
      /\ Recorded' = Recorded /\ Durable' = Durable
  BY <1>1, Quietly DEF Durable
<1>3. \A q \in Procs \ {p} : At(q, "idle")
  BY Alone DEF Advance, At
<1>4. /\ proc \in [Procs -> Process] /\ proc[p] \in Process /\ Sound(p)
      /\ proc[p].pc = "stage" /\ openings \in 0..1
      /\ openings = 1 => Authorization \in Durable
  BY DEF OneShotInv, Advance, At
<1>5. Authorization \notin proc[p].known
  BY <1>4 DEF Sound, InTry
<1>6. /\ e \in EventTypes
      /\ e = "HOLDOUT_MASKS_FROZEN" => proc[p].at = Authorization
      /\ e = "HOLDOUT_RESULTS_RELEASED" <=> proc[p].at = "HOLDOUT_MASKS_FROZEN"
      /\ proc[p].at \in {"HOLDOUT_RESULTS_RELEASED", "COMPLETED", "FAILED"} =>
           e \in {"COMPLETED", "FAILED"}
  BY <1>4, Followers DEF Process
<1>7. PICK step \in {"stage", "service", "fail", "temp"} :
        /\ Work(p, step, e, "artifacts")
        /\ step = "stage" => e \in proc[p].known
        /\ step = "service" => e \in Served
  BY Zenon DEF Advance
<1>8. openings' = IF e = "HOLDOUT_RESULTS_RELEASED" THEN openings + 1 ELSE openings
  BY Zenon DEF Advance, Call, history, Served
<1> HIDE DEF e
<1>9. /\ proc' \in [Procs -> Process] /\ proc'[p].pc = step
      /\ proc'[p].at = e /\ proc'[p].dir = "artifacts" /\ proc'[p].known = proc[p].known
      /\ \A q \in Procs \ {p} : proc'[q] = proc[q]
  BY <1>4, <1>6, <1>7, WorkHeld DEF Steps, Publishing, Directories
<1>10. e \in PastIt => Authorization \in Durable
  BY <1>4, <1>6 DEF Sound, PastIt, Early
<1>11. openings = 1 => proc[p].at \in {"HOLDOUT_RESULTS_RELEASED", "COMPLETED", "FAILED"}
  BY <1>4 DEF Sound, Early
<1>12. /\ openings' \in 0..1
       /\ openings' = 1 => /\ Authorization \in Durable
                           /\ e \in {"HOLDOUT_RESULTS_RELEASED", "COMPLETED", "FAILED"}
  BY <1>4, <1>6, <1>8, <1>10, <1>11 DEF PastIt
<1>13. e # "PRECOMMITTED"
  BY <1>6, <1>4 DEF e, Successor, Process, EventTypes
<1>14. Sound(p)'
  BY <1>2, <1>5, <1>7, <1>9, <1>10, <1>12, <1>13
  DEF Sound, Early, InTry, Publishing, Internal, PastIt
<1>15. Exclusive'
  BY <1>3, <1>9 DEF Exclusive, At
<1>16. \A q \in Procs \ {p} : Sound(q)'
  BY <1>3, <1>9 DEF Sound, At, InTry, Early, Publishing
<1> QED BY <1>2, <1>9, <1>12, <1>14, <1>15, <1>16 DEF OneShotInv

LEMMA ServeSafe ==
  ASSUME OneShotInv, NEW p \in Procs, Serve(p)
  PROVE  OneShotInv'
<1>1. UNCHANGED <<ledger, unsynced, openings>>
  BY DEF Serve, Others, history, files
<1>2. /\ ledger' \in Seq(EventTypes) /\ Durable \subseteq Durable'
      /\ Recorded' = Recorded
  BY <1>1, Quietly
<1>3. \A q \in Procs \ {p} : At(q, "idle")
  BY Alone DEF Serve, At
<1>4. /\ proc \in [Procs -> Process] /\ proc[p] \in Process /\ Sound(p)
      /\ proc[p].pc = "service" /\ proc[p].at \in Served
  BY DEF OneShotInv, Serve, At, Sound
<1>5. PICK dir \in Internal \cup {"artifacts"} : Work(p, "temp", proc[p].at, dir)
  BY DEF Serve, Internal
<1>6. /\ proc' \in [Procs -> Process] /\ proc'[p].pc = "temp"
      /\ proc'[p].at = proc[p].at /\ proc'[p].dir = dir /\ proc'[p].known = proc[p].known
      /\ \A q \in Procs \ {p} : proc'[q] = proc[q]
  BY <1>4, <1>5, WorkHeld DEF Steps, Publishing, Directories, Process, Internal
<1>7. proc[p].at \in PastIt => Authorization \in Durable
  BY <1>4 DEF Sound, Early
<1>8. Sound(p)'
  BY <1>1, <1>2, <1>4, <1>6, <1>7 DEF Sound, Early, InTry, Publishing, Served
<1> QED BY <1>1, <1>2, <1>3, <1>6, <1>8, Assemble

LEMMA RefuseSafe ==
  ASSUME OneShotInv, NEW p \in Procs, \A q \in Procs \ {p} : At(q, "idle"), Refuse(p),
         ledger' \in Seq(EventTypes), Durable \subseteq Durable', UNCHANGED openings
  PROVE  OneShotInv'
BY CalmStep DEF Refuse, Calm

(* After a publication: an event of its own directory is on the disk.      *)
LEMMA ProceedSafe ==
  ASSUME OneShotInv, NEW p \in Procs, proc[p].pc \in Publishing, Proceed(p),
         proc[p].dir = "events" => proc[p].pc = "unlink",
         UNCHANGED <<ledger, unsynced, openings>>
  PROVE  OneShotInv'
<1>1. /\ ledger' \in Seq(EventTypes) /\ Durable \subseteq Durable'
      /\ Recorded' = Recorded
  BY Quietly
<1>2. \A q \in Procs \ {p} : At(q, "idle")
  BY Alone DEF At, Publishing
<1>3. /\ proc \in [Procs -> Process] /\ proc[p] \in Process /\ Sound(p)
  BY DEF OneShotInv
<1>4. proc[p].at \in PastIt => Authorization \in Durable
  BY <1>3 DEF Sound, Early, Publishing
<1>5. openings = 1 => proc[p].at \in {"HOLDOUT_RESULTS_RELEASED", "COMPLETED", "FAILED"}
  BY <1>3 DEF Sound, Early, Publishing
<1>6. proc[p].at \notin {"PRECOMMITTED", "FAILED"} => Authorization \notin proc[p].known
  BY <1>3 DEF Sound, InTry
<1>7. CASE proc[p].dir = "artifacts"
  <2>1. Work(p, "temp", proc[p].at, "events")
    BY <1>7 DEF Proceed
  <2>2. /\ proc' \in [Procs -> Process] /\ proc'[p].pc = "temp"
        /\ proc'[p].at = proc[p].at /\ proc'[p].dir = "events"
        /\ proc'[p].known = proc[p].known
        /\ \A q \in Procs \ {p} : proc'[q] = proc[q]
    BY <1>3, <2>1, WorkHeld DEF Steps, Publishing, Directories, Process
  <2>3. proc[p].at = "PRECOMMITTED" => proc[p].known = {}
    BY <1>3 DEF Sound
  <2>4. Sound(p)'
    BY <1>1, <1>4, <1>5, <1>6, <2>2, <2>3 DEF Sound, Early, InTry, Publishing, Internal
  <2> QED BY <1>1, <1>2, <2>2, <2>4, Assemble
<1>8. CASE proc[p].dir \in Internal
  <2>1. Goto(p, "service") /\ proc[p].at \in Served
    BY <1>3, <1>8 DEF Proceed, Internal, Sound, Publishing
  <2>2. /\ proc' \in [Procs -> Process] /\ proc'[p].pc = "service"
        /\ proc'[p].at = proc[p].at /\ proc'[p].known = proc[p].known
        /\ \A q \in Procs \ {p} : proc'[q] = proc[q]
    BY <1>3, <2>1, GotoHeld DEF Steps
  <2>3. Sound(p)'
    BY <1>1, <1>4, <1>5, <1>6, <2>1, <2>2 DEF Sound, Early, InTry, Publishing, Served
  <2> QED BY <1>1, <1>2, <2>2, <2>3, Assemble
<1>9. CASE proc[p].dir = "events" /\ Goto(p, "resume") /\ proc[p].at = "PRECOMMITTED"
  <2>1. proc[p].known = {}
    BY <1>3, <1>9 DEF Sound
  <2>2. /\ proc' \in [Procs -> Process] /\ proc'[p].pc = "resume"
        /\ proc'[p].known = {}
        /\ \A q \in Procs \ {p} : proc'[q] = proc[q]
    BY <1>3, <1>9, <2>1, GotoHeld DEF Steps
  <2>3. Sound(p)'
    BY <2>2 DEF Sound, Early, InTry, Publishing
  <2> QED BY <1>1, <1>2, <2>2, <2>3, Assemble
<1>10. CASE End(p)
  BY <1>1, <1>2, <1>10, CalmStep DEF Calm
<1>11. CASE /\ proc[p].dir = "events" /\ Goto(p, "stage")
            /\ proc[p].at \notin Terminals \cup {"PRECOMMITTED"}
  <2>1. proc[p].at \in Durable
    BY <1>3, <1>11 DEF Sound
  <2>2. /\ proc' \in [Procs -> Process] /\ proc'[p].pc = "stage"
        /\ proc'[p].at = proc[p].at /\ proc'[p].known = proc[p].known
        /\ \A q \in Procs \ {p} : proc'[q] = proc[q]
    BY <1>3, <1>11, GotoHeld DEF Steps
  <2>3. Sound(p)'
    BY <1>1, <1>4, <1>5, <1>6, <1>11, <2>1, <2>2
    DEF Sound, Early, InTry, Publishing, Terminals
  <2> QED BY <1>1, <1>2, <2>2, <2>3, Assemble
<1> QED BY <1>3, <1>7, <1>8, <1>9, <1>10, <1>11
        DEF Proceed, Internal, Process, Directories, Terminals

LEMMA StageSafe ==
  ASSUME OneShotInv, NEW p \in Procs, Stage(p)
  PROVE  OneShotInv'
<1>1. UNCHANGED <<ledger, unsynced, openings>>
  BY DEF Stage, Others, history
<1>2. /\ ledger' \in Seq(EventTypes) /\ Durable \subseteq Durable'
      /\ Recorded' = Recorded
  BY <1>1, Quietly
<1>3. \A q \in Procs \ {p} : At(q, "idle")
  BY Alone DEF Stage, At
<1>4. /\ proc \in [Procs -> Process] /\ proc[p] \in Process /\ Sound(p)
      /\ proc[p].pc = "temp" /\ Len(ledger) + 1 \in Nat
  BY DEF OneShotInv, Stage, At
<1>5. CASE Refuse(p)
  BY <1>1, <1>2, <1>3, <1>5, RefuseSafe
<1>6. CASE proc[p].dir = "artifacts" /\ Proceed(p)
  BY <1>1, <1>4, <1>6, ProceedSafe DEF Publishing
<1>7. CASE Hold(p, proc[p].op, "link", proc[p].at, proc[p].dir, Len(ledger) + 1, proc[p].known)
  <2>1. /\ proc' \in [Procs -> Process] /\ proc'[p].pc = "link"
        /\ proc'[p].at = proc[p].at /\ proc'[p].dir = proc[p].dir
        /\ proc'[p].known = proc[p].known
        /\ \A q \in Procs \ {p} : proc'[q] = proc[q]
    BY <1>4, <1>7, Held DEF Process, Steps, Publishing
  <2>2. Sound(p)'
    BY <1>1, <1>2, <1>4, <2>1 DEF Sound, Early, InTry, Publishing
  <2> QED BY <1>1, <1>2, <1>3, <2>1, <2>2, Assemble
<1> QED BY <1>5, <1>6, <1>7 DEF Stage

LEMMA LinkSafe ==
  ASSUME OneShotInv, NEW p \in Procs, Link(p)
  PROVE  OneShotInv'
<1>1. UNCHANGED openings
  BY DEF Link, Others, history
<1>2. \A q \in Procs \ {p} : At(q, "idle")
  BY Alone DEF Link, At
<1>3. /\ proc \in [Procs -> Process] /\ proc[p] \in Process /\ Sound(p)
      /\ proc[p].pc = "link" /\ ledger \in Seq(EventTypes)
  BY DEF OneShotInv, Link, At
<1>4. CASE Refuse(p) /\ UNCHANGED <<ledger, unsynced>>
  <2>1. ledger' \in Seq(EventTypes) /\ Durable \subseteq Durable'
    BY <1>4, Quietly
  <2> QED BY <1>1, <1>2, <1>4, <2>1, RefuseSafe
<1>5. CASE LinkEntry(proc[p].dir, proc[p].at) /\ Goto(p, "sync")
  <2>1. /\ ledger' \in Seq(EventTypes) /\ Durable \subseteq Durable'
        /\ proc[p].dir = "events" => proc[p].at \in Recorded'
    BY <1>3, <1>5, LinkKeeps DEF Process
  <2>2. /\ proc' \in [Procs -> Process] /\ proc'[p].pc = "sync"
        /\ proc'[p].at = proc[p].at /\ proc'[p].dir = proc[p].dir
        /\ proc'[p].known = proc[p].known
        /\ \A q \in Procs \ {p} : proc'[q] = proc[q]
    BY <1>3, <1>5, GotoHeld DEF Steps, Publishing
  <2>3. Sound(p)'
    BY <1>1, <1>3, <2>1, <2>2 DEF Sound, Early, InTry, Publishing
  <2> QED BY <1>1, <1>2, <2>1, <2>2, <2>3, Assemble
<1> QED BY <1>4, <1>5 DEF Link

(* A sync makes every event there durable.                                 *)
LEMMA SyncSafe ==
  ASSUME OneShotInv, NEW p \in Procs, Sync(p)
  PROVE  OneShotInv'
<1>1. /\ proc \in [Procs -> Process] /\ proc[p] \in Process /\ Sound(p)
      /\ proc[p].pc = "sync" /\ Goto(p, "unlink")
  BY DEF OneShotInv, Sync, At
<1>2. UNCHANGED <<ledger, openings>> /\ unsynced' \subseteq unsynced
  BY <1>1, SyncedShrinks DEF Sync, Others, history, Process
<1>3. /\ ledger' \in Seq(EventTypes) /\ Durable \subseteq Durable'
      /\ Recorded' = Recorded
  BY <1>2, Quietly
<1>4. \A q \in Procs \ {p} : At(q, "idle")
  BY <1>1, Alone DEF At
<1>5. ASSUME proc[p].dir = "events" PROVE proc[p].at \in Durable'
  <2>1. proc[p].at \in Recorded
    BY <1>1, <1>5 DEF Sound
  <2>2. \A i \in DOMAIN ledger : <<"events", i>> \notin unsynced'
    BY <1>5 DEF Sync, Synced
  <2> QED BY <1>2, <2>1, <2>2 DEF Durable, Recorded
<1>6. /\ proc' \in [Procs -> Process] /\ proc'[p].pc = "unlink"
      /\ proc'[p].at = proc[p].at /\ proc'[p].dir = proc[p].dir
      /\ proc'[p].known = proc[p].known
      /\ \A q \in Procs \ {p} : proc'[q] = proc[q]
  BY <1>1, GotoHeld DEF Steps, Publishing
<1>7. Sound(p)'
  BY <1>1, <1>2, <1>3, <1>5, <1>6 DEF Sound, Early, InTry, Publishing
<1> QED BY <1>2, <1>3, <1>4, <1>6, <1>7, Assemble

LEMMA UnlinkSafe ==
  ASSUME OneShotInv, NEW p \in Procs, Unlink(p)
  PROVE  OneShotInv'
<1>1. UNCHANGED <<ledger, unsynced, openings>> /\ proc[p].pc = "unlink" /\ Proceed(p)
  BY DEF Unlink, Others, history, At
<1> QED BY <1>1, ProceedSafe DEF Publishing

LEMMA DiscardOrphanSafe ==
  ASSUME OneShotInv, NEW p \in Procs, DiscardOrphan(p)
  PROVE  OneShotInv'
<1>1. UNCHANGED <<ledger, openings>> /\ unsynced' \subseteq unsynced
  BY SyncedShrinks DEF DiscardOrphan, Others, history, DiscardArtifact, Directories
<1>2. ledger' \in Seq(EventTypes) /\ Durable \subseteq Durable'
  BY <1>1, Quietly
<1>3. \A q \in Procs \ {p} : At(q, "idle")
  BY Alone DEF DiscardOrphan, At
<1>4. End(p) \/ Goto(p, "close")
  BY DEF DiscardOrphan
<1> QED BY <1>1, <1>2, <1>3, <1>4, CalmStep DEF Calm

LEMMA CloseInternalSafe ==
  ASSUME OneShotInv, NEW p \in Procs, CloseInternal(p)
  PROVE  OneShotInv'
<1>1. UNCHANGED <<ledger, openings>> /\ unsynced' \subseteq unsynced
  BY SyncedShrinks DEF CloseInternal, Others, history, DiscardChunk, Directories
<1>2. ledger' \in Seq(EventTypes) /\ Durable \subseteq Durable'
  BY <1>1, Quietly
<1>3. \A q \in Procs \ {p} : At(q, "idle")
  BY Alone DEF CloseInternal, At
<1>4. CASE End(p)
  BY <1>1, <1>2, <1>3, <1>4, CalmStep DEF Calm
<1>5. CASE Work(p, "temp", "FAILED", "events")
  <2>1. proc \in [Procs -> Process]
    BY DEF OneShotInv
  <2>2. /\ proc' \in [Procs -> Process] /\ proc'[p].pc = "temp"
        /\ proc'[p].at = "FAILED" /\ proc'[p].dir = "events"
        /\ \A q \in Procs \ {p} : proc'[q] = proc[q]
    BY <1>5, <2>1, WorkHeld DEF Steps, Publishing, EventTypes, Directories
  <2>3. Sound(p)'
    BY <2>2 DEF Sound, Early, InTry, Publishing, Internal, PastIt
  <2> QED BY <1>1, <1>2, <1>3, <2>2, <2>3, Assemble
<1> QED BY <1>4, <1>5 DEF CloseInternal

LEMMA KillSafe ==
  ASSUME OneShotInv, NEW p \in Procs, Kill(p)
  PROVE  OneShotInv'
<1>1. UNCHANGED <<ledger, unsynced, openings>>
  BY DEF Kill, history, files
<1>2. ledger' \in Seq(EventTypes) /\ Durable \subseteq Durable'
  BY <1>1, Quietly
<1>3. \A q \in Procs \ {p} : At(q, "idle")
  BY Alone DEF Kill
<1> QED BY <1>1, <1>2, <1>3, CalmStep DEF Kill, Calm

LEMMA OsErrorSafe ==
  ASSUME OneShotInv, NEW p \in Procs, OsError(p)
  PROVE  OneShotInv'
<1>1. UNCHANGED <<ledger, unsynced, openings>>
  BY DEF OsError, history
<1>2. ledger' \in Seq(EventTypes) /\ Durable \subseteq Durable'
  BY <1>1, Quietly
<1>3. \A q \in Procs \ {p} : At(q, "idle")
  BY Alone DEF OsError
<1>4. End(p) \/ Goto(p, "fail")
  BY DEF OsError
<1> QED BY <1>1, <1>2, <1>3, <1>4, CalmStep DEF Calm

LEMMA IntegrityErrorSafe ==
  ASSUME OneShotInv, NEW p \in Procs, IntegrityError(p)
  PROVE  OneShotInv'
<1>1. UNCHANGED <<ledger, unsynced, openings>>
  BY DEF IntegrityError, files
<1>2. ledger' \in Seq(EventTypes) /\ Durable \subseteq Durable'
  BY <1>1, Quietly
<1>3. \A q \in Procs \ {p} : At(q, "idle")
  BY Alone DEF IntegrityError, At
<1> QED BY <1>1, <1>2, <1>3, CalmStep DEF IntegrityError, Calm

LEMMA PowerLossSafe ==
  ASSUME OneShotInv, PowerLoss
  PROVE  OneShotInv'
<1>1. ledger' \in Seq(EventTypes) /\ Durable \subseteq Durable'
  BY LoseKeeps DEF OneShotInv, PowerLoss
<1>2. UNCHANGED openings /\ proc' = [p \in Procs |-> Idle]
  BY DEF PowerLoss, history
<1>3. Idle \in Process /\ Idle.pc = "idle"
  BY DEF Idle, Process, Operations, Steps, EventTypes, Directories
<1>4. proc' \in [Procs -> Process] /\ \A p \in Procs : proc'[p].pc = "idle"
  BY <1>2, <1>3
<1>5. Exclusive' /\ \A p \in Procs : Sound(p)'
  BY <1>4, CalmSound DEF Exclusive, At, Calm
<1> QED BY <1>1, <1>2, <1>4, <1>5 DEF OneShotInv

(* Nothing the invariant names changes: the reader's steps, and none.      *)
LEMMA AsideSafe ==
  ASSUME OneShotInv, UNCHANGED <<ledger, unsynced, proc, openings>>
  PROVE  OneShotInv'
<1>1. Durable' = Durable /\ Recorded' = Recorded
  BY DEF Durable, Recorded
<1>2. Exclusive'
  BY DEF OneShotInv, Exclusive, At
<1>3. \A p \in Procs : Sound(p)'
  <2> TAKE p \in Procs
  <2>1. Sound(p)
    BY DEF OneShotInv
  <2> QED BY <1>1, <2>1 DEF Sound, InTry
<1> QED BY <1>1, <1>2, <1>3 DEF OneShotInv

LEMMA InitSafe ==
  ASSUME Init
  PROVE  OneShotInv
<1>1. ledger = <<>> /\ proc = [p \in Procs |-> Idle] /\ openings = 0
  BY DEF Init, FilesInit
<1>2. Idle \in Process /\ Idle.pc = "idle"
  BY DEF Idle, Process, Operations, Steps, EventTypes, Directories
<1>3. proc \in [Procs -> Process] /\ \A p \in Procs : proc[p].pc = "idle"
  BY <1>1, <1>2
<1>4. Exclusive /\ \A p \in Procs : Sound(p)
  BY <1>1, <1>3 DEF Exclusive, At, Sound, InTry, Publishing, Early
<1> QED BY <1>1, <1>3, <1>4 DEF OneShotInv

LEMMA NextSafe ==
  ASSUME OneShotInv, [Next]_vars
  PROVE  OneShotInv'
<1>1. ASSUME NEW p \in Procs, Step(p) PROVE OneShotInv'
  BY <1>1, PreflightSafe, RecoverOuterSafe, RecoverInternalSafe, PrecommitSafe, ResumeSafe,
     AdvanceSafe, ServeSafe, StageSafe, LinkSafe, SyncSafe, UnlinkSafe, DiscardOrphanSafe,
     CloseInternalSafe, Zenon DEF Step
<1>2. ASSUME NEW p \in Procs, \E op \in Operations : Invoke(p, op) PROVE OneShotInv'
  BY <1>2, InvokeSafe
<1>3. ASSUME NEW p \in Procs, Kill(p) \/ OsError(p) \/ IntegrityError(p) PROVE OneShotInv'
  BY <1>3, KillSafe, OsErrorSafe, IntegrityErrorSafe
<1>4. CASE AuditStart \/ AuditRead \/ AuditFinish \/ AuditRefused
  BY <1>4, AsideSafe DEF AuditStart, AuditRead, AuditFinish, AuditRefused, files, history
<1>5. CASE UNCHANGED vars
  BY <1>5, AsideSafe DEF vars, files, history
<1> QED BY <1>1, <1>2, <1>3, <1>4, <1>5, PowerLossSafe DEF Next

-----------------------------------------------------------------------------
(* Theorems. *)

(* The bookkeeping of the holdout over every crash, power loss and restart *)
(* of run_ai_all_cases: it is consistent in every reachable state.         *)
THEOREM OneShotCorrect == Spec => []OneShotInv
BY InitSafe, NextSafe, PTL DEF Spec

(* run_ai_all_cases evaluates the holdout at most once in the life of a    *)
(* run directory, and only behind an authorization no crash takes back.    *)
THEOREM HoldoutOpenedOnce == Spec => []HoldoutIsOneShot
<1>1. OneShotInv => HoldoutIsOneShot
  <2> SUFFICES ASSUME OneShotInv PROVE HoldoutIsOneShot
    OBVIOUS
  <2>1. openings <= 1 /\ (openings = 1 => "HOLDOUT_AUTHORIZED" \in Durable)
    BY DEF OneShotInv, Authorization
  <2>2. ASSUME NEW p \in Procs, proc[p].pc \in {"service"} \cup Publishing,
               proc[p].at \in {"HOLDOUT_MASKS_FROZEN", "HOLDOUT_RESULTS_RELEASED"}
        PROVE  "HOLDOUT_AUTHORIZED" \in Durable \ proc[p].known
    BY <2>2 DEF OneShotInv, Sound, Early, Publishing, InTry, PastIt, Authorization
  <2> QED BY <2>1, <2>2 DEF HoldoutIsOneShot
<1> QED BY <1>1, OneShotCorrect, PTL

-----------------------------------------------------------------------------
(* Commitments.  When the links of an ended invocation are on the disk by  *)
(* the next one, what an invocation finds is durable; so is every event it *)
(* writes before it leaves the publication; and a service is called on the *)
(* event after one of these.                                               *)

(* What the process found binds it.                                        *)
Bound(p) ==
  \/ proc[p].pc \in {"internal", "precommit", "resume", "stage", "service"}
  \/ proc[p].pc \in Publishing /\ proc[p].at # "FAILED"

Committed(p) ==
  /\ proc[p].pc \in {"preflight", "outer"} => Recorded \subseteq Durable
  /\ Bound(p) => proc[p].known \subseteq Durable
  /\ proc[p].pc = "stage" => proc[p].at \in Durable \cup {"PRECOMMITTED"}

CommitInv == OutcomesAreCommitted /\ \A p \in Procs : Committed(p)

(* A step of p that calls no service.                                      *)
LEMMA Recommit ==
  ASSUME CommitInv, NEW p \in Procs, \A q \in Procs \ {p} : At(q, "idle"),
         \A q \in Procs \ {p} : proc'[q] = proc[q],
         Durable \subseteq Durable', UNCHANGED consulted, Committed(p)'
  PROVE  CommitInv'
<1>1. \A q \in Procs \ {p} : Committed(q)'
  BY DEF Committed, Bound, At, Publishing
<1>2. OutcomesAreCommitted'
  BY DEF CommitInv, OutcomesAreCommitted, Commitment
<1> QED BY <1>1, <1>2 DEF CommitInv

LEMMA EndCommitted ==
  ASSUME OneShotInv, CommitInv, NEW p \in Procs, \A q \in Procs \ {p} : At(q, "idle"),
         End(p), Durable \subseteq Durable', UNCHANGED consulted
  PROVE  CommitInv'
<1>1. proc'[p].pc = "idle" /\ \A q \in Procs \ {p} : proc'[q] = proc[q]
  BY EndHeld DEF OneShotInv
<1>2. Committed(p)'
  BY <1>1 DEF Committed, Bound, Publishing
<1> QED BY <1>1, <1>2, Recommit

(* A process keeps what binds it, or gives up.                             *)
LEMMA HoldCommitted ==
  ASSUME OneShotInv, CommitInv, NEW p \in Procs, \A q \in Procs \ {p} : At(q, "idle"),
         NEW pc \in Steps \ {"preflight", "outer"}, NEW at \in EventTypes,
         NEW dir \in Directories, NEW seq \in Nat,
         Hold(p, proc[p].op, pc, at, dir, seq, proc[p].known),
         Durable \subseteq Durable', UNCHANGED consulted,
         \/ pc \in {"idle", "fail", "close"}
         \/ Bound(p)
         \/ pc \in Publishing /\ at = "FAILED",
         pc = "stage" => at \in Durable' \cup {"PRECOMMITTED"}
  PROVE  CommitInv'
<1>1. proc \in [Procs -> Process] /\ proc[p] \in Process
  BY DEF OneShotInv
<1>2. /\ proc'[p].pc = pc /\ proc'[p].at = at /\ proc'[p].known = proc[p].known
      /\ \A q \in Procs \ {p} : proc'[q] = proc[q]
  BY <1>1, Held DEF Process
<1>3. Bound(p) => proc[p].known \subseteq Durable
  BY DEF CommitInv, Committed
<1>4. Committed(p)'
  BY <1>2, <1>3 DEF Committed, Bound, Publishing
<1> QED BY <1>2, <1>4, Recommit

LEMMA GotoCommitted ==
  ASSUME OneShotInv, CommitInv, NEW p \in Procs, \A q \in Procs \ {p} : At(q, "idle"),
         NEW pc \in Steps \ {"preflight", "outer"}, Goto(p, pc),
         Durable \subseteq Durable', UNCHANGED consulted,
         pc \in {"idle", "fail", "close"} \/ Bound(p),
         pc = "stage" => proc[p].at \in Durable' \cup {"PRECOMMITTED"}
  PROVE  CommitInv'
<1>1. proc[p] \in Process
  BY DEF OneShotInv
<1> QED BY <1>1, HoldCommitted DEF Goto, Process

LEMMA WorkCommitted ==
  ASSUME OneShotInv, CommitInv, NEW p \in Procs, \A q \in Procs \ {p} : At(q, "idle"),
         NEW pc \in Steps \ {"preflight", "outer"}, NEW at \in EventTypes,
         NEW dir \in Directories, Work(p, pc, at, dir),
         Durable \subseteq Durable', UNCHANGED consulted,
         \/ pc \in {"idle", "fail", "close"}
         \/ Bound(p)
         \/ pc \in Publishing /\ at = "FAILED",
         pc = "stage" => at \in Durable' \cup {"PRECOMMITTED"}
  PROVE  CommitInv'
<1>1. proc[p] \in Process
  BY DEF OneShotInv
<1> QED BY <1>1, HoldCommitted DEF Work, Process

LEMMA RefuseCommitted ==
  ASSUME OneShotInv, CommitInv, NEW p \in Procs, \A q \in Procs \ {p} : At(q, "idle"),
         Refuse(p), Durable \subseteq Durable', UNCHANGED consulted
  PROVE  CommitInv'
BY EndCommitted, GotoCommitted DEF Refuse, Steps

(* The invocation starts on a disk with every link of the last one.        *)
LEMMA InvokeCommitted ==
  ASSUME OneShotInv, CommitInv, ~LateWriteback, NEW p \in Procs, NEW op \in Operations,
         Invoke(p, op)
  PROVE  CommitInv'
<1>1. unsynced' = {} /\ UNCHANGED <<ledger, consulted>>
  BY DEF Invoke, Others, history
<1>2. Durable \subseteq Durable' /\ Recorded' = Durable'
  BY <1>1 DEF Durable, Recorded
<1>3. proc \in [Procs -> Process]
  BY DEF OneShotInv
<1>4. proc'[p].pc = "preflight" /\ \A q \in Procs \ {p} : proc'[q] = proc[q]
  BY <1>3, Held DEF Invoke, Operations, Steps, EventTypes, Directories
<1>5. Committed(p)'
  BY <1>2, <1>4 DEF Committed, Bound, Publishing
<1> QED BY <1>1, <1>2, <1>4, <1>5, Recommit DEF Invoke

LEMMA PreflightCommitted ==
  ASSUME OneShotInv, CommitInv, NEW p \in Procs, Preflight(p)
  PROVE  CommitInv'
<1>1. UNCHANGED <<ledger, unsynced, consulted>>
  BY DEF Preflight, Others, history
<1>2. Durable' = Durable /\ Recorded' = Recorded
  BY <1>1 DEF Durable, Recorded
<1>3. \A q \in Procs \ {p} : At(q, "idle")
  BY Alone DEF Preflight, At
<1>4. CASE End(p)
  BY <1>1, <1>2, <1>3, <1>4, EndCommitted
<1>5. CASE Goto(p, "outer")
  <2>1. proc'[p].pc = "outer" /\ \A q \in Procs \ {p} : proc'[q] = proc[q]
    BY <1>5, GotoHeld DEF OneShotInv, Steps
  <2>2. Recorded \subseteq Durable
    BY DEF CommitInv, Committed, Preflight, At
  <2>3. Committed(p)'
    BY <1>2, <2>1, <2>2 DEF Committed, Bound, Publishing
  <2> QED BY <1>1, <1>2, <1>3, <2>1, <2>3, Recommit
<1> QED BY <1>4, <1>5 DEF Preflight

LEMMA RecoverOuterCommitted ==
  ASSUME OneShotInv, CommitInv, NEW p \in Procs, RecoverOuter(p)
  PROVE  CommitInv'
<1>1. UNCHANGED <<ledger, unsynced, consulted>>
  BY DEF RecoverOuter, Others, history
<1>2. Durable' = Durable /\ Recorded' = Recorded
  BY <1>1 DEF Durable, Recorded
<1>3. \A q \in Procs \ {p} : At(q, "idle")
  BY Alone DEF RecoverOuter, At
<1>4. CASE End(p)
  BY <1>1, <1>2, <1>3, <1>4, EndCommitted
<1>5. CASE Hold(p, proc[p].op, "internal", proc[p].at, proc[p].dir, 0, Recorded)
  <2>1. proc \in [Procs -> Process] /\ proc[p] \in Process /\ Recorded \subseteq EventTypes
    BY DEF OneShotInv, Recorded
  <2>2. /\ proc'[p].pc = "internal" /\ proc'[p].known = Recorded
        /\ \A q \in Procs \ {p} : proc'[q] = proc[q]
    BY <1>5, <2>1, Held DEF Process, Steps
  <2>3. Recorded \subseteq Durable
    BY DEF CommitInv, Committed, RecoverOuter, At
  <2>4. Committed(p)'
    BY <1>2, <2>2, <2>3 DEF Committed, Bound, Publishing
  <2> QED BY <1>1, <1>2, <1>3, <2>2, <2>4, Recommit
<1> QED BY <1>4, <1>5 DEF RecoverOuter

(* The events whose services need a commitment follow it in the lifecycle. *)
LEMMA CommitmentPrecedes ==
  ASSUME NEW e \in EventTypes, Successor(e) \in DOMAIN Commitment
  PROVE  Commitment[Successor(e)] = e /\ e # "PRECOMMITTED"
<1> DEFINE next == Successor(e)
<1>1. /\ next = "SEARCH_RESULTS_RELEASED" => e = "SEARCH_UNIVERSE_FROZEN"
      /\ next = "WALK_FORWARD_RESULTS_RELEASED" => e = "WALK_FORWARD_MASKS_FROZEN"
      /\ next = "HOLDOUT_MASKS_FROZEN" => e = "HOLDOUT_AUTHORIZED"
      /\ next = "HOLDOUT_RESULTS_RELEASED" => e = "HOLDOUT_MASKS_FROZEN"
  BY Zenon DEF Successor, EventTypes
<1> HIDE DEF next
<1> QED BY <1>1 DEF Commitment, next

LEMMA AdvanceCommitted ==
  ASSUME OneShotInv, CommitInv, NEW p \in Procs, Advance(p)
  PROVE  CommitInv'
<1> DEFINE e == Successor(proc[p].at)
<1>1. UNCHANGED <<ledger, unsynced>>
  BY DEF Advance, files
<1>2. Durable' = Durable
  BY <1>1 DEF Durable
<1>3. \A q \in Procs \ {p} : At(q, "idle")
  BY Alone DEF Advance, At
<1>4. /\ proc \in [Procs -> Process] /\ proc[p] \in Process /\ proc[p].pc = "stage"
      /\ proc[p].known \subseteq Durable /\ proc[p].at \in Durable \cup {"PRECOMMITTED"}
  BY DEF OneShotInv, CommitInv, Committed, Bound, Advance, At
<1>5. e \in EventTypes
  BY <1>4, Followers DEF Process
<1>6. e \in DOMAIN Commitment => Commitment[e] \in Durable
  BY <1>4, CommitmentPrecedes DEF Process
<1>7. PICK step \in {"stage", "service", "fail", "temp"} :
        /\ Work(p, step, e, "artifacts")
        /\ step = "stage" => e \in proc[p].known
  BY Zenon DEF Advance
<1>8. consulted' \subseteq consulted \cup {e}
  BY Zenon DEF Advance, Call, history
<1> HIDE DEF e
<1>9. /\ proc'[p].pc = step /\ proc'[p].at = e /\ proc'[p].known = proc[p].known
      /\ \A q \in Procs \ {p} : proc'[q] = proc[q]
  BY <1>4, <1>5, <1>7, WorkHeld DEF Steps, Publishing, Directories
<1>10. Committed(p)'
  BY <1>2, <1>4, <1>7, <1>9 DEF Committed, Bound, Publishing
<1>11. \A q \in Procs \ {p} : Committed(q)'
  BY <1>3, <1>9 DEF Committed, Bound, At, Publishing
<1>12. OutcomesAreCommitted'
  BY <1>2, <1>6, <1>8 DEF CommitInv, OutcomesAreCommitted, Commitment
<1> QED BY <1>10, <1>11, <1>12 DEF CommitInv

LEMMA RecoverInternalCommitted ==
  ASSUME OneShotInv, CommitInv, NEW p \in Procs, RecoverInternal(p)
  PROVE  CommitInv'
<1>1. UNCHANGED <<ledger, consulted>> /\ unsynced' \subseteq unsynced
  BY SyncedShrinks DEF RecoverInternal, Others, history, DiscardChunk, Directories
<1>2. Durable \subseteq Durable'
  BY <1>1, Quietly
<1>3. \A q \in Procs \ {p} : At(q, "idle")
  BY Alone DEF RecoverInternal, At
<1>4. Bound(p) /\ (End(p) \/ Goto(p, "precommit"))
  BY DEF RecoverInternal, At, Bound
<1> QED BY <1>1, <1>2, <1>3, <1>4, EndCommitted, GotoCommitted DEF Steps

LEMMA PrecommitCommitted ==
  ASSUME OneShotInv, CommitInv, NEW p \in Procs, Precommit(p)
  PROVE  CommitInv'
<1>1. UNCHANGED <<ledger, unsynced, consulted>>
  BY DEF Precommit, Others, history, files
<1>2. Durable \subseteq Durable'
  BY <1>1, Quietly
<1>3. \A q \in Procs \ {p} : At(q, "idle")
  BY Alone DEF Precommit, At
<1>4. Bound(p)
  BY DEF Precommit, At, Bound
<1>5. CASE End(p)
  BY <1>1, <1>2, <1>3, <1>5, EndCommitted
<1>6. CASE Goto(p, "resume")
  BY <1>1, <1>2, <1>3, <1>4, <1>6, GotoCommitted DEF Steps
<1>7. CASE Work(p, "temp", "PRECOMMITTED", "artifacts")
  BY <1>1, <1>2, <1>3, <1>4, <1>7, WorkCommitted DEF Steps, Publishing, EventTypes, Directories
<1> QED BY <1>5, <1>6, <1>7 DEF Precommit

LEMMA ResumeCommitted ==
  ASSUME OneShotInv, CommitInv, NEW p \in Procs, Resume(p)
  PROVE  CommitInv'
<1>1. UNCHANGED <<ledger, consulted>> /\ unsynced' \subseteq unsynced
  BY SyncedShrinks DEF Resume, Others, history, DiscardArtifact, Directories
<1>2. Durable \subseteq Durable'
  BY <1>1, Quietly
<1>3. \A q \in Procs \ {p} : At(q, "idle")
  BY Alone DEF Resume, At
<1>4. Bound(p)
  BY DEF Resume, At, Bound
<1>5. CASE End(p)
  BY <1>1, <1>2, <1>3, <1>5, EndCommitted
<1>6. CASE Goto(p, "fail")
  BY <1>1, <1>2, <1>3, <1>6, GotoCommitted DEF Steps
<1>7. CASE Work(p, "stage", "PRECOMMITTED", "artifacts")
  BY <1>1, <1>2, <1>3, <1>4, <1>7, WorkCommitted DEF Steps, EventTypes, Directories
<1> QED BY <1>5, <1>6, <1>7 DEF Resume

LEMMA ServeCommitted ==
  ASSUME OneShotInv, CommitInv, NEW p \in Procs, Serve(p)
  PROVE  CommitInv'
<1>1. UNCHANGED <<ledger, unsynced, consulted>>
  BY DEF Serve, Others, history, files
<1>2. Durable \subseteq Durable'
  BY <1>1, Quietly
<1>3. \A q \in Procs \ {p} : At(q, "idle")
  BY Alone DEF Serve, At
<1>4. Bound(p) /\ proc[p].at \in EventTypes
  BY DEF OneShotInv, Process, Serve, At, Bound
<1>5. PICK dir \in Internal \cup {"artifacts"} : Work(p, "temp", proc[p].at, dir)
  BY DEF Serve, Internal
<1> QED BY <1>1, <1>2, <1>3, <1>4, <1>5, WorkCommitted
        DEF Steps, Publishing, Directories, Internal

(* A stage is reached from a publication only with its event on the disk.  *)
LEMMA ProceedCommitted ==
  ASSUME OneShotInv, CommitInv, NEW p \in Procs, proc[p].pc \in Publishing, Proceed(p),
         proc[p].dir = "events" => proc[p].pc = "unlink",
         UNCHANGED <<ledger, unsynced, consulted>>
  PROVE  CommitInv'
<1>1. Durable \subseteq Durable'
  BY Quietly
<1>2. \A q \in Procs \ {p} : At(q, "idle")
  BY Alone DEF At, Publishing
<1>3. proc[p] \in Process /\ Sound(p)
  BY DEF OneShotInv
<1>4. proc[p].at # "FAILED" => Bound(p)
  BY DEF Bound
<1>5. CASE proc[p].dir = "artifacts"
  <2>1. Work(p, "temp", proc[p].at, "events")
    BY <1>5 DEF Proceed
  <2> QED BY <1>1, <1>2, <1>3, <1>4, <2>1, WorkCommitted
          DEF Steps, Publishing, Directories, Process
<1>6. CASE proc[p].dir \in Internal
  <2>1. Goto(p, "service") /\ proc[p].at \in Served
    BY <1>3, <1>6 DEF Proceed, Internal, Sound
  <2> QED BY <1>1, <1>2, <1>4, <2>1, GotoCommitted DEF Steps, Served
<1>7. CASE Goto(p, "resume") /\ proc[p].at = "PRECOMMITTED"
  BY <1>1, <1>2, <1>4, <1>7, GotoCommitted DEF Steps
<1>8. CASE End(p)
  BY <1>1, <1>2, <1>8, EndCommitted
<1>9. CASE proc[p].dir = "events" /\ Goto(p, "stage") /\ proc[p].at \notin Terminals
  <2>1. proc[p].at \in Durable /\ proc[p].at # "FAILED"
    BY <1>3, <1>9 DEF Sound, Terminals
  <2> QED BY <1>1, <1>2, <1>4, <1>9, <2>1, GotoCommitted DEF Steps
<1> QED BY <1>3, <1>5, <1>6, <1>7, <1>8, <1>9 DEF Proceed, Internal, Process, Directories

LEMMA StageCommitted ==
  ASSUME OneShotInv, CommitInv, NEW p \in Procs, Stage(p)
  PROVE  CommitInv'
<1>1. UNCHANGED <<ledger, unsynced, consulted>>
  BY DEF Stage, Others, history
<1>2. Durable \subseteq Durable'
  BY <1>1, Quietly
<1>3. \A q \in Procs \ {p} : At(q, "idle")
  BY Alone DEF Stage, At
<1>4. /\ proc[p] \in Process /\ proc[p].pc = "temp" /\ Len(ledger) + 1 \in Nat
      /\ Bound(p) \/ proc[p].at = "FAILED"
  BY DEF OneShotInv, Stage, At, Bound, Publishing
<1>5. CASE Refuse(p)
  BY <1>1, <1>2, <1>3, <1>5, RefuseCommitted
<1>6. CASE proc[p].dir = "artifacts" /\ Proceed(p)
  BY <1>1, <1>4, <1>6, ProceedCommitted DEF Publishing
<1>7. CASE Hold(p, proc[p].op, "link", proc[p].at, proc[p].dir, Len(ledger) + 1, proc[p].known)
  BY <1>1, <1>2, <1>3, <1>4, <1>7, HoldCommitted DEF Process, Steps, Publishing
<1> QED BY <1>5, <1>6, <1>7 DEF Stage

LEMMA LinkCommitted ==
  ASSUME OneShotInv, CommitInv, NEW p \in Procs, Link(p)
  PROVE  CommitInv'
<1>1. UNCHANGED consulted
  BY DEF Link, Others, history
<1>2. \A q \in Procs \ {p} : At(q, "idle")
  BY Alone DEF Link, At
<1>3. /\ proc[p] \in Process /\ ledger \in Seq(EventTypes)
      /\ Bound(p) \/ proc[p].at = "FAILED"
  BY DEF OneShotInv, Link, At, Bound, Publishing
<1>4. CASE Refuse(p) /\ UNCHANGED <<ledger, unsynced>>
  BY <1>1, <1>2, <1>4, Quietly, RefuseCommitted
<1>5. CASE LinkEntry(proc[p].dir, proc[p].at) /\ Goto(p, "sync")
  <2>1. Durable \subseteq Durable'
    BY <1>3, <1>5, LinkKeeps DEF Process
  <2>2. Work(p, "sync", proc[p].at, proc[p].dir)
    BY <1>5 DEF Goto, Work
  <2> QED BY <1>1, <1>2, <1>3, <2>1, <2>2, WorkCommitted DEF Steps, Publishing, Process
<1> QED BY <1>4, <1>5 DEF Link

LEMMA SyncCommitted ==
  ASSUME OneShotInv, CommitInv, NEW p \in Procs, Sync(p)
  PROVE  CommitInv'
<1>1. /\ proc[p] \in Process /\ Work(p, "unlink", proc[p].at, proc[p].dir)
      /\ Bound(p) \/ proc[p].at = "FAILED"
  BY DEF OneShotInv, Sync, At, Goto, Work, Bound, Publishing
<1>2. UNCHANGED <<ledger, consulted>> /\ unsynced' \subseteq unsynced
  BY <1>1, SyncedShrinks DEF Sync, Others, history, Process
<1>3. Durable \subseteq Durable'
  BY <1>2, Quietly
<1>4. \A q \in Procs \ {p} : At(q, "idle")
  BY Alone DEF Sync, At
<1> QED BY <1>1, <1>2, <1>3, <1>4, WorkCommitted DEF Steps, Publishing, Process

LEMMA UnlinkCommitted ==
  ASSUME OneShotInv, CommitInv, NEW p \in Procs, Unlink(p)
  PROVE  CommitInv'
<1>1. UNCHANGED <<ledger, unsynced, consulted>> /\ proc[p].pc = "unlink" /\ Proceed(p)
  BY DEF Unlink, Others, history, At
<1> QED BY <1>1, ProceedCommitted DEF Publishing

LEMMA DiscardOrphanCommitted ==
  ASSUME OneShotInv, CommitInv, NEW p \in Procs, DiscardOrphan(p)
  PROVE  CommitInv'
<1>1. UNCHANGED <<ledger, consulted>> /\ unsynced' \subseteq unsynced
  BY SyncedShrinks DEF DiscardOrphan, Others, history, DiscardArtifact, Directories
<1>2. Durable \subseteq Durable'
  BY <1>1, Quietly
<1>3. \A q \in Procs \ {p} : At(q, "idle")
  BY Alone DEF DiscardOrphan, At
<1>4. End(p) \/ Goto(p, "close")
  BY DEF DiscardOrphan
<1> QED BY <1>1, <1>2, <1>3, <1>4, EndCommitted, GotoCommitted DEF Steps

LEMMA CloseInternalCommitted ==
  ASSUME OneShotInv, CommitInv, NEW p \in Procs, CloseInternal(p)
  PROVE  CommitInv'
<1>1. UNCHANGED <<ledger, consulted>> /\ unsynced' \subseteq unsynced
  BY SyncedShrinks DEF CloseInternal, Others, history, DiscardChunk, Directories
<1>2. Durable \subseteq Durable'
  BY <1>1, Quietly
<1>3. \A q \in Procs \ {p} : At(q, "idle")
  BY Alone DEF CloseInternal, At
<1>4. End(p) \/ Work(p, "temp", "FAILED", "events")
  BY DEF CloseInternal
<1> QED BY <1>1, <1>2, <1>3, <1>4, EndCommitted, WorkCommitted
        DEF Steps, Publishing, EventTypes, Directories

LEMMA FaultCommitted ==
  ASSUME OneShotInv, CommitInv, NEW p \in Procs, Kill(p) \/ OsError(p) \/ IntegrityError(p)
  PROVE  CommitInv'
<1>1. UNCHANGED <<ledger, unsynced, consulted>>
  BY DEF Kill, OsError, IntegrityError, history, files
<1>2. Durable \subseteq Durable'
  BY <1>1, Quietly
<1>3. \A q \in Procs \ {p} : At(q, "idle")
  BY Alone DEF Kill, OsError, IntegrityError, At
<1>4. End(p) \/ Goto(p, "fail")
  BY DEF Kill, OsError, IntegrityError
<1> QED BY <1>1, <1>2, <1>3, <1>4, EndCommitted, GotoCommitted DEF Steps

LEMMA PowerLossCommitted ==
  ASSUME OneShotInv, CommitInv, PowerLoss
  PROVE  CommitInv'
<1>1. Durable \subseteq Durable' /\ UNCHANGED consulted
  BY LoseKeeps DEF OneShotInv, PowerLoss, history
<1>2. \A p \in Procs : proc'[p].pc = "idle"
  BY DEF PowerLoss, Idle
<1>3. \A p \in Procs : Committed(p)'
  BY <1>2 DEF Committed, Bound, Publishing
<1> QED BY <1>1, <1>3 DEF CommitInv, OutcomesAreCommitted, Commitment

LEMMA AsideCommitted ==
  ASSUME CommitInv, UNCHANGED <<ledger, unsynced, proc, consulted>>
  PROVE  CommitInv'
<1>1. Durable' = Durable /\ Recorded' = Recorded
  BY DEF Durable, Recorded
<1>2. \A p \in Procs : Committed(p)'
  BY <1>1 DEF CommitInv, Committed, Bound
<1> QED BY <1>1, <1>2 DEF CommitInv, OutcomesAreCommitted

LEMMA InitCommitted ==
  ASSUME Init
  PROVE  CommitInv
<1>1. consulted = {} /\ \A p \in Procs : proc[p].pc = "idle"
  BY DEF Init, Idle
<1> QED BY <1>1 DEF CommitInv, OutcomesAreCommitted, Committed, Bound, Publishing

LEMMA NextCommitted ==
  ASSUME OneShotInv, CommitInv, ~LateWriteback, [Next]_vars
  PROVE  CommitInv'
<1>1. ASSUME NEW p \in Procs, Step(p) PROVE CommitInv'
  BY <1>1, PreflightCommitted, RecoverOuterCommitted, RecoverInternalCommitted,
     PrecommitCommitted, ResumeCommitted, AdvanceCommitted, ServeCommitted, StageCommitted,
     LinkCommitted, SyncCommitted, UnlinkCommitted, DiscardOrphanCommitted,
     CloseInternalCommitted, Zenon DEF Step
<1>2. ASSUME NEW p \in Procs, \E op \in Operations : Invoke(p, op) PROVE CommitInv'
  BY <1>2, InvokeCommitted
<1>3. ASSUME NEW p \in Procs, Kill(p) \/ OsError(p) \/ IntegrityError(p) PROVE CommitInv'
  BY <1>3, FaultCommitted
<1>4. CASE AuditStart \/ AuditRead \/ AuditFinish \/ AuditRefused
  BY <1>4, AsideCommitted DEF AuditStart, AuditRead, AuditFinish, AuditRefused, files, history
<1>5. CASE UNCHANGED vars
  BY <1>5, AsideCommitted DEF vars, files, history
<1> QED BY <1>1, <1>2, <1>3, <1>4, <1>5, PowerLossCommitted DEF Next

(* No outcome service of run_ai_all_cases is called before the event that  *)
(* freezes what it will be asked is on the disk to stay, if the links of   *)
(* an ended invocation reach it before the next one.                       *)
THEOREM CommittedFirst ==
  ASSUME ~LateWriteback
  PROVE  Spec => []OutcomesAreCommitted
<1>1. Init => OneShotInv /\ CommitInv
  BY InitSafe, InitCommitted
<1>2. OneShotInv /\ CommitInv /\ [Next]_vars => (OneShotInv /\ CommitInv)'
  BY NextSafe, NextCommitted
<1>3. OneShotInv /\ CommitInv => OutcomesAreCommitted
  BY DEF CommitInv
<1> QED BY <1>1, <1>2, <1>3, PTL DEF Spec

-----------------------------------------------------------------------------
(* The second part.                                                        *)

-----------------------------------------------------------------------------
(* The files. *)

Last == ledger[Len(ledger)]
(* The event the lifecycle calls for.                                      *)
Due == IF ledger = <<>> THEN "PRECOMMITTED" ELSE Successor(Last)

Frozen == "SEARCH_UNIVERSE_FROZEN"
Released == "SEARCH_RESULTS_RELEASED"

(* The lifecycle never returns to an earlier rank.                         *)
Rank(e) ==
  CASE e = "PRECOMMITTED" -> 1
    [] e = "SEARCH_UNIVERSE_FROZEN" -> 2
    [] e = "SEARCH_RESULTS_RELEASED" -> 3
    [] e \in {"WALK_FORWARD_SKIPPED", "WALK_FORWARD_MASKS_FROZEN"} -> 4
    [] e = "WALK_FORWARD_RESULTS_RELEASED" -> 5
    [] e = "HOLDOUT_AUTHORIZED" -> 6
    [] e = "HOLDOUT_MASKS_FROZEN" -> 7
    [] e \in {"HOLDOUT_SKIPPED", "HOLDOUT_RESULTS_RELEASED"} -> 8
    [] e = "COMPLETED" -> 9
    [] OTHER -> 10

Chain ==
  /\ science \in Branches
  /\ ledger \in Seq(EventTypes)
  /\ ledger # <<>> => ledger[1] = "PRECOMMITTED"
  /\ \A i, j \in DOMAIN ledger : i < j => Rank(ledger[i]) < Rank(ledger[j])
  /\ \A i \in DOMAIN ledger : i # 1 =>
       /\ ledger[i - 1] \notin Terminals
       /\ ledger[i] \in {Successor(ledger[i - 1]), "FAILED"}
  /\ \A j \in DOMAIN ledger : ledger[j] # "FAILED" =>
       /\ Rank(ledger[j]) > 2 => Frozen \in Recorded
       /\ Rank(ledger[j]) > 3 => Released \in Recorded

Stores ==
  /\ universe \in 0..Chunks /\ chunks \in 0..Chunks /\ marks \in 0..Chunks
  /\ StoreSound /\ ReleasesClosed
  /\ ledger = <<>> => universe = 0
  /\ Frozen \notin Recorded => chunks = 0 /\ marks = 0

OneOrphan ==
  /\ artifacts \subseteq EventTypes
  /\ Referenced \subseteq artifacts
  /\ Orphans \subseteq {Due}
  /\ Orphans # {} => ~Ended

(* What a power loss may take.                                             *)
UnsyncedType ==
  \A u \in unsynced : \/ u \in {"artifacts"} \X EventTypes
                      \/ u \in (Directories \ {"artifacts"}) \X Nat
Lossy ==
  /\ UnsyncedType
  /\ \A x : <<"artifacts", x>> \in unsynced => x \in Orphans
  /\ \A x : <<"events", x>> \in unsynced =>
       /\ x \in DOMAIN ledger
       /\ x = Len(ledger) \/ (x = Len(ledger) - 1 /\ Last = "FAILED")
       /\ Orphans = {}
       /\ ledger[x] = "PRECOMMITTED" => universe = 0
       /\ ledger[x] \in {"PRECOMMITTED", Frozen} => chunks = 0 /\ marks = 0
  /\ \A x : <<"universe", x>> \in unsynced => x = universe /\ Frozen \notin Recorded
  /\ \A x : <<"chunks", x>> \in unsynced => x = chunks /\ chunks = marks + 1
  /\ \A x : <<"marks", x>> \in unsynced =>
       x = marks /\ chunks = marks /\ ~Ended /\ Released \notin Recorded

(* The entry that a link in a directory has made.                          *)
Entry(dir, e) == CASE dir = "artifacts" -> e
                   [] dir = "events" -> Len(ledger)
                   [] dir = "universe" -> universe
                   [] dir = "chunks" -> chunks
                   [] dir = "marks" -> marks

Closed ==
  Ended => /\ chunks = marks
           /\ "COMPLETED" \in Recorded => universe = Chunks /\ marks = Chunks

Evidence == Chain /\ Stores /\ OneOrphan /\ Lossy /\ Closed /\ FailuresAreEarned

(* The temporaries.                                                        *)
TempsOK ==
  /\ temps \in [Stagings -> Seq(Directories \cup {"unlinked"})]
  /\ TempsBounded
  /\ ledger = <<>> => ~Staged("universe")
  /\ Frozen \notin Recorded => ~Staged("search")
  /\ (\E x : <<"events", x>> \in unsynced) => ~Staged("universe") /\ ~Staged("search")
  /\ Ended => /\ \A s \in Stagings \ {"events"} : ~Staged(s)
              /\ \A i \in DOMAIN temps["events"] : temps["events"][i] = "events"

FilesInv == Evidence /\ TempsOK

-----------------------------------------------------------------------------
(* The lifecycle. *)

LEMMA RankType == \A e : Rank(e) \in 1..10
BY DEF Rank

LEMMA RankTop == ASSUME NEW e \in EventTypes, e # "FAILED" PROVE Rank(e) < Rank("FAILED")
BY DEF Rank, EventTypes

LEMMA SuccessorStep ==
  ASSUME science \in Branches, NEW e \in EventTypes \ Terminals
  PROVE  /\ Successor(e) \in EventTypes \ {"FAILED", "PRECOMMITTED"}
         /\ e \in Predecessors(Successor(e))
         /\ Rank(e) < Rank(Successor(e))
         /\ Rank(Successor(e)) > 2 => e = Frozen \/ Rank(e) > 2
         /\ Rank(Successor(e)) > 3 => e = Released \/ Rank(e) > 3
         /\ Successor(e) = Frozen => e = "PRECOMMITTED"
         /\ Successor(e) = Released => e = Frozen
         /\ Successor(e) = "COMPLETED" => Rank(e) > 3
<1> DEFINE next == Successor(e)
<1>1. \/ e = "PRECOMMITTED" /\ next = Frozen
      \/ e = Frozen /\ next = Released
      \/ e = Released /\ next \in {"WALK_FORWARD_SKIPPED", "WALK_FORWARD_MASKS_FROZEN"}
      \/ e = "WALK_FORWARD_SKIPPED" /\ next = "HOLDOUT_SKIPPED"
      \/ e = "WALK_FORWARD_MASKS_FROZEN" /\ next = "WALK_FORWARD_RESULTS_RELEASED"
      \/ e = "WALK_FORWARD_RESULTS_RELEASED" /\ next \in {"HOLDOUT_SKIPPED", Authorization}
      \/ e = Authorization /\ next = "HOLDOUT_MASKS_FROZEN"
      \/ e = "HOLDOUT_MASKS_FROZEN" /\ next = "HOLDOUT_RESULTS_RELEASED"
      \/ e \in {"HOLDOUT_SKIPPED", "HOLDOUT_RESULTS_RELEASED"} /\ next = "COMPLETED"
  BY DEF Successor, EventTypes, Terminals, Frozen, Released, Authorization
<1> HIDE DEF next
<1>2. next \in EventTypes \ {"FAILED", "PRECOMMITTED"}
  BY <1>1 DEF EventTypes, Frozen, Released, Authorization
<1>3. e \in Predecessors(next)
  BY <1>1 DEF Predecessors, Frozen, Released, Authorization
<1>4. /\ Rank(e) < Rank(next)
      /\ Rank(next) > 2 => e = Frozen \/ Rank(e) > 2
      /\ Rank(next) > 3 => e = Released \/ Rank(e) > 3
  BY <1>1 DEF Rank, Frozen, Released, Authorization
<1>5. /\ next = Frozen => e = "PRECOMMITTED"
      /\ next = Released => e = Frozen
      /\ next = "COMPLETED" => Rank(e) > 3
  BY <1>1 DEF Rank, Frozen, Released, Authorization
<1> QED BY <1>2, <1>3, <1>4, <1>5 DEF next

LEMMA RankOf ==
  ASSUME NEW e \in EventTypes
  PROVE  /\ Rank(e) > 1 <=> e # "PRECOMMITTED"
         /\ Rank(e) = 2 <=> e = Frozen
         /\ Rank(e) = 3 <=> e = Released
         /\ Rank("PRECOMMITTED") = 1 /\ Rank(Authorization) = 6
         /\ Rank("COMPLETED") = 9 /\ Rank("FAILED") = 10
BY DEF Rank, EventTypes, Frozen, Released, Authorization

(* Every event recorded precedes the last, and only the last ends a run.   *)
LEMMA LastIsLatest ==
  ASSUME Chain, NEW e \in Recorded
  PROVE  /\ ledger # <<>> /\ e \in EventTypes
         /\ Last \in EventTypes /\ Last \in Recorded /\ Rank(e) <= Rank(Last)
         /\ e # Last => e \notin Terminals
<1>1. PICK i \in DOMAIN ledger : e = ledger[i]
  BY DEF Recorded
<1>2. ledger \in Seq(EventTypes) /\ ledger # <<>> /\ Len(ledger) \in DOMAIN ledger
  BY <1>1 DEF Chain
<1>3. Last \in EventTypes /\ Last \in Recorded /\ e \in EventTypes
  BY <1>1, <1>2 DEF Last, Recorded
<1>4. CASE i = Len(ledger)
  BY <1>1, <1>2, <1>3, <1>4, RankType DEF Last
<1>5. CASE i # Len(ledger)
  <2>1. i < Len(ledger) /\ i + 1 \in DOMAIN ledger /\ i + 1 # 1
    BY <1>1, <1>2, <1>5
  <2>2. ledger[(i + 1) - 1] \notin Terminals /\ (i + 1) - 1 = i
    BY <1>2, <2>1 DEF Chain
  <2>3. Rank(ledger[i]) < Rank(Last)
    BY <1>2, <2>1 DEF Chain, Last
  <2> QED BY <1>1, <1>2, <1>3, <2>2, <2>3, RankType
<1> QED BY <1>4, <1>5

LEMMA EndedBy ==
  ASSUME Chain
  PROVE  /\ Ended <=> "FAILED" \in Recorded \/ "COMPLETED" \in Recorded
         /\ ~("FAILED" \in Recorded /\ "COMPLETED" \in Recorded)
<1>1. ledger # <<>> => Last \in Recorded
  BY DEF Chain, Last, Recorded
<1>2. Ended <=> ledger # <<>> /\ Last \in Terminals
  BY DEF Ended, Last
<1> QED BY <1>1, <1>2, LastIsLatest DEF Terminals

(* The event that is due can be appended, and is nowhere yet.              *)
LEMMA DueFacts ==
  ASSUME Chain, ~Ended
  PROVE  /\ Due \in EventTypes \ {"FAILED"} /\ Due \notin Recorded
         /\ LegalNext(Due)
         /\ Due = "PRECOMMITTED" <=> ledger = <<>>
         /\ Due = Released => Frozen \in Recorded /\ Released \notin Recorded
         /\ Due = Frozen => Frozen \notin Recorded
         /\ Due = "COMPLETED" => Frozen \in Recorded /\ Released \in Recorded
         /\ Due \notin Referenced
<1>1. CASE ledger = <<>>
  <2>1. Recorded = {} /\ Due = "PRECOMMITTED"
    BY <1>1 DEF Recorded, Due
  <2> QED BY <1>1, <2>1 DEF LegalNext, EventTypes, Referenced, Frozen, Released
<1>2. CASE ledger # <<>>
  <2>1. Due = Successor(Last) /\ LegalNext(Due) = (Last \in Predecessors(Due))
    BY <1>2 DEF Due, LegalNext, Last
  <2>2. Last \in EventTypes \ Terminals /\ Last \in Recorded
    BY <1>2, LastIsLatest DEF Chain, Ended, Last, Recorded
  <2>3. /\ Due \in EventTypes \ {"FAILED", "PRECOMMITTED"}
        /\ Last \in Predecessors(Due)
        /\ Rank(Last) < Rank(Due)
        /\ Due = Frozen => Last = "PRECOMMITTED"
        /\ Due = Released => Last = Frozen
        /\ Due = "COMPLETED" => Rank(Last) > 3
    BY <2>1, <2>2, SuccessorStep DEF Chain
  <2>4. Due \notin Recorded
    BY <2>3, LastIsLatest, RankType
  <2>5. Rank(Last) > 3 => Frozen \in Recorded /\ Released \in Recorded
    BY <1>2, <2>2, RankType DEF Chain, Last, Terminals
  <2> QED BY <1>2, <2>1, <2>2, <2>3, <2>4, <2>5 DEF Referenced, Terminals
<1> QED BY <1>1, <1>2

-----------------------------------------------------------------------------
(* Steps that publish nothing. *)

LEMMA Same ==
  ASSUME UNCHANGED <<science, ledger, artifacts>>
  PROVE  /\ Recorded' = Recorded /\ Referenced' = Referenced /\ Orphans' = Orphans
         /\ Ended' = Ended /\ Due' = Due /\ Last' = Last
BY DEF Recorded, Referenced, Orphans, Ended, Due, Last, Successor

LEMMA EvidenceKept ==
  ASSUME Evidence, UNCHANGED <<science, ledger, artifacts, universe, chunks, marks>>,
         unsynced' \subseteq unsynced, condemned => condemned'
  PROVE  Evidence'
<1>1. /\ Recorded' = Recorded /\ Referenced' = Referenced /\ Orphans' = Orphans
      /\ Ended' = Ended /\ Due' = Due /\ Last' = Last
  BY Same
<1>2. Chain'
  BY <1>1 DEF Evidence, Chain, Successor
<1>3. Stores'
  BY <1>1 DEF Evidence, Stores, StoreSound, ReleasesClosed
<1>4. OneOrphan'
  BY <1>1 DEF Evidence, OneOrphan
<1>5. Lossy'
  BY <1>1 DEF Evidence, Lossy, UnsyncedType
<1>6. Closed' /\ FailuresAreEarned'
  BY <1>1 DEF Evidence, Closed, FailuresAreEarned
<1> QED BY <1>2, <1>3, <1>4, <1>5, <1>6 DEF Evidence

(* Temporaries only go.                                                    *)
LEMMA TempsKept ==
  ASSUME TempsOK, UNCHANGED ledger, unsynced' \subseteq unsynced,
         temps' \in [Stagings -> Seq(Directories \cup {"unlinked"})],
         \A s \in Stagings : temps'[s] \in {temps[s], <<>>}
  PROVE  TempsOK'
<1>1. Recorded' = Recorded /\ Ended' = Ended
  BY DEF Recorded, Ended
<1>2. \A s \in Stagings : Staged(s)' => Staged(s) /\ temps'[s] = temps[s]
  BY DEF Staged
<1>3. TempsBounded'
  BY DEF TempsOK, TempsBounded
<1>4. {"universe", "search", "events"} \subseteq Stagings
  BY DEF Stagings
<1>5. /\ ledger' = <<>> => ~Staged("universe")'
      /\ Frozen \notin Recorded' => ~Staged("search")'
  BY <1>1, <1>2, <1>4 DEF TempsOK
<1>6. (\E x : <<"events", x>> \in unsynced') => ~Staged("universe")' /\ ~Staged("search")'
  BY <1>2, <1>4 DEF TempsOK
<1>7. ASSUME Ended' PROVE \A s \in Stagings \ {"events"} : ~Staged(s)'
  BY <1>1, <1>2, <1>7 DEF TempsOK
<1>8. ASSUME Ended', NEW i \in DOMAIN temps'["events"] PROVE temps'["events"][i] = "events"
  <2>1. temps'["events"] = temps["events"] \/ temps'["events"] = <<>>
    BY <1>4
  <2> QED BY <1>1, <1>8, <2>1 DEF TempsOK
<1> QED BY <1>3, <1>5, <1>6, <1>7, <1>8 DEF TempsOK, Frozen

LEMMA ArtifactDiscarded ==
  ASSUME Evidence, DiscardArtifact, UNCHANGED <<science, ledger, universe, chunks, marks>>,
         condemned => condemned'
  PROVE  /\ Evidence' /\ unsynced' \subseteq unsynced
         /\ Orphans' = {} /\ Recorded' = Recorded /\ Ended' = Ended
<1>1. /\ Recorded' = Recorded /\ Referenced' = Referenced /\ Ended' = Ended
      /\ Due' = Due /\ Last' = Last
  BY DEF Recorded, Referenced, Ended, Due, Last, Successor
<1>2. artifacts' = artifacts \cap Referenced /\ Orphans' = {}
  BY <1>1 DEF DiscardArtifact, Orphans
<1>3. unsynced' \subseteq unsynced /\ \A x : <<"artifacts", x>> \notin unsynced'
  BY DEF DiscardArtifact, Synced, Evidence, Lossy
<1>4. Chain'
  BY <1>1 DEF Evidence, Chain, Successor
<1>5. Stores'
  BY <1>1 DEF Evidence, Stores, StoreSound, ReleasesClosed
<1>6. OneOrphan'
  BY <1>1, <1>2 DEF Evidence, OneOrphan
<1>7. Lossy'
  BY <1>1, <1>2, <1>3 DEF Evidence, Lossy, UnsyncedType
<1>8. Closed' /\ FailuresAreEarned'
  BY <1>1 DEF Evidence, Closed, FailuresAreEarned
<1> QED BY <1>1, <1>2, <1>3, <1>4, <1>5, <1>6, <1>7, <1>8 DEF Evidence

LEMMA ChunkDiscarded ==
  ASSUME Evidence, DiscardChunk, UNCHANGED <<science, ledger, artifacts, universe, marks>>,
         condemned => condemned'
  PROVE  /\ Evidence' /\ unsynced' \subseteq unsynced /\ chunks' = marks
<1>1. /\ Recorded' = Recorded /\ Referenced' = Referenced /\ Orphans' = Orphans
      /\ Ended' = Ended /\ Due' = Due /\ Last' = Last
  BY Same
<1>2. chunks' = marks /\ unsynced' \subseteq unsynced
  BY DEF DiscardChunk, Synced
<1>3. ASSUME NEW x, <<"chunks", x>> \in unsynced' PROVE FALSE
  <2>1. marks \in Nat
    BY ChunksType DEF Evidence, Stores
  <2>2. <<"chunks", x>> \in unsynced
    BY <1>2, <1>3
  <2>3. chunks = marks + 1
    BY <2>2 DEF Evidence, Lossy
  <2>4. unsynced' = Synced("chunks")
    BY <2>1, <2>3 DEF DiscardChunk
  <2> QED BY <1>3, <2>4 DEF Synced
<1>4. Chain'
  BY <1>1 DEF Evidence, Chain, Successor
<1>5. Stores'
  BY <1>1, <1>2, ChunksType DEF Evidence, Stores, StoreSound, ReleasesClosed
<1>6. OneOrphan'
  BY <1>1 DEF Evidence, OneOrphan
<1>7. Lossy'
  BY <1>1, <1>2, <1>3 DEF Evidence, Lossy, UnsyncedType
<1>8. Closed' /\ FailuresAreEarned'
  BY <1>1, <1>2 DEF Evidence, Closed, FailuresAreEarned
<1> QED BY <1>2, <1>4, <1>5, <1>6, <1>7, <1>8 DEF Evidence

-----------------------------------------------------------------------------
(* Links. *)

LEMMA ArtifactLinked ==
  ASSUME Evidence, LinkEntry("artifacts", Due), ~Ended, Orphans = {}, unsynced = {},
         UNCHANGED <<science, condemned>>
  PROVE  /\ Evidence' /\ UNCHANGED <<ledger, universe, chunks, marks>>
         /\ Orphans' = {Due} /\ unsynced' = {<<"artifacts", Due>>}
<1>1. /\ artifacts' = artifacts \cup {Due} /\ unsynced' = {<<"artifacts", Due>>}
      /\ UNCHANGED <<ledger, universe, chunks, marks>>
  BY DEF LinkEntry
<1>2. /\ Recorded' = Recorded /\ Referenced' = Referenced /\ Ended' = Ended
      /\ Due' = Due /\ Last' = Last
  BY <1>1 DEF Recorded, Referenced, Ended, Due, Last, Successor
<1>3. Due \in EventTypes /\ Due \notin Referenced
  BY DueFacts DEF Evidence
<1>4. Orphans' = {Due}
  BY <1>1, <1>2, <1>3 DEF Orphans
<1>5. Chain'
  BY <1>1, <1>2 DEF Evidence, Chain, Successor
<1>6. Stores'
  BY <1>1, <1>2 DEF Evidence, Stores, StoreSound, ReleasesClosed
<1>7. OneOrphan'
  BY <1>1, <1>2, <1>3, <1>4 DEF Evidence, OneOrphan
<1>8. Lossy'
  BY <1>1, <1>3, <1>4 DEF Lossy, UnsyncedType
<1>9. Closed' /\ FailuresAreEarned'
  BY <1>1, <1>2 DEF Evidence, Closed, FailuresAreEarned
<1> QED BY <1>1, <1>4, <1>5, <1>6, <1>7, <1>8, <1>9 DEF Evidence

(* The next event of the lifecycle, or the failure of the run.             *)
LEMMA ChainExtended ==
  ASSUME Chain, ~Ended, NEW e \in EventTypes, ledger' = Append(ledger, e), UNCHANGED science,
         e = Due \/ (e = "FAILED" /\ ledger # <<>>)
  PROVE  /\ Chain' /\ Last' = e /\ Recorded' = Recorded \cup {e}
         /\ Len(ledger') = Len(ledger) + 1
<1>1. /\ ledger' \in Seq(EventTypes) /\ Len(ledger') = Len(ledger) + 1
      /\ Len(ledger) \in Nat /\ ledger'[Len(ledger')] = e
      /\ \A i \in DOMAIN ledger : ledger'[i] = ledger[i]
      /\ DOMAIN ledger = 1..Len(ledger) /\ DOMAIN ledger' = 1..(Len(ledger) + 1)
      /\ ledger \in Seq(EventTypes) /\ science \in Branches
  BY DEF Chain
<1>2. Last' = e /\ Recorded' = Recorded \cup {e} /\ Recorded \subseteq Recorded'
  BY <1>1 DEF Last, Recorded
<1>3. ledger # <<>> => Last \in EventTypes \ Terminals /\ Last \in Recorded
  BY LastIsLatest, <1>1 DEF Ended, Last, Recorded
<1>4. CASE ledger = <<>>
  <2>1. e = "PRECOMMITTED" /\ DOMAIN ledger' = {1} /\ ledger'[1] = e
    BY <1>1, <1>4 DEF Due
  <2>2. ~(Rank("PRECOMMITTED") > 2) /\ ~(Rank("PRECOMMITTED") > 3)
    BY RankOf DEF EventTypes
  <2> QED BY <1>1, <1>2, <2>1, <2>2 DEF Chain
<1>5. CASE ledger # <<>>
  <2>1. /\ e \in {Successor(Last), "FAILED"} /\ Rank(Last) < Rank(e)
        /\ e # "FAILED" => /\ Rank(e) > 2 => Last = Frozen \/ Rank(Last) > 2
                           /\ Rank(e) > 3 => Last = Released \/ Rank(Last) > 3
    BY <1>1, <1>3, <1>5, SuccessorStep, RankTop DEF Due, Terminals
  <2>2. ledger'[1] = "PRECOMMITTED"
    BY <1>1, <1>5 DEF Chain
  <2>3. ASSUME NEW i \in DOMAIN ledger', NEW j \in DOMAIN ledger', i < j
        PROVE  Rank(ledger'[i]) < Rank(ledger'[j])
    <3>1. i \in DOMAIN ledger
      BY <1>1, <2>3
    <3>2. CASE j \in DOMAIN ledger
      BY <1>1, <2>3, <3>1, <3>2 DEF Chain
    <3>3. CASE j \notin DOMAIN ledger
      <4>1. ledger'[j] = e /\ ledger'[i] \in Recorded
        BY <1>1, <3>1, <3>3 DEF Recorded
      <4>2. Rank(ledger'[i]) <= Rank(Last)
        BY <4>1, LastIsLatest
      <4>3. /\ Rank(ledger'[i]) \in 1..10 /\ Rank(Last) \in 1..10
            /\ Rank(ledger'[j]) \in 1..10 /\ Rank(Last) < Rank(ledger'[j])
        BY <1>5, <2>1, <4>1, RankType
      <4> QED BY <4>2, <4>3
    <3> QED BY <3>2, <3>3
  <2>4. ASSUME NEW i \in DOMAIN ledger', i # 1
        PROVE  /\ ledger'[i - 1] \notin Terminals
               /\ ledger'[i] \in {Successor(ledger'[i - 1]), "FAILED"}
    <3>1. CASE i \in DOMAIN ledger
      <4>1. i - 1 \in DOMAIN ledger
        BY <1>1, <2>4, <3>1
      <4> QED BY <1>1, <2>4, <3>1, <4>1 DEF Chain
    <3>2. CASE i \notin DOMAIN ledger
      <4>1. i = Len(ledger) + 1 /\ i - 1 = Len(ledger) /\ Len(ledger) \in DOMAIN ledger
        BY <1>1, <1>5, <3>2
      <4> QED BY <1>1, <1>3, <1>5, <2>1, <4>1 DEF Last
    <3> QED BY <3>1, <3>2
  <2>5. ASSUME NEW j \in DOMAIN ledger', ledger'[j] # "FAILED"
        PROVE  /\ Rank(ledger'[j]) > 2 => Frozen \in Recorded'
               /\ Rank(ledger'[j]) > 3 => Released \in Recorded'
    <3>1. CASE j \in DOMAIN ledger
      BY <1>1, <1>2, <2>5, <3>1 DEF Chain
    <3>2. CASE j \notin DOMAIN ledger
      <4>1. ledger'[j] = e /\ Len(ledger) \in DOMAIN ledger /\ Last = ledger[Len(ledger)]
        BY <1>1, <1>5, <3>2 DEF Last
      <4>2. /\ Rank(Last) > 2 => Frozen \in Recorded
            /\ Rank(Last) > 3 => Released \in Recorded
        BY <1>3, <1>5, <4>1 DEF Chain, Terminals
      <4> QED BY <1>2, <1>3, <1>5, <2>1, <2>5, <4>1, <4>2
    <3> QED BY <3>1, <3>2
  <2>6. Successor(e)' = Successor(e) /\ \A x : Successor(x)' = Successor(x)
    BY DEF Successor
  <2> QED BY <1>1, <1>2, <2>2, <2>3, <2>4, <2>5, <2>6 DEF Chain, Successor
<1> QED BY <1>1, <1>2, <1>4, <1>5

LEMMA EventLinked ==
  ASSUME Evidence, ~Ended, NEW e \in EventTypes, LinkEntry("events", e), UNCHANGED science,
         \A u \in unsynced : u = <<"events", Len(ledger)>>,
         condemned => condemned',
         \/ /\ e = Due /\ Orphans = {Due} /\ unsynced = {}
            /\ e = Frozen => universe = Chunks
            /\ e = Released => marks = Chunks
         \/ /\ e = "FAILED" /\ ledger # <<>> /\ Orphans = {} /\ chunks = marks
            /\ condemned \/ Authorization \in Recorded
  PROVE  /\ Evidence' /\ UNCHANGED <<artifacts, universe, chunks, marks>>
         /\ Last' = e /\ Recorded' = Recorded \cup {e} /\ ledger' # <<>> /\ Orphans' = {}
         /\ Len(ledger') = Len(ledger) + 1
         /\ unsynced' = unsynced \cup {<<"events", Len(ledger')>>}
<1>1. /\ ledger' = Append(ledger, e)
      /\ unsynced' = unsynced \cup {<<"events", Len(ledger) + 1>>}
      /\ UNCHANGED <<artifacts, universe, chunks, marks>>
  BY DEF LinkEntry
<1>2. /\ Chain' /\ Last' = e /\ Recorded' = Recorded \cup {e} /\ Chain
      /\ Len(ledger') = Len(ledger) + 1
  BY <1>1, ChainExtended DEF Evidence
<1>3. /\ ledger \in Seq(EventTypes) /\ Len(ledger) \in Nat /\ ledger' # <<>>
      /\ ledger'[Len(ledger) + 1] = e
      /\ ledger # <<>> => Len(ledger) \in DOMAIN ledger
      /\ \A i \in DOMAIN ledger : ledger'[i] = ledger[i] /\ i \in DOMAIN ledger'
      /\ Len(ledger) + 1 \in DOMAIN ledger'
  BY <1>1, <1>2 DEF Chain
<1>4. "FAILED" \notin Recorded /\ "COMPLETED" \notin Recorded
  BY <1>2, EndedBy
<1>5. Ended' <=> e \in Terminals
  BY <1>2, <1>3 DEF Ended, Last
<1>6. Referenced' = Referenced \cup ({e} \ {"FAILED"})
  BY <1>2 DEF Referenced
<1>7. /\ e = Due => /\ Due = Released => Frozen \in Recorded
                    /\ Due = "COMPLETED" => Frozen \in Recorded /\ Released \in Recorded
                    /\ Due = "PRECOMMITTED" <=> ledger = <<>>
                    /\ Due # "FAILED"
      /\ e = Due /\ Due = Frozen => Frozen \notin Recorded
  BY <1>2, DueFacts
<1>8. Orphans' = {}
  BY <1>1, <1>6, <1>7 DEF Orphans
<1>9. Stores'
  <2>1. /\ universe' \in 0..Chunks /\ chunks' \in 0..Chunks /\ marks' \in 0..Chunks
        /\ StoreSound' /\ ledger' # <<>>
    BY <1>1, <1>3 DEF Evidence, Stores, StoreSound
  <2>2. ReleasesClosed'
    BY <1>1, <1>2 DEF Evidence, Stores, ReleasesClosed, Frozen, Released
  <2>3. Frozen \notin Recorded' => chunks' = 0 /\ marks' = 0
    BY <1>1, <1>2 DEF Evidence, Stores
  <2> QED BY <2>1, <2>2, <2>3 DEF Stores
<1>10. OneOrphan'
  BY <1>1, <1>6, <1>8 DEF Evidence, OneOrphan, Orphans
<1>11. universe \in Nat /\ chunks \in Nat /\ marks \in Nat
  BY ChunksType DEF Evidence, Stores
<1>12. ASSUME NEW x, <<"events", x>> \in unsynced'
       PROVE  /\ x \in DOMAIN ledger'
              /\ x = Len(ledger') \/ (x = Len(ledger') - 1 /\ Last' = "FAILED")
              /\ ledger'[x] = "PRECOMMITTED" => universe' = 0
              /\ ledger'[x] \in {"PRECOMMITTED", Frozen} => chunks' = 0 /\ marks' = 0
  <2>1. CASE <<"events", x>> \in unsynced
    <3>1. x = Len(ledger) /\ x \in DOMAIN ledger /\ e = "FAILED" /\ ledger'[x] = ledger[x]
      BY <1>3, <2>1 DEF Evidence, Lossy
    <3>2. /\ ledger[x] = "PRECOMMITTED" => universe = 0
          /\ ledger[x] \in {"PRECOMMITTED", Frozen} => chunks = 0 /\ marks = 0
      BY <2>1 DEF Evidence, Lossy
    <3> QED BY <1>1, <1>2, <1>3, <3>1, <3>2
  <2>2. CASE x = Len(ledger) + 1
    <3>1. e = "PRECOMMITTED" => universe = 0 /\ chunks = 0 /\ marks = 0
      <4>1. e = "PRECOMMITTED" => ledger = <<>>
        BY <1>7
      <4>2. ledger = <<>> => Recorded = {}
        BY DEF Recorded
      <4> QED BY <4>1, <4>2 DEF Evidence, Stores
    <3>2. e = Frozen => chunks = 0 /\ marks = 0
      BY <1>7 DEF Evidence, Stores, Frozen
    <3> QED BY <1>1, <1>2, <1>3, <2>2, <3>1, <3>2
  <2> QED BY <1>1, <1>12, <2>1, <2>2
<1>13. UnsyncedType'
  BY <1>1, <1>3 DEF Evidence, Lossy, UnsyncedType, Directories
<1>14. \A x : /\ <<"artifacts", x>> \notin unsynced' /\ <<"universe", x>> \notin unsynced'
              /\ <<"chunks", x>> \notin unsynced' /\ <<"marks", x>> \notin unsynced'
  BY <1>1
<1>15. Lossy'
  BY <1>8, <1>12, <1>13, <1>14 DEF Lossy
<1>16. Closed'
  BY <1>1, <1>2, <1>4, <1>5, <1>7, <1>11
  DEF Evidence, Closed, Stores, StoreSound, ReleasesClosed, Frozen, Released, Terminals
<1>17. FailuresAreEarned'
  BY <1>2, <1>4, <1>7 DEF FailuresAreEarned, Authorization
<1> QED BY <1>1, <1>2, <1>3, <1>8, <1>9, <1>10, <1>15, <1>16, <1>17 DEF Evidence

(* The stores grow by one entry under the event that admits it.            *)
LEMMA StoreLinked ==
  ASSUME Evidence, ~Ended, unsynced = {}, UNCHANGED <<science, condemned>>,
         NEW dir \in Internal, NEW e, LinkEntry(dir, e), ledger # <<>>,
         dir = "universe" => Frozen \notin Recorded /\ universe < Chunks,
         dir = "chunks" => Frozen \in Recorded /\ chunks = marks /\ marks < Chunks,
         dir = "marks" => /\ Frozen \in Recorded /\ Released \notin Recorded
                          /\ chunks = marks + 1
  PROVE  /\ Evidence' /\ UNCHANGED <<ledger, artifacts>>
         /\ universe' = IF dir = "universe" THEN universe + 1 ELSE universe
         /\ chunks' = IF dir = "chunks" THEN chunks + 1 ELSE chunks
         /\ marks' = IF dir = "marks" THEN marks + 1 ELSE marks
         /\ unsynced' = {<<dir, Entry(dir, e)'>>}
<1>1. /\ UNCHANGED <<ledger, artifacts>>
      /\ universe' = IF dir = "universe" THEN universe + 1 ELSE universe
      /\ chunks' = IF dir = "chunks" THEN chunks + 1 ELSE chunks
      /\ marks' = IF dir = "marks" THEN marks + 1 ELSE marks
      /\ unsynced' = {<<dir, Entry(dir, e)'>>}
  BY DEF LinkEntry, Entry, Internal
<1>2. /\ Recorded' = Recorded /\ Referenced' = Referenced /\ Orphans' = Orphans
      /\ Ended' = Ended /\ Due' = Due /\ Last' = Last
  BY <1>1, Same
<1>3. /\ universe \in 0..Chunks /\ chunks \in 0..Chunks /\ marks \in 0..Chunks
      /\ StoreSound /\ ReleasesClosed /\ Chunks \in Nat
  BY ChunksType DEF Evidence, Stores
<1>4. /\ universe' \in 0..Chunks /\ chunks' \in 0..Chunks /\ marks' \in 0..Chunks
      /\ StoreSound' /\ (dir = "marks" => chunks' = marks')
      /\ (dir = "chunks" => chunks' = marks' + 1)
  BY <1>1, <1>3 DEF StoreSound, Internal
<1>5. Chain'
  BY <1>1, <1>2 DEF Evidence, Chain, Successor
<1>6. Stores'
  BY <1>1, <1>2, <1>3, <1>4 DEF Evidence, Stores, ReleasesClosed, Internal, Frozen, Released
<1>7. OneOrphan'
  BY <1>1, <1>2 DEF Evidence, OneOrphan
<1>8. /\ dir = "universe" => unsynced' = {<<"universe", universe'>>} /\ universe' \in Nat
      /\ dir = "chunks" => unsynced' = {<<"chunks", chunks'>>} /\ chunks' \in Nat
      /\ dir = "marks" => unsynced' = {<<"marks", marks'>>} /\ marks' \in Nat
  BY <1>1, <1>3, <1>4 DEF Entry
<1>9. Lossy'
  <2>1. CASE dir = "universe"
    <3>1. unsynced' = {<<"universe", universe'>>} /\ universe' \in Nat
      BY <1>8, <2>1
    <3>2. Frozen \notin Recorded'
      BY <1>2, <1>4, <2>1
    <3>3. UnsyncedType'
      BY <3>1 DEF UnsyncedType, Directories
    <3> QED BY <3>1, <3>2, <3>3 DEF Lossy
  <2>2. CASE dir = "chunks"
    <3>1. unsynced' = {<<"chunks", chunks'>>} /\ chunks' \in Nat
      BY <1>8, <2>2
    <3>2. chunks' = marks' + 1
      BY <1>2, <1>4, <2>2
    <3>3. UnsyncedType'
      BY <3>1 DEF UnsyncedType, Directories
    <3> QED BY <3>1, <3>2, <3>3 DEF Lossy
  <2>3. CASE dir = "marks"
    <3>1. unsynced' = {<<"marks", marks'>>} /\ marks' \in Nat
      BY <1>8, <2>3
    <3>2. chunks' = marks' /\ ~Ended' /\ Released \notin Recorded'
      BY <1>2, <1>4, <2>3
    <3>3. UnsyncedType'
      BY <3>1 DEF UnsyncedType, Directories
    <3> QED BY <3>1, <3>2, <3>3 DEF Lossy
  <2> QED BY <2>1, <2>2, <2>3 DEF Internal
<1>10. Closed' /\ FailuresAreEarned'
  BY <1>1, <1>2 DEF Evidence, Closed, FailuresAreEarned
<1> QED BY <1>1, <1>5, <1>6, <1>7, <1>9, <1>10 DEF Evidence

-----------------------------------------------------------------------------
(* A power loss. *)

(* What is left of a numbered directory.                                   *)
LEMMA SurvivorsOf ==
  ASSUME NEW dir, NEW n \in Nat, NEW k \in Survivors(dir, n)
  PROVE  k \in 0..n /\ \A i \in (k + 1)..n : <<dir, i>> \in unsynced
BY DEF Survivors

LEMMA ShortSequence ==
  ASSUME NEW T, NEW q \in Seq(T), Len(q) <= 1
  PROVE  Len(q) \in 0..1 /\ (q # <<>> => 1 \in DOMAIN q /\ q = <<q[1]>>)
<1>1. Len(q) \in Nat
  OBVIOUS
<1>2. CASE Len(q) = 0
  BY <1>2
<1>3. CASE Len(q) = 1
  <2>1. q = [i \in 1..1 |-> q[i]]
    BY <1>3
  <2>2. \A i \in 1..1 : i = 1
    OBVIOUS
  <2> QED BY <1>3, <2>1, <2>2
<1>4. Len(q) = 0 \/ Len(q) = 1
  BY <1>1
<1> QED BY <1>2, <1>3, <1>4, Zenon

LEMMA OneTemporary ==
  ASSUME TempsOK, NEW s \in Stagings
  PROVE  /\ temps[s] \in Seq(Directories \cup {"unlinked"})
         /\ Len(temps[s]) \in 0..1
         /\ temps[s] # <<>> => 1 \in DOMAIN temps[s] /\ temps[s] = <<temps[s][1]>>
<1>1. temps[s] \in Seq(Directories \cup {"unlinked"})
  BY DEF TempsOK
<1>2. Len(temps[s]) <= 1
  BY DEF TempsOK, TempsBounded
<1> QED BY <1>1, <1>2, ShortSequence

LEMMA TempsLost ==
  ASSUME TempsOK, NEW kept \in SUBSET Stagings, NEW cut,
         temps' = [s \in Stagings |->
                     IF s \notin kept THEN <<>>
                     ELSE [i \in DOMAIN temps[s] |->
                             IF temps[s][i] \in cut THEN "unlinked" ELSE temps[s][i]]]
  PROVE  /\ temps' \in [Stagings -> Seq(Directories \cup {"unlinked"})]
         /\ TempsBounded'
         /\ \A s \in Stagings : Staged(s)' => Staged(s)
         /\ \A s \in Stagings : \A i \in DOMAIN temps'[s] :
              i \in DOMAIN temps[s] /\ (temps[s][i] \notin cut => temps'[s][i] = temps[s][i])
<1>1. ASSUME NEW s \in Stagings
      PROVE  /\ temps'[s] \in Seq(Directories \cup {"unlinked"})
             /\ Len(temps'[s]) <= 1 /\ (temps'[s] # <<>> => temps[s] # <<>>)
             /\ \A i \in DOMAIN temps'[s] :
                  i \in DOMAIN temps[s] /\ (temps[s][i] \notin cut => temps'[s][i] = temps[s][i])
  <2> DEFINE T == Directories \cup {"unlinked"}
  <2>1. temps[s] \in Seq(T) /\ Len(temps[s]) \in 0..1 /\ "unlinked" \in T
    BY OneTemporary
  <2> HIDE DEF T
  <2>2. CASE s \notin kept
    <3>1. temps'[s] = <<>>
      BY <2>2
    <3> QED BY <3>1 DEF T
  <2>3. CASE s \in kept
    <3>1. temps'[s] = [i \in 1..Len(temps[s]) |->
                         IF temps[s][i] \in cut THEN "unlinked" ELSE temps[s][i]]
      BY <2>1, <2>3
    <3>2. \A i \in 1..Len(temps[s]) :
            (IF temps[s][i] \in cut THEN "unlinked" ELSE temps[s][i])
              \in T
      BY <2>1
    <3>3. /\ temps'[s] \in Seq(T)
          /\ Len(temps'[s]) = Len(temps[s])
      BY <2>1, <3>1, <3>2
    <3> QED BY <2>1, <3>1, <3>3 DEF T
  <2> QED BY <2>2, <2>3
<1>2. DOMAIN temps' = Stagings /\ temps' = [s \in Stagings |-> temps'[s]]
  OBVIOUS
<1> QED BY <1>1, <1>2 DEF TempsBounded, Staged

(* A prefix of the ledger is a chain, and what it no longer records was    *)
(* not synced.                                                             *)
LEMMA ChainCut ==
  ASSUME Chain, NEW n \in 0..Len(ledger), ledger' = SubSeq(ledger, 1, n), UNCHANGED science
  PROVE  /\ Chain' /\ Len(ledger') = n /\ DOMAIN ledger' = 1..n
         /\ \A i \in 1..n : i \in DOMAIN ledger /\ ledger'[i] = ledger[i]
         /\ Recorded' \subseteq Recorded
         /\ n = Len(ledger) => ledger' = ledger
<1>1. /\ ledger \in Seq(EventTypes) /\ Len(ledger) \in Nat /\ science \in Branches
      /\ ledger' \in Seq(EventTypes) /\ Len(ledger') = n
      /\ DOMAIN ledger' = 1..n /\ DOMAIN ledger = 1..Len(ledger)
      /\ \A i \in 1..n : i \in DOMAIN ledger /\ ledger'[i] = ledger[i]
      /\ n \in Nat /\ n <= Len(ledger)
  BY DEF Chain
<1>2. Recorded' \subseteq Recorded
  BY <1>1 DEF Recorded
<1>3. n = Len(ledger) => ledger' = ledger
  BY <1>1
<1>4. ledger' # <<>> => ledger'[1] = "PRECOMMITTED"
  BY <1>1 DEF Chain
<1>5. \A i, j \in DOMAIN ledger' : i < j => Rank(ledger'[i]) < Rank(ledger'[j])
  BY <1>1 DEF Chain
<1>6. ASSUME NEW i \in DOMAIN ledger', i # 1
      PROVE  /\ ledger'[i - 1] \notin Terminals
             /\ ledger'[i] \in {Successor(ledger'[i - 1]), "FAILED"}
  <2>1. i \in DOMAIN ledger /\ i - 1 \in 1..n
    BY <1>1, <1>6
  <2> QED BY <1>1, <1>6, <2>1 DEF Chain
<1>7. ASSUME NEW j \in DOMAIN ledger', NEW r \in {Frozen, Released},
             Rank(ledger'[j]) > Rank(r), r \in Recorded
      PROVE  r \in Recorded'
  <2>1. PICK i \in DOMAIN ledger : ledger[i] = r
    BY <1>7 DEF Recorded
  <2>2. ~(j < i) /\ i # j
    <3>1. /\ j \in DOMAIN ledger /\ Rank(ledger[j]) > Rank(ledger[i])
          /\ Rank(ledger[i]) \in 1..10 /\ Rank(ledger[j]) \in 1..10
      BY <1>1, <1>7, <2>1, RankType
    <3>2. j < i => Rank(ledger[j]) < Rank(ledger[i])
      BY <2>1, <3>1 DEF Chain
    <3>3. \A a, b \in 1..10 : a > b => a # b /\ ~(a < b)
      OBVIOUS
    <3>4. ledger[i] # ledger[j] /\ ~(Rank(ledger[j]) < Rank(ledger[i]))
      BY <3>1, <3>3
    <3> QED BY <3>2, <3>4
  <2>3. i \in 1..n
    BY <1>1, <2>1, <2>2
  <2> QED BY <1>1, <2>1, <2>3 DEF Recorded
<1>8. ASSUME NEW j \in DOMAIN ledger', ledger'[j] # "FAILED"
      PROVE  /\ Rank(ledger'[j]) > 2 => Frozen \in Recorded'
             /\ Rank(ledger'[j]) > 3 => Released \in Recorded'
  <2>1. /\ Rank(ledger'[j]) > 2 => Frozen \in Recorded
        /\ Rank(ledger'[j]) > 3 => Released \in Recorded
    BY <1>1, <1>8 DEF Chain
  <2>2. Rank(Frozen) = 2 /\ Rank(Released) = 3
    BY RankOf DEF Frozen, Released, EventTypes
  <2> QED BY <1>7, <1>8, <2>1, <2>2
<1>9. \A x : Successor(x)' = Successor(x)
  BY DEF Successor
<1>10. Chain'
  BY <1>1, <1>4, <1>5, <1>6, <1>8, <1>9 DEF Chain, Successor
<1> QED BY <1>1, <1>2, <1>3, <1>10, Zenon

LEMMA LoseSafe ==
  ASSUME FilesInv, Lose, UNCHANGED <<science, condemned>>
  PROVE  FilesInv'
<1>1. PICK n \in Survivors("events", Len(ledger)), u \in Survivors("universe", universe),
           c \in Survivors("chunks", chunks), m \in Survivors("marks", marks),
           gone \in SUBSET Losable, kept \in SUBSET {s \in Stagings : temps[s] # <<>>} :
        /\ ledger' = SubSeq(ledger, 1, n)
        /\ artifacts' = artifacts \ gone
        /\ universe' = u /\ chunks' = c /\ marks' = m
        /\ temps' = [s \in Stagings |->
                       IF s \notin kept THEN <<>>
                       ELSE [i \in DOMAIN temps[s] |->
                               IF temps[s][i] \in Cut(n, u, c, m, gone)
                               THEN "unlinked" ELSE temps[s][i]]]
        /\ unsynced' = {}
  BY Zenon DEF Lose
<1> DEFINE cut == Cut(n, u, c, m, gone)
<1>0. /\ temps' \in [Stagings -> Seq(Directories \cup {"unlinked"})]
      /\ TempsBounded'
      /\ \A s \in Stagings : Staged(s)' => Staged(s)
      /\ \A s \in Stagings : \A i \in DOMAIN temps'[s] :
           i \in DOMAIN temps[s] /\ (temps[s][i] \notin cut => temps'[s][i] = temps[s][i])
  <2>1. kept \in SUBSET Stagings /\ TempsOK
    BY DEF FilesInv
  <2>2. temps' = [s \in Stagings |->
                    IF s \notin kept THEN <<>>
                    ELSE [i \in DOMAIN temps[s] |->
                            IF temps[s][i] \in cut THEN "unlinked" ELSE temps[s][i]]]
    BY <1>1
  <2> HIDE DEF cut
  <2> QED BY <2>1, <2>2, TempsLost, Zenon
<1> HIDE DEF cut
<1>2. /\ Chain /\ Stores /\ OneOrphan /\ Lossy /\ Closed /\ FailuresAreEarned /\ TempsOK
      /\ Len(ledger) \in Nat /\ universe \in Nat /\ chunks \in Nat /\ marks \in Nat
      /\ Chunks \in Nat
  BY ChunksType DEF FilesInv, Evidence, Chain, Stores
<1>3. /\ n \in 0..Len(ledger) /\ \A i \in (n + 1)..Len(ledger) : <<"events", i>> \in unsynced
      /\ u \in 0..universe /\ \A i \in (u + 1)..universe : <<"universe", i>> \in unsynced
      /\ c \in 0..chunks /\ \A i \in (c + 1)..chunks : <<"chunks", i>> \in unsynced
      /\ m \in 0..marks /\ \A i \in (m + 1)..marks : <<"marks", i>> \in unsynced
  BY <1>2, SurvivorsOf
<1>4. /\ Chain' /\ Len(ledger') = n /\ DOMAIN ledger' = 1..n
      /\ \A i \in 1..n : i \in DOMAIN ledger /\ ledger'[i] = ledger[i]
      /\ Recorded' \subseteq Recorded /\ Referenced' \subseteq Referenced
      /\ n = Len(ledger) => ledger' = ledger
  BY <1>1, <1>2, <1>3, ChainCut DEF Referenced
<1>5. gone \subseteq Orphans
  BY <1>1, <1>2 DEF Losable, Lossy
<1>6. u # universe => <<"universe", universe>> \in unsynced
  BY <1>2, <1>3
<1>7. /\ c # chunks => <<"chunks", chunks>> \in unsynced /\ c + 1 = chunks
      /\ m # marks => <<"marks", marks>> \in unsynced /\ m + 1 = marks
  <2>1. c # chunks => c + 1 \in (c + 1)..chunks /\ chunks \in (c + 1)..chunks
    BY <1>2, <1>3
  <2>2. m # marks => m + 1 \in (m + 1)..marks /\ marks \in (m + 1)..marks
    BY <1>2, <1>3
  <2>3. /\ \A x : <<"chunks", x>> \in unsynced => x = chunks
        /\ \A x : <<"marks", x>> \in unsynced => x = marks
    BY <1>2 DEF Lossy
  <2> QED BY <1>3, <2>1, <2>2, <2>3
<1>8. /\ u # universe => Frozen \notin Recorded
      /\ c # chunks => chunks = marks + 1
      /\ m # marks => chunks = marks /\ ~Ended /\ Released \notin Recorded
  BY <1>2, <1>6, <1>7 DEF Lossy

<1>9. Stores'
  <2>1. /\ universe' \in 0..Chunks /\ chunks' \in 0..Chunks /\ marks' \in 0..Chunks
    BY <1>1, <1>2, <1>3 DEF Stores
  <2>2. marks <= chunks /\ chunks <= marks + 1
    BY <1>2 DEF Stores, StoreSound
  <2>3. StoreSound'
    BY <1>1, <1>2, <1>3, <1>7, <1>8, <2>2 DEF StoreSound
  <2>4. ReleasesClosed'
    BY <1>1, <1>2, <1>4, <1>8 DEF Stores, ReleasesClosed, Frozen, Released
  <2>5. ASSUME ledger' = <<>> PROVE u = 0
    <3>1. CASE ledger = <<>>
      BY <1>2, <1>3, <3>1 DEF Stores
    <3>2. CASE ledger # <<>>
      <4>1. n = 0 /\ 1 \in (n + 1)..Len(ledger) /\ ledger[1] = "PRECOMMITTED"
        BY <1>2, <1>4, <2>5, <3>2 DEF Chain
      <4>2. universe = 0
        BY <1>2, <1>3, <4>1 DEF Lossy
      <4> QED BY <1>3, <4>2
    <3> QED BY <3>1, <3>2
  <2>6. ASSUME Frozen \notin Recorded' PROVE c = 0 /\ m = 0
    <3>1. chunks = 0 /\ marks = 0
      <4>1. CASE Frozen \notin Recorded
        BY <1>2, <4>1 DEF Stores
      <4>2. CASE Frozen \in Recorded
        <5>1. PICK i \in DOMAIN ledger : ledger[i] = Frozen
          BY <4>2 DEF Recorded
        <5>2. i \notin 1..n
          BY <1>4, <2>6, <5>1 DEF Recorded
        <5>3. i \in (n + 1)..Len(ledger)
          BY <1>2, <1>3, <5>1, <5>2 DEF Chain
        <5> QED BY <1>2, <1>3, <5>1, <5>3 DEF Lossy
      <4> QED BY <4>1, <4>2
    <3> QED BY <1>3, <3>1
  <2> QED BY <1>1, <2>1, <2>3, <2>4, <2>5, <2>6 DEF Stores
<1>10. CASE n = Len(ledger)
  <2>1. UNCHANGED ledger
    BY <1>4, <1>10
  <2>2. /\ Recorded' = Recorded /\ Referenced' = Referenced /\ Ended' = Ended
        /\ Due' = Due /\ Last' = Last
    BY <2>1 DEF Recorded, Referenced, Ended, Due, Last, Successor
  <2>3. artifacts' = artifacts \ gone /\ Orphans' \subseteq Orphans
    BY <1>1, <2>2 DEF Orphans
  <2>4. OneOrphan'
    BY <1>2, <1>5, <2>2, <2>3 DEF OneOrphan, Orphans
  <2>5. Closed'
    <3>1. ASSUME Ended PROVE c = chunks /\ m = marks /\ chunks = marks
      BY <1>2, <1>8, <3>1 DEF Closed
    <3>2. ASSUME "COMPLETED" \in Recorded PROVE Frozen \in Recorded
      <4>1. PICK j \in DOMAIN ledger : ledger[j] = "COMPLETED"
        BY <3>2 DEF Recorded
      <4> QED BY <1>2, <4>1, RankOf DEF Chain, EventTypes
    <3> QED BY <1>1, <1>2, <1>8, <2>2, <3>1, <3>2 DEF Closed
  <2>6. FailuresAreEarned'
    BY <1>2, <2>2 DEF FailuresAreEarned
  <2>7. TempsOK'
    <3>1. "events" \notin cut
      BY <1>2, <1>10 DEF cut, Cut
    <3>2. {"universe", "search", "events"} \subseteq Stagings
      BY DEF Stagings
    <3>3. /\ ledger' = <<>> => ~Staged("universe")'
          /\ Frozen \notin Recorded' => ~Staged("search")'
      BY <1>0, <1>2, <2>1, <2>2, <3>2 DEF TempsOK
    <3>4. ASSUME Ended' PROVE \A s \in Stagings \ {"events"} : ~Staged(s)'
      BY <1>0, <1>2, <2>2, <3>4 DEF TempsOK
    <3>5. ASSUME Ended', NEW i \in DOMAIN temps'["events"] PROVE temps'["events"][i] = "events"
      BY <1>0, <1>2, <2>2, <3>1, <3>2, <3>5 DEF TempsOK
    <3> QED BY <1>0, <1>1, <3>3, <3>4, <3>5 DEF TempsOK, Frozen
  <2> QED BY <1>1, <1>4, <1>9, <2>4, <2>5, <2>6, <2>7
          DEF FilesInv, Evidence, Lossy, UnsyncedType
<1>11. CASE n < Len(ledger)
  <2>1. /\ n + 1 \in DOMAIN ledger /\ <<"events", n + 1>> \in unsynced
        /\ n + 1 = Len(ledger) \/ (n + 1 = Len(ledger) - 1 /\ Last = "FAILED")
        /\ Orphans = {} /\ gone = {}
    BY <1>2, <1>3, <1>5, <1>11 DEF Lossy, Chain
  <2>2. artifacts' = Referenced /\ Referenced \subseteq EventTypes
    BY <1>1, <1>2, <2>1 DEF OneOrphan, Orphans
  <2>3. \A i \in 1..n : ledger[i] \notin Terminals
    <3> TAKE i \in 1..n
    <3>1. i + 1 \in DOMAIN ledger /\ i + 1 # 1 /\ (i + 1) - 1 = i
      BY <1>2, <1>3, <1>11 DEF Chain
    <3> QED BY <1>2, <3>1 DEF Chain
  <2>4. ~Ended' /\ "FAILED" \notin Recorded'
    BY <1>3, <1>4, <2>3 DEF Ended, Recorded, Terminals
  <2>5. \A x \in Orphans' : x = ledger[n + 1] /\ x # "FAILED"
    <3> TAKE x \in Orphans'
    <3>1. x \in Recorded /\ x # "FAILED" /\ x \notin Recorded'
      BY <2>2 DEF Orphans, Referenced
    <3>2. PICK i \in DOMAIN ledger : ledger[i] = x
      BY <3>1 DEF Recorded
    <3>3. i \notin 1..n
      BY <1>4, <3>1, <3>2 DEF Recorded
    <3>4. i = n + 1 \/ i = Len(ledger)
      BY <1>2, <1>3, <2>1, <3>2, <3>3 DEF Chain
    <3> QED BY <2>1, <3>1, <3>2, <3>4 DEF Last
  <2>6. ledger[n + 1] \in {Due', "FAILED"}
    <3>1. CASE n = 0
      BY <1>2, <1>4, <2>1, <3>1 DEF Chain, Due
    <3>2. CASE n # 0
      <4>1. n + 1 # 1 /\ (n + 1) - 1 = n /\ n \in 1..n /\ ledger' # <<>>
        BY <1>3, <1>4, <3>2
      <4>2. ledger[n + 1] \in {Successor(ledger[n]), "FAILED"}
        BY <1>2, <2>1, <4>1 DEF Chain
      <4>3. Due' = Successor(ledger[n])
        BY <1>4, <4>1 DEF Due, Last, Successor
      <4> QED BY <4>2, <4>3
    <3> QED BY <3>1, <3>2
  <2>7. OneOrphan'
    BY <1>4, <2>2, <2>4, <2>5, <2>6 DEF OneOrphan
  <2>8. TempsOK'
    <3>1. ~Staged("universe")' /\ ~Staged("search")'
      BY <1>0, <1>2, <2>1 DEF TempsOK, Stagings
    <3> QED BY <1>0, <1>1, <2>4, <3>1 DEF TempsOK
  <2> QED BY <1>1, <1>4, <1>9, <2>4, <2>7, <2>8
          DEF FilesInv, Evidence, Lossy, UnsyncedType, Closed, FailuresAreEarned
<1> QED BY <1>2, <1>3, <1>10, <1>11

-----------------------------------------------------------------------------
(* The invocation at work. *)

Clean == unsynced = {}
NoTemps(stagings) == \A s \in stagings : temps[s] = <<>>
OneTemp(staging, t) == NoTemps(Stagings \ {staging}) /\ temps[staging] = <<t>>
Linked(p) == At(p, "sync") \/ At(p, "unlink")
Earned == condemned \/ Authorization \in Recorded

(* The temporary of a publication, and the number of its event.            *)
Publication(p) ==
  LET staging == StagingOf(proc[p].dir) IN
  /\ At(p, "temp") => NoTemps(Stagings)
  /\ At(p, "link") => OneTemp(staging, "unlinked") /\ proc[p].seq = Len(ledger) + 1
  /\ Linked(p) => OneTemp(staging, proc[p].dir)

(* What is published is the artifact of the event that is due, or an entry *)
(* of the store it closes.                                                 *)
Place(p) ==
  LET e == proc[p].at  dir == proc[p].dir IN
  /\ dir \in {"artifacts", "events"} => /\ e = Frozen => universe = Chunks
                                        /\ e = Released => marks = Chunks
  /\ dir = "artifacts" => /\ Linked(p) => Orphans = {e}
                          /\ At(p, "link") \/ (At(p, "temp") /\ ledger # <<>>) => Orphans = {}
  /\ dir = "events" => Orphans = {e}
  /\ dir \in Internal => Orphans = {}
  /\ dir = "universe" => e = Frozen /\ (~Linked(p) => universe < Chunks)
  /\ dir = "chunks" => /\ e = Released /\ marks < Chunks
                       /\ chunks = IF Linked(p) THEN marks + 1 ELSE marks
  /\ dir = "marks" => e = Released /\ chunks = IF Linked(p) THEN marks ELSE marks + 1

(* An event other than FAILED before its link, and after.                  *)
Pending(p) ==
  /\ proc[p].dir = "events" => ~Linked(p)
  /\ ~Ended /\ proc[p].at = Due /\ proc[p].known \subseteq Recorded
  /\ unsynced = IF At(p, "sync") THEN {<<proc[p].dir, Entry(proc[p].dir, proc[p].at)>>} ELSE {}
  /\ Place(p)
Written(p) ==
  /\ Linked(p) /\ proc[p].dir = "events" /\ proc[p].known \subseteq Recorded
  /\ ledger # <<>> /\ proc[p].at = Last /\ proc[p].at # "FAILED" /\ Orphans = {}
  /\ unsynced = IF At(p, "sync") THEN {<<"events", Len(ledger)>>} ELSE {}

(* FAILED, before and after its link.                                      *)
Failing(p) ==
  /\ proc[p].at = "FAILED" /\ proc[p].dir = "events"
  /\ Earned /\ ledger # <<>> /\ Orphans = {} /\ chunks = marks
  /\ IF Linked(p) THEN Last = "FAILED" ELSE ~Ended
  /\ \A u \in unsynced : ~At(p, "unlink") /\ u[1] = "events"
                         /\ (~Linked(p) => u = <<"events", Len(ledger)>>)

(* Between two publications of a run.                                      *)
Ready(p) ==
  /\ ~Ended /\ Clean /\ ledger # <<>> /\ NoTemps(Stagings) /\ Orphans = {}
  /\ proc[p].known \subseteq Recorded

Starting(p) ==
  /\ At(p, "preflight") => Clean
  /\ At(p, "outer") => Clean /\ ~Ended
  /\ At(p, "internal") => /\ Clean /\ ~Ended /\ NoTemps({"artifacts", "events"})
                          /\ proc[p].known = Recorded
  /\ At(p, "precommit") => Clean /\ ~Ended /\ NoTemps(Stagings) /\ proc[p].known = Recorded
  /\ At(p, "resume") => /\ Clean /\ ~Ended /\ NoTemps(Stagings) /\ ledger # <<>>
                        /\ proc[p].known \subseteq Recorded
                        /\ proc[p].known = Recorded \/ Last = "PRECOMMITTED"

Working(p) ==
  /\ Starting(p)
  /\ At(p, "stage") => /\ Ready(p) /\ proc[p].at \in Recorded
                       /\ proc[p].known = Recorded \/ proc[p].at = Last
  /\ At(p, "service") => Ready(p) /\ proc[p].at = Due /\ proc[p].at \in Served
  /\ proc[p].pc \in Publishing => Publication(p) /\ (Pending(p) \/ Written(p) \/ Failing(p))
  /\ At(p, "fail") \/ At(p, "close") =>
       /\ ledger # <<>> /\ NoTemps(Stagings) /\ Earned
       /\ \A u \in unsynced : u[1] = "artifacts" \/ u = <<"events", Len(ledger)>>
  /\ At(p, "close") => Orphans = {}

CrashInv == FilesInv /\ \A p \in Procs : Working(p)

-----------------------------------------------------------------------------
(* Assembling a step. *)

LEMMA IdleWorks ==
  ASSUME NEW p \in Procs, proc[p].pc = "idle"
  PROVE  Working(p)
BY DEF Working, Starting, At, Publishing

LEMMA IdleStays ==
  ASSUME CrashInv, NEW p \in Procs, \A q \in Procs \ {p} : At(q, "idle"),
         \A q \in Procs \ {p} : proc'[q] = proc[q], FilesInv', Working(p)'
  PROVE  CrashInv'
<1>1. \A q \in Procs \ {p} : proc'[q].pc = "idle"
  BY DEF At
<1>2. \A q \in Procs \ {p} : Working(q)'
  BY <1>1 DEF Working, Starting, At, Publishing
<1> QED BY <1>2 DEF CrashInv

LEMMA EndCrash ==
  ASSUME OneShotInv, CrashInv, NEW p \in Procs, \A q \in Procs \ {p} : At(q, "idle"),
         End(p), FilesInv'
  PROVE  CrashInv'
<1>1. proc'[p].pc = "idle" /\ \A q \in Procs \ {p} : proc'[q] = proc[q]
  BY EndHeld DEF OneShotInv
<1>2. Working(p)'
  BY <1>1 DEF Working, Starting, At, Publishing
<1> QED BY <1>1, <1>2, IdleStays

(* The temporaries of an invocation between and within publications.       *)
TempsType == temps \in [Stagings -> Seq(Directories \cup {"unlinked"})]

LEMMA NoTempsOK ==
  ASSUME TempsType', NoTemps(Stagings)'
  PROVE  TempsOK'
BY DEF TempsType, NoTemps, TempsOK, TempsBounded, Staged, Stagings

LEMMA OneTempOK ==
  ASSUME TempsType', NEW s \in Stagings, NEW t, OneTemp(s, t)',
         s = "universe" => ledger' # <<>>, s = "search" => Frozen \in Recorded',
         (\E x : <<"events", x>> \in unsynced') => s \in {"artifacts", "events"},
         Ended' => s = "events" /\ t = "events"
  PROVE  TempsOK'
<1>1. \A r \in Stagings \ {s} : temps'[r] = <<>>
  BY DEF OneTemp, NoTemps
<1>2. temps'[s] = <<t>> /\ Len(<<t>>) <= 1
  BY DEF OneTemp
<1>3. ASSUME NEW r \in Stagings PROVE Len(temps'[r]) <= 1
  <2>1. CASE r = s
    BY <1>2, <2>1, Zenon
  <2>2. CASE r # s
    <3>1. temps'[r] = <<>>
      BY <1>1, <2>2
    <3> QED BY <3>1
  <2> QED BY <2>1, <2>2
<1>4. \A r \in Stagings : Staged(r)' => r = s
  BY <1>1 DEF Staged
<1>5. \A i \in DOMAIN <<t>> : <<t>>[i] = t
  OBVIOUS
<1>6. {"universe", "search", "artifacts", "events"} \subseteq Stagings
  BY DEF Stagings
<1>7. ledger' = <<>> => ~Staged("universe")'
  BY <1>4, <1>6
<1>8. Frozen \notin Recorded' => ~Staged("search")'
  BY <1>4, <1>6
<1>9. (\E x : <<"events", x>> \in unsynced') => ~Staged("universe")' /\ ~Staged("search")'
  BY <1>4, <1>6
<1>10. ASSUME Ended' PROVE \A r \in Stagings \ {"events"} : ~Staged(r)'
  BY <1>4, <1>10
<1>11. ASSUME Ended', NEW i \in DOMAIN temps'["events"] PROVE temps'["events"][i] = "events"
  <2>1. temps'["events"] = <<"events">> /\ i \in DOMAIN <<"events">>
    BY <1>2, <1>11
  <2> QED BY <2>1
<1> QED BY <1>3, <1>7, <1>8, <1>9, <1>10, <1>11 DEF TempsType, TempsOK, TempsBounded, Frozen

LEMMA TempsOneOf ==
  ASSUME TempsType, NEW dir \in Directories
  PROVE  /\ StagingOf(dir) \in Stagings
         /\ WriteTemp(dir) /\ NoTemps(Stagings) =>
              TempsType' /\ OneTemp(StagingOf(dir), "unlinked")'
         /\ MarkLinked(dir) /\ OneTemp(StagingOf(dir), "unlinked") =>
              TempsType' /\ OneTemp(StagingOf(dir), dir)'
         /\ \A t : UnlinkTemp(dir) /\ OneTemp(StagingOf(dir), t) =>
              TempsType' /\ NoTemps(Stagings)'
<1> DEFINE s == StagingOf(dir)
<1> DEFINE T == Directories \cup {"unlinked"}
<1>1. s \in Stagings /\ dir \in T /\ "unlinked" \in T /\ temps \in [Stagings -> Seq(T)]
  BY DEF StagingOf, Stagings, Directories, TempsType
<1> HIDE DEF s, T
<1>2. ASSUME WriteTemp(dir), NoTemps(Stagings)
      PROVE  temps' \in [Stagings -> Seq(T)] /\ OneTemp(s, "unlinked")'
  <2>1. temps' = [temps EXCEPT ![s] = Append(temps[s], "unlinked")] /\ temps[s] = <<>>
    BY <1>1, <1>2 DEF WriteTemp, NoTemps, s
  <2>2. Append(<<>>, "unlinked") = <<"unlinked">> /\ <<"unlinked">> \in Seq(T)
    BY <1>1
  <2>3. temps' = [temps EXCEPT ![s] = <<"unlinked">>]
    BY <2>1, <2>2
  <2> QED BY <1>1, <1>2, <2>2, <2>3 DEF OneTemp, NoTemps
<1>3. ASSUME MarkLinked(dir), OneTemp(s, "unlinked")
      PROVE  temps' \in [Stagings -> Seq(T)] /\ OneTemp(s, dir)'
  <2>1. temps[s] = <<"unlinked">> /\ Own(dir) = 1 /\ DOMAIN temps[s] = 1..1
    BY <1>3 DEF OneTemp, Own, s
  <2>2. temps' = [temps EXCEPT ![s] = [i \in 1..1 |-> IF i = 1 THEN dir ELSE temps[s][i]]]
    BY <1>3, <2>1 DEF MarkLinked, s
  <2>3. [i \in 1..1 |-> IF i = 1 THEN dir ELSE temps[s][i]] = <<dir>>
    <3>1. \A i \in 1..1 : i = 1
      OBVIOUS
    <3>2. [i \in 1..1 |-> IF i = 1 THEN dir ELSE temps[s][i]] = [i \in 1..1 |-> dir]
      BY <3>1
    <3>3. [i \in 1..1 |-> dir] = <<dir>>
      <4>1. [i \in 1..1 |-> dir] \in Seq({dir}) /\ Len([i \in 1..1 |-> dir]) = 1
        OBVIOUS
      <4>2. [i \in 1..1 |-> dir][1] = dir
        OBVIOUS
      <4> DEFINE q == [i \in 1..1 |-> dir]
      <4> HIDE DEF q
      <4>3. q \in Seq({dir}) /\ Len(q) <= 1 /\ q[1] = dir /\ q # <<>>
        BY <4>1, <4>2 DEF q
      <4> QED BY <4>3, ShortSequence DEF q
    <3> QED BY <3>2, <3>3
  <2>4. temps' = [temps EXCEPT ![s] = <<dir>>] /\ <<dir>> \in Seq(T)
    <3>1. temps' = [temps EXCEPT ![s] = <<dir>>]
      BY <2>2, <2>3, Zenon
    <3>2. <<dir>> \in Seq(T)
      BY <1>1
    <3> QED BY <3>1, <3>2
  <2> DEFINE q == <<dir>>
  <2> HIDE DEF q
  <2>5. temps' \in [Stagings -> Seq(T)] /\ temps'[s] = q
    <3>1. temps' = [temps EXCEPT ![s] = q] /\ q \in Seq(T)
      BY <2>4 DEF q
    <3> QED BY <1>1, <3>1
  <2>6. \A r \in Stagings \ {s} : temps'[r] = <<>>
    BY <1>1, <1>3, <2>4 DEF OneTemp, NoTemps
  <2> QED BY <2>5, <2>6 DEF OneTemp, NoTemps, q
<1>4. ASSUME NEW t, UnlinkTemp(dir), OneTemp(s, t)
      PROVE  temps' \in [Stagings -> Seq(T)] /\ NoTemps(Stagings)'
  <2>1. temps[s] = <<t>> /\ Own(dir) = 1
    BY <1>4 DEF OneTemp, Own, s
  <2>2. temps' = [temps EXCEPT ![s] = SubSeq(<<t>>, 1, 0)]
    BY <1>1, <1>4, <2>1 DEF UnlinkTemp, s
  <2>3. SubSeq(<<t>>, 1, 0) = <<>> /\ <<>> \in Seq(T)
    OBVIOUS
  <2> QED BY <1>1, <1>4, <2>2, <2>3 DEF OneTemp, NoTemps
<1> QED BY <1>1, <1>2, <1>3, <1>4 DEF TempsType, s, T

(* The publication at work fits its staging directory.                     *)
LEMMA PublicationOK ==
  ASSUME Evidence', TempsType', ~Ended', NEW p \in Procs,
         NEW dir \in Directories, proc'[p].dir = dir,
         NEW t, OneTemp(StagingOf(dir), t)', Pending(p)' \/ Failing(p)'
  PROVE  TempsOK'
<1> DEFINE s == StagingOf(dir)
<1>1. s \in Stagings
  BY DEF StagingOf, Stagings, Directories
<1>2. CASE Failing(p)'
  <2>1. s = "events"
    BY <1>2 DEF Failing, StagingOf
  <2> QED BY <1>1, <2>1, OneTempOK
<1>3. CASE Pending(p)'
  <2>1. Chain' /\ ~Ended' /\ proc'[p].at = Due' /\ Place(p)'
    BY <1>3 DEF Pending, Evidence
  <2>2. /\ proc'[p].at \in {Frozen, Released} => ledger' # <<>>
        /\ proc'[p].at = Released => Frozen \in Recorded'
    <3>1. /\ ledger' = <<>> => Due' = "PRECOMMITTED"
          /\ ledger' # <<>> => Due' = Successor(Last)'
      BY DEF Due, Last
    <3>2. ledger' # <<>> => Last' \in Recorded'
      BY <2>1 DEF Chain, Last, Recorded
    <3>3. Successor(Last)' = Released => Last' = Frozen
      BY DEF Successor, Released, Frozen
    <3> QED BY <2>1, <3>1, <3>2, <3>3 DEF Frozen, Released
  <2>3. /\ s = "universe" => proc'[p].at = Frozen
        /\ s = "search" => proc'[p].at = Released
    BY <2>1 DEF Place, StagingOf, Directories
  <2>4. \A x : <<"events", x>> \in unsynced' => dir = "events"
    BY <1>3 DEF Pending
  <2>5. dir = "events" => s = "events"
    BY DEF StagingOf
  <2> QED BY <1>1, <2>1, <2>2, <2>3, <2>4, <2>5, OneTempOK
<1> QED BY <1>2, <1>3

LEMMA HeldNumber ==
  ASSUME proc \in [Procs -> Process], NEW p \in Procs, NEW op, NEW pc, NEW at, NEW dir,
         NEW seq, NEW known, Hold(p, op, pc, at, dir, seq, known)
  PROVE  proc'[p].seq = seq
BY DEF Hold

-----------------------------------------------------------------------------
(* The steps, one by one: up to the first stage. *)

LEMMA InvokeCrash ==
  ASSUME OneShotInv, CrashInv, ~LateWriteback, NEW p \in Procs, NEW op \in Operations,
         Invoke(p, op)
  PROVE  CrashInv'
<1>1. /\ unsynced' = {} /\ UNCHANGED <<ledger, artifacts, universe, chunks, marks, temps>>
      /\ UNCHANGED <<science, condemned>> /\ FilesInv
  BY DEF Invoke, Others, history, CrashInv
<1>2. Evidence'
  BY <1>1, EvidenceKept DEF FilesInv
<1>3. TempsOK'
  BY <1>1, TempsKept DEF FilesInv, TempsOK
<1>4. /\ proc'[p].pc = "preflight" /\ \A q \in Procs \ {p} : proc'[q] = proc[q]
      /\ \A q \in Procs \ {p} : At(q, "idle")
  <2>1. /\ proc \in [Procs -> Process] /\ "preflight" \in Steps /\ "PRECOMMITTED" \in EventTypes
        /\ "artifacts" \in Directories /\ {} \in SUBSET EventTypes /\ 0 \in Nat
        /\ Hold(p, op, "preflight", "PRECOMMITTED", "artifacts", 0, {})
    BY DEF OneShotInv, Steps, EventTypes, Directories, Invoke
  <2> QED BY <2>1, Held DEF Invoke
<1>5. Working(p)'
  BY <1>1, <1>4 DEF Starting, At, Clean, Working, Publishing
<1> QED BY <1>2, <1>3, <1>4, <1>5, IdleStays DEF FilesInv

LEMMA PreflightCrash ==
  ASSUME OneShotInv, CrashInv, NEW p \in Procs, Preflight(p)
  PROVE  CrashInv'
<1>1. /\ UNCHANGED <<ledger, artifacts, universe, chunks, marks, unsynced>>
      /\ UNCHANGED <<science, condemned>> /\ Evidence /\ TempsOK /\ Clean
  BY DEF Preflight, Others, history, CrashInv, FilesInv, Working, Starting
<1>2. Evidence'
  BY <1>1, EvidenceKept
<1>3. TempsOK'
  <2>1. temps \in [Stagings -> Seq(Directories \cup {"unlinked"})]
    BY <1>1 DEF TempsOK
  <2>2. temps' = WithoutLinked \/ temps' = temps
    BY DEF Preflight
  <2>3. /\ temps' \in [Stagings -> Seq(Directories \cup {"unlinked"})]
        /\ \A s \in Stagings : temps'[s] \in {temps[s], <<>>}
    <3> DEFINE T == Directories \cup {"unlinked"}
    <3>1. temps \in [Stagings -> Seq(T)] /\ <<>> \in Seq(T)
      BY <2>1
    <3> HIDE DEF T
    <3>2. CASE temps' = temps
      BY <3>1, <3>2 DEF T
    <3>3. CASE temps' = WithoutLinked
      <4>1. temps' \in [Stagings -> Seq(T)]
        BY <3>1, <3>3 DEF WithoutLinked
      <4>2. \A s \in Stagings : temps'[s] \in {temps[s], <<>>}
        BY <3>3, Zenon DEF WithoutLinked
      <4> QED BY <4>1, <4>2 DEF T
    <3> QED BY <2>2, <3>2, <3>3
  <2> QED BY <1>1, <2>3, TempsKept
<1>4. \A q \in Procs \ {p} : At(q, "idle")
  BY Alone DEF Preflight, At
<1>5. CASE End(p)
  BY <1>2, <1>3, <1>4, <1>5, EndCrash DEF FilesInv
<1>6. CASE ~Ended /\ Goto(p, "outer")
  <2>1. /\ proc'[p].pc = "outer" /\ \A q \in Procs \ {p} : proc'[q] = proc[q]
    BY <1>6, GotoHeld DEF OneShotInv, Steps
  <2>2. Clean' /\ ~Ended'
    BY <1>1, <1>6 DEF Clean, Ended
  <2>3. Working(p)'
    BY <2>1, <2>2 DEF Starting, At, Working, Publishing
  <2> QED BY <1>2, <1>3, <1>4, <2>1, <2>3, IdleStays DEF FilesInv
<1> QED BY <1>5, <1>6 DEF Preflight

LEMMA RecoverOuterCrash ==
  ASSUME OneShotInv, CrashInv, NEW p \in Procs, RecoverOuter(p)
  PROVE  CrashInv'
<1>1. /\ UNCHANGED <<ledger, artifacts, universe, chunks, marks, unsynced>>
      /\ UNCHANGED <<science, condemned>> /\ Evidence /\ TempsOK /\ Clean /\ ~Ended
  BY DEF RecoverOuter, Others, history, CrashInv, FilesInv, Working, Starting
<1>2. Evidence'
  BY <1>1, EvidenceKept
<1>3. TempsOK' /\ NoTemps({"artifacts", "events"})'
  <2>1. temps \in [Stagings -> Seq(Directories \cup {"unlinked"})]
    BY <1>1 DEF TempsOK
  <2>2. temps' = Cleared({"artifacts", "events"})
    BY DEF RecoverOuter
  <2>3. /\ temps' \in [Stagings -> Seq(Directories \cup {"unlinked"})]
        /\ \A s \in Stagings : temps'[s] \in {temps[s], <<>>}
    BY <2>1, <2>2 DEF Cleared
  <2>4. NoTemps({"artifacts", "events"})'
    BY <2>2 DEF Cleared, NoTemps, Stagings
  <2> QED BY <1>1, <2>3, <2>4, TempsKept
<1>4. \A q \in Procs \ {p} : At(q, "idle")
  BY Alone DEF RecoverOuter, At
<1>5. CASE End(p)
  BY <1>2, <1>3, <1>4, <1>5, EndCrash DEF FilesInv
<1>6. CASE Hold(p, proc[p].op, "internal", proc[p].at, proc[p].dir, 0, Recorded)
  <2>1. /\ proc \in [Procs -> Process] /\ proc[p] \in Process /\ Recorded \in SUBSET EventTypes
    BY <1>1 DEF OneShotInv, Recorded
  <2>2. /\ proc[p].op \in Operations /\ proc[p].at \in EventTypes /\ proc[p].dir \in Directories
        /\ 0 \in Nat /\ "internal" \in Steps
    BY <2>1 DEF Process, Steps
  <2>3. /\ proc'[p].pc = "internal" /\ proc'[p].known = Recorded
        /\ \A q \in Procs \ {p} : proc'[q] = proc[q]
    BY <1>6, <2>1, <2>2, Held
  <2>4. Clean' /\ ~Ended' /\ Recorded' = Recorded
    BY <1>1 DEF Clean, Ended, Recorded
  <2>5. Working(p)'
    BY <1>3, <2>3, <2>4 DEF Starting, At, Working, Publishing
  <2> QED BY <1>2, <1>3, <1>4, <2>3, <2>5, IdleStays DEF FilesInv
<1> QED BY <1>5, <1>6 DEF RecoverOuter

LEMMA RecoverInternalCrash ==
  ASSUME OneShotInv, CrashInv, NEW p \in Procs, RecoverInternal(p)
  PROVE  CrashInv'
<1>1. /\ UNCHANGED <<science, ledger, artifacts, universe, marks, condemned>>
      /\ Evidence /\ TempsOK /\ Clean /\ ~Ended
      /\ NoTemps({"artifacts", "events"}) /\ proc[p].known = Recorded
  BY DEF RecoverInternal, Others, history, CrashInv, FilesInv, Working, Starting
<1>2. Evidence' /\ unsynced' \subseteq unsynced
  <2>1. CASE DiscardChunk
    BY <1>1, <2>1, ChunkDiscarded
  <2>2. CASE UNCHANGED <<chunks, unsynced>>
    BY <1>1, <2>2, EvidenceKept
  <2> QED BY <2>1, <2>2 DEF RecoverInternal
<1>3. TempsOK' /\ NoTemps(Stagings)'
  <2>1. temps \in [Stagings -> Seq(Directories \cup {"unlinked"})]
    BY <1>1 DEF TempsOK
  <2>2. temps' = Cleared({"universe", "search"})
    BY DEF RecoverInternal
  <2>3. /\ temps' \in [Stagings -> Seq(Directories \cup {"unlinked"})]
        /\ \A s \in Stagings : temps'[s] \in {temps[s], <<>>}
    BY <2>1, <2>2 DEF Cleared
  <2>4. NoTemps(Stagings)'
    BY <1>1, <2>2 DEF Cleared, NoTemps, Stagings
  <2> QED BY <1>1, <1>2, <2>3, <2>4, TempsKept
<1>4. \A q \in Procs \ {p} : At(q, "idle")
  BY Alone DEF RecoverInternal, At
<1>5. CASE End(p)
  BY <1>2, <1>3, <1>4, <1>5, EndCrash DEF FilesInv
<1>6. CASE Goto(p, "precommit")
  <2>1. /\ proc'[p].pc = "precommit" /\ proc'[p].known = proc[p].known
        /\ \A q \in Procs \ {p} : proc'[q] = proc[q]
    BY <1>6, GotoHeld DEF OneShotInv, Steps
  <2>2. Clean' /\ ~Ended' /\ Recorded' = Recorded
    BY <1>1, <1>2 DEF Clean, Ended, Recorded
  <2>3. Working(p)'
    BY <1>1, <1>3, <2>1, <2>2 DEF Starting, At, Working, Publishing
  <2> QED BY <1>2, <1>3, <1>4, <2>1, <2>3, IdleStays DEF FilesInv
<1> QED BY <1>5, <1>6 DEF RecoverInternal

LEMMA PrecommitCrash ==
  ASSUME OneShotInv, CrashInv, NEW p \in Procs, Precommit(p)
  PROVE  CrashInv'
<1>1. /\ UNCHANGED <<science, ledger, artifacts, universe, chunks, marks, temps, unsynced>>
      /\ UNCHANGED condemned /\ Evidence /\ TempsOK /\ Clean /\ ~Ended
      /\ NoTemps(Stagings) /\ proc[p].known = Recorded
  BY DEF Precommit, Others, files, history, CrashInv, FilesInv, Working, Starting
<1>2. Evidence' /\ TempsOK'
  BY <1>1, EvidenceKept, TempsKept DEF TempsOK
<1>3. Clean' /\ ~Ended' /\ Recorded' = Recorded /\ NoTemps(Stagings)' /\ Due' = Due
  BY <1>1, Same DEF Clean, NoTemps
<1>4. /\ \A q \in Procs \ {p} : At(q, "idle")
      /\ proc \in [Procs -> Process]
  BY Alone DEF Precommit, At, OneShotInv
<1>5. CASE End(p)
  BY <1>2, <1>4, <1>5, EndCrash DEF FilesInv
<1>6. CASE ledger # <<>> /\ Goto(p, "resume")
  <2>1. /\ proc'[p].pc = "resume" /\ proc'[p].known = proc[p].known
        /\ \A q \in Procs \ {p} : proc'[q] = proc[q]
    BY <1>4, <1>6, GotoHeld DEF Steps
  <2>2. Working(p)'
    BY <1>1, <1>3, <1>6, <2>1 DEF Starting, At, Working, Publishing
  <2> QED BY <1>2, <1>4, <2>1, <2>2, IdleStays DEF FilesInv
<1>7. CASE ledger = <<>> /\ Work(p, "temp", "PRECOMMITTED", "artifacts")
  <2>1. /\ proc'[p].pc = "temp" /\ proc'[p].known = proc[p].known
        /\ proc'[p].at = "PRECOMMITTED" /\ proc'[p].dir = "artifacts"
        /\ \A q \in Procs \ {p} : proc'[q] = proc[q]
    <3>1. "temp" \in Steps /\ "PRECOMMITTED" \in EventTypes /\ "artifacts" \in Directories
      BY DEF Steps, Publishing, EventTypes, Directories
    <3> QED BY <1>4, <1>7, <3>1, WorkHeld
  <2>2. Due = "PRECOMMITTED"
    BY <1>7 DEF Due
  <2>3. Publication(p)'
    BY <1>3, <2>1 DEF Publication, At, Linked
  <2>4. Place(p)'
    BY <1>1, <1>7, <2>1 DEF Place, At, Linked, Internal, Frozen, Released
  <2>5. Pending(p)'
    BY <1>1, <1>3, <2>1, <2>2, <2>4 DEF Pending, At, Linked, Clean
  <2>6. Working(p)'
    BY <2>1, <2>3, <2>5 DEF Publishing, Working, Starting, At
  <2> QED BY <1>2, <1>4, <2>1, <2>6, IdleStays DEF FilesInv
<1> QED BY <1>5, <1>6, <1>7 DEF Precommit

LEMMA ResumeCrash ==
  ASSUME OneShotInv, CrashInv, NEW p \in Procs, Resume(p)
  PROVE  CrashInv'
<1>1. /\ UNCHANGED <<science, ledger, universe, chunks, marks, temps, condemned>>
      /\ Evidence /\ TempsOK /\ Clean /\ ~Ended
      /\ NoTemps(Stagings) /\ ledger # <<>> /\ proc[p].known \subseteq Recorded
      /\ proc[p].known = Recorded \/ Last = "PRECOMMITTED"
  BY DEF Resume, Others, history, CrashInv, FilesInv, Working, Starting
<1>2. /\ Evidence' /\ unsynced' \subseteq unsynced
      /\ Orphans' = {} /\ Recorded' = Recorded /\ Ended' = Ended
  BY <1>1, ArtifactDiscarded DEF Resume
<1>3. TempsOK' /\ NoTemps(Stagings)' /\ Clean' /\ Last' = Last /\ ledger' # <<>>
  BY <1>1, <1>2, TempsKept DEF TempsOK, NoTemps, Clean, Last
<1>4. /\ \A q \in Procs \ {p} : At(q, "idle")
      /\ proc \in [Procs -> Process]
  BY Alone DEF Resume, At, OneShotInv
<1>5. CASE End(p)
  BY <1>2, <1>3, <1>4, <1>5, EndCrash DEF FilesInv
<1>6. CASE Authorization \in Recorded /\ Goto(p, "fail")
  <2>1. proc'[p].pc = "fail" /\ \A q \in Procs \ {p} : proc'[q] = proc[q]
    BY <1>4, <1>6, GotoHeld DEF Steps
  <2>2. Earned' /\ unsynced' = {}
    BY <1>2, <1>3, <1>6 DEF Earned, Clean
  <2>3. Working(p)'
    BY <1>3, <2>1, <2>2 DEF Starting, At, Working, Publishing
  <2> QED BY <1>2, <1>3, <1>4, <2>1, <2>3, IdleStays DEF FilesInv
<1>7. CASE Work(p, "stage", "PRECOMMITTED", "artifacts")
  <2>1. /\ proc'[p].pc = "stage" /\ proc'[p].known = proc[p].known
        /\ proc'[p].at = "PRECOMMITTED"
        /\ \A q \in Procs \ {p} : proc'[q] = proc[q]
    <3>1. "stage" \in Steps /\ "PRECOMMITTED" \in EventTypes /\ "artifacts" \in Directories
      BY DEF Steps, EventTypes, Directories
    <3> QED BY <1>4, <1>7, <3>1, WorkHeld
  <2>2. "PRECOMMITTED" \in Recorded
    BY <1>1 DEF Evidence, Chain, Recorded
  <2>3. Ready(p)'
    BY <1>1, <1>2, <1>3, <2>1 DEF Ready
  <2>4. Working(p)'
    BY <1>1, <1>2, <1>3, <2>1, <2>2, <2>3 DEF Starting, At, Working, Publishing
  <2> QED BY <1>2, <1>3, <1>4, <2>1, <2>4, IdleStays DEF FilesInv
<1> QED BY <1>5, <1>6, <1>7 DEF Resume, Authorization

-----------------------------------------------------------------------------
(* The stages. *)

(* After an event that was replayed comes the next one recorded, after the *)
(* last one the event that is due.                                         *)
LEMMA NextStage ==
  ASSUME Chain, ~Ended, NEW at \in Recorded, NEW known \in SUBSET Recorded,
         known = Recorded \/ at = Last
  PROVE  /\ Successor(at) \in known => known = Recorded
         /\ Successor(at) \notin known => Successor(at) = Due
<1>1. PICK i \in DOMAIN ledger : ledger[i] = at
  BY DEF Recorded
<1>2. /\ ledger \in Seq(EventTypes) /\ ledger # <<>> /\ Len(ledger) \in Nat
      /\ DOMAIN ledger = 1..Len(ledger) /\ Last = ledger[Len(ledger)]
  BY <1>1 DEF Chain, Last
<1>3. at = Last => Successor(at) = Due /\ Due \notin Recorded
  BY <1>2, DueFacts DEF Due
<1>4. ASSUME at # Last PROVE Successor(at) \in Recorded
  <2>1. i + 1 \in DOMAIN ledger /\ i + 1 # 1 /\ (i + 1) - 1 = i
    BY <1>1, <1>2, <1>4
  <2>2. ledger[i + 1] \in {Successor(at), "FAILED"}
    BY <1>1, <2>1 DEF Chain
  <2>3. "FAILED" \notin Recorded /\ ledger[i + 1] \in Recorded
    BY <2>1, EndedBy DEF Recorded
  <2> QED BY <2>2, <2>3
<1> QED BY <1>3, <1>4

LEMMA AdvanceCrash ==
  ASSUME OneShotInv, CrashInv, NEW p \in Procs, Advance(p)
  PROVE  CrashInv'
<1> DEFINE e == Successor(proc[p].at)
<1>1. /\ UNCHANGED <<science, ledger, artifacts, universe, chunks, marks, temps, unsynced>>
      /\ Evidence /\ TempsOK /\ Ready(p) /\ proc[p].at \in Recorded
      /\ proc[p].known = Recorded \/ proc[p].at = Last
  BY DEF Advance, files, CrashInv, FilesInv, Working
<1>2. condemned' = condemned
  BY Zenon DEF Advance, history, Call
<1>3. Evidence' /\ TempsOK'
  BY <1>1, <1>2, EvidenceKept, TempsKept DEF TempsOK
<1>4. /\ Clean' /\ ~Ended' /\ Recorded' = Recorded /\ NoTemps(Stagings)'
      /\ Due' = Due /\ Last' = Last /\ Orphans' = {} /\ ledger' # <<>>
      /\ proc[p].known \subseteq Recorded /\ Clean
  BY <1>1, Same DEF Ready, Clean, NoTemps
<1>5. /\ \A q \in Procs \ {p} : At(q, "idle")
      /\ proc \in [Procs -> Process] /\ proc[p] \in Process
  BY Alone DEF Advance, At, OneShotInv
<1>6. e \in EventTypes
  BY <1>5, Followers DEF Process
<1>7. /\ e \in proc[p].known => proc[p].known = Recorded
      /\ e \notin proc[p].known => e = Due
  BY <1>1, <1>4, NextStage DEF Ready, Evidence
<1>8. PICK step \in {"stage", "service", "fail", "temp"} :
        /\ Work(p, step, e, "artifacts")
        /\ step = "stage" => e \in proc[p].known
        /\ step = "service" => e \notin proc[p].known /\ e \in Served
        /\ step = "fail" => e \notin proc[p].known /\ e = "COMPLETED" /\ ~(LeafSet(0) /\ chunks = marks)
        /\ step = "temp" => e \notin proc[p].known /\ e \notin Served
  <2> DEFINE known == proc[p].known
  <2> DEFINE ready == LeafSet(0) /\ chunks = marks
  <2> DEFINE next == CASE e \in known -> "stage"
                       [] e \notin known /\ e \in Served -> "service"
                       [] e \notin known /\ e = "COMPLETED" /\ ~ready -> "fail"
                       [] OTHER -> "temp"
  <2>1. Work(p, next, e, "artifacts")
    BY Zenon DEF Advance
  <2>2. "COMPLETED" \notin Served
    BY DEF Served
  <2> HIDE DEF known, ready, e
  <2>3. \/ next = "stage" /\ e \in known
        \/ next = "service" /\ e \notin known /\ e \in Served
        \/ next = "fail" /\ e \notin known /\ e = "COMPLETED" /\ ~ready
        \/ next = "temp" /\ e \notin known /\ e \notin Served
    <3>1. CASE e \in known
      BY <2>2, <3>1
    <3>2. CASE e \notin known /\ e \in Served
      BY <2>2, <3>2
    <3>3. CASE e \notin known /\ e \notin Served /\ e = "COMPLETED" /\ ~ready
      BY <2>2, <3>3
    <3>4. CASE e \notin known /\ e \notin Served /\ ~(e = "COMPLETED" /\ ~ready)
      BY <3>4
    <3> QED BY <3>1, <3>2, <3>3, <3>4
  <2> HIDE DEF next
  <2> QED BY <2>1, <2>3 DEF known, ready
<1> HIDE DEF e
<1>9. /\ proc'[p].pc = step /\ proc'[p].at = e /\ proc'[p].dir = "artifacts"
      /\ proc'[p].known = proc[p].known
      /\ \A q \in Procs \ {p} : proc'[q] = proc[q]
  BY <1>5, <1>6, <1>8, WorkHeld DEF Steps, Publishing, Directories
<1>10. Ready(p)'
  BY <1>4, <1>9 DEF Ready
<1>11. CASE step = "stage"
  <2>1. Working(p)'
    BY <1>4, <1>7, <1>8, <1>9, <1>10, <1>11 DEF Working, Starting, At, Publishing
  <2> QED BY <1>3, <1>5, <1>9, <2>1, IdleStays DEF FilesInv
<1>12. CASE step = "service"
  <2>1. Working(p)'
    BY <1>4, <1>7, <1>8, <1>9, <1>10, <1>12 DEF Working, Starting, At, Publishing
  <2> QED BY <1>3, <1>5, <1>9, <2>1, IdleStays DEF FilesInv
<1>13. CASE step = "fail"
  <2>1. Released \in Recorded /\ Due = "COMPLETED"
    BY <1>1, <1>7, <1>8, <1>13, DueFacts DEF Ready, Evidence
  <2>2. chunks = marks
    BY <1>1, <2>1, ChunksType DEF Evidence, Stores, StoreSound, ReleasesClosed, Released
  <2>3. Orphans = {} /\ Cardinality(Orphans) = 0
    BY <1>1, FS_EmptySet DEF Ready
  <2>4. LeafSet(0)
    BY <1>1, <2>3 DEF LeafSet, Evidence, OneOrphan
  <2> QED BY <1>8, <1>13, <2>2, <2>4
<1>14. CASE step = "temp"
  <2>1. e = Due /\ e \notin {Frozen, Released}
    BY <1>7, <1>8, <1>14 DEF Served, Frozen, Released
  <2>2. Publication(p)'
    BY <1>4, <1>9, <1>14 DEF Publication, At, Linked
  <2>3. Place(p)'
    BY <1>4, <1>9, <1>14, <2>1 DEF Place, At, Linked, Internal
  <2>4. Pending(p)'
    BY <1>4, <1>9, <1>14, <2>1, <2>3 DEF Pending, At, Linked, Clean
  <2>5. Working(p)'
    BY <1>9, <1>14, <2>2, <2>4 DEF Publishing, Working, Starting, At
  <2> QED BY <1>3, <1>5, <1>9, <2>5, IdleStays DEF FilesInv
<1> QED BY <1>11, <1>12, <1>13, <1>14

LEMMA ServeCrash ==
  ASSUME OneShotInv, CrashInv, NEW p \in Procs, Serve(p)
  PROVE  CrashInv'
<1>1. /\ UNCHANGED <<science, ledger, artifacts, universe, chunks, marks, temps, unsynced>>
      /\ UNCHANGED condemned
      /\ Evidence /\ TempsOK /\ Ready(p) /\ proc[p].at = Due
  BY DEF Serve, files, Others, history, CrashInv, FilesInv, Working
<1>2. Evidence' /\ TempsOK'
  BY <1>1, EvidenceKept, TempsKept DEF TempsOK
<1>3. /\ Clean' /\ ~Ended' /\ Recorded' = Recorded /\ NoTemps(Stagings)'
      /\ Due' = Due /\ Orphans' = {} /\ proc[p].known \subseteq Recorded /\ ledger' # <<>>
  BY <1>1, Same DEF Ready, Clean, NoTemps
<1>4. /\ \A q \in Procs \ {p} : At(q, "idle")
      /\ proc \in [Procs -> Process] /\ proc[p] \in Process /\ proc[p].at \in EventTypes
  BY Alone DEF Serve, At, OneShotInv, Process
<1>5. /\ universe \in 0..Chunks /\ marks \in 0..Chunks /\ chunks \in 0..Chunks
      /\ StoreSound /\ Chunks \in Nat
  BY <1>1, ChunksType DEF Evidence, Stores
<1>6. PICK dir \in Directories :
        /\ Work(p, "temp", proc[p].at, dir)
        /\ dir = "artifacts" => /\ proc[p].at = Frozen => ~(universe < Chunks)
                                /\ proc[p].at = Released => ~(marks < Chunks)
        /\ dir = "universe" => proc[p].at = Frozen /\ universe < Chunks
        /\ dir = "chunks" => proc[p].at = Released /\ marks < Chunks /\ chunks = marks
        /\ dir = "marks" => proc[p].at = Released /\ marks < Chunks /\ chunks # marks
        /\ dir # "events"
  <2>1. CASE proc[p].at = "SEARCH_UNIVERSE_FROZEN" /\ universe < Chunks
    <3>1. Work(p, "temp", proc[p].at, "universe")
      BY <2>1, Zenon DEF Serve
    <3> QED BY <2>1, <3>1 DEF Frozen, Directories
  <2>2. CASE proc[p].at = "SEARCH_RESULTS_RELEASED" /\ marks < Chunks
    <3>1. Work(p, "temp", proc[p].at, IF chunks = marks THEN "chunks" ELSE "marks")
      BY <2>2, Zenon DEF Serve
    <3> QED BY <2>2, <3>1 DEF Released, Directories
  <2>3. CASE /\ ~(proc[p].at = "SEARCH_UNIVERSE_FROZEN" /\ universe < Chunks)
             /\ ~(proc[p].at = "SEARCH_RESULTS_RELEASED" /\ marks < Chunks)
    <3>1. Work(p, "temp", proc[p].at, "artifacts")
      BY <2>3, Zenon DEF Serve
    <3> QED BY <2>3, <3>1 DEF Frozen, Released, Directories
  <2> QED BY <2>1, <2>2, <2>3
<1>7. /\ proc'[p].pc = "temp" /\ proc'[p].at = proc[p].at /\ proc'[p].dir = dir
      /\ proc'[p].known = proc[p].known
      /\ \A q \in Procs \ {p} : proc'[q] = proc[q]
  BY <1>4, <1>6, WorkHeld DEF Steps, Publishing
<1>8. Publication(p)'
  BY <1>3, <1>7 DEF Publication, At, Linked
<1>9. Place(p)'
  <2>1. dir = "marks" => chunks = marks + 1
    BY <1>5, <1>6 DEF StoreSound
  <2>2. dir = "artifacts" => /\ proc[p].at = Frozen => universe = Chunks
                             /\ proc[p].at = Released => marks = Chunks
    BY <1>5, <1>6
  <2> QED BY <1>1, <1>3, <1>6, <1>7, <2>1, <2>2 DEF Place, At, Linked
<1>10. Pending(p)'
  BY <1>1, <1>3, <1>6, <1>7, <1>9 DEF Pending, At, Linked, Clean
<1>11. Working(p)'
  BY <1>7, <1>8, <1>10 DEF Publishing, Working, Starting, At
<1> QED BY <1>2, <1>4, <1>7, <1>11, IdleStays DEF FilesInv

-----------------------------------------------------------------------------
(* Publications. *)

(* What the publication at work says of the files.                         *)
LEMMA PublicationAt ==
  ASSUME OneShotInv, CrashInv, NEW p \in Procs, proc[p].pc \in Publishing
  PROVE  /\ Evidence /\ TempsOK /\ TempsType
         /\ Publication(p) /\ (Pending(p) \/ Written(p) \/ Failing(p))
         /\ \A q \in Procs \ {p} : At(q, "idle")
         /\ proc \in [Procs -> Process] /\ proc[p].op \in Operations
         /\ proc[p].at \in EventTypes /\ proc[p].dir \in Directories
         /\ proc[p].known \in SUBSET EventTypes /\ Len(ledger) \in Nat
<1>1. proc[p] \in Process /\ ~At(p, "idle") /\ ledger \in Seq(EventTypes)
  BY DEF OneShotInv, Publishing, At
<1>2. \A q \in Procs \ {p} : At(q, "idle")
  BY <1>1, Alone
<1>3. Publication(p) /\ (Pending(p) \/ Written(p) \/ Failing(p))
  BY DEF CrashInv, Working
<1>4. Evidence /\ TempsOK /\ TempsType
  BY DEF CrashInv, FilesInv, TempsOK, TempsType
<1>5. proc \in [Procs -> Process]
  BY DEF OneShotInv
<1> QED BY <1>1, <1>2, <1>3, <1>4, <1>5 DEF Process

LEMMA StageCrash ==
  ASSUME OneShotInv, CrashInv, NEW p \in Procs, Stage(p)
  PROVE  CrashInv'
<1>1. /\ UNCHANGED <<science, ledger, artifacts, universe, chunks, marks, unsynced, condemned>>
      /\ At(p, "temp") /\ proc[p].pc \in Publishing
  BY DEF Stage, Others, history, At, Publishing
<1>2. /\ Evidence /\ TempsOK /\ TempsType
      /\ Publication(p) /\ (Pending(p) \/ Written(p) \/ Failing(p))
      /\ \A q \in Procs \ {p} : At(q, "idle")
      /\ proc \in [Procs -> Process] /\ proc[p].op \in Operations
      /\ proc[p].at \in EventTypes /\ proc[p].dir \in Directories
      /\ proc[p].known \in SUBSET EventTypes /\ Len(ledger) \in Nat
  BY <1>1, PublicationAt
<1>3. /\ NoTemps(Stagings) /\ (Pending(p) \/ Failing(p)) /\ ~Ended
  BY <1>1, <1>2 DEF Publication, Written, Linked, At, Pending, Failing
<1>4. Evidence' /\ ~Ended' /\ Recorded' = Recorded /\ Due' = Due /\ Orphans' = Orphans
  BY <1>1, <1>2, <1>3, EvidenceKept, Same
<1>5. ~(proc[p].dir = "artifacts" /\ Orphans \ {proc[p].at} # {})
  BY <1>2, <1>3 DEF Pending, Failing, Evidence, OneOrphan
<1>6. LegalNext(proc[p].at)
  <2>1. CASE Pending(p)
    BY <1>2, <2>1, DueFacts DEF Pending, Evidence
  <2>2. CASE Failing(p)
    <3>1. ledger # <<>> /\ Last \in Recorded /\ Last = ledger[Len(ledger)]
      BY <1>2, <2>2 DEF Failing, Evidence, Chain, Last, Recorded
    <3>2. Last \in EventTypes \ Terminals
      BY <1>2, <1>3, <3>1, LastIsLatest DEF Evidence, Ended
    <3> QED BY <2>2, <3>1, <3>2 DEF Failing, LegalNext, Predecessors
  <2> QED BY <1>3, <2>1, <2>2
<1> PICK dir \in Directories : dir = proc[p].dir
  BY <1>2
<1>7. CASE proc[p].dir = "artifacts" /\ Orphans = {proc[p].at} /\ Proceed(p) /\ UNCHANGED temps
  <2>1. Work(p, "temp", proc[p].at, "events")
    BY <1>7 DEF Proceed
  <2>2. /\ proc'[p].pc = "temp" /\ proc'[p].at = proc[p].at /\ proc'[p].dir = "events"
        /\ proc'[p].known = proc[p].known
        /\ \A q \in Procs \ {p} : proc'[q] = proc[q]
    BY <1>2, <2>1, WorkHeld DEF Steps, Publishing, Directories
  <2>3. Pending(p) /\ Place(p) /\ unsynced = {}
    BY <1>1, <1>3, <1>7 DEF Pending, Failing, At
  <2>4. Publication(p)' /\ NoTemps(Stagings)' /\ TempsType'
    BY <1>2, <1>3, <1>7, <2>2 DEF Publication, At, Linked, NoTemps, TempsType
  <2>5. Place(p)'
    BY <1>1, <1>4, <1>7, <2>2, <2>3 DEF Place, At, Linked, Internal
  <2>6. Pending(p)'
    BY <1>1, <1>4, <2>2, <2>3, <2>5 DEF Pending, At, Linked
  <2>7. Working(p)'
    BY <2>2, <2>4, <2>6 DEF Publishing, Working, Starting, At
  <2> QED BY <1>2, <1>4, <2>2, <2>4, <2>7, IdleStays, NoTempsOK DEF FilesInv
<1>8. CASE /\ ~(proc[p].dir = "artifacts" /\ Orphans = {proc[p].at})
           /\ WriteTemp(proc[p].dir)
           /\ Hold(p, proc[p].op, "link", proc[p].at, proc[p].dir, Len(ledger) + 1,
                   proc[p].known)
  <2>1. /\ proc'[p].pc = "link" /\ proc'[p].at = proc[p].at /\ proc'[p].dir = proc[p].dir
        /\ proc'[p].known = proc[p].known /\ proc'[p].seq = Len(ledger) + 1
        /\ \A q \in Procs \ {p} : proc'[q] = proc[q]
    <3>1. "link" \in Steps /\ Len(ledger) + 1 \in Nat
      BY <1>2 DEF Steps, Publishing
    <3> QED BY <1>2, <1>8, <3>1, Held, HeldNumber
  <2>2. TempsType' /\ OneTemp(StagingOf(dir), "unlinked")'
    BY <1>2, <1>3, <1>8, TempsOneOf
  <2>3. Publication(p)'
    BY <1>1, <2>1, <2>2 DEF Publication, At, Linked
  <2>4. Pending(p)' \/ Failing(p)'
    <3>1. CASE Pending(p)
      <4>1. Place(p) /\ proc[p].at = Due /\ Orphans \subseteq {Due}
        BY <1>2, <3>1 DEF Pending, Evidence, OneOrphan
      <4>2. dir = "artifacts" => Orphans = {}
        BY <1>8, <4>1
      <4>3. Place(p)'
        BY <1>1, <1>4, <2>1, <4>1, <4>2 DEF Place, At, Linked
      <4> QED BY <1>1, <1>4, <2>1, <3>1, <4>3 DEF Pending, At, Linked
    <3>2. CASE Failing(p)
      BY <1>1, <1>4, <2>1, <3>2 DEF Failing, At, Linked, Earned
    <3> QED BY <1>3, <3>1, <3>2
  <2>5. Working(p)'
    BY <2>1, <2>3, <2>4 DEF Publishing, Working, Starting, At
  <2>6. TempsOK'
    <3> QED BY <1>2, <1>4, <2>1, <2>2, <2>4, PublicationOK
  <2> QED BY <1>2, <1>4, <2>1, <2>5, <2>6, IdleStays DEF FilesInv
<1>9. \/ /\ proc[p].dir = "artifacts" /\ Orphans = {proc[p].at} /\ Proceed(p)
         /\ UNCHANGED temps
      \/ /\ ~(proc[p].dir = "artifacts" /\ Orphans = {proc[p].at})
         /\ WriteTemp(proc[p].dir)
         /\ Hold(p, proc[p].op, "link", proc[p].at, proc[p].dir, Len(ledger) + 1,
                 proc[p].known)
  <2>1. CASE proc[p].dir = "artifacts" /\ Orphans = {proc[p].at}
    BY <1>5, <1>6, <2>1, Zenon DEF Stage
  <2>2. CASE ~(proc[p].dir = "artifacts" /\ Orphans = {proc[p].at})
    BY <1>5, <1>6, <2>2, Zenon DEF Stage
  <2> QED BY <2>1, <2>2
<1> QED BY <1>7, <1>8, <1>9

LEMMA LinkCrash ==
  ASSUME OneShotInv, CrashInv, NEW p \in Procs, Link(p)
  PROVE  CrashInv'
<1>1. /\ UNCHANGED <<science, condemned>>
      /\ At(p, "link") /\ proc[p].pc \in Publishing
  BY DEF Link, Others, history, At, Publishing
<1>2. /\ Evidence /\ TempsOK /\ TempsType
      /\ Publication(p) /\ (Pending(p) \/ Written(p) \/ Failing(p))
      /\ \A q \in Procs \ {p} : At(q, "idle")
      /\ proc \in [Procs -> Process] /\ proc[p].op \in Operations
      /\ proc[p].at \in EventTypes /\ proc[p].dir \in Directories
      /\ proc[p].known \in SUBSET EventTypes /\ Len(ledger) \in Nat
  BY <1>1, PublicationAt
<1> PICK dir \in Directories : dir = proc[p].dir
  BY <1>2
<1> PICK e \in EventTypes : e = proc[p].at
  BY <1>2
<1>3. /\ OneTemp(StagingOf(dir), "unlinked") /\ proc[p].seq = Len(ledger) + 1
      /\ (Pending(p) \/ Failing(p)) /\ ~Ended /\ ~Linked(p)
  BY <1>1, <1>2 DEF Publication, Written, Linked, At, Pending, Failing
<1>4. LinkEntry(dir, e) /\ Goto(p, "sync")
  BY <1>2, <1>3 DEF Link
<1>5. /\ proc'[p].pc = "sync" /\ proc'[p].at = e /\ proc'[p].dir = dir
      /\ proc'[p].known = proc[p].known
      /\ \A q \in Procs \ {p} : proc'[q] = proc[q]
  BY <1>2, <1>4, GotoHeld DEF Steps, Publishing
<1>6. TempsType' /\ OneTemp(StagingOf(dir), dir)'
  BY <1>2, <1>3, <1>4, TempsOneOf DEF LinkEntry
<1>7. Publication(p)'
  BY <1>5, <1>6 DEF Publication, At, Linked
<1>8. ASSUME Evidence', Pending(p)' \/ Written(p)' \/ Failing(p)',
             (~Ended' /\ Pending(p)') \/ dir = "events"
      PROVE  CrashInv'
  <2>1. Working(p)'
    BY <1>5, <1>7, <1>8 DEF Publishing, Working, Starting, At
  <2>2. CASE ~Ended' /\ Pending(p)'
    <3>1. TempsOK'
      BY <1>5, <1>6, <1>8, <2>2, PublicationOK
    <3> QED BY <1>2, <1>5, <1>8, <2>1, <3>1, IdleStays DEF FilesInv
  <2>3. CASE dir = "events"
    <3>1. StagingOf(dir) = "events" /\ "events" \in Stagings
      BY <2>3 DEF StagingOf, Stagings
    <3>2. TempsOK'
      BY <1>6, <2>3, <3>1, OneTempOK
    <3> QED BY <1>2, <1>5, <1>8, <2>1, <3>2, IdleStays DEF FilesInv
  <2> QED BY <1>8, <2>2, <2>3
<1>9. CASE Failing(p)
  <2>1. /\ e = "FAILED" /\ dir = "events" /\ Earned /\ ledger # <<>> /\ Orphans = {}
        /\ chunks = marks /\ \A u \in unsynced : u = <<"events", Len(ledger)>>
    BY <1>3, <1>9 DEF Failing
  <2>2. /\ Evidence' /\ UNCHANGED <<artifacts, universe, chunks, marks>>
        /\ Last' = e /\ Recorded' = Recorded \cup {e} /\ ledger' # <<>> /\ Orphans' = {}
        /\ unsynced' = unsynced \cup {<<"events", Len(ledger')>>}
    BY <1>1, <1>2, <1>3, <1>4, <2>1, EventLinked DEF Earned
  <2>3. Failing(p)'
    <3>1. \A u \in unsynced' : u[1] = "events"
      BY <2>1, <2>2
    <3>2. Earned'
      BY <1>1, <2>1, <2>2 DEF Earned
    <3> QED BY <1>5, <2>1, <2>2, <3>1, <3>2 DEF Failing, At, Linked
  <2> QED BY <1>8, <2>1, <2>2, <2>3
<1>10. CASE Pending(p)
  <2>1. /\ e = Due /\ unsynced = {} /\ Place(p) /\ proc[p].known \subseteq Recorded
        /\ ~Linked(p) /\ At(p, "link")
    BY <1>1, <1>3, <1>10 DEF Pending, At
  <2>2. /\ Due \in EventTypes \ {"FAILED"} /\ Due \notin Recorded
        /\ Due = "PRECOMMITTED" <=> ledger = <<>>
        /\ Due = Released => Frozen \in Recorded /\ Released \notin Recorded
        /\ Due = Frozen => Frozen \notin Recorded
    BY <1>2, <1>3, DueFacts DEF Evidence
  <2>3. CASE dir = "artifacts"
    <3>1. Orphans = {} /\ (e = Frozen => universe = Chunks) /\ (e = Released => marks = Chunks)
      BY <2>1, <2>3 DEF Place
    <3>2. /\ Evidence' /\ UNCHANGED <<ledger, universe, chunks, marks>>
          /\ Orphans' = {Due} /\ unsynced' = {<<"artifacts", Due>>}
      BY <1>1, <1>2, <1>3, <1>4, <2>1, <2>3, <3>1, ArtifactLinked
    <3>3. Recorded' = Recorded /\ Ended' = Ended /\ Due' = Due
      BY <1>1, <3>2 DEF Recorded, Ended, Due, Last, Successor
    <3>4. Place(p)'
      BY <1>5, <2>1, <2>3, <3>1, <3>2 DEF Place, At, Linked, Internal
    <3>5. Pending(p)'
      BY <1>3, <1>5, <2>1, <2>3, <3>2, <3>3, <3>4 DEF Pending, At, Linked, Entry
    <3> QED BY <1>3, <1>8, <3>2, <3>3, <3>5
  <2>4. CASE dir = "events"
    <3>1. /\ Orphans = {Due}
          /\ (e = Frozen => universe = Chunks) /\ (e = Released => marks = Chunks)
      BY <2>1, <2>4 DEF Place
    <3>2. /\ Evidence' /\ Last' = e /\ Recorded' = Recorded \cup {e} /\ ledger' # <<>>
          /\ Orphans' = {} /\ unsynced' = {<<"events", Len(ledger')>>}
      BY <1>1, <1>2, <1>3, <1>4, <2>1, <2>4, <3>1, EventLinked
    <3>3. Written(p)'
      BY <1>5, <2>1, <2>2, <2>4, <3>2 DEF Written, At, Linked
    <3> QED BY <1>8, <2>4, <3>2, <3>3
  <2>5. CASE dir \in Internal
    <3>1. /\ dir = "universe" => e = Frozen /\ universe < Chunks
          /\ dir = "chunks" => e = Released /\ marks < Chunks /\ chunks = marks
          /\ dir = "marks" => e = Released /\ chunks = marks + 1
          /\ Orphans = {} /\ ledger # <<>>
      BY <2>1, <2>2, <2>5 DEF Place, Internal, Frozen, Released
    <3>2. /\ Evidence' /\ UNCHANGED <<ledger, artifacts>>
          /\ universe' = IF dir = "universe" THEN universe + 1 ELSE universe
          /\ chunks' = IF dir = "chunks" THEN chunks + 1 ELSE chunks
          /\ marks' = IF dir = "marks" THEN marks + 1 ELSE marks
          /\ unsynced' = {<<dir, Entry(dir, e)'>>}
      BY <1>1, <1>2, <1>3, <1>4, <2>1, <2>2, <2>5, <3>1, StoreLinked
    <3>3. /\ Recorded' = Recorded /\ Referenced' = Referenced /\ Orphans' = Orphans
          /\ Ended' = Ended /\ Due' = Due
      BY <1>1, <3>2, Same
    <3>4. Place(p)'
      BY <1>5, <2>5, <3>1, <3>2, <3>3 DEF Place, At, Linked, Internal
    <3>5. Pending(p)'
      BY <1>3, <1>5, <2>1, <2>5, <3>2, <3>3, <3>4 DEF Pending, At, Linked, Internal
    <3> QED BY <1>3, <1>8, <3>2, <3>3, <3>5
  <2> QED BY <2>3, <2>4, <2>5 DEF Directories, Internal
<1> QED BY <1>3, <1>9, <1>10

LEMMA SyncCrash ==
  ASSUME OneShotInv, CrashInv, NEW p \in Procs, Sync(p)
  PROVE  CrashInv'
<1>1. /\ UNCHANGED <<science, ledger, artifacts, universe, chunks, marks, temps, condemned>>
      /\ At(p, "sync") /\ proc[p].pc \in Publishing /\ Linked(p)
      /\ unsynced' = Synced(proc[p].dir) /\ Goto(p, "unlink")
  BY DEF Sync, Others, history, At, Publishing, Linked
<1>2. /\ Evidence /\ TempsOK /\ TempsType
      /\ Publication(p) /\ (Pending(p) \/ Written(p) \/ Failing(p))
      /\ \A q \in Procs \ {p} : At(q, "idle")
      /\ proc \in [Procs -> Process] /\ proc[p].op \in Operations
      /\ proc[p].at \in EventTypes /\ proc[p].dir \in Directories
      /\ proc[p].known \in SUBSET EventTypes /\ Len(ledger) \in Nat
  BY <1>1, PublicationAt
<1>3. unsynced' = {}
  <2>1. CASE Pending(p)
    BY <1>1, <2>1 DEF Pending, Synced, At
  <2>2. CASE Written(p)
    BY <1>1, <2>2 DEF Written, Synced, At
  <2>3. CASE Failing(p)
    BY <1>1, <2>3 DEF Failing, Synced
  <2> QED BY <1>2, <2>1, <2>2, <2>3
<1>4. Evidence' /\ TempsOK'
  BY <1>1, <1>2, <1>3, EvidenceKept, TempsKept DEF TempsType
<1>5. /\ Recorded' = Recorded /\ Referenced' = Referenced /\ Orphans' = Orphans
      /\ Ended' = Ended /\ Due' = Due /\ Last' = Last
  BY <1>1, Same
<1>6. /\ proc'[p].pc = "unlink" /\ proc'[p].at = proc[p].at /\ proc'[p].dir = proc[p].dir
      /\ proc'[p].known = proc[p].known
      /\ \A q \in Procs \ {p} : proc'[q] = proc[q]
  BY <1>1, <1>2, GotoHeld DEF Steps, Publishing
<1>7. Publication(p)'
  BY <1>1, <1>2, <1>6 DEF Publication, At, Linked, OneTemp, NoTemps
<1>8. Pending(p)' \/ Written(p)' \/ Failing(p)'
  <2>1. CASE Pending(p)
    <3>1. Place(p)'
      BY <1>1, <1>5, <1>6, <2>1 DEF Pending, Place, At, Linked
    <3> QED BY <1>1, <1>3, <1>5, <1>6, <2>1, <3>1 DEF Pending, At, Linked
  <2>2. CASE Written(p)
    BY <1>1, <1>3, <1>5, <1>6, <2>2 DEF Written, At, Linked
  <2>3. CASE Failing(p)
    BY <1>1, <1>3, <1>5, <1>6, <2>3 DEF Failing, At, Linked, Earned
  <2> QED BY <1>2, <2>1, <2>2, <2>3
<1>9. Working(p)'
  BY <1>6, <1>7, <1>8 DEF Publishing, Working, Starting, At
<1> QED BY <1>2, <1>4, <1>6, <1>9, IdleStays DEF FilesInv

LEMMA UnlinkCrash ==
  ASSUME OneShotInv, CrashInv, NEW p \in Procs, Unlink(p)
  PROVE  CrashInv'
<1>1. /\ UNCHANGED <<science, ledger, artifacts, universe, chunks, marks, unsynced, condemned>>
      /\ At(p, "unlink") /\ proc[p].pc \in Publishing /\ Linked(p)
      /\ UnlinkTemp(proc[p].dir) /\ Proceed(p)
  BY DEF Unlink, Others, history, At, Publishing, Linked
<1>2. /\ Evidence /\ TempsOK /\ TempsType
      /\ Publication(p) /\ (Pending(p) \/ Written(p) \/ Failing(p))
      /\ \A q \in Procs \ {p} : At(q, "idle")
      /\ proc \in [Procs -> Process] /\ proc[p].op \in Operations
      /\ proc[p].at \in EventTypes /\ proc[p].dir \in Directories
      /\ proc[p].known \in SUBSET EventTypes /\ Len(ledger) \in Nat
  BY <1>1, PublicationAt
<1> PICK dir \in Directories : dir = proc[p].dir
  BY <1>2
<1>3. unsynced = {}
  <2>1. CASE Failing(p)
    BY <1>1, <2>1 DEF Failing
  <2> QED BY <1>1, <1>2, <2>1 DEF Pending, Written, At
<1>4. TempsType' /\ NoTemps(Stagings)'
  BY <1>1, <1>2, TempsOneOf DEF Publication
<1>5. Evidence' /\ TempsOK'
  BY <1>1, <1>2, <1>4, EvidenceKept, NoTempsOK
<1>6. /\ Recorded' = Recorded /\ Referenced' = Referenced /\ Orphans' = Orphans
      /\ Ended' = Ended /\ Due' = Due /\ Last' = Last
  BY <1>1, Same
<1>7. CASE End(p)
  BY <1>2, <1>5, <1>7, EndCrash DEF FilesInv
<1>8. CASE dir = "artifacts"
  <2>1. Work(p, "temp", proc[p].at, "events")
    BY <1>1, <1>8 DEF Proceed
  <2>2. /\ proc'[p].pc = "temp" /\ proc'[p].at = proc[p].at /\ proc'[p].dir = "events"
        /\ proc'[p].known = proc[p].known
        /\ \A q \in Procs \ {p} : proc'[q] = proc[q]
    BY <1>2, <2>1, WorkHeld DEF Steps, Publishing, Directories
  <2>3. Pending(p) /\ Place(p)
    BY <1>2, <1>8 DEF Pending, Failing, Written
  <2>4. Publication(p)'
    BY <1>4, <2>2 DEF Publication, At, Linked
  <2>5. Place(p)'
    BY <1>1, <1>6, <1>8, <2>2, <2>3 DEF Place, At, Linked, Internal
  <2>6. Pending(p)'
    BY <1>1, <1>3, <1>6, <2>2, <2>3, <2>5 DEF Pending, At, Linked
  <2>7. Working(p)'
    BY <2>2, <2>4, <2>6 DEF Publishing, Working, Starting, At
  <2> QED BY <1>2, <1>5, <2>2, <2>7, IdleStays DEF FilesInv
<1>9. CASE dir \in Internal
  <2>1. Goto(p, "service")
    BY <1>1, <1>9 DEF Proceed, Internal
  <2>2. /\ proc'[p].pc = "service" /\ proc'[p].at = proc[p].at
        /\ proc'[p].known = proc[p].known
        /\ \A q \in Procs \ {p} : proc'[q] = proc[q]
    BY <1>2, <2>1, GotoHeld DEF Steps
  <2>3. Pending(p) /\ Place(p) /\ ~Ended
    BY <1>2, <1>9 DEF Pending, Failing, Written, Internal
  <2>4. proc[p].at \in {Frozen, Released} /\ Orphans = {} /\ proc[p].at = Due
    BY <1>9, <2>3 DEF Place, Pending, Internal
  <2>5. ledger # <<>> /\ proc[p].at \in Served
    BY <2>4 DEF Due, Frozen, Released, Served
  <2>6. Ready(p)'
    BY <1>1, <1>3, <1>4, <1>6, <2>2, <2>3, <2>4, <2>5 DEF Ready, Clean, Pending
  <2>7. Working(p)'
    BY <1>6, <2>2, <2>4, <2>5, <2>6 DEF Publishing, Working, Starting, At
  <2> QED BY <1>2, <1>5, <2>2, <2>7, IdleStays DEF FilesInv
<1>10. CASE dir = "events" /\ ~End(p)
  <2>1. /\ proc[p].at \notin Terminals
        /\ \/ proc[p].at = "PRECOMMITTED" /\ Goto(p, "resume")
           \/ Goto(p, "stage")
    BY <1>1, <1>10, Zenon DEF Proceed, Terminals
  <2>2. Written(p)
    BY <1>1, <1>2, <1>10, <2>1 DEF Pending, Failing, Terminals
  <2>3. /\ proc[p].at = Last /\ Last \in Recorded /\ ~Ended
        /\ ledger # <<>> /\ Orphans = {} /\ proc[p].known \subseteq Recorded
    BY <1>2, <2>1, <2>2 DEF Written, Evidence, Chain, Last, Recorded, Ended
  <2>4. CASE Goto(p, "resume") /\ proc[p].at = "PRECOMMITTED"
    <3>1. /\ proc'[p].pc = "resume" /\ proc'[p].known = proc[p].known
          /\ \A q \in Procs \ {p} : proc'[q] = proc[q]
      BY <1>2, <2>4, GotoHeld DEF Steps
    <3>2. Working(p)'
      BY <1>1, <1>3, <1>4, <1>6, <2>3, <2>4, <3>1 DEF Publishing, Working, Starting, At, Clean
    <3> QED BY <1>2, <1>5, <3>1, <3>2, IdleStays DEF FilesInv
  <2>5. CASE Goto(p, "stage")
    <3>1. /\ proc'[p].pc = "stage" /\ proc'[p].known = proc[p].known
          /\ proc'[p].at = proc[p].at
          /\ \A q \in Procs \ {p} : proc'[q] = proc[q]
      BY <1>2, <2>5, GotoHeld DEF Steps
    <3>2. Ready(p)'
      BY <1>1, <1>3, <1>4, <1>6, <2>3, <3>1 DEF Ready, Clean
    <3>3. Working(p)'
      BY <1>6, <2>3, <3>1, <3>2 DEF Publishing, Working, Starting, At
    <3> QED BY <1>2, <1>5, <3>1, <3>3, IdleStays DEF FilesInv
  <2> QED BY <2>1, <2>4, <2>5
<1> QED BY <1>7, <1>8, <1>9, <1>10 DEF Directories, Internal

-----------------------------------------------------------------------------
(* The failure of a run. *)

LEMMA DiscardOrphanCrash ==
  ASSUME OneShotInv, CrashInv, NEW p \in Procs, DiscardOrphan(p)
  PROVE  CrashInv'
<1>1. /\ UNCHANGED <<science, ledger, universe, chunks, marks, temps, condemned>>
      /\ Evidence /\ TempsOK /\ ledger # <<>> /\ NoTemps(Stagings) /\ Earned
      /\ \A u \in unsynced : u[1] = "artifacts" \/ u = <<"events", Len(ledger)>>
  BY DEF DiscardOrphan, Others, history, CrashInv, FilesInv, Working
<1>2. /\ \A q \in Procs \ {p} : At(q, "idle")
      /\ proc \in [Procs -> Process]
  BY Alone DEF DiscardOrphan, At, OneShotInv
<1>3. CASE End(p) /\ UNCHANGED <<artifacts, unsynced>>
  <2>1. Evidence' /\ TempsOK'
    BY <1>1, <1>3, EvidenceKept, TempsKept DEF TempsOK
  <2> QED BY <1>2, <1>3, <2>1, EndCrash DEF FilesInv
<1>4. CASE DiscardArtifact /\ Goto(p, "close")
  <2>1. /\ Evidence' /\ unsynced' \subseteq unsynced
        /\ Orphans' = {} /\ Recorded' = Recorded
    BY <1>1, <1>4, ArtifactDiscarded
  <2>2. TempsOK'
    BY <1>1, <2>1, TempsKept DEF TempsOK
  <2>3. proc'[p].pc = "close" /\ \A q \in Procs \ {p} : proc'[q] = proc[q]
    BY <1>2, <1>4, GotoHeld DEF Steps
  <2>4. /\ ledger' # <<>> /\ NoTemps(Stagings)' /\ Earned'
        /\ \A u \in unsynced' : u[1] = "artifacts" \/ u = <<"events", Len(ledger')>>
    BY <1>1, <2>1 DEF NoTemps, Earned
  <2>5. Working(p)'
    BY <2>1, <2>3, <2>4 DEF Working, Starting, At, Publishing
  <2> QED BY <1>2, <2>1, <2>2, <2>3, <2>5, IdleStays DEF FilesInv
<1> QED BY <1>3, <1>4 DEF DiscardOrphan

LEMMA CloseInternalCrash ==
  ASSUME OneShotInv, CrashInv, NEW p \in Procs, CloseInternal(p)
  PROVE  CrashInv'
<1>1. /\ UNCHANGED <<science, ledger, artifacts, universe, marks, condemned>>
      /\ Evidence /\ TempsOK /\ ledger # <<>> /\ NoTemps(Stagings) /\ Earned /\ Orphans = {}
      /\ \A u \in unsynced : u[1] = "artifacts" \/ u = <<"events", Len(ledger)>>
  BY DEF CloseInternal, Others, history, CrashInv, FilesInv, Working
<1>2. /\ \A q \in Procs \ {p} : At(q, "idle")
      /\ proc \in [Procs -> Process] /\ proc[p] \in Process
  BY Alone DEF CloseInternal, At, OneShotInv
<1>3. DiscardChunk
  BY <1>1 DEF CloseInternal, Evidence, Stores
<1>4. Evidence' /\ unsynced' \subseteq unsynced /\ chunks' = marks
  BY <1>1, <1>3, ChunkDiscarded
<1>5. TempsOK' /\ NoTemps(Stagings)'
  <2>1. temps \in [Stagings -> Seq(Directories \cup {"unlinked"})]
    BY <1>1 DEF TempsOK
  <2>2. temps' = Cleared({"universe", "search"})
    BY DEF CloseInternal
  <2>3. /\ temps' \in [Stagings -> Seq(Directories \cup {"unlinked"})]
        /\ \A s \in Stagings : temps'[s] \in {temps[s], <<>>}
    BY <2>1, <2>2 DEF Cleared
  <2>4. NoTemps(Stagings)'
    BY <1>1, <2>2 DEF Cleared, NoTemps
  <2> QED BY <1>1, <1>4, <2>3, <2>4, TempsKept
<1>6. CASE End(p)
  BY <1>2, <1>4, <1>5, <1>6, EndCrash DEF FilesInv
<1>7. CASE ~Ended /\ Work(p, "temp", "FAILED", "events")
  <2>1. /\ proc'[p].pc = "temp" /\ proc'[p].at = "FAILED" /\ proc'[p].dir = "events"
        /\ \A q \in Procs \ {p} : proc'[q] = proc[q]
    BY <1>2, <1>7, WorkHeld DEF Steps, Publishing, Directories, EventTypes
  <2>2. /\ Recorded' = Recorded /\ Orphans' = Orphans /\ Orphans' = {} /\ Ended' = Ended
    BY <1>1, Same
  <2>3. ASSUME NEW u \in unsynced PROVE u = <<"events", Len(ledger)>>
    <3>1. CASE u \in {"artifacts"} \X EventTypes
      <4>1. PICK x \in EventTypes : u = <<"artifacts", x>>
        BY <3>1
      <4>2. <<"artifacts", x>> \in unsynced
        BY <2>3, <4>1
      <4> QED BY <1>1, <4>2 DEF Evidence, Lossy
    <3>2. CASE u \in (Directories \ {"artifacts"}) \X Nat
      <4>1. u[1] # "artifacts"
        BY <3>2
      <4> QED BY <1>1, <2>3, <4>1
    <3> QED BY <1>1, <2>3, <3>1, <3>2 DEF Evidence, Lossy, UnsyncedType
  <2>4. Failing(p)'
    <3>1. \A u \in unsynced' : u = <<"events", Len(ledger')>> /\ u[1] = "events"
      BY <1>1, <1>4, <2>3
    <3>2. Earned'
      BY <1>1, <2>2 DEF Earned
    <3> QED BY <1>1, <1>4, <1>7, <2>1, <2>2, <3>1, <3>2 DEF Failing, At, Linked
  <2>5. Publication(p)'
    BY <1>5, <2>1 DEF Publication, At, Linked
  <2>6. Working(p)'
    BY <2>1, <2>4, <2>5 DEF Publishing, Working, Starting, At
  <2> QED BY <1>2, <1>4, <1>5, <2>1, <2>6, IdleStays DEF FilesInv
<1> QED BY <1>6, <1>7 DEF CloseInternal

-----------------------------------------------------------------------------
(* Faults. *)

LEMMA KillCrash ==
  ASSUME OneShotInv, CrashInv, NEW p \in Procs, Kill(p)
  PROVE  CrashInv'
<1>1. /\ UNCHANGED <<science, ledger, artifacts, universe, chunks, marks, temps, unsynced>>
      /\ UNCHANGED condemned /\ Evidence /\ TempsOK /\ End(p)
  BY DEF Kill, files, history, CrashInv, FilesInv
<1>2. Evidence' /\ TempsOK'
  BY <1>1, EvidenceKept, TempsKept DEF TempsOK
<1>3. \A q \in Procs \ {p} : At(q, "idle")
  BY Alone DEF Kill
<1> QED BY <1>1, <1>2, <1>3, EndCrash DEF FilesInv

(* Past the authorization nothing of the Search is still to be published.  *)
LEMMA PastTheSearch ==
  ASSUME Chain, ~Ended, Authorization \in Recorded
  PROVE  Due \notin {Frozen, Released}
<1>1. PICK i \in DOMAIN ledger : ledger[i] = Authorization
  BY DEF Recorded
<1>2. Rank(Authorization) = 6 /\ Authorization # "FAILED"
  BY RankOf DEF EventTypes, Authorization
<1>3. Frozen \in Recorded /\ Released \in Recorded
  BY <1>1, <1>2 DEF Chain
<1> QED BY <1>3, DueFacts

LEMMA OsErrorCrash ==
  ASSUME OneShotInv, CrashInv, NEW p \in Procs, OsError(p)
  PROVE  CrashInv'
<1>1. /\ UNCHANGED <<science, ledger, artifacts, universe, chunks, marks, unsynced, condemned>>
      /\ Evidence /\ TempsOK /\ TempsType /\ ~At(p, "idle") /\ ~At(p, "unlink") /\ Working(p)
  BY DEF OsError, history, CrashInv, FilesInv, TempsOK, TempsType
<1>2. /\ \A q \in Procs \ {p} : At(q, "idle")
      /\ proc \in [Procs -> Process] /\ proc[p] \in Process /\ proc[p].dir \in Directories
  BY <1>1, Alone DEF OneShotInv, Process
<1>3. /\ proc[p].pc \in {"link", "sync"} => UnlinkTemp(proc[p].dir)
      /\ proc[p].pc \notin {"link", "sync"} => UNCHANGED temps
  BY DEF OsError
<1>4. ASSUME proc[p].pc \in {"link", "sync"} PROVE TempsType' /\ NoTemps(Stagings)'
  <2>1. Publication(p)
    BY <1>1, <1>4 DEF Working, Publishing
  <2>2. \E t : OneTemp(StagingOf(proc[p].dir), t)
    BY <1>4, <2>1 DEF Publication, At, Linked
  <2>3. UnlinkTemp(proc[p].dir)
    BY <1>3, <1>4
  <2> QED BY <1>1, <1>2, <2>2, <2>3, TempsOneOf
<1>5. Evidence' /\ TempsOK'
  <2>1. Evidence'
    BY <1>1, EvidenceKept
  <2>2. CASE proc[p].pc \in {"link", "sync"}
    <3>1. TempsType' /\ NoTemps(Stagings)'
      BY <1>4, <2>2
    <3> QED BY <2>1, <3>1, NoTempsOK
  <2>3. CASE proc[p].pc \notin {"link", "sync"}
    BY <1>1, <1>3, <2>1, <2>3, TempsKept DEF TempsType
  <2> QED BY <2>1, <2>2, <2>3
<1>6. CASE End(p)
  BY <1>2, <1>5, <1>6, EndCrash DEF FilesInv
<1>7. CASE InTry(p) /\ Authorization \in Recorded /\ Goto(p, "fail")
  <2>1. proc'[p].pc = "fail" /\ \A q \in Procs \ {p} : proc'[q] = proc[q]
    BY <1>2, <1>7, GotoHeld DEF Steps
  <2>2. ledger # <<>> /\ Recorded' = Recorded
    BY <1>1, <1>7 DEF Recorded
  <2>3. NoTemps(Stagings)'
    <3>1. CASE proc[p].pc \in {"link", "sync"}
      BY <1>4, <3>1
    <3>2. CASE proc[p].pc \in {"stage", "service"}
      BY <1>1, <1>3, <3>2 DEF Working, Ready, At, NoTemps
    <3>3. CASE proc[p].pc = "temp"
      BY <1>1, <1>3, <3>3 DEF Working, Publication, At, NoTemps, Publishing
    <3> QED BY <1>1, <1>7, <3>1, <3>2, <3>3 DEF InTry, Publishing, At
  <2>4. ASSUME NEW u \in unsynced PROVE u[1] = "artifacts" \/ u = <<"events", Len(ledger)>>
    <3>1. CASE proc[p].pc \in {"stage", "service"}
      BY <1>1, <2>4, <3>1 DEF Working, Ready, At, Clean
    <3>2. CASE proc[p].pc \in Publishing
      <4>1. proc[p].at # "FAILED" /\ (Pending(p) \/ Written(p))
        BY <1>1, <1>7, <3>2 DEF Working, Failing, InTry, Publishing
      <4>2. CASE Written(p)
        BY <2>4, <4>2 DEF Written
      <4>3. CASE Pending(p)
        <5>1. /\ Due \notin {Frozen, Released} /\ proc[p].at = Due /\ At(p, "sync")
              /\ Place(p) /\ proc[p].dir # "events"
              /\ u = <<proc[p].dir, Entry(proc[p].dir, proc[p].at)>>
          BY <1>1, <1>7, <2>4, <4>3, PastTheSearch DEF Pending, Evidence, Linked
        <5>2. proc[p].dir = "artifacts"
          BY <1>2, <5>1 DEF Place, Directories
        <5> QED BY <5>1, <5>2
      <4> QED BY <4>1, <4>2, <4>3
    <3> QED BY <1>7, <3>1, <3>2 DEF InTry
  <2>5. /\ Earned' /\ ledger' # <<>>
        /\ \A u \in unsynced' : u[1] = "artifacts" \/ u = <<"events", Len(ledger')>>
    BY <1>1, <1>7, <2>2, <2>4 DEF Earned
  <2>6. Working(p)'
    BY <2>1, <2>3, <2>5 DEF Publishing, Working, Starting, At
  <2> QED BY <1>2, <1>5, <2>1, <2>6, IdleStays DEF FilesInv
<1> QED BY <1>6, <1>7 DEF OsError, Authorization

LEMMA IntegrityErrorCrash ==
  ASSUME OneShotInv, CrashInv, NEW p \in Procs, IntegrityError(p)
  PROVE  CrashInv'
<1>1. /\ UNCHANGED <<science, ledger, artifacts, universe, chunks, marks, temps, unsynced>>
      /\ condemned' /\ Evidence /\ TempsOK /\ Working(p)
      /\ InTry(p) /\ proc[p].pc \in {"stage", "service", "temp"} /\ Goto(p, "fail")
  BY DEF IntegrityError, files, CrashInv, FilesInv
<1>2. /\ \A q \in Procs \ {p} : At(q, "idle")
      /\ proc \in [Procs -> Process]
  BY <1>1, Alone DEF OneShotInv, At
<1>3. Evidence' /\ TempsOK'
  BY <1>1, EvidenceKept, TempsKept DEF TempsOK
<1>4. proc'[p].pc = "fail" /\ \A q \in Procs \ {p} : proc'[q] = proc[q]
  BY <1>1, <1>2, GotoHeld DEF Steps
<1>5. ledger # <<>> /\ NoTemps(Stagings) /\ unsynced = {}
  <2>1. CASE proc[p].pc \in {"stage", "service"}
    BY <1>1, <2>1 DEF Working, Ready, At, Clean
  <2>2. CASE proc[p].pc = "temp"
    <3>1. /\ proc[p].at \notin {"PRECOMMITTED", "FAILED"} /\ At(p, "temp")
          /\ Publication(p) /\ Pending(p)
      BY <1>1, <2>2 DEF Working, Publishing, InTry, Failing, Written, Linked, At
    <3>2. proc[p].at = Due
      BY <3>1 DEF Pending
    <3> QED BY <3>1, <3>2 DEF Pending, Publication, Due, At
  <2> QED BY <1>1, <2>1, <2>2
<1>6. /\ ledger' # <<>> /\ NoTemps(Stagings)' /\ unsynced' = {} /\ Earned'
  BY <1>1, <1>5 DEF NoTemps, Earned
<1>7. Working(p)'
  BY <1>4, <1>6 DEF Publishing, Working, Starting, At
<1> QED BY <1>2, <1>3, <1>4, <1>7, IdleStays DEF FilesInv

LEMMA PowerLossCrash ==
  ASSUME CrashInv, PowerLoss
  PROVE  CrashInv'
<1>1. FilesInv'
  <2>1. FilesInv /\ Lose /\ UNCHANGED <<science, condemned>>
    BY DEF PowerLoss, history, CrashInv
  <2> QED BY <2>1, LoseSafe
<1>2. \A q \in Procs : proc'[q].pc = "idle"
  BY DEF PowerLoss, Idle
<1>3. \A q \in Procs : Working(q)'
  BY <1>2 DEF Working, Starting, At, Publishing
<1> QED BY <1>1, <1>3 DEF CrashInv

(* A reader moves nothing.                                                 *)
LEMMA AsideCrash ==
  ASSUME CrashInv, UNCHANGED <<science, ledger, artifacts, universe, chunks, marks>>,
         UNCHANGED <<temps, unsynced, proc, condemned>>
  PROVE  CrashInv'
<1>1. Evidence' /\ TempsOK'
  BY EvidenceKept, TempsKept DEF CrashInv, FilesInv, TempsOK
<1>2. /\ Recorded' = Recorded /\ Referenced' = Referenced /\ Orphans' = Orphans
      /\ Ended' = Ended /\ Due' = Due /\ Last' = Last
  BY Same
<1>3. ASSUME NEW p \in Procs PROVE Working(p)'
  <2>1. Working(p)
    BY DEF CrashInv
  <2>2. /\ Clean' = Clean /\ Earned' = Earned /\ Linked(p)' = Linked(p)
        /\ Ready(p)' = Ready(p) /\ NoTemps(Stagings)' = NoTemps(Stagings)
        /\ NoTemps({"artifacts", "events"})' = NoTemps({"artifacts", "events"})
    BY <1>2 DEF Clean, Earned, Linked, Ready, NoTemps, At
  <2>3. Starting(p)'
    BY <1>2, <2>1, <2>2 DEF Working, Starting, At
  <2>4. Publication(p) => Publication(p)'
    BY <2>2 DEF Publication, OneTemp, NoTemps, At
  <2>5. Place(p) => Place(p)'
    BY <1>2, <2>2 DEF Place, At
  <2>6. Pending(p) => Pending(p)'
    BY <1>2, <2>2, <2>5 DEF Pending, Entry, At
  <2>7. Written(p) => Written(p)'
    BY <1>2, <2>2 DEF Written, At
  <2>8. Failing(p) => Failing(p)'
    BY <1>2, <2>2 DEF Failing, At
  <2> QED BY <1>2, <2>1, <2>2, <2>3, <2>4, <2>6, <2>7, <2>8 DEF Working, At
<1> QED BY <1>1, <1>3 DEF CrashInv, FilesInv

LEMMA InitCrash ==
  ASSUME Init
  PROVE  CrashInv
<1>1. /\ science \in Branches /\ ledger = <<>> /\ artifacts = {} /\ unsynced = {}
      /\ universe = 0 /\ chunks = 0 /\ marks = 0
      /\ temps = [s \in Stagings |-> <<>>] /\ proc = [p \in Procs |-> Idle]
  BY DEF Init, FilesInit
<1>2. Recorded = {} /\ Referenced = {} /\ Orphans = {} /\ ~Ended
  BY <1>1 DEF Recorded, Referenced, Orphans, Ended
<1>3. Evidence
  BY <1>1, <1>2, ChunksType
  DEF Evidence, Chain, Stores, StoreSound, ReleasesClosed, OneOrphan, Lossy, UnsyncedType,
      Closed, FailuresAreEarned
<1>4. TempsOK
  BY <1>1, <1>2 DEF TempsOK, TempsBounded, Staged, Stagings
<1>5. \A p \in Procs : proc[p].pc = "idle"
  BY <1>1 DEF Idle
<1> QED BY <1>3, <1>4, <1>5, IdleWorks DEF CrashInv, FilesInv

LEMMA NextCrash ==
  ASSUME OneShotInv, CrashInv, ~LateWriteback, [Next]_vars
  PROVE  CrashInv'
<1>1. ASSUME NEW p \in Procs, Step(p) PROVE CrashInv'
  BY <1>1, PreflightCrash, RecoverOuterCrash, RecoverInternalCrash, PrecommitCrash,
     ResumeCrash, AdvanceCrash, ServeCrash, StageCrash, LinkCrash, SyncCrash, UnlinkCrash,
     DiscardOrphanCrash, CloseInternalCrash, Zenon DEF Step
<1>2. ASSUME NEW p \in Procs, \E op \in Operations : Invoke(p, op) PROVE CrashInv'
  BY <1>2, InvokeCrash
<1>3. ASSUME NEW p \in Procs, Kill(p) \/ OsError(p) \/ IntegrityError(p) PROVE CrashInv'
  BY <1>3, KillCrash, OsErrorCrash, IntegrityErrorCrash
<1>4. CASE AuditStart \/ AuditRead \/ AuditFinish \/ AuditRefused
  BY <1>4, AsideCrash DEF AuditStart, AuditRead, AuditFinish, AuditRefused, files, history
<1>5. CASE UNCHANGED vars
  BY <1>5, AsideCrash DEF vars, files, history
<1> QED BY <1>1, <1>2, <1>3, <1>4, <1>5, PowerLossCrash DEF Next

(* What the histories and the reader hold.                                 *)
SideInv ==
  /\ audit.pc \in Reading
  /\ consulted \subseteq Served /\ condemned \in BOOLEAN
  /\ faults \in 0..MaxFaults

LEMMA SideStep ==
  ASSUME SideInv, [Next]_vars
  PROVE  SideInv'
<1>1. CASE \/ UNCHANGED <<audit, consulted, condemned, faults>>
           \/ \E e \in Served : /\ consulted' = consulted \cup {e}
                                /\ UNCHANGED <<audit, condemned, faults>>
           \/ audit'.pc \in Reading /\ UNCHANGED <<consulted, condemned, faults>>
           \/ Fault /\ UNCHANGED <<audit, consulted>> /\ condemned' \in BOOLEAN
           \/ Fault /\ audit' = Asleep /\ UNCHANGED <<consulted, condemned>>
  BY <1>1, MaxFaultsType DEF SideInv, Fault, Asleep, Reading
<1>2. ASSUME NEW p \in Procs, NEW op \in Operations, Invoke(p, op)
      PROVE  UNCHANGED <<audit, consulted, condemned, faults>>
  BY <1>2 DEF Invoke, Others, history
<1>3. ASSUME NEW p \in Procs, Step(p), ~Advance(p)
      PROVE  UNCHANGED <<audit, consulted, condemned, faults>>
  BY <1>3, Zenon
  DEF Step, Preflight, RecoverOuter, RecoverInternal, Precommit, Resume, Serve, Stage, Link,
      Sync, Unlink, DiscardOrphan, CloseInternal, Others, history
<1>4. ASSUME NEW p \in Procs, Advance(p)
      PROVE  \/ UNCHANGED <<audit, consulted, condemned, faults>>
             \/ \E e \in Served : /\ consulted' = consulted \cup {e}
                                  /\ UNCHANGED <<audit, condemned, faults>>
  BY <1>4, Zenon DEF Advance, Call, history
<1>5. ASSUME NEW p \in Procs, Kill(p) \/ OsError(p) \/ IntegrityError(p)
      PROVE  Fault /\ UNCHANGED <<audit, consulted>> /\ condemned' \in BOOLEAN
  BY <1>5 DEF Kill, OsError, IntegrityError, history, SideInv
<1>6. ASSUME AuditStart \/ AuditRead \/ AuditFinish \/ AuditRefused
      PROVE  audit'.pc \in Reading /\ UNCHANGED <<consulted, condemned, faults>>
  BY <1>6 DEF AuditStart, AuditRead, AuditFinish, AuditRefused, ReadOn, Asleep, history, Reading
<1>7. ASSUME PowerLoss
      PROVE  Fault /\ audit' = Asleep /\ UNCHANGED <<consulted, condemned>>
  BY <1>7 DEF PowerLoss, history
<1>8. ASSUME UNCHANGED vars PROVE UNCHANGED <<audit, consulted, condemned, faults>>
  BY <1>8 DEF vars, history
<1> QED BY <1>1, <1>2, <1>3, <1>4, <1>5, <1>6, <1>7, <1>8, Zenon DEF Next

-----------------------------------------------------------------------------
(* Theorems. *)

(* The files of a run directory over every kill, error and power loss are  *)
(* those of one publication in progress: the invariant of the argument.    *)
THEOREM CrashCorrect == ASSUME ~LateWriteback PROVE Spec => [](OneShotInv /\ CrashInv /\ SideInv)
<1>1. Init => OneShotInv /\ CrashInv /\ SideInv
  <2> SUFFICES ASSUME Init PROVE SideInv
    BY InitSafe, InitCrash
  <2>1. /\ audit = Asleep /\ consulted = {} /\ condemned = FALSE /\ faults = 0
    BY DEF Init
  <2>2. audit.pc \in Reading
    BY <2>1 DEF Asleep, Reading
  <2>3. faults \in 0..MaxFaults
    BY <2>1, MaxFaultsType
  <2>4. consulted \subseteq Served /\ condemned \in BOOLEAN
    BY <2>1, Zenon
  <2> QED BY <2>2, <2>3, <2>4 DEF SideInv
<1>2. (OneShotInv /\ CrashInv /\ SideInv) /\ [Next]_vars
        => (OneShotInv /\ CrashInv /\ SideInv)'
  BY NextSafe, NextCrash, SideStep
<1> QED BY <1>1, <1>2, PTL DEF Spec

(* Whatever the instant of a kill, an error or a power loss, the files     *)
(* pass every check of the next invocation of run.py.                      *)
THEOREM FilesRecoverable == ASSUME ~LateWriteback PROVE Spec => []Recoverable
<1>1. OneShotInv /\ CrashInv /\ SideInv => Recoverable
  <2> SUFFICES ASSUME OneShotInv, CrashInv, SideInv PROVE Recoverable
    OBVIOUS
  <2>1. Chain /\ Stores /\ OneOrphan /\ Lossy /\ TempsOK
    BY DEF CrashInv, FilesInv, Evidence
  <2>2. CampaignTypeOK
    BY <2>1 DEF CampaignTypeOK, Chain, Stores, OneOrphan, Lossy, UnsyncedType, TempsOK,
                OneShotInv, SideInv
  <2>3. Orphans = {} \/ Orphans = {Due}
    BY <2>1 DEF OneOrphan
  <2>4. LeafSet(1)
    <3>1. Cardinality(Orphans) <= 1
      BY <2>3, FS_EmptySet, FS_Singleton
    <3> QED BY <2>1, <3>1 DEF LeafSet, OneOrphan
  <2>5. \A e \in Orphans : LegalNext(e)
    BY <2>1, <2>3, DueFacts DEF OneOrphan
  <2>6. EvidenceInOrder
    <3>1. ledger = <<>> => Frozen \notin Recorded
      BY DEF Recorded
    <3>2. Frozen \notin Recorded => SearchEmpty
      BY <2>1 DEF Stores, TempsOK, SearchEmpty
    <3>3. ledger = <<>> => universe = 0 /\ ~Staged("universe")
      BY <2>1 DEF Stores, TempsOK
    <3> QED BY <3>1, <3>2, <3>3 DEF EvidenceInOrder, InternalEmpty, Frozen
  <2> QED BY <2>1, <2>2, <2>4, <2>5, <2>6 DEF Recoverable, TempsOK, Stores
<1> QED BY <1>1, CrashCorrect, PTL

(* COMPLETED and FAILED are written on closed files: _complete and         *)
(* _append_failed_and_close_artifact_set leave nothing behind.             *)
THEOREM TerminalsClosed == ASSUME ~LateWriteback PROVE Spec => []TerminalIsClosed
<1>1. CrashInv => TerminalIsClosed
  <2> SUFFICES ASSUME CrashInv, Ended PROVE /\ artifacts = Referenced
                                            /\ \A s \in Stagings \ {"events"} : ~Staged(s)
                                            /\ \A i \in DOMAIN temps["events"] :
                                                 temps["events"][i] = "events"
                                            /\ chunks = marks
                                            /\ "COMPLETED" \in Recorded =>
                                                 universe = Chunks /\ marks = Chunks
    BY DEF TerminalIsClosed
  <2>1. OneOrphan /\ Closed /\ TempsOK
    BY DEF CrashInv, FilesInv, Evidence
  <2>2. artifacts = Referenced
    BY <2>1 DEF OneOrphan, Orphans
  <2> QED BY <2>1, <2>2 DEF Closed, TempsOK
<1> QED BY <1>1, CrashCorrect, PTL

(* A run that has not reached the holdout is never failed by a kill, an    *)
(* OSError or a power loss: _run_with_services leaves it resumable.        *)
THEOREM FailuresEarned == ASSUME ~LateWriteback PROVE Spec => []FailuresAreEarned
<1>1. CrashInv => FailuresAreEarned
  BY DEF CrashInv, FilesInv, Evidence
<1> QED BY <1>1, CrashCorrect, PTL

-----------------------------------------------------------------------------
(* The audit beside the run. *)

HoldoutResults == "HOLDOUT_RESULTS_RELEASED"

(* A ledger that grew into another.                                        *)
Prefix(earlier, later) ==
  /\ Len(earlier) <= Len(later)
  /\ \A i \in 1..Len(earlier) : earlier[i] = later[i]

(* The results of the holdout are only worked on by the run that opened it. *)
Opened ==
  HoldoutResults \in Recorded \/ (\E p \in Procs : proc[p].at = HoldoutResults)
    => openings = 1

(* What the audit has read is between its first photograph and the tree.   *)
Reads ==
  /\ audit.events \in Seq(EventTypes)
  /\ audit.pc \in {"read", "judge"} =>
       audit.before[1] \in Seq(EventTypes) /\ Prefix(audit.before[1], ledger)
  /\ audit.pc = "judge" =>
       Prefix(audit.before[1], audit.events) /\ Prefix(audit.events, ledger)
  /\ audit.pc # "judge" => audit.events = <<>>

AuditInv == Opened /\ Reads /\ AuditsKeepTheSeal

LEMMA PrefixGrows ==
  ASSUME NEW earlier \in Seq(EventTypes), NEW later \in Seq(EventTypes), NEW e,
         Prefix(earlier, later)
  PROVE  Prefix(earlier, Append(later, e))
BY DEF Prefix

LEMMA PrefixBoth ==
  ASSUME NEW s \in Seq(EventTypes), NEW t \in Seq(EventTypes), Prefix(s, t), Prefix(t, s)
  PROVE  s = t
<1>1. Len(s) \in Nat /\ Len(t) \in Nat
  OBVIOUS
<1>2. Len(s) = Len(t) /\ \A i \in 1..Len(s) : s[i] = t[i]
  BY <1>1 DEF Prefix
<1> QED BY <1>1, <1>2

(* Where a process goes.                                                   *)
Goes(p, pc, at) ==
  /\ proc'[p].pc = pc /\ proc'[p].at = at
  /\ \A q \in Procs \ {p} : proc'[q] = proc[q]

LEMMA HoldGoes ==
  ASSUME proc \in [Procs -> Process], NEW p \in Procs, NEW op, NEW pc, NEW at, NEW dir,
         NEW seq, NEW known, Hold(p, op, pc, at, dir, seq, known)
  PROVE  Goes(p, pc, at)
BY DEF Hold, Goes

LEMMA GotoGoes ==
  ASSUME proc \in [Procs -> Process], NEW p \in Procs, NEW pc, Goto(p, pc)
  PROVE  Goes(p, pc, proc[p].at)
BY HoldGoes DEF Goto

LEMMA WorkGoes ==
  ASSUME proc \in [Procs -> Process], NEW p \in Procs, NEW pc, NEW at, NEW dir,
         Work(p, pc, at, dir)
  PROVE  Goes(p, pc, at)
BY HoldGoes DEF Work

LEMMA EndGoes ==
  ASSUME proc \in [Procs -> Process], NEW p \in Procs, End(p)
  PROVE  Goes(p, "idle", "PRECOMMITTED")
BY DEF End, Idle, Goes

(* A step of a process leaves the event at work, or takes up one that is   *)
(* no result of the holdout.                                               *)
Modest(p) ==
  /\ proc'[p].at \in {proc[p].at, "PRECOMMITTED", "FAILED"}
  /\ \A q \in Procs \ {p} : proc'[q] = proc[q]

LEMMA GoesModestly ==
  ASSUME NEW p \in Procs, NEW pc, NEW at, Goes(p, pc, at),
         at \in {proc[p].at, "PRECOMMITTED", "FAILED"}
  PROVE  Modest(p)
BY DEF Goes, Modest

LEMMA MovesModestly ==
  ASSUME proc \in [Procs -> Process], NEW p \in Procs
  PROVE  /\ End(p) => Modest(p)
         /\ \A pc : Goto(p, pc) => Modest(p)
         /\ Refuse(p) => Modest(p)
         /\ Proceed(p) => Modest(p)
<1>1. End(p) => Modest(p)
  BY EndGoes, GoesModestly
<1>2. ASSUME NEW pc, Goto(p, pc) PROVE Modest(p)
  BY <1>2, GotoGoes, GoesModestly
<1>3. ASSUME NEW pc, NEW dir, Work(p, pc, proc[p].at, dir) PROVE Modest(p)
  BY <1>3, WorkGoes, GoesModestly
<1>4. Refuse(p) => Modest(p)
  BY <1>1, <1>2 DEF Refuse
<1>5. Proceed(p) => Modest(p)
  BY <1>1, <1>2, <1>3 DEF Proceed
<1> QED BY <1>1, <1>2, <1>4, <1>5

LEMMA StepModest ==
  ASSUME proc \in [Procs -> Process], NEW p \in Procs, Step(p), ~Advance(p)
  PROVE  Modest(p)
<1>1. CASE Preflight(p)
  BY <1>1, MovesModestly DEF Preflight
<1>2. CASE RecoverOuter(p)
  BY <1>2, MovesModestly, HoldGoes, GoesModestly DEF RecoverOuter
<1>3. CASE RecoverInternal(p)
  BY <1>3, MovesModestly DEF RecoverInternal
<1>4. CASE Precommit(p)
  BY <1>4, MovesModestly, WorkGoes, GoesModestly DEF Precommit
<1>5. CASE Resume(p)
  BY <1>5, MovesModestly, WorkGoes, GoesModestly DEF Resume
<1>6. CASE Serve(p)
  <2>1. \E pc, dir : Work(p, pc, proc[p].at, dir)
    BY <1>6, Zenon DEF Serve
  <2> QED BY <2>1, WorkGoes, GoesModestly
<1>7. CASE Stage(p)
  BY <1>7, MovesModestly, HoldGoes, GoesModestly DEF Stage
<1>8. CASE Link(p)
  BY <1>8, MovesModestly DEF Link
<1>9. CASE Sync(p)
  BY <1>9, MovesModestly DEF Sync
<1>10. CASE Unlink(p)
  BY <1>10, MovesModestly DEF Unlink
<1>11. CASE DiscardOrphan(p)
  BY <1>11, MovesModestly DEF DiscardOrphan
<1>12. CASE CloseInternal(p)
  BY <1>12, MovesModestly, WorkGoes, GoesModestly DEF CloseInternal
<1> QED
  BY <1>1, <1>2, <1>3, <1>4, <1>5, <1>6, <1>7, <1>8, <1>9, <1>10, <1>11, <1>12, Zenon DEF Step

(* The ledger only grows, but for a power loss.                            *)
Grown == UNCHANGED ledger \/ \E e : ledger' = Append(ledger, e)

LEMMA StepGrows ==
  ASSUME proc \in [Procs -> Process], NEW p \in Procs, Step(p)
  PROVE  /\ Grown /\ UNCHANGED audit
         /\ ~Link(p) => UNCHANGED ledger
         /\ ~Advance(p) => UNCHANGED openings
<1>1. ASSUME Link(p) PROVE Grown /\ UNCHANGED <<audit, openings>>
  <2>1. UNCHANGED <<audit, openings>>
    BY <1>1 DEF Link, Others, history
  <2>2. UNCHANGED ledger \/ LinkEntry(proc[p].dir, proc[p].at)
    BY <1>1 DEF Link
  <2>3. proc[p].dir \in Directories
    BY DEF Process
  <2>4. LinkEntry(proc[p].dir, proc[p].at)
          => UNCHANGED ledger \/ ledger' = Append(ledger, proc[p].at)
    BY <2>3 DEF LinkEntry, Directories
  <2> QED BY <2>1, <2>2, <2>4 DEF Grown
<1>2. ASSUME Advance(p) PROVE UNCHANGED <<ledger, audit>>
  BY <1>2 DEF Advance, files
<1>3. ASSUME Step(p), ~Link(p), ~Advance(p) PROVE UNCHANGED <<ledger, audit, openings>>
  BY <1>3, Zenon
  DEF Step, Preflight, RecoverOuter, RecoverInternal, Precommit, Resume, Serve, Stage, Sync,
      Unlink, DiscardOrphan, CloseInternal, Others, history, files
<1> QED BY <1>1, <1>2, <1>3 DEF Grown

(* A process that works on no event of the run stays out of it once the    *)
(* run ended.                                                              *)
LEMMA GoesOut ==
  ASSUME NEW p \in Procs, NEW pc, NEW at, Goes(p, pc, at),
         \/ pc \notin {"stage", "service"} \cup Publishing
         \/ pc \in Publishing /\ at \in {"PRECOMMITTED", "FAILED"},
         \A q \in Procs : ~InTry(q)
  PROVE  \A q \in Procs : ~InTry(q)'
<1>1. ~InTry(p)'
  BY DEF InTry, Goes, Publishing
<1>2. \A q \in Procs \ {p} : ~InTry(q)'
  BY DEF InTry, Goes
<1> QED BY <1>1, <1>2

LEMMA EndedAt ==
  ASSUME CrashInv, Ended, NEW p \in Procs, ~InTry(p)
  PROVE  /\ proc[p].pc \notin {"outer", "internal", "precommit", "resume", "stage", "service",
                               "temp", "link"}
         /\ proc[p].pc \in {"sync", "unlink"} => proc[p].at = "FAILED" /\ proc[p].dir = "events"
<1>1. Working(p) /\ Chain
  BY DEF CrashInv, FilesInv, Evidence
<1>2. proc[p].pc \notin {"outer", "internal", "precommit", "resume", "stage", "service"}
  BY <1>1 DEF Working, Starting, Ready, At
<1>3. ASSUME proc[p].pc \in Publishing
      PROVE  Linked(p) /\ proc[p].at = "FAILED" /\ proc[p].dir = "events"
  <2>1. Written(p) \/ Failing(p)
    BY <1>1, <1>3 DEF Working, Pending
  <2>2. Linked(p)
    BY <2>1 DEF Written, Failing
  <2>3. ASSUME Written(p) PROVE FALSE
    <3>1. ledger # <<>> /\ proc[p].at = Last /\ proc[p].at # "FAILED"
      BY <2>3 DEF Written
    <3>2. proc[p].at = "COMPLETED"
      BY <3>1 DEF Ended, Last, Terminals
    <3> QED BY <1>3, <3>2 DEF InTry
  <2> QED BY <2>1, <2>2, <2>3 DEF Failing
<1> QED BY <1>2, <1>3 DEF Linked, At, Publishing

LEMMA EndedStepOut ==
  ASSUME OneShotInv, CrashInv, Ended, \A q \in Procs : ~InTry(q), NEW p \in Procs, Step(p)
  PROVE  UNCHANGED ledger /\ \A q \in Procs : ~InTry(q)'
<1>1. proc \in [Procs -> Process]
  BY DEF OneShotInv
<1>2. proc[p].pc \notin {"outer", "internal", "precommit", "resume", "stage", "service",
                         "temp", "link"}
  BY EndedAt
<1>3. proc[p].pc \in {"sync", "unlink"} => proc[p].at = "FAILED" /\ proc[p].dir = "events"
  BY EndedAt
<1>4. \/ Preflight(p) \/ Sync(p) \/ Unlink(p) \/ DiscardOrphan(p) \/ CloseInternal(p)
  BY <1>2, Zenon DEF Step, At, RecoverOuter, RecoverInternal, Precommit, Resume, Advance, Serve,
                     Stage, Link
<1>5. UNCHANGED ledger
  <2>1. ~Link(p)
    BY <1>2 DEF Link, At
  <2> QED BY <1>1, <2>1, StepGrows
<1>6. ASSUME End(p) PROVE \A q \in Procs : ~InTry(q)'
  BY <1>1, <1>6, EndGoes, GoesOut DEF Publishing
<1>7. CASE Preflight(p)
  <2>1. End(p)
    BY <1>7 DEF Preflight
  <2> QED BY <1>5, <1>6, <2>1
<1>8. CASE Sync(p)
  <2>1. Goto(p, "unlink") /\ proc[p].at = "FAILED"
    BY <1>3, <1>8 DEF Sync, At
  <2>2. Goes(p, "unlink", "FAILED")
    BY <1>1, <2>1, GotoGoes
  <2> QED BY <1>5, <2>2, GoesOut DEF Publishing
<1>9. CASE Unlink(p)
  <2>1. Proceed(p) /\ proc[p].at = "FAILED" /\ proc[p].dir = "events"
    BY <1>3, <1>9 DEF Unlink, At
  <2>2. End(p)
    BY <2>1 DEF Proceed, Terminals
  <2> QED BY <1>5, <1>6, <2>2
<1>10. CASE DiscardOrphan(p)
  <2>1. Goto(p, "close") \/ End(p)
    BY <1>10 DEF DiscardOrphan
  <2>2. Goto(p, "close") => Goes(p, "close", proc[p].at)
    BY <1>1, GotoGoes
  <2> QED BY <1>5, <1>6, <2>1, <2>2, GoesOut DEF Publishing
<1>11. CASE CloseInternal(p)
  <2>1. End(p)
    BY <1>11 DEF CloseInternal
  <2> QED BY <1>5, <1>6, <2>1
<1> QED BY <1>4, <1>7, <1>8, <1>9, <1>10, <1>11, Zenon

LEMMA EndedNextOut ==
  ASSUME OneShotInv, CrashInv, Ended, \A q \in Procs : ~InTry(q), Next, ~PowerLoss
  PROVE  UNCHANGED ledger /\ \A q \in Procs : ~InTry(q)'
<1>1. proc \in [Procs -> Process]
  BY DEF OneShotInv
<1>2. ASSUME NEW p \in Procs, NEW op \in Operations, Invoke(p, op)
      PROVE  UNCHANGED ledger /\ \A q \in Procs : ~InTry(q)'
  <2>1. UNCHANGED ledger /\ Goes(p, "preflight", "PRECOMMITTED")
    BY <1>1, <1>2, HoldGoes DEF Invoke
  <2> QED BY <2>1, GoesOut DEF Publishing
<1>3. ASSUME NEW p \in Procs, Kill(p) \/ OsError(p) \/ IntegrityError(p)
      PROVE  UNCHANGED ledger /\ \A q \in Procs : ~InTry(q)'
  <2>1. UNCHANGED ledger
    BY <1>3 DEF Kill, OsError, IntegrityError, files
  <2>2. End(p) \/ Goto(p, "fail")
    BY <1>3 DEF Kill, OsError, IntegrityError
  <2>3. End(p) => Goes(p, "idle", "PRECOMMITTED")
    BY <1>1, EndGoes
  <2>4. Goto(p, "fail") => Goes(p, "fail", proc[p].at)
    BY <1>1, GotoGoes
  <2> QED BY <2>1, <2>2, <2>3, <2>4, GoesOut DEF Publishing
<1>4. ASSUME UNCHANGED <<ledger, proc>>
      PROVE  UNCHANGED ledger /\ \A q \in Procs : ~InTry(q)'
  BY <1>4 DEF InTry
<1>5. ASSUME AuditStart \/ AuditRead \/ AuditFinish \/ AuditRefused
      PROVE  UNCHANGED <<ledger, proc>>
  BY <1>5 DEF AuditStart, AuditRead, AuditFinish, AuditRefused, files
<1> QED BY <1>2, <1>3, <1>4, <1>5, EndedStepOut, Zenon DEF Next

(* What the audit may read: a run that has opened the holdout is complete, *)
(* and nobody works on it.                                                 *)
LEMMA AuditableSealed ==
  ASSUME CrashInv, Opened, Auditable, HoldoutResults \in Recorded
  PROVE  openings = 1 /\ Ended /\ \A p \in Procs : ~InTry(p)
<1>1. Chain /\ \A p \in Procs : Working(p)
  BY DEF CrashInv, FilesInv, Evidence
<1>2. Ended
  BY <1>1, EndedBy DEF Auditable, HoldoutResults
<1>3. ASSUME NEW p \in Procs, InTry(p) PROVE FALSE
  <2>1. Working(p)
    BY <1>1
  <2>2. proc[p].pc \notin {"stage", "service"}
    BY <1>2, <2>1 DEF Working, Ready, At
  <2>3. proc[p].pc \in Publishing /\ proc[p].at \notin {"PRECOMMITTED", "FAILED"}
    BY <1>3, <2>2 DEF InTry
  <2>4. Publication(p) /\ Written(p)
    BY <1>2, <2>1, <2>3 DEF Working, Pending, Failing
  <2>5. Linked(p) /\ proc[p].dir = "events"
    BY <2>4 DEF Written
  <2>6. temps["events"] = <<"events">>
    BY <2>4, <2>5 DEF Publication, OneTemp, StagingOf
  <2>7. ~Staged("events")
    BY DEF Auditable, Quiet, Stagings
  <2> QED BY <2>6, <2>7 DEF Staged
<1> QED BY <1>2, <1>3 DEF Opened

LEMMA NextGrows ==
  ASSUME OneShotInv, Next, ~PowerLoss
  PROVE  Grown
<1>1. proc \in [Procs -> Process]
  BY DEF OneShotInv
<1>2. ASSUME NEW p \in Procs,
             \/ \E op \in Operations : Invoke(p, op)
             \/ Kill(p) \/ OsError(p) \/ IntegrityError(p)
      PROVE  UNCHANGED ledger
  BY <1>2 DEF Invoke, Kill, OsError, IntegrityError, files
<1>3. ASSUME AuditStart \/ AuditRead \/ AuditFinish \/ AuditRefused
      PROVE  UNCHANGED ledger
  BY <1>3 DEF AuditStart, AuditRead, AuditFinish, AuditRefused, files
<1> QED BY <1>1, <1>2, <1>3, StepGrows, Zenon DEF Next, Grown

(* The results of the holdout are recorded only by whoever works on them.  *)
LEMMA StaysOpened ==
  ASSUME OneShotInv, OneShotInv', CrashInv, Opened, Next
  PROVE  Opened'
<1>0. /\ proc \in [Procs -> Process] /\ openings \in 0..1 /\ openings' \in 0..1
      /\ ledger \in Seq(EventTypes)
  BY DEF OneShotInv
<1>1. ASSUME UNCHANGED <<ledger, openings>>, \A q \in Procs : proc'[q].at # HoldoutResults
                                                              \/ proc'[q].at = proc[q].at
      PROVE  Opened'
  BY <1>1 DEF Opened, Recorded
<1>2. ASSUME NEW p \in Procs, Modest(p), UNCHANGED <<ledger, openings>> PROVE Opened'
  <2>1. \A q \in Procs : proc'[q].at # HoldoutResults \/ proc'[q].at = proc[q].at
    BY <1>2 DEF Modest, HoldoutResults
  <2> QED BY <1>1, <1>2, <2>1
<1>3. ASSUME NEW p \in Procs, NEW op \in Operations, Invoke(p, op) PROVE Opened'
  <2>1. Modest(p)
    BY <1>0, <1>3, HoldGoes, GoesModestly DEF Invoke
  <2>2. UNCHANGED <<ledger, openings>>
    BY <1>3 DEF Invoke, Others, history
  <2> QED BY <1>2, <2>1, <2>2
<1>4. ASSUME NEW p \in Procs, Kill(p) \/ OsError(p) \/ IntegrityError(p) PROVE Opened'
  <2>1. Modest(p)
    BY <1>0, <1>4, MovesModestly DEF Kill, OsError, IntegrityError
  <2>2. UNCHANGED <<ledger, openings>>
    BY <1>4 DEF Kill, OsError, IntegrityError, files, history
  <2> QED BY <1>2, <2>1, <2>2
<1>5. ASSUME NEW p \in Procs, Step(p), ~Link(p), ~Advance(p) PROVE Opened'
  <2>1. UNCHANGED <<ledger, openings>>
    BY <1>0, <1>5, StepGrows
  <2> QED BY <1>0, <1>2, <1>5, <2>1, StepModest
<1>6. ASSUME NEW p \in Procs, Link(p) PROVE Opened'
  <2>1. Step(p) /\ ~Advance(p)
    BY <1>6 DEF Step, Link, Advance, At
  <2>2. Modest(p) /\ UNCHANGED openings
    BY <1>0, <2>1, StepModest, StepGrows
  <2>3. UNCHANGED ledger \/ LinkEntry(proc[p].dir, proc[p].at)
    BY <1>6 DEF Link
  <2>4. UNCHANGED ledger \/ ledger' = Append(ledger, proc[p].at)
    BY <1>0, <2>3 DEF LinkEntry, Directories, Process
  <2>5. HoldoutResults \in Recorded' => HoldoutResults \in Recorded
                                        \/ proc[p].at = HoldoutResults
    BY <1>0, <2>4 DEF Recorded
  <2>6. \A q \in Procs : proc'[q].at # HoldoutResults \/ proc'[q].at = proc[q].at
    BY <2>2 DEF Modest, HoldoutResults
  <2> QED BY <2>2, <2>5, <2>6 DEF Opened
<1>7. ASSUME NEW p \in Procs, Advance(p) PROVE Opened'
  <2> DEFINE e == Successor(proc[p].at)
  <2>1. UNCHANGED ledger
    BY <1>7 DEF Advance, files
  <2>2. /\ IF e \in Served THEN Call(e) ELSE UNCHANGED history
        /\ \E pc : Work(p, pc, e, "artifacts")
    BY <1>7, Zenon DEF Advance
  <2>3. \E pc : Goes(p, pc, e)
    BY <1>0, <2>2, WorkGoes
  <2> HIDE DEF e
  <2>4. CASE e = HoldoutResults
    <3>1. openings' = openings + 1
      BY <2>2, <2>4 DEF Call, Served, HoldoutResults
    <3> QED BY <1>0, <3>1 DEF Opened
  <2>5. CASE e # HoldoutResults
    <3>1. UNCHANGED openings
      BY <2>2, <2>5 DEF Call, HoldoutResults, history
    <3>2. \A q \in Procs : proc'[q].at # HoldoutResults \/ proc'[q].at = proc[q].at
      BY <2>3, <2>5 DEF Goes
    <3> QED BY <1>1, <2>1, <3>1, <3>2
  <2> QED BY <2>4, <2>5
<1>8. ASSUME AuditStart \/ AuditRead \/ AuditFinish \/ AuditRefused PROVE Opened'
  <2>1. UNCHANGED <<ledger, openings, proc>>
    BY <1>8 DEF AuditStart, AuditRead, AuditFinish, AuditRefused, files, history
  <2> QED BY <1>1, <2>1
<1>9. ASSUME PowerLoss PROVE Opened'
  <2>1. /\ UNCHANGED openings /\ Lose
        /\ \A q \in Procs : proc'[q].at = "PRECOMMITTED"
    BY <1>9 DEF PowerLoss, history, Idle
  <2>2. PICK n \in Survivors("events", Len(ledger)) : ledger' = SubSeq(ledger, 1, n)
    BY <2>1 DEF Lose
  <2>3. n \in 0..Len(ledger)
    BY <2>2 DEF Survivors
  <2>4. Recorded' \subseteq Recorded
    BY <1>0, <2>2, <2>3 DEF Recorded
  <2> QED BY <2>1, <2>4 DEF Opened, HoldoutResults
<1> QED BY <1>3, <1>4, <1>5, <1>6, <1>7, <1>8, <1>9, Zenon DEF Next

(* The reader's own steps, and those of the others.                        *)
LEMMA ReadsOn ==
  ASSUME OneShotInv, CrashInv, AuditInv, AuditStart \/ AuditRead \/ AuditFinish \/ AuditRefused
  PROVE  Reads' /\ AuditsKeepTheSeal'
<1>0. ledger \in Seq(EventTypes) /\ Reads
  BY DEF OneShotInv, AuditInv
<1>1. Prefix(ledger, ledger) /\ <<>> \in Seq(EventTypes)
  BY <1>0 DEF Prefix
<1>2. UNCHANGED <<ledger, openings, proc>>
  BY DEF AuditStart, AuditRead, AuditFinish, AuditRefused, files, history
<1>3. CASE AuditStart
  <2>1. /\ audit'.pc = "read" /\ audit'.events = <<>>
        /\ audit'.before = <<ledger, artifacts, universe, chunks, marks, temps>>
    BY <1>3 DEF AuditStart, ReadOn, Tree
  <2>2. audit'.before[1] = ledger
    BY <2>1
  <2>3. Reads'
    BY <1>0, <1>1, <1>2, <2>1, <2>2 DEF Reads
  <2>4. AuditsKeepTheSeal'
    BY <2>1 DEF AuditsKeepTheSeal
  <2> QED BY <2>3, <2>4
<1>4. CASE AuditRead
  <2>1. /\ audit'.pc = "judge" /\ audit'.events = ledger /\ audit'.before = audit.before
        /\ audit.pc = "read" /\ Auditable
    BY <1>4 DEF AuditRead, ReadOn
  <2>2. Reads'
    BY <1>0, <1>1, <1>2, <2>1 DEF Reads
  <2>3. (HoldoutResults \in Recorded) => openings = 1 /\ Ended /\ \A p \in Procs : ~InTry(p)
    BY <2>1, AuditableSealed DEF AuditInv
  <2>4. (\E i \in DOMAIN audit'.events : audit'.events[i] = "HOLDOUT_RESULTS_RELEASED")
          => HoldoutResults \in Recorded
    BY <2>1 DEF Recorded, HoldoutResults
  <2>5. (openings = 1 /\ Ended /\ \A p \in Procs : ~InTry(p))
          => (openings = 1 /\ Ended /\ \A p \in Procs : ~InTry(p))'
    BY <1>2 DEF Ended, InTry
  <2>6. AuditsKeepTheSeal'
    BY <2>3, <2>4, <2>5 DEF AuditsKeepTheSeal
  <2> QED BY <2>2, <2>6
<1>5. CASE AuditFinish \/ AuditRefused
  <2>1. audit'.pc = "idle" /\ audit'.events = <<>>
    BY <1>5 DEF AuditFinish, AuditRefused, Asleep
  <2> QED BY <1>1, <2>1 DEF Reads, AuditsKeepTheSeal
<1> QED BY <1>3, <1>4, <1>5

LEMMA ReadsBeside ==
  ASSUME OneShotInv, OneShotInv', CrashInv, AuditInv, Opened', Next, ~PowerLoss,
         UNCHANGED audit
  PROVE  Reads' /\ AuditsKeepTheSeal'
<1>0. ledger \in Seq(EventTypes) /\ Reads /\ AuditsKeepTheSeal
  BY DEF OneShotInv, AuditInv
<1>1. Grown
  BY NextGrows
<1>2. ASSUME NEW s \in Seq(EventTypes), Prefix(s, ledger) PROVE Prefix(s, ledger')
  BY <1>0, <1>1, <1>2, PrefixGrows DEF Grown
<1>3. Reads'
  BY <1>0, <1>2 DEF Reads
<1>4. ASSUME \E i \in DOMAIN audit.events : audit.events[i] = "HOLDOUT_RESULTS_RELEASED"
      PROVE  (openings = 1 /\ Ended /\ \A p \in Procs : ~InTry(p))'
  <2>1. Ended /\ \A p \in Procs : ~InTry(p)
    BY <1>0, <1>4 DEF AuditsKeepTheSeal
  <2>2. UNCHANGED ledger /\ \A p \in Procs : ~InTry(p)'
    BY <2>1, EndedNextOut
  <2>3. Ended'
    BY <2>1, <2>2 DEF Ended
  <2>4. audit.pc = "judge" /\ Prefix(audit.events, ledger) /\ audit.events \in Seq(EventTypes)
    BY <1>0, <1>4 DEF Reads
  <2>5. HoldoutResults \in Recorded
    BY <1>0, <1>4, <2>4 DEF Prefix, Recorded, HoldoutResults
  <2>6. HoldoutResults \in Recorded'
    BY <2>2, <2>5 DEF Recorded
  <2>7. openings' = 1
    BY <2>6 DEF Opened
  <2> QED BY <2>2, <2>3, <2>7
<1> QED BY <1>3, <1>4 DEF AuditsKeepTheSeal

LEMMA NextAudit ==
  ASSUME OneShotInv, OneShotInv', CrashInv, AuditInv, [Next]_vars
  PROVE  AuditInv'
<1>1. CASE UNCHANGED vars
  BY <1>1 DEF vars, files, history, AuditInv, Opened, Reads, AuditsKeepTheSeal, Recorded, Ended,
              InTry
<1>2. CASE Next /\ PowerLoss
  <2>1. Opened'
    BY <1>2, StaysOpened DEF AuditInv
  <2>2. audit' = Asleep
    BY <1>2 DEF PowerLoss
  <2>3. Reads' /\ AuditsKeepTheSeal'
    BY <2>2 DEF Reads, AuditsKeepTheSeal, Asleep
  <2> QED BY <2>1, <2>3 DEF AuditInv
<1>3. CASE Next /\ ~PowerLoss
  <2>1. Opened'
    BY <1>3, StaysOpened DEF AuditInv
  <2>2. \/ UNCHANGED audit \/ AuditStart \/ AuditRead \/ AuditFinish \/ AuditRefused
    <3>1. proc \in [Procs -> Process]
      BY DEF OneShotInv
    <3>2. ASSUME NEW p \in Procs,
                 \/ \E op \in Operations : Invoke(p, op)
                 \/ Kill(p) \/ OsError(p) \/ IntegrityError(p)
          PROVE  UNCHANGED audit
      BY <3>2 DEF Invoke, Kill, OsError, IntegrityError, Others, history
    <3> QED BY <1>3, <3>1, <3>2, StepGrows, Zenon DEF Next
  <2>3. Reads' /\ AuditsKeepTheSeal'
    BY <1>3, <2>1, <2>2, ReadsOn, ReadsBeside
  <2> QED BY <2>1, <2>3 DEF AuditInv
<1> QED BY <1>1, <1>2, <1>3

LEMMA VerdictHolds ==
  ASSUME OneShotInv, CrashInv, AuditInv
  PROVE  AuditsDescribeTheTree
<1> SUFFICES ASSUME AuditFinish PROVE audit.events = ledger /\ Referenced \subseteq artifacts
  BY DEF AuditsDescribeTheTree
<1>1. Reads /\ ledger \in Seq(EventTypes) /\ OneOrphan
  BY DEF AuditInv, OneShotInv, CrashInv, FilesInv, Evidence
<1>2. audit.pc = "judge" /\ audit.before = <<ledger, artifacts, universe, chunks, marks, temps>>
  BY DEF AuditFinish, Tree
<1>3. audit.before[1] = ledger
  BY <1>2
<1>4. Prefix(ledger, audit.events) /\ Prefix(audit.events, ledger)
      /\ audit.events \in Seq(EventTypes)
  BY <1>1, <1>2, <1>3 DEF Reads
<1> QED BY <1>1, <1>4, PrefixBoth DEF OneOrphan

(* An audit beside the run: verify_ai_all_cases takes no lock, yet the     *)
(* ledger it judged is the one there when it returns, and the holdout it   *)
(* recomputes is that of a run that is complete.                           *)
THEOREM AuditsHold == ASSUME ~LateWriteback PROVE Spec => AuditsAreSound
<1>1. Init => AuditInv
  BY DEF Init, FilesInit, Idle, Asleep, AuditInv, Opened, Reads, AuditsKeepTheSeal, Recorded,
         HoldoutResults
<1>2. OneShotInv /\ OneShotInv' /\ CrashInv /\ AuditInv /\ [Next]_vars => AuditInv'
  BY NextAudit
<1>3. OneShotInv /\ CrashInv /\ AuditInv /\ AuditInv'
        => AuditsKeepTheSeal' /\ AuditsDescribeTheTree
  BY VerdictHolds DEF AuditInv
<1> QED BY <1>1, <1>2, <1>3, CrashCorrect, PTL DEF Spec, AuditsAreSound
=============================================================================
