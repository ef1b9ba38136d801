----------------------------- MODULE M0bRunner -----------------------------
(***************************************************************************)
(* The M0b worker cycle: processes that run run_claimed_worker_cycle again *)
(* and again over the control plane of M0bControl, one process for each    *)
(* worker id and worker root.  What a worker keeps across a kill is its    *)
(* token file (owner-only durable lease token) and, per attempt, the       *)
(* pointer to its last local checkpoint; attempts are named by their token.*)
(*                                                                         *)
(* A capability call is refused, or answered, or committed with its answer *)
(* lost.  Everything else that ends a cycle and leaves its files alone (a  *)
(* kill, an outage before the call commits, another code snapshot) is one  *)
(* action, Stop.  The faults a run allows are listed in Faults and there   *)
(* are at most MaxFaults of them.                                          *)
(***************************************************************************)
EXTENDS M0bControl

CONSTANTS
  Workers,
  NoToken,
  Faults,     \* which faults may happen
  MaxFaults   \* how many, a bound for TLC

ASSUME RunnerAssumption ==
  /\ NoToken \notin Tokens
  /\ Faults \subseteq {"kill", "torn", "lost", "error", "stall"}
  /\ MaxFaults \in Nat

VARIABLES
  proc,    \* per worker: where its cycle is, and how its last one ended
  file,    \* per worker: its token file
  cursor,  \* per token: the checkpoint the local pointer names, 0 without one
  faults

runnerVars == <<proc, file, cursor, faults>>
vars == <<controlVars, runnerVars>>

Working == {"load", "shard", "ckpt", "result"}
Steps   == {"down", "open", "write", "claim", "reply", "fail", "consume"} \cup Working

Process == [pc : Steps, round : {0, 1}, seen : AttemptStatus,
            heartbeat : {"off", "on", "failed"}, last : {"none", "ok", "raised"}]
TokenFile == [state : {"none", "empty", "written"}, token : Tokens \cup {NoToken},
              claim : Nat, pending : BOOLEAN]

RunnerTypeOK ==
  /\ TypeOK
  /\ proc \in [Workers -> Process]
  /\ file \in [Workers -> TokenFile]
  /\ cursor \in [Tokens -> 0 .. Shards]
  /\ faults \in 0 .. MaxFaults

-----------------------------------------------------------------------------
NoFile    == [state |-> "none", token |-> NoToken, claim |-> 0, pending |-> FALSE]
EmptyFile == [state |-> "empty", token |-> NoToken, claim |-> 0, pending |-> FALSE]
NewFile(token) == [state |-> "written", token |-> token, claim |-> 0, pending |-> FALSE]

Down(last) ==
  [pc |-> "down", round |-> 0, seen |-> "RUNNING", heartbeat |-> "off", last |-> last]

At(w, pc)  == proc[w].pc = pc
Go(w, pc)  == proc' = [proc EXCEPT ![w].pc = pc]
Raise(w)   == proc' = [proc EXCEPT ![w] = Down("raised")]
TokenOf(w) == file[w].token
Bound(w)   == {a \in DOMAIN attempts : attempts[a].token = TokenOf(w)}
Claimed(w) == file[w].claim
Local(w)   == cursor[TokenOf(w)]

\* 256 random bits: never those that any row or file holds.  (Tokens bounds how
\* many a run can draw.)
Unused(token) == FreshToken(token) /\ \A w \in Workers : TokenOf(w) # token
TokenLeft == \E token \in Tokens : Unused(token)
NewToken  == CHOOSE token \in Tokens : Unused(token)

Fault(kind) ==
  /\ kind \in Faults /\ faults < MaxFaults
  /\ faults' = faults + 1

Bug_AfterLoss(w) == [proc[w] EXCEPT !.pc = "consume"]

\* The outcome of a call that was made: its answer, or an error instead of it.
AfterLoss(w) == Down("raised")
Answer(w, next) ==
  \/ proc' = [proc EXCEPT ![w] = next] /\ UNCHANGED faults
  \/ proc' = [proc EXCEPT ![w] = AfterLoss(w)] /\ Fault("lost")

-----------------------------------------------------------------------------
(* Opening the token file.                                                 *)

\* The active epoch's runtime identity is read before anything is claimed.
Start(w) ==
  /\ At(w, "down") /\ epochStatus = "RUNNING"
  /\ Go(w, "open")
  /\ UNCHANGED <<controlVars, file, cursor, faults>>

\* O_CREAT | O_EXCL makes an empty file; an existing one is read.
OpenToken(w) ==
  /\ At(w, "open")
  /\ \/ /\ file[w].state = "none"
        /\ file' = [file EXCEPT ![w] = EmptyFile]
        /\ Go(w, "write")
     \/ file[w].state = "written" /\ Go(w, "claim") /\ UNCHANGED file
     \/ file[w].state = "empty" /\ Raise(w) /\ UNCHANGED file
  /\ UNCHANGED <<controlVars, cursor, faults>>

WriteToken(w) ==
  /\ At(w, "write") /\ TokenLeft
  /\ file' = [file EXCEPT ![w] = NewFile(NewToken)]
  /\ Go(w, "claim")
  /\ UNCHANGED <<controlVars, cursor, faults>>

-----------------------------------------------------------------------------
(* The claim and its reply.                                                *)

Reply(w, seen) == [proc[w] EXCEPT !.pc = "reply", !.seen = seen]

ClaimReplay(w) ==
  /\ At(w, "claim")
  /\ \E a \in Bound(w) :
       \/ /\ attempts[a].status = "RUNNING"
          /\ \E wait \in 0 .. MaxWait : RenewLease(a, wait)
          /\ Answer(w, Reply(w, "RUNNING"))
       \/ /\ attempts[a].status # "RUNNING"
          /\ Answer(w, Reply(w, attempts[a].status))
          /\ UNCHANGED controlVars
       \/ /\ attempts[a].status = "RUNNING"
          /\ \E wait \in 0 .. MaxWait : ~Renewable(a, wait)
          /\ Raise(w)
          /\ UNCHANGED <<controlVars, faults>>
  /\ UNCHANGED <<file, cursor>>

ClaimFresh(w) ==
  /\ At(w, "claim")
  /\ \E wait \in 0 .. MaxWait, s \in {0} \cup DOMAIN attempts, c \in Candidates :
       ClaimNext(TokenOf(w), wait, s, c)
  /\ Answer(w, Reply(w, "RUNNING"))
  /\ UNCHANGED <<file, cursor>>

\* No row: nothing is free, or others have it locked.
ClaimIdle(w) ==
  /\ At(w, "claim") /\ Bound(w) = {}
  /\ \/ UNCHANGED controlVars
     \/ \E wait \in 0 .. MaxWait, s \in DOMAIN attempts : RecoverOnly(TokenOf(w), wait, s)
  /\ Answer(w, [proc[w] EXCEPT !.pc = "consume"])
  /\ UNCHANGED <<file, cursor>>

\* A reply that is already expired rotates the token, once in a cycle.
ExpiredReply(w) == proc[w].seen = "RUNNING" /\ \E a \in Bound(w) : attempts[a].left <= 0

Bug_Rotated(f, token) == [f EXCEPT !.token = token]
Rotated(f, token) == NewFile(token)
RotateToken(w) ==
  /\ At(w, "reply") /\ ExpiredReply(w)
  /\ \/ /\ proc[w].round = 0 /\ TokenLeft
        /\ file' = [file EXCEPT ![w] = Rotated(@, NewToken)]
        /\ proc' = [proc EXCEPT ![w].pc = "claim", ![w].round = 1]
     \/ proc[w].round = 1 /\ Raise(w) /\ UNCHANGED file
  /\ UNCHANGED <<controlVars, cursor, faults>>

Resume(w) == IF proc[w].seen = "RUNNING"
             THEN proc' = [proc EXCEPT ![w].pc = "load", ![w].heartbeat = "on"]
             ELSE Go(w, "load")

\* The claim is saved in the token file; then a saved failure is replayed, or
\* the work is run or its result replayed.
AcceptClaim(w) ==
  /\ At(w, "reply") /\ ~ExpiredReply(w)
  /\ \E a \in Bound(w) : file' = [file EXCEPT ![w].claim = a]
  /\ \/ file[w].pending /\ proc[w].seen # "SUCCEEDED" /\ Go(w, "fail")
     \/ file[w].pending /\ proc[w].seen = "SUCCEEDED" /\ Raise(w)
     \/ ~file[w].pending /\ proc[w].seen # "FAILED" /\ Resume(w)
     \/ ~file[w].pending /\ proc[w].seen = "FAILED" /\ Raise(w)
  /\ UNCHANGED <<controlVars, cursor, faults>>

-----------------------------------------------------------------------------
(* The work: run_candidate_work under the heartbeat.                       *)

Bug_AfterLoad(w) == "shard"

\* The last local checkpoint is published again before any more work.
AfterLoad(w) == IF Local(w) = 0 THEN "shard" ELSE "ckpt"

Load(w) ==
  /\ At(w, "load")
  /\ Go(w, AfterLoad(w))
  /\ UNCHANGED <<controlVars, file, cursor, faults>>

\* A range of shards is replayed, published and pointed to.
ProcessRange(w) ==
  /\ At(w, "shard")
  /\ cursor' = [cursor EXCEPT ![TokenOf(w)] = @ + 1]
  /\ Go(w, "ckpt")
  /\ UNCHANGED <<controlVars, file, faults>>

PublishCheckpoint(w) ==
  LET a == Claimed(w)  stored == Local(w) <= attempts[a].checkpoints IN
  /\ At(w, "ckpt")
  /\ \/ /\ stored /\ UNCHANGED controlVars
        /\ Answer(w, [proc[w] EXCEPT !.pc = IF Local(w) = Shards THEN "result" ELSE "shard"])
     \/ /\ Local(w) = attempts[a].checkpoints + 1
        /\ \E wait \in 0 .. MaxWait : Checkpoint(a, wait)
        /\ Answer(w, [proc[w] EXCEPT !.pc = IF Local(w) = Shards THEN "result" ELSE "shard"])
     \/ /\ ~stored /\ \E wait \in 0 .. MaxWait : ~CanCheckpoint(a, wait)
        /\ Raise(w) /\ UNCHANGED <<controlVars, faults>>
  /\ UNCHANGED <<file, cursor>>

Decided(a) == \E d \in decisions : d.attempt = a

\* The cycle returns through the heartbeat, which raises what it met.
AfterResult(w) ==
  IF proc[w].heartbeat = "failed" THEN Down("raised") ELSE [proc[w] EXCEPT !.pc = "consume"]

PublishResult(w) ==
  LET a == Claimed(w) IN
  /\ At(w, "result")
  /\ \/ Decided(a) /\ UNCHANGED controlVars /\ Answer(w, AfterResult(w))
     \/ /\ ~Decided(a) /\ \E wait \in 0 .. MaxWait : Terminalize(a, wait)
        /\ Answer(w, AfterResult(w))
     \/ /\ ~Decided(a) /\ \E wait \in 0 .. MaxWait : ~CanTerminalize(a, wait)
        /\ Raise(w) /\ UNCHANGED <<controlVars, faults>>
  /\ UNCHANGED <<file, cursor>>

\* An ordinary error of the work is saved in the token file before it is told.
SavedFailure(f) == [f EXCEPT !.pending = TRUE]
WorkError(w) ==
  /\ proc[w].pc \in {"load", "shard", "result"}
  /\ Fault("error")
  /\ file' = [file EXCEPT ![w] = SavedFailure(@)]
  /\ proc' = [proc EXCEPT ![w].pc = "fail", ![w].heartbeat = "off"]
  /\ UNCHANGED <<controlVars, cursor>>

\* m0b_worker_fail returns the result of a failure recorded before, if it is
\* this one.
PublishFailure(w) ==
  LET a == Claimed(w)
      failed == attempts[a].status = "FAILED"
      same == attempts[a].error = "work" /\ attempts[a].retryable IN
  /\ At(w, "fail")
  /\ \/ failed /\ same /\ UNCHANGED controlVars /\ Answer(w, [proc[w] EXCEPT !.pc = "consume"])
     \/ /\ ~failed /\ \E wait \in 0 .. MaxWait : Fail(a, wait, TRUE)
        /\ Answer(w, [proc[w] EXCEPT !.pc = "consume"])
     \/ /\ \/ failed /\ ~same
           \/ ~failed /\ \E wait \in 0 .. MaxWait : ~CanFail(a, wait)
        /\ Raise(w) /\ UNCHANGED <<controlVars, faults>>
  /\ UNCHANGED <<file, cursor>>

ConsumeToken(w) ==
  /\ At(w, "consume")
  /\ file' = [file EXCEPT ![w] = NoFile]
  /\ proc' = [proc EXCEPT ![w] = Down("ok")]
  /\ UNCHANGED <<controlVars, cursor, faults>>

\* The heartbeat thread: a claim with the same token beside the work.
Beats(w) == proc[w].heartbeat = "on" /\ proc[w].pc \in Working
Heart(w, state) == proc' = [proc EXCEPT ![w].heartbeat = state]
Heartbeat(w) ==
  LET a == Claimed(w) IN
  /\ Beats(w)
  /\ \/ /\ \E wait \in 0 .. MaxWait : RenewLease(a, wait)
        /\ \/ UNCHANGED <<proc, faults>>
           \/ Heart(w, "failed") /\ Fault("lost")
     \/ /\ attempts[a].status = "RUNNING"
        /\ \E wait \in 0 .. MaxWait : ~Renewable(a, wait)
        /\ Heart(w, "failed") /\ UNCHANGED <<controlVars, faults>>
     \/ Heart(w, "failed") /\ Fault("lost") /\ UNCHANGED controlVars
     \/ attempts[a].lease = "RELEASED" /\ Heart(w, "off") /\ UNCHANGED <<controlVars, faults>>
  /\ UNCHANGED <<file, cursor>>

-----------------------------------------------------------------------------
Stop(w) ==
  /\ ~At(w, "down")
  /\ Fault(IF At(w, "write") THEN "torn" ELSE "kill")
  /\ Raise(w)
  /\ UNCHANGED <<controlVars, file, cursor>>

\* Unless a run allows stalls, a lease does not run out under a cycle that is
\* up: an hour is sixty heartbeats and longer than any one of its calls.
Prompt == \A w \in Workers : ~At(w, "down") =>
            \A a \in Bound(w) : attempts[a].lease = "ACTIVE" => attempts[a].left > 1
Clock ==
  /\ Tick
  /\ Prompt \/ "stall" \in Faults
  /\ UNCHANGED runnerVars

Operator ==
  /\ \/ \E c \in Candidates : RegisterCandidate(c)
     \/ StartEpoch
     \/ \E status \in Ended : FinishEpoch(status)
  /\ UNCHANGED runnerVars

Cycle(w) ==
  \/ Start(w) \/ OpenToken(w) \/ WriteToken(w)
  \/ ClaimReplay(w) \/ ClaimFresh(w) \/ ClaimIdle(w) \/ RotateToken(w) \/ AcceptClaim(w)
  \/ Load(w) \/ ProcessRange(w) \/ PublishCheckpoint(w) \/ PublishResult(w)
  \/ PublishFailure(w) \/ ConsumeToken(w)

RunnerInit ==
  /\ Init
  /\ proc = [w \in Workers |-> Down("none")]
  /\ file = [w \in Workers |-> NoFile]
  /\ cursor = [token \in Tokens |-> 0]
  /\ faults = 0

RunnerNext ==
  \/ \E w \in Workers : Cycle(w) \/ Heartbeat(w) \/ WorkError(w) \/ Stop(w)
  \/ Clock
  \/ Operator

RunnerSpec == RunnerInit /\ [][RunnerNext]_vars

\* Cycles are started again and again and run on; a claim is not passed over
\* (its rows locked) for ever; the clock goes on.
FairSpec ==
  /\ RunnerSpec
  /\ \A w \in Workers : WF_vars(Cycle(w)) /\ SF_vars(ClaimFresh(w))
  /\ WF_vars(Clock)

-----------------------------------------------------------------------------
(* Safety.                                                                 *)

\* The token files are a partition of ownership: no token is in two of them, and
\* a saved claim is the attempt the database bound to the token, whatever was
\* lost between the two.
FilesNameOwnAttempt ==
  \A w \in Workers :
    /\ file[w].claim # 0 => Bound(w) = {file[w].claim}
    /\ file[w].pending => file[w].claim # 0
    /\ \A v \in Workers \ {w} : TokenOf(w) = TokenOf(v) => TokenOf(w) = NoToken

\* The local chain is at most one checkpoint ahead of the database's and never
\* behind: what a resumed cycle publishes next always extends the stored chain.
LocalChainAhead ==
  \A a \in DOMAIN attempts :
    cursor[attempts[a].token] - attempts[a].checkpoints \in {0, 1}

\* A running attempt is abandoned (its token in no file) only when its lease has
\* run out.
AbandonedIsExpired ==
  \A a \in DOMAIN attempts :
    attempts[a].status = "RUNNING" /\ attempts[a].left > 0 =>
      \E w \in Workers : TokenOf(w) = attempts[a].token

\* A worker's files and the database's rows, which no transaction writes together,
\* never contradict each other.
FilesAgree == FilesNameOwnAttempt /\ LocalChainAhead /\ AbandonedIsExpired

\* A token file is removed only when the attempt its token names, if there is
\* one, is closed: a lost answer never makes the worker forget its work.
KeptUntilClosed ==
  \A w \in Workers :
    file[w].state = "written" /\ file'[w].state = "none" =>
      \A a \in Bound(w) : attempts[a].status # "RUNNING"

\* A failure of the work reaches the database only from a token file that already
\* says so: it can be replayed, never contradicted, after a kill.
FailureSavedFirst ==
  \A a \in DOMAIN attempts :
    attempts[a].error # "work" /\ attempts'[a].error = "work" =>
      \E w \in Workers : file[w].claim = a /\ file[w].pending

\* What a cycle owes the database is on the disk until the database has it.
FilesOutliveKills == [][KeptUntilClosed /\ FailureSavedFirst]_vars

-----------------------------------------------------------------------------
(* Liveness, and what the documentation promises.                          *)

\* Every candidate queued in a running epoch is decided or given up.
WorkIsDecided ==
  \A c \in Candidates :
    candidates[c] = "QUEUED" /\ epochStatus = "RUNNING" ~> candidates[c] \in Terminal

\* A killed cycle is restart safe: while the epoch runs, each worker completes
\* cycles again and again.
KilledCycleRestarts ==
  \A w \in Workers : []<>(proc[w].last = "ok" \/ epochStatus # "RUNNING")

\* A failure saved in a token file is durably closed and lets the worker go on.
FailuresClose == \A w \in Workers : file[w].pending ~> ~file[w].pending
=============================================================================
