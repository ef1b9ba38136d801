------------------------------ MODULE M0aDaemon ------------------------------
(***************************************************************************)
(* Processes that run one M0a epoch against the shared ledger: each is a   *)
(* "research m0a run-epoch" / "daemon start" invocation, which prepares    *)
(* the ledger (prepare_epoch_ledger, pipeline.py) and then repeats         *)
(* daemon_once (daemon.py): recover, claim, evaluate, publish the result   *)
(* file, complete -- or fail.  A process may be killed between any two     *)
(* steps and started again; it keeps nothing in memory across a restart.   *)
(***************************************************************************)
EXTENDS M0aLedger

CONSTANTS
  Workers,    \* processes
  OwnersOf,   \* lease owners ("<worker_id>-generation-<n>") a process may use
  Outcomes,   \* what evaluating a candidate can lead to, among those below
  Plan,       \* the deterministic registration order, reals before nulls
  KeepAlive   \* --keep-alive: an idle process runs the pipeline again

\* What the evaluator does with a candidate: it returns an evaluation (admitted,
\* rejected, or declaring neither), or raises a candidate error (ValueError,
\* ArithmeticError, AssertionError, ...), a candidate error whose str() is empty
\* (a bare "assert"), or any other exception.
Evaluations == {"REGISTERED", "SCREENED_OUT", "undeclared"}
CandidateErrors == {"candidateError", "silentError"}
Failures == CandidateErrors \cup {"systemError"}

ASSUME DaemonAssumption ==
  /\ OwnersOf \in [Workers -> (SUBSET Owners) \ {{}}]
  /\ Outcomes \subseteq Evaluations \cup Failures
  /\ Plan \in Seq(Candidates)
  /\ KeepAlive \in BOOLEAN

VARIABLES
  worker,  \* per process: where it is and the lease it holds in memory
  files    \* result files below the artifact root

daemonVars == <<ledgerVars, worker, files>>

Stopped == {"down", "raised"}
Steps   == {"prepare", "recover", "claim", "evaluate", "publish", "complete", "fail"}
Holding == {"evaluate", "publish", "complete", "fail"}

\* age: ticks since the process last moved, as far as it matters (at most MaxWait):
\* the oldest clock reading its next transaction can be acting on.
Worker == [pc : Stopped \cup Steps, attempt : Nat, owner : Owners \cup {NoOwner},
           outcome : Evaluations \cup Failures \cup {"none"}, age : 0 .. MaxWait]

At(w, pc) == worker[w].pc = pc
Idle(pc) == [pc |-> pc, attempt |-> 0, owner |-> NoOwner, outcome |-> "none", age |-> 0]
Go(w, state) == worker' = [worker EXCEPT ![w] = state]
Bug_ProceedForgetsLease(w, pc, outcome) == Go(w, [Idle(pc) EXCEPT !.outcome = outcome])
Proceed(w, pc, outcome) ==
  Go(w, [worker[w] EXCEPT !.pc = pc, !.outcome = outcome, !.age = 0])

\* Types, and that a process holds a lease exactly between its claim and its
\* terminal call.
DaemonTypeOK ==
  /\ TypeOK
  /\ worker \in [Workers -> Worker]
  /\ files \in SUBSET [attempt : Nat, verdict : Evaluations]
  /\ \A w \in Workers :
       /\ worker[w].pc \in Holding <=> worker[w].attempt \in DOMAIN attempts
       /\ worker[w].pc \in Holding <=> worker[w].owner # NoOwner

DaemonInit ==
  /\ Init
  /\ worker = [w \in Workers |-> Idle("down")]
  /\ files = {}

-----------------------------------------------------------------------------
Start(w) ==
  /\ worker[w].pc \in Stopped
  /\ Go(w, Idle("prepare"))
  /\ UNCHANGED <<ledgerVars, files>>

\* A kill, or ForcedCrash: the lease stays in the ledger, the process forgets it.
Crash(w) ==
  /\ worker[w].pc \notin Stopped
  /\ Go(w, Idle("down"))
  /\ UNCHANGED <<ledgerVars, files>>

\* prepare_epoch_ledger.  Registering what is registered already only reads, so
\* the walk over Plan is its next missing candidate.
Missing == {i \in DOMAIN Plan : Plan[i] \notin Registered}
PrepareRegister(w) ==
  /\ At(w, "prepare")
  /\ \/ EnsureEpoch
     \/ \E i \in Missing :
          /\ \A j \in Missing : i <= j
          /\ RegisterCandidate(Plan[i])
  /\ UNCHANGED <<worker, files>>

PrepareDone(w) ==
  /\ At(w, "prepare")
  /\ epochStatus # "ABSENT" /\ Missing = {}
  /\ IF epochStatus = "HALTED"
     THEN Go(w, Idle("down")) /\ UNCHANGED ledgerVars   \* LedgerStateError, exit 2
     ELSE Go(w, Idle("recover")) /\ MarkGenerationComplete
  /\ UNCHANGED files

-----------------------------------------------------------------------------
(* daemon_once.                                                            *)

Recover(w) ==
  /\ At(w, "recover")
  /\ \E wait \in 0 .. worker[w].age :
       IF epochStatus # "HALTED" /\ Stale(wait) # {}
       THEN RecoverStaleAttempts(wait) ELSE UNCHANGED ledgerVars
  /\ IF epochStatus # "HALTED" /\ epochStatus' = "HALTED"
     THEN Go(w, Idle("down")) ELSE Go(w, Idle("claim"))
  /\ UNCHANGED files

Claim(w) ==
  /\ At(w, "claim")
  /\ \E owner \in OwnersOf[w], wait \in 0 .. worker[w].age, a \in DOMAIN attempts :
       /\ ResumeLease(owner, wait, a) \/ StartAttempt(owner, wait, a)
       /\ Go(w, [Idle("evaluate") EXCEPT !.attempt = a, !.owner = owner])
  /\ UNCHANGED files

\* No work: a halted epoch ends the process, an idle one ends it unless the
\* command keeps it alive, when it runs the whole pipeline again.
ClaimIdle(w) ==
  /\ At(w, "claim")
  /\ \E owner \in OwnersOf[w], wait \in 0 .. worker[w].age : ClaimNothing(owner, wait)
  /\ Go(w, Idle(IF KeepAlive /\ epochStatus' # "HALTED" THEN "prepare" ELSE "down"))
  /\ UNCHANGED files

Evaluate(w) ==
  /\ At(w, "evaluate")
  /\ \/ \E e \in Outcomes \cap Evaluations : Proceed(w, "publish", e)
     \/ \E e \in Outcomes \cap Failures : Proceed(w, "fail", e)
  /\ UNCHANGED <<ledgerVars, files>>

Bug_PublishAfterCommit(w) ==
  At(w, "publish") /\ Proceed(w, "complete", worker[w].outcome) /\ UNCHANGED <<ledgerVars, files>>
\* LocalArtifactStore.publish: content-addressed, linked into place, idempotent.
Publish(w) ==
  /\ At(w, "publish")
  /\ files' = files \cup {[attempt |-> worker[w].attempt, verdict |-> worker[w].outcome]}
  /\ Proceed(w, "complete", worker[w].outcome)
  /\ UNCHANGED ledgerVars

\* complete_attempt raises on a lost or expired lease, on an evaluation that
\* declares no verdict, and on an admitted null control.  Each of these is a
\* RuntimeError, so daemon_once classifies it as a system error.
Complete(w) ==
  LET me == worker[w] IN
  /\ At(w, "complete")
  /\ \E wait \in 0 .. me.age :
       IF CanComplete(me.attempt, me.owner, wait, me.outcome)
       THEN /\ CompleteAttempt(me.attempt, me.owner, wait, me.outcome)
            /\ Go(w, Idle("recover"))
       ELSE UNCHANGED ledgerVars /\ Proceed(w, "fail", "systemError")
  /\ UNCHANGED files

\* The except clause.  fail_attempt itself raises, and ends the process, when the
\* lease is no longer this owner's or when str(error) is empty.
Fail(w) ==
  LET me == worker[w]  system == me.outcome = "systemError" IN
  /\ At(w, "fail")
  /\ IF me.outcome # "silentError" /\ Owned(me.attempt, me.owner)
     THEN /\ FailAttempt(me.attempt, me.owner, system)
          /\ Go(w, Idle(IF FailureHalts(system) THEN "down" ELSE "recover"))
     ELSE UNCHANGED ledgerVars /\ Go(w, Idle("raised"))
  /\ UNCHANGED files

ClockTick ==
  /\ Tick
  /\ worker' = [w \in Workers |->
       IF worker[w].pc \in {"recover", "claim", "complete"} /\ worker[w].age < MaxWait
       THEN [worker[w] EXCEPT !.age = @ + 1] ELSE worker[w]]
  /\ UNCHANGED files

Work(w) ==
  \/ PrepareRegister(w) \/ PrepareDone(w) \/ Recover(w) \/ Claim(w) \/ ClaimIdle(w)
  \/ Evaluate(w) \/ Publish(w) \/ Complete(w) \/ Fail(w)

DaemonNext ==
  \/ \E w \in Workers : Start(w) \/ Crash(w) \/ Work(w)
  \/ ClockTick

DaemonSpec == DaemonInit /\ [][DaemonNext]_daemonVars

-----------------------------------------------------------------------------
(* Safety.                                                                 *)

\* Every row of artifacts has its file: a result is published before the ledger
\* refers to it, so a crash leaves at worst a file no row names.
RowsHaveFiles == \A r \in artifacts : r \in files

\* No two owners ever work on one attempt, and a process that evaluates a
\* candidate's latest attempt is the only owner that can still decide it.  Two
\* processes of one owner may share an attempt; the ledger then lets one decide.
OneOwnerPerAttempt ==
  \A v, w \in Workers :
    /\ worker[v].pc \in Holding /\ worker[w].pc \in Holding
    /\ worker[v].attempt = worker[w].attempt
    => worker[v].owner = worker[w].owner

\* A result is decided by a process that holds the candidate's latest attempt:
\* one whose lease was taken over can finish its evaluation but not its commit.
FencedDecision ==
  \A c \in Candidates :
    candidates[c].status \notin Decided /\ candidates'[c].status \in Decided =>
      \E w \in Workers :
        /\ worker[w].pc \in {"complete", "fail"} /\ worker'[w] # worker[w]
        /\ CandidateOf(worker[w].attempt) = c
        /\ \A a \in Attempted(c) : a <= worker[w].attempt
StaleWorkersCannotDecide == [][FencedDecision]_daemonVars

-----------------------------------------------------------------------------
(* Liveness.                                                               *)

\* Each process is scheduled and the clock advances; a stopped process is started
\* again (the operator reruns the command); kills eventually cease.
Fairness ==
  /\ \A w \in Workers : WF_daemonVars(Work(w)) /\ WF_daemonVars(Start(w))
  /\ WF_daemonVars(ClockTick)
  /\ <>[][~ \E w \in Workers : Crash(w)]_daemonVars

FairDaemonSpec == DaemonSpec /\ Fairness

\* Every epoch ends: the queue drains or the error threshold halts it.  Bounded
\* retries, leases that expire and workers that return are all needed for it.
EpochEnds == <>(epochStatus \in Closed)
=============================================================================
