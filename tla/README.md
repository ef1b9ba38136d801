# Formal models of systematic-fx

TLA+ specifications of the stateful parts of the EUR/USD futures research
platform in this repository: the ledgers, leases and workers that decide which
strategy candidates survive, the registry and pipeline that open their outcomes,
the replay that computes them, and the campaign whose holdout may be looked at
once.  The TLC configurations check them on small instances; the TLAPS proofs
establish the most important results for every value of the parameters.
Statistics, feature kernels and file parsing are left out: they are pure
computations, and the risks the models address are those of order, crashes,
retries and staleness.

Paths below are relative to the repository root.

## 1. Inventory

### 1.1 Components with state and concurrency

**M0a epoch ledger** (`src/systematic_fx/research/m0a/ledger.py`).
*State*: one SQLite file: `epochs` (status, generation flag, consecutive error
counter), `candidates`, `attempts` (status, owner, lease expiry), `artifacts`,
and an append-only hash chain of `events`; triggers enforce lifecycles and
immutability.  *Operations*: `ensure_epoch`, `register_candidate`,
`mark_generation_complete`, `claim_next_attempt`, `heartbeat`,
`recover_stale_attempts`, `complete_attempt`, `fail_attempt`, and reports.
*Interaction*: any number of processes open the same file; every operation is
one `BEGIN IMMEDIATE` transaction, serialised by SQLite's write lock, with the
clock read before the lock is waited for.  *Hard*: leases that expire under a
live worker, stale clock readings, late results, the error threshold reached
in the middle of a recovery, completion decided by whichever transaction ends
the last attempt.  *Correct when* the tables agree with one another, every
candidate is decided at most once, by the worker of its latest attempt, no
candidate is lost, a closed epoch stays closed, and no trigger ever aborts.

**M0a daemon and pipeline** (`research/m0a/daemon.py`, `pipeline.py`, the
`research m0a` commands of `cli.py`).  *State*: the process's program counter
and the lease it holds in memory; the result files on disk.  *Operations*:
prepare the epoch, then repeat recover / claim / evaluate / publish / complete
or fail; process start and kill.  *Hard*: a kill between any two steps, two
processes with the same worker id, an exception inside the exception handler,
termination.  *Correct when* no row names a missing file, a superseded worker
cannot decide, and every epoch ends.

**M0b control plane** (`migrations/0029_*.sql`, `migrations/0030_*.sql`,
`src/systematic_fx/db/m0b_registry.py`, `db/m0b_worker_registry.py`).
*State*: PostgreSQL tables of epochs, candidates, attempts, leases,
checkpoints, decisions.  *Operations*: register, claim (with the recovery of
one expired lease), checkpoint, terminalize, fail; each a security-definer
function in one transaction.  *Hard*: exact replay of each call after a lost
answer, expiry racing a worker that is still alive, a complete checkpoint that
must not be thrown away.

**M0b worker and runner** (`research/m0b/runner.py`, `worker.py`).
*State*: a durable token file, a local checkpoint pointer and immutable
checkpoint files, a heartbeat thread.  *Operations*: one bounded cycle: create
or reload the token, claim, replay local checkpoints, evaluate shards, publish,
terminalize or fail, consume the token.  *Hard*: a crash between any two of
those, another host recovering the attempt meanwhile.

**Outcome replay registry** (`db/outcome_registry.py`, migrations 0013, 0028).
*State*: PostgreSQL tables of replay manifests with their generic run attempts,
checkpoint chains, completed results, batches of the P4 pair and their release.
*Operations*: reserve, start, register a checkpoint, complete, fail, the same for
the pair of P4 queries (`reserve_`, `complete_`, `fail_phase1a_p4_outcome_pair`)
and the failure of a member that belongs to no batch; each one SERIALIZABLE
transaction that repeats itself after a serialization failure
(`db/postgres_retry.py`).  *Interaction*: any number of pipeline processes.
*Hard*: calls repeated after a lost answer, a reservation that meets a replay of
another process, the two members of the pair, which single-member operations
could separate.  *Correct when* a query is executed once, the pair is released
together or not at all, and what was released never changes.

**Outcome pipeline** (`research/phase1a_outcome_pipeline.py`,
`research/outcome_artifacts.py`).  *State*: the reservations, shards and
economics a process holds; content-addressed files.  *Operations*: reserve,
start, resume from the last checkpoint, replay one source date at a time,
register it, publish and complete; error handling that looks for a release
before it registers a failure and cleans up prepared siblings.  *Hard*: crash and
resume between any two steps, two processes that execute the same live replay,
errors inside the error handling.  *Correct when* every date counts once, the
drivers of one replay agree, reports are true, and results are published in the
end.

**Shared replay and barrier engine** (`backtest/shared_replay.py`,
`backtest/barriers.py`).  *State*: the tie buffer, pending entries, open
position groups, occupied cells, results not yet drained.  *Operations*:
`process` an event, `complete_source_date`, `drain_result_records`, `finish`.
Single-threaded; *hard* because hundreds of cells share one forward pass: which
quotes a decision sees, a cell freed by one exit and taken by the next signal,
several barriers crossed by one timestamp, a label clock that ends before the
position.  *Correct when* each cell gets what the independent engine computes for
it alone, decisions see exactly the past, entries follow the routing rules, and
no identity gets two results or none.

**AI all-cases campaign** (`campaigns/ai_all_cases_v1/run.py`, the stores of its
`pipeline.py`).  *State*: a ledger of lifecycle events, one artifact per event,
the universe and Search chunk stores: all files published once by write, link,
directory sync and unlink.  *Operations*: `precommit_ai_all_cases`,
`run_ai_all_cases`, which resumes whatever it finds, and
`verify_ai_all_cases`, which takes no lock.  *Hard*: kills and power losses
between any two of those file operations, the holdout that must be opened at
most once over all restarts, errors that leave the run resumable beside errors
that fail it, an audit beside a run.  *Correct when* the holdout is opened once,
behind a commitment no crash takes back, every crash is recovered from, only
earned failures fail the run, and the run ends.

**Run registry** (`db/run_registry.py`, migrations 0003, 0010): the generic runs
and attempts the other registries write through.

**Publication outbox** (migrations 0006, 0020): queued publications with
claim, retry and completion.

**Migration runner** (`db/migrations.py`): applies numbered migrations under
an advisory lock and refuses drift.

**Raw data hashing** (`data/hashing.py`): resumable hash of large files with
checkpoints.

### 1.2 Deterministic algorithms

**Single entries, multi-session replay, bar replay, economics**
(`backtest/entry.py`, `multisession.py`, `event_cache.py`, `bar_replay.py`,
`economics.py`): pure; the merged reader feeds the shared replay.

**Validation splits** (`validation/*.py`): purged, embargoed walk-forward
folds; correct when no training label overlaps a test window.

### 1.3 The rest

Governance registries (insert-or-compare registrations), access isolation
audits, vendor data parsing, feature kernels, research batch pipelines, the
statistics of the campaigns.  They have no concurrency of their own or are pure.
`PROJECT.json` lists every component with its status.

## 2. Modules

| module | what it is |
|---|---|
| `M0aContract` | what an M0a epoch promises: candidates admitted, decided once, drained or halted |
| `M0aLedger` | the ledger: tables as variables, one action per operation; properties; mapping to `M0aContract` |
| `M0aDaemon` | extends `M0aLedger` with processes and result files: every ledger write is made by a process step |
| `M0bContract` | what an M0b epoch promises: a bounded number of tries, a computed result is never lost, nothing open at the end |
| `M0bControl` | the PostgreSQL control plane: one action per capability call; properties; mapping to `M0bContract` |
| `M0bRunner` | extends `M0bControl` with the cycles of workers, their token files, local checkpoints and heartbeats |
| `OutcomeContract` | what a reader of outcomes is promised: a unit of queries is published at most once, all its results at once |
| `OutcomeRegistry` | the registry: each transaction as what it requires (`...Granted`) and what it writes (`...Effect`); properties; mapping to `OutcomeContract` |
| `OutcomePipeline` | extends `OutcomeRegistry` with driver processes, lost answers, replay errors and crashes |
| `BarrierReplay` | the independent engine of `barriers.py`: one entry, all cells, as operators |
| `SharedReplay` | the shared pass over a stream, one action per public method; properties, some against `BarrierReplay` |
| `CampaignFiles` | the campaign's directories: publications, syncs, what a power loss may take, recovery |
| `CampaignRun` | extends `CampaignFiles` with the invocations of precommit, run and verify, and the faults |
| `MC...` | small instances of the six specifications |
| `M0aSafety` | proofs about the ledger: types; inductive invariant and properties; the contract; the counts; and about the daemon: it keeps the ledger's specification; leases in memory, files, fencing |
| `M0bControlSafety` | proofs about the control plane: how each call changes the rows; inductive invariant and properties; the contract |
| `M0bRunnerSafety` | proofs about the workers: they keep the control plane's specification; their files and the rows |
| `OutcomeRegistrySafety` | proofs about the registry: inductive invariant and properties; the contract |
| `OutcomePipelineSafety` | proofs about the drivers: they keep the registry's specification; dates, drift, reports |
| `SharedReplaySafety` | proofs about the shared replay: what opens and what settles an identity; inductive invariant and properties |
| `SharedReplayOutcomes` | extends it: what closes a cell, and the barrier engine's pass in closed form |
| `CampaignSafety` | proofs about the campaign: the one-shot holdout, the commitments, crash consistency, audits |

Definitions named `Bug_...` are used by no specification: each is a plausible
mistake in the definition that follows it, kept to show that a property
notices it.

### 2.1 The M0a ledger

A candidate row is `candidates[c]`, keyed by its hash (registration is
idempotent by hash), with status `ABSENT` before it exists.  `attempts` is the
table in `attempt_id` order, an attempt's id being its index.  The JSON
payloads, metrics and hashes of a result are reduced to the verdict; the event
chain to the order of event types, per candidate and for the epoch.

*Time.*  An attempt row holds the number of ticks its lease has left, so no
clock is needed; `Tick` counts every lease down.  Since the code reads the
clock before it waits for the write lock, an operation carries `wait`, the age
of its reading at commit (`0 .. MaxWait`, the busy timeout): a lease looks
expired if it had run out `wait` ticks ago, and a lease granted is `wait` ticks
shorter.

*Atomicity.*  Each operation is one step because it is one write transaction.
`register_candidate` that finds the row, an exhausted budget or a closed epoch
changes nothing and is a stuttering step, as is every call that raises: an
exception rolls its transaction back.

*Triggers* are not guards of the actions.  `TriggersNeverAbort` checks instead
that no write ever needs one.

### 2.2 The M0a daemon

A worker is a process: its `pc` names the step of `prepare_epoch_ledger` or
`daemon_once` it is about to take, with the lease it holds in memory.  `age`
bounds how old the clock reading of its next transaction can be.  `Crash` is a
kill (or `ForcedCrash`) at any step; `Start` is the operator running the
command again.  A worker may use several lease owners, since the pipeline names
a new owner (`<worker>-generation-<n>`) for each restart chunk; the model lets
it pick any of its own at each claim.

### 2.3 The M0b control plane

The rows `research_run_attempts` and `m0b_worker_leases` of an attempt are
always written together and are one record of `attempts`, in id order; it also
counts the attempt's checkpoint rows, whose content is a function of the
candidate's immutable work.  `candidates` and `epochStatus` are the status
columns, `decisions` the admission decisions.  The campaign is RUNNING and its
holdout unrevealed throughout, which the triggers of migration 0029 make
permanent.  Hash chains, JSON documents and numeric rules are reduced to the
set `Admitted` of the candidates that pass.

| action | code |
|---|---|
| `RegisterCandidate` | `register_m0b_candidate` |
| `StartEpoch`, `FinishEpoch` | the operator's update of the epoch row |
| `RenewLease` | `m0b_worker_claim_next` with a token that names a lease |
| `ClaimNext`, `RecoverOnly` | the same with a new token: recover at most one expired attempt, then claim |
| `Checkpoint`, `Terminalize`, `Fail` | the capability functions of those names |

*Time* is as in the ledger, `left` being the ticks to `leased_until`.
`statement_timestamp()` is fixed before the function waits for its row locks,
hence `wait` again.  *Atomicity*: a call is one transaction that locks the rows
it is about before it reads them, so it is one step; a call that repeats what
is stored, or raises, changes nothing.  *SKIP LOCKED*: the recovery and claim
queries skip rows locked by others, so any expired attempt and any free
candidate may be the one taken; but a candidate just recovered is locked by the
claim itself and cannot be passed over in favour of a later one.  *Triggers*
are properties here too, not guards, except those that are the only check a
write has (epoch lifecycle, candidate insertion, renewal of at most an hour).

### 2.4 The M0b runner

`proc[w]` is where a worker's bounded cycle is (`run_claimed_worker_cycle`),
`file[w]` the token file, `cursor[token]` the local checkpoint pointer of the
attempt the token names; both survive a kill.  The heartbeat is a thread of its
own: a claim with the same token that may be taken at any point of the work.
A capability call is refused (the cycle raises), or answered, or committed with
its answer lost.  `Stop` is everything else that ends a cycle without touching
its files: a kill, an outage before the commit, a changed code snapshot.

Which faults may happen is the constant `Faults`: `kill`, `torn` (a kill
between the creation of the token file and its first write), `lost` (an
answer), `error` (an ordinary exception of the work), and `stall` (the lease
runs out under a running cycle).  Without `stall` the clock does not exhaust
the lease of a cycle that is up, since an hour is sixty heartbeats.  One
process runs per worker id and state directory; two on one directory are not
modelled yet.

### 2.5 The outcome registry and pipeline

`attempts[q]` are the replays of query `q` in order: a manifest row and its
generic run attempt, which the same transactions write and every other compares,
with the checkpoint chain and the result.  Digests stand for contents: a
checkpoint or a result is the sequence of source dates it has accumulated.
`batches` are the pair's batch rows, `releases` the append-only release.  The
triggers and unique indexes that guard the same facts a second time are not in
the model: the invariants hold without them.

A driver of `OutcomePipeline` is one process: `pc` names the registry call or
the file publication in progress.  `Call` gives every registry call its four
outcomes: answered after its commit, refused, and failed at the connection before
or after the commit.  A serialization failure is retried inside the call.  The
error handlers are modelled step by step: alone, an error is registered as the
replay's failure; in a pair the exact release is looked for first, then the pair
is failed, then members without a batch are cleaned up.  `Crash` loses the
driver's memory and nothing else.

### 2.6 The shared replay and the barrier engine

An event is named by its position in `stream`, the order key of the merged
reader.  `replay` is the state of the object; `FlushBuffer` is `_flush_buffer`
and replays the buffered timestamp group: signals decided before it, first-touch
clocks, position groups, pending entries, the last quote of each contract, then
signals decided at it.  A position group is the set of cells one signal entered
together; a stop marks its column, a take profit closes its row.  Two of the
three execution scenarios are enough to have two latencies and two stresses;
prices are in ticks, times in seconds, one session per source date.  Events the
code refuses (out of order, duplicate terminal, unknown contract) are not
accepted; a drain happens only with an empty buffer, as the pipeline does it.
The stream of an instance is bounded, and a replay that has finished, or has
raised because a position has no exit, stops: `CHECK_DEADLOCK FALSE`.

`BarrierReplay` is a second translation, of `barriers.py`, written independently:
one entry, a path of quotes, thresholds frozen by their first touch.  A path is a
function from positions of the stream to quotes, so that a path of one contract,
or of some sessions, is the stream restricted; the pass (`Replay`) is a recursive
function of the position, which processes a timestamp group at its last event.  The
properties compare the two.

### 2.7 The campaign

`ledger`, `artifacts`, `universe`, `chunks` and `marks` are the directories of
published files, `temps` the temporaries in the staging directories, by where
each is linked, and `unsynced` the directory entries a power loss may take.
Publishing is four steps (`Stage`, `Link`, `Sync`, `Unlink`).  An invocation
takes the mutation lock, so at most one process is not idle; its steps are the
preflight, the outer recovery, the internal recovery, the resumption check, and
then, event by event, the service call and the publication of artifact and event.

The services are deterministic: which branch the science takes (no finalists
after the Search, none after the walk-forward, or a holdout) is chosen once in
`Init`.  A failed replay comparison, an exhausted resource cap and any exception
that is no `OSError` is `IntegrityError`; an `OSError` during the last unlink
leaves what a kill leaves.  `audit` is `verify_ai_all_cases`, which reads the
tree without the lock, photographs it before and after and recomputes what the
ledger says.  `stop_after` (a test hook of the same loop) is not modelled.  A run
invoked on a COMPLETED tree verifies and returns; its recomputation is the
audit's and not a new opening.

*Faults*: kills anywhere, power losses that keep or take each unsynced entry (in
order within a numbered directory), and operating system errors at any call.
*Assumption*: `LateWriteback = FALSE` says that by the next invocation the system
has written back what an ended one left unsynced.  With `TRUE` TLC finds
`OutcomesAreCommitted`, `Recoverable` and `TerminalIsClosed` violated:
`_recover_linked_publisher_temporaries` (run.py:695, "Finish only
destination-durable hard-link publishes") unlinks the temporary of a publication
that was killed between its link and its sync without syncing the destination's
directory, so an event that the next invocation has acted on can still be lost.
`HoldoutIsOneShot` and `FailuresAreEarned` hold in both cases in the instance; the
theorem about the first is for both, those about the other four are for `FALSE`.

Three more observations.  The comment at run.py:3520-3523 lets a pre-existing
`HOLDOUT_RESULTS_RELEASED` be resumed, while the code at 3503-3516 fails it.
`_preflight_outer_artifact_orphan` (run.py:978) is never called.  An orphan that
is discarded and published again between the audit's two photographs is not seen
by it; the tree is the same, so the verdict is about it.

## 3. Runs

| run | instance | shows |
|---|---|---|
| `m0a_ledger` | 2 real candidates, 1 control, 2 owners, threshold 2, lease 2 ticks, readings up to 1 tick old; calls from any client at any time | the tables agree, the counts and the audit trail agree with them, no trigger aborts, the contract |
| `m0a_daemon` | 2 processes of any worker ids, the same or different, 1 real candidate, 1 control, kills anywhere | fencing, one owner per attempt, files before rows |
| `m0a_daemon_live` | 2 processes under fairness, with errors that kill the worker | every epoch ends |
| `m0b_control` | 1 real candidate and its control, 4 tokens, 2 attempts each, 2 shards, readings up to 1 tick old; calls from any authorised caller | the rows agree, complete work is kept, live leases are not taken, no trigger aborts, the contract |
| `m0b_runner` | 2 workers and 1 candidate, at most 2 faults of any kind | the files agree with the rows, what a cycle owes the database survives kills |
| `m0b_runner_live` | 2 kills or lost answers, under fairness | the candidate is decided or given up |
| `m0b_killed_cycle` | expected violation: 2 workers, 1 kill | a token whose attempt another worker recovered makes every later cycle raise |
| `m0b_failure_replay` | expected violation: 1 worker, 1 error | a failure saved after the complete checkpoint is refused for ever |
| `outcome_alone` | 2 drivers of one query, 3 source dates, 2 faults, under fairness | every date counts once, the drivers agree, results are published in the end |
| `outcome_pair` | 2 drivers of the P4 pair, 1 source date, 1 fault | the registry's tables agree, reports stay true, the contract |
| `shared_replay` | 2 or 3 signals over two contracts, 2 scenarios, a grid of 2 by 2, streams of 6 events | agreement with the barrier engine, labels, the decision gate, routing, occupancy, one result per identity |
| `campaign_run` | 2 processes and an audit, 2 chunks in each store, 2 faults | the one-shot holdout, commitments, recovery, closed terminals, earned failures, sound audits, the end of the run |

Where one property of a run is a conjunction of named parts (`LedgerAgrees`,
`CountsAgree`, `TablesAgree`, `FilesAgree`, `FilesOutliveKills`,
`RegistryAgrees`, `OccupancyIsExact`, `AuditsAreSound`), the parts are stated and
commented one by one in the module.

*Bounds, M0a.*  Two real candidates exhaust a budget and are ordered in the
queue; the control needs its parent.  Two owners make every takeover possible.
With a threshold of two, one crash is retried and the second halts, also in the
middle of a recovery walk over two stale attempts.  A lease of two ticks
distinguishes fresh, ageing and expired; one tick of waiting makes a reading
stale.  The attempts table needs no bound: retries are limited by the
threshold, and a success resets the counter but consumes a candidate.

*Bounds, M0b.*  Two attempts per candidate give a recovery that retries and one
that gives up; four tokens cover all attempts of both candidates.  Two shards
distinguish no checkpoint, an incomplete and the complete one.  A checkpoint
grants one tick and a claim two, so a checkpoint extends some leases and leaves
others alone.  The runner's instance needs the second worker as the one that
recovers; two faults allow a fault in the repair of a fault.  `MaxFaults`
bounds only the environment, never the code, and so does `Tokens`, the random tokens
that can be drawn: a cycle waits once they are used up (`TokenLeft`).

*Bounds, outcomes.*  Three source dates have a first, a middle and a last
checkpoint; two faults allow a crash in the repair of a crash.  The pair needs
two members and two drivers; a second date would only lengthen the replay that
`outcome_alone` already explores.  `MaxAttempts = 4` is never reached: a new
attempt costs a fault.

*Bounds, replay.*  The first signals of each list overlap in one cell, the last
ones meet a freed one or come after the stream; the third list decides two
contracts at one time.  Six positions allow an entry, a stop trigger, its routed
fill, a take profit and a terminal quote with a tie among them.  The inputs name
each kind of quote at the positions where it matters.

*Bounds, campaign.*  Two chunks are one with and one without a successor; two
faults allow a power loss during the recovery from a kill.  A third process
would only wait for the lock.

*Fairness.*  `m0a_daemon_live`: weak fairness of each process's steps and of its
restart (the documented operation is to rerun the command), of the clock, and
kills that eventually cease.  Without restarts an epoch whose worker died is
never finished, which the code does not claim to prevent.  `FairSpec` of the
runner: weak fairness of every worker's cycle, which its service restarts, and
of the clock; strong fairness of `ClaimFresh`, because a claim that finds the
rows locked returns nothing and the cycle ends well, and such collisions do not
go on for ever.  `FairSpec` of the pipeline: weak fairness of each driver's step,
and of its start while the unit is unpublished.  It is stated for one query only:
two drivers of the pair can clean up each other's members again and again, which
nothing in the code rules out.  `FairSpec` of the campaign: weak fairness of each
process's steps, strong fairness of invoking run, since the lock is only free
again and again.  Faults are finite everywhere.

*Disagreements with the documentation.*  Two runs show one each, quoted in
`PROJECT.json` "findings".  The documents call a killed cycle of an M0b worker
restart safe, which it is not once another worker has recovered its attempt (the
token then replays a failure the file does not hold), nor after a kill between
the creation of the token file and its first write.  And a failure is said to be
durably closed, but one saved after the complete checkpoint is stored can neither
be recorded nor dropped.  Four more were met while modelling and have no run:
`daemon.py`'s docstring says ordinary candidate failures are terminal for that
candidate, but `fail_attempt` rejects an empty message and raises out of the
handler, so such a candidate is retried as a system error;
`docs/RESEARCH_ENVIRONMENT.md:214` says stale leases become `CRASHED` and are
retried, but `fail_attempt` does not look at the expiry, so a late worker whose
completion was refused fails the candidate for good; and the docstring and the
comment of the campaign quoted in 2.7.

## 4. Proofs

### 4.1 The M0a ledger

Assumptions: `LedgerAssumption` only.  The two kinds of candidate are disjoint
and finite, each control names a real parent, `NoOwner` is no owner, budgets,
threshold and lease length are positive, the wait is a natural number.

*Type correctness* (`TypeCorrect`) is inductive by itself.  The recovery walk is
the work: `StaleWalk` shows the walk enumerates stale rows without repetition,
`RecoveryRows` what the table looks like afterwards.

*The inductive invariant* `LedgerInvariant` adds to the types what each table
says of the others: only a candidate's latest attempt can be anything but
CRASHED (`LaterCrashed`); an attempt row determines its candidate's row
(`AttemptsTell`); an undecided candidate has an active attempt and a decided one
its completed attempt and artifact (`CandidatesTell`, `ArtifactsTell`); and a
completed epoch has no active attempt, while one that has not halted has no
CRASHED candidate and its counter below the threshold (`EpochAgrees`).  None of
the properties is inductive alone: that a late worker cannot decide twice needs
the candidate row, the attempt row and the artifact to be tied together at once.
`MovesTo` captures what start, complete and fail have in common, so each part is
proved once for the three.

`TablesAgree` is the invariance theorem; `FollowsAttempts`, `Lineage`, `Drained`
and `NoOrphan` follow from it, and the action properties `TriggersHold` and
`Closing` are proved from it step by step.

*Refinement* (`Refines`).  One more fact is needed: an open epoch whose
generation is over always has an active attempt (`NeverIdle`), since each
transaction that ends an attempt completes an idle epoch itself; it makes
`ClaimNothing` invisible to the contract.  Registration maps to `Admit`, the end
of generation to `CloseGeneration`, completion and failure to `Decide`, a
recovery that reaches the threshold to `Halt`, and everything else stutters.

*Counts* (`CountsHold`).  `CountInvariant` says, of each candidate, that its
attempts are numbered in order and that its log tells the same story as its rows:
a QUEUED event for each attempt, a STARTED event for each that left the queue, a
CRASHED event for each that crashed, and a last event that gives its status
(`LogTells`); and that the ordinals of a kind number its candidates within the
budget.  A step is looked at from one candidate: its rows are left alike
(`Alike`), one of them turns (`Turns`), one is retried or one begins, and each of
these has a lemma that says what the cardinalities become.  A recovery ends many
rows at once, but at most one of any candidate, so from one candidate's side its
walk is one turn or none (`WalkSeen`, `RecoverySeen`).

*The daemon* (assumption `DaemonAssumption`: a process may use
some owners, the plan is a sequence of candidates).  Every step of a process is one
ledger operation or leaves the ledger alone (`DaemonKeepsLedger`), so everything
above holds of it, the contract included.  `DaemonInvariant` adds what a process
remembers: the attempt it holds has left the queue, and while that attempt is
RUNNING its owner is the process's own (`LeasesAgree`); a process about to commit a
result has published it.  No row need ever say that a lease is still valid: a
process that lost its lease goes on, and `Fencing` shows that it decides nothing.
`FilesFirst` and `OneOwner` follow.

### 4.2 The M0b control plane

Assumptions: `ControlAssumption` only.  Candidates are finite and of one kind,
each control has a real parent, ordinals, budgets, the attempt cap, the number
of shards and the lease are positive, and a checkpoint grants no more than a
claim.

*Rows* (first part of `M0bControlSafety`).  Every call does one of three things to an attempt:
`RowAged` (its lease or checkpoint count moves), `RowEnded`, or `RowStarted`; a
claim that recovers is an end followed by a start.  The lemmas say, for each,
what becomes of the part of the invariant that is about one candidate, so the
recovery of one candidate in the claim of another is treated once.

*The inductive invariant* `ControlInvariant` (theorem `ControlAgrees`) ties the
tables together: tokens differ, attempts of a candidate are numbered in order,
only the latest can be other than FAILED, its status and checkpoint count
determine the candidate's status (`CandidateTells`), and each decision is that
of its successful attempt.  `TypeCorrect`, `CompleteHolds` and the five parts of `RowsHold` follow; the
action properties `TriggersHold` and `LiveLeaseHeld` are proved from it step by
step.

*Refinement* (`ControlRefines`).  A claim may recover one candidate and begin a
try of another; the contract advances each candidate in one step, so each is looked at
alone.  That a computed result survives needs the invariant's account of
checkpoints, that nothing is open at the end its account of leases.

*The workers* (`M0bRunnerSafety`; assumption `RunnerAssumption`: `NoToken` is no
token, the faults are among the named ones).  `RunnerInvariant` ties files and rows,
which no transaction writes together: a token file names at most one attempt, the
claim saved in it is that attempt, the local chain is the stored one or one
checkpoint ahead, no two files hold one token, a live lease is held by some file, and
each step of a cycle knows what the earlier ones established (`Tells`).  A worker
writes rows of its own token only, so each step is treated once for the worker that
takes it and once, in general, for the others.  `FilesHold` and the action property
`FilesOutlive` follow, and `WorkersObeyControl`: what the workers do to the database
are calls of the control plane, hence `WorkersKeepRows` and `WorkersKeepContract`.

### 4.3 The outcome registry and pipeline

Assumptions: the four named in `OutcomeRegistry` (the pair is among the queries,
the null values are apart, the limits are positive).  `RegistryInv` is inductive:
the types with the columns each status has, `OneExecution`, `PairTogether`,
`BoundOnce` and `OneOpenBatch`, and that members of a batch are live or closed as
their batch says.  Each operation is an `...Effect` under its `...Granted`, so the
proof has one lemma per operation; the operations of one member must be shown to
miss every batch, those of the pair to move both members.  `RegistryConsistent`
is the invariance theorem and `RegistryHolds` the property of the run.
`RegistryRefines`: reserving opens a closed unit, the failure of its last live
attempt abandons it, completion publishes it, everything else stutters; that a
published unit never closes uses the invariant.

*The pipeline* (`OutcomePipelineSafety`; assumptions: a driver runs one query that
is released alone or the pair, the parts of the plan are possible contents, faults
are bounded by a natural number).  `PipelineInv` says that every checkpoint of every
replay is the plan up to its date (`PlannedRows`), that a failed batch has its
members' error, and what each driver knows at each step: which replays it holds, how
far its shards are, what it has computed, what it has reported (`Knows`).  What makes
it inductive with two drivers on one live replay is that each part depends on the
tables only through facts that grow: a chain is only extended, a closed row stays.
`PipelineKeepsRegistry` shows each step to be a registry operation or none, so the
contract and `RegistryAgrees` hold of the drivers; `DatesCountOnce`, `NoDrift` and
the action property `ReportsHold` are the pipeline's own.

### 4.4 The campaign

Assumptions: `LateWriteback` is a Boolean, `Chunks` and `MaxFaults` are naturals;
processes are arbitrary.  All theorems but the holdout's also assume
`LateWriteback = FALSE` (2.7 says why).

*The holdout*.  `OneShotInv` says, beside the types of the
ledger and the processes: at most one process holds the lock; if the holdout was
opened, its authorization is durable and was written by the invocation that
opened it; and a process that works past the authorization did not find it when
it started.  The argument: what is durable stays so under every step, a power
loss included (`LoseKeeps`), since a power loss takes only unsynced entries and
only from the end of the ledger; an invocation remembers the events it found
(`known`), and one that finds an authorization fails before any service is
called (`ResumeSafe`); so the second opening would need an invocation that did
not find a durable entry.  `OneShotCorrect` is the invariance theorem,
`HoldoutOpenedOnce` the property.

*Commitments*.  `CommitInv` adds what an invocation past its
recovery may count on: the events it found were durable then, and the stage it
works on is committed (`Committed`).  `CommittedFirst` is the property.

*Crash consistency*.  `Recoverable`, `TerminalIsClosed` and
`FailuresAreEarned` are about files alone, and no argument about files alone proves
them: what keeps an orphan unique is that the process at work publishes the event
that is due.  `CrashInv` has two halves.  `FilesInv`: the ledger is a walk of the
lifecycle (`Chain`, with a rank no step lowers), the stores fit its events
(`Stores`), the only artifact without event is that of `Due`, the next event
(`OneOrphan`), temporaries are single (`TempsOK`), and `Lossy`, which says of each
unsynced entry what taking it away would leave: it is the last of its directory,
nothing published later depends on it.  `Working`: for each step of the process at
work, where its publication is (`Pending` before its event is linked, `Written`
after, `Failing` for FAILED) and that nothing else is unsynced.  `LoseSafe` then
needs the first half only: a power loss leaves files that satisfy it again, so the
recovery of an invocation starts where a kill could have left it.  Each other
action has a lemma `...Crash`; among them, that `_publish` and `append` never find
a foreign orphan or an illegal transition (`StageCrash`), that the run never
reaches `_complete` with an open store (`AdvanceCrash`), and that an OSError past
the authorization cannot leave a Search chunk unsynced (`PastTheSearch`).
`CrashCorrect` is the invariance theorem; `FilesRecoverable`, `TerminalsClosed` and
`FailuresEarned` are the properties.

*Audits* (`AuditsHold`).  `AuditInv`: what an audit has read lies between its first
photograph of the ledger and the ledger as it is, since the ledger only grows while
entries are not lost (`Reads`); and the holdout's results are worked on only by a run
that has opened it (`Opened`).  An audit that finds its two photographs equal has
therefore judged the ledger that is there.

### 4.5 The shared replay

Assumptions: the eight named in `SharedReplay`.  Ticks of the grid are positive, ages,
sessions and the scenarios' delays and stresses are naturals (`_require_int`), the
signals come sorted by decision time (the constructor sorts them), the reader's events
are quotes, and a terminal one is executable (the quote class refuses another).  Of
the module's own constants, the baseline scenario has a positive stop latency and
concedes nothing at the terminal quote (`EXECUTION_SCENARIOS`: 1000 ms and 0 ticks),
and the label clock runs for at least one session (`FIRST_TOUCH_ACTIVE_SESSIONS` is 20);
the last two matter to the properties about outcomes only.  Grid, scenarios, signals,
contracts and quotes are otherwise arbitrary.

*Why it is not obvious*.  A flush is a chain of five functions of the whole object, each
over many groups and entries at once, and a cell's story crosses flushes: reserved
by an activation, taken over by a fill, freed by a column's stop, a row's take profit,
a terminal quote, a refusal or the end.  The argument looks at identities, `<<signal,
scenario, cell>>`, and shows that each function does one of two things to them.  An
activation *opens* those of the next signal (`Opens`): each is skipped, refused, or
starts to live in a free cell.  Every other step *settles* live ones (`Settles`): each gets
one result, at an event later than every decision made so far, and leaves its cell.
`OpensKeeps` and `SettlesKeeps` prove once that these keep `Core`; the rest of the work
is to show of `AdvancePositionGroup` (`AdvanceGivesUp`: exits and what is left divide the
cells a group had), `AdvancePendingEntries` (an entry that fills may close some
cells within the same timestamp) and `RefusePending` that they settle, and of
`ActivateSignal` that it opens.

*The inductive invariant* `ReplayInv`.  `Core` is about the object alone: shapes; a signal
claims the cells of a scenario once (`Sole`); the occupied cells are those of the live
identities (`Exact`); the identities of the signals up to the cursor are live, recorded
or drained, and exactly one of these (`Accounts`); decisions are what was to be seen
(`Sights`); no claim on a terminated contract (`Flat`); the holders of a cell follow one
another (`Serial`) and a skip names one that lasted (`Skips`).  `Observed` ties the latest
quotes and the terminated contracts to the flushed part of the stream, `Buffered` says
that the rest is of one later timestamp, and `Paced` that exactly the signals up to the
last flushed timestamp were activated.  This last is what makes `Sights` inductive: a
new event is later than every decision made (`AppendCore`), so it changes what none of
them saw.  `Traced` follows the entries: a waiting one has its gate at the last event of
its contract, with every event so far valid and in time (`EnRoute`); a position and a
filled record were entered at an event with a clean route (`Followed`); a refused one
has met an event that no clean route passes, or the stream is over and never reached its
eligibility (`Barred`).  Each names only events already met, so later ones change none of
it (`RouteStays`).  The step that matters is `RouteRuns`: over the buffered events, of one
timestamp, the verdict of the code, which looks at the last event and the next, is that
of the whole route (`RouteAhead` up to the event that decides, `DecidingEvent` and
`BreakingEvent` at it).  `CleanIs` shows that the property's own words mean the same.
The recursion of a replay over signals is a function, and its two loops
(`ActivateWhile`, `FinishReplay`) are handled by the least signal that would fail
(`ActivateWhileKeeps`, `FinishKeeps`).

`ReplayInvariant` is the invariance theorem; `ReplayIsRestorable`,
`EveryIdentityHasOneResult`, `DecisionsSeeThePast`, `OccupancyHolder` and
`EntriesFollowRoutes` are the properties.  The last two speak of the results not yet
drained, as the object does.

*Outcomes* (`SharedReplayOutcomes`; `OutcomeInvariant`).  The shared pass keeps one first touch per stop column
of a group, drops cells as they close and forgets the rest; the barrier engine keeps
every threshold to the end of the path.  That they agree needs an invariant that says of
each cell where its path stands.  `Waits`, for an open one after n events: the column's
trigger is the first event that touched its stop; without one the target was not
touched either, and with one the target was not touched at an earlier timestamp and
the stop has not filled; it is censored exactly if the label clock's sessions were
over before the stop was touched (or, untouched, are over now).  `Closes`, for a closed
one: its stop was touched no later than its target and it filled at the first event
after the latency, or its target was touched first and it closed there, or nothing of
this happened before the terminal quote; with the price and the label of each.  `Dated`
is what the reader guarantees and the argument uses: sessions follow the timestamps,
and a terminal quote is the last of its contract.  Inductive are `ReplayInv`, `Dated` and
`Priced`, the two for all groups and records.  The step that matters is one advance of
a group over the buffered events (`AdvancePrices`): five sets of cells (filled
stops, targets, new triggers, terminal, what remains) are matched with the cases of a path
that grows by one timestamp; `ClosesStays` says that no later event reopens a closed
cell, since it is of a later timestamp than the one that closed it or of another contract.

*The two engines* (`CellsAgreeWithBarriers`, `LabelsAreDecidedFirst`).  What the barrier
engine's loop computes is stated in closed form, `Reads(e, q, D)`: after the events of D,
each threshold holds the first event of D that touches it, each fill the first
event after the latency of its stop.  No induction principle is available, so the closed form
is proved of all prefixes by taking the least one for which it would fail (`SweptPasses`,
`ReplayPasses`).  `SurfaceIs` adds the terminal quote, `CellReads` reads a cell off the
thresholds, and the two properties follow case by case from `Closes` and `Waits`.  For the
labels the engine reads only the sessions of the label clock: a stop or a target first
touched after them has no first touch there.

### 4.6 Only model-checked

Every safety invariant and every action property of the passing runs is
proved, by the theorems above.  Liveness (`EpochEnds`, `WorkIsDecided`,
`PublishedEventually`, `RunsEnd`) is out of the prover's reach and is checked by TLC.

## 5. Not modelled

The content of results, metrics and artifacts; SHA-256 chains (of the events only
the order of types is kept); the durability of SQLite and PostgreSQL themselves;
roles and grants; read-only reports (`report`, `list_candidates`,
`verify_invariants`: the last is a source of the properties instead; it runs
several autocommit reads, so a commit between them can look like a violation).
The evaluation of a candidate is a nondeterministic choice of outcome.  Of the
runner, the verification of local checkpoint documents against the work, which
either passes or ends the cycle (`Stop`), and two processes sharing a token
file.  Of the outcome pipeline, the P5 analysis after the release.  Of the shared
replay, the encoding of a checkpoint and the refusal of malformed input.  Of the
campaign, the numerical services, most of its source: the statistics of
`symbolic.py`, `ml.py` and the engines, which have no order of steps to model.
The larger part of this repository is such code (research batches, governance
registrations, statistics, scripts), and is why the map covers a small share of
it.

## 6. Plan

1. Run registry with its attempts; the publication outbox with its claim and
   retry.
2. Validation splits, hashing resume (a file changed between checkpoints) and
   the migration runner as small modules with reference definitions.
3. Two processes on one token file of the runner; a token rotated away, by a
   reply that is already expired, from an attempt whose checkpoint is complete
   (recovery never takes such an attempt).
