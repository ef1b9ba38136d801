---------------------------- MODULE CampaignFiles ----------------------------
(***************************************************************************)
(* The files of the AI all-cases campaign, campaigns/ai_all_cases_v1:      *)
(* run.py's lifecycle ledger and outer artifacts, pipeline.py's universe   *)
(* and Search chunk stores.  Every file is published once and never        *)
(* rewritten: a temporary is written in a staging directory, linked to its *)
(* destination, the destination's directory is synced, the temporary       *)
(* unlinked.  An entry whose directory was not synced after the link is    *)
(* lost or kept by a power loss.                                           *)
(***************************************************************************)
EXTENDS Naturals, FiniteSets, Sequences

CONSTANT Chunks   \* chunks of the universe plan and of the Search plan

ASSUME ChunksType == Chunks \in Nat

VARIABLES
  science,    \* the branch the deterministic services select
  ledger,     \* ledger/events: the types of events 1, 2, ...
  artifacts,  \* artifacts: the event types whose outer artifact exists
  universe,   \* internal/universe: chunks published
  chunks,     \* internal/search/artifacts: chunks published
  marks,      \* internal/search/events: chunks recorded
  temps,      \* staging directories: temporaries, "unlinked" or where linked
  unsynced    \* <<directory, entry>>: links not yet followed by a sync

files == <<ledger, artifacts, universe, chunks, marks, temps, unsynced>>

EventTypes == {"PRECOMMITTED", "SEARCH_UNIVERSE_FROZEN", "SEARCH_RESULTS_RELEASED",
               "WALK_FORWARD_SKIPPED", "WALK_FORWARD_MASKS_FROZEN",
               "WALK_FORWARD_RESULTS_RELEASED", "HOLDOUT_SKIPPED", "HOLDOUT_AUTHORIZED",
               "HOLDOUT_MASKS_FROZEN", "HOLDOUT_RESULTS_RELEASED", "COMPLETED", "FAILED"}
Terminals == {"COMPLETED", "FAILED"}

(* What the Search and the walk-forward select: nothing at the Search,     *)
(* nothing after the walk-forward, or finalists for the holdout.           *)
Branches == {"no_search_finalists", "no_walk_forward_finalists", "finalists"}

Directories == {"artifacts", "events", "universe", "chunks", "marks"}
Stagings == {"artifacts", "events", "universe", "search"}
StagingOf(dir) == IF dir \in {"chunks", "marks"} THEN "search" ELSE dir

-----------------------------------------------------------------------------
(* The lifecycle.                                                          *)

(* _TRANSITIONS: the events that may precede an event.                     *)
Predecessors(e) ==
  CASE e = "PRECOMMITTED" -> {}
    [] e = "SEARCH_UNIVERSE_FROZEN" -> {"PRECOMMITTED"}
    [] e = "SEARCH_RESULTS_RELEASED" -> {"SEARCH_UNIVERSE_FROZEN"}
    [] e = "WALK_FORWARD_SKIPPED" -> {"SEARCH_RESULTS_RELEASED"}
    [] e = "WALK_FORWARD_MASKS_FROZEN" -> {"SEARCH_RESULTS_RELEASED"}
    [] e = "WALK_FORWARD_RESULTS_RELEASED" -> {"WALK_FORWARD_MASKS_FROZEN"}
    [] e = "HOLDOUT_SKIPPED" -> {"WALK_FORWARD_SKIPPED", "WALK_FORWARD_RESULTS_RELEASED"}
    [] e = "HOLDOUT_AUTHORIZED" -> {"WALK_FORWARD_RESULTS_RELEASED"}
    [] e = "HOLDOUT_MASKS_FROZEN" -> {"HOLDOUT_AUTHORIZED"}
    [] e = "HOLDOUT_RESULTS_RELEASED" -> {"HOLDOUT_MASKS_FROZEN"}
    [] e = "COMPLETED" -> {"HOLDOUT_SKIPPED", "HOLDOUT_RESULTS_RELEASED"}
    [] e = "FAILED" -> EventTypes \ Terminals

(* The event _run_with_services works on after event e.                    *)
Successor(e) ==
  CASE e = "PRECOMMITTED" -> "SEARCH_UNIVERSE_FROZEN"
    [] e = "SEARCH_UNIVERSE_FROZEN" -> "SEARCH_RESULTS_RELEASED"
    [] e = "SEARCH_RESULTS_RELEASED" ->
         IF science = "no_search_finalists"
         THEN "WALK_FORWARD_SKIPPED" ELSE "WALK_FORWARD_MASKS_FROZEN"
    [] e = "WALK_FORWARD_MASKS_FROZEN" -> "WALK_FORWARD_RESULTS_RELEASED"
    [] e = "WALK_FORWARD_RESULTS_RELEASED" ->
         IF science = "finalists" THEN "HOLDOUT_AUTHORIZED" ELSE "HOLDOUT_SKIPPED"
    [] e = "WALK_FORWARD_SKIPPED" -> "HOLDOUT_SKIPPED"
    [] e = "HOLDOUT_AUTHORIZED" -> "HOLDOUT_MASKS_FROZEN"
    [] e = "HOLDOUT_MASKS_FROZEN" -> "HOLDOUT_RESULTS_RELEASED"
    [] e \in {"HOLDOUT_SKIPPED", "HOLDOUT_RESULTS_RELEASED"} -> "COMPLETED"
    [] OTHER -> e

(* The events a service computes; the others are written by the run alone. *)
Served == {"SEARCH_UNIVERSE_FROZEN", "SEARCH_RESULTS_RELEASED", "WALK_FORWARD_MASKS_FROZEN",
           "WALK_FORWARD_RESULTS_RELEASED", "HOLDOUT_MASKS_FROZEN",
           "HOLDOUT_RESULTS_RELEASED"}

-----------------------------------------------------------------------------
(* Reading the files.                                                      *)

Recorded == {ledger[i] : i \in DOMAIN ledger}
Ended == ledger # <<>> /\ ledger[Len(ledger)] \in Terminals
LegalNext(e) == IF ledger = <<>> THEN e = "PRECOMMITTED"
                                 ELSE ledger[Len(ledger)] \in Predecessors(e)

(* _artifact_relative_paths and _verify_outer_artifact_leaf_set.           *)
Referenced == Recorded \ {"FAILED"}
Orphans == artifacts \ Referenced
LeafSet(orphans) == Referenced \subseteq artifacts /\ Cardinality(Orphans) <= orphans

(* _recover_temporary_files, _recover_staging and _verify_run_root_tree    *)
(* refuse a staging directory with more than one temporary.                *)
TempsBounded == \A s \in Stagings : Len(temps[s]) <= 1
Staged(s) == temps[s] # <<>>

SearchEmpty == chunks = 0 /\ marks = 0 /\ ~Staged("search")
InternalEmpty == SearchEmpty /\ universe = 0 /\ ~Staged("universe")

(* verify_no_internal_evidence_before_precommit and                        *)
(* verify_search_store_empty_before_universe_release.                      *)
EvidenceInOrder ==
  /\ ledger = <<>> => InternalEmpty
  /\ "SEARCH_UNIVERSE_FROZEN" \notin Recorded => SearchEmpty

(* _SearchSubledger.verify and _verify_released_internal_closures.         *)
StoreSound == marks <= chunks /\ chunks <= marks + 1
ReleasesClosed ==
  /\ "SEARCH_UNIVERSE_FROZEN" \in Recorded => universe = Chunks
  /\ "SEARCH_RESULTS_RELEASED" \in Recorded => marks = Chunks

-----------------------------------------------------------------------------
(* Writing the files.                                                      *)

FilesInit ==
  /\ science \in Branches
  /\ ledger = <<>> /\ artifacts = {}
  /\ universe = 0 /\ chunks = 0 /\ marks = 0
  /\ temps = [s \in Stagings |-> <<>>]
  /\ unsynced = {}

(* os.fsync of a directory, after a link or after an unlink.               *)
Synced(dir) == {u \in unsynced : u[1] # dir}

Cleared(stagings) == [s \in Stagings |-> IF s \in stagings THEN <<>> ELSE temps[s]]

(* _recover_linked_publisher_temporaries, of staging directories with one  *)
(* temporary at most: a linked one of the outer publishers is unlinked.    *)
WithoutLinked ==
  [s \in Stagings |-> IF s \in {"artifacts", "events"} /\ temps[s] # <<"unlinked">>
                      THEN <<>> ELSE temps[s]]

WriteTemp(dir) == temps' = [temps EXCEPT ![StagingOf(dir)] = Append(@, "unlinked")]

(* The temporary of the writer in dir: the last one made.                  *)
Own(dir) == LET own == temps[StagingOf(dir)] IN Len(own)
MarkLinked(dir) ==
  temps' = [temps EXCEPT ![StagingOf(dir)] =
              [i \in DOMAIN temps[StagingOf(dir)] |->
                 IF i = Own(dir) THEN dir ELSE temps[StagingOf(dir)][i]]]
UnlinkTemp(dir) ==
  temps' = [temps EXCEPT ![StagingOf(dir)] = SubSeq(@, 1, Own(dir) - 1)]

(* os.link: the entry appears, not yet durable.                            *)
LinkEntry(dir, e) ==
  /\ MarkLinked(dir)
  /\ CASE dir = "artifacts" -> /\ artifacts' = artifacts \cup {e}
                               /\ unsynced' = unsynced \cup {<<dir, e>>}
                               /\ UNCHANGED <<ledger, universe, chunks, marks>>
       [] dir = "events" -> /\ ledger' = Append(ledger, e)
                            /\ unsynced' = unsynced \cup {<<dir, Len(ledger) + 1>>}
                            /\ UNCHANGED <<artifacts, universe, chunks, marks>>
       [] dir = "universe" -> /\ universe' = universe + 1
                              /\ unsynced' = unsynced \cup {<<dir, universe + 1>>}
                              /\ UNCHANGED <<ledger, artifacts, chunks, marks>>
       [] dir = "chunks" -> /\ chunks' = chunks + 1
                            /\ unsynced' = unsynced \cup {<<dir, chunks + 1>>}
                            /\ UNCHANGED <<ledger, artifacts, universe, marks>>
       [] dir = "marks" -> /\ marks' = marks + 1
                           /\ unsynced' = unsynced \cup {<<dir, marks + 1>>}
                           /\ UNCHANGED <<ledger, artifacts, universe, chunks>>

(* _discard_bounded_outer_publisher_orphan and                             *)
(* discard_validated_artifact_orphan: the artifact without event goes, and *)
(* its directory is synced.                                                *)
DiscardArtifact ==
  /\ artifacts' = artifacts \cap Referenced
  /\ unsynced' = IF Orphans = {} THEN unsynced ELSE Synced("artifacts")
DiscardChunk ==
  /\ chunks' = marks
  /\ unsynced' = IF chunks = marks THEN unsynced ELSE Synced("chunks")

(* The events a power loss cannot take back.                               *)
Durable == {ledger[i] : i \in {j \in DOMAIN ledger : <<"events", j>> \notin unsynced}}

(* A power loss: any temporary and any entry not synced may be gone, in a  *)
(* numbered directory the last ones first.                                 *)
Survivors(dir, n) == {k \in 0..n : \A i \in (k + 1)..n : <<dir, i>> \in unsynced}
Losable == {e \in artifacts : <<"artifacts", e>> \in unsynced}

(* The directories where a link was lost.                                  *)
Cut(events, u, c, m, gone) ==
  {dir \in Directories : \/ dir = "events" /\ events < Len(ledger)
                         \/ dir = "artifacts" /\ gone # {}
                         \/ dir = "universe" /\ u < universe
                         \/ dir = "chunks" /\ c < chunks
                         \/ dir = "marks" /\ m < marks}

Lose ==
  \E events \in Survivors("events", Len(ledger)), u \in Survivors("universe", universe),
     c \in Survivors("chunks", chunks), m \in Survivors("marks", marks),
     gone \in SUBSET Losable, kept \in SUBSET {s \in Stagings : temps[s] # <<>>} :
    /\ ledger' = SubSeq(ledger, 1, events)
    /\ artifacts' = artifacts \ gone
    /\ universe' = u /\ chunks' = c /\ marks' = m
    /\ temps' = [s \in Stagings |->
                   IF s \notin kept THEN <<>>
                   ELSE [i \in DOMAIN temps[s] |->
                           IF temps[s][i] \in Cut(events, u, c, m, gone)
                           THEN "unlinked" ELSE temps[s][i]]]
    /\ unsynced' = {}
=============================================================================
