--------------------------- MODULE RolloutEpisode ---------------------------
(***************************************************************************)
(* A training episode against the live graph (fde_training.rollout_env):   *)
(* it is pinned to the sealed head, reads as of that commit where a query  *)
(* can, and elsewhere checks first that the head has not moved.  Merges go *)
(* on meanwhile; what a merge writes is valid from the start of its        *)
(* transaction, and is seen from its commit on (db/005, db/008, db/015).   *)
(***************************************************************************)
EXTENDS Integers, FiniteSets

CONSTANTS
  Merges,         \* each changes something the queries return
  MaxSteps        \* bound on the steps of an episode; the tool budget

NoCommit == 0

VARIABLES
  merge,          \* where each stands, when it began, its commit_id
  clock,          \* now()
  lastId,         \* the sequence of kg.commit
  episode,        \* the commit pinned, its sealed_at, the call under way, len(steps)
  seen,           \* what each pinned query of the episode returned: the merges it saw
  mergesOverlapped,     \* history: a merge began while another was under way
  slipped         \* history: a merge committed between a check of the head and its query

rolloutVars == <<merge, clock, lastId, episode, seen, mergesOverlapped, slipped>>
graphVars   == <<merge, clock, lastId, mergesOverlapped>>

MergeRows == [at : {"none", "begun", "inserted", "committed"}, start : Nat, id : Nat]

RolloutTypeOK ==
  /\ merge \in [Merges -> MergeRows] /\ clock \in Nat /\ lastId \in Nat
  /\ episode \in [at : {"none", "ready", "checked", "recording", "over"}, head : Nat,
                  asOf : Nat, steps : Nat]
  /\ seen \subseteq SUBSET Merges
  /\ mergesOverlapped \in BOOLEAN /\ slipped \in BOOLEAN

RolloutInit ==
  /\ merge = [m \in Merges |-> [at |-> "none", start |-> 0, id |-> NoCommit]]
  /\ clock = 0 /\ lastId = NoCommit
  /\ episode = [at |-> "none", head |-> NoCommit, asOf |-> 0, steps |-> 0]
  /\ seen = {}
  /\ mergesOverlapped = FALSE /\ slipped = FALSE

-----------------------------------------------------------------------------
(* hitl.merge_proposal.                                                    *)

UnderWay  == {m \in Merges : merge[m].at \in {"begun", "inserted"}}
Committed == {m \in Merges : merge[m].at = "committed"}

\* SELECT ... ORDER BY commit_id DESC LIMIT 1, of the sealed commits.
IsHead(m) == m \in Committed /\ \A n \in Committed : merge[n].id <= merge[m].id

BeginMerge(m) ==
  /\ merge[m].at = "none"
  /\ clock' = clock + 1
  /\ merge' = [merge EXCEPT ![m] = [at |-> "begun", start |-> clock + 1, id |-> NoCommit]]
  /\ mergesOverlapped' = (mergesOverlapped \/ UnderWay # {})
  /\ UNCHANGED <<lastId, episode, seen, slipped>>

\* The commit row, sealed as of the start.
InsertCommit(m) ==
  /\ merge[m].at = "begun"
  /\ lastId' = lastId + 1
  /\ merge' = [merge EXCEPT ![m] = [at |-> "inserted", start |-> @.start, id |-> lastId + 1]]
  /\ UNCHANGED <<clock, mergesOverlapped, episode, seen, slipped>>

CommitMerge(m) ==
  /\ merge[m].at = "inserted"
  /\ merge' = [merge EXCEPT ![m].at = "committed"]
  /\ slipped' = (slipped \/ episode.at = "checked")
  /\ UNCHANGED <<clock, lastId, mergesOverlapped, episode, seen>>

-----------------------------------------------------------------------------
(* The episode.                                                            *)

\* reset.
Reset == \E m \in Merges :
  /\ episode.at \in {"none", "over"} /\ IsHead(m)
  /\ episode' = [at |-> "ready", head |-> merge[m].id, asOf |-> merge[m].start, steps |-> 0]
  /\ seen' = {} /\ slipped' = FALSE
  /\ UNCHANGED graphVars

Budget == episode.at = "ready" /\ episode.steps < MaxSteps

Returns(S) ==
  /\ seen' = seen \cup {S}
  /\ episode' = [episode EXCEPT !.at = "recording"]
  /\ UNCHANGED <<graphVars, slipped>>

\* Variant: the closures' three-argument form, which reads now.
WalkNow == Budget /\ Returns(Committed)

\* kg_traverse, kg_dependency_closure, kg_impact_radius.
Walk == Budget /\ Returns({m \in Committed : merge[m].start <= episode.asOf})

\* kg_get_node, kg_process_flow: live, not pinned, not checked.  And kg_propose, which no
\* budget stops.
UnpinnedCall ==
  /\ Budget
  /\ episode' = [episode EXCEPT !.at = "recording"]
  /\ UNCHANGED <<graphVars, seen, slipped>>

\* kg_search, kg_lexical_search: _assert_commit_unchanged, or StaleCommitError.
CheckHead ==
  /\ Budget
  /\ episode' = [episode EXCEPT !.at =
       IF \E m \in Merges : IsHead(m) /\ merge[m].id = episode.head THEN "checked" ELSE "over"]
  /\ UNCHANGED <<graphVars, seen, slipped>>

\* The query, a statement later in a READ COMMITTED transaction.
Search == episode.at = "checked" /\ Returns(Committed)

\* _record_step: counted, then written; a write that fails ends the episode.
RecordStep ==
  /\ episode.at = "recording"
  /\ \E at \in {"ready", "over"} :
       episode' = [episode EXCEPT !.at = at, !.steps = @ + 1]
  /\ UNCHANGED <<graphVars, seen, slipped>>

\* finish, or the trainer gives up.
Finish ==
  /\ episode.at = "ready"
  /\ episode' = [episode EXCEPT !.at = "over"]
  /\ UNCHANGED <<graphVars, seen, slipped>>

RolloutNext ==
  \/ \E m \in Merges : BeginMerge(m) \/ InsertCommit(m) \/ CommitMerge(m)
  \/ Reset \/ Walk \/ UnpinnedCall \/ CheckHead \/ Search \/ RecordStep \/ Finish

RolloutSpec == RolloutInit /\ [][RolloutNext]_rolloutVars

-----------------------------------------------------------------------------
(* Properties.                                                             *)

\* Whatever merges meanwhile, the pinned queries of an episode read one graph.  Not so when
\* two merges overlap: one that began before the pinned commit, with a lower commit_id,
\* may land after it, which moves neither the head nor the time read as of.  Nor when a
\* merge landed between a check of the head and its query.
EpisodePinned == mergesOverlapped \/ slipped \/ \A S \in seen, T \in seen : S = T
=============================================================================
