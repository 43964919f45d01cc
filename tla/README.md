# FDE Agent Platform: specifications, model checks and proofs

The platform keeps a versioned knowledge graph of a customer's engagement. Agents propose changes to it; people
review the proposals at gates; an approved proposal is merged; workflows pinned to a commit of the graph are
published and executed, with people in the loop; the embedder, the systems-of-record (SoR) ingestion and the drift
detectors keep derived data up to date; and the outcome of a review labels the agent's trace for training.

Nearly all state is in one Postgres database. Every service call and every tool call is one transaction
(`db.tool_transaction`, `packages/fde-mcp/src/fde_mcp/db.py:234-263`) at READ COMMITTED; the state machines are
plpgsql functions (`db/004`, `005`, `006`, `013`). So the concurrency is that of transactions: each *statement* sees
what was committed when it began, `FOR UPDATE` and `UPDATE` look at a row again after waiting for it, an exception
rolls everything back, and whatever was read without a lock may be out of date a statement later. The models split a
transaction exactly where another one's commit shows in what it does, and say so in the module's header.

Paths below are relative to `src/`; `013:244` is line 244 of the migration `db/013_*.sql`.

## 1. Inventory

| component | state | operations | what is hard | status |
|---|---|---|---|---|
| HITL gates (`db/004`, `005`, `013`; `fde_gate/service/proposals.py`; `fde_mcp/tools/proposals.py`) | proposals, items, frozen gates, decisions, stamps, roster, policies, trace labels | propose, submit, record_decision, edit_item, merge, expire; grant, revoke, (de)activate; policy edits | decisions, resubmissions, edits, merges, sweep and roster changes interleave; several statements read an unlocked roster | modelled, proved |
| Workflow runs (`db/006`, `013`; `fde_gate/runner.py`) | runs, attempts of steps, what each process has loaded | start, begin, complete, fail, await, respond, cancel, timeout sweep; `advance()` | any number of processes advance one run in three transactions each, may die, may answer late | modelled, proved |
| Knowledge graph (`db/002`, `005`; publishing in `013`; `wf_draft`) | node and edge versions, commits, pinned workflows, stale_pin signals | merge_proposal; draft, publish; triage of a signal | merges take no lock per engagement: they interleave statement by statement, out of the order of their timestamps | partly, proved |
| Graph reading (`db/008`, `015`; `fde_mcp/tools/graph.py`) | none | traverse, dependency_closure, impact_radius; search, process_flow | cycles, retired nodes on the way, hop and row limits | traversal modelled, proved |
| Embeddings (`db/003`; `embedder_worker.py`) | backlog, embeddings with is_current | enqueue and clear (trigger), claim, embed, upsert, give up | duplicate claims; a version closed between load and upsert | modelled, proved |
| Reviewer administration (`service/reviewers.py`, `db/016`) | roster, administrators | add, activate, grant, revoke, set_admin | the last-administrator check reads without a lock | modelled, proved |
| Agent launches and the wait at a gate (`db/018`; `service/agents.py`; `common/runtime.py`, `common/hitl.py`) | a row per launch; the task's outcome and the proposals it waits for | launch, dispatch, finish; turn, poll, give up | dispatch outlives the request; what a poll sees of reviews that move on, approval tested first | modelled, proved |
| SoR ingestion (`fde_sor/observations.py`, `adapters/`, `lambda_handlers.py`, `backfill.py`) | records, cursor, slot, messages | poll, flush, acknowledge, replay, SQS Lambda | crash between commit and acknowledgement, redelivery, overlapping runs, rows of one cursor value | partly, proved |
| Drift (`db/007`; `detectors.py`, `tools/drift.py`, `service/drift.py`) | drift signals, alerts | record (deduplicated), scan, page, triage | the alert follows the commit and may fail; triage and scans interleave | partly |
| Sources (`service/sources.py`, `intake.py`) | sources by checksum, chain of re-ingested versions | register, re-ingest | check, then insert, with nothing to back the check | partly, proved |
| Migration Lambda (`infra/cdk/lambdas/migration_runner/handler.py`) | ledger, roles, secrets, the answer to CloudFormation | migrate, create logins, answer | crashes between the secret and the role, overlapping invocations, two threads that may answer | partly, proved |
| Training rollouts (`fde_training/rollout_env.py`) | an episode pinned to a commit | reset, tools, finish | merges during an episode that is to see one graph | modelled, proved |
| Training: labels, export, rewards, RFT (`db/009`, `fde-training`) | labels, exports | label, export, reward, train | the label is in HitlGates; the rest is offline batch computation | partly |
| Agents' prompts, guardrails and tracing; executors | none of their own | | nondeterministic input of the models; guardrails only emit events | partly |
| Roles and grants; console and HTTP; playbook, dashboards | none, or a static matrix | | static, read-only, or a front of modelled calls | not modelled |

How they interact: an agent's `kg_propose` and `kg_submit` create proposals (HitlGates); `merge_proposal` is where the
gates end and the graph begins: HitlGates has its checks and the trace label, KnowledgeGraph its rows. A merge
enqueues embeddings and raises stale_pin signals for published workflows; a workflow is pinned to a commit and
executed by the runner; a human step waits in the same console as the reviews; a resolved drift signal becomes a
proposal. No component calls another in memory: they share tables, so a composition is a module that extends or
instantiates the one whose tables it reads.

What would make each correct: *gates*, nothing is merged without its full quorum, given for what was submitted, and
the label is what people decided; *runs*, one open attempt, one effective executor, nothing closed is reopened,
people are waited for, and a run settles; *graph*, one live version of a key, history only grows, a merge does what
its proposal says, and a commit is a snapshot; *reading*, the closure is exact and nearest; *embeddings*, a closed
version is not current and what is enqueued is tried, a bounded number of times; *administration*, an administrator
remains; *launches*, a task that reports acceptance had it, and the row finds the agent; *ingestion*, no record is
lost and a poll catches up; *drift*, a critical signal is paged; *sources*, a passage is anchored once and stays
reachable while it is not; *migrations*, forward only, a role's password is the one in its secret, and CloudFormation is
answered; *rollouts*, one episode sees one graph.

`PROJECT.json` lists all components with the reason for each omission, and the hazards line by line.

## 2. The modules

| module | what it is |
|---|---|
| `ReviewPromise` | the abstract specification: what the gates promise, with nothing of how |
| `HitlGates` | the gates in detail; `KeepsPromise` is the refinement |
| `GateDecisions` | the table of decisions under record_decision, statement by statement |
| `RunPromise` | the abstract specification of a run: a course through steps, with nothing of who advances it |
| `WorkflowRuns` | runs, attempts and the processes that advance them; `KeepsCourse` is the refinement |
| `GraphPromise` | the abstract specification of the graph's history: a merge is one step |
| `KnowledgeGraph` | merges, versions, commits, pinned workflows; `KeepsHistory` is the refinement |
| `Traversal` | the recursive query of kg.traverse, level by level |
| `Embeddings`, `Administrators`, `AgentLaunch`, `SorIngest`, `DriftSignals`, `Intake`, `MigrationRunner`, `RolloutEpisode` | the services around them, one module each |
| `MC...` | the finite instances, chosen by the `.cfg` files; `MCServices` holds the nine modules of the two rows above, and `GateDecisions` |
| `HitlGatesProofs`, `HitlPromiseProofs`, `WorkflowRunsProofs`, `KnowledgeGraphProofs` | theorems about the gates, the runs and the graph, and the three refinements |
| `MigrationRunnerProofs`, `ServicesProofs` (administrators, launches, drift, embeddings, decisions), `IngestionProofs` (sources, SoR), `GraphReadProofs` (rollouts, traversal) | theorems about the services |

Operators marked `Variant:` are faulty forms of the definition after them. Nothing uses them; they record which
mistake in the code each property notices.

### HitlGates

`status` is `hitl.proposal.status`, `gates[p][g]` the frozen quorum of a row of `proposal_gate`, `cleared` its
`cleared_at`, `decisions` the rows of `gate_decision` that nothing supersedes, `item` the proposal's items,
`authority`/`active` the live roster, `policy` the quorums of `gate_policy`, `outcome`/`judged` the label of a trace
session. `Submit` is `submit_proposal` (`004:224-274`) with `compute_required_gates`. `record_decision` is one action
when the say is an objection (`RecordObjection`), and two otherwise: `DecideBegin` writes the decision and the
verdicts and stamps gates, `DecideCommit` decides the approval by counting again, and the roster may change between
them (`013:237-248`: the proposal row is locked, the roster is not). `edit_item` is `EditBegin` (reads the status
without a lock) and `EditCommit`; a merge is `MergeBegin` (status and gates, `005:84-92`) and `MergeCommit` (status
and label), or `MergeAbort`. The sweep `ExpireProposals` is `expire_proposals`.

### GateDecisions

`HitlGates` keeps only the live decisions and replaces one in a single step (`RowsAfter`). Here is what that stands on:
`table` is `hitl.gate_decision` as committed, one row per `decision_id` with its `superseded_by`, and `decide[c]` the
transaction of a call of `record_decision`, with the rows as it has written them. `LockGate`, `LockProposal`, `ReadPrev`,
`PointSelf`, `InsertRow` (with the partial unique index), `Repoint` and `CommitDecision` are its statements in order,
`RollBackDecision` comes anywhere: a check that refuses, a deadlock, a lost connection. A resubmission locks the proposal
(`SubmitLock`) and then the gates it deletes (`SubmitDelete`), the other way round; `Expire` is the sweep. The verdicts,
the stamps and who may decide are left to `HitlGates`.

### WorkflowRuns

`run[r]` is the row of `wf.run` with its attempts, `worker[w]` what a process of the runner holds in memory between
its transactions. The transition functions of `db/013` lock what they change and are pure operators on one run
(`BeginStep`, `CompleteStep`, `FailStep`, `AdvanceCursor`, `CancelRun`); `runner.advance()` is `Load`, `Begin` and one
of `Park`, `Finish`, `Fail`, with `Crash` possible at any point. The step executed is the one *loaded*; the attempt is
of the step the run is at when it is *begun*. A process answers late simply by taking `Finish` after others moved on.
`timeout_steps` falls back to 3 attempts where the runner's own number can be configured
(`FDE_GATE_MAX_STEP_ATTEMPTS`); the model uses one `MaxTries` for both.

To `RunPromise` a run is its `Course`: a `Phase` (idle, busy, asking, or how it ended), the step it is at, and how many
attempts of each step were ever `Made`. The promise has no attempt rows, processes, deadlines or refused results. A
process that loaded a decision and answers late may send the run where that decision points, so `Ways` has the branches
of every decision the run has come to, and no others.

### KnowledgeGraph

`closer[n][k]` is the version of key `k` that merge `n` wrote: absent, live, or closed by a merge. `merge[m]` is the
transaction of proposal `m`: `Begin` (`v_now`), `InsertCommit`, then for each item `See` (the snapshot of the
closing UPDATE), `Close` (its WHERE clause again, on the row as it is once the lock is there, and the range check) and
`Insert` (the partial unique index, which waits for whoever holds the entry), and `Seal`, or `RollBack` at any point:
a constraint, a deadlock the server resolves, a lost connection. Guards that wait model locks, so a cycle of waiting
merges ends by `RollBack`, as in Postgres. `clock` orders the `now()` of transactions and `sealed` remembers when one
committed, which the code records nowhere. Nodes and edges are keys; evidence, digests, `superseded_by` and
the embedding backlog are left for `Embeddings`.

To `GraphPromise` a merge is waiting, under way or done (`MergeStage`), and `CommittedVersion` is what a reader sees: the
versions of committed merges, ended by committed merges only. `Merge` writes every key the proposal puts and ends the
live version of every key it puts or retires, in one step. It may miss only a version of a key it retires, put by a
merge that was not committed yet when it began (`CommittedBefore`): the retirement has then found nothing to end.

### Traversal

One call of `kg.traverse` (`008:52-130`) on a fixed snapshot: `graphKeys` and `graphEdges` are the nodes and edges live
at the time read, `rows` the rows of the recursive CTE by their path and confidence, `level` the depth of its working
table. `Seed` is the non-recursive term, `Expand` one round of the recursive one over the rows that closed no cycle
(the `CYCLE` clause), `Answer` the join with the live nodes, the `DISTINCT ON` and the `LIMIT`. `DependencyClosure` and
`ImpactRadius` are its callers. An edge's confidence is a positive whole number, as only products of as many factors are
compared; `p_min_confidence` and the time of reading are in which edges are live.

### Embeddings

`version[s]` is the life of a node or edge version, `tries` and `completed` its row of `kg.embed_queue`, `embedding` its
row of `node_embedding` or `edge_embedding`, `embedder[w]` what a worker has claimed and loaded. A merge's part is
`Enqueue`, and a close in two steps: `CloseBegin` is the UPDATE in the middle of the merge, with the trigger that clears
is_current in the rows committed by then, and `CloseCommit` the merge's commit, which is when others see either
(`CloseAbort` if it rolls back). In between, `closing[s]` says whether the trigger found a row: workers still load `s`
as open, and may write an embedding the trigger has missed; a row it did correct they wait for. A worker's transactions
are `Claim` (a claim holds nothing back: nobody reads `claimed_at`), `Load`, and `Upsert` or `EmbedFails`; it may die
between any two.

### Administrators

A call of `service.reviewers` is `Authorise` (`_assert_admin`), `Check` (`_assert_not_last_admin` and the like) and
`Commit`, three statements of one transaction, each on what is committed by then; `Refuse` ends it anywhere.

### AgentLaunch

`launch` is the row of a launch and where the console's call stands, `task` the runtime's side, `review` and `quorate`
what the gates say of each proposal the turn came across. The console's transactions are `FileLaunch`, `Dispatch`
(which stamps the session before the call), `Invoke`, and `Succeed` or `Fail`; `ConsoleDies` anywhere. The task is
`Turn`, `AwaitGate` (one poll of one proposal, its verdicts in the order the code tests them) and `EndTask`. `HitlGates`
is abstracted to `ReviewMoves`, `Approve` and `RosterChanges`.

### SorIngest

`emitted` is what the source produced, `stored` `sor.observation`, `lastCursor`, `slot` and `queue` the three ways a
source is told how far one has read; `ingesting[p]` is a run. `StartIngest` fetches as the adapter's kind does,
`ReadRecord` takes a record into the batch, `Flush` commits batch and cursor, `Acknowledge` moves the slot or deletes the
messages after the commit, and `CrashIngest` comes anywhere. A backfill is a run with `replay`; `ConsumeSqsBatch` is the
Lambda. `Stamp` is what a record is fetched by, and records may share one.

### DriftSignals

`bypass` is what the observations show of each control, `signals` the rows of `sor.drift_signal`. `Scan` is
`drift_scan_once` up to its commit, `Publish` and `PublishFails` the alert after it, `AgentScan` the tool that records
and alerts nobody, `Triage` both ways to triage under the unique index of live signals.

### Intake

`sources` holds each source with its chunks' anchors and the source it re-ingests. A call is a look (`Register` for a
checksum, `Reingest` for a successor), `MatchAnchors` on the nodes live then, and `Insert`; `MergeNode` changes the
nodes in between.

### MigrationRunner

`migAt` is where an invocation's main path is; the ledger, the roles and the secrets are shared. `Plan`, `Apply`, `Applied`,
`CheckLogin`, `PutSecret` and `CreateRole` are the statements of the main path, each committed by itself; `Raise` leaves
it anywhere. `ClaimMain` and `Fire` are the two threads' claims of the one answer, `PutMain` and `PutWatchdog` their PUTs,
`Kill` the timeout.

### RolloutEpisode

`merge[m]` is a merge by its start (its valid_from and sealed_at), its commit row and its commit; `episode` the commit
pinned, the time read as of and the call under way; `seen` what each query returned, as the set of merges it saw.
`Walk` reads as of the pin, `CheckHead` and `Search` check the head first, `UnpinnedCall` does neither.

## 3. What is checked

Seven runs pass and five show where the code departs from what the repository says of it. Each property is noticed
to fail in a variant of the code listed under `mutants`.

| run | what it shows |
|---|---|
| `HitlRoster` | quorum two, an author who is a reviewer, a roster and a policy that change between any two statements: `QuorumStands`, `RosterCounts` (an approval and a merge start from a quorum that is *current*), `FrozenBar` |
| `HitlEdits` | two gates, items edited by verdicts and by `edit_item` around decisions, resubmission, merge and expiry: `FreshDecisions`, `OriginalIsAgents`, `KeepsPromise`; with the roster still also `ApprovedGatesStamped`, which a moving roster breaks |
| `HitlSession` | two proposals of one trace session: `LabelMatchesJudgment`; and `ReviewsEnd` under fairness |
| `RunsLoop` | a retried step, a decision that jumps back, misses or escalates, a human step, two processes that may die: `OneOpenAttempt`, `StatusAgrees`, `OneExecutor`, `RecordsFinal`, `PeopleAreWaitedFor`, `KeepsCourse` |
| `RunsLive` | a workflow without a loop: `RunsSettle` under fairness |
| `GraphMerges` | three merges that write two keys in opposite orders and retire one, a workflow pinned on the way: `OneLiveVersion`, `HistoryStands`, `MergeLands`, `SnapshotFinal`, `KeepsHistory` |
| `Services` | `GateDecisions` and the nine service modules, see below |
| `HitlEditRace` (violated) | `EditsOnlyUnderReview`: an edit that read the status before a decision committed is applied after it (`013:281`) |
| `HitlLabel` (violated) | `AcceptedMeansUntouched`: an accept verdict after an edit makes an edited merge count as untouched (`013:195`) |
| `RunsUnasked` (violated) | `PeopleAreAsked`: a process that loaded a step before another moved the run on completes the next, human, step in a person's place (`runner.py:283`) |
| `GraphRace` (violated) | `PublishedFaithful`: a merge begun before a commit and sealed after it ends a version in that commit's past; a workflow published on it is no longer faithful to its own pin (`005:94`) |
| `GraphUnflagged` (violated) | `StaleIsFlagged`: a workflow published behind the head carries no stale_pin signal (`013:475`) |

`SnapshotFinal` is what remains true of `PublishedFaithful`: a commit is a snapshot once every merge that was under
way when it was sealed has ended.

`Services` has one behaviour for each service: `focus` is chosen in the initial state, only the chosen service steps, and
the others stay as they begin. They share no state (a composition would only multiply their states), so this checks
each by itself, in one run. What it shows:

* `GateDecisions`. `DecisionsChained`: whatever overlaps, fails or deadlocks, the index refuses nobody, and what a
  reviewer has said on a gate is one chain in the order it was said, of which only the last row is live.
  `OneMindChanges`: to whoever reads the live rows, the three statements are the one step of `HitlGates`.
* `Traversal`. `ReachExact`: against a definition by walks, the answer has exactly the live nodes within the hops, the
  first by key if there are too many, each at its least distance, although no row that closes a cycle is followed.
  `StrongestPath`: the confidence is the highest of the shortest walks, against a recursive function.
* `Embeddings`. `CurrencyHonest`: a current embedding is of an open version, or of one that a worker held or loaded
  while the merge that closed it was open;
  `TriesBounded`: the retry budget is overshot by less than the number of workers; `Drained`: what is enqueued is
  embedded or has used up its attempts.
* `Administrators`. `AdminRemains`, unless two removals overlap.
* `AgentLaunch`. `TaskVerdict`: a task that says accepted found nothing, or waited for a draft, or for a proposal that
  people had given its quorum; `LaunchTraced`: an agent that was invoked is named in its row.
* `SorIngest`. `NothingLost`: a record is stored or can be fetched again, unless a run committed past it unread;
  `Ingested`: polls catch up, malformed records and crashes notwithstanding.
* `DriftSignals`. `CriticalPaged`: a critical signal that stays open is paged.
* `Intake`. `AnchoredOnce`, unless calls overlap; `DarkStaysReachable`, also when they do.
* `MigrationRunner`. `ForwardOnly`; `CredentialsAgree`, unless invocations overlap; `Answered`: CloudFormation is answered
  even when the main path hangs.
* `RolloutEpisode`. `EpisodePinned`: the pinned queries of an episode see one graph, unless merges overlapped or one
  landed between a check and its query.

The exceptions are history variables (`racedClose`, `skewed`, `crossed`, `jumped`, `overlapped`, `slipped`,
`mergesOverlapped`, `polledDraft`): each is set by the very race that breaks the property, at its narrowest, so that the
property says there is no other way. It does not say that the race is harmless: each breaks what the repository
says of itself, and the models reach the state it excludes.

* `racedClose`: "when a version is closed out, its embedding must drop out of the HNSW partial index or retrieval will
  surface stale facts" (`003:160-162`). A worker that has the version loaded marks it current again.
* `skewed`: "It refuses to remove the last administrator" (`service/reviewers.py:17-20`). Two removals at once pass.
* `overlapped`: "secret and role can never disagree at the end of any invocation"
  (`infra/cdk/lambdas/migration_runner/handler.py:428-430`). After two that overlap they may.
* `slipped`, `mergesOverlapped`: a re-run "sees the same graph even if new commits have since merged"
  (`fde_training/rollout_env.py:34-37`). A merge begun before the pin, or landed after a check, shows.

* `crossed`: clicking twice "is the same document with the same anchors, and must be a no-op"
  (`service/sources.py:600-602`). Two calls that have both looked store it twice.
* `jumped`: acknowledging after the commit "makes the pipeline at-least-once" (`fde_sor/adapters/base.py:87`). A batch that
  ends inside a transaction, or an API that serves the newest first, moves the position past what is not read yet.
* `polledDraft`: `gates_satisfied` is a "fail-closed quorum check" (`004:311`). It is true of a draft.

So these properties are the promises for the histories without the race, and say nothing of the others; section 5 has
what happens then.

### Bounds, and why they are enough

* `MaxQuorum` 2, three reviewers: one approval too few, exactly enough, and the author's own. `MaxRounds` 2: a decision
  can survive into a second submission, if it could at all. Two gates, so that one is met and the other not, and two
  items, so that one is edited while a verdict holds the other. Two proposals where they share a session, one
  elsewhere: proposals share nothing else but the roster and the policy.
* `MaxTries` 2 (the retry budget is used and exhausted), `MaxAttempts` (5 or 6) attempts of one step and `MaxRetried`
  answers of "retry", which would otherwise go on for ever. Two processes: the hazards are between the one that holds
  the attempt and one that held the previous one. In `RunsLive` the bound on attempts is out of reach without a person.
  Runs share nothing, so one is enough.
* `MaxStarts` transactions begun in all, roll backs included: 4 for three merges, so that each may be rolled back and
  begun again. Two keys make a deadlock; three merges make a row that was closed, replaced and seen by a third.
* Decisions: two gates, two reviewers and two calls at a time, so that calls are on one gate or on two;
  `MaxRows` 3 makes a mind change twice, `MaxSubmissions` 2 takes the rows away under a call.
* `Services`: two actors of every kind, as each hazard is between the one that has read and another that writes. Two
  releases of which the second inserts a file, and one login user: a gap in the ledger, and every crash between secret
  and role. Three records, two of one stamp and one undecodable, batches of one, `MaxIngestCrashes` 1, and each of the
  three kinds: a batch that ends inside a transaction. A node and an edge of it, `MaxEmbedTries` 2, `MaxEmbedCrashes` 1.
  One transcript of two passages and `MaxSources` 3: two re-ingestions of one source, or a chain. One control and
  `MaxSignals` 2: a signal settled and its successor. Two proposals found: one may be decided after the other. Three merges
  and `MaxSteps` 2: one merge pinned, two that overlap. Traversal: every graph over four keys (live or not) and six
  edges, with a cycle, parallel edges and ways of different length; queries by type and direction, cut by the row limit,
  and one over the ceiling, which is 3 in place of 6 hops and 9 in place of 5000 nodes. One service's bound never limits another.
* Symmetry is used only for the two interchangeable reviewers of `HitlRoster`, which has no liveness property.
* `CHECK_DEADLOCK FALSE` everywhere: reviews, runs and merges end, and then nothing need happen.

### Fairness

Nobody is obliged to review, answer, cancel or merge. Only the following is assumed.

* `HitlGates`: a deadline passes and an open decision transaction ends (weak); the hourly rule
  (`deploy/schedule.py:12-14`) runs the sweep (strong: its UPDATE queues for a locked row and does not pass it by).
* `WorkflowRuns`: the one-minute tick takes the oldest runs first, so a run that is idle again and again is loaded and
  begun sometimes (strong); Lambda ends a process that does not end itself, and the sweep of the tick runs (weak).
* `Embeddings`: `run_forever` keeps claiming and goes through its batch (weak, for each worker). A worker that dies claims again.
* `SorIngest`: the schedule goes on starting polls, and a run that does not die goes on (weak). A backfill is run by hand
  and not assumed; nor is the Lambda.
* `DriftSignals`: the schedule goes on scanning (weak), and a publication tried again and again succeeds sometimes (strong):
  without it nobody could ever be paged. The agent's scans, triage and the observations are not assumed.
* `MigrationRunner`: the watchdog polls in a thread of its own, and an answer once claimed is sent or fails (weak). The main
  path has no fairness: it may hang for ever, which is what the watchdog is for.
* The others have no liveness property: nobody is obliged to administer, register, launch or train, and a
  launch whose console died stays as it is.
* `KnowledgeGraph` has no liveness property and no fairness: nothing retries a merge.

`MergeLands` says that what a merge puts is live under its own commit, whatever was committed meanwhile, and that what
it retires is gone, unless the version is of a merge that committed since it began.

## 4. What is proved

TLAPS checks every theorem for all values of the constants, under the assumptions named in the modules
(`ConstantsOK`, `WorkflowOK`, `GraphAssumption`, `MigOK`, `AdminOK`, `DriftOK`, `EmbOK`, `IntakeOK`, `SorOK`,
`TraverseOK`, `DecisionsOK`): finitely many reviewers, bounds that are naturals, markers that are not names of proposals,
and functions of the right shape. The bounds stay parameters.

* `HitlGatesProofs`. `QuorumStands` is not inductive by itself: an approval is counted by one statement over decisions
  another wrote. `Locks` says what an open decision or merge transaction pins (the status cannot leave review, or
  approval, under it), `Gated` that a proposal under review has a gate. The invariant is
  `TypeOK /\ Locks /\ Gated /\ QuorumStands`, and a lemma per action says what it does to one proposal. From there
  `FreshDecisions`, `FrozenBar`, `JudgmentsFinal`, `LabelMatchesJudgment`, `OriginalIsAgents`.
  `RosterCounts` needs no strengthening: who is counted at the step is a set at least as large as the bar, and a finite
  set has a subset of any smaller size. `ApprovedGatesStamped` is proved for a still roster (`Movable` and `Switchable`
  empty), where `MetStamped` (a gate that counts as met is stamped) is inductive; a grant is what breaks it.
* `HitlPromiseProofs`. `Spec => KeepsPromise`: initial states map to initial states, and each step of `HitlGates` is one
  of `ReviewPromise` or a stutter. Approval maps to `Deliberate` because the counted reviewers are among those who assent.
* `WorkflowRunsProofs`. Everything a run owes is a predicate of one run's record, preserved by each transition function
  as an operator lemma; `OneExecutor` needs besides that an attempt held by two processes is not running (`Held`),
  which is why a begun attempt is always new. `OneOpenAttempt`, `StatusAgrees`, `OneExecutor`, `RecordsFinal`,
  `PeopleAreWaitedFor`. `Spec => KeepsCourse` rests on two more conjuncts. `Counts`: attempts are numbered without a gap,
  so the number of the newest is how many were made, over all visits of a step, which is what the retry budget is
  compared with; and a run has tried each step it has left. `Come`: a process knows only steps its run has come to, which
  is what bounds where a late answer can send it. One lemma per transition function says which step of the promise it is.
* `KnowledgeGraphProofs`. `OneLiveVersion` speaks of committed readers only and is far from inductive. The invariant
  is about views: *every* merge, in the middle of its work or not, sees at most one live version of a key (`Views`),
  and at most one merge under way has written a key (`OneHolder`). A close keeps them because the version it ends is in
  the view of any other holder; an insert because the index entry is free; a commit because the holder of a key is the
  only one whose view was different; a roll back because what reappears was in the view of a merged version all along.
  `Chronology` (no version ends before it began) is in the invariant too, as the range check is what keeps a merge from
  closing its own version. From there `OneLiveVersion`, and `HistoryStands` as an action property. `SnapshotFinal` needs `Stamps`
  (a merge begun after a commit was sealed gets a later id): only a commit changes what is committed, and a later one
  neither counts as of the earlier nor ends, as of it, what it closes. `MergeLands` needs `Lands`, the bookkeeping of a
  merge at work: what its first items put is live in it, since the range check keeps it from closing its own versions,
  and of what they retired it sees, as live, only versions committed since it began (`Since`).
  `Spec => KeepsHistory`: the seal of a merge is the one step the promise sees of it. At that point all of its items are
  done (`AllDone`), what it wrote are the keys it puts (`OwnKeys`), and what it closed is what the promise ends
  (`SealMaps`), where `missed` are the retired keys that it still sees as live.

The services have one shape: something is read in one step and relied on in a later one, and the invariant says what of
the reading still holds. `SorOK` assumes besides that later records have no lower stamps, which a log guarantees and an
updated-at column by a clock that does not go back.

* `MigrationRunnerProofs`. `Planned` (what is left of a plan is all of the release that is not in the ledger), `NoGap`
  (unless overlapped, no later file is), `Alone` and `Minting` (unless overlapped, the role is still missing, and the
  secret the invocation's own). From there `ForwardOnly` as an action property, and `CredentialsAgree`.
* `ServicesProofs`. Administrators: `ClearedSafe`, a removal that passed its check leaves an administrator even now, unless
  skewed. Launches: `QuorumKnown` and `OutcomeEarned` trace an outcome to what was once a quorum; `CallKnown` ties the
  task to the call. Embeddings: `HoldsItem` (what was loaded as open is open or raced) and `Closings` (a version that is
  being closed is still open to others, and where the trigger corrected nothing, a row current since is of a worker that
  raced), and `AttemptsLeft`: the
  attempts made and the workers that may still add one never exceed the bound, a count over the set of claimants.
  Decisions: `Serial` (calls that hold the proposal exclude each other and a resubmission), so that `Work` can say at each
  statement what the call has written and that what it read is still so; the row it supersedes is then the only live one
  of the reviewer (`LiveIsLast`), the index is free (`IndexFree`), and its id is above all others, which carries the
  chain over the commit.
* `IngestionProofs`. Sources: `Descends` and `Rooted` (a version has the dark passages of its origin, back to a whole
  text), `Chained` and `LookHolds` (unless crossed, what was looked up is still so). SoR: `RunSound` is what one run
  owes. Whatever it has passed is stored, in its hands, jumped, or behind where the next fetch starts (`Covers`); what
  it will acknowledge is stored (`AckSafe`, `ReceiptsSafe`). `SourceOrder` says the source never goes back.
  `NothingLost` is proved for every kind of adapter, batch size, and any number of runs that overlap and die.
* `GraphReadProofs`. Rollouts: `OneAtATime` (unless merges overlapped, starts, commit_ids and commits are in one order),
  `HeadKnown`, `CheckHolds`, `SawPinned`. Traversal: `ReachExact` for every graph and query. `NodesKept`, the nodes of a
  row's path have rows no longer than their place in it, is what lets a row that closes a cycle be dropped; with it
  `Extended` (every row of a finished level has been continued along every edge) gives `AllReached`: whatever walk leads
  to a node, some row that is no longer does. `HasLeast` keeps a shortest row, as the CHOOSE of `Depth` needs one.
  `StrongestPath` compares the answer with a recursive function, `Strength`. `Strongest` ties it to the rows while they
  are walked: at the level where a node is first reached its strength is the highest confidence of the rows of that
  length that end there, and it is 0 where no walk leads. A round keeps this because a best row goes on by a best edge,
  and a row that closes a cycle has come back to a node that was reached before. That `Strength` is what its
  definition says, level by level, is an induction over naturals: `Induct` gets it from the least element of the set of
  counterexamples, as the library's induction theorem takes an operator and cannot be used here.

What is only model-checked is liveness (`ReviewsEnd`, `RunsSettle`, `Answered`, `Ingested`, `Drained`, `CriticalPaged`), as
fairness and ENABLED are out of the prover's reach. Every safety invariant, action property and refinement of a passing
run is a theorem. The type invariants, and `JudgmentsFinal`, which `KeepsPromise` implies, are proved and not run,
as the theorems about their modules rest on the proofs.

## 5. Known differences that no run shows

* Resubmission deletes the gates and with them the decisions, which `004:163` calls append-only: `HitlGates` keeps
  live rows only.
* `reviewer_authority.node_types` (`004:34`) is read by no predicate; `requires_human` (`006:66`) not by the runner.
* A process that dies between `begin_step` and `await_human` leaves a human step running, and the sweep fails it.
* A stamp is not cleared when the roster changes; an approval may be given over an open stamp.
* Concurrent merges may write two sealed commits with one parent (`005:96`); a retirement that waited for a concurrent
  put does nothing; no constraint forbids overlapping validity intervals, only two live versions.
* Gates seen by an agent. `gates_satisfied` is true of a draft, which has no gates, although `004:311` calls it a fail-closed
  check: an agent that waits for a draft is told it is approved. A poll tests approval before expiry, so an expired
  proposal whose quorum the roster completes counts as approved, and an approved one that lost its quorum keeps the agent
  waiting until its deadline. A later wait overwrites the verdict of an earlier one, and a poll that raises ends the
  task without `end_session`.
* Launches. `AgentExecutor` takes a stream that ends, with an error event too, for success: `succeeded` says only that the
  stream ended. `end_session` (`tracing.py:438-475`) updates a column the role may not write, so its failure is swallowed and
  `ended_at` stays empty.
* Ingestion. A batch that ends inside a transaction moves the slot past rows not yet read, and an API that serves the
  newest first moves the cursor past older records: a crash then loses them (`jumped`). The SQS poller deletes a message that
  decodes and does not normalise, the Lambda reports it for redelivery. A log of malformed records only never
  moves the slot.
* Embeddings. A version closed while a worker has it loaded, or loaded between the merge's UPDATE and its commit, may
  stay current for good (`racedClose`), against `003:160-162`.
* Administration. Two overlapping removals may remove the last two administrators (`skewed`), against `reviewers.py:17-20`.
* Drift. `drift_triage` says that only a human resolves; an agent can reopen a resolved signal. A signal triaged before it
  turns critical pages nobody.
* Sources. Two overlapping calls store a document twice, or re-ingest it twice. A passage anchored to a node that is
  retired later is never dark again.
* Migrations. Of two overlapping invocations the loser overwrites the secret of the role the winner made,
  against `handler.py:428-430`. A PUT that raises
  has used up the permission to answer.
* Rollouts. `kg_get_node` and `kg_process_flow` are neither pinned nor checked, and no budget stops `kg_propose`. A merge
  begun before the pinned commit, with a lower commit_id, lands without moving the head or what is read as of,
  against `rollout_env.py:34-37`.
* Traversal. `max_nodes` is called a frontier ceiling (`008:44`) and is a `LIMIT` on the rows returned, by key: the walk is
  not bounded by it, and near nodes may be cut while far ones stay. The walk goes through nodes that are retired.
  `process_flow` orders by in-degree, which is not a topological order (`008:175` says "topological-ish").

## 6. Not modelled

Roles and grants are a static matrix, whose consequence is which actor takes which action. The console's HTTP handlers,
forms and HTML, the playbook and the dashboards are a front of calls already modelled, or read-only. Of retrieval,
the scores and the fusion of the hybrid search; of training, exports, rewards and jobs, which are batch computations; of
intake, the splitting of a text and the matching of anchors; of ingestion, field mapping, hashing and the registry; of
the agents, prompts, LLM calls and guardrails, which only emit events; of the migration Lambda, the branch that
reads a count for the metrics. These are data conversions or pure functions of one snapshot.

## 7. Plan

1. `AgentLaunch` composed with `HitlGates`: what a poll reads is the committed state, so the gates need a variable for
   what others see of a proposal while a decision on it is open.
2. `Embeddings` and `RolloutEpisode` composed with `GraphPromise`, in place of their own abstraction of a merge.
3. The other detectors of drift, and the filters of the training export as pure definitions.
