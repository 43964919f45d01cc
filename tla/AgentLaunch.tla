----------------------------- MODULE AgentLaunch -----------------------------
(***************************************************************************)
(* An agent task launched from the console: the row the console keeps of   *)
(* it (fde_gate.service.agents, db/018), the task in the agent's runtime   *)
(* (fde_agents.common.runtime), and its wait for the gates of every        *)
(* proposal its turn came across (fde_agents.common.hitl), while people    *)
(* review them.  The console waits on a request that may break off, and    *)
(* the task goes on without it.                                            *)
(***************************************************************************)
EXTENDS Integers

CONSTANTS Found   \* the proposal ids the turn's tool results may carry

VARIABLES
  launch,         \* the row, and where the console's call stands
  task,           \* the runtime's: its outcome, the ids it found, those it still waits on
  review,         \* hitl.proposal.status
  quorate,        \* the proposals whose gates have a quorum and no objection
  everQuorate,    \* history: quorate at some time
  polledDraft     \* history: a wait that a draft ended

launchVars == <<launch, task, review, quorate, everQuorate, polledDraft>>
reviewVars == <<review, quorate, everQuorate>>

ReviewStates == {"draft", "review", "returned", "approved", "merged", "rejected", "expired"}
TaskOver     == {"done", "aborted"}

LaunchTypeOK ==
  /\ launch \in [status : {"absent", "queued", "running", "succeeded", "failed"},
                 session : BOOLEAN, call : {"none", "filed", "dispatched", "waiting", "over"}]
  /\ task \in [at : {"none", "turn", "waiting"} \cup TaskOver,
               outcome : {"pending", "accepted", "rejected"},
               ids : SUBSET Found, awaiting : SUBSET Found]
  /\ review \in [Found -> ReviewStates]
  /\ quorate \subseteq Found /\ everQuorate \subseteq Found /\ polledDraft \subseteq Found

LaunchInit ==
  /\ launch = [status |-> "absent", session |-> FALSE, call |-> "none"]
  /\ task = [at |-> "none", outcome |-> "pending", ids |-> {}, awaiting |-> {}]
  /\ review = [p \in Found |-> "draft"]
  /\ quorate = {} /\ everQuorate = {} /\ polledDraft = {}

-----------------------------------------------------------------------------
(* The console.                                                            *)

\* _record_launch, in the transaction that checked the reviewer.
FileLaunch ==
  /\ launch.call = "none"
  /\ launch' = [status |-> "queued", session |-> FALSE, call |-> "filed"]
  /\ UNCHANGED <<task, reviewVars, polledDraft>>

\* No runtime is configured for the agent.
RefuseLaunch ==
  /\ launch.call = "filed"
  /\ launch' = [launch EXCEPT !.status = "failed", !.call = "over"]
  /\ UNCHANGED <<task, reviewVars, polledDraft>>

\* Variant: the session is stamped when the launch ends, with the status.
DispatchUnstamped ==
  /\ launch.call = "filed"
  /\ launch' = [launch EXCEPT !.status = "running", !.call = "dispatched"]
  /\ UNCHANGED <<task, reviewVars, polledDraft>>

\* _mark_dispatched.
Dispatch ==
  /\ launch.call = "filed"
  /\ launch' = [status |-> "running", session |-> TRUE, call |-> "dispatched"]
  /\ UNCHANGED <<task, reviewVars, polledDraft>>

\* AgentExecutor.execute reaches the runtime, which refuses the task or starts its turn.
Invoke ==
  /\ launch.call = "dispatched"
  /\ launch' = [launch EXCEPT !.call = "waiting"]
  /\ \E at \in {"turn", "aborted"} : task' = [task EXCEPT !.at = at]
  /\ UNCHANGED <<reviewVars, polledDraft>>

\* The stream has ended, whatever its last event says: succeeded.
Succeed ==
  /\ launch.call = "waiting" /\ task.at \in TaskOver
  /\ launch' = [launch EXCEPT !.status = "succeeded", !.call = "over"]
  /\ UNCHANGED <<task, reviewVars, polledDraft>>

\* The invocation fails, breaks off or outlasts request_timeout_seconds.
Fail ==
  /\ launch.call \in {"dispatched", "waiting"}
  /\ launch' = [launch EXCEPT !.status = "failed", !.call = "over"]
  /\ UNCHANGED <<task, reviewVars, polledDraft>>

\* The console's process goes away: the row stays as it is.
ConsoleDies ==
  /\ launch.call \in {"filed", "dispatched", "waiting"}
  /\ launch' = [launch EXCEPT !.call = "over"]
  /\ UNCHANGED <<task, reviewVars, polledDraft>>

-----------------------------------------------------------------------------
(* The task.                                                               *)

\* The turn, _compute_outcome, and whether this task waits (awaits_gate).
Turn ==
  /\ task.at = "turn"
  /\ \E ids \in SUBSET Found, failed \in BOOLEAN, awaits \in BOOLEAN :
       /\ failed => ids = {}
       /\ task' = [at |-> "waiting", ids |-> ids, awaiting |-> IF awaits THEN ids ELSE {},
                   outcome |-> IF failed THEN "rejected"
                               ELSE IF ids = {} THEN "accepted" ELSE "pending"]
  /\ UNCHANGED <<launch, reviewVars, polledDraft>>

\* hitl.gates_satisfied: no gate is unsatisfied, as none of a draft that was never
\* submitted is.
GatesSatisfied(p) == p \in quorate \/ review[p] = "draft"

WaitEnds(p, outcome) ==
  task' = [task EXCEPT !.awaiting = @ \ {p}, !.outcome = outcome]

\* Variant: no objection is taken for approval.
PollApprovedUnopposed(p) ==
  /\ review[p] \notin {"rejected", "returned", "expired"}
  /\ WaitEnds(p, "accepted")
  /\ polledDraft' = IF review[p] = "draft" THEN polledDraft \cup {p} ELSE polledDraft

PollApproved(p) ==
  /\ review[p] = "merged" \/ GatesSatisfied(p)
  /\ WaitEnds(p, "accepted")
  /\ polledDraft' = IF review[p] = "draft" THEN polledDraft \cup {p} ELSE polledDraft

PollRejected(p) ==
  /\ ~GatesSatisfied(p) /\ review[p] \in {"rejected", "returned"}
  /\ WaitEnds(p, "rejected") /\ UNCHANGED polledDraft

\* timed_out, expired and not_found leave the outcome to a later re-check.
WaitLapses(p) == WaitEnds(p, task.outcome) /\ UNCHANGED polledDraft

\* A poll that raises ends the task with no outcome and no end_session.
PollRaises == task' = [task EXCEPT !.at = "aborted"] /\ UNCHANGED polledDraft

\* _await_all_gates; an undecided poll changes nothing.
AwaitGate == \E p \in task.awaiting :
  /\ task.at = "waiting"
  /\ PollApproved(p) \/ PollRejected(p) \/ WaitLapses(p) \/ PollRaises
  /\ UNCHANGED <<launch, reviewVars>>

EndTask ==
  /\ task.at = "waiting" /\ task.awaiting = {}
  /\ task' = [task EXCEPT !.at = "done"]
  /\ UNCHANGED <<launch, reviewVars, polledDraft>>

-----------------------------------------------------------------------------
\* What reviewers and the sweep make of a proposal.  A merge counts the quorum when it
\* begins, and the roster may break it before the merge commits.
Moves(from) ==
  CASE from \in {"draft", "returned"} -> {"review", IF from = "draft" THEN from ELSE "expired"}
    [] from = "review"   -> {"returned", "rejected", "expired"}
    [] from = "approved" -> {"merged"}
    [] OTHER -> {}

\* submit_proposal, record_decision, merge_proposal, expire_overdue.
ReviewMoves == \E p \in Found :
  /\ \E to \in Moves(review[p]) :
       /\ review' = [review EXCEPT ![p] = to]
       /\ quorate' = IF to \in {"review", "returned", "rejected"} THEN quorate \ {p} ELSE quorate
  /\ UNCHANGED <<launch, task, everQuorate, polledDraft>>

\* The decision that completes the quorum approves.
Approve == \E p \in Found :
  /\ review[p] = "review"
  /\ review' = [review EXCEPT ![p] = "approved"]
  /\ quorate' = quorate \cup {p} /\ everQuorate' = everQuorate \cup {p}
  /\ UNCHANGED <<launch, task, polledDraft>>

\* The roster, or a reviewer of another mind, completes a quorum or breaks it, and
\* approves nothing.
RosterChanges == \E p \in Found :
  /\ review[p] \in {"review", "approved", "expired"}
  /\ \/ p \in quorate /\ quorate' = quorate \ {p} /\ UNCHANGED everQuorate
     \/ p \notin quorate /\ quorate' = quorate \cup {p} /\ everQuorate' = everQuorate \cup {p}
  /\ UNCHANGED <<launch, task, review, polledDraft>>

LaunchNext ==
  \/ FileLaunch \/ RefuseLaunch \/ Dispatch \/ Invoke \/ Succeed \/ Fail \/ ConsoleDies
  \/ Turn \/ AwaitGate \/ EndTask
  \/ ReviewMoves \/ Approve \/ RosterChanges

LaunchSpec == LaunchInit /\ [][LaunchNext]_launchVars

-----------------------------------------------------------------------------
(* Properties.                                                             *)

\* A task reports accepted only if it found no proposal, or the gates of one were all
\* satisfied by people at some time; unless it waited for a draft, which has no gates and
\* so passes hitl.gates_satisfied.
TaskVerdict ==
  task.at = "done" /\ task.outcome = "accepted" =>
    task.ids = {} \/ task.ids \cap (everQuorate \cup polledDraft) # {}

\* The row can be trusted whatever became of the console: an agent that was invoked is
\* named by its session, and a launch that succeeded is over in the runtime.
LaunchTraced ==
  /\ task.at # "none" => launch.session
  /\ launch.status = "succeeded" => task.at \in TaskOver
=============================================================================
