------------------------------ MODULE HitlGates ------------------------------
(***************************************************************************)
(* The human-in-the-loop gates: hitl.proposal and its items, the gate set  *)
(* frozen at submit, the reviewers' decisions, the roster they are counted *)
(* against, the merge, the expiry sweep and the training label             *)
(* (db/004, db/005, db/013, service/proposals.py, tools/proposals.py).     *)
(*                                                                         *)
(* Every service call is one READ COMMITTED transaction: each statement    *)
(* sees what others have committed by then.  submit_proposal, which locks  *)
(* the proposal first and reads nothing else twice, is one action.  Three  *)
(* calls are split where a commit between their statements shows:          *)
(*   record_decision stamps the gates from the roster as it is, then       *)
(*                   decides approval from the roster as it is by then     *)
(*                   (the proposal row is locked, the roster is not);      *)
(*   edit_item       reads the proposal's status without a lock, then      *)
(*                   writes the item (it holds only the item's row lock);  *)
(*   merge           checks the gates and reads the items, then labels the *)
(*                   trace from the items as they are by then.             *)
(* What an open record_decision has written is protected by its row locks: *)
(* nobody reads it before the commit, so it is written in place, and a     *)
(* rollback is the same as never having begun.                             *)
(***************************************************************************)
EXTENDS Integers, FiniteSets

CONSTANTS
  Proposals, Items, Policies, Sessions, Engagements, Kinds, Payloads,
  Reviewers,      \* principals with a hitl.reviewer row
  Authors,        \* principals that author proposals: agents, or reviewers
  None,
  ItemsOf,        \* the items kg_propose stages with a proposal
  AgentPayload,   \* the payload an item is proposed with
  Cited,          \* items that cite a kg.source, or are retirements
  Author,         \* authored_by of a proposal
  SessionOf,      \* trace_session_id of a proposal, or None
  EngagementOf,   \* engagement_id of a proposal
  KindOf,         \* gate_kind of a policy
  AllowSelf,      \* policies with allow_self
  Matches,        \* <<policy, item, payload>>: the policy's predicate holds
  Quorums,        \* Quorums[g]: what policy edits may set policy g to; 0 = inactive
  Policy0,        \* the policy table at the start
  Authority0,     \* the live reviewer_authority rows at the start
  Movable,        \* the authority rows administrators grant and revoke
  Switchable,     \* the reviewers administrators switch off and on
  MaxQuorum,      \* bound on gate_policy.quorum
  MaxRounds       \* bound on the submissions of one proposal

VARIABLES
  status,         \* hitl.proposal.status; "absent" before kg_propose
  round,          \* how many times the proposal was submitted
  overdue,        \* proposals whose expires_at is past
  policy,         \* hitl.gate_policy: quorum of each active policy, 0 if inactive
  gates,          \* hitl.proposal_gate: gates[p][g] is the frozen quorum, 0 if no gate
  cleared,        \* gates with cleared_at stamped
  decisions,      \* the rows of hitl.gate_decision with superseded_by null
  item,           \* hitl.proposal_item
  authority,      \* hitl.reviewer_authority rows with revoked_at null
  active,         \* reviewers with is_active
  deciding,       \* proposals an open record_decision has locked and written
  held,           \* items whose rows an open record_decision has written
  editTxn,        \* the payload an open edit_item transaction will write, or None
  merging,        \* proposals an open merge transaction has checked and locked
  graph,          \* graph[i]: the payload item i was merged with, or None
  outcome,        \* trn.trace_session.outcome
  judged          \* trn.trace_session.label_proposal_id

proposalVars == <<status, round, overdue>>
gateVars     == <<gates, cleared, decisions>>
rosterVars   == <<policy, authority, active>>
labelVars    == <<outcome, judged>>
decideVars   == <<deciding, held>>
txnVars      == <<decideVars, editTxn, merging, graph>>
vars == <<proposalVars, gateVars, rosterVars, item, txnVars, labelVars>>

Statuses     == {"absent", "draft", "submitted", "in_review", "changes_requested",
                 "approved", "rejected", "merged", "expired"}
UnderReview  == {"submitted", "in_review"}
Judged       == {"merged", "rejected"}
Says         == {"approve", "reject", "request_changes", "abstain"}
Objections   == {"reject", "request_changes"}
ItemStatuses == {"pending", "accepted", "edited", "dropped"}
Silent       == "silent"
Verdicts     == {Silent, "accept", "drop"} \cup Payloads   \* a payload is an edit verdict

DecisionRows == [policy : Policies, reviewer : Reviewers, say : Says, round : 0..MaxRounds]
ItemRows     == [status : ItemStatuses, payload : Payloads, original : Payloads \cup {None}]

ASSUME ConstantsOK ==
  /\ MaxQuorum \in Nat /\ MaxRounds \in Nat
  /\ IsFiniteSet(Reviewers)
  /\ None \notin Payloads \cup Proposals \cup Sessions
  /\ Payloads \cap {Silent, "accept", "drop"} = {}
  /\ ItemsOf \in [Proposals -> SUBSET Items]
  /\ \A p, q \in Proposals : p # q => ItemsOf[p] \cap ItemsOf[q] = {}
  /\ AgentPayload \in [Items -> Payloads]
  /\ Author \in [Proposals -> Authors]
  /\ SessionOf \in [Proposals -> Sessions \cup {None}]
  /\ EngagementOf \in [Proposals -> Engagements]
  /\ KindOf \in [Policies -> Kinds]
  /\ Cited \subseteq Items /\ AllowSelf \subseteq Policies
  /\ Quorums \in [Policies -> SUBSET (0..MaxQuorum)]
  /\ Policy0 \in [Policies -> 0..MaxQuorum]
  /\ Authority0 \subseteq Reviewers \X Engagements \X Kinds
  /\ Movable \subseteq Reviewers \X Engagements \X Kinds
  /\ Switchable \subseteq Reviewers

TypeOK ==
  /\ status \in [Proposals -> Statuses]
  /\ round \in [Proposals -> 0..MaxRounds]
  /\ overdue \in SUBSET Proposals
  /\ policy \in [Policies -> 0..MaxQuorum]
  /\ gates \in [Proposals -> [Policies -> 0..MaxQuorum]]
  /\ cleared \in [Proposals -> SUBSET Policies]
  /\ decisions \in [Proposals -> SUBSET DecisionRows]
  /\ item \in [Items -> ItemRows]
  /\ authority \in SUBSET (Reviewers \X Engagements \X Kinds)
  /\ active \in SUBSET Reviewers
  /\ deciding \in SUBSET Proposals
  /\ held \in SUBSET Items
  /\ editTxn \in [Items -> Payloads \cup {None}]
  /\ merging \in SUBSET Proposals
  /\ graph \in [Items -> Payloads \cup {None}]
  /\ outcome \in [Sessions -> {"pending", "accepted", "corrected", "rejected"}]
  /\ judged \in [Sessions -> Proposals \cup {None}]

-----------------------------------------------------------------------------
(* The pure functions of the schema.  The decision rows are a parameter:   *)
(* record_decision evaluates them on the rows it has just written.         *)

\* hitl.compute_required_gates: it looks at every item, dropped ones too.
RequiredGates(p) ==
  [g \in Policies |->
     IF \E i \in ItemsOf[p] : <<g, i, item[i].payload>> \in Matches
     THEN policy[g] ELSE 0]

RowsSaying(p, g, rows, says) == {d \in rows[p] : d.policy = g /\ d.say \in says}

\* (Operators marked "Variant:" are faulty forms of the definition after them;
\* the properties are shown to notice the difference.  Nothing else uses them.)

\* Variant: abstentions count as approvals.
CountedWithAbstentions(p, g, rows) ==
  {r \in active :
     /\ \E d \in RowsSaying(p, g, rows, {"approve", "abstain"}) : d.reviewer = r
     /\ <<r, EngagementOf[p], KindOf[g]>> \in authority
     /\ g \in AllowSelf \/ r # Author[p]}

\* The reviewers whose approval of gate g counts right now.
Counted(p, g, rows) ==
  {r \in active :
     /\ \E d \in RowsSaying(p, g, rows, {"approve"}) : d.reviewer = r
     /\ <<r, EngagementOf[p], KindOf[g]>> \in authority
     /\ g \in AllowSelf \/ r # Author[p]}

\* hitl.gates_satisfied: vacuously true of a proposal with no gates.
GatesSatisfied(p, rows) ==
  ~ \E g \in Policies :
      /\ gates[p][g] > 0
      /\ \/ Cardinality(Counted(p, g, rows)) < gates[p][g]
         \/ RowsSaying(p, g, rows, Objections) # {}

\* Variant: the two copies of the predicate have drifted apart.
GateQuorumExceeded(p, g, rows) ==
  /\ Cardinality(Counted(p, g, rows)) > gates[p][g]
  /\ RowsSaying(p, g, rows, Objections) = {}

\* hitl.gate_quorum_met, the same predicate for one gate (db/013 keeps the
\* two bodies apart on purpose).
GateQuorumMet(p, g, rows) ==
  /\ Cardinality(Counted(p, g, rows)) >= gates[p][g]
  /\ RowsSaying(p, g, rows, Objections) = {}

\* Variant: a second edit overwrites the original with the first edit.
EditedRowNoCoalesce(it, new) ==
  [status |-> "edited", payload |-> new, original |-> it.payload]

\* What an edit, by either path, does to an item row.
EditedRow(it, new) ==
  [status   |-> "edited",
   payload  |-> new,
   original |-> IF it.original = None THEN it.payload ELSE it.original]

RowAfter(it, v) ==
  CASE v = Silent   -> it
    [] v = "accept" -> [it EXCEPT !.status = "accepted"]
    [] v = "drop"   -> [it EXCEPT !.status = "dropped"]
    [] OTHER        -> EditedRow(it, v)

\* Variant: label_proposal_id is written once, the outcome every time.
ApplyTraceLabelFirstJudge(p, st) ==
  LET s == SessionOf[p] IN
  IF s = None
  THEN UNCHANGED labelVars
  ELSE /\ outcome' = [outcome EXCEPT ![s] = IF st = "rejected" THEN "rejected" ELSE "accepted"]
       /\ judged' = [judged EXCEPT ![s] = IF @ = None THEN p ELSE @]

\* hitl.apply_trace_label, called once p's status is st.
ApplyTraceLabel(p, st) ==
  LET s == SessionOf[p]
      l == IF st = "rejected" THEN "rejected"
           ELSE IF \E i \in ItemsOf[p] : item[i].status \in {"edited", "dropped"}
           THEN "corrected" ELSE "accepted"
  IN IF s = None
     THEN UNCHANGED labelVars
     ELSE /\ outcome' = [outcome EXCEPT ![s] = l]
          /\ judged' = [judged EXCEPT ![s] = p]

-----------------------------------------------------------------------------
Init ==
  /\ status = [p \in Proposals |-> "absent"]
  /\ round = [p \in Proposals |-> 0]
  /\ overdue = {}
  /\ policy = Policy0
  /\ gates = [p \in Proposals |-> [g \in Policies |-> 0]]
  /\ cleared = [p \in Proposals |-> {}]
  /\ decisions = [p \in Proposals |-> {}]
  /\ item = [i \in Items |->
               [status |-> "pending", payload |-> AgentPayload[i], original |-> None]]
  /\ authority = Authority0
  /\ active = Reviewers
  /\ deciding = {} /\ held = {}
  /\ editTxn = [i \in Items |-> None]
  /\ merging = {}
  /\ graph = [i \in Items |-> None]
  /\ outcome = [s \in Sessions |-> "pending"]
  /\ judged = [s \in Sessions |-> None]

\* kg_propose: the draft and its items, in one transaction.
Propose(p) ==
  /\ status[p] = "absent"
  /\ status' = [status EXCEPT ![p] = "draft"]
  /\ UNCHANGED <<round, overdue, gateVars, rosterVars, item, txnVars, labelVars>>

\* Variant: the decisions survive the gates they were given on.
DecisionsKept(p) == decisions[p]

\* The decisions left once the old gate rows are deleted: the foreign key
\* of gate_decision cascades.
DecisionsAfterSubmit(p) == {}

\* hitl.submit_proposal: validate, delete the old gates (their decisions go
\* with them), freeze the new ones, restart the SLA clock.
Submit(p) ==
  /\ status[p] \in {"draft", "changes_requested"}
  /\ ItemsOf[p] # {}
  /\ ItemsOf[p] \subseteq Cited
  /\ \E g \in Policies : RequiredGates(p)[g] > 0
  /\ round[p] < MaxRounds
  /\ status' = [status EXCEPT ![p] = "submitted"]
  /\ round' = [round EXCEPT ![p] = @ + 1]
  /\ overdue' = overdue \ {p}
  /\ gates' = [gates EXCEPT ![p] = RequiredGates(p)]
  /\ cleared' = [cleared EXCEPT ![p] = {}]
  /\ decisions' = [decisions EXCEPT ![p] = DecisionsAfterSubmit(p)]
  /\ UNCHANGED <<rosterVars, item, txnVars, labelVars>>

\* What record_decision refuses: a closed proposal, an inactive or
\* unauthorised reviewer, an author on a gate without allow_self.  It waits
\* for another decision on the same proposal.
MayDecide(p, g, r) ==
  /\ gates[p][g] > 0
  /\ p \notin deciding
  /\ status[p] \in UnderReview
  /\ r \in active
  /\ <<r, EngagementOf[p], KindOf[g]>> \in authority
  /\ g \in AllowSelf \/ r # Author[p]

\* The live rows once r has said say on gate g: r's previous row there is
\* superseded (that the three statements amount to this: GateDecisions).
RowsAfter(p, g, r, say) ==
  {d \in decisions[p] : ~ (d.policy = g /\ d.reviewer = r)}
    \cup {[policy |-> g, reviewer |-> r, say |-> say, round |-> round[p]]}

\* Every gate that now meets its quorum and has no stamp yet is stamped.
ClearedAfter(p, rows) ==
  cleared[p] \cup {g \in Policies : gates[p][g] > 0 /\ GateQuorumMet(p, g, rows)}

\* hitl.record_decision up to its status machine: the decision row and the
\* item verdicts.  An item an open edit_item holds makes a verdict on it
\* wait, so the verdict is given when the lock is free.
WriteDecision(p, g, r, say, verdicts) ==
  /\ MayDecide(p, g, r)
  /\ \A i \in ItemsOf[p] : verdicts[i] # Silent => editTxn[i] = None
  /\ decisions' = [decisions EXCEPT ![p] = RowsAfter(p, g, r, say)]
  /\ item' = [i \in Items |->
                IF i \in ItemsOf[p] THEN RowAfter(item[i], verdicts[i]) ELSE item[i]]
  /\ UNCHANGED <<round, overdue, gates, rosterVars, editTxn, merging, graph>>

\* ... reject, which judges the session too, or request_changes.
RecordObjection(p, g, r, say, verdicts) ==
  /\ say \in Objections
  /\ WriteDecision(p, g, r, say, verdicts)
  /\ IF say = "reject"
     THEN /\ status' = [status EXCEPT ![p] = "rejected"]
          /\ ApplyTraceLabel(p, "rejected")
     ELSE /\ status' = [status EXCEPT ![p] = "changes_requested"]
          /\ UNCHANGED labelVars
  /\ UNCHANGED <<cleared, decideVars>>

\* ... approve or abstain, up to the stamps on the gates.
DecideBegin(p, g, r, say, verdicts) ==
  /\ say \notin Objections
  /\ WriteDecision(p, g, r, say, verdicts)
  /\ status' = [status EXCEPT ![p] = "in_review"]
  /\ cleared' = [cleared EXCEPT ![p] = ClearedAfter(p, decisions')]
  /\ deciding' = deciding \cup {p}
  /\ held' = held \cup {i \in ItemsOf[p] : verdicts[i] # Silent}
  /\ UNCHANGED labelVars

\* Variant: one satisfied gate approves the proposal.
DecideCommitAnyGate(p) ==
  /\ p \in deciding
  /\ status' = IF \E g \in Policies : gates[p][g] > 0 /\ GateQuorumMet(p, g, decisions)
               THEN [status EXCEPT ![p] = "approved"] ELSE status
  /\ deciding' = deciding \ {p}
  /\ held' = held \ ItemsOf[p]
  /\ UNCHANGED <<round, overdue, gateVars, rosterVars, item, editTxn, merging, graph, labelVars>>

\* Variant: approval trusts the stamps instead of counting again.
DecideCommitByStamps(p) ==
  /\ p \in deciding
  /\ status' = IF \A g \in Policies : gates[p][g] > 0 => g \in cleared[p]
               THEN [status EXCEPT ![p] = "approved"] ELSE status
  /\ deciding' = deciding \ {p}
  /\ held' = held \ ItemsOf[p]
  /\ UNCHANGED <<round, overdue, gateVars, rosterVars, item, editTxn, merging, graph, labelVars>>

\* ... approval, if every gate is satisfied by now, and the commit.
DecideCommit(p) ==
  /\ p \in deciding
  /\ status' = IF GatesSatisfied(p, decisions)
               THEN [status EXCEPT ![p] = "approved"] ELSE status
  /\ deciding' = deciding \ {p}
  /\ held' = held \ ItemsOf[p]
  /\ UNCHANGED <<round, overdue, gateVars, rosterVars, item, editTxn, merging, graph, labelVars>>

\* hitl.edit_item, up to its status check: the item's row is locked, the
\* proposal's is only read.
EditBegin(p, i, new) ==
  /\ editTxn[i] = None /\ i \notin held
  /\ status[p] \in UnderReview
  /\ editTxn' = [editTxn EXCEPT ![i] = new]
  /\ UNCHANGED <<proposalVars, gateVars, rosterVars, item, decideVars, merging, graph, labelVars>>

\* ... and its UPDATE, committed.
EditCommit(i) ==
  /\ editTxn[i] # None
  /\ item' = [item EXCEPT ![i] = EditedRow(@, editTxn[i])]
  /\ editTxn' = [editTxn EXCEPT ![i] = None]
  /\ UNCHANGED <<proposalVars, gateVars, rosterVars, decideVars, merging, graph, labelVars>>

\* ... or rolled back: the connection dropped.
EditAbort(i) ==
  /\ editTxn[i] # None
  /\ editTxn' = [editTxn EXCEPT ![i] = None]
  /\ UNCHANGED <<proposalVars, gateVars, rosterVars, item, decideVars, merging, graph, labelVars>>

\* Variant: the merge trusts the status and does not check the gates again.
MergeAllowedByStatus(p) == status[p] = "approved"

MergeAllowed(p) == status[p] = "approved" /\ GatesSatisfied(p, decisions)

\* hitl.merge_proposal: lock, check, and read the items that go in.
MergeBegin(p) ==
  /\ MergeAllowed(p)
  /\ p \notin merging
  /\ merging' = merging \cup {p}
  /\ graph' = [i \in Items |->
                 IF i \in ItemsOf[p] /\ item[i].status # "dropped"
                 THEN item[i].payload ELSE graph[i]]
  /\ UNCHANGED <<proposalVars, gateVars, rosterVars, item, decideVars, editTxn, labelVars>>

\* ... mark it merged and label its trace in the same transaction.
MergeCommit(p) ==
  /\ p \in merging
  /\ merging' = merging \ {p}
  /\ status' = [status EXCEPT ![p] = "merged"]
  /\ ApplyTraceLabel(p, "merged")
  /\ UNCHANGED <<round, overdue, gateVars, rosterVars, item, decideVars, editTxn, graph>>

\* ... or roll back: a constraint of the graph tables refused an item.
MergeAbort(p) ==
  /\ p \in merging
  /\ merging' = merging \ {p}
  /\ graph' = [i \in Items |-> IF i \in ItemsOf[p] THEN None ELSE graph[i]]
  /\ UNCHANGED <<proposalVars, gateVars, rosterVars, item, decideVars, editTxn, labelVars>>

\* Variant: a proposal somebody has looked at no longer expires.
ExpirableUntouched ==
  {p \in Proposals : status[p] \in {"submitted", "changes_requested"}}

\* The non-terminal states an expires_at applies to.
Expirable == {p \in Proposals : status[p] \in UnderReview \cup {"changes_requested"}}

\* hitl.expire_proposals, the hourly sweep: one UPDATE, no label.  A proposal
\* a decision has locked is looked at again once the lock is gone.
ExpireProposals ==
  LET late == (Expirable \cap overdue) \ deciding IN
  /\ late # {}
  /\ status' = [p \in Proposals |-> IF p \in late THEN "expired" ELSE status[p]]
  /\ UNCHANGED <<round, overdue, gateVars, rosterVars, item, txnVars, labelVars>>

\* Time passes a deadline (external clock).
DeadlinePasses(p) ==
  /\ p \notin overdue
  /\ status[p] \in UnderReview \cup {"changes_requested"}
  /\ overdue' = overdue \cup {p}
  /\ UNCHANGED <<status, round, gateVars, rosterVars, item, txnVars, labelVars>>

\* grant_authority and revoke_authority, without the check of who calls.
GrantAuthority(row) ==
  /\ authority' = authority \cup {row}
  /\ authority' # authority
  /\ UNCHANGED <<proposalVars, gateVars, policy, active, item, txnVars, labelVars>>

RevokeAuthority(row) ==
  /\ row \in authority
  /\ authority' = authority \ {row}
  /\ UNCHANGED <<proposalVars, gateVars, policy, active, item, txnVars, labelVars>>

\* set_active.
SetActive(r) ==
  /\ active' = IF r \in active THEN active \ {r} ELSE active \cup {r}
  /\ UNCHANGED <<proposalVars, gateVars, policy, authority, item, txnVars, labelVars>>

\* Variant: gates read their quorum from the policy instead of freezing it.
EditPolicyInFlight(g, q) ==
  /\ policy[g] # q
  /\ policy' = [policy EXCEPT ![g] = q]
  /\ gates' = [p \in Proposals |-> [gates[p] EXCEPT ![g] = IF @ > 0 THEN q ELSE @]]
  /\ UNCHANGED <<proposalVars, cleared, decisions, authority, active, item, txnVars, labelVars>>

\* An operator edits a row of hitl.gate_policy.
EditPolicy(g, q) ==
  /\ policy[g] # q
  /\ policy' = [policy EXCEPT ![g] = q]
  /\ UNCHANGED <<proposalVars, gateVars, authority, active, item, txnVars, labelVars>>

Decide(p) ==
  \E g \in Policies, r \in Reviewers, say \in Says, v \in [ItemsOf[p] -> Verdicts] :
    RecordObjection(p, g, r, say, v) \/ DecideBegin(p, g, r, say, v)

Edit(p) == \E i \in ItemsOf[p], new \in Payloads : EditBegin(p, i, new)

Next ==
  \/ \E p \in Proposals :
       \/ Propose(p) \/ Submit(p) \/ Decide(p) \/ DecideCommit(p) \/ Edit(p)
       \/ MergeBegin(p) \/ MergeCommit(p) \/ MergeAbort(p) \/ DeadlinePasses(p)
  \/ \E i \in Items : EditCommit(i) \/ EditAbort(i)
  \/ ExpireProposals
  \/ \E row \in Movable : GrantAuthority(row) \/ RevokeAuthority(row)
  \/ \E r \in Switchable : SetActive(r)
  \/ \E g \in Policies : \E q \in Quorums[g] : EditPolicy(g, q)

Spec == Init /\ [][Next]_vars

\* The clock, the hourly EventBridge rule and an open transaction reaching its
\* end are the only things the code can count on; no reviewer, agent or
\* operator is ever obliged to act.  The sweep is strongly fair because its
\* UPDATE queues for a locked row instead of passing it by, so a stream of
\* decisions on one proposal cannot hide it from every sweep.
Fairness == /\ \A p \in Proposals : WF_vars(DeadlinePasses(p)) /\ WF_vars(DecideCommit(p))
            /\ SF_vars(ExpireProposals)

FairSpec == Spec /\ Fairness

-----------------------------------------------------------------------------
(* Safety.                                                                 *)

\* The reviewers whose live approval stands behind p on gate g, whatever has
\* become of their authority since.
Endorsers(p, g) ==
  {r \in Reviewers :
     /\ \E d \in RowsSaying(p, g, decisions, {"approve"}) : d.reviewer = r
     /\ g \in AllowSelf \/ r # Author[p]}

\* An approved or merged proposal has at least one frozen gate; each has its
\* full quorum of distinct non-author approvals and nobody's live objection.
\* Late rejects, resubmissions, roster changes and policy edits run against
\* it (004:276-308, 013:244-248, 005:84-92).
QuorumStands ==
  \A p \in Proposals : status[p] \in {"approved", "merged"} =>
    /\ \E g \in Policies : gates[p][g] > 0
    /\ \A g \in Policies : gates[p][g] > 0 =>
         /\ Cardinality(Endorsers(p, g)) >= gates[p][g]
         /\ RowsSaying(p, g, decisions, Objections) = {}

\* What service/proposals.py:22-26 says of cleared_at, "the durable,
\* transactional answer to 'has this gate been met'": every gate of an
\* approved proposal is stamped (013:34-45, 237-248).  True while the roster
\* is still: the stamps and the approval are two statements, and a grant or
\* a reactivation that commits between them approves over an open stamp.
ApprovedGatesStamped ==
  \A p \in Proposals, g \in Policies :
    status[p] \in {"approved", "merged"} /\ gates[p][g] > 0 => g \in cleared[p]

\* Only decisions on the current submission are live, and only on its gates:
\* an approval given before changes were requested never counts again
\* (004:250-256).
FreshDecisions ==
  \A p \in Proposals : \A d \in decisions[p] :
    d.round = round[p] /\ gates[p][d.policy] > 0

\* Whoever edits an item, by verdict or by edit_item, and however often, the
\* agent's own payload is what original_payload keeps (013:262-264).
OriginalIsAgents ==
  \A i \in Items :
    /\ item[i].original \in {None, AgentPayload[i]}
    /\ item[i].original = None => item[i].payload = AgentPayload[i]

\* A session has a label exactly when one of its proposals was judged by
\* people, the label says which way the judgment went, and an expiry or an
\* open proposal never labels anything (013:306-318, 358-362).
LabelMatchesJudgment ==
  \A s \in Sessions :
    IF outcome[s] = "pending"
    THEN \A p \in Proposals : SessionOf[p] = s => status[p] \notin Judged
    ELSE /\ judged[s] \in Proposals
         /\ SessionOf[judged[s]] = s
         /\ status[judged[s]] = IF outcome[s] = "rejected" THEN "rejected" ELSE "merged"

\* What edit_item's own refusal says: "items are only editable while it is
\* under review" (013:282-285).  The code reads the status it decides on
\* without a lock, so a decision or a merge can commit before its UPDATE.
EditsOnlyUnderReview ==
  [][\A p \in Proposals : \A i \in ItemsOf[p] :
       item'[i].payload # item[i].payload => status[p] \in UnderReview]_vars

\* What apply_trace_label's header says: "merged, untouched -> 'accepted'"
\* (013:309-312), so a session labelled accepted put into the graph exactly
\* what its agent proposed.  An accept verdict given after an edit resets
\* item_status, and the label with it.
AcceptedMeansUntouched ==
  \A s \in Sessions : outcome[s] = "accepted" =>
    \A i \in ItemsOf[judged[s]] : graph[i] = AgentPayload[i]

\* The bar of a review never moves: the gate set changes only when the
\* author submits, whatever happens to the policies (004:150-155, docs/07
\* "The gate set is frozen at submit").
FrozenBar ==
  [][\A p \in Proposals :
       gates'[p] # gates[p] => status[p] \in {"draft", "changes_requested"}
                               /\ round'[p] = round[p] + 1]_vars

\* Merged, rejected and expired are final, and an approved proposal can only
\* be merged.
JudgmentsFinal ==
  [][\A p \in Proposals :
       /\ status[p] \in Judged \cup {"expired"} => status'[p] = status[p]
       /\ status[p] = "approved" => status'[p] \in {"approved", "merged"}]_vars

\* A revocation or deactivation takes effect at once, for approvals already
\* recorded too: when a proposal becomes approved, and again when its merge
\* starts, every gate has its quorum among reviewers active and authorised
\* at that moment (docs/07 section 4, section 3 point 4).
RosterCounts ==
  [][\A p \in Proposals :
       \/ status'[p] = "approved" /\ status[p] # "approved"
       \/ p \in merging' \ merging
       => \A g \in Policies : gates'[p][g] > 0 =>
            \E R \in SUBSET (active \ IF g \in AllowSelf THEN {} ELSE {Author[p]}) :
              /\ Cardinality(R) = gates'[p][g]
              /\ \A r \in R :
                   /\ <<r, EngagementOf[p], KindOf[g]>> \in authority
                   /\ \E d \in decisions'[p] :
                        d.policy = g /\ d.reviewer = r /\ d.say = "approve"]_vars

(* Liveness.                                                               *)

\* No review is left open for ever: the hourly sweep ends one nobody ended
\* (service/proposals.py:416-428, deploy/schedule.py:12-14).
ReviewsEnd ==
  \A p \in Proposals : status[p] \in UnderReview ~> status[p] \notin UnderReview

(* Refinement: the gates keep the promise of ReviewPromise.                *)

StageOf(st) ==
  CASE st \in UnderReview         -> "review"
    [] st = "changes_requested"   -> "returned"
    [] OTHER                      -> st

Assent(p, g) ==
  IF RowsSaying(p, g, decisions, Objections) = {} THEN Endorsers(p, g) ELSE {}

Promise == INSTANCE ReviewPromise WITH
  stage  <- [p \in Proposals |-> StageOf(status[p])],
  bar    <- gates,
  assent <- [p \in Proposals |-> [g \in Policies |-> Assent(p, g)]]

\* Every step of the gates is a step the promise allows, or none of its
\* business.
KeepsPromise == Promise!Spec
=============================================================================
