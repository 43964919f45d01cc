--------------------------- MODULE GateDecisions ---------------------------
(***************************************************************************)
(* The table hitl.gate_decision under record_decision, statement by        *)
(* statement: the supersede that HitlGates takes as one step (RowsAfter).  *)
(* A partial unique index refuses a second live row of a reviewer on a     *)
(* gate, and superseded_by refers to a row that exists, so the old row     *)
(* first points at itself, then the new one is inserted, then the old one  *)
(* is pointed at it.  One proposal: record_decision locks the gate and     *)
(* then the proposal, submit_proposal the proposal and then, to delete     *)
(* them, the gates; a deadlock ends by rolling one of them back.  The      *)
(* roster's checks, verdicts, stamps and labels are HitlGates' subject.    *)
(***************************************************************************)
EXTENDS Integers, FiniteSets

CONSTANTS
  Gates,      \* the gates of one submission
  Deciders, NoDecider, NoGate,
  Deciding,   \* calls of record_decision
  MaxRows,    \* bound on decision_id
  MaxSubmissions

ASSUME DecisionsOK ==
  /\ NoGate \notin Gates /\ NoDecider \notin Deciders
  /\ MaxRows \in Nat /\ MaxSubmissions \in Nat \ {0}

VARIABLES
  table,       \* the committed rows by decision_id; those of a submission go with its gates
  nextId,      \* the identity sequence, which no roll back sets back
  reviewing,   \* hitl.proposal.status: "open", "returned" to its author, or "closed"
  submission,  \* its number: the gates of an earlier one do not exist any more
  resubmit,    \* the author's submit_proposal
  decide       \* the transaction of each call: where it is, the row it supersedes, the id
               \* of its own, and the rows as it has written them

decVars == <<table, nextId, reviewing, submission, resubmit, decide>>

Ids == 1..MaxRows
\* "by" is superseded_by, 0 for NULL.
NoRow == [gate |-> NoGate, reviewer |-> NoDecider, by |-> 0]
RowRecords == [gate : Gates, reviewer : Deciders, by : 0..MaxRows] \cup {NoRow}

NoDecision == [at |-> "idle", gate |-> NoGate, reviewer |-> NoDecider, on |-> 0,
               prev |-> 0, id |-> 0, mine |-> [i \in Ids |-> NoRow]]

\* Where a call holds the proposal's row, and where it holds its gate's.
Inside == {"locked", "read", "clear", "inserted", "done", "refused"}
AtGate == Inside \cup {"gate"}

DecisionCalls ==
  [at : AtGate \cup {"idle", "asked"}, gate : Gates \cup {NoGate},
   reviewer : Deciders \cup {NoDecider}, on : 0..MaxSubmissions,
   prev : 0..MaxRows, id : 0..MaxRows, mine : [Ids -> RowRecords]]

DecTypeOK ==
  /\ table \in [Ids -> RowRecords]
  /\ nextId \in 1..MaxRows + 1
  /\ reviewing \in {"open", "returned", "closed"}
  /\ submission \in 1..MaxSubmissions
  /\ resubmit \in {"idle", "locked", "deleted"}
  /\ decide \in [Deciding -> DecisionCalls]

DecInit ==
  /\ table = [i \in Ids |-> NoRow]
  /\ nextId = 1
  /\ reviewing = "open"
  /\ submission = 1
  /\ resubmit = "idle"
  /\ decide = [c \in Deciding |-> NoDecision]

-----------------------------------------------------------------------------
(* What a transaction sees, and whom it waits for.                         *)

\* The table as call c sees it: as committed, but for what it has written.
View(c) == [i \in Ids |-> IF decide[c].mine[i] # NoRow THEN decide[c].mine[i] ELSE table[i]]

LiveIn(tab, g, r) ==
  {i \in Ids : tab[i].gate = g /\ tab[i].reviewer = r /\ tab[i].by = 0}

ProposalFree ==
  resubmit = "idle" /\ \A c \in Deciding : decide[c].at \notin Inside

GateFree(g) ==
  resubmit # "deleted" /\ \A c \in Deciding : ~ (decide[c].at \in AtGate /\ decide[c].gate = g)

Goes(c, at) == decide' = [decide EXCEPT ![c].at = at]

-----------------------------------------------------------------------------
(* record_decision.                                                        *)

\* A reviewer decides on a gate of the submission the console shows.
Ask(c) ==
  /\ decide[c].at = "idle"
  /\ \E g \in Gates, r \in Deciders :
       decide' = [decide EXCEPT ![c] =
         [NoDecision EXCEPT !.at = "asked", !.gate = g, !.reviewer = r, !.on = submission]]
  /\ UNCHANGED <<table, nextId, reviewing, submission, resubmit>>

\* SELECT ... FROM proposal_gate FOR UPDATE; the gate may be gone.
LockGate(c) ==
  /\ decide[c].at = "asked" /\ GateFree(decide[c].gate)
  /\ decide[c].on = submission
  /\ Goes(c, "gate")
  /\ UNCHANGED <<table, nextId, reviewing, submission, resubmit>>

\* SELECT ... FROM proposal FOR UPDATE; whoever is not open for review is refused (RollBack).
LockProposal(c) ==
  /\ decide[c].at = "gate" /\ ProposalFree
  /\ reviewing = "open"
  /\ Goes(c, "locked")
  /\ UNCHANGED <<table, nextId, reviewing, submission, resubmit>>

\* Variant: the live row of any reviewer on the gate.
ReadAnyPrev(c) ==
  /\ decide[c].at = "locked"
  /\ LET live == UNION {LiveIn(View(c), decide[c].gate, r) : r \in Deciders} IN
     IF live = {} THEN Goes(c, "clear")
     ELSE \E i \in live : decide' = [decide EXCEPT ![c].at = "read", ![c].prev = i]
  /\ UNCHANGED <<table, nextId, reviewing, submission, resubmit>>

\* SELECT decision_id INTO v_prev: the reviewer's live row on the gate, if there is one.
ReadPrev(c) ==
  /\ decide[c].at = "locked"
  /\ LET live == LiveIn(View(c), decide[c].gate, decide[c].reviewer) IN
     IF live = {} THEN Goes(c, "clear")
     ELSE \E i \in live : decide' = [decide EXCEPT ![c].at = "read", ![c].prev = i]
  /\ UNCHANGED <<table, nextId, reviewing, submission, resubmit>>

\* The call writes row i with a new superseded_by.
PointsTo(c, i, by, at) ==
  decide' = [decide EXCEPT ![c].at = at, ![c].mine[i] = [View(c)[i] EXCEPT !.by = by]]

\* Variant: the new row is inserted first.
PointNothing(c) ==
  /\ decide[c].at = "read"
  /\ Goes(c, "clear")
  /\ UNCHANGED <<table, nextId, reviewing, submission, resubmit>>

\* The old row leaves the index by pointing at itself.
PointSelf(c) ==
  /\ decide[c].at = "read"
  /\ PointsTo(c, decide[c].prev, decide[c].prev, "clear")
  /\ UNCHANGED <<table, nextId, reviewing, submission, resubmit>>

\* INSERT INTO gate_decision, and gate_decision_live_uq.
InsertRow(c) ==
  /\ decide[c].at = "clear" /\ nextId <= MaxRows
  /\ nextId' = nextId + 1
  /\ IF LiveIn(View(c), decide[c].gate, decide[c].reviewer) = {}
     THEN decide' = [decide EXCEPT ![c].at = "inserted", ![c].id = nextId,
            ![c].mine[nextId] =
              [gate |-> decide[c].gate, reviewer |-> decide[c].reviewer, by |-> 0]]
     ELSE Goes(c, "refused")
  /\ UNCHANGED <<table, reviewing, submission, resubmit>>

\* The old row is pointed at the new one.
Repoint(c) ==
  /\ decide[c].at = "inserted"
  /\ IF decide[c].prev = 0 THEN Goes(c, "done")
     ELSE PointsTo(c, decide[c].prev, decide[c].id, "done")
  /\ UNCHANGED <<table, nextId, reviewing, submission, resubmit>>

\* The status machine and the commit: an objection returns or closes the proposal, an
\* approval may close it.
CommitDecision(c) ==
  /\ decide[c].at = "done"
  /\ table' = View(c)
  /\ reviewing' \in {"open", "returned", "closed"}
  /\ decide' = [decide EXCEPT ![c] = NoDecision]
  /\ UNCHANGED <<nextId, submission, resubmit>>

\* A check refuses the call, a deadlock is resolved against it, or its connection is lost.
RollBackDecision(c) ==
  /\ decide[c].at # "idle"
  /\ decide' = [decide EXCEPT ![c] = NoDecision]
  /\ UNCHANGED <<table, nextId, reviewing, submission, resubmit>>

-----------------------------------------------------------------------------
(* The other transactions that lock the proposal.                          *)

\* submit_proposal of a returned proposal.
SubmitLock ==
  /\ reviewing = "returned" /\ ProposalFree /\ submission < MaxSubmissions
  /\ resubmit' = "locked"
  /\ UNCHANGED <<table, nextId, reviewing, submission, decide>>

\* DELETE FROM proposal_gate, which cascades to the decisions.
SubmitDelete ==
  /\ resubmit = "locked" /\ \A g \in Gates : GateFree(g)
  /\ resubmit' = "deleted"
  /\ UNCHANGED <<table, nextId, reviewing, submission, decide>>

SubmitCommit ==
  /\ resubmit = "deleted"
  /\ resubmit' = "idle"
  /\ table' = [i \in Ids |-> NoRow]
  /\ reviewing' = "open"
  /\ submission' = submission + 1
  /\ UNCHANGED <<nextId, decide>>

SubmitAbort ==
  /\ resubmit # "idle"
  /\ resubmit' = "idle"
  /\ UNCHANGED <<table, nextId, reviewing, submission, decide>>

\* The sweep expires a proposal that is open or returned.
Expire ==
  /\ reviewing # "closed" /\ ProposalFree
  /\ reviewing' = "closed"
  /\ UNCHANGED <<table, nextId, submission, resubmit, decide>>

DecNext ==
  \/ \E c \in Deciding :
       \/ Ask(c) \/ LockGate(c) \/ LockProposal(c) \/ ReadPrev(c) \/ PointSelf(c)
       \/ InsertRow(c) \/ Repoint(c) \/ CommitDecision(c) \/ RollBackDecision(c)
  \/ SubmitLock \/ SubmitDelete \/ SubmitCommit \/ SubmitAbort \/ Expire

DecSpec == DecInit /\ [][DecNext]_decVars

-----------------------------------------------------------------------------
(* Properties.                                                             *)

\* "A reviewer changing their mind must end up with exactly one live row" (013:144-146): no
\* call is refused by the index, and what a reviewer has said on a gate is one chain in the
\* order it was said: each row is superseded by the next, and only the last is live.  Calls
\* overlap on one gate and on several, roll back between any two statements, and meet
\* resubmissions.
DecisionsChained ==
  /\ \A c \in Deciding : decide[c].at # "refused"
  /\ \A i \in Ids : table[i] # NoRow =>
       LET later == {j \in Ids : /\ j > i /\ table[j].gate = table[i].gate
                                 /\ table[j].reviewer = table[i].reviewer}
       IN \/ later = {} /\ table[i].by = 0
          \/ table[i].by \in later /\ \A j \in later : table[i].by <= j

\* What HitlGates takes as one step (RowsAfter, DecisionsAfterSubmit): the live rows change
\* only by one reviewer's decision on one gate, newer than all others, which takes the place
\* of that reviewer's row and leaves everyone else's; or they all go, with the gates.
OneMindStep ==
  LET Live == {i \in Ids : table[i] # NoRow /\ table[i].by = 0} IN
  Live' # Live =>
    \/ Live' = {} /\ submission' # submission
    \/ \E new \in Ids :
         /\ table'[new].gate \in Gates /\ \A i \in Ids : table[i] # NoRow => i < new
         /\ Live' = (Live \ LiveIn(table, table'[new].gate, table'[new].reviewer)) \cup {new}

OneMindChanges == [][OneMindStep]_decVars
=============================================================================
