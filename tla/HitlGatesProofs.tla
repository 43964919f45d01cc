--------------------------- MODULE HitlGatesProofs ---------------------------
(***************************************************************************)
(* Theorems about HitlGates, for every value of its constants.             *)
(***************************************************************************)
EXTENDS HitlGates, FiniteSetTheorems, TLAPS

-----------------------------------------------------------------------------
(* Operators.                                                              *)

\* Editing an item row, by either path, leaves an item row.
LEMMA EditedRowType ==
  ASSUME NEW it \in ItemRows, NEW new \in Payloads
  PROVE  EditedRow(it, new) \in ItemRows
BY DEF EditedRow, ItemRows, ItemStatuses

\* Whatever the verdict, record_decision leaves an item row.
LEMMA RowAfterType ==
  ASSUME NEW it \in ItemRows, NEW v \in Verdicts
  PROVE  RowAfter(it, v) \in ItemRows
<1>1. CASE v = Silent
  BY <1>1 DEF RowAfter, Silent
<1>2. CASE v = "accept"
  BY <1>2 DEF RowAfter, ItemRows, ItemStatuses, Silent
<1>3. CASE v = "drop"
  BY <1>3 DEF RowAfter, ItemRows, ItemStatuses, Silent
<1>4. CASE v \notin {Silent, "accept", "drop"}
  <2>1. v \in Payloads
    BY <1>4 DEF Verdicts
  <2>2. RowAfter(it, v) = EditedRow(it, v)
    BY <1>4 DEF RowAfter
  <2> QED
    BY <2>1, <2>2, EditedRowType
<1> QED
  BY <1>1, <1>2, <1>3, <1>4

\* record_decision leaves decision rows of the reviewers and gates there are.
LEMMA RowsAfterType ==
  ASSUME TypeOK, NEW p \in Proposals, NEW g \in Policies, NEW r \in Reviewers, NEW say \in Says
  PROVE  RowsAfter(p, g, r, say) \in SUBSET DecisionRows
BY DEF TypeOK, RowsAfter, DecisionRows

\* apply_trace_label writes a label and the proposal it came from.
LEMMA LabelType ==
  ASSUME TypeOK, NEW p \in Proposals, NEW st, ApplyTraceLabel(p, st)
  PROVE  /\ outcome' \in [Sessions -> {"pending", "accepted", "corrected", "rejected"}]
         /\ judged' \in [Sessions -> Proposals \cup {None}]
<1> DEFINE s == SessionOf[p]
<1>1. CASE s = None
  BY <1>1 DEF TypeOK, ApplyTraceLabel, labelVars
<1>2. CASE s # None
  <2>1. s \in Sessions
    BY <1>2, ConstantsOK
  <2>2. PICK l \in {"accepted", "corrected", "rejected"} :
          outcome' = [outcome EXCEPT ![s] = l]
    BY <1>2 DEF ApplyTraceLabel
  <2>3. judged' = [judged EXCEPT ![s] = p]
    BY <1>2 DEF ApplyTraceLabel
  <2> QED
    BY <2>1, <2>2, <2>3 DEF TypeOK
<1> QED
  BY <1>1, <1>2

-----------------------------------------------------------------------------
(* Type correctness.                                                       *)

\* The tables start with values of their types.
LEMMA TypeInit == Init => TypeOK
BY ConstantsOK DEF Init, TypeOK, Statuses, ItemRows, ItemStatuses

\* record_decision, up to its status machine, keeps the types.
LEMMA TypeWrite ==
  ASSUME TypeOK, NEW p \in Proposals, NEW g \in Policies, NEW r \in Reviewers,
         NEW say \in Says, NEW v \in [ItemsOf[p] -> Verdicts], WriteDecision(p, g, r, say, v)
  PROVE  /\ decisions' \in [Proposals -> SUBSET DecisionRows]
         /\ item' \in [Items -> ItemRows]
<1>1. decisions' \in [Proposals -> SUBSET DecisionRows]
  BY RowsAfterType DEF WriteDecision, TypeOK
<1>2. item' \in [Items -> ItemRows]
  <2> SUFFICES ASSUME NEW i \in Items
               PROVE  (IF i \in ItemsOf[p] THEN RowAfter(item[i], v[i]) ELSE item[i]) \in ItemRows
    BY DEF WriteDecision
  <2> QED
    BY RowAfterType DEF TypeOK
<1> QED
  BY <1>1, <1>2

\* record_decision, in both its forms, keeps the types.
LEMMA TypeDecide ==
  ASSUME TypeOK, NEW p \in Proposals, Decide(p)
  PROVE  TypeOK'
<1>1. PICK g \in Policies, r \in Reviewers, say \in Says, v \in [ItemsOf[p] -> Verdicts] :
        RecordObjection(p, g, r, say, v) \/ DecideBegin(p, g, r, say, v)
  BY DEF Decide
<1>2. CASE RecordObjection(p, g, r, say, v)
  <2>1. /\ decisions' \in [Proposals -> SUBSET DecisionRows]
        /\ item' \in [Items -> ItemRows]
    BY <1>2, TypeWrite DEF RecordObjection
  <2>2. /\ outcome' \in [Sessions -> {"pending", "accepted", "corrected", "rejected"}]
        /\ judged' \in [Sessions -> Proposals \cup {None}]
    BY <1>2, LabelType DEF RecordObjection, TypeOK, labelVars
  <2> QED
    BY <1>2, <2>1, <2>2
    DEF RecordObjection, WriteDecision, TypeOK, Statuses, rosterVars, decideVars
<1>3. CASE DecideBegin(p, g, r, say, v)
  <2>1. /\ decisions' \in [Proposals -> SUBSET DecisionRows]
        /\ item' \in [Items -> ItemRows]
    BY <1>3, TypeWrite DEF DecideBegin
  <2>2. ClearedAfter(p, decisions') \in SUBSET Policies
    BY DEF ClearedAfter, TypeOK
  <2>3. cleared' \in [Proposals -> SUBSET Policies]
    BY <1>3, <2>2 DEF DecideBegin, TypeOK
  <2>4. deciding' \in SUBSET Proposals /\ held' \in SUBSET Items
    BY <1>3, ConstantsOK DEF DecideBegin, TypeOK
  <2> QED
    BY <1>3, <2>1, <2>3, <2>4
    DEF DecideBegin, WriteDecision, TypeOK, Statuses, rosterVars, labelVars
<1> QED
  BY <1>1, <1>2, <1>3

\* Every step keeps the types: one case per action.
LEMMA TypeStep == TypeOK /\ [Next]_vars => TypeOK'
<1> SUFFICES ASSUME TypeOK, [Next]_vars PROVE TypeOK'
  OBVIOUS
<1> USE ConstantsOK
<1>1. ASSUME NEW p \in Proposals, Propose(p) PROVE TypeOK'
  BY <1>1 DEF Propose, TypeOK, Statuses, gateVars, rosterVars, txnVars, decideVars, labelVars
<1>2. ASSUME NEW p \in Proposals, Submit(p) PROVE TypeOK'
  <2>1. RequiredGates(p) \in [Policies -> 0..MaxQuorum]
    BY DEF RequiredGates, TypeOK
  <2> QED
    BY <1>2, <2>1 DEF Submit, TypeOK, Statuses, DecisionsAfterSubmit, rosterVars, txnVars, decideVars, labelVars
<1>3. ASSUME NEW p \in Proposals, Decide(p) PROVE TypeOK'
  BY <1>3, TypeDecide
<1>16. ASSUME NEW p \in Proposals, DecideCommit(p) PROVE TypeOK'
  BY <1>16 DEF DecideCommit, TypeOK, Statuses, gateVars, rosterVars, labelVars
<1>4. ASSUME NEW p \in Proposals, Edit(p) PROVE TypeOK'
  BY <1>4 DEF Edit, EditBegin, TypeOK, proposalVars, gateVars, rosterVars, decideVars, labelVars
<1>5. ASSUME NEW i \in Items, EditCommit(i) PROVE TypeOK'
  <2>1. EditedRow(item[i], editTxn[i]) \in ItemRows
    BY <1>5, EditedRowType DEF EditCommit, TypeOK
  <2> QED
    BY <1>5, <2>1 DEF EditCommit, TypeOK, proposalVars, gateVars, rosterVars, decideVars, labelVars
<1>6. ASSUME NEW i \in Items, EditAbort(i) PROVE TypeOK'
  BY <1>6 DEF EditAbort, TypeOK, proposalVars, gateVars, rosterVars, decideVars, labelVars
<1>7. ASSUME NEW p \in Proposals, MergeBegin(p) PROVE TypeOK'
  BY <1>7 DEF MergeBegin, TypeOK, ItemRows, proposalVars, gateVars, rosterVars, decideVars, labelVars
<1>8. ASSUME NEW p \in Proposals, MergeCommit(p) PROVE TypeOK'
  BY <1>8, LabelType DEF MergeCommit, TypeOK, Statuses, gateVars, rosterVars, decideVars
<1>9. ASSUME NEW p \in Proposals, MergeAbort(p) PROVE TypeOK'
  BY <1>9 DEF MergeAbort, TypeOK, proposalVars, gateVars, rosterVars, decideVars, labelVars
<1>10. ASSUME NEW p \in Proposals, DeadlinePasses(p) PROVE TypeOK'
  BY <1>10 DEF DeadlinePasses, TypeOK, gateVars, rosterVars, txnVars, decideVars, labelVars
<1>11. CASE ExpireProposals
  BY <1>11 DEF ExpireProposals, TypeOK, Statuses, gateVars, rosterVars, txnVars, decideVars, labelVars
<1>12. ASSUME NEW row \in Movable, GrantAuthority(row) \/ RevokeAuthority(row) PROVE TypeOK'
  BY <1>12 DEF GrantAuthority, RevokeAuthority, TypeOK, proposalVars, gateVars, txnVars, decideVars, labelVars
<1>13. ASSUME NEW r \in Switchable, SetActive(r) PROVE TypeOK'
  BY <1>13 DEF SetActive, TypeOK, proposalVars, gateVars, txnVars, decideVars, labelVars
<1>14. ASSUME NEW g \in Policies, NEW q \in Quorums[g], EditPolicy(g, q) PROVE TypeOK'
  BY <1>14 DEF EditPolicy, TypeOK, proposalVars, gateVars, txnVars, decideVars, labelVars
<1>15. CASE UNCHANGED vars
  BY <1>15 DEF TypeOK, vars, proposalVars, gateVars, rosterVars, txnVars, decideVars, labelVars
<1> QED
  BY <1>1, <1>2, <1>3, <1>4, <1>5, <1>6, <1>7, <1>8, <1>9, <1>10, <1>11, <1>12, <1>13,
     <1>14, <1>15, <1>16 DEF Next

\* Every variable always holds a value the schema's columns could hold.
THEOREM TypeCorrect == Spec => []TypeOK
BY TypeInit, TypeStep, PTL DEF Spec

-----------------------------------------------------------------------------
(* What a step can do to one proposal.                                     *)

Untouched(p) ==
  /\ status'[p] = status[p] /\ round'[p] = round[p]
  /\ gates'[p] = gates[p] /\ cleared'[p] = cleared[p] /\ decisions'[p] = decisions[p]

Lapses(p) ==
  /\ p \in Expirable /\ p \notin deciding
  /\ status'[p] = "expired"
  /\ round'[p] = round[p]
  /\ gates'[p] = gates[p] /\ cleared'[p] = cleared[p] /\ decisions'[p] = decisions[p]

\* A decision finds its proposal unlocked and under review.
LEMMA DecideGuard ==
  ASSUME NEW p \in Proposals, Decide(p)
  PROVE  p \notin deciding /\ status[p] \in UnderReview
<1>1. PICK g \in Policies, r \in Reviewers, say \in Says, v \in [ItemsOf[p] -> Verdicts] :
        RecordObjection(p, g, r, say, v) \/ DecideBegin(p, g, r, say, v)
  BY DEF Decide
<1>2. WriteDecision(p, g, r, say, v)
  BY <1>1 DEF RecordObjection, DecideBegin
<1> QED
  BY <1>2 DEF WriteDecision, MayDecide

\* A proposal, its gates and their decisions change only by the calls that
\* lock the proposal, and by each only in the proposal it is called on.
LEMMA StepCases ==
  ASSUME TypeOK, [Next]_vars, NEW p \in Proposals
  PROVE  \/ Untouched(p) \/ Propose(p) \/ Submit(p) \/ Decide(p) \/ DecideCommit(p)
         \/ MergeCommit(p) \/ Lapses(p)
<1>1. ASSUME NEW q \in Proposals, Propose(q) PROVE q = p \/ Untouched(p)
  BY <1>1 DEF Propose, Untouched, TypeOK, gateVars
<1>2. ASSUME NEW q \in Proposals, Submit(q) PROVE q = p \/ Untouched(p)
  BY <1>2 DEF Submit, Untouched, TypeOK
<1>3. ASSUME NEW q \in Proposals, Decide(q) PROVE q = p \/ Untouched(p)
  BY <1>3 DEF Decide, RecordObjection, DecideBegin, WriteDecision, Untouched, TypeOK
<1>12. ASSUME NEW q \in Proposals, DecideCommit(q) PROVE q = p \/ Untouched(p)
  BY <1>12 DEF DecideCommit, Untouched, TypeOK, gateVars
<1>4. ASSUME NEW q \in Proposals, MergeCommit(q) PROVE q = p \/ Untouched(p)
  BY <1>4 DEF MergeCommit, Untouched, TypeOK, gateVars
<1>5. CASE ExpireProposals
  <2>1. CASE p \in (Expirable \cap overdue) \ deciding
    BY <1>5, <2>1 DEF ExpireProposals, Lapses, gateVars
  <2>2. CASE p \notin (Expirable \cap overdue) \ deciding
    BY <1>5, <2>2 DEF ExpireProposals, Untouched, gateVars
  <2> QED
    BY <2>1, <2>2
<1>6. ASSUME NEW q \in Proposals, Edit(q) \/ MergeBegin(q) \/ MergeAbort(q) \/ DeadlinePasses(q)
      PROVE Untouched(p)
  BY <1>6 DEF Edit, EditBegin, MergeBegin, MergeAbort, DeadlinePasses, Untouched,
              proposalVars, gateVars
<1>7. ASSUME NEW i \in Items, EditCommit(i) \/ EditAbort(i) PROVE Untouched(p)
  BY <1>7 DEF EditCommit, EditAbort, Untouched, proposalVars, gateVars
<1>8. ASSUME NEW row \in Movable, GrantAuthority(row) \/ RevokeAuthority(row) PROVE Untouched(p)
  BY <1>8 DEF GrantAuthority, RevokeAuthority, Untouched, proposalVars, gateVars
<1>9. ASSUME NEW r \in Switchable, SetActive(r) PROVE Untouched(p)
  BY <1>9 DEF SetActive, Untouched, proposalVars, gateVars
<1>10. ASSUME NEW g \in Policies, NEW q \in Quorums[g], EditPolicy(g, q) PROVE Untouched(p)
  BY <1>10 DEF EditPolicy, Untouched, proposalVars, gateVars
<1>11. CASE UNCHANGED vars
  BY <1>11 DEF Untouched, vars, proposalVars, gateVars
<1> QED
  BY <1>1, <1>2, <1>3, <1>4, <1>5, <1>6, <1>7, <1>8, <1>9, <1>10, <1>11, <1>12 DEF Next

\* The merge and the decision transactions have one call in common with no
\* other: only they put proposals into merging and deciding.
LEMMA LockCases ==
  ASSUME TypeOK, [Next]_vars, NEW p \in Proposals
  PROVE  /\ p \in merging' => p \in merging \/ MergeBegin(p)
         /\ p \in deciding' =>
              p \in deciding \/ \E g \in Policies, r \in Reviewers, say \in Says,
                                    v \in [ItemsOf[p] -> Verdicts] : DecideBegin(p, g, r, say, v)
<1>1. ASSUME NEW q \in Proposals, MergeBegin(q) \/ MergeCommit(q) \/ MergeAbort(q) PROVE
        /\ p \in merging' => p \in merging \/ (q = p /\ MergeBegin(q))
        /\ p \in deciding' => p \in deciding
  BY <1>1 DEF MergeBegin, MergeCommit, MergeAbort, decideVars
<1>2. ASSUME NEW q \in Proposals, NEW g \in Policies, NEW r \in Reviewers, NEW say \in Says,
             NEW v \in [ItemsOf[q] -> Verdicts], DecideBegin(q, g, r, say, v)
      PROVE  /\ p \in merging' => p \in merging
             /\ p \in deciding' => p \in deciding \/ q = p
  BY <1>2 DEF DecideBegin, WriteDecision
<1>3. ASSUME NEW q \in Proposals, NEW g \in Policies, NEW r \in Reviewers, NEW say \in Says,
             NEW v \in [ItemsOf[q] -> Verdicts], RecordObjection(q, g, r, say, v)
      PROVE  merging' = merging /\ deciding' = deciding
  BY <1>3 DEF RecordObjection, WriteDecision, decideVars
<1>4. ASSUME NEW q \in Proposals,
             Propose(q) \/ Submit(q) \/ DecideCommit(q) \/ Edit(q) \/ DeadlinePasses(q)
      PROVE  merging' = merging /\ deciding' \subseteq deciding
  BY <1>4 DEF Propose, Submit, DecideCommit, Edit, EditBegin, DeadlinePasses, txnVars, decideVars
<1>5. ASSUME NEW i \in Items, EditCommit(i) \/ EditAbort(i)
      PROVE  merging' = merging /\ deciding' = deciding
  BY <1>5 DEF EditCommit, EditAbort, decideVars
<1>6. CASE ExpireProposals
  BY <1>6 DEF ExpireProposals, txnVars, decideVars
<1>7. ASSUME NEW row \in Movable, GrantAuthority(row) \/ RevokeAuthority(row)
      PROVE  merging' = merging /\ deciding' = deciding
  BY <1>7 DEF GrantAuthority, RevokeAuthority, txnVars, decideVars
<1>8. ASSUME NEW r \in Switchable, SetActive(r) PROVE merging' = merging /\ deciding' = deciding
  BY <1>8 DEF SetActive, txnVars, decideVars
<1>9. ASSUME NEW g \in Policies, NEW q \in Quorums[g], EditPolicy(g, q)
      PROVE  merging' = merging /\ deciding' = deciding
  BY <1>9 DEF EditPolicy, txnVars, decideVars
<1>10. CASE UNCHANGED vars
  BY <1>10 DEF vars, txnVars, decideVars
<1> QED
  BY <1>1, <1>2, <1>3, <1>4, <1>5, <1>6, <1>7, <1>8, <1>9, <1>10 DEF Next, Decide

-----------------------------------------------------------------------------
(* Quorum.                                                                 *)

\* What the row locks keep: a proposal stays approved while its merge is open,
\* and in review while a decision on it is.
Locks ==
  /\ \A p \in merging : status[p] = "approved"
  /\ \A p \in deciding : status[p] = "in_review"

\* Every step respects the locks.
LEMMA LocksStep == TypeOK /\ Locks /\ [Next]_vars => Locks'
<1> SUFFICES ASSUME TypeOK, Locks, [Next]_vars PROVE Locks'
  OBVIOUS
<1>0. TypeOK'
  BY TypeStep
<1> SUFFICES ASSUME NEW p \in Proposals
             PROVE  /\ p \in merging' => status'[p] = "approved"
                    /\ p \in deciding' => status'[p] = "in_review"
  BY <1>0 DEF Locks, TypeOK
<1>1. ASSUME p \in merging' PROVE status'[p] = "approved"
  <2>1. CASE MergeBegin(p)
    BY <2>1 DEF MergeBegin, MergeAllowed, proposalVars
  <2>2. CASE p \in merging
    <3>1. status[p] = "approved" /\ p \notin deciding
      BY <2>2 DEF Locks
    <3>2. ~ Propose(p) /\ ~ Submit(p) /\ ~ Lapses(p) /\ ~ Decide(p) /\ ~ DecideCommit(p)
      BY <3>1, DecideGuard DEF Propose, Submit, Lapses, Expirable, UnderReview, DecideCommit
    <3>3. ~ MergeCommit(p)
      BY <1>1 DEF MergeCommit
    <3> QED
      BY <3>1, <3>2, <3>3, StepCases DEF Untouched
  <2> QED
    BY <1>1, <2>1, <2>2, LockCases
<1>2. ASSUME p \in deciding' PROVE status'[p] = "in_review"
  <2>1. ASSUME NEW g \in Policies, NEW r \in Reviewers, NEW say \in Says,
               NEW v \in [ItemsOf[p] -> Verdicts], DecideBegin(p, g, r, say, v)
        PROVE  status'[p] = "in_review"
    BY <2>1 DEF DecideBegin, TypeOK
  <2>2. CASE p \in deciding
    <3>1. status[p] = "in_review" /\ p \notin merging
      BY <2>2 DEF Locks
    <3>2. ~ Propose(p) /\ ~ Submit(p) /\ ~ Lapses(p)
      BY <2>2, <3>1 DEF Propose, Submit, Lapses
    <3>5. ~ MergeCommit(p)
      BY <3>1 DEF MergeCommit
    <3>4. ~ Decide(p)
      BY <2>2, DecideGuard
    <3>3. ~ DecideCommit(p)
      BY <1>2 DEF DecideCommit
    <3> QED
      <4>1. Untouched(p)
        BY <3>2, <3>3, <3>4, <3>5, StepCases
      <4> QED
        BY <3>1, <4>1 DEF Untouched
  <2> QED
    BY <1>2, <2>1, <2>2, LockCases
<1> QED
  BY <1>1, <1>2

\* What stands behind one proposal on its frozen gates.
Stands(p) ==
  /\ \E g \in Policies : gates[p][g] > 0
  /\ \A g \in Policies : gates[p][g] > 0 =>
       /\ Cardinality(Endorsers(p, g)) >= gates[p][g]
       /\ RowsSaying(p, g, decisions, Objections) = {}

\* A decision is only ever taken on one of the proposal's gates.
Gated == \A p \in deciding : \E g \in Policies : gates[p][g] > 0

\* When gates_satisfied holds of a proposal with a gate, a quorum stands
\* behind it: who counts at that moment is among who endorses.
LEMMA SatisfiedStands ==
  ASSUME TypeOK, NEW p \in Proposals, GatesSatisfied(p, decisions),
         \E g \in Policies : gates[p][g] > 0
  PROVE  Stands(p)
<1>1. ASSUME NEW h \in Policies, gates[p][h] > 0
      PROVE  /\ Cardinality(Endorsers(p, h)) >= gates[p][h]
             /\ RowsSaying(p, h, decisions, Objections) = {}
  <2> DEFINE c == Cardinality(Counted(p, h, decisions))
             e == Cardinality(Endorsers(p, h))
             n == gates[p][h]
  <2>1. Counted(p, h, decisions) \subseteq Endorsers(p, h)
    BY DEF Counted, Endorsers, TypeOK, RowsSaying
  <2>2. IsFiniteSet(Endorsers(p, h)) /\ e \in Nat
    BY ConstantsOK, FS_Subset, FS_CardinalityType DEF Endorsers
  <2>3. c <= e /\ c \in Nat
    BY <2>1, <2>2, FS_Subset, FS_CardinalityType
  <2>4. ~ c < n /\ RowsSaying(p, h, decisions, Objections) = {}
    BY <1>1 DEF GatesSatisfied
  <2>5. n \in Nat
    BY ConstantsOK DEF TypeOK
  <2>6. e >= n
    <3>1. c \in Nat /\ e \in Nat /\ n \in Nat /\ c <= e /\ ~ c < n
      BY <2>2, <2>3, <2>4, <2>5
    <3> HIDE DEF c, e, n
    <3> QED
      BY <3>1
  <2> QED
    BY <2>4, <2>6
<1> QED
  BY <1>1 DEF Stands

\* The quorum, with the locks and the gates of open decisions, is inductive.
LEMMA QuorumStep ==
  TypeOK /\ Locks /\ Gated /\ QuorumStands /\ [Next]_vars => Gated' /\ QuorumStands'
<1> SUFFICES ASSUME TypeOK, Locks, Gated, QuorumStands, [Next]_vars
             PROVE  Gated' /\ QuorumStands'
  OBVIOUS
<1>1. Gated'
  <2> SUFFICES ASSUME NEW p \in Proposals, p \in deciding'
               PROVE  \E g \in Policies : gates'[p][g] > 0
    BY TypeStep DEF Gated, TypeOK
  <2>1. ASSUME NEW g \in Policies, NEW r \in Reviewers, NEW say \in Says,
               NEW v \in [ItemsOf[p] -> Verdicts], DecideBegin(p, g, r, say, v)
        PROVE  \E h \in Policies : gates'[p][h] > 0
    BY <2>1 DEF DecideBegin, WriteDecision, MayDecide
  <2>2. CASE p \in deciding
    <3>1. status[p] = "in_review"
      BY <2>2 DEF Locks
    <3>2. ~ Propose(p) /\ ~ Submit(p)
      BY <3>1 DEF Propose, Submit
    <3>3. ~ Decide(p)
      BY <2>2, DecideGuard
    <3>4. gates'[p] = gates[p]
      <4>1. Untouched(p) \/ DecideCommit(p) \/ MergeCommit(p) \/ Lapses(p)
        BY <3>2, <3>3, StepCases
      <4> QED
        BY <4>1 DEF Untouched, DecideCommit, MergeCommit, Lapses, gateVars
    <3> QED
      BY <2>2, <3>4 DEF Gated
  <2> QED
    BY <2>1, <2>2, LockCases
<1>2. QuorumStands'
  <2> SUFFICES ASSUME NEW p \in Proposals, status'[p] \in {"approved", "merged"}
               PROVE  Stands(p)'
    BY DEF QuorumStands, Stands
  <2>1. CASE Untouched(p) \/ MergeCommit(p) \/ (DecideCommit(p) /\ status' = status)
    <3>1. status[p] \in {"approved", "merged"}
      BY <2>1 DEF Untouched, MergeCommit, Locks
    <3>2. Stands(p)
      BY <3>1 DEF QuorumStands, Stands
    <3>3. gates'[p] = gates[p] /\ decisions'[p] = decisions[p]
      BY <2>1 DEF Untouched, MergeCommit, DecideCommit, gateVars
    <3> QED
      BY <3>2, <3>3 DEF Stands, Endorsers, RowsSaying
  <2>2. CASE DecideCommit(p) /\ status' # status
    <3>1. GatesSatisfied(p, decisions) /\ \E g \in Policies : gates[p][g] > 0
      BY <2>2 DEF DecideCommit, Gated
    <3>2. Stands(p)
      BY <3>1, SatisfiedStands
    <3>3. gates' = gates /\ decisions' = decisions
      BY <2>2 DEF DecideCommit, gateVars
    <3> QED
      BY <3>2, <3>3 DEF Stands, Endorsers, RowsSaying
  <2>3. ~ Propose(p) /\ ~ Submit(p) /\ ~ Lapses(p) /\ ~ Decide(p)
    BY DEF Propose, Submit, Lapses, Decide, DecideBegin, RecordObjection, TypeOK
  <2> QED
    BY <2>1, <2>2, <2>3, StepCases
<1> QED
  BY <1>1, <1>2

\* Nothing is approved or merged without the full quorum of its frozen bar:
\* no interleaving of decisions, resubmissions, edits, merges, expiries,
\* roster changes and policy edits gets around it.
THEOREM QuorumAlwaysStands == Spec => []QuorumStands
<1>1. Init => Locks /\ Gated /\ QuorumStands
  BY DEF Init, Locks, Gated, QuorumStands
<1> QED
  BY <1>1, TypeCorrect, LocksStep, QuorumStep, PTL DEF Spec

-----------------------------------------------------------------------------
(* The roster counts.                                                      *)

\* A finite set has a subset of every smaller size.
LEMMA SubsetOfSize ==
  ASSUME NEW S, IsFiniteSet(S), NEW n \in Nat, n <= Cardinality(S)
  PROVE  \E R \in SUBSET S : Cardinality(R) = n
<1>1. Cardinality(S) \in Nat
  BY FS_CardinalityType
<1>2. PICK f : f \in Bijection(1..Cardinality(S), S)
  BY FS_CardinalityType DEF ExistsBijection
<1>3. /\ f \in [1..Cardinality(S) -> S]
      /\ \A i, j \in 1..Cardinality(S) : f[i] = f[j] => i = j
  BY <1>2 DEF Bijection, Injection, IsInjective
<1> DEFINE R == {f[i] : i \in 1..n}
           h == [i \in 1..n |-> f[i]]
<1>4. 1..n \subseteq 1..Cardinality(S)
  BY <1>1
<1>5. R \in SUBSET S
  BY <1>3, <1>4
<1>6. h \in Bijection(1..n, R)
  <2>1. h \in [1..n -> R] /\ \A i, j \in 1..n : h[i] = h[j] => i = j
    BY <1>3, <1>4
  <2>2. \A t \in R : \E i \in 1..n : h[i] = t
    OBVIOUS
  <2> QED
    BY <2>1, <2>2 DEF Bijection, Injection, Surjection, IsInjective
<1>7. Cardinality(R) = n
  BY <1>6, FS_CountingElements DEF ExistsBijection
<1> QED
  BY <1>5, <1>7

\* Where the predicate holds, the reviewers the bar asks for can be named.
LEMMA SatisfiedNames ==
  ASSUME TypeOK, NEW p \in Proposals, GatesSatisfied(p, decisions),
         NEW g \in Policies, gates[p][g] > 0
  PROVE  \E R \in SUBSET (active \ IF g \in AllowSelf THEN {} ELSE {Author[p]}) :
           /\ Cardinality(R) = gates[p][g]
           /\ \A r \in R :
                /\ <<r, EngagementOf[p], KindOf[g]>> \in authority
                /\ \E d \in decisions[p] : d.policy = g /\ d.reviewer = r /\ d.say = "approve"
<1> DEFINE C == Counted(p, g, decisions)
<1>1. IsFiniteSet(C) /\ Cardinality(C) \in Nat
  <2>1. C \subseteq Reviewers
    BY DEF Counted, TypeOK
  <2> QED
    BY <2>1, ConstantsOK, FS_Subset, FS_CardinalityType
<1>2. gates[p][g] \in Nat
  BY ConstantsOK DEF TypeOK
<1>3. ~ Cardinality(C) < gates[p][g]
  BY DEF GatesSatisfied
<1>4. gates[p][g] <= Cardinality(C)
  BY <1>1, <1>2, <1>3
<1>5. PICK R \in SUBSET C : Cardinality(R) = gates[p][g]
  BY <1>1, <1>2, <1>4, SubsetOfSize
<1>6. \A r \in C :
        /\ r \in active \ IF g \in AllowSelf THEN {} ELSE {Author[p]}
        /\ <<r, EngagementOf[p], KindOf[g]>> \in authority
        /\ \E d \in decisions[p] : d.policy = g /\ d.reviewer = r /\ d.say = "approve"
  BY DEF Counted, RowsSaying
<1> HIDE DEF C
<1>7. R \in SUBSET (active \ IF g \in AllowSelf THEN {} ELSE {Author[p]})
  BY <1>6
<1>8. \A r \in R :
        /\ <<r, EngagementOf[p], KindOf[g]>> \in authority
        /\ \E d \in decisions[p] : d.policy = g /\ d.reviewer = r /\ d.say = "approve"
  BY <1>6
<1> QED
  BY <1>5, <1>7, <1>8

\* Whoever lost the authority or the seat does not count, at the approval nor when the
\* merge starts, whatever they said before.
THEOREM RosterAlwaysCounts == Spec => RosterCounts
<1>1. ASSUME TypeOK, [Next]_vars, NEW p \in Proposals,
             \/ status'[p] = "approved" /\ status[p] # "approved"
             \/ p \in merging' \ merging
      PROVE  GatesSatisfied(p, decisions) /\ gates' = gates /\ decisions' = decisions
  <2>1. CASE p \in merging' \ merging
    <3>1. MergeBegin(p)
      BY <1>1, <2>1, LockCases
    <3> QED
      BY <3>1 DEF MergeBegin, MergeAllowed, gateVars
  <2>2. CASE status'[p] = "approved" /\ status[p] # "approved"
    <3>1. ~ Untouched(p) /\ ~ Propose(p) /\ ~ Submit(p) /\ ~ Decide(p) /\ ~ MergeCommit(p)
          /\ ~ Lapses(p)
      BY <1>1, <2>2 DEF Untouched, Propose, Submit, Decide, DecideBegin, RecordObjection,
                        MergeCommit, Lapses, TypeOK
    <3>2. DecideCommit(p)
      BY <1>1, <3>1, StepCases
    <3> QED
      BY <2>2, <3>2 DEF DecideCommit, gateVars
  <2> QED
    BY <1>1, <2>1, <2>2
<1>2. TypeOK /\ [Next]_vars =>
        [\A p \in Proposals :
           \/ status'[p] = "approved" /\ status[p] # "approved"
           \/ p \in merging' \ merging
           => \A g \in Policies : gates'[p][g] > 0 =>
                \E R \in SUBSET (active \ IF g \in AllowSelf THEN {} ELSE {Author[p]}) :
                  /\ Cardinality(R) = gates'[p][g]
                  /\ \A r \in R :
                       /\ <<r, EngagementOf[p], KindOf[g]>> \in authority
                       /\ \E d \in decisions'[p] :
                            d.policy = g /\ d.reviewer = r /\ d.say = "approve"]_vars
  BY <1>1, SatisfiedNames
<1> QED
  BY <1>2, TypeCorrect, PTL DEF Spec, RosterCounts

-----------------------------------------------------------------------------
(* Decisions, gates and the finality of judgments.                         *)

\* What a decision does, whichever way it goes: it replaces the reviewer's row
\* on one gate of the proposal, and leaves the round and the gates alone.
LEMMA DecideEffect ==
  ASSUME NEW p \in Proposals, Decide(p)
  PROVE  /\ gates' = gates /\ round' = round
         /\ \E g \in Policies, r \in Reviewers, say \in Says :
              /\ gates[p][g] > 0
              /\ decisions' = [decisions EXCEPT ![p] = RowsAfter(p, g, r, say)]
<1>1. PICK g \in Policies, r \in Reviewers, say \in Says, v \in [ItemsOf[p] -> Verdicts] :
        RecordObjection(p, g, r, say, v) \/ DecideBegin(p, g, r, say, v)
  BY DEF Decide
<1>2. WriteDecision(p, g, r, say, v)
  BY <1>1 DEF RecordObjection, DecideBegin
<1> QED
  BY <1>2 DEF WriteDecision, MayDecide

\* Nothing but a decision or a submission changes the decisions, and only a
\* submission the gates.
LEMMA DecisionsKeptOtherwise ==
  ASSUME TypeOK, [Next]_vars, NEW p \in Proposals, ~ Decide(p), ~ Submit(p)
  PROVE  decisions'[p] = decisions[p] /\ gates'[p] = gates[p] /\ round'[p] = round[p]
BY StepCases DEF Untouched, Propose, DecideCommit, MergeCommit, Lapses, gateVars

\* A decision from before a resubmission is never live after it, and every
\* live decision is on a gate the proposal has.
THEOREM FreshDecisionsAlways == Spec => []FreshDecisions
<1>1. Init => FreshDecisions
  BY DEF Init, FreshDecisions
<1>2. TypeOK /\ FreshDecisions /\ [Next]_vars => FreshDecisions'
  <2> SUFFICES ASSUME TypeOK, FreshDecisions, [Next]_vars, NEW p \in Proposals,
                      NEW d \in decisions'[p]
               PROVE  d.round = round'[p] /\ gates'[p][d.policy] > 0
    BY DEF FreshDecisions
  <2>1. CASE Decide(p)
    <3>1. PICK g \in Policies, r \in Reviewers, say \in Says :
            /\ gates[p][g] > 0
            /\ decisions' = [decisions EXCEPT ![p] = RowsAfter(p, g, r, say)]
      BY <2>1, DecideEffect
    <3>2. d \in RowsAfter(p, g, r, say)
      BY <3>1 DEF TypeOK
    <3>3. gates' = gates /\ round' = round
      BY <2>1, DecideEffect
    <3> QED
      BY <3>1, <3>2, <3>3 DEF RowsAfter, FreshDecisions
  <2>2. CASE Submit(p)
    BY <2>2 DEF Submit, DecisionsAfterSubmit, TypeOK
  <2>3. CASE ~ Decide(p) /\ ~ Submit(p)
    BY <2>3, DecisionsKeptOtherwise DEF FreshDecisions
  <2> QED
    BY <2>1, <2>2, <2>3
<1> QED
  BY <1>1, <1>2, TypeCorrect, PTL DEF Spec

\* The gates of a proposal change only when it is submitted.
THEOREM BarIsFrozen == Spec => FrozenBar
<1>1. TypeOK /\ [Next]_vars =>
        [\A p \in Proposals :
           gates'[p] # gates[p] => status[p] \in {"draft", "changes_requested"}
                                   /\ round'[p] = round[p] + 1]_vars
  <2> SUFFICES ASSUME TypeOK, [Next]_vars, NEW p \in Proposals, gates'[p] # gates[p]
               PROVE  status[p] \in {"draft", "changes_requested"}
                      /\ round'[p] = round[p] + 1
    OBVIOUS
  <2>1. ~ Decide(p)
    BY DecideEffect
  <2>2. Submit(p)
    BY <2>1, DecisionsKeptOtherwise
  <2> QED
    BY <2>2 DEF Submit, TypeOK
<1> QED
  BY <1>1, TypeCorrect, PTL DEF Spec, FrozenBar

\* Nothing leaves a judgment or an expiry, and approval leads only to merge.
THEOREM JudgmentsAreFinal == Spec => JudgmentsFinal
<1>1. Init => Locks
  BY DEF Init, Locks
<1>2. TypeOK /\ Locks /\ [Next]_vars =>
        [\A p \in Proposals :
           /\ status[p] \in Judged \cup {"expired"} => status'[p] = status[p]
           /\ status[p] = "approved" => status'[p] \in {"approved", "merged"}]_vars
  <2> SUFFICES ASSUME TypeOK, Locks, [Next]_vars, NEW p \in Proposals,
                      status[p] \in Judged \cup {"expired", "approved"}
               PROVE  \/ status'[p] = status[p]
                      \/ status[p] = "approved" /\ status'[p] = "merged"
    BY DEF Judged
  <2>1. ~ Propose(p) /\ ~ Submit(p) /\ ~ Lapses(p)
    BY DEF Propose, Submit, Lapses, Expirable, UnderReview, Judged
  <2>2. ~ Decide(p)
    BY DecideGuard DEF UnderReview, Judged
  <2>3. ~ DecideCommit(p)
    BY DEF DecideCommit, Locks, Judged
  <2>4. CASE MergeCommit(p)
    BY <2>4 DEF MergeCommit, Locks, TypeOK
  <2>5. CASE Untouched(p)
    BY <2>5 DEF Untouched
  <2> QED
    BY <2>1, <2>2, <2>3, <2>4, <2>5, StepCases
<1> QED
  BY <1>1, <1>2, TypeCorrect, LocksStep, PTL DEF Spec, JudgmentsFinal

-----------------------------------------------------------------------------
(* The training label.                                                     *)

Judges(p) ==
  \E st \in Judged : status' = [status EXCEPT ![p] = st] /\ ApplyTraceLabel(p, st)

JudgesNone ==
  /\ UNCHANGED labelVars
  /\ \A q \in Proposals : status[q] \in Judged \/ status'[q] \in Judged => status'[q] = status[q]

\* A proposal is judged and its session labelled in one step, or neither.
LEMMA LabelCases ==
  ASSUME TypeOK, Locks, [Next]_vars
  PROVE  (\E p \in Proposals : status[p] \notin Judged /\ Judges(p)) \/ JudgesNone
<1>1. ASSUME NEW p \in Proposals, Propose(p) PROVE JudgesNone
  BY <1>1 DEF Propose, JudgesNone, Judged, TypeOK
<1>2. ASSUME NEW p \in Proposals, Submit(p) PROVE JudgesNone
  BY <1>2 DEF Submit, JudgesNone, Judged, TypeOK
<1>3. ASSUME NEW p \in Proposals, Decide(p)
      PROVE  (status[p] \notin Judged /\ Judges(p)) \/ JudgesNone
  <2>1. PICK g \in Policies, r \in Reviewers, say \in Says, v \in [ItemsOf[p] -> Verdicts] :
          RecordObjection(p, g, r, say, v) \/ DecideBegin(p, g, r, say, v)
    BY <1>3 DEF Decide
  <2>2. status[p] \in UnderReview
    BY <1>3, DecideGuard
  <2>3. CASE DecideBegin(p, g, r, say, v)
    BY <2>2, <2>3 DEF DecideBegin, JudgesNone, Judged, UnderReview, TypeOK
  <2>4. CASE RecordObjection(p, g, r, say, v) /\ say = "reject"
    BY <2>2, <2>4 DEF RecordObjection, Judges, Judged, UnderReview
  <2>5. CASE RecordObjection(p, g, r, say, v) /\ say # "reject"
    BY <2>2, <2>5 DEF RecordObjection, JudgesNone, Judged, UnderReview, TypeOK
  <2> QED
    BY <2>1, <2>3, <2>4, <2>5
<1>4. ASSUME NEW p \in Proposals, DecideCommit(p) PROVE JudgesNone
  <2>1. status[p] = "in_review"
    BY <1>4 DEF DecideCommit, Locks
  <2> QED
    BY <1>4, <2>1 DEF DecideCommit, JudgesNone, Judged, TypeOK
<1>5. ASSUME NEW p \in Proposals, MergeCommit(p) PROVE status[p] \notin Judged /\ Judges(p)
  BY <1>5 DEF MergeCommit, Judges, Judged, Locks
<1>6. CASE ExpireProposals
  BY <1>6 DEF ExpireProposals, Expirable, UnderReview, JudgesNone, Judged
<1>7. ASSUME NEW p \in Proposals, Edit(p) \/ MergeBegin(p) \/ MergeAbort(p) \/ DeadlinePasses(p)
      PROVE  JudgesNone
  BY <1>7 DEF Edit, EditBegin, MergeBegin, MergeAbort, DeadlinePasses, proposalVars, JudgesNone
<1>8. ASSUME NEW i \in Items, EditCommit(i) \/ EditAbort(i) PROVE JudgesNone
  BY <1>8 DEF EditCommit, EditAbort, proposalVars, JudgesNone
<1>9. ASSUME NEW row \in Movable, GrantAuthority(row) \/ RevokeAuthority(row) PROVE JudgesNone
  BY <1>9 DEF GrantAuthority, RevokeAuthority, proposalVars, JudgesNone
<1>10. ASSUME NEW r \in Switchable, SetActive(r) PROVE JudgesNone
  BY <1>10 DEF SetActive, proposalVars, JudgesNone
<1>11. ASSUME NEW g \in Policies, NEW q \in Quorums[g], EditPolicy(g, q) PROVE JudgesNone
  BY <1>11 DEF EditPolicy, proposalVars, JudgesNone
<1>12. CASE UNCHANGED vars
  BY <1>12 DEF vars, proposalVars, labelVars, JudgesNone
<1> QED
  BY <1>1, <1>2, <1>3, <1>4, <1>5, <1>6, <1>7, <1>8, <1>9, <1>10, <1>11, <1>12 DEF Next

\* The label of every session, in every reachable state, is that of the last
\* judgment of one of its proposals; expiry and open reviews never label.
THEOREM LabelAlwaysMatches == Spec => []LabelMatchesJudgment
<1>1. Init => Locks /\ LabelMatchesJudgment
  BY DEF Init, Locks, LabelMatchesJudgment, Judged
<1>2. TypeOK /\ Locks /\ LabelMatchesJudgment /\ [Next]_vars => LabelMatchesJudgment'
  <2> SUFFICES ASSUME TypeOK, Locks, LabelMatchesJudgment, [Next]_vars
               PROVE  LabelMatchesJudgment'
    OBVIOUS
  <2>1. CASE JudgesNone
    BY <2>1 DEF JudgesNone, LabelMatchesJudgment, labelVars, Judged
  <2>2. ASSUME NEW p \in Proposals, status[p] \notin Judged, NEW st \in Judged,
               status' = [status EXCEPT ![p] = st], ApplyTraceLabel(p, st)
        PROVE  LabelMatchesJudgment'
    <3> DEFINE s == SessionOf[p]
    <3>1. \A q \in Proposals : status'[q] = IF q = p THEN st ELSE status[q]
      BY <2>2 DEF TypeOK
    <3>2. CASE s = None
      <4>1. outcome' = outcome /\ judged' = judged
        BY <2>2, <3>2 DEF ApplyTraceLabel, labelVars
      <4>2. \A t \in Sessions : t # s
        BY <3>2, ConstantsOK
      <4> QED
        BY <2>2, <3>1, <4>1, <4>2 DEF LabelMatchesJudgment, Judged
    <3>3. CASE s # None
      <4>1. PICK l \in {"accepted", "corrected", "rejected"} :
              /\ outcome' = [outcome EXCEPT ![s] = l]
              /\ judged' = [judged EXCEPT ![s] = p]
              /\ l = "rejected" <=> st = "rejected"
        BY <3>3 , <2>2 DEF ApplyTraceLabel, Judged
      <4> QED
        BY <2>2, <3>1, <4>1 DEF LabelMatchesJudgment, Judged, TypeOK
    <3> QED
      BY <3>2, <3>3
  <2> QED
    BY <2>1, <2>2, LabelCases DEF Judges
<1> QED
  BY <1>1, <1>2, TypeCorrect, LocksStep, PTL DEF Spec

-----------------------------------------------------------------------------
(* The supervision signal: what the agent proposed.                        *)

\* An item row that has not forgotten the payload pay it was proposed with.
Remembers(it, pay) ==
  /\ it.original \in {None, pay}
  /\ it.original = None => it.payload = pay

\* An edit does not make an item forget ...
LEMMA EditRemembers ==
  ASSUME NEW it \in ItemRows, NEW new \in Payloads, NEW pay \in Payloads, Remembers(it, pay)
  PROVE  Remembers(EditedRow(it, new), pay)
<1> DEFINE row == EditedRow(it, new)
<1>1. row.payload = new
      /\ row.original = IF it.original = None THEN it.payload ELSE it.original
  BY DEF EditedRow
<1>2. row.original = pay /\ pay # None
  BY <1>1, ConstantsOK DEF Remembers
<1> QED
  BY <1>2 DEF Remembers

\* ... nor does a verdict.
LEMMA RowAfterRemembers ==
  ASSUME NEW it \in ItemRows, NEW v \in Verdicts, NEW pay \in Payloads, Remembers(it, pay)
  PROVE  Remembers(RowAfter(it, v), pay)
<1>1. \A new \in Payloads : Remembers(EditedRow(it, new), pay)
  BY EditRemembers
<1>2. CASE v = Silent
  BY <1>2 DEF RowAfter, Silent
<1>3. CASE v = "accept"
  BY <1>3 DEF RowAfter, Remembers, ItemRows, Silent
<1>4. CASE v = "drop"
  BY <1>4 DEF RowAfter, Remembers, ItemRows, Silent
<1>5. CASE v \notin {Silent, "accept", "drop"}
  <2>1. v \in Payloads /\ RowAfter(it, v) = EditedRow(it, v)
    BY <1>5 DEF Verdicts, RowAfter
  <2> QED
    BY <1>1, <2>1
<1> QED
  BY <1>2, <1>3, <1>4, <1>5

\* Every step rewrites an item by a verdict, by an edit, or not at all.
LEMMA ItemCases ==
  ASSUME TypeOK, [Next]_vars, NEW i \in Items
  PROVE  \/ item'[i] = item[i]
         \/ \E v \in Verdicts : item'[i] = RowAfter(item[i], v)
         \/ \E new \in Payloads : item'[i] = EditedRow(item[i], new)
<1>1. ASSUME NEW p \in Proposals, Decide(p)
      PROVE  item'[i] = item[i] \/ \E v \in Verdicts : item'[i] = RowAfter(item[i], v)
  <2>1. PICK g \in Policies, r \in Reviewers, say \in Says, v \in [ItemsOf[p] -> Verdicts] :
          RecordObjection(p, g, r, say, v) \/ DecideBegin(p, g, r, say, v)
    BY <1>1 DEF Decide
  <2>2. item'[i] = IF i \in ItemsOf[p] THEN RowAfter(item[i], v[i]) ELSE item[i]
    BY <2>1 DEF RecordObjection, DecideBegin, WriteDecision
  <2> QED
    BY <2>2
<1>2. ASSUME NEW j \in Items, EditCommit(j)
      PROVE  item'[i] = item[i] \/ \E new \in Payloads : item'[i] = EditedRow(item[i], new)
  BY <1>2 DEF EditCommit, TypeOK
<1>3. ASSUME NEW p \in Proposals,
             Propose(p) \/ Submit(p) \/ DecideCommit(p) \/ Edit(p) \/ MergeBegin(p) \/ MergeCommit(p)
             \/ MergeAbort(p) \/ DeadlinePasses(p)
      PROVE  item' = item
  BY <1>3 DEF Propose, Submit, DecideCommit, Edit, EditBegin, MergeBegin, MergeCommit, MergeAbort,
              DeadlinePasses
<1>4. ASSUME NEW j \in Items, EditAbort(j) PROVE item' = item
  BY <1>4 DEF EditAbort
<1>5. CASE ExpireProposals
  BY <1>5 DEF ExpireProposals
<1>6. ASSUME NEW row \in Movable, GrantAuthority(row) \/ RevokeAuthority(row) PROVE item' = item
  BY <1>6 DEF GrantAuthority, RevokeAuthority
<1>7. ASSUME NEW r \in Switchable, SetActive(r) PROVE item' = item
  BY <1>7 DEF SetActive
<1>8. ASSUME NEW g \in Policies, NEW q \in Quorums[g], EditPolicy(g, q) PROVE item' = item
  BY <1>8 DEF EditPolicy
<1>9. CASE UNCHANGED vars
  BY <1>9 DEF vars
<1> QED
  BY <1>1, <1>2, <1>3, <1>4, <1>5, <1>6, <1>7, <1>8, <1>9 DEF Next

\* However many people edit an item, by either path, what the agent proposed
\* can be read off its row.
THEOREM OriginalAlwaysAgents == Spec => []OriginalIsAgents
<1>1. Init => OriginalIsAgents
  BY DEF Init, OriginalIsAgents
<1>2. TypeOK /\ OriginalIsAgents /\ [Next]_vars => OriginalIsAgents'
  <2> SUFFICES ASSUME TypeOK, OriginalIsAgents, [Next]_vars, NEW i \in Items
               PROVE  Remembers(item'[i], AgentPayload[i])
    BY DEF OriginalIsAgents, Remembers
  <2>1. Remembers(item[i], AgentPayload[i]) /\ item[i] \in ItemRows /\ AgentPayload[i] \in Payloads
    BY ConstantsOK DEF OriginalIsAgents, Remembers, TypeOK
  <2>2. \A new \in Payloads : Remembers(EditedRow(item[i], new), AgentPayload[i])
    BY <2>1, EditRemembers
  <2> QED
    BY <2>1, <2>2, ItemCases, RowAfterRemembers
<1> QED
  BY <1>1, <1>2, TypeCorrect, PTL DEF Spec

-----------------------------------------------------------------------------
(* The stamps.                                                             *)

\* Every gate that counts as met is stamped.
MetStamped ==
  \A p \in Proposals, g \in Policies :
    gates[p][g] > 0 /\ GateQuorumMet(p, g, decisions) => g \in cleared[p]

\* With nobody to revoke or to switch off, the roster is still.
LEMMA RosterStill ==
  ASSUME Movable = {}, Switchable = {}, [Next]_vars
  PROVE  authority' = authority /\ active' = active
<1>1. ASSUME NEW q \in Proposals,
             Propose(q) \/ Submit(q) \/ DecideCommit(q) \/ Edit(q) \/ DeadlinePasses(q)
      PROVE  authority' = authority /\ active' = active
  BY <1>1 DEF Propose, Submit, DecideCommit, Edit, EditBegin, DeadlinePasses, rosterVars
<1>2. ASSUME NEW q \in Proposals, MergeBegin(q) \/ MergeCommit(q) \/ MergeAbort(q)
      PROVE  authority' = authority /\ active' = active
  BY <1>2 DEF MergeBegin, MergeCommit, MergeAbort, rosterVars
<1>3. ASSUME NEW q \in Proposals, Decide(q) PROVE authority' = authority /\ active' = active
  BY <1>3 DEF Decide, RecordObjection, DecideBegin, WriteDecision, rosterVars
<1>4. ASSUME NEW i \in Items, EditCommit(i) \/ EditAbort(i)
      PROVE  authority' = authority /\ active' = active
  BY <1>4 DEF EditCommit, EditAbort, rosterVars
<1>5. ASSUME NEW g \in Policies, NEW q \in Quorums[g], EditPolicy(g, q)
      PROVE  authority' = authority /\ active' = active
  BY <1>5 DEF EditPolicy
<1>6. ExpireProposals \/ UNCHANGED vars => authority' = authority /\ active' = active
  BY DEF ExpireProposals, vars, rosterVars
<1> QED
  BY <1>1, <1>2, <1>3, <1>4, <1>5, <1>6 DEF Next

\* A still roster counts the same until the rows on the gate change.
LEMMA MetSame ==
  ASSUME authority' = authority, active' = active, NEW p, NEW g, gates'[p] = gates[p],
         \A d : d.policy = g => (d \in decisions'[p] <=> d \in decisions[p])
  PROVE  GateQuorumMet(p, g, decisions)' <=> GateQuorumMet(p, g, decisions)
<1>1. \A says : RowsSaying(p, g, decisions', says) = RowsSaying(p, g, decisions, says)
  BY DEF RowsSaying
<1>2. Counted(p, g, decisions)' = Counted(p, g, decisions)
  BY <1>1 DEF Counted, RowsSaying
<1> QED
  BY <1>1, <1>2 DEF GateQuorumMet, RowsSaying

\* No step that leaves the roster alone meets a gate without stamping it.
LEMMA StampStep ==
  TypeOK /\ MetStamped /\ [Next]_vars /\ authority' = authority /\ active' = active => MetStamped'
<1> SUFFICES ASSUME TypeOK, MetStamped, [Next]_vars, authority' = authority, active' = active,
                    NEW p \in Proposals, NEW g \in Policies,
                    gates'[p][g] > 0, GateQuorumMet(p, g, decisions)'
             PROVE  g \in cleared'[p]
  BY DEF MetStamped
<1>1. CASE Submit(p)
  <2>1. decisions'[p] = {}
    BY <1>1 DEF Submit, DecisionsAfterSubmit, TypeOK
  <2>2. Counted(p, g, decisions)' = {}
    BY <2>1 DEF Counted, RowsSaying
  <2>3. Cardinality(Counted(p, g, decisions)') = 0
    BY <2>2, FS_EmptySet
  <2>4. gates'[p][g] \in Nat
    BY TypeStep, ConstantsOK DEF TypeOK
  <2>5. Cardinality(Counted(p, g, decisions)') >= gates'[p][g]
    BY DEF GateQuorumMet
  <2> QED
    BY <2>3, <2>4, <2>5
<1>2. ASSUME NEW h \in Policies, NEW r \in Reviewers, NEW say \in Says,
             NEW v \in [ItemsOf[p] -> Verdicts], DecideBegin(p, h, r, say, v)
      PROVE  g \in cleared'[p]
  <2>1. cleared'[p] = ClearedAfter(p, decisions') /\ gates' = gates
    BY <1>2 DEF DecideBegin, WriteDecision, TypeOK
  <2>2. Counted(p, g, decisions)' = Counted(p, g, decisions')
    BY DEF Counted, RowsSaying
  <2>3. GateQuorumMet(p, g, decisions')
    BY <2>1, <2>2 DEF GateQuorumMet, RowsSaying
  <2> QED
    BY <2>1, <2>3 DEF ClearedAfter
<1>3. ASSUME NEW h \in Policies, NEW r \in Reviewers, NEW say \in Says,
             NEW v \in [ItemsOf[p] -> Verdicts], RecordObjection(p, h, r, say, v)
      PROVE  g \in cleared'[p]
  <2>1. /\ say \in Objections /\ cleared' = cleared /\ gates' = gates
        /\ decisions'[p] = RowsAfter(p, h, r, say)
    BY <1>3 DEF RecordObjection, WriteDecision, TypeOK
  <2> DEFINE row == [policy |-> h, reviewer |-> r, say |-> say, round |-> round[p]]
  <2>2. row \in decisions'[p] /\ row.policy = h /\ row.say \in Objections
    BY <2>1 DEF RowsAfter
  <2>3. RowsSaying(p, g, decisions', Objections) = {}
    BY DEF GateQuorumMet, RowsSaying
  <2>4. g # h
    BY <2>2, <2>3 DEF RowsSaying
  <2>5. \A d : d.policy = g => (d \in decisions'[p] <=> d \in decisions[p])
    BY <2>1, <2>4 DEF RowsAfter
  <2>6. GateQuorumMet(p, g, decisions)
    BY <2>1, <2>5, MetSame
  <2> QED
    BY <2>1, <2>6 DEF MetStamped
<1>4. CASE ~ Decide(p) /\ ~ Submit(p)
  <2>1. decisions'[p] = decisions[p] /\ gates'[p] = gates[p]
    BY <1>4, DecisionsKeptOtherwise
  <2>2. cleared'[p] = cleared[p]
    BY <1>4, StepCases DEF Untouched, Propose, DecideCommit, MergeCommit, Lapses, gateVars
  <2>3. GateQuorumMet(p, g, decisions)
    BY <2>1, MetSame
  <2> QED
    BY <2>1, <2>2, <2>3 DEF MetStamped
<1> QED
  BY <1>1, <1>2, <1>3, <1>4 DEF Decide

\* Approved means every gate is met, so stamped; and the stamps stay.
LEMMA ApprovedStampedStep ==
  TypeOK /\ Locks /\ MetStamped /\ ApprovedGatesStamped /\ [Next]_vars => ApprovedGatesStamped'
<1> SUFFICES ASSUME TypeOK, Locks, MetStamped, ApprovedGatesStamped, [Next]_vars,
                    NEW p \in Proposals, NEW g \in Policies,
                    status'[p] \in {"approved", "merged"}, gates'[p][g] > 0
             PROVE  g \in cleared'[p]
  BY DEF ApprovedGatesStamped
<1>1. ~ Propose(p) /\ ~ Submit(p) /\ ~ Lapses(p) /\ ~ Decide(p)
  BY DEF Propose, Submit, Lapses, Decide, DecideBegin, RecordObjection, TypeOK
<1>2. gates'[p] = gates[p] /\ cleared'[p] = cleared[p]
  BY <1>1, StepCases DEF Untouched, DecideCommit, MergeCommit, gateVars
<1>3. CASE status[p] \in {"approved", "merged"}
  BY <1>2, <1>3 DEF ApprovedGatesStamped
<1>4. CASE status[p] \notin {"approved", "merged"}
  <2>1. ~ Untouched(p) /\ ~ MergeCommit(p)
    BY <1>4 DEF Untouched, MergeCommit, Locks
  <2>2. DecideCommit(p) /\ GatesSatisfied(p, decisions)
    BY <1>1, <1>4, <2>1, StepCases DEF DecideCommit
  <2>3. /\ ~ Cardinality(Counted(p, g, decisions)) < gates[p][g]
        /\ RowsSaying(p, g, decisions, Objections) = {}
    BY <1>2, <2>2 DEF GatesSatisfied
  <2>4. Cardinality(Counted(p, g, decisions)) \in Nat /\ gates[p][g] \in Nat
    <3>1. Counted(p, g, decisions) \subseteq Reviewers
      BY DEF Counted, TypeOK
    <3> QED
      BY <3>1, ConstantsOK, FS_Subset, FS_CardinalityType DEF TypeOK
  <2>5. GateQuorumMet(p, g, decisions)
    BY <2>3, <2>4 DEF GateQuorumMet
  <2> QED
    BY <1>2, <2>5 DEF MetStamped
<1> QED
  BY <1>3, <1>4

\* With a still roster the stamps say of an approved proposal what gates_satisfied said.
THEOREM ApprovedAlwaysStamped ==
  ASSUME Movable = {}, Switchable = {}
  PROVE  Spec => []ApprovedGatesStamped
<1>1. Init => Locks /\ MetStamped /\ ApprovedGatesStamped
  BY DEF Init, Locks, MetStamped, ApprovedGatesStamped
<1>2. [Next]_vars => authority' = authority /\ active' = active
  BY RosterStill
<1> QED
  BY <1>1, <1>2, TypeCorrect, LocksStep, StampStep, ApprovedStampedStep, PTL DEF Spec
=============================================================================
