-------------------------- MODULE HitlPromiseProofs --------------------------
(***************************************************************************)
(* HitlGates implements ReviewPromise, for every value of the constants:   *)
(* initial states map to initial states, and every step of the gates maps  *)
(* to a step of the promise or to no step at all.                          *)
(***************************************************************************)
EXTENDS HitlGatesProofs

\* What the abstract module sees of the concrete one.
StageMap  == [p \in Proposals |-> StageOf(status[p])]
AssentMap == [p \in Proposals |-> [g \in Policies |-> Assent(p, g)]]

-----------------------------------------------------------------------------
(* How the mapped variables change.                                        *)

\* Assent is read off the decisions alone.
LEMMA AssentSame ==
  ASSUME NEW p, NEW g, decisions'[p] = decisions[p]
  PROVE  Assent(p, g)' = Assent(p, g)
BY DEF Assent, Endorsers, RowsSaying

\* A step that leaves decisions alone leaves assent alone.
LEMMA AssentMapSame ==
  ASSUME \A p \in Proposals : decisions'[p] = decisions[p]
  PROVE  AssentMap' = AssentMap
BY AssentSame DEF AssentMap

\* A decision changes assent only on its own gate.
LEMMA AssentMapDecide ==
  ASSUME TypeOK, NEW p \in Proposals, NEW g \in Policies, NEW r \in Reviewers, NEW say \in Says,
         decisions' = [decisions EXCEPT ![p] = RowsAfter(p, g, r, say)]
  PROVE  AssentMap' = [AssentMap EXCEPT ![p][g] = Assent(p, g)']
<1>1. ASSUME NEW q \in Proposals, q # p, NEW h \in Policies PROVE Assent(q, h)' = Assent(q, h)
  BY <1>1, AssentSame DEF TypeOK
<1>2. ASSUME NEW h \in Policies, h # g PROVE Assent(p, h)' = Assent(p, h)
  <2>1. \A says : RowsSaying(p, h, decisions, says)' = RowsSaying(p, h, decisions, says)
    BY <1>2 DEF RowsSaying, RowsAfter, TypeOK
  <2>2. /\ RowsSaying(p, h, decisions, Objections)' = RowsSaying(p, h, decisions, Objections)
        /\ RowsSaying(p, h, decisions, {"approve"})' = RowsSaying(p, h, decisions, {"approve"})
    BY <2>1
  <2> QED
    BY <2>2 DEF Assent, Endorsers
<1> QED
  BY <1>1, <1>2 DEF AssentMap

\* The stages are the statuses, less what the promise does not tell apart.
LEMMA Stages ==
  /\ StageOf("submitted") = "review" /\ StageOf("in_review") = "review"
  /\ StageOf("changes_requested") = "returned"
  /\ \A st \in {"absent", "draft", "approved", "rejected", "merged", "expired"} : StageOf(st) = st
BY DEF StageOf, UnderReview

\* Both modules count with the same operator.
LEMMA SameCardinality == \A S : Promise!Cardinality(S) = Cardinality(S)
BY DEF Promise!Cardinality, Cardinality

\* A quorum that stands meets the bar.
LEMMA StandsMeetsBar ==
  ASSUME NEW p \in Proposals, Stands(p)
  PROVE  Promise!BarMet(p)
BY SameCardinality DEF Stands, Promise!BarMet, Assent

\* apply_trace_label judges the session as the promise says.
LEMMA LabelJudges ==
  ASSUME NEW p \in Proposals
  PROVE  /\ ApplyTraceLabel(p, "rejected") => Promise!Judge(p, {"rejected"})
         /\ ApplyTraceLabel(p, "merged") => Promise!Judge(p, {"accepted", "corrected"})
BY DEF ApplyTraceLabel, Promise!Judge, labelVars

-----------------------------------------------------------------------------
(* Initial states and steps.                                               *)

\* An empty gate database is where the promise starts.
LEMMA PromiseInit == Init => Promise!Init
<1> SUFFICES ASSUME Init PROVE Promise!Init
  OBVIOUS
<1>1. \A p \in Proposals : StageOf(status[p]) = "absent"
  BY Stages DEF Init
<1>2. \A p \in Proposals, g \in Policies : Assent(p, g) = {}
  BY DEF Init, Assent, Endorsers, RowsSaying
<1> QED
  BY <1>1, <1>2 DEF Init, Promise!Init

\* kg_propose drafts.
LEMMA DraftStep ==
  ASSUME TypeOK, NEW p \in Proposals, Propose(p)
  PROVE  Promise!Draft(p)
<1>1. StageMap' = [StageMap EXCEPT ![p] = "draft"] /\ StageMap[p] = "absent"
  BY DEF Propose, StageMap, StageOf, UnderReview, TypeOK
<1>2. AssentMap' = AssentMap /\ gates' = gates /\ outcome' = outcome /\ judged' = judged
  BY AssentMapSame DEF Propose, gateVars, labelVars
<1> QED
  BY <1>1, <1>2 DEF Promise!Draft, StageMap, AssentMap

\* submit_proposal poses: it fixes the bar and starts from no assent.
LEMMA PoseStep ==
  ASSUME TypeOK, NEW p \in Proposals, Submit(p)
  PROVE  Promise!Pose(p)
<1>1. StageMap' = [StageMap EXCEPT ![p] = "review"] /\ StageMap[p] \in {"draft", "returned"}
  BY DEF Submit, StageMap, StageOf, UnderReview, TypeOK
<1>2. AssentMap' = [AssentMap EXCEPT ![p] = [g \in Policies |-> {}]]
  <2>1. ASSUME NEW q \in Proposals, q # p, NEW h \in Policies PROVE Assent(q, h)' = Assent(q, h)
    BY <2>1, AssentSame DEF Submit, TypeOK
  <2>2. ASSUME NEW h \in Policies PROVE Assent(p, h)' = {}
    <3>1. decisions'[p] = {}
      BY DEF Submit, DecisionsAfterSubmit, TypeOK
    <3> QED
      BY <3>1 DEF Assent, Endorsers, RowsSaying
  <2> QED
    BY <2>1, <2>2 DEF AssentMap
<1>3. /\ RequiredGates(p) \in [Policies -> 0..MaxQuorum]
      /\ \E g \in Policies : RequiredGates(p)[g] > 0
      /\ gates' = [gates EXCEPT ![p] = RequiredGates(p)]
  <2>1. RequiredGates(p) \in [Policies -> 0..MaxQuorum]
    BY ConstantsOK DEF RequiredGates, TypeOK
  <2> QED
    BY <2>1 DEF Submit
<1>4. outcome' = outcome /\ judged' = judged
  BY DEF Submit, labelVars
<1> QED
  BY <1>1, <1>2, <1>3, <1>4 DEF Promise!Pose, StageMap, AssentMap

\* record_decision, up to its commit, deliberates or rejects.
LEMMA DecideStep ==
  ASSUME TypeOK, NEW p \in Proposals, Decide(p)
  PROVE  Promise!Deliberate(p) \/ Promise!Reject(p)
<1>1. PICK g \in Policies, r \in Reviewers, say \in Says, v \in [ItemsOf[p] -> Verdicts] :
        RecordObjection(p, g, r, say, v) \/ DecideBegin(p, g, r, say, v)
  BY DEF Decide
<1>2. WriteDecision(p, g, r, say, v)
  BY <1>1 DEF RecordObjection, DecideBegin
<1>3. /\ AssentMap' = [AssentMap EXCEPT ![p][g] = Assent(p, g)']
      /\ Assent(p, g)' \in SUBSET Reviewers
  <2>1. decisions' = [decisions EXCEPT ![p] = RowsAfter(p, g, r, say)]
    BY <1>2 DEF WriteDecision
  <2> QED
    BY <2>1, AssentMapDecide DEF Assent, Endorsers
<1>4. gates' = gates /\ gates[p][g] > 0 /\ StageMap[p] = "review"
  BY <1>2, Stages DEF WriteDecision, MayDecide, UnderReview, StageMap
<1>5. CASE DecideBegin(p, g, r, say, v)
  <2>1. StageMap' = [StageMap EXCEPT ![p] = "review"] /\ outcome' = outcome /\ judged' = judged
    BY <1>5 DEF DecideBegin, labelVars, StageMap, StageOf, UnderReview, TypeOK
  <2> QED
    BY <1>3, <1>4, <2>1 DEF Promise!Deliberate, StageMap, AssentMap
<1>6. CASE RecordObjection(p, g, r, say, v) /\ say = "reject"
  <2>1. StageMap' = [StageMap EXCEPT ![p] = "rejected"]
    BY <1>6 DEF RecordObjection, StageMap, StageOf, UnderReview, TypeOK
  <2>2. Promise!Judge(p, {"rejected"})
    BY <1>6, LabelJudges DEF RecordObjection
  <2> QED
    BY <1>3, <1>4, <2>1, <2>2 DEF Promise!Reject, StageMap, AssentMap
<1>7. CASE RecordObjection(p, g, r, say, v) /\ say # "reject"
  <2>1. StageMap' = [StageMap EXCEPT ![p] = "returned"] /\ outcome' = outcome /\ judged' = judged
    BY <1>7 DEF RecordObjection, labelVars, StageMap, StageOf, UnderReview, TypeOK
  <2> QED
    BY <1>3, <1>4, <2>1 DEF Promise!Deliberate, StageMap, AssentMap
<1> QED
  BY <1>1, <1>5, <1>6, <1>7

\* The commit of a decision approves, if the bar is met, or shows nothing.
LEMMA CommitStep ==
  ASSUME TypeOK, Locks, Gated, NEW p \in Proposals, DecideCommit(p)
  PROVE  Promise!Deliberate(p) \/ UNCHANGED Promise!vars
<1>1. AssentMap' = AssentMap /\ gates' = gates /\ outcome' = outcome /\ judged' = judged
  BY AssentMapSame DEF DecideCommit, gateVars, labelVars
<1>2. CASE status' = status
  <2>1. StageMap' = StageMap
    BY <1>2 DEF StageMap
  <2> QED
    BY <1>1, <2>1 DEF Promise!vars, StageMap, AssentMap
<1>3. CASE status' # status
  <2>1. GatesSatisfied(p, decisions) /\ status' = [status EXCEPT ![p] = "approved"]
    BY <1>3 DEF DecideCommit
  <2>2. PICK g \in Policies : gates[p][g] > 0
    BY DEF Gated, DecideCommit
  <2>3. Promise!BarMet(p)
    BY <2>1, <2>2, SatisfiedStands, StandsMeetsBar
  <2>4. Promise!BarMet(p)'
    BY <1>1, <2>3 DEF Promise!BarMet, AssentMap
  <2>5. StageMap' = [StageMap EXCEPT ![p] = "approved"] /\ StageMap[p] = "review"
    <3>1. status[p] = "in_review" /\ StageOf("in_review") = "review" /\ StageOf("approved") = "approved"
      BY DEF Locks, DecideCommit, StageOf, UnderReview
    <3>2. \A q \in Proposals : status'[q] = IF q = p THEN "approved" ELSE status[q]
      BY <2>1 DEF TypeOK
    <3> QED
      BY <3>1, <3>2 DEF StageMap
  <2>6. Assent(p, g) \in SUBSET Reviewers
    BY DEF Assent, Endorsers
  <2>7. AssentMap' = [AssentMap EXCEPT ![p][g] = Assent(p, g)]
    <3>1. AssentMap = [AssentMap EXCEPT ![p][g] = Assent(p, g)]
      BY DEF AssentMap
    <3> QED
      BY <1>1, <3>1
  <2> QED
    BY <1>1, <2>2, <2>4, <2>5, <2>6, <2>7 DEF Promise!Deliberate, StageMap, AssentMap
<1> QED
  BY <1>2, <1>3

\* The commit of a merge merges from approval, with the bar still met.
LEMMA MergeStep ==
  ASSUME TypeOK, Locks, QuorumStands, NEW p \in Proposals, MergeCommit(p)
  PROVE  Promise!Merge(p)
<1>1. status[p] = "approved"
  BY DEF MergeCommit, Locks
<1>2. Promise!BarMet(p)
  BY <1>1, StandsMeetsBar DEF QuorumStands, Stands
<1>3. StageMap' = [StageMap EXCEPT ![p] = "merged"] /\ StageMap[p] = "approved"
  BY <1>1 DEF MergeCommit, StageMap, StageOf, UnderReview, TypeOK
<1>4. AssentMap' = AssentMap /\ gates' = gates
  BY AssentMapSame DEF MergeCommit, gateVars
<1>5. Promise!Judge(p, {"accepted", "corrected"})
  BY LabelJudges DEF MergeCommit
<1> QED
  BY <1>2, <1>3, <1>4, <1>5 DEF Promise!Merge, StageMap, AssentMap

\* The sweep lapses what is late.
LEMMA LapseStep ==
  ASSUME TypeOK, ExpireProposals
  PROVE  Promise!Lapse
<1> DEFINE late == (Expirable \cap overdue) \ deciding
<1>1. AssentMap' = AssentMap /\ gates' = gates /\ outcome' = outcome /\ judged' = judged
  BY AssentMapSame DEF ExpireProposals, gateVars, labelVars
<1>2. late # {} /\ late \in SUBSET {p \in Proposals : StageMap[p] \in {"review", "returned"}}
  BY Stages DEF ExpireProposals, Expirable, UnderReview, StageMap
<1>3. StageMap' = [p \in Proposals |-> IF p \in late THEN "expired" ELSE StageMap[p]]
  BY Stages DEF ExpireProposals, StageMap, TypeOK
<1> HIDE DEF late
<1> QED
  BY <1>1, <1>2, <1>3 DEF Promise!Lapse, StageMap, AssentMap

\* Everything else happens out of the promise's sight.
LEMMA UnseenStep ==
  ASSUME UNCHANGED <<status, gates, decisions, labelVars>>
  PROVE  UNCHANGED Promise!vars
<1>1. StageMap' = StageMap
  BY DEF StageMap
<1>2. AssentMap' = AssentMap
  BY AssentMapSame
<1> QED
  BY <1>1, <1>2 DEF Promise!vars, StageMap, AssentMap, labelVars

\* One case per action.
LEMMA PromiseStep ==
  TypeOK /\ Locks /\ Gated /\ QuorumStands /\ [Next]_vars => [Promise!Next]_(Promise!vars)
<1> SUFFICES ASSUME TypeOK, Locks, Gated, QuorumStands, [Next]_vars
             PROVE  Promise!Next \/ UNCHANGED Promise!vars
  OBVIOUS
<1>1. ASSUME NEW p \in Proposals,
             Propose(p) \/ Submit(p) \/ Decide(p) \/ DecideCommit(p) \/ MergeCommit(p)
      PROVE  Promise!Next \/ UNCHANGED Promise!vars
  <2>1. \/ Promise!Draft(p) \/ Promise!Pose(p) \/ Promise!Deliberate(p) \/ Promise!Reject(p)
        \/ Promise!Merge(p) \/ UNCHANGED Promise!vars
    BY <1>1, DraftStep, PoseStep, DecideStep, CommitStep, MergeStep
  <2> QED
    BY <2>1 DEF Promise!Next
<1>2. CASE ExpireProposals
  BY <1>2, LapseStep DEF Promise!Next
<1>3. ASSUME NEW p \in Proposals, Edit(p) \/ MergeBegin(p) \/ MergeAbort(p) \/ DeadlinePasses(p)
      PROVE  UNCHANGED <<status, gates, decisions, labelVars>>
  BY <1>3 DEF Edit, EditBegin, MergeBegin, MergeAbort, DeadlinePasses, proposalVars, gateVars
<1>4. ASSUME NEW i \in Items, EditCommit(i) \/ EditAbort(i)
      PROVE  UNCHANGED <<status, gates, decisions, labelVars>>
  BY <1>4 DEF EditCommit, EditAbort, proposalVars, gateVars
<1>5. ASSUME NEW row \in Movable, GrantAuthority(row) \/ RevokeAuthority(row)
      PROVE  UNCHANGED <<status, gates, decisions, labelVars>>
  BY <1>5 DEF GrantAuthority, RevokeAuthority, proposalVars, gateVars
<1>6. ASSUME NEW r \in Switchable, SetActive(r)
      PROVE  UNCHANGED <<status, gates, decisions, labelVars>>
  BY <1>6 DEF SetActive, proposalVars, gateVars
<1>7. ASSUME NEW g \in Policies, NEW q \in Quorums[g], EditPolicy(g, q)
      PROVE  UNCHANGED <<status, gates, decisions, labelVars>>
  BY <1>7 DEF EditPolicy, proposalVars, gateVars
<1>8. CASE UNCHANGED vars
  BY <1>8, UnseenStep DEF vars, proposalVars, gateVars, labelVars
<1> QED
  BY <1>1, <1>2, <1>3, <1>4, <1>5, <1>6, <1>7, <1>8, UnseenStep DEF Next

\* The gates keep their promise: whatever reviewers, authors, administrators,
\* editors, merges and the sweep do, and in whatever order, a proposal is
\* approved only on assents to its current bar, merged only from approval,
\* judged once, and its session labelled by that judgment alone.
THEOREM GatesKeepPromise == Spec => KeepsPromise
<1>1. Init => Locks /\ Gated /\ QuorumStands
  BY DEF Init, Locks, Gated, QuorumStands
<1> QED
  BY <1>1, PromiseInit, PromiseStep, TypeCorrect, LocksStep, QuorumStep, PTL
  DEF Spec, KeepsPromise, Promise!Spec
=============================================================================
