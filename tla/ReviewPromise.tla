---------------------------- MODULE ReviewPromise ----------------------------
(***************************************************************************)
(* What the human-in-the-loop gates promise, with nothing of how they      *)
(* keep the promise: docs/07 sections 1-4 and 7.  A proposal is posed      *)
(* against a bar; reviewers assent; it can be approved only while every    *)
(* gate of its bar is met by assents given since it was posed; it reaches  *)
(* the graph only from approval; a judgment is final, and the training     *)
(* label of the session that wrote the proposal is set by that judgment    *)
(* and in the same step.                                                   *)
(*                                                                         *)
(* Numbers of reviewers, ways of objecting, roster changes, edits,         *)
(* supersession and in-flight transactions do not appear here: HitlGates   *)
(* is shown to implement this module.                                      *)
(***************************************************************************)
EXTENDS Integers, FiniteSets

CONSTANTS
  Proposals, Policies, Reviewers, Sessions, None,
  SessionOf,      \* the trace session that wrote a proposal, or None
  MaxQuorum       \* no policy asks for more reviewers than this

VARIABLES
  stage,          \* where each proposal stands
  bar,            \* bar[p][g]: the assents gate g of p needs; 0 means no such gate
  assent,         \* assent[p][g]: who assents to p on gate g, unopposed
  outcome,        \* the training label of each session
  judged          \* the proposal whose judgment set that label, or None

vars == <<stage, bar, assent, outcome, judged>>

Stages == {"absent", "draft", "review", "returned", "approved",
           "merged", "rejected", "expired"}

BarMet(p) ==
  /\ \E g \in Policies : bar[p][g] > 0
  /\ \A g \in Policies : bar[p][g] > 0 => Cardinality(assent[p][g]) >= bar[p][g]

Judge(p, labels) ==
  LET s == SessionOf[p] IN
  IF s = None
  THEN UNCHANGED <<outcome, judged>>
  ELSE /\ \E l \in labels : outcome' = [outcome EXCEPT ![s] = l]
       /\ judged' = [judged EXCEPT ![s] = p]

Init ==
  /\ stage = [p \in Proposals |-> "absent"]
  /\ bar = [p \in Proposals |-> [g \in Policies |-> 0]]
  /\ assent = [p \in Proposals |-> [g \in Policies |-> {}]]
  /\ outcome = [s \in Sessions |-> "pending"]
  /\ judged = [s \in Sessions |-> None]

Draft(p) ==
  /\ stage[p] = "absent"
  /\ stage' = [stage EXCEPT ![p] = "draft"]
  /\ UNCHANGED <<bar, assent, outcome, judged>>

\* Posing, or posing again after changes were asked for, fixes the bar and
\* starts from no assent at all.
Pose(p) ==
  /\ stage[p] \in {"draft", "returned"}
  /\ stage' = [stage EXCEPT ![p] = "review"]
  /\ \E b \in [Policies -> 0..MaxQuorum] :
       /\ \E g \in Policies : b[g] > 0
       /\ bar' = [bar EXCEPT ![p] = b]
  /\ assent' = [assent EXCEPT ![p] = [g \in Policies |-> {}]]
  /\ UNCHANGED <<outcome, judged>>

\* Somebody speaks on one gate; the proposal stays under review, goes back
\* to its author, or is approved if its bar is now met.
Deliberate(p) ==
  /\ stage[p] = "review"
  /\ \E g \in Policies, A \in SUBSET Reviewers :
       /\ bar[p][g] > 0
       /\ assent' = [assent EXCEPT ![p][g] = A]
  /\ \E to \in {"review", "returned", "approved"} :
       /\ to = "approved" => BarMet(p)'
       /\ stage' = [stage EXCEPT ![p] = to]
  /\ UNCHANGED <<bar, outcome, judged>>

Reject(p) ==
  /\ stage[p] = "review"
  /\ \E g \in Policies, A \in SUBSET Reviewers :
       assent' = [assent EXCEPT ![p][g] = A]
  /\ stage' = [stage EXCEPT ![p] = "rejected"]
  /\ Judge(p, {"rejected"})
  /\ UNCHANGED bar

Merge(p) ==
  /\ stage[p] = "approved"
  /\ BarMet(p)
  /\ stage' = [stage EXCEPT ![p] = "merged"]
  /\ Judge(p, {"accepted", "corrected"})
  /\ UNCHANGED <<bar, assent>>

\* A missed deadline ends a review without judging anything.
Lapse ==
  \E late \in SUBSET {p \in Proposals : stage[p] \in {"review", "returned"}} :
    /\ late # {}
    /\ stage' = [p \in Proposals |-> IF p \in late THEN "expired" ELSE stage[p]]
    /\ UNCHANGED <<bar, assent, outcome, judged>>

Next ==
  \/ \E p \in Proposals :
       Draft(p) \/ Pose(p) \/ Deliberate(p) \/ Reject(p) \/ Merge(p)
  \/ Lapse

Spec == Init /\ [][Next]_vars
=============================================================================
