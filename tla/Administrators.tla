--------------------------- MODULE Administrators ---------------------------
(***************************************************************************)
(* The roster and who may administer it (fde_gate.service.reviewers over   *)
(* hitl.reviewer, reviewer_authority and reviewer_admin).  A call is one   *)
(* transaction of two or three statements, each reading what has committed *)
(* by then: that the actor is an administrator, that the target may lose   *)
(* the standing, the change.  No statement locks what an earlier one read. *)
(***************************************************************************)
EXTENDS FiniteSets

CONSTANTS
  People,         \* hitl.reviewer.reviewer_id
  FirstAdmins,    \* granted by hand at deployment
  Calls

ASSUME AdminOK == FirstAdmins \subseteq People /\ FirstAdmins # {}

VARIABLES
  registered,     \* the rows of hitl.reviewer
  activePeople,   \* is_active
  adminGrants,    \* the live rows of hitl.reviewer_admin
  authorities,    \* who holds a live authority for the gate kind at hand
  calls,          \* the calls under way
  skewed          \* history: a removal committed while another had passed its check

admVars == <<registered, activePeople, adminGrants, authorities, calls, skewed>>

Removals == {"deactivate", "revoke_admin"}
Ops      == Removals \cup {"add", "activate", "grant_admin", "grant", "revoke"}
NoCall   == [at |-> "idle"]
CallRecords ==
  {NoCall} \cup [at : {"authorised", "cleared"}, op : Ops, target : People]

AdmTypeOK ==
  /\ registered \subseteq People
  /\ activePeople \subseteq registered
  /\ adminGrants \subseteq registered /\ authorities \subseteq registered
  /\ calls \in [Calls -> CallRecords]
  /\ skewed \in BOOLEAN

AdmInit ==
  /\ registered = FirstAdmins /\ activePeople = FirstAdmins /\ adminGrants = FirstAdmins
  /\ authorities = {}
  /\ calls = [c \in Calls |-> NoCall]
  /\ skewed = FALSE

-----------------------------------------------------------------------------
\* hitl.is_reviewer_admin: an active reviewer with a live grant.
Admins == activePeople \cap adminGrants

roster == <<registered, activePeople, adminGrants, authorities>>

\* _assert_admin, for some actor.
Authorise(c, op, t) ==
  /\ calls[c].at = "idle" /\ Admins # {}
  /\ calls' = [calls EXCEPT ![c] = [at |-> "authorised", op |-> op, target |-> t]]
  /\ UNCHANGED <<roster, skewed>>

\* Variant: the last administrator may go.
MayProceedAlone(op, t) ==
  op # "add" => t \in registered /\ (op = "grant_admin" => t \in activePeople)

\* _assert_not_last_admin for a removal; a grant of admin needs an active target.
MayProceed(op, t) ==
  /\ op = "add" \/ t \in registered
  /\ op \in Removals /\ t \in Admins => Admins \ {t} # {}
  /\ op = "grant_admin" => t \in activePeople

Check(c) ==
  /\ calls[c].at = "authorised"
  /\ MayProceed(calls[c].op, calls[c].target)
  /\ calls' = [calls EXCEPT ![c].at = "cleared"]
  /\ UNCHANGED <<roster, skewed>>

\* The statement that changes the roster, and the commit.
Change(op, t) ==
  /\ registered' = IF op = "add" THEN registered \cup {t} ELSE registered
  /\ activePeople' = CASE op \in {"add", "activate"} -> activePeople \cup {t}
                       [] op = "deactivate"          -> activePeople \ {t}
                       [] OTHER                      -> activePeople
  /\ adminGrants' = CASE op = "grant_admin"  -> adminGrants \cup {t}
                      [] op = "revoke_admin" -> adminGrants \ {t}
                      [] OTHER               -> adminGrants
  /\ authorities' = CASE op = "grant"  -> authorities \cup {t}
                      [] op = "revoke" -> authorities \ {t}
                      [] OTHER         -> authorities

\* What the change refuses: a principal that exists, a grant that is not live.
Effective(op, t) ==
  /\ op = "add" => t \notin registered
  /\ op = "revoke_admin" => t \in adminGrants
  /\ op = "revoke" => t \in authorities

Commit(c) ==
  /\ calls[c].at = "cleared"
  /\ Effective(calls[c].op, calls[c].target)
  /\ Change(calls[c].op, calls[c].target)
  /\ skewed' = (skewed \/ /\ calls[c].op \in Removals
                          /\ \E d \in Calls \ {c} :
                               calls[d].at = "cleared" /\ calls[d].op \in Removals)
  /\ calls' = [calls EXCEPT ![c] = NoCall]

\* A refusal, or a lost connection: the transaction rolls back.
Refuse(c) ==
  /\ calls[c].at # "idle"
  /\ calls' = [calls EXCEPT ![c] = NoCall]
  /\ UNCHANGED <<roster, skewed>>

AdmNext == \E c \in Calls :
  \/ \E op \in Ops, t \in People : Authorise(c, op, t)
  \/ Check(c) \/ Commit(c) \/ Refuse(c)

AdmSpec == AdmInit /\ [][AdmNext]_admVars

-----------------------------------------------------------------------------
(* Properties.                                                             *)

\* The console never loses its last administrator (_assert_not_last_admin: "removing the
\* last one leaves a console nobody can administer"), through deactivation or revocation,
\* unless two removals overlap: each then counts the administrator the other removes.
AdminRemains == Admins # {} \/ skewed
=============================================================================
