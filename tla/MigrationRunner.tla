-------------------------- MODULE MigrationRunner --------------------------
(***************************************************************************)
(* The Lambda that migrates the database on every deployment               *)
(* (infra/cdk/lambdas/migration_runner/handler.py).  Each statement is a   *)
(* transaction of its own (autocommit); the secrets live in another        *)
(* service; two threads, the handler and its watchdog, may answer          *)
(* CloudFormation; and nothing keeps two invocations apart: the watchdog   *)
(* answers for a handler that goes on working, and a next stack operation  *)
(* or a retry starts another.  A password is named by the invocation that  *)
(* generated it.                                                           *)
(***************************************************************************)
EXTENDS Integers

CONSTANTS
  Invocations, NoInvocation,
  Release,        \* the migration files each invocation carries, by number
  NLogins         \* len(_LOGIN_USERS)

ASSUME MigOK ==
  /\ NoInvocation \notin Invocations /\ NLogins \in Nat
  /\ Release \in [Invocations -> SUBSET Nat]

Logins == 1..NLogins

VARIABLES
  migAt,          \* where the handler's main path is
  migTodo,        \* pending: the planned files not yet applied
  migLogin,       \* the login user it is at
  migVerdict,     \* the status it is about to send
  migClaim,       \* which thread has set response_sent
  migAnswer,      \* the status CloudFormation received
  putFailed,      \* the PUT of the response raised
  ledger,         \* ops.applied_migration
  role, secret,   \* the password of each login role, and the one in its secret
  overlapped      \* history: an invocation began while another was working

migVars == <<migAt, migTodo, migLogin, migVerdict, migClaim, migAnswer, putFailed,
             ledger, role, secret, overlapped>>

Working  == {"connect", "apply", "logins", "secret", "create"}
Alive    == Working \cup {"reply", "put"}
Gone     == {"ended", "killed"}
Statuses == {"none", "SUCCESS", "FAILED"}

MigTypeOK ==
  /\ migAt \in [Invocations -> {"idle"} \cup Alive \cup Gone]
  /\ migTodo \in [Invocations -> SUBSET Nat]
  /\ migLogin \in [Invocations -> 1..(NLogins + 1)]
  /\ migVerdict \in [Invocations -> Statuses]
  /\ migClaim \in [Invocations -> {"nobody", "main", "watchdog"}]
  /\ migAnswer \in [Invocations -> Statuses]
  /\ putFailed \in [Invocations -> BOOLEAN]
  /\ ledger \subseteq Nat
  /\ role \in [Logins -> Invocations \cup {NoInvocation}]
  /\ secret \in [Logins -> Invocations \cup {NoInvocation}]
  /\ overlapped \in BOOLEAN

MigInit ==
  /\ migAt = [i \in Invocations |-> "idle"]
  /\ migTodo = [i \in Invocations |-> {}]
  /\ migLogin = [i \in Invocations |-> 1]
  /\ migVerdict = [i \in Invocations |-> "none"]
  /\ migClaim = [i \in Invocations |-> "nobody"]
  /\ migAnswer = [i \in Invocations |-> "none"]
  /\ putFailed = [i \in Invocations |-> FALSE]
  /\ ledger = {}
  /\ role = [u \in Logins |-> NoInvocation]
  /\ secret = [u \in Logins |-> NoInvocation]
  /\ overlapped = FALSE

-----------------------------------------------------------------------------
database == <<ledger, role, secret>>
response == <<migClaim, migAnswer, putFailed>>

Becomes(i, at) == migAt' = [migAt EXCEPT ![i] = at]
Concludes(i, status) ==
  Becomes(i, "reply") /\ migVerdict' = [migVerdict EXCEPT ![i] = status]

\* Both threads start.  A Delete touches nothing and answers SUCCESS.
Begin(i) ==
  /\ migAt[i] = "idle"
  /\ \/ Concludes(i, "SUCCESS")
     \/ Becomes(i, "connect") /\ UNCHANGED migVerdict
  /\ overlapped' = (overlapped \/ \E j \in Invocations : migAt[j] \in Alive)
  /\ UNCHANGED <<migTodo, migLogin, response, database>>

\* Variant: the ledger's gap is not refused.
PlanAnyway(i) ==
  /\ migAt[i] = "connect"
  /\ migTodo' = [migTodo EXCEPT ![i] = Release[i] \ ledger]
  /\ Becomes(i, "apply")
  /\ UNCHANGED <<migLogin, migVerdict, response, database, overlapped>>

\* The connection, the ledger read once, and the forward-only plan.
Plan(i) ==
  /\ migAt[i] = "connect"
  /\ ~ \E f \in Release[i] \ ledger, g \in Release[i] \cap ledger : f < g
  /\ migTodo' = [migTodo EXCEPT ![i] = Release[i] \ ledger]
  /\ Becomes(i, "apply")
  /\ UNCHANGED <<migLogin, migVerdict, response, database, overlapped>>

\* One file and its ledger row, in one implicit transaction; a file that another
\* invocation applied meanwhile collides on the primary key (see Raise).
Apply(i) ==
  /\ migAt[i] = "apply"
  /\ \E f \in migTodo[i] :
       /\ \A g \in migTodo[i] : f <= g
       /\ f \notin ledger
       /\ ledger' = ledger \cup {f}
       /\ migTodo' = [migTodo EXCEPT ![i] = @ \ {f}]
  /\ UNCHANGED <<migAt, migLogin, migVerdict, response, role, secret, overlapped>>

Applied(i) ==
  /\ migAt[i] = "apply" /\ migTodo[i] = {}
  /\ Becomes(i, "logins")
  /\ UNCHANGED <<migTodo, migLogin, migVerdict, response, database, overlapped>>

\* _login_role_exists for the next login; past the last, the administrator's row is
\* seeded (ON CONFLICT DO NOTHING) and the main path succeeds.
CheckLogin(i) ==
  /\ migAt[i] = "logins"
  /\ \/ /\ migLogin[i] > NLogins
        /\ Concludes(i, "SUCCESS") /\ UNCHANGED migLogin
     \/ /\ migLogin[i] <= NLogins /\ role[migLogin[i]] # NoInvocation
        /\ migLogin' = [migLogin EXCEPT ![i] = @ + 1] /\ UNCHANGED <<migAt, migVerdict>>
     \/ /\ migLogin[i] <= NLogins /\ role[migLogin[i]] = NoInvocation
        /\ Becomes(i, "secret") /\ UNCHANGED <<migLogin, migVerdict>>
  /\ UNCHANGED <<migTodo, response, database, overlapped>>

\* Variant: an existing secret is kept (create_secret without put_secret_value).
KeepSecret(i) ==
  /\ migAt[i] = "secret"
  /\ secret' = [secret EXCEPT ![migLogin[i]] = IF @ = NoInvocation THEN i ELSE @]
  /\ Becomes(i, "create")
  /\ UNCHANGED <<migTodo, migLogin, migVerdict, response, ledger, role, overlapped>>

\* A fresh password is minted into the secret before the role exists.
PutSecret(i) ==
  /\ migAt[i] = "secret"
  /\ secret' = [secret EXCEPT ![migLogin[i]] = i]
  /\ Becomes(i, "create")
  /\ UNCHANGED <<migTodo, migLogin, migVerdict, response, ledger, role, overlapped>>

\* The DO block creates the role unless somebody has.
CreateRole(i) ==
  /\ migAt[i] = "create"
  /\ role' = [role EXCEPT ![migLogin[i]] = IF @ = NoInvocation THEN i ELSE @]
  /\ migLogin' = [migLogin EXCEPT ![i] = @ + 1]
  /\ Becomes(i, "logins")
  /\ UNCHANGED <<migTodo, migVerdict, response, ledger, secret, overlapped>>

\* An exception anywhere on the main path: a ledger with a gap, a failing or already
\* applied file, a lost connection.
Raise(i) ==
  /\ migAt[i] \in Working
  /\ Concludes(i, "FAILED")
  /\ UNCHANGED <<migTodo, migLogin, response, database, overlapped>>

-----------------------------------------------------------------------------
(* _send_once, by the main path and by the watchdog: the claim under the   *)
(* lock comes first, the PUT after it.                                     *)

ClaimMain(i) ==
  /\ migAt[i] = "reply"
  /\ \/ migClaim[i] = "nobody" /\ migClaim' = [migClaim EXCEPT ![i] = "main"] /\ Becomes(i, "put")
     \/ migClaim[i] # "nobody" /\ Becomes(i, "ended") /\ UNCHANGED migClaim
  /\ UNCHANGED <<migTodo, migLogin, migVerdict, migAnswer, putFailed, database, overlapped>>

\* A PUT that raises is caught, and the FAILED it turns into finds response_sent set.
PutMain(i) ==
  /\ migAt[i] = "put"
  /\ \/ migAnswer' = [migAnswer EXCEPT ![i] = migVerdict[i]] /\ UNCHANGED putFailed
     \/ putFailed' = [putFailed EXCEPT ![i] = TRUE] /\ UNCHANGED migAnswer
  /\ Becomes(i, "ended")
  /\ UNCHANGED <<migTodo, migLogin, migVerdict, migClaim, database, overlapped>>

\* Variant: checked between the steps of the main path, which a blocked call never ends.
FireBetweenSteps(i) ==
  /\ migAt[i] \in {"apply", "logins"} /\ migClaim[i] = "nobody"
  /\ migClaim' = [migClaim EXCEPT ![i] = "watchdog"]
  /\ UNCHANGED <<migAt, migTodo, migLogin, migVerdict, migAnswer, putFailed, database, overlapped>>

\* Fewer than ten seconds remain: the watchdog claims the answer.
Fire(i) ==
  /\ migAt[i] \in Alive /\ migClaim[i] = "nobody"
  /\ migClaim' = [migClaim EXCEPT ![i] = "watchdog"]
  /\ UNCHANGED <<migAt, migTodo, migLogin, migVerdict, migAnswer, putFailed, database, overlapped>>

\* Its PUT runs while the process does: a daemon thread does not outlive the handler.
PutWatchdog(i) ==
  /\ migAt[i] \in Alive /\ migClaim[i] = "watchdog"
  /\ migAnswer[i] = "none" /\ ~putFailed[i]
  /\ \/ migAnswer' = [migAnswer EXCEPT ![i] = "FAILED"] /\ UNCHANGED putFailed
     \/ putFailed' = [putFailed EXCEPT ![i] = TRUE] /\ UNCHANGED migAnswer
  /\ UNCHANGED <<migAt, migTodo, migLogin, migVerdict, migClaim, database, overlapped>>

\* The timeout, or the death of the process.
Kill(i) ==
  /\ migAt[i] \in Alive
  /\ Becomes(i, "killed")
  /\ UNCHANGED <<migTodo, migLogin, migVerdict, response, database, overlapped>>

MigNext == \E i \in Invocations :
  \/ Begin(i) \/ Plan(i) \/ Apply(i) \/ Applied(i) \/ CheckLogin(i) \/ PutSecret(i)
  \/ CreateRole(i) \/ Raise(i) \/ ClaimMain(i) \/ PutMain(i) \/ Fire(i) \/ PutWatchdog(i)
  \/ Kill(i)

MigSpec == MigInit /\ [][MigNext]_migVars

-----------------------------------------------------------------------------
(* Properties.                                                             *)

\* A file is applied only after every earlier file of a release that carries it,
\* whatever other invocations apply or fail to apply meanwhile, and never after a later
\* one unless invocations overlapped: plan_migrations refuses a gap, but it reads the
\* ledger once, before the files it plans are applied.
ForwardOnly ==
  [][\A f \in ledger' \ ledger : \E i \in Invocations :
       /\ f \in Release[i]
       /\ \A g \in Release[i] : g < f => g \in ledger
       /\ overlapped \/ \A g \in Release[i] : g > f => g \notin ledger]_migVars

\* A login role's password is the one in its secret (_ensure_login_users), through any
\* number of crashes, failures and retries, unless two invocations ever overlapped:
\* then the loser of the race overwrites the secret and its DO block finds the role.
CredentialsAgree ==
  overlapped \/ \A u \in Logins : role[u] # NoInvocation => secret[u] = role[u]

\* CloudFormation is answered even when the main path hangs for ever, except when the
\* process is killed, a PUT raises (response_sent is already set, so no other is tried)
\* or the handler returns while its watchdog's PUT is under way.
Answered == []<>(\A i \in Invocations :
  migAt[i] # "idle" =>
    \/ migAnswer[i] # "none" \/ migAt[i] = "killed" \/ putFailed[i]
    \/ migAt[i] = "ended" /\ migClaim[i] = "watchdog")
=============================================================================
