----------------------- MODULE MigrationRunnerProofs -----------------------
(***************************************************************************)
(* What holds of the migration Lambda for every set of invocations, every  *)
(* release and every number of login users.  An invocation acts on what it *)
(* read some statements ago; the invariant says how much of it is still    *)
(* true: its plan always, the roles and the later files while it is alone. *)
(***************************************************************************)
EXTENDS MigrationRunner, TLAPS

\* At a secret or a role, an invocation is at one of the logins.
AtALogin ==
  \A i \in Invocations : migAt[i] \in {"secret", "create"} => migLogin[i] \in Logins

\* Unless some have overlapped, one invocation at most is working.
Alone == overlapped \/ \A i, j \in Invocations :
  migAt[i] \in Alive /\ migAt[j] \in Alive => i = j

\* What _ensure_login_users saw, or wrote, of the login it is at still holds.
Minting == overlapped \/ \A i \in Invocations :
  /\ migAt[i] \in {"secret", "create"} => role[migLogin[i]] = NoInvocation
  /\ migAt[i] = "create" => secret[migLogin[i]] = i

\* The plan is of its release, and all of the release that has not been applied.
Planned == \A i \in Invocations : migAt[i] = "apply" =>
  /\ migTodo[i] \subseteq Release[i]
  /\ Release[i] \subseteq ledger \cup migTodo[i]

\* No file of the release after a planned one is in the ledger.
NoGap == overlapped \/ \A i \in Invocations : migAt[i] = "apply" =>
  \A f \in migTodo[i] : \A g \in Release[i] : g > f => g \notin ledger

MigInv ==
  MigTypeOK /\ AtALogin /\ Alone /\ Minting /\ CredentialsAgree /\ Planned /\ NoGap

\* A row is written only by its invocation.
LEMMA MovesOne ==
  ASSUME NEW i \in Invocations, NEW at, MigTypeOK, Becomes(i, at)
  PROVE  \A j \in Invocations : migAt'[j] = IF j = i THEN at ELSE migAt[j]
BY DEF Becomes, MigTypeOK

\* Every step keeps the types, and the login a step acts on in range.
LEMMA MigTypeStep ==
  ASSUME MigTypeOK, AtALogin, MigNext
  PROVE  MigTypeOK' /\ AtALogin'
<1> USE MigOK DEF MigTypeOK, AtALogin, Logins, Alive, Working, Gone, Statuses, response, database
<1>1. PICK i \in Invocations :
        \/ Begin(i) \/ Plan(i) \/ Apply(i) \/ Applied(i) \/ CheckLogin(i) \/ PutSecret(i)
        \/ CreateRole(i) \/ Raise(i) \/ ClaimMain(i) \/ PutMain(i) \/ Fire(i)
        \/ PutWatchdog(i) \/ Kill(i)
  BY DEF MigNext
<1>2. CASE Begin(i)
  BY <1>2 DEF Begin, Concludes, Becomes
<1>3. CASE Plan(i)
  BY <1>3 DEF Plan, Becomes
<1>4. CASE Apply(i)
  BY <1>4 DEF Apply
<1>5. CASE Applied(i)
  BY <1>5 DEF Applied, Becomes
<1>6. CASE CheckLogin(i)
  <2>1. UNCHANGED <<migTodo, migClaim, migAnswer, putFailed, ledger, role, secret, overlapped>>
    BY <1>6 DEF CheckLogin
  <2>2. CASE Concludes(i, "SUCCESS") /\ migLogin' = migLogin
    BY <2>1, <2>2 DEF Concludes, Becomes
  <2>3. CASE /\ migLogin[i] <= NLogins
             /\ migLogin' = [migLogin EXCEPT ![i] = @ + 1]
             /\ UNCHANGED <<migAt, migVerdict>> /\ migAt[i] = "logins"
    <3>1. migLogin' \in [Invocations -> 1..(NLogins + 1)]
      BY <2>3
    <3>2. \A j \in Invocations : migAt[j] \in {"secret", "create"} => migLogin'[j] = migLogin[j]
      BY <2>3
    <3> QED
      BY <2>1, <2>3, <3>1, <3>2
  <2>4. CASE /\ migLogin[i] <= NLogins /\ Becomes(i, "secret")
             /\ UNCHANGED <<migLogin, migVerdict>>
    BY <2>1, <2>4 DEF Becomes
  <2> QED
    BY <1>6, <2>2, <2>3, <2>4 DEF CheckLogin
<1>7. CASE PutSecret(i)
  BY <1>7 DEF PutSecret, Becomes
<1>8. CASE CreateRole(i)
  BY <1>8 DEF CreateRole, Becomes
<1>9. CASE Raise(i)
  BY <1>9 DEF Raise, Concludes, Becomes
<1>10. CASE ClaimMain(i)
  BY <1>10 DEF ClaimMain, Becomes
<1>11. CASE PutMain(i)
  BY <1>11 DEF PutMain, Becomes
<1>12. CASE Fire(i)
  BY <1>12 DEF Fire
<1>13. CASE PutWatchdog(i)
  BY <1>13 DEF PutWatchdog
<1>14. CASE Kill(i)
  BY <1>14 DEF Kill, Becomes
<1> QED
  BY <1>1, <1>2, <1>3, <1>4, <1>5, <1>6, <1>7, <1>8, <1>9, <1>10, <1>11, <1>12, <1>13, <1>14

\* A step that touches no row of the database and moves one invocation, to no place where it
\* would rely on what it read, keeps the rest.
LEMMA QuietStep ==
  ASSUME MigInv, MigTypeOK', AtALogin', UNCHANGED <<database, migTodo>>,
         NEW i \in Invocations, NEW at,
         at \in {"connect", "logins", "reply", "put", "ended", "killed"},
         Becomes(i, at),
         overlapped => overlapped',
         migAt[i] \in Alive \/ at \notin Alive \/ overlapped'
           \/ \A j \in Invocations : migAt[j] \notin Alive,
         \A j \in Invocations \ {i} : migLogin'[j] = migLogin[j]
  PROVE  MigInv'
<1>1. \A j \in Invocations : migAt'[j] = IF j = i THEN at ELSE migAt[j]
  BY MovesOne DEF MigInv
<1>2. /\ ledger' = ledger /\ role' = role /\ secret' = secret /\ migTodo' = migTodo
  BY DEF database
<1>3. Alone'
  BY <1>1, <1>2 DEF MigInv, Alone
<1>4. Minting'
  BY <1>1, <1>2 DEF MigInv, Minting
<1>5. CredentialsAgree'
  BY <1>2 DEF MigInv, CredentialsAgree
<1>6. Planned' /\ NoGap'
  BY <1>1, <1>2 DEF MigInv, Planned, NoGap
<1> QED
  BY <1>3, <1>4, <1>5, <1>6 DEF MigInv

\* Every step keeps what the invocations rely on.
LEMMA MigInductive ==
  ASSUME MigInv, [MigNext]_migVars
  PROVE  MigInv'
<1>1. CASE UNCHANGED migVars
  BY <1>1 DEF MigInv, MigTypeOK, AtALogin, Alone, Minting, CredentialsAgree, Planned, NoGap,
              migVars
<1>2. ASSUME MigNext PROVE MigInv'
  <2>1. PICK i \in Invocations :
          \/ Begin(i) \/ Plan(i) \/ Apply(i) \/ Applied(i) \/ CheckLogin(i) \/ PutSecret(i)
          \/ CreateRole(i) \/ Raise(i) \/ ClaimMain(i) \/ PutMain(i) \/ Fire(i)
          \/ PutWatchdog(i) \/ Kill(i)
    BY <1>2 DEF MigNext
  <2>2. MigTypeOK' /\ AtALogin' /\ MigTypeOK /\ AtALogin
    BY <1>2, MigTypeStep DEF MigInv
  <2>3. CASE Begin(i)
    <3>1. PICK at \in {"connect", "reply"} : Becomes(i, at)
      BY <2>3 DEF Begin, Concludes
    <3> QED
      BY <2>2, <2>3, <3>1, QuietStep DEF Begin, Alive, Working, MigTypeOK
  <2>4. CASE Plan(i)
    <3>1. \A j \in Invocations :
            /\ migAt'[j] = IF j = i THEN "apply" ELSE migAt[j]
            /\ migTodo'[j] = IF j = i THEN Release[i] \ ledger ELSE migTodo[j]
      BY <2>2, <2>4, MovesOne DEF Plan, MigTypeOK
    <3>2. UNCHANGED <<ledger, role, secret, migLogin, overlapped>> /\ migAt[i] = "connect"
      BY <2>4 DEF Plan, database
    <3>3. Alone' /\ Minting' /\ CredentialsAgree'
      BY <3>1, <3>2 DEF MigInv, Alone, Minting, CredentialsAgree, Alive, Working
    <3>4. Planned'
      BY <3>1, <3>2 DEF MigInv, Planned
    <3>5. \A f \in Release[i] \ ledger, g \in Release[i] \cap ledger :
            f \in Nat /\ g \in Nat /\ ~(f < g)
      BY <2>4, MigOK DEF Plan
    <3>6. NoGap'
      BY <3>1, <3>2, <3>5 DEF MigInv, NoGap
    <3> QED
      BY <2>2, <3>3, <3>4, <3>6 DEF MigInv
  <2>5. CASE Apply(i)
    <3>1. PICK f \in migTodo[i] :
            /\ \A g \in migTodo[i] : f <= g
            /\ f \notin ledger
            /\ ledger' = ledger \cup {f}
            /\ migTodo' = [migTodo EXCEPT ![i] = @ \ {f}]
      BY <2>5 DEF Apply
    <3>2. \A j \in Invocations : migTodo'[j] = IF j = i THEN migTodo[i] \ {f} ELSE migTodo[j]
      BY <2>2, <3>1 DEF MigTypeOK
    <3>3. UNCHANGED <<migAt, migLogin, role, secret, overlapped>> /\ migAt[i] = "apply"
      BY <2>5 DEF Apply
    <3>4. Alone' /\ Minting' /\ CredentialsAgree'
      BY <3>3 DEF MigInv, Alone, Minting, CredentialsAgree
    <3>5. Planned'
      BY <3>1, <3>2, <3>3 DEF MigInv, Planned
    <3>6. NoGap'
      <4> SUFFICES ASSUME ~overlapped', NEW j \in Invocations, migAt'[j] = "apply",
                          NEW e \in migTodo'[j], NEW g \in Release[j], g > e
                   PROVE  g \notin ledger'
        BY DEF NoGap
      <4>1. i = j
        BY <3>3 DEF MigInv, Alone, Alive, Working
      <4>2. e \in migTodo[i] /\ f <= e /\ e \in Nat /\ f \in Nat /\ g \in Nat
        BY <2>2, <3>1, <3>2, <4>1, MigOK DEF MigTypeOK
      <4>3. g \notin ledger
        BY <3>3, <4>1, <4>2 DEF MigInv, NoGap
      <4> QED
        BY <3>1, <4>2, <4>3
    <3> QED
      BY <2>2, <3>4, <3>5, <3>6 DEF MigInv
  <2>6. CASE Applied(i)
    BY <2>2, <2>6, QuietStep DEF Applied, Alive, Working
  <2>7. CASE CheckLogin(i)
    <3>1. CASE Becomes(i, "secret")
      <4>1. \A j \in Invocations : migAt'[j] = IF j = i THEN "secret" ELSE migAt[j]
        BY <2>2, <3>1, MovesOne
      <4>2. /\ UNCHANGED <<ledger, role, secret, migTodo, overlapped>>
            /\ migAt[i] = "logins"
        BY <2>7 DEF CheckLogin, database
      <4>3. migLogin' = migLogin /\ role[migLogin[i]] = NoInvocation
        BY <2>2, <2>7, <4>1, <4>2 DEF CheckLogin, Concludes, Becomes, MigTypeOK
      <4>4. Alone'
        BY <4>1, <4>2 DEF MigInv, Alone, Alive, Working
      <4>5. Minting'
        BY <4>1, <4>2, <4>3 DEF MigInv, Minting
      <4>6. CredentialsAgree' /\ Planned' /\ NoGap'
        BY <4>1, <4>2 DEF MigInv, CredentialsAgree, Planned, NoGap
      <4> QED
        BY <2>2, <4>4, <4>5, <4>6 DEF MigInv
    <3>2. CASE Becomes(i, "reply")
      <4>1. \A j \in Invocations \ {i} : migLogin'[j] = migLogin[j]
        BY <2>2, <2>7 DEF CheckLogin, MigTypeOK
      <4> QED
        BY <2>2, <2>7, <3>2, <4>1, QuietStep DEF CheckLogin, Alive, Working
    <3>3. CASE migAt' = migAt
      <4>1. \A j \in Invocations \ {i} : migLogin'[j] = migLogin[j]
        BY <2>2, <2>7 DEF CheckLogin, MigTypeOK
      <4>2. Becomes(i, "logins")
        BY <2>2, <2>7, <3>3 DEF CheckLogin, Becomes, MigTypeOK
      <4> QED
        BY <2>2, <2>7, <4>1, <4>2, QuietStep DEF CheckLogin, Alive, Working
    <3> QED
      BY <2>7, <3>1, <3>2, <3>3 DEF CheckLogin, Concludes
  <2>8. CASE PutSecret(i)
    <3>1. \A j \in Invocations : migAt'[j] = IF j = i THEN "create" ELSE migAt[j]
      BY <2>2, <2>8, MovesOne DEF PutSecret
    <3>2. /\ UNCHANGED <<ledger, role, migTodo, migLogin, overlapped>>
          /\ migAt[i] = "secret" /\ migLogin[i] \in Logins
          /\ \A u \in Logins : secret'[u] = IF u = migLogin[i] THEN i ELSE secret[u]
      BY <2>2, <2>8 DEF PutSecret, AtALogin, MigTypeOK
    <3>3. Alone'
      BY <3>1, <3>2 DEF MigInv, Alone, Alive, Working
    <3>4. overlapped \/ role[migLogin[i]] = NoInvocation
      BY <3>2 DEF MigInv, Minting
    <3>5. overlapped \/ \A j \in Invocations : j # i => migAt'[j] # "create"
      BY <3>1, <3>2 DEF MigInv, Alone, Alive, Working
    <3>6. Minting'
      BY <3>1, <3>2, <3>4, <3>5 DEF MigInv, Minting
    <3>7. CredentialsAgree'
      BY <3>2, <3>4 DEF MigInv, CredentialsAgree
    <3>8. Planned' /\ NoGap'
      BY <3>1, <3>2 DEF MigInv, Planned, NoGap
    <3> QED
      BY <2>2, <3>3, <3>6, <3>7, <3>8 DEF MigInv
  <2>9. CASE CreateRole(i)
    <3>1. \A j \in Invocations : migAt'[j] = IF j = i THEN "logins" ELSE migAt[j]
      BY <2>2, <2>9, MovesOne DEF CreateRole
    <3>2. /\ UNCHANGED <<ledger, secret, migTodo, overlapped>>
          /\ migAt[i] = "create" /\ migLogin[i] \in Logins
          /\ \A j \in Invocations : j # i => migLogin'[j] = migLogin[j]
      BY <2>2, <2>9 DEF CreateRole, AtALogin, MigTypeOK
    <3>3. \A u \in Logins : role'[u] =
            IF u = migLogin[i] /\ role[u] = NoInvocation THEN i ELSE role[u]
      BY <2>2, <2>9, <3>2 DEF CreateRole, MigTypeOK
    <3>4. Alone'
      BY <3>1, <3>2 DEF MigInv, Alone, Alive, Working
    <3>5. overlapped \/ secret[migLogin[i]] = i
      BY <3>2 DEF MigInv, Minting
    <3>6. overlapped \/ \A j \in Invocations : migAt'[j] \notin {"secret", "create"}
      BY <3>1, <3>2 DEF MigInv, Alone, Alive, Working
    <3>7. Minting'
      BY <3>2, <3>6 DEF Minting
    <3>8. CredentialsAgree'
      BY <3>2, <3>3, <3>5 DEF MigInv, CredentialsAgree
    <3>9. Planned' /\ NoGap'
      BY <3>1, <3>2 DEF MigInv, Planned, NoGap
    <3> QED
      BY <2>2, <3>4, <3>7, <3>8, <3>9 DEF MigInv
  <2>10. CASE Raise(i)
    BY <2>2, <2>10, QuietStep DEF Raise, Concludes, Alive, Working
  <2>11. CASE ClaimMain(i)
    <3>1. PICK at \in {"put", "ended"} : Becomes(i, at)
      BY <2>11 DEF ClaimMain
    <3> QED
      BY <2>2, <2>11, <3>1, QuietStep DEF ClaimMain, Alive, Working
  <2>12. CASE PutMain(i)
    BY <2>2, <2>12, QuietStep DEF PutMain, Alive, Working
  <2>13. CASE Kill(i)
    BY <2>2, <2>13, QuietStep DEF Kill, Alive, Working
  <2>14. CASE Fire(i) \/ PutWatchdog(i)
    <3>1. UNCHANGED <<migAt, migTodo, migLogin, database, overlapped>>
      BY <2>14 DEF Fire, PutWatchdog
    <3> QED
      BY <2>2, <3>1 DEF MigInv, Alone, Minting, CredentialsAgree, Planned, NoGap, database
  <2> QED
    BY <2>1, <2>3, <2>4, <2>5, <2>6, <2>7, <2>8, <2>9, <2>10, <2>11, <2>12, <2>13, <2>14
<1> QED
  BY <1>1, <1>2

LEMMA MigStarts == MigInit => MigInv
<1> SUFFICES ASSUME MigInit PROVE MigInv
  OBVIOUS
<1>1. MigTypeOK
  <2>1. 1 \in 1..(NLogins + 1)
    BY MigOK
  <2> QED
    BY <2>1 DEF MigInit, MigTypeOK, Statuses
<1>2. AtALogin /\ Alone /\ Minting /\ Planned /\ NoGap
  BY DEF MigInit, AtALogin, Alone, Minting, Planned, NoGap, Alive, Working
<1>3. CredentialsAgree
  BY DEF MigInit, CredentialsAgree
<1> QED
  BY <1>1, <1>2, <1>3 DEF MigInv

LEMMA MigInvariant == MigSpec => []MigInv
<1>1. MigInit => MigInv
  BY MigStarts
<1>2. MigInv /\ [MigNext]_migVars => MigInv'
  BY MigInductive
<1> QED
  BY <1>1, <1>2, PTL DEF MigSpec

\* Every variable of the migration Lambda keeps the type of what it stands for (handler).
THEOREM MigTypeCorrect == MigSpec => []MigTypeOK
<1>1. MigInv => MigTypeOK
  BY DEF MigInv
<1> QED
  BY <1>1, MigInvariant, PTL

\* Unless two invocations overlapped, every login role has the password in its secret, for
\* any number of invocations that die, fail or repeat each other (_ensure_login_users).
THEOREM CredentialsAlwaysAgree == MigSpec => []CredentialsAgree
<1>1. MigInv => CredentialsAgree
  BY DEF MigInv
<1> QED
  BY <1>1, MigInvariant, PTL

\* Files are applied in the order of their numbers, for any releases and any interleaving of
\* the invocations that carry them (plan_migrations, _apply_migration).
THEOREM MigrationsForwardOnly == MigSpec => ForwardOnly
<1> DEFINE Forward == \A f \in ledger' \ ledger : \E i \in Invocations :
             /\ f \in Release[i]
             /\ \A g \in Release[i] : g < f => g \in ledger
             /\ overlapped \/ \A g \in Release[i] : g > f => g \notin ledger
<1>1. ASSUME MigInv, [MigNext]_migVars PROVE Forward
  <2> SUFFICES ASSUME NEW f \in ledger' \ ledger
               PROVE  \E i \in Invocations :
                        /\ f \in Release[i]
                        /\ \A g \in Release[i] : g < f => g \in ledger
                        /\ overlapped \/ \A g \in Release[i] : g > f => g \notin ledger
    OBVIOUS
  <2>1. PICK i \in Invocations : Apply(i)
    BY <1>1 DEF MigNext, migVars, Begin, Plan, Applied, CheckLogin, PutSecret, CreateRole,
                Raise, ClaimMain, PutMain, Fire, PutWatchdog, Kill, database
  <2>2. /\ f \in migTodo[i] /\ \A g \in migTodo[i] : f <= g
        /\ migAt[i] = "apply"
    BY <2>1 DEF Apply
  <2>3. /\ migTodo[i] \subseteq Release[i] /\ Release[i] \subseteq Nat
        /\ Release[i] \subseteq ledger \cup migTodo[i]
    BY <1>1, <2>2, MigOK DEF MigInv, Planned
  <2>4. \A g \in Release[i] : g < f => g \in ledger
    BY <2>2, <2>3
  <2>5. overlapped \/ \A g \in Release[i] : g > f => g \notin ledger
    BY <1>1, <2>2 DEF MigInv, NoGap
  <2> QED
    BY <2>2, <2>3, <2>4, <2>5
<1>2. MigInv /\ [MigNext]_migVars => [Forward]_migVars
  BY <1>1
<1> QED
  BY <1>2, MigInvariant, PTL DEF MigSpec, ForwardOnly
=============================================================================
