--------------------------- MODULE ServicesProofs ---------------------------
(***************************************************************************)
(* What holds of five services for every instance: the administrators of   *)
(* the console, a launched agent with its wait for the gates, the drift    *)
(* signals, the embedding workers and the decisions on a gate.  Each reads *)
(* something in one statement or transaction and acts on it in another; the*)
(* invariant says what survives in between.                                *)
(***************************************************************************)
EXTENDS Administrators, AgentLaunch, DriftSignals, Embeddings, GateDecisions, FiniteSetTheorems,
        TLAPS

-----------------------------------------------------------------------------
(* Administrators.                                                         *)

\* A call that passed its check is about somebody registered, or adds somebody.
ClearedKnown == \A c \in Calls :
  calls[c].at = "cleared" /\ calls[c].op # "add" => calls[c].target \in registered

\* A removal that passed its check, unless others overlapped it, still leaves somebody.
ClearedSafe == skewed \/ \A c \in Calls :
  calls[c].at = "cleared" /\ calls[c].op \in Removals /\ calls[c].target \in Admins =>
    Admins \ {calls[c].target} # {}

AdmInv == AdmTypeOK /\ ClearedKnown /\ ClearedSafe /\ AdminRemains

LEMMA CallUnderWay ==
  ASSUME NEW r \in CallRecords, r.at # "idle"
  PROVE  r.op \in Ops /\ r.target \in People /\ r.at \in {"authorised", "cleared"}
BY DEF CallRecords, NoCall

LEMMA AdmInductive ==
  ASSUME AdmInv, [AdmNext]_admVars
  PROVE  AdmInv'
<1> USE DEF roster
<1>1. CASE UNCHANGED admVars
  BY <1>1 DEF AdmInv, AdmTypeOK, ClearedKnown, ClearedSafe, AdminRemains, Admins, admVars
<1>2. ASSUME NEW c \in Calls, NEW r \in CallRecords, UNCHANGED <<roster, skewed>>,
             calls' = [calls EXCEPT ![c] = r],
             r.at = "cleared" => MayProceed(r.op, r.target)
      PROVE  AdmInv'
  <2>1. \A d \in Calls : calls'[d] = IF d = c THEN r ELSE calls[d]
    BY <1>2 DEF AdmInv, AdmTypeOK
  <2>2. AdmTypeOK' /\ AdminRemains'
    BY <1>2 DEF AdmInv, AdmTypeOK, AdminRemains, Admins
  <2>3. ClearedKnown' /\ ClearedSafe'
    BY <1>2, <2>1 DEF AdmInv, ClearedKnown, ClearedSafe, MayProceed, Admins
  <2> QED
    BY <2>2, <2>3 DEF AdmInv
<1>3. ASSUME NEW c \in Calls, NEW op \in Ops, NEW t \in People, Authorise(c, op, t)
      PROVE  AdmInv'
  <2>1. [at |-> "authorised", op |-> op, target |-> t] \in CallRecords
    BY DEF CallRecords
  <2> QED
    BY <1>2, <1>3, <2>1 DEF Authorise
<1>4. ASSUME NEW c \in Calls, Check(c) PROVE AdmInv'
  <2> DEFINE r == [at |-> "cleared", op |-> calls[c].op, target |-> calls[c].target]
  <2>1. calls[c] \in CallRecords /\ calls[c].at = "authorised"
    BY <1>4 DEF AdmInv, AdmTypeOK, Check
  <2>2. r \in CallRecords
    BY <2>1, CallUnderWay DEF CallRecords
  <2>3. [calls[c] EXCEPT !.at = "cleared"] = r
    BY <2>1 DEF CallRecords, NoCall
  <2>4. calls' = [calls EXCEPT ![c] = r]
    BY <1>4, <2>3 DEF Check
  <2> QED
    BY <1>2, <1>4, <2>2, <2>4 DEF Check
<1>5. ASSUME NEW c \in Calls, Refuse(c) PROVE AdmInv'
  <2>1. NoCall \in CallRecords /\ NoCall.at # "cleared"
    BY DEF CallRecords, NoCall
  <2> QED
    BY <1>2, <1>5, <2>1 DEF Refuse
<1>6. ASSUME NEW c \in Calls, Commit(c) PROVE AdmInv'
  <2> DEFINE op == calls[c].op  t == calls[c].target
  <2>1. calls[c] \in CallRecords /\ calls[c].at = "cleared"
    BY <1>6 DEF AdmInv, AdmTypeOK, Commit
  <2>2. op \in Ops /\ t \in People
    BY <2>1, CallUnderWay
  <2>3. op # "add" => t \in registered
    BY <2>1 DEF AdmInv, ClearedKnown
  <2>4. /\ registered \subseteq registered' /\ registered' \subseteq registered \cup {t}
        /\ activePeople' \subseteq activePeople \cup {t} /\ adminGrants' \subseteq adminGrants \cup {t}
        /\ authorities' \subseteq authorities \cup {t} /\ t \in registered'
    BY <1>6, <2>2, <2>3 DEF Commit, Change, Ops, Removals
  <2>5. \A d \in Calls : calls'[d] = IF d = c THEN NoCall ELSE calls[d]
    BY <1>6 DEF AdmInv, AdmTypeOK, Commit
  <2>6. AdmTypeOK'
    <3>1. calls' \in [Calls -> CallRecords]
      BY <1>6 DEF AdmInv, AdmTypeOK, Commit, CallRecords
    <3>2. skewed' \in BOOLEAN
      BY <1>6 DEF Commit
    <3> QED
      BY <2>2, <2>4, <3>1, <3>2 DEF AdmInv, AdmTypeOK
  <2>7. ClearedKnown'
    BY <2>4, <2>5 DEF AdmInv, ClearedKnown, NoCall
  <2>8. /\ skewed => skewed'
        /\ op \in Removals =>
             skewed' \/ \A d \in Calls \ {c} : ~(calls[d].at = "cleared" /\ calls[d].op \in Removals)
    BY <1>6 DEF Commit
  <2>9. CASE op \in Removals
    <3>1. Admins' = Admins \ {t} \/ Admins' = Admins
      BY <1>6, <2>9 DEF Commit, Change, Removals, Admins
    <3>2. AdminRemains'
      BY <2>1, <2>8, <2>9, <3>1 DEF AdmInv, ClearedSafe, AdminRemains
    <3>3. ClearedSafe'
      BY <2>5, <2>8, <2>9 DEF ClearedSafe, NoCall
    <3> QED
      BY <2>6, <2>7, <3>2, <3>3 DEF AdmInv
  <2>10. CASE op \notin Removals
    <3>1. Admins \subseteq Admins'
      BY <1>6, <2>10 DEF Commit, Change, Removals, Admins
    <3>2. \A d \in Calls \ {c} : calls'[d] = calls[d] /\ calls[d].target = calls'[d].target
      BY <2>5
    <3>3. AdminRemains'
      BY <2>8, <3>1 DEF AdmInv, AdminRemains
    <3>4. ClearedSafe'
      <4> SUFFICES ASSUME ~skewed', NEW d \in Calls, calls'[d].at = "cleared",
                          calls'[d].op \in Removals, calls'[d].target \in Admins'
                   PROVE  Admins' \ {calls'[d].target} # {}
        BY DEF ClearedSafe
      <4>1. d # c /\ calls'[d] = calls[d] /\ ~skewed
        BY <2>5, <2>8 DEF NoCall
      <4>2. Admins \ {calls[d].target} # {}
        BY <4>1 DEF AdmInv, ClearedSafe, AdminRemains
      <4> QED
        BY <3>1, <4>1, <4>2
    <3> QED
      BY <2>6, <2>7, <3>3, <3>4 DEF AdmInv
  <2> QED
    BY <2>9, <2>10
<1> QED
  BY <1>1, <1>3, <1>4, <1>5, <1>6 DEF AdmNext

LEMMA AdmInvariant == AdmSpec => []AdmInv
<1>1. AdmInit => AdmInv
  <2> SUFFICES ASSUME AdmInit PROVE AdmInv
    OBVIOUS
  <2>1. NoCall \in CallRecords /\ NoCall.at = "idle"
    BY DEF CallRecords, NoCall
  <2>2. calls \in [Calls -> CallRecords] /\ \A c \in Calls : calls[c].at = "idle"
    BY <2>1 DEF AdmInit
  <2>3. AdmTypeOK
    BY <2>2, AdminOK DEF AdmInit, AdmTypeOK
  <2>4. ClearedKnown /\ ClearedSafe
    BY <2>2 DEF ClearedKnown, ClearedSafe
  <2>5. AdminRemains
    BY AdminOK DEF AdmInit, AdminRemains, Admins
  <2> QED
    BY <2>3, <2>4, <2>5 DEF AdmInv
<1>2. AdmInv /\ [AdmNext]_admVars => AdmInv'
  BY AdmInductive
<1> QED
  BY <1>1, <1>2, PTL DEF AdmSpec

\* Who is active, an administrator or an authority is always registered (service.reviewers).
THEOREM AdmTypeCorrect == AdmSpec => []AdmTypeOK
<1>1. AdmInv => AdmTypeOK
  BY DEF AdmInv
<1> QED
  BY <1>1, AdmInvariant, PTL

\* Of any number of people and calls, unless two removals overlap, the last administrator
\* stays (_assert_not_last_admin).
THEOREM AdminAlwaysRemains == AdmSpec => []AdminRemains
<1>1. AdmInv => AdminRemains
  BY DEF AdmInv
<1> QED
  BY <1>1, AdmInvariant, PTL

-----------------------------------------------------------------------------
(* Agent launches.                                                         *)

\* The task starts with its call, and a launch that is over stays as it is.
CallKnown ==
  /\ launch.call \in {"none", "filed", "dispatched"} => task.at = "none"
  /\ launch.call \in {"dispatched", "waiting"} => launch.session
  /\ launch.status = "succeeded" => launch.call = "over"

\* What has a quorum, is approved or merged had a quorum once.
QuorumKnown ==
  /\ quorate \subseteq everQuorate
  /\ \A p \in Found : review[p] \in {"approved", "merged"} => p \in everQuorate

\* Where an outcome comes from, while the task runs as when it is over.
OutcomeEarned ==
  /\ task.awaiting \subseteq task.ids
  /\ task.at \in {"none", "turn"} => task.outcome = "pending"
  /\ task.outcome = "accepted" =>
       task.ids = {} \/ task.ids \cap (everQuorate \cup polledDraft) # {}

LaunchInv == LaunchTypeOK /\ CallKnown /\ QuorumKnown /\ OutcomeEarned /\ LaunchTraced

LEMMA LaunchInductive ==
  ASSUME LaunchInv, [LaunchNext]_launchVars
  PROVE  LaunchInv'
<1> USE DEF LaunchInv, TaskOver
<1>1. CASE UNCHANGED launchVars
  BY <1>1 DEF LaunchTypeOK, CallKnown, QuorumKnown, OutcomeEarned, LaunchTraced, launchVars,
              reviewVars
<1>2. CASE UNCHANGED <<task, reviewVars, polledDraft>> /\
           (FileLaunch \/ RefuseLaunch \/ Dispatch \/ Succeed \/ Fail \/ ConsoleDies)
  <2>1. UNCHANGED <<task, review, quorate, everQuorate, polledDraft>>
    BY <1>2 DEF reviewVars
  <2>2. QuorumKnown' /\ OutcomeEarned'
    BY <2>1 DEF QuorumKnown, OutcomeEarned
  <2>3. CASE FileLaunch
    BY <2>1, <2>2, <2>3 DEF LaunchTypeOK, CallKnown, LaunchTraced, FileLaunch
  <2>4. CASE RefuseLaunch
    BY <2>1, <2>2, <2>4 DEF LaunchTypeOK, CallKnown, LaunchTraced, RefuseLaunch
  <2>5. CASE Dispatch
    BY <2>1, <2>2, <2>5 DEF LaunchTypeOK, CallKnown, LaunchTraced, Dispatch
  <2>6. CASE Succeed
    BY <2>1, <2>2, <2>6 DEF LaunchTypeOK, CallKnown, LaunchTraced, Succeed
  <2>7. CASE Fail
    BY <2>1, <2>2, <2>7 DEF LaunchTypeOK, CallKnown, LaunchTraced, Fail
  <2>8. CASE ConsoleDies
    BY <2>1, <2>2, <2>8 DEF LaunchTypeOK, CallKnown, LaunchTraced, ConsoleDies
  <2> QED
    BY <1>2, <2>3, <2>4, <2>5, <2>6, <2>7, <2>8
<1>3. CASE Invoke
  <2>1. PICK at \in {"turn", "aborted"} : task' = [task EXCEPT !.at = at]
    BY <1>3 DEF Invoke
  <2>2. /\ launch.call = "dispatched" /\ launch' = [launch EXCEPT !.call = "waiting"]
        /\ UNCHANGED <<review, quorate, everQuorate, polledDraft>>
    BY <1>3 DEF Invoke, reviewVars
  <2> QED
    BY <2>1, <2>2 DEF LaunchTypeOK, CallKnown, QuorumKnown, OutcomeEarned, LaunchTraced
<1>4. CASE Turn
  <2>1. PICK ids \in SUBSET Found, failed \in BOOLEAN, awaits \in BOOLEAN :
          /\ failed => ids = {}
          /\ task' = [at |-> "waiting", ids |-> ids, awaiting |-> IF awaits THEN ids ELSE {},
                      outcome |-> IF failed THEN "rejected"
                                  ELSE IF ids = {} THEN "accepted" ELSE "pending"]
    BY <1>4 DEF Turn
  <2>2. task.at = "turn" /\ UNCHANGED <<launch, review, quorate, everQuorate, polledDraft>>
    BY <1>4 DEF Turn, reviewVars
  <2>3. /\ task'.at = "waiting" /\ task'.ids = ids /\ task'.awaiting \subseteq ids
        /\ task'.outcome = "accepted" => ids = {}
        /\ task'.outcome \in {"pending", "accepted", "rejected"}
    BY <2>1
  <2> QED
    BY <2>1, <2>2, <2>3 DEF LaunchTypeOK, CallKnown, QuorumKnown, OutcomeEarned, LaunchTraced
<1>5. CASE AwaitGate
  <2>1. PICK p \in task.awaiting : PollApproved(p) \/ PollRejected(p) \/ WaitLapses(p) \/ PollRaises
    BY <1>5 DEF AwaitGate
  <2>2. task.at = "waiting" /\ UNCHANGED <<launch, review, quorate, everQuorate>>
    BY <1>5 DEF AwaitGate, reviewVars
  <2>3. p \in Found /\ p \in task.ids
    BY <2>1 DEF LaunchTypeOK, OutcomeEarned
  <2>4. LaunchTypeOK'
    BY <2>1, <2>2, <2>3 DEF LaunchTypeOK, PollApproved, PollRejected, WaitLapses, PollRaises, WaitEnds
  <2>5. CallKnown' /\ LaunchTraced' /\ QuorumKnown'
    BY <2>1, <2>2 DEF LaunchTypeOK, CallKnown, QuorumKnown, LaunchTraced, PollApproved, PollRejected,
                      WaitLapses, PollRaises, WaitEnds
  <2>6. CASE PollApproved(p)
    <3>1. p \in everQuorate \cup polledDraft'
      BY <2>3, <2>6 DEF PollApproved, GatesSatisfied, QuorumKnown
    <3>2. task'.ids = task.ids /\ task'.awaiting \subseteq task.ids /\ task'.at = "waiting"
      BY <2>2, <2>6 DEF PollApproved, WaitEnds, LaunchTypeOK, OutcomeEarned
    <3> QED
      BY <2>2, <2>3, <2>4, <2>5, <3>1, <3>2 DEF OutcomeEarned
  <2>7. CASE PollRejected(p) \/ WaitLapses(p) \/ PollRaises
    <3>1. /\ task'.ids = task.ids /\ task'.awaiting \subseteq task.ids
          /\ task'.at \in {"waiting", "aborted"} /\ polledDraft' = polledDraft
          /\ task'.outcome = task.outcome \/ task'.outcome = "rejected"
      <4>1. CASE PollRejected(p)
        BY <2>2, <4>1 DEF PollRejected, WaitEnds, LaunchTypeOK, OutcomeEarned
      <4>2. CASE WaitLapses(p)
        BY <2>2, <4>2 DEF WaitLapses, WaitEnds, LaunchTypeOK, OutcomeEarned
      <4>3. CASE PollRaises
        BY <2>2, <4>3 DEF PollRaises, LaunchTypeOK, OutcomeEarned
      <4> QED
        BY <2>7, <4>1, <4>2, <4>3
    <3> QED
      BY <2>2, <2>4, <2>5, <3>1 DEF OutcomeEarned
  <2> QED
    BY <2>1, <2>6, <2>7
<1>6. CASE EndTask
  <2>1. /\ task.at = "waiting" /\ task' = [task EXCEPT !.at = "done"]
        /\ UNCHANGED <<launch, review, quorate, everQuorate, polledDraft>>
    BY <1>6 DEF EndTask, reviewVars
  <2> QED
    BY <2>1 DEF LaunchTypeOK, CallKnown, QuorumKnown, OutcomeEarned, LaunchTraced
<1>7. CASE ReviewMoves
  <2>0. PICK p \in Found : \E to \in Moves(review[p]) :
          /\ review' = [review EXCEPT ![p] = to]
          /\ quorate' = IF to \in {"review", "returned", "rejected"} THEN quorate \ {p} ELSE quorate
    BY <1>7, Zenon DEF ReviewMoves
  <2>1. PICK to \in Moves(review[p]) :
          /\ review' = [review EXCEPT ![p] = to]
          /\ quorate' = IF to \in {"review", "returned", "rejected"} THEN quorate \ {p} ELSE quorate
    BY <2>0, Zenon
  <2>2. UNCHANGED <<launch, task, everQuorate, polledDraft>>
    BY <1>7 DEF ReviewMoves
  <2>3. to \in ReviewStates /\ (to = "merged" => review[p] = "approved") /\ to # "approved"
    BY <2>1 DEF Moves, ReviewStates, LaunchTypeOK
  <2>4. \A q \in Found : review'[q] = IF q = p THEN to ELSE review[q]
    BY <2>1 DEF LaunchTypeOK
  <2> QED
    BY <2>1, <2>2, <2>3, <2>4 DEF LaunchTypeOK, CallKnown, QuorumKnown, OutcomeEarned, LaunchTraced
<1>8. CASE Approve
  <2>1. PICK p \in Found : /\ review' = [review EXCEPT ![p] = "approved"]
                           /\ quorate' = quorate \cup {p} /\ everQuorate' = everQuorate \cup {p}
    BY <1>8 DEF Approve
  <2>2. UNCHANGED <<launch, task, polledDraft>>
    BY <1>8 DEF Approve
  <2>3. \A q \in Found : review'[q] = IF q = p THEN "approved" ELSE review[q]
    BY <2>1 DEF LaunchTypeOK
  <2> QED
    BY <2>1, <2>2, <2>3 DEF LaunchTypeOK, ReviewStates, CallKnown, QuorumKnown, OutcomeEarned,
                            LaunchTraced
<1>9. CASE RosterChanges
  BY <1>9 DEF RosterChanges, LaunchTypeOK, CallKnown, QuorumKnown, OutcomeEarned, LaunchTraced
<1> QED
  BY <1>1, <1>2, <1>3, <1>4, <1>5, <1>6, <1>7, <1>8, <1>9
  DEF LaunchNext, FileLaunch, RefuseLaunch, Dispatch, Succeed, Fail, ConsoleDies

LEMMA LaunchInvariant == LaunchSpec => []LaunchInv
<1>1. LaunchInit => LaunchInv
  BY DEF LaunchInit, LaunchInv, LaunchTypeOK, ReviewStates, CallKnown, QuorumKnown, OutcomeEarned,
         LaunchTraced
<1>2. LaunchInv /\ [LaunchNext]_launchVars => LaunchInv'
  BY LaunchInductive
<1> QED
  BY <1>1, <1>2, PTL DEF LaunchSpec

\* Every variable of a launch, its task and the reviews keeps its type.
THEOREM LaunchTypeCorrect == LaunchSpec => []LaunchTypeOK
<1>1. LaunchInv => LaunchTypeOK
  BY DEF LaunchInv
<1> QED
  BY <1>1, LaunchInvariant, PTL

\* Whatever its turn found and however the reviews move, a task reports accepted only with a
\* quorum behind it, an empty turn or a draft (_compute_outcome, _poll_loop).
THEOREM VerdictAlwaysEarned == LaunchSpec => []TaskVerdict
<1>1. LaunchInv => TaskVerdict
  BY DEF LaunchInv, OutcomeEarned, TaskVerdict
<1> QED
  BY <1>1, LaunchInvariant, PTL

\* However the console dies, an agent that was invoked is named in its row
\* (_mark_dispatched, _mark_finished).
THEOREM LaunchAlwaysTraced == LaunchSpec => []LaunchTraced
<1>1. LaunchInv => LaunchTraced
  BY DEF LaunchInv
<1> QED
  BY <1>1, LaunchInvariant, PTL

-----------------------------------------------------------------------------
(* Embeddings.                                                             *)

\* Who has claimed an item and not tried it yet.
Claimants(s) == {w \in Embedders : s \in embedder[w].batch}

\* A worker holds an item of its batch; one it loaded as open is open and no merge is
\* closing it, or a merge has met the worker.
HoldsItem == \A w \in Embedders : embedder[w].item # NoSubject =>
  /\ embedder[w].item \in embedder[w].batch
  /\ embedder[w].seen =>
       \/ version[embedder[w].item] = "open" /\ closing[embedder[w].item] = "no"
       \/ embedder[w].item \in racedClose

\* What a merge under way has closed is still open to the others; if its trigger corrected
\* nothing, only a worker it met has written a current embedding since.
Closings == \A s \in Subjects : closing[s] # "no" =>
  /\ version[s] = "open"
  /\ closing[s] = "uncorrected" /\ embedding[s] = "current" => s \in racedClose

\* Every claimant of an item may still add one attempt to it.
AttemptsLeft == \A s \in Subjects :
  tries[s] + Cardinality(Claimants(s)) < MaxEmbedTries + Cardinality(Embedders)

EmbInv == EmbTypeOK /\ HoldsItem /\ Closings /\ CurrencyHonest /\ AttemptsLeft

LEMMA ClaimantsCount ==
  \A S \in SUBSET Embedders :
    /\ IsFiniteSet(S) /\ Cardinality(S) \in Nat
    /\ Cardinality(Embedders) \in Nat /\ Cardinality(S) <= Cardinality(Embedders)
BY EmbOK, FS_Subset, FS_CardinalityType

\* A worker's batch shrinks, and nobody else's grows: the claimants are fewer, and one fewer
\* of an item the worker gives up.
LEMMA FewerClaimants ==
  ASSUME EmbTypeOK, EmbTypeOK', NEW w \in Embedders, NEW s \in Subjects,
         \A v \in Embedders : v # w => embedder'[v].batch = embedder[v].batch,
         embedder'[w].batch \subseteq embedder[w].batch
  PROVE  /\ Cardinality(Claimants(s)') <= Cardinality(Claimants(s))
         /\ s \in embedder[w].batch /\ s \notin embedder'[w].batch =>
              Cardinality(Claimants(s)') = Cardinality(Claimants(s)) - 1
<1>1. IsFiniteSet(Claimants(s)) /\ Claimants(s)' \subseteq Claimants(s)
  BY ClaimantsCount DEF Claimants
<1>2. s \in embedder[w].batch /\ s \notin embedder'[w].batch =>
        Claimants(s)' = Claimants(s) \ {w} /\ w \in Claimants(s)
  BY DEF Claimants
<1> QED
  BY <1>1, <1>2, FS_Subset, FS_RemoveElement

\* What a worker's row becomes.
LEMMA RowMoves ==
  ASSUME EmbTypeOK, NEW w \in Embedders, NEW r, embedder' = [embedder EXCEPT ![w] = r]
  PROVE  \A v \in Embedders : embedder'[v] = IF v = w THEN r ELSE embedder[v]
BY DEF EmbTypeOK

\* A worker gives up an item of its batch, with one attempt more or none.
LEMMA DropStep ==
  ASSUME EmbInv, NEW w \in Embedders, NEW s \in embedder[w].batch, Drops(w, s),
         UNCHANGED <<version, closing, racedClose, embedCrashes>>,
         completed' \subseteq Subjects,
         \/ UNCHANGED tries
         \/ tries' = [tries EXCEPT ![s] = @ + 1],
         embedding' \in [Subjects -> {"none", "current", "past"}], Closings', CurrencyHonest'
  PROVE  EmbInv'
<1> DEFINE r == [batch |-> embedder[w].batch \ {s}, item |-> NoSubject, seen |-> FALSE]
<1>1. s \in Subjects /\ EmbTypeOK
  BY DEF EmbInv, EmbTypeOK
<1>2. r \in [batch : SUBSET Subjects, item : Subjects \cup {NoSubject}, seen : BOOLEAN]
  BY <1>1 DEF EmbTypeOK
<1>3. embedder' = [embedder EXCEPT ![w] = r]
  BY DEF Drops
<1>4. tries' \in [Subjects -> Nat]
  BY <1>1 DEF EmbTypeOK
<1>5. EmbTypeOK'
  BY <1>1, <1>2, <1>3, <1>4 DEF EmbTypeOK
<1>6. \A v \in Embedders : embedder'[v] = IF v = w THEN r ELSE embedder[v]
  BY <1>1, <1>3, RowMoves
<1>7. HoldsItem'
  BY <1>6 DEF EmbInv, HoldsItem
<1>8. AttemptsLeft'
  <2> SUFFICES ASSUME NEW t \in Subjects
               PROVE  tries'[t] + Cardinality(Claimants(t)') < MaxEmbedTries + Cardinality(Embedders)
    BY DEF AttemptsLeft
  <2>1. tries[t] + Cardinality(Claimants(t)) < MaxEmbedTries + Cardinality(Embedders)
    BY DEF EmbInv, AttemptsLeft
  <2>2. /\ Cardinality(Claimants(t)') \in Nat /\ Cardinality(Claimants(t)) \in Nat
        /\ Cardinality(Embedders) \in Nat /\ tries[t] \in Nat /\ MaxEmbedTries \in Nat
    <3>1. Claimants(t) \in SUBSET Embedders /\ Claimants(t)' \in SUBSET Embedders
      BY DEF Claimants
    <3> QED
      BY <1>1, <3>1, ClaimantsCount, EmbOK DEF EmbTypeOK
  <2>3. Cardinality(Claimants(t)') <= Cardinality(Claimants(t))
    BY <1>1, <1>5, <1>6, FewerClaimants
  <2>4. CASE t = s
    <3>1. Cardinality(Claimants(t)') = Cardinality(Claimants(t)) - 1
      BY <1>1, <1>5, <1>6, <2>4, FewerClaimants
    <3>2. tries'[t] = tries[t] \/ tries'[t] = tries[t] + 1
      BY <1>1, <2>4 DEF EmbTypeOK
    <3> QED
      BY <2>1, <2>2, <3>1, <3>2
  <2>5. CASE t # s
    <3>1. tries'[t] = tries[t]
      BY <1>1, <2>5 DEF EmbTypeOK
    <3> QED
      BY <2>1, <2>2, <2>3, <3>1
  <2> QED
    BY <2>4, <2>5
<1> QED
  BY <1>5, <1>7, <1>8 DEF EmbInv

LEMMA EmbInductive ==
  ASSUME EmbInv, [EmbNext]_embVars
  PROVE  EmbInv'
<1>1. EmbTypeOK
  BY DEF EmbInv
<1>2. CASE UNCHANGED embVars
  BY <1>2 DEF EmbInv, EmbTypeOK, HoldsItem, Closings, CurrencyHonest, AttemptsLeft, Claimants,
                embVars
<1>3. ASSUME NEW s \in Subjects, Enqueue(s) PROVE EmbInv'
  <2>1. /\ UNCHANGED <<closing, tries, completed, embedding, embedder, racedClose, embedCrashes>>
        /\ \A t \in Subjects : version'[t] = IF t = s THEN "open" ELSE version[t]
    BY <1>1, <1>3 DEF Enqueue, EmbTypeOK
  <2>2. EmbTypeOK'
    BY <1>1, <1>3 DEF Enqueue, EmbTypeOK
  <2>3. HoldsItem'
    BY <1>1, <2>1 DEF EmbInv, HoldsItem, EmbTypeOK
  <2>4. Closings' /\ CurrencyHonest' /\ AttemptsLeft'
    BY <2>1 DEF EmbInv, Closings, CurrencyHonest, AttemptsLeft, Claimants
  <2> QED
    BY <2>2, <2>3, <2>4 DEF EmbInv
<1>4a. ASSUME NEW s \in Subjects, CloseBegin(s) PROVE EmbInv'
  <2>1. UNCHANGED <<version, tries, completed, embedding, embedder, embedCrashes>>
    BY <1>4a DEF CloseBegin
  <2>2. /\ version[s] = "open"
        /\ closing' \in [Subjects -> {"no", "uncorrected", "corrected"}]
        /\ \A t \in Subjects : t # s => closing'[t] = closing[t]
        /\ closing'[s] = "uncorrected" => embedding[s] # "current"
    BY <1>1, <1>4a DEF CloseBegin, EmbTypeOK
  <2>3. /\ racedClose \subseteq racedClose' /\ racedClose' \subseteq Subjects
        /\ s \in racedClose' \/ \A w \in Embedders : embedder[w].item # s
    BY <1>1, <1>4a DEF CloseBegin, Held, EmbTypeOK
  <2>4. EmbTypeOK'
    BY <1>1, <2>1, <2>2, <2>3 DEF EmbTypeOK
  <2>5. HoldsItem'
    BY <1>1, <2>1, <2>2, <2>3 DEF EmbInv, HoldsItem, EmbTypeOK
  <2>6. Closings' /\ CurrencyHonest'
    BY <2>1, <2>2, <2>3 DEF EmbInv, Closings, CurrencyHonest
  <2>7. AttemptsLeft'
    BY <2>1 DEF EmbInv, AttemptsLeft, Claimants
  <2> QED
    BY <2>4, <2>5, <2>6, <2>7 DEF EmbInv
<1>4b. ASSUME NEW s \in Subjects, CloseCommit(s) PROVE EmbInv'
  <2>1. PICK end \in {"superseded", "retired"} : version' = [version EXCEPT ![s] = end]
    BY <1>4b DEF CloseCommit
  <2>2. UNCHANGED <<tries, completed, embedder, racedClose, embedCrashes>>
    BY <1>4b DEF CloseCommit
  <2>3. \A t \in Subjects :
          /\ version'[t] = IF t = s THEN end ELSE version[t]
          /\ closing'[t] = IF t = s THEN "no" ELSE closing[t]
          /\ t # s => embedding'[t] = embedding[t]
    BY <1>1, <1>4b, <2>1 DEF CloseCommit, EmbTypeOK
  <2>4. embedding'[s] = "current" => embedding[s] = "current" /\ closing[s] = "uncorrected"
    BY <1>1, <1>4b DEF CloseCommit, EmbTypeOK
  <2>5. EmbTypeOK'
    <3>1. /\ embedding' \in [Subjects -> {"none", "current", "past"}]
          /\ closing' \in [Subjects -> {"no", "uncorrected", "corrected"}]
      BY <1>1, <1>4b DEF CloseCommit, EmbTypeOK
    <3> QED
      BY <1>1, <2>1, <2>2, <3>1 DEF EmbTypeOK
  <2>6. closing[s] # "no"
    BY <1>4b DEF CloseCommit
  <2>7. HoldsItem'
    BY <1>1, <2>2, <2>3, <2>6 DEF EmbInv, HoldsItem, EmbTypeOK
  <2>8. Closings' /\ CurrencyHonest'
    BY <2>2, <2>3, <2>4 DEF EmbInv, Closings, CurrencyHonest
  <2>9. AttemptsLeft'
    BY <2>2 DEF EmbInv, AttemptsLeft, Claimants
  <2> QED
    BY <2>5, <2>7, <2>8, <2>9 DEF EmbInv
<1>4c. ASSUME NEW s \in Subjects, CloseAbort(s) PROVE EmbInv'
  <2>1. UNCHANGED <<version, tries, completed, embedding, embedder, embedCrashes>>
    BY <1>4c DEF CloseAbort
  <2>2. /\ version[s] = "open"
        /\ \A t \in Subjects : closing'[t] = IF t = s THEN "no" ELSE closing[t]
        /\ racedClose' = racedClose \ {s}
    BY <1>1, <1>4c DEF CloseAbort, EmbInv, Closings, EmbTypeOK
  <2>3. EmbTypeOK'
    <3>1. closing' \in [Subjects -> {"no", "uncorrected", "corrected"}]
      BY <1>1, <1>4c DEF CloseAbort, EmbTypeOK
    <3> QED
      BY <1>1, <2>1, <2>2, <3>1 DEF EmbTypeOK
  <2>4. HoldsItem'
    BY <1>1, <2>1, <2>2 DEF EmbInv, HoldsItem, EmbTypeOK
  <2>5. Closings' /\ CurrencyHonest'
    BY <2>1, <2>2 DEF EmbInv, Closings, CurrencyHonest
  <2>6. AttemptsLeft'
    BY <2>1 DEF EmbInv, AttemptsLeft, Claimants
  <2> QED
    BY <2>3, <2>4, <2>5, <2>6 DEF EmbInv
<1>5. ASSUME NEW w \in Embedders, Claim(w) PROVE EmbInv'
  <2>1. PICK B \in SUBSET Pending : embedder' = [embedder EXCEPT ![w].batch = B]
    BY <1>5 DEF Claim
  <2>2. /\ UNCHANGED <<version, closing, tries, completed, embedding, racedClose, embedCrashes>>
        /\ embedder[w] = Resting
    BY <1>5 DEF Claim
  <2>3. \A v \in Embedders :
          /\ embedder'[v].batch = IF v = w THEN B ELSE embedder[v].batch
          /\ embedder'[v].item = embedder[v].item /\ embedder'[v].seen = embedder[v].seen
    BY <1>1, <2>1 DEF EmbTypeOK
  <2>4. EmbTypeOK'
    BY <1>1, <2>1, <2>2 DEF EmbTypeOK, Pending
  <2>5. HoldsItem'
    BY <2>2, <2>3 DEF EmbInv, HoldsItem, Resting
  <2>6. Closings' /\ CurrencyHonest'
    BY <2>2 DEF EmbInv, Closings, CurrencyHonest
  <2>7. AttemptsLeft'
    <3> SUFFICES ASSUME NEW s \in Subjects
                 PROVE  tries'[s] + Cardinality(Claimants(s)') < MaxEmbedTries + Cardinality(Embedders)
      BY DEF AttemptsLeft
    <3>1. /\ Cardinality(Claimants(s)') \in Nat /\ Cardinality(Embedders) \in Nat
          /\ Cardinality(Claimants(s)') <= Cardinality(Embedders)
          /\ tries[s] \in Nat /\ MaxEmbedTries \in Nat
      <4>1. Claimants(s)' \in SUBSET Embedders
        BY DEF Claimants
      <4> QED
        BY <1>1, <4>1, ClaimantsCount, EmbOK DEF EmbTypeOK
    <3>2. CASE s \in B
      BY <2>2, <3>1, <3>2 DEF Pending
    <3>3. CASE s \notin B
      <4>1. Claimants(s)' = Claimants(s)
        BY <2>2, <2>3, <3>3 DEF Claimants, Resting
      <4> QED
        BY <2>2, <4>1 DEF EmbInv, AttemptsLeft
    <3> QED
      BY <3>2, <3>3
  <2> QED
    BY <2>4, <2>5, <2>6, <2>7 DEF EmbInv
<1>6. ASSUME NEW w \in Embedders, Load(w) PROVE EmbInv'
  <2>1. PICK s \in embedder[w].batch :
          \/ /\ embedder' = [embedder EXCEPT ![w] =
                  [batch |-> embedder[w].batch, item |-> s, seen |-> version[s] = "open"]]
             /\ racedClose' = IF closing[s] # "no" THEN racedClose \cup {s} ELSE racedClose
             /\ UNCHANGED tries
          \/ Fails(w, s) /\ UNCHANGED racedClose
    BY <1>6 DEF Load
  <2>2. UNCHANGED <<version, closing, completed, embedding, embedCrashes>>
    BY <1>6 DEF Load
  <2>3. racedClose \subseteq racedClose'
    BY <2>1
  <2>3a. Closings' /\ CurrencyHonest'
    BY <2>2, <2>3 DEF EmbInv, Closings, CurrencyHonest
  <2>4. CASE Fails(w, s) /\ UNCHANGED racedClose
    BY <1>1, <2>2, <2>3a, <2>4, DropStep DEF Fails, EmbTypeOK
  <2>5. CASE /\ embedder' = [embedder EXCEPT ![w] =
                  [batch |-> embedder[w].batch, item |-> s, seen |-> version[s] = "open"]]
             /\ racedClose' = IF closing[s] # "no" THEN racedClose \cup {s} ELSE racedClose
             /\ UNCHANGED tries
    <3>1. \A v \in Embedders : embedder'[v] =
            IF v = w THEN [batch |-> embedder[w].batch, item |-> s, seen |-> version[s] = "open"]
            ELSE embedder[v]
      BY <1>1, <2>5, RowMoves
    <3>2. s \in Subjects /\ s # NoSubject
      BY <1>1, EmbOK DEF EmbTypeOK
    <3>3. EmbTypeOK'
      BY <1>1, <2>2, <2>5, <3>2 DEF EmbTypeOK
    <3>4. HoldsItem'
      <4>1. /\ embedder'[w].item = s /\ embedder'[w].batch = embedder[w].batch
            /\ embedder'[w].seen => version[s] = "open"
            /\ closing[s] = "no" \/ s \in racedClose'
        <5>1. embedder'[w] =
                [batch |-> embedder[w].batch, item |-> s, seen |-> version[s] = "open"]
          BY <3>1
        <5>2. embedder'[w].item = s /\ embedder'[w].batch = embedder[w].batch
          BY <5>1
        <5>2a. closing[s] = "no" \/ s \in racedClose'
          BY <2>5
        <5>3. CASE version[s] = "open"
          BY <5>2, <5>2a, <5>3
        <5>4. CASE version[s] # "open"
          <6>1. embedder'[w] = [batch |-> embedder[w].batch, item |-> s, seen |-> FALSE]
            BY <5>1, <5>4, Zenon
          <6> QED
            BY <5>2, <5>2a, <6>1
        <5> QED
          BY <5>2, <5>3, <5>4
      <4> QED
        BY <2>2, <2>3, <3>1, <4>1 DEF EmbInv, HoldsItem
    <3>5. \A t : Claimants(t)' = Claimants(t)
      BY <3>1 DEF Claimants
    <3>6. AttemptsLeft'
      BY <2>5, <3>5 DEF EmbInv, AttemptsLeft
    <3> QED
      BY <2>3a, <3>3, <3>4, <3>6 DEF EmbInv
  <2> QED
    BY <2>1, <2>4, <2>5
<1>7. ASSUME NEW w \in Embedders, EmbedFails(w) PROVE EmbInv'
  <2>1. embedder[w].item \in embedder[w].batch
    BY <1>7 DEF EmbedFails, EmbInv, HoldsItem
  <2>2. Closings' /\ CurrencyHonest'
    BY <1>7 DEF EmbedFails, EmbInv, Closings, CurrencyHonest
  <2> QED
    BY <1>1, <1>7, <2>1, <2>2, DropStep DEF EmbedFails, Fails, EmbTypeOK
<1>8. ASSUME NEW w \in Embedders, Upsert(w) PROVE EmbInv'
  <2> DEFINE s == embedder[w].item
  <2>1. s \in embedder[w].batch /\ s \in Subjects
    BY <1>1, <1>8 DEF Upsert, EmbInv, HoldsItem, EmbTypeOK
  <2>2. \A t \in Subjects : embedding'[t] =
          IF t = s THEN (IF embedder[w].seen THEN "current" ELSE "past") ELSE embedding[t]
    BY <1>1, <1>8, <2>1 DEF Upsert, EmbTypeOK
  <2>3. embedding' \in [Subjects -> {"none", "current", "past"}]
    BY <1>1, <1>8 DEF Upsert, EmbTypeOK
  <2>4. Closings' /\ CurrencyHonest'
    BY <1>8, <2>1, <2>2 DEF Upsert, EmbInv, Closings, CurrencyHonest, HoldsItem
  <2> QED
    BY <1>1, <1>8, <2>1, <2>3, <2>4, DropStep DEF Upsert, EmbTypeOK
<1>9. ASSUME NEW w \in Embedders, CrashEmbedder(w) PROVE EmbInv'
  <2>1. \A v \in Embedders : embedder'[v] = IF v = w THEN Resting ELSE embedder[v]
    BY <1>1, <1>9, RowMoves DEF CrashEmbedder
  <2>2. UNCHANGED <<version, closing, tries, completed, embedding, racedClose>>
    BY <1>9 DEF CrashEmbedder
  <2>3. EmbTypeOK'
    <3>1. Resting \in [batch : SUBSET Subjects, item : Subjects \cup {NoSubject}, seen : BOOLEAN]
      BY DEF Resting
    <3> QED
      BY <1>1, <1>9, <3>1 DEF CrashEmbedder, EmbTypeOK
  <2>4. HoldsItem'
    BY <2>1, <2>2 DEF EmbInv, HoldsItem, Resting
  <2>5. Closings' /\ CurrencyHonest'
    BY <2>2 DEF EmbInv, Closings, CurrencyHonest
  <2>6. AttemptsLeft'
    <3> SUFFICES ASSUME NEW s \in Subjects
                 PROVE  tries'[s] + Cardinality(Claimants(s)') < MaxEmbedTries + Cardinality(Embedders)
      BY DEF AttemptsLeft
    <3>1. Cardinality(Claimants(s)') <= Cardinality(Claimants(s))
      BY <1>1, <2>1, <2>3, FewerClaimants DEF Resting
    <3>2. /\ Cardinality(Claimants(s)') \in Nat /\ Cardinality(Claimants(s)) \in Nat
          /\ Cardinality(Embedders) \in Nat /\ tries[s] \in Nat /\ MaxEmbedTries \in Nat
      <4>1. Claimants(s) \in SUBSET Embedders /\ Claimants(s)' \in SUBSET Embedders
        BY DEF Claimants
      <4> QED
        BY <1>1, <4>1, ClaimantsCount, EmbOK DEF EmbTypeOK
    <3> QED
      BY <2>2, <3>1, <3>2 DEF EmbInv, AttemptsLeft
  <2> QED
    BY <2>3, <2>4, <2>5, <2>6 DEF EmbInv
<1> QED
  BY <1>2, <1>3, <1>4a, <1>4b, <1>4c, <1>5, <1>6, <1>7, <1>8, <1>9 DEF EmbNext, Embeds

LEMMA EmbStarts == EmbInit => EmbInv
<1> SUFFICES ASSUME EmbInit PROVE EmbInv
  OBVIOUS
<1>1. EmbTypeOK
  BY DEF EmbInit, EmbTypeOK, Resting
<1>2. HoldsItem /\ Closings /\ CurrencyHonest
  BY DEF EmbInit, HoldsItem, Closings, CurrencyHonest, Resting
<1>3. \A s \in Subjects : Claimants(s) = {} /\ tries[s] = 0
  BY DEF EmbInit, Claimants, Resting
<1>4. AttemptsLeft
  <2>1. Cardinality(Embedders) \in Nat /\ MaxEmbedTries \in Nat \ {0} /\ Cardinality({}) = 0
    BY EmbOK, FS_CardinalityType, FS_EmptySet
  <2> QED
    BY <1>3, <2>1 DEF AttemptsLeft
<1> QED
  BY <1>1, <1>2, <1>4 DEF EmbInv

LEMMA EmbInvariant == EmbSpec => []EmbInv
<1>1. EmbInit => EmbInv
  BY EmbStarts
<1>2. EmbInv /\ [EmbNext]_embVars => EmbInv'
  BY EmbInductive
<1> QED
  BY <1>1, <1>2, PTL DEF EmbSpec

\* Every variable of the backlog keeps the type of its column.
THEOREM EmbTypeCorrect == EmbSpec => []EmbTypeOK
<1>1. EmbInv => EmbTypeOK
  BY DEF EmbInv
<1> QED
  BY <1>1, EmbInvariant, PTL

\* Of any number of workers, none offers a closed version as current unless it met the merge
\* that closed it, from the closing UPDATE to the commit (kg.sync_embedding_currency, _upsert_node_embedding).
THEOREM CurrencyAlwaysHonest == EmbSpec => []CurrencyHonest
<1>1. EmbInv => CurrencyHonest
  BY DEF EmbInv
<1> QED
  BY <1>1, EmbInvariant, PTL

\* Of any number of workers and any budget, the attempts overshoot it by less than the number
\* of workers (_claim_batch, _mark_failed).
THEOREM TriesAlwaysBounded == EmbSpec => []TriesBounded
<1>1. EmbInv => TriesBounded
  <2> SUFFICES ASSUME EmbInv, NEW s \in Subjects
               PROVE  tries[s] < MaxEmbedTries + Cardinality(Embedders)
    BY DEF TriesBounded
  <2>1. /\ Cardinality(Claimants(s)) \in Nat /\ Cardinality(Embedders) \in Nat
        /\ tries[s] \in Nat /\ MaxEmbedTries \in Nat
    <3>1. Claimants(s) \in SUBSET Embedders
      BY DEF Claimants
    <3> QED
      BY <3>1, ClaimantsCount, EmbOK DEF EmbInv, EmbTypeOK
  <2> QED
    BY <2>1 DEF EmbInv, AttemptsLeft
<1> QED
  BY <1>1, EmbInvariant, PTL
-----------------------------------------------------------------------------
(* Drift signals.                                                          *)

\* Signals are numbered as they come.
SignalsNumbered == \E n \in 0..MaxSignals : DOMAIN signals = 1..n

DriftInv == DriftTypeOK /\ SignalsNumbered

\* Recording a drift updates the live signal, or adds the next one.
LEMMA DriftRecorded ==
  ASSUME DriftInv, NEW k \in Controls, RoomFor(k), Detected(k)
  PROVE  /\ DOMAIN signals \subseteq DOMAIN signals' /\ SignalsNumbered'
         /\ DOMAIN signals' \subseteq 1..MaxSignals
         /\ \A x \in DOMAIN signals' : signals'[x] \in SignalRows
<1>1. bypass[k] \in Severities /\ signals' = RecordDrift(k)
  BY DEF DriftInv, DriftTypeOK, Detected
<1>2. PICK n \in 0..MaxSignals : DOMAIN signals = 1..n
  BY DEF DriftInv, SignalsNumbered
<1>3. n \in Nat /\ MaxSignals \in Nat /\ Cardinality(DOMAIN signals) = n
  BY <1>2, DriftOK, FS_Interval
<1>4. CASE LiveSignals(k) = {}
  <2> DEFINE row == [control |-> k, severity |-> bypass[k], state |-> "open", resolvedAt |-> FALSE]
  <2>1. signals' = [x \in DOMAIN signals \cup {n + 1} |->
                      IF x \in DOMAIN signals THEN signals[x] ELSE row]
    BY <1>1, <1>3, <1>4 DEF RecordDrift
  <2>2. n + 1 \in 0..MaxSignals
    BY <1>3, <1>4 DEF RoomFor
  <2>3. DOMAIN signals' = 1..(n + 1)
    BY <1>2, <1>3, <2>1
  <2>4. row \in SignalRows
    BY <1>1 DEF SignalRows, DriftStates, LiveStates
  <2> HIDE DEF row
  <2>5. \A x \in DOMAIN signals' : signals'[x] \in SignalRows
    BY <2>1, <2>4 DEF DriftInv, DriftTypeOK
  <2> QED
    BY <1>2, <1>3, <2>2, <2>3, <2>5 DEF SignalsNumbered
<1>5. CASE LiveSignals(k) # {}
  <2>1. signals' = [x \in DOMAIN signals |->
          IF x \in LiveSignals(k)
          THEN [signals[x] EXCEPT !.severity = Greatest(@, bypass[k])] ELSE signals[x]]
    BY <1>1, <1>5 DEF RecordDrift
  <2>2. DOMAIN signals' = DOMAIN signals
    BY <2>1
  <2>3. ASSUME NEW x \in DOMAIN signals' PROVE signals'[x] \in SignalRows
    <3>1. signals[x] \in SignalRows
      BY <2>2 DEF DriftInv, DriftTypeOK
    <3>2. Greatest(signals[x].severity, bypass[k]) \in Severities
      BY DEF Greatest, Severities
    <3>3. [signals[x] EXCEPT !.severity = Greatest(signals[x].severity, bypass[k])] \in SignalRows
      BY <3>1, <3>2 DEF SignalRows
    <3> QED
      BY <2>1, <2>2, <3>1, <3>3
  <2> QED
    BY <1>2, <2>2, <2>3 DEF DriftInv, DriftTypeOK, SignalsNumbered
<1> QED
  BY <1>4, <1>5

LEMMA DriftInductive == DriftInv /\ [DriftNext]_driftVars => DriftInv'
<1> SUFFICES ASSUME DriftInv, [DriftNext]_driftVars PROVE DriftInv'
  OBVIOUS
<1> USE DEF DriftInv
<1>1. CASE Observe
  BY <1>1 DEF Observe, DriftTypeOK, SignalsNumbered
<1>2. CASE AgentScan
  <2>1. UNCHANGED <<bypass, scanning, paged>> /\ \E k \in Controls : RoomFor(k) /\ Detected(k)
    BY <1>2 DEF AgentScan
  <2> QED
    BY <2>1, DriftRecorded DEF DriftTypeOK
<1>3. ASSUME NEW resolve \in BOOLEAN, Triage(resolve) PROVE DriftInv'
  <2>1. PICK x \in DOMAIN signals, state \in DriftStates :
          /\ signals' = [signals EXCEPT ![x].state = state, ![x].resolvedAt = @ \/ resolve]
          /\ UNCHANGED <<bypass, scanning, paged>>
    BY <1>3 DEF Triage
  <2>2. DOMAIN signals' = DOMAIN signals
    BY <2>1
  <2>3. ASSUME NEW y \in DOMAIN signals' PROVE signals'[y] \in SignalRows
    <3>1. signals[y] \in SignalRows
      BY <2>2 DEF DriftTypeOK
    <3>2. CASE y # x
      BY <2>1, <2>2, <3>1, <3>2
    <3>3. CASE y = x
      <4>1. [signals[x] EXCEPT !.state = state] \in SignalRows
        BY <3>1, <3>3 DEF SignalRows
      <4>2. [[signals[x] EXCEPT !.state = state] EXCEPT !.resolvedAt =
               signals[x].resolvedAt \/ resolve] \in SignalRows
        BY <4>1 DEF SignalRows
      <4>3. signals'[x] = [[signals[x] EXCEPT !.state = state] EXCEPT !.resolvedAt =
                             signals[x].resolvedAt \/ resolve]
        BY <2>1, <3>1 DEF SignalRows
      <4> QED
        BY <3>3, <4>2, <4>3
    <3> QED
      BY <3>2, <3>3
  <2> QED
    BY <2>1, <2>2, <2>3 DEF DriftTypeOK, SignalsNumbered
<1>4. ASSUME NEW s \in Scanners, Scan(s) PROVE DriftInv'
  <2>1. PICK k \in Controls : /\ RoomFor(k) /\ Detected(k)
                              /\ scanning' = [scanning EXCEPT ![s] = ToPage(k)]
    BY <1>4 DEF Scan
  <2>2. ToPage(k) \subseteq DOMAIN signals'
    BY DEF ToPage
  <2>3. UNCHANGED <<bypass, paged>>
    BY <1>4 DEF Scan
  <2> HIDE DEF ToPage
  <2> QED
    BY <2>1, <2>2, <2>3, DriftRecorded DEF DriftTypeOK
<1>5. ASSUME NEW s \in Scanners, Publish(s) PROVE DriftInv'
  BY <1>5 DEF Publish, DriftTypeOK, SignalsNumbered
<1>6. ASSUME NEW s \in Scanners, PublishFails(s) PROVE DriftInv'
  BY <1>6 DEF PublishFails, DriftTypeOK, SignalsNumbered
<1>7. CASE UNCHANGED driftVars
  BY <1>7 DEF driftVars, DriftTypeOK, SignalsNumbered
<1> QED
  BY <1>1, <1>2, <1>3, <1>4, <1>5, <1>6, <1>7 DEF DriftNext

\* Every variable of the signals and the scans keeps its type, whatever scans, triage and
\* failed publications interleave.
THEOREM DriftTypeCorrect == DriftSpec => []DriftTypeOK
<1>1. DriftInit => DriftInv
  <2> SUFFICES ASSUME DriftInit PROVE DriftInv
    OBVIOUS
  <2>1. DOMAIN signals = {} /\ 0 \in 0..MaxSignals /\ 1..0 = {}
    BY DriftOK DEF DriftInit
  <2> QED
    BY <2>1 DEF DriftInit, DriftInv, DriftTypeOK, SignalsNumbered
<1>2. DriftInv => DriftTypeOK
  BY DEF DriftInv
<1> QED
  BY <1>1, <1>2, DriftInductive, PTL DEF DriftSpec

-----------------------------------------------------------------------------
(* Decisions, statement by statement.                                      *)

\* The calls that hold the proposal exclude each other and a resubmission.
Serial == \A c \in Deciding : decide[c].at \in Inside =>
  resubmit = "idle" /\ \A d \in Deciding : decide[d].at \in Inside => d = c

\* The bound on submissions leaves room for the one under way.
Room == resubmit # "idle" => submission < MaxSubmissions

Issued == \A i \in Ids : table[i] # NoRow => i < nextId

Later(i) == {j \in Ids : /\ j > i /\ table[j].gate = table[i].gate
                         /\ table[j].reviewer = table[i].reviewer}

Chained == \A i \in Ids : table[i] # NoRow =>
  \/ Later(i) = {} /\ table[i].by = 0
  \/ table[i].by \in Later(i) /\ \A j \in Later(i) : table[i].by <= j

Own(c) == LiveIn(table, decide[c].gate, decide[c].reviewer)
NewRow(c) == [gate |-> decide[c].gate, reviewer |-> decide[c].reviewer, by |-> 0]

\* What a call knows of the table is still so, and what it has written.
Work(c) ==
  /\ decide[c].at # "refused"
  /\ decide[c].at # "idle" => decide[c].gate \in Gates /\ decide[c].reviewer \in Deciders
  /\ decide[c].at \in {"asked", "gate", "locked", "read"} =>
       \A i \in Ids : decide[c].mine[i] = NoRow
  /\ decide[c].at \in {"asked", "gate", "locked"} => decide[c].prev = 0
  /\ decide[c].at = "read" => decide[c].prev \in Own(c)
  /\ decide[c].at \in {"clear", "inserted", "done"} =>
       (decide[c].prev = 0 /\ Own(c) = {}) \/ decide[c].prev \in Own(c)
  /\ decide[c].at = "clear" => \A i \in Ids :
       decide[c].mine[i] = IF i = decide[c].prev THEN [table[i] EXCEPT !.by = i] ELSE NoRow
  /\ decide[c].at \in {"inserted", "done"} =>
       /\ decide[c].id \in Ids /\ decide[c].id < nextId
       /\ \A i \in Ids : table[i] # NoRow => i < decide[c].id
       /\ decide[c].mine[decide[c].id] = NewRow(c)
       /\ \A i \in Ids : i # decide[c].id => decide[c].mine[i] =
            IF i = decide[c].prev
            THEN [table[i] EXCEPT !.by = IF decide[c].at = "done" THEN decide[c].id ELSE i]
            ELSE NoRow

DecInv ==
  /\ DecTypeOK /\ Serial /\ Room /\ Issued /\ Chained
  /\ \A c \in Deciding : Work(c)

\* A live row is a row, and the last of its reviewer on its gate.
LEMMA LiveIsLast ==
  ASSUME DecTypeOK, Chained, NEW g \in Gates, NEW r \in Deciders, NEW i \in LiveIn(table, g, r)
  PROVE  i \in Ids /\ table[i] # NoRow /\ Later(i) = {} /\ LiveIn(table, g, r) = {i}
<1>1. i \in Ids /\ table[i].gate = g /\ table[i].reviewer = r /\ table[i].by = 0
  BY DEF LiveIn
<1>2. table[i] # NoRow
  BY <1>1, DecisionsOK DEF NoRow
<1>3. 0 \notin Ids
  BY DecisionsOK DEF Ids
<1>4. Later(i) = {}
  BY <1>1, <1>2, <1>3 DEF Chained, Later
<1>5. ASSUME NEW j \in LiveIn(table, g, r) PROVE j = i
  <2>1. j \in Ids /\ table[j].gate = g /\ table[j].reviewer = r /\ table[j].by = 0
    BY DEF LiveIn
  <2>2. table[j] # NoRow
    BY <2>1, DecisionsOK DEF NoRow
  <2>3. Later(j) = {}
    BY <2>1, <2>2, <1>3 DEF Chained, Later
  <2>4. i \in Int /\ j \in Int
    BY <1>1, <2>1, DecisionsOK DEF Ids
  <2> QED
    BY <1>1, <1>4, <2>1, <2>3, <2>4 DEF Later
<1> QED
  BY <1>1, <1>2, <1>4, <1>5

\* A call that moves leaves the others where they are.
LEMMA OthersWork ==
  ASSUME DecInv, NEW c \in Deciding, UNCHANGED table, nextId' \in Nat, nextId' >= nextId,
         \A d \in Deciding : d # c => decide'[d] = decide[d]
  PROVE  \A d \in Deciding : d # c => Work(d)'
<1> SUFFICES ASSUME NEW d \in Deciding, d # c PROVE Work(d)'
  OBVIOUS
<1>1. decide'[d] = decide[d] /\ Work(d) /\ nextId \in Nat
  BY DecisionsOK DEF DecInv, DecTypeOK
<1>2. decide[d].at \in {"inserted", "done"} => decide[d].id < nextId'
  BY <1>1, DecisionsOK DEF Work, Ids
<1> QED
  BY <1>1, <1>2 DEF Work, Own, NewRow

\* A call becomes r while the table, the proposal and the submission stay.
LEMMA CallMoves ==
  ASSUME DecInv, NEW c \in Deciding, NEW r \in DecisionCalls,
         decide' = [decide EXCEPT ![c] = r], UNCHANGED <<table, reviewing, submission, resubmit>>,
         nextId' \in 1..MaxRows + 1, nextId' >= nextId,
         r.at \in Inside => decide[c].at \in Inside \/ ProposalFree,
         Work(c)'
  PROVE  DecInv'
<1>1. \A d \in Deciding : decide'[d] = IF d = c THEN r ELSE decide[d]
  BY DEF DecInv, DecTypeOK
<1>2. DecTypeOK'
  BY DEF DecInv, DecTypeOK
<1>3. Serial' /\ Room'
  BY <1>1 DEF DecInv, Serial, Room, ProposalFree
<1>4. Issued' /\ Chained'
  BY DecisionsOK DEF DecInv, DecTypeOK, Issued, Chained, Later, Ids
<1>5. \A d \in Deciding : Work(d)'
  <2>1. nextId' \in Nat
    BY DecisionsOK
  <2> QED
    BY <1>1, <2>1, OthersWork
<1> QED
  BY <1>2, <1>3, <1>4, <1>5 DEF DecInv

\* A call goes on to its next statement.
LEMMA GoesStep ==
  ASSUME DecInv, NEW c \in Deciding, NEW at \in AtGate, Goes(c, at), at # "refused",
         UNCHANGED <<table, nextId, reviewing, submission, resubmit>>,
         at \in Inside => decide[c].at \in Inside \/ ProposalFree,
         Work(c)'
  PROVE  DecInv'
<1> DEFINE r == [decide[c] EXCEPT !.at = at]
<1>1. decide[c] \in DecisionCalls
  BY DEF DecInv, DecTypeOK
<1>2. r \in DecisionCalls /\ r.at = at
  BY <1>1 DEF DecisionCalls
<1>3. decide' = [decide EXCEPT ![c] = r]
  BY DEF Goes
<1>4. nextId \in 1..MaxRows + 1 /\ nextId' >= nextId
  BY DecisionsOK DEF DecInv, DecTypeOK
<1> HIDE DEF r
<1> QED
  BY <1>2, <1>3, <1>4, CallMoves

\* The row of a call that goes on.
LEMMA GoesTo ==
  ASSUME DecTypeOK, NEW c \in Deciding, NEW at, Goes(c, at)
  PROVE  /\ decide'[c].at = at /\ decide'[c].gate = decide[c].gate
         /\ decide'[c].reviewer = decide[c].reviewer /\ decide'[c].prev = decide[c].prev
         /\ decide'[c].id = decide[c].id /\ decide'[c].mine = decide[c].mine
BY DEF Goes, DecTypeOK, DecisionCalls


\* A call writes row i, and nothing of the table, and goes on.
LEMMA CallWrites ==
  ASSUME DecInv, NEW c \in Deciding, decide[c].at \in Inside, NEW i \in Ids,
         NEW row \in RowRecords, NEW at \in Inside, NEW id \in 0..MaxRows,
         decide' = [decide EXCEPT ![c].at = at, ![c].id = id, ![c].mine[i] = row],
         UNCHANGED <<table, reviewing, submission, resubmit>>,
         nextId' \in 1..MaxRows + 1, nextId' >= nextId,
         Work(c)'
  PROVE  DecInv'
<1> DEFINE r == [decide[c] EXCEPT !.at = at, !.id = id, !.mine[i] = row]
<1>1. decide[c] \in DecisionCalls
  BY DEF DecInv, DecTypeOK
<1>2. r \in DecisionCalls
  BY <1>1 DEF DecisionCalls, AtGate
<1>3. decide' = [decide EXCEPT ![c] = r]
  BY <1>1 DEF DecisionCalls, DecInv, DecTypeOK
<1> HIDE DEF r
<1> QED
  BY <1>2, <1>3, CallMoves

\* A call over is as if it had never been.
LEMMA CallEnds ==
  ASSUME DecInv, NEW c \in Deciding, decide' = [decide EXCEPT ![c] = NoDecision],
         UNCHANGED <<table, nextId, reviewing, submission, resubmit>>
  PROVE  DecInv'
<1>1. NoDecision \in DecisionCalls /\ NoDecision.at = "idle"
  BY DecisionsOK DEF NoDecision, DecisionCalls, RowRecords
<1>2. decide'[c].at = "idle"
  BY <1>1 DEF DecInv, DecTypeOK
<1>3. Work(c)'
  BY <1>2 DEF Work
<1>4. nextId' \in 1..MaxRows + 1 /\ nextId' >= nextId /\ "idle" \notin Inside
  BY DecisionsOK DEF DecInv, DecTypeOK, Inside
<1> QED
  BY <1>1, <1>3, <1>4, CallMoves

\* The call that has superseded its own row meets no other of the reviewer's.
LEMMA IndexFree ==
  ASSUME DecInv, NEW c \in Deciding, decide[c].at = "clear"
  PROVE  LiveIn(View(c), decide[c].gate, decide[c].reviewer) = {}
<1> DEFINE g == decide[c].gate
           r == decide[c].reviewer
<1>1. g \in Gates /\ r \in Deciders /\ table \in [Ids -> RowRecords] /\ NoRow.gate \notin Gates
  BY DecisionsOK DEF DecInv, DecTypeOK, Work, NoRow
<1>2. Work(c) /\ Chained /\ DecTypeOK
  BY DEF DecInv
<1> SUFFICES ASSUME NEW i \in Ids, View(c)[i].gate = g, View(c)[i].reviewer = r, View(c)[i].by = 0
             PROVE  FALSE
  BY DEF LiveIn
<1>3. CASE i = decide[c].prev
  <2>1. i \in Own(c)
    BY <1>2, <1>3, DecisionsOK DEF Work, Ids
  <2>2. table[i] # NoRow /\ table[i].gate = g
    BY <1>1, <1>2, <2>1, LiveIsLast DEF Own, LiveIn
  <2>3. decide[c].mine[i] = [table[i] EXCEPT !.by = i]
    BY <1>2, <1>3 DEF Work
  <2>4. table[i] \in RowRecords
    BY <1>1
  <2>5. decide[c].mine[i].gate = g /\ decide[c].mine[i].by = i
    BY <2>2, <2>3, <2>4 DEF RowRecords, NoRow
  <2>6. View(c)[i].by = i
    BY <1>1, <2>5 DEF View
  <2> QED
    BY <2>6, DecisionsOK DEF Ids
<1>4. CASE i # decide[c].prev
  <2>1. View(c)[i] = table[i]
    BY <1>2, <1>4 DEF View, Work
  <2>2. i \in Own(c)
    BY <2>1 DEF Own, LiveIn
  <2>3. decide[c].prev \in Own(c)
    BY <1>2, <2>2 DEF Work
  <2> QED
    BY <1>1, <1>2, <1>4, <2>2, <2>3, LiveIsLast DEF Own
<1> QED
  BY <1>3, <1>4

\* What the table will hold: the call's new row, the row it supersedes, and the others.
LEMMA WhatCommits ==
  ASSUME DecInv, NEW c \in Deciding, decide[c].at = "done", NEW i \in Ids
  PROVE  /\ decide[c].id \in Ids /\ table[decide[c].id] = NoRow
         /\ i = decide[c].id => View(c)[i] = NewRow(c)
         /\ i # decide[c].id =>
              /\ i \in Own(c) => View(c)[i] = [table[i] EXCEPT !.by = decide[c].id]
              /\ i \notin Own(c) => View(c)[i] = table[i]
<1>1. Work(c) /\ Chained /\ DecTypeOK /\ decide[c].gate \in Gates /\ decide[c].reviewer \in Deciders
  BY DEF DecInv, Work
<1>2. decide[c].id \in Ids /\ table[decide[c].id] = NoRow
  <2>1. decide[c].id \in Ids /\ \A k \in Ids : table[k] # NoRow => k < decide[c].id
    BY <1>1 DEF Work
  <2> QED
    BY <2>1, DecisionsOK DEF Ids
<1>3. decide[c].gate # NoGate /\ NoRow.gate = NoGate
  BY <1>1, DecisionsOK DEF NoRow
<1>4. ASSUME i = decide[c].id PROVE View(c)[i] = NewRow(c)
  <2>1. decide[c].mine[i] = NewRow(c) /\ NewRow(c) # NoRow
    BY <1>1, <1>3, <1>4 DEF Work, NewRow
  <2> QED
    BY <2>1 DEF View
<1>5. ASSUME i # decide[c].id, i \in Own(c) PROVE View(c)[i] = [table[i] EXCEPT !.by = decide[c].id]
  <2>1. i = decide[c].prev
    <3>1. decide[c].prev \in Own(c)
      BY <1>1, <1>5 DEF Work
    <3> QED
      BY <1>1, <1>5, <3>1, LiveIsLast DEF Own
  <2>2. decide[c].mine[i] = [table[i] EXCEPT !.by = decide[c].id]
    BY <1>1, <1>5, <2>1 DEF Work
  <2>3. table[i] \in RowRecords /\ table[i].gate = decide[c].gate
    BY <1>1, <1>5 DEF DecTypeOK, Own, LiveIn
  <2>4. decide[c].mine[i].gate = decide[c].gate
    BY <2>2, <2>3 DEF RowRecords, NoRow
  <2> QED
    BY <1>3, <2>2, <2>4 DEF View
<1>6. ASSUME i # decide[c].id, i \notin Own(c) PROVE View(c)[i] = table[i]
  <2>1. i # decide[c].prev
    BY <1>1, <1>6, DecisionsOK DEF Work, Ids
  <2>2. decide[c].mine[i] = NoRow
    BY <1>1, <1>6, <2>1 DEF Work
  <2> QED
    BY <2>2 DEF View
<1> QED
  BY <1>2, <1>4, <1>5, <1>6


LEMMA CommitKeeps ==
  ASSUME DecInv, NEW c \in Deciding, CommitDecision(c)
  PROVE  DecInv'
<1> DEFINE n == decide[c].id
<1>1. Work(c) /\ Chained /\ Issued /\ Serial /\ Room /\ DecTypeOK
  BY DEF DecInv
<1>2. decide[c].at = "done" /\ decide[c].gate \in Gates /\ decide[c].reviewer \in Deciders
  BY <1>1 DEF CommitDecision, Work
<1>3. n \in Ids /\ n < nextId /\ \A i \in Ids : table[i] # NoRow => i < n
  BY <1>1, <1>2 DEF Work
<1>4. ASSUME NEW i \in Ids
      PROVE  /\ table'[i] = View(c)[i]
             /\ i = n => table'[i] = NewRow(c)
             /\ i # n /\ i \in Own(c) => table'[i] = [table[i] EXCEPT !.by = n]
             /\ i # n /\ i \notin Own(c) => table'[i] = table[i]
  BY <1>2, WhatCommits DEF CommitDecision, View
<1>5. NewRow(c) \in RowRecords /\ NewRow(c) # NoRow /\ NoRow.gate \notin Gates
  BY <1>2, DecisionsOK DEF NewRow, RowRecords, NoRow
<1>6. ASSUME NEW i \in Own(c) PROVE i \in Ids /\ table[i] # NoRow /\ Later(i) = {} /\ i < n
  BY <1>1, <1>2, <1>3, LiveIsLast DEF Own
<1>7. ASSUME NEW i \in Ids, i # n
      PROVE  /\ table'[i] \in RowRecords
             /\ table'[i].gate = table[i].gate /\ table'[i].reviewer = table[i].reviewer
             /\ table'[i] # NoRow <=> table[i] # NoRow
  <2>1. table[i] \in RowRecords /\ n \in 0..MaxRows
    BY <1>1, <1>3, DecisionsOK DEF DecTypeOK, Ids
  <2>2. CASE i \in Own(c)
    <3>1. table[i].gate = decide[c].gate /\ table[i] \in [gate : Gates, reviewer : Deciders, by : 0..MaxRows]
      BY <1>2, <1>5, <2>1, <2>2 DEF Own, LiveIn, RowRecords
    <3>2. table'[i] = [table[i] EXCEPT !.by = n]
      BY <1>4, <1>7, <2>2
    <3>3. table'[i] \in [gate : Gates, reviewer : Deciders, by : 0..MaxRows]
      BY <2>1, <3>1, <3>2
    <3>4. table'[i].gate = table[i].gate /\ table'[i].reviewer = table[i].reviewer
      BY <3>1, <3>2
    <3> QED
      BY <1>2, <1>5, <3>1, <3>3, <3>4 DEF RowRecords
  <2>3. CASE i \notin Own(c)
    BY <1>4, <1>7, <2>1, <2>3
  <2> QED
    BY <2>2, <2>3
<1>8. DecTypeOK'
  <2>1. table' \in [Ids -> RowRecords]
    <3>1. \A i \in Ids : table'[i] \in RowRecords
      BY <1>4, <1>5, <1>7
    <3>2. table' = [i \in Ids |-> table'[i]]
      BY DEF CommitDecision, View
    <3> QED
      BY <3>1, <3>2
  <2>2. NoDecision \in DecisionCalls
    BY DecisionsOK DEF NoDecision, DecisionCalls, RowRecords
  <2> QED
    BY <1>1, <2>1, <2>2 DEF CommitDecision, DecTypeOK
<1>9. \A d \in Deciding : decide'[d] = IF d = c THEN NoDecision ELSE decide[d]
  BY <1>1 DEF CommitDecision, DecTypeOK
<1>10. NoDecision.at = "idle" /\ "idle" \notin Inside /\ "done" \in Inside
  BY DEF NoDecision, Inside
<1>11. Serial' /\ Room'
  BY <1>1, <1>9, <1>10 DEF Serial, Room, CommitDecision
<1>12. Issued'
  <2>1. \A i \in Ids : table'[i] # NoRow => i < nextId
    BY <1>1, <1>3, <1>7 DEF Issued
  <2> QED
    BY <2>1 DEF Issued, CommitDecision
<1>13. Chained'
  <2> SUFFICES ASSUME NEW i \in Ids, table'[i] # NoRow
               PROVE  \/ Later(i)' = {} /\ table'[i].by = 0
                      \/ table'[i].by \in Later(i)' /\ \A j \in Later(i)' : table'[i].by <= j
    BY DEF Chained
  <2>1. \A j \in Ids : j \in Int
    BY DecisionsOK DEF Ids
  <2>2. table'[n] = NewRow(c)
    BY <1>3, <1>4
  <2>3. table'[n].gate = decide[c].gate /\ table'[n].reviewer = decide[c].reviewer /\ table'[n].by = 0
    BY <2>2 DEF NewRow
  <2>4. ASSUME NEW j \in Ids, j # n, table'[j].gate \in Gates PROVE j < n
    BY <1>3, <1>5, <1>7, <2>4
  <2>5. table'[i].gate \in Gates /\ table'[i] \in RowRecords
    BY <1>8 DEF DecTypeOK, RowRecords
  <2>6. CASE i = n
    <3>1. ASSUME NEW j \in Later(i)' PROVE FALSE
      BY <2>1, <2>4, <2>5, <2>6, <3>1 DEF Later
    <3> QED
      BY <2>3, <2>6, <3>1
  <2>7. CASE i \in Own(c)
    <3>1. i # n /\ i < n /\ Later(i) = {} /\ i \in Ids
      BY <1>3, <1>6, <2>1, <2>7
    <3>2. table'[i].by = n
      <4>1. table[i] \in [gate : Gates, reviewer : Deciders, by : 0..MaxRows]
        BY <1>1, <1>6, <2>7 DEF DecTypeOK, RowRecords
      <4> QED
        BY <1>4, <2>7, <3>1, <4>1
    <3>3. table[i].gate = decide[c].gate /\ table[i].reviewer = decide[c].reviewer
      BY <2>7 DEF Own, LiveIn
    <3>4. n \in Later(i)'
      BY <1>3, <1>7, <2>3, <3>1, <3>3 DEF Later
    <3>5. ASSUME NEW j \in Later(i)' PROVE j = n
      <4>1. SUFFICES ASSUME j # n PROVE FALSE
        OBVIOUS
      <4>2. j \in Ids /\ j > i /\ table'[j].gate = table'[i].gate /\ table'[j].reviewer = table'[i].reviewer
        BY DEF Later
      <4>3. j \in Later(i)
        BY <1>7, <3>1, <4>1, <4>2 DEF Later
      <4> QED
        BY <3>1, <4>3
    <3> QED
      BY <2>1, <3>2, <3>4, <3>5, <1>3
  <2>8. CASE i # n /\ i \notin Own(c)
    <3>1. table'[i] = table[i] /\ table[i] # NoRow
      BY <1>4, <2>8
    <3>2. ASSUME NEW j \in Later(i)', j # n PROVE j \in Later(i)
      BY <1>7, <2>8, <3>2 DEF Later
    <3>3. ASSUME NEW j \in Later(i) PROVE j # n /\ j \in Later(i)' /\ j < n
      <4>1. j \in Ids /\ j > i /\ table[j].gate = table[i].gate /\ table[j].reviewer = table[i].reviewer
        BY DEF Later
      <4>2. table[j] # NoRow
        BY <1>5, <2>5, <3>1, <4>1
      <4>3. j < n /\ j # n
        BY <1>3, <2>1, <4>1, <4>2
      <4> QED
        BY <1>7, <2>8, <4>1, <4>3 DEF Later
    <3>4. n \in Later(i)' => Later(i) # {}
      <4> SUFFICES ASSUME n \in Later(i)', Later(i) = {} PROVE FALSE
        OBVIOUS
      <4>1. table[i].by = 0
        BY <1>1, <3>1 DEF Chained
      <4>2. table[i].gate = decide[c].gate /\ table[i].reviewer = decide[c].reviewer
        BY <2>3, <3>1 DEF Later
      <4> QED
        BY <2>8, <4>1, <4>2 DEF Own, LiveIn
    <3>5. CASE Later(i) = {} /\ table[i].by = 0
      BY <3>1, <3>2, <3>4, <3>5
    <3>6. CASE table[i].by \in Later(i) /\ \A j \in Later(i) : table[i].by <= j
      <4>1. table'[i].by \in Later(i)' /\ table'[i].by < n
        BY <3>1, <3>3, <3>6
      <4>2. ASSUME NEW j \in Later(i)' PROVE table'[i].by <= j
        <5>1. CASE j = n
          <6>1. table'[i].by \in Ids
            BY <4>1 DEF Later
          <6> QED
            BY <1>3, <2>1, <4>1, <5>1, <6>1
        <5>2. CASE j # n
          BY <3>1, <3>2, <3>6, <5>2
        <5> QED
          BY <5>1, <5>2
      <4> QED
        BY <4>1, <4>2
    <3> QED
      BY <1>1, <3>1, <3>5, <3>6 DEF Chained
  <2> QED
    BY <2>6, <2>7, <2>8
<1>14. ASSUME NEW d \in Deciding PROVE Work(d)'
  <2>1. CASE d = c
    BY <1>9, <1>10, <2>1 DEF Work
  <2>2. CASE d # c
    <3>1. decide'[d] = decide[d] /\ decide[d].at \notin Inside /\ Work(d)
      BY <1>1, <1>2, <1>9, <1>10, <2>2 DEF Serial, DecInv
    <3> QED
      BY <3>1 DEF Work, Inside
  <2> QED
    BY <2>1, <2>2
<1> QED
  BY <1>8, <1>11, <1>12, <1>13, <1>14 DEF DecInv

\* A submission or the sweep, which leave the calls alone, and the table unless it goes.
LEMMA OthersKeep ==
  ASSUME DecInv, UNCHANGED <<nextId, decide>>, DecTypeOK', Serial', Room',
         table' = table \/ (table' = [i \in Ids |-> NoRow] /\ resubmit # "idle")
  PROVE  DecInv'
<1>1. CASE table' = table
  <2>1. Issued' /\ Chained'
    BY <1>1 DEF DecInv, Issued, Chained, Later
  <2>2. \A c \in Deciding : Work(c)'
    BY <1>1 DEF DecInv, Work, Own, NewRow
  <2> QED
    BY <2>1, <2>2 DEF DecInv
<1>2. CASE table' = [i \in Ids |-> NoRow] /\ resubmit # "idle"
  <2>1. Issued' /\ Chained'
    BY <1>2 DEF Issued, Chained
  <2>2. ASSUME NEW c \in Deciding PROVE Work(c)'
    <3>1. decide[c].at \notin Inside /\ Work(c)
      BY <1>2 DEF DecInv, Serial
    <3> QED
      BY <3>1 DEF Work, Inside
  <2> QED
    BY <2>1, <2>2 DEF DecInv
<1> QED
  BY <1>1, <1>2

LEMMA DecInductive ==
  ASSUME DecInv, [DecNext]_decVars
  PROVE  DecInv'
<1>1. DecTypeOK /\ Serial /\ Room /\ Issued /\ Chained /\ \A c \in Deciding : Work(c)
  BY DEF DecInv
<1>2. nextId' = nextId => nextId' \in 1..MaxRows + 1 /\ nextId' >= nextId
  BY <1>1, DecisionsOK DEF DecTypeOK
<1>3. \A i \in Ids : i # 0 /\ i \in Int
  BY DecisionsOK DEF Ids
<1>4. ASSUME NEW c \in Deciding, Ask(c) PROVE DecInv'
  <2>1. PICK g \in Gates, r \in Deciders : decide' = [decide EXCEPT ![c] =
          [NoDecision EXCEPT !.at = "asked", !.gate = g, !.reviewer = r, !.on = submission]]
    BY <1>4 DEF Ask
  <2> DEFINE row == [NoDecision EXCEPT !.at = "asked", !.gate = g, !.reviewer = r, !.on = submission]
  <2>2. NoDecision \in DecisionCalls
    BY DecisionsOK DEF NoDecision, DecisionCalls, RowRecords
  <2>3. row \in DecisionCalls
    <3>1. submission \in 0..MaxSubmissions
      BY <1>1, DecisionsOK DEF DecTypeOK
    <3>2. "asked" \in AtGate \cup {"idle", "asked"} /\ g \in Gates \cup {NoGate}
             /\ r \in Deciders \cup {NoDecider}
      OBVIOUS
    <3> QED
      BY <2>2, <3>1, <3>2 DEF DecisionCalls
  <2>4. /\ row.at = "asked" /\ row.gate = g /\ row.reviewer = r
        /\ row.prev = 0 /\ row.mine = [i \in Ids |-> NoRow] /\ "asked" \notin Inside
    BY <2>2 DEF NoDecision, DecisionCalls, Inside
  <2> HIDE DEF row
  <2>5. Work(c)'
    <3>1. decide'[c] = row
      BY <1>1, <2>1 DEF DecTypeOK, row
    <3> QED
      BY <2>4, <3>1 DEF Work
  <2> QED
    BY <1>2, <1>4, <2>1, <2>3, <2>4, <2>5, CallMoves DEF Ask, row
<1>5. ASSUME NEW c \in Deciding, LockGate(c) PROVE DecInv'
  <2>1. Goes(c, "gate") /\ "gate" \in AtGate /\ "gate" \notin Inside
    BY <1>5 DEF LockGate, AtGate, Inside
  <2>2. Work(c)'
    BY <1>1, <1>5, <2>1, GoesTo DEF Work, LockGate
  <2> QED
    BY <1>5, <2>1, <2>2, GoesStep DEF LockGate
<1>6. ASSUME NEW c \in Deciding, LockProposal(c) PROVE DecInv'
  <2>1. Goes(c, "locked") /\ "locked" \in AtGate
    BY <1>6 DEF LockProposal, AtGate, Inside
  <2>2. Work(c)'
    BY <1>1, <1>6, <2>1, GoesTo DEF Work, LockProposal
  <2> QED
    BY <1>6, <2>1, <2>2, GoesStep DEF LockProposal
<1>7. ASSUME NEW c \in Deciding, ReadPrev(c) PROVE DecInv'
  <2>1. decide[c].at = "locked" /\ decide[c].at \in Inside /\ Work(c)
    BY <1>1, <1>7 DEF ReadPrev, Inside
  <2>2. LiveIn(View(c), decide[c].gate, decide[c].reviewer) = Own(c)
    BY <2>1 DEF View, Work, Own, LiveIn
  <2>3. CASE Own(c) = {}
    <3>1. Goes(c, "clear") /\ "clear" \in AtGate
      BY <1>7, <2>2, <2>3 DEF ReadPrev, AtGate, Inside
    <3>2. Work(c)'
      <4>1. UNCHANGED table /\ Own(c)' = {}
        BY <1>1, <1>7, <2>3, <3>1, GoesTo DEF Own, ReadPrev
      <4> QED
        BY <1>1, <1>3, <2>1, <3>1, <4>1, GoesTo DEF Work
    <3> QED
      BY <1>7, <2>1, <3>1, <3>2, GoesStep DEF ReadPrev
  <2>4. CASE Own(c) # {}
    <3>1. PICK i \in Own(c) : decide' = [decide EXCEPT ![c].at = "read", ![c].prev = i]
      BY <1>7, <2>2, <2>4 DEF ReadPrev
    <3> DEFINE row == [decide[c] EXCEPT !.at = "read", !.prev = i]
    <3>2. decide[c] \in DecisionCalls /\ i \in 0..MaxRows
      BY <1>1, DecisionsOK DEF DecTypeOK, Own, LiveIn, Ids
    <3>3. row \in DecisionCalls /\ decide' = [decide EXCEPT ![c] = row]
      BY <3>1, <3>2 DEF DecisionCalls, AtGate, Inside
    <3>4. decide'[c] = row
      BY <1>1, <3>3 DEF DecTypeOK
    <3>5. /\ row.at = "read" /\ row.gate = decide[c].gate /\ row.reviewer = decide[c].reviewer
          /\ row.prev = i /\ row.mine = decide[c].mine
      BY <3>2 DEF DecisionCalls
    <3> HIDE DEF row
    <3>6. Work(c)'
      BY <1>7, <2>1, <3>4, <3>5 DEF Work, Own, ReadPrev
    <3> QED
      BY <1>2, <1>7, <2>1, <3>3, <3>6, CallMoves DEF ReadPrev
  <2> QED
    BY <2>3, <2>4
<1>8. ASSUME NEW c \in Deciding, PointSelf(c) PROVE DecInv'
  <2> DEFINE i == decide[c].prev
             row == [table[i] EXCEPT !.by = i]
  <2>1. decide[c].at = "read" /\ decide[c].at \in Inside /\ Work(c) /\ "clear" \in Inside
    BY <1>1, <1>8 DEF PointSelf, Inside
  <2>2. i \in Own(c) /\ i \in Ids /\ \A j \in Ids : decide[c].mine[j] = NoRow
    BY <2>1 DEF Work, Own, LiveIn
  <2>3. View(c)[i] = table[i] /\ table[i].gate = decide[c].gate /\ decide[c].gate \in Gates
    BY <2>1, <2>2 DEF View, Own, LiveIn, Work
  <2>4. row \in RowRecords
    <3>1. table[i] \in [gate : Gates, reviewer : Deciders, by : 0..MaxRows]
      BY <1>1, <2>2, <2>3, DecisionsOK DEF DecTypeOK, RowRecords, NoRow
    <3> QED
      BY <2>2, <3>1, DecisionsOK DEF RowRecords, Ids
  <2>5. decide[c].id \in 0..MaxRows
    BY <1>1 DEF DecTypeOK, DecisionCalls
  <2>6. decide' = [decide EXCEPT ![c].at = "clear", ![c].id = decide[c].id, ![c].mine[i] = row]
    <3>1. decide' = [decide EXCEPT ![c].at = "clear", ![c].mine[i] = row]
      BY <1>8, <2>3 DEF PointSelf, PointsTo
    <3> QED
      BY <1>1, <3>1 DEF DecTypeOK, DecisionCalls
  <2> HIDE DEF row
  <2>7. Work(c)'
    <3>1. /\ decide'[c].at = "clear" /\ decide'[c].gate = decide[c].gate
          /\ decide'[c].reviewer = decide[c].reviewer /\ decide'[c].prev = i
          /\ \A j \in Ids : decide'[c].mine[j] = IF j = i THEN row ELSE NoRow
      BY <1>1, <2>2, <2>6 DEF DecTypeOK, DecisionCalls
    <3> HIDE DEF i
    <3>2. UNCHANGED table /\ decide'[c].prev \in Own(c)'
      BY <1>8, <2>2, <3>1 DEF PointSelf, Own
    <3> QED
      BY <2>1, <3>1, <3>2 DEF Work, row
  <2> QED
    BY <1>2, <1>8, <2>1, <2>2, <2>4, <2>5, <2>6, <2>7, CallWrites DEF PointSelf
<1>9. ASSUME NEW c \in Deciding, InsertRow(c) PROVE DecInv'
  <2> DEFINE i == nextId
             row == NewRow(c)
  <2>1. decide[c].at = "clear" /\ decide[c].at \in Inside /\ Work(c) /\ "inserted" \in Inside
    BY <1>1, <1>9 DEF InsertRow, Inside
  <2>2. i \in Ids /\ nextId' = i + 1 /\ i \in 0..MaxRows /\ nextId' \in 1..MaxRows + 1 /\ i \in Int
    BY <1>1, <1>9, DecisionsOK DEF InsertRow, DecTypeOK, Ids
  <2>3. decide' = [decide EXCEPT ![c].at = "inserted", ![c].id = i, ![c].mine[i] = row]
    BY <1>9, <2>1, IndexFree DEF InsertRow, NewRow
  <2>4. row \in RowRecords
    BY <2>1, DecisionsOK DEF Work, NewRow, RowRecords
  <2>5. \A j \in Ids : table[j] # NoRow => j < i
    BY <1>1 DEF Issued
  <2>6. decide[c].prev # i
    <3>1. decide[c].prev \in Own(c) => table[decide[c].prev] # NoRow /\ decide[c].prev \in Ids
      BY <1>1, <2>1, LiveIsLast DEF Own, Work
    <3> QED
      BY <1>3, <2>1, <2>2, <2>5, <3>1 DEF Work
  <2> HIDE DEF row, i
  <2>7. Work(c)'
    <3>1. /\ decide'[c].at = "inserted" /\ decide'[c].gate = decide[c].gate
          /\ decide'[c].reviewer = decide[c].reviewer /\ decide'[c].prev = decide[c].prev
          /\ decide'[c].id = i
          /\ \A j \in Ids : decide'[c].mine[j] = IF j = i THEN row ELSE decide[c].mine[j]
      BY <1>1, <2>2, <2>3 DEF DecTypeOK, DecisionCalls
    <3>2. UNCHANGED table /\ Own(c)' = Own(c) /\ NewRow(c)' = row
      BY <1>9, <3>1 DEF InsertRow, Own, NewRow, row
    <3>3. i < nextId'
      BY <2>2
    <3>4. \A j \in Ids : decide[c].mine[j] =
            IF j = decide[c].prev THEN [table[j] EXCEPT !.by = j] ELSE NoRow
      BY <2>1 DEF Work
    <3>5. (decide[c].prev = 0 /\ Own(c) = {}) \/ decide[c].prev \in Own(c)
      BY <2>1 DEF Work
    <3>6. decide[c].gate \in Gates /\ decide[c].reviewer \in Deciders
      BY <2>1 DEF Work
    <3> QED
      BY <2>2, <2>5, <2>6, <3>1, <3>2, <3>3, <3>4, <3>5, <3>6 DEF Work
  <2>8. nextId' >= nextId
    BY <2>2 DEF i
  <2> QED
    BY <1>9, <2>1, <2>2, <2>3, <2>4, <2>7, <2>8, CallWrites DEF InsertRow
<1>10. ASSUME NEW c \in Deciding, Repoint(c) PROVE DecInv'
  <2>1. /\ decide[c].at = "inserted" /\ decide[c].at \in Inside /\ Work(c)
        /\ "done" \in Inside /\ "done" \in AtGate
    BY <1>1, <1>10 DEF Repoint, Inside, AtGate
  <2>2. CASE decide[c].prev = 0
    <3>1. Goes(c, "done")
      BY <1>10, <2>2 DEF Repoint
    <3>2. Work(c)'
      <4>1. UNCHANGED <<table, nextId>> /\ Own(c)' = Own(c) /\ NewRow(c)' = NewRow(c)
        BY <1>1, <1>10, <3>1, GoesTo DEF Own, Repoint, NewRow
      <4>2. Own(c) = {} /\ \A j \in Ids : j # decide[c].id => decide[c].mine[j] = NoRow
        BY <1>3, <2>1, <2>2 DEF Work, Own, LiveIn
      <4> QED
        BY <1>1, <1>3, <2>1, <2>2, <3>1, <4>1, <4>2, GoesTo DEF Work
    <3> QED
      BY <1>10, <2>1, <3>1, <3>2, GoesStep DEF Repoint
  <2>3. CASE decide[c].prev # 0
    <3> DEFINE i == decide[c].prev
               row == [table[i] EXCEPT !.by = decide[c].id]
    <3>1. i \in Own(c) /\ i \in Ids /\ table[i].gate = decide[c].gate /\ decide[c].gate \in Gates
      BY <2>1, <2>3 DEF Work, Own, LiveIn
    <3>2. decide[c].id \in Ids /\ i < decide[c].id /\ i # decide[c].id
      <4>1. table[i] # NoRow
        BY <1>1, <2>1, <3>1, LiveIsLast DEF Own, Work
      <4> QED
        BY <1>3, <2>1, <3>1, <4>1 DEF Work
    <3>3. table[i] \in [gate : Gates, reviewer : Deciders, by : 0..MaxRows]
      BY <1>1, <3>1, DecisionsOK DEF DecTypeOK, RowRecords, NoRow
    <3>4. View(c)[i] = [table[i] EXCEPT !.by = i]
      <4>1. decide[c].mine[i] = [table[i] EXCEPT !.by = i]
        BY <2>1, <3>1, <3>2 DEF Work
      <4>2. decide[c].mine[i] # NoRow
        BY <3>1, <3>3, <4>1, DecisionsOK DEF NoRow
      <4> QED
        BY <3>1, <4>1, <4>2 DEF View
    <3>5. [View(c)[i] EXCEPT !.by = decide[c].id] = row
      BY <3>3, <3>4
    <3>6. row \in RowRecords /\ decide[c].id \in 0..MaxRows
      BY <3>2, <3>3, DecisionsOK DEF RowRecords, Ids
    <3>7. decide' = [decide EXCEPT ![c].at = "done", ![c].id = decide[c].id, ![c].mine[i] = row]
      <4>1. decide' = [decide EXCEPT ![c].at = "done", ![c].mine[i] = row]
        BY <1>10, <2>3, <3>5 DEF Repoint, PointsTo
      <4> QED
        BY <1>1, <4>1 DEF DecTypeOK, DecisionCalls
    <3> HIDE DEF row
    <3>8. Work(c)'
      <4>1. /\ decide'[c].at = "done" /\ decide'[c].gate = decide[c].gate
            /\ decide'[c].reviewer = decide[c].reviewer /\ decide'[c].prev = i
            /\ decide'[c].id = decide[c].id
            /\ \A j \in Ids : decide'[c].mine[j] = IF j = i THEN row ELSE decide[c].mine[j]
        BY <1>1, <3>1, <3>7 DEF DecTypeOK, DecisionCalls
      <4> HIDE DEF i
      <4>2. UNCHANGED <<table, nextId>> /\ Own(c)' = Own(c) /\ NewRow(c)' = NewRow(c)
        BY <1>10, <4>1 DEF Repoint, Own, NewRow
      <4>3. \A j \in Ids : j # decide[c].id => decide'[c].mine[j] =
              IF j = i THEN [table[j] EXCEPT !.by = decide[c].id] ELSE NoRow
        BY <2>1, <4>1 DEF Work, i, row
      <4>4. decide'[c].mine[decide[c].id] = NewRow(c)
        BY <2>1, <3>2, <4>1 DEF Work
      <4> QED
        BY <2>1, <3>1, <4>1, <4>2, <4>3, <4>4 DEF Work
    <3> QED
      BY <1>2, <1>10, <2>1, <3>1, <3>6, <3>7, <3>8, CallWrites DEF Repoint
  <2> QED
    BY <2>2, <2>3
<1>11. ASSUME NEW c \in Deciding, RollBackDecision(c) PROVE DecInv'
  BY <1>11, CallEnds DEF RollBackDecision
<1>12. ASSUME SubmitLock \/ SubmitDelete \/ SubmitCommit \/ SubmitAbort \/ Expire PROVE DecInv'
  <2>1. UNCHANGED <<nextId, decide>>
    BY <1>12 DEF SubmitLock, SubmitDelete, SubmitCommit, SubmitAbort, Expire
  <2>2. table' = table \/ (table' = [i \in Ids |-> NoRow] /\ resubmit # "idle")
    BY <1>12 DEF SubmitLock, SubmitDelete, SubmitCommit, SubmitAbort, Expire
  <2>3. DecTypeOK'
    <3>1. table' \in [Ids -> RowRecords]
      BY <1>1, <2>2 DEF DecTypeOK, RowRecords
    <3>2. reviewing' \in {"open", "returned", "closed"} /\ resubmit' \in {"idle", "locked", "deleted"}
      BY <1>1, <1>12 DEF DecTypeOK, SubmitLock, SubmitDelete, SubmitCommit, SubmitAbort, Expire
    <3>3. submission' \in 1..MaxSubmissions
      BY <1>1, <1>12, DecisionsOK
        DEF DecTypeOK, Room, SubmitLock, SubmitDelete, SubmitCommit, SubmitAbort, Expire
    <3> QED
      BY <1>1, <2>1, <3>1, <3>2, <3>3 DEF DecTypeOK
  <2>4. Serial' /\ Room'
    BY <1>1, <1>12 DEF Serial, Room, ProposalFree, SubmitLock, SubmitDelete, SubmitCommit, SubmitAbort, Expire
  <2> QED
    BY <2>1, <2>2, <2>3, <2>4, OthersKeep
<1>13. CASE UNCHANGED decVars
  BY <1>1, <1>13, OthersKeep DEF decVars, DecTypeOK, Serial, Room
<1> QED
  BY <1>4, <1>5, <1>6, <1>7, <1>8, <1>9, <1>10, <1>11, <1>12, <1>13, CommitKeeps DEF DecNext


LEMMA DecInitially == DecInit => DecInv
<1> SUFFICES ASSUME DecInit PROVE DecInv
  OBVIOUS
<1>1. NoDecision \in DecisionCalls /\ NoDecision.at = "idle"
  BY DecisionsOK DEF NoDecision, DecisionCalls, RowRecords
<1>2. DecTypeOK
  BY <1>1, DecisionsOK DEF DecInit, DecTypeOK, RowRecords
<1>3. Serial /\ Room /\ Issued /\ Chained
  BY <1>1 DEF DecInit, Serial, Room, Issued, Chained, Inside
<1>4. \A c \in Deciding : decide[c].at = "idle"
  BY <1>1 DEF DecInit
<1>5. \A c \in Deciding : Work(c)
  BY <1>4 DEF Work
<1> QED
  BY <1>2, <1>3, <1>5 DEF DecInv

LEMMA DecInvariant == DecSpec => []DecInv
<1>1. DecInv /\ [DecNext]_decVars => DecInv'
  BY DecInductive
<1> QED
  BY DecInitially, <1>1, PTL DEF DecSpec

\* A reviewer who changes their mind, in any number of overlapping calls of record_decision
\* on any number of gates, which fail between any two statements, ends up with one live row:
\* the last of the chain the supersede (013:158-174) has written.
THEOREM DecisionsAlwaysChained == DecSpec => []DecisionsChained
<1>1. DecInv => DecisionsChained
  BY DEF DecInv, Chained, Later, Work, DecisionsChained
<1> QED
  BY <1>1, DecInvariant, PTL

LEMMA OneMindChangesStep ==
  ASSUME DecInv, [DecNext]_decVars
  PROVE  OneMindStep
<1> DEFINE Live == {i \in Ids : table[i] # NoRow /\ table[i].by = 0}
<1>1. CASE UNCHANGED table
  <2>1. Live' = Live
    BY <1>1
  <2> QED
    BY <2>1 DEF OneMindStep
<1>2. CASE SubmitCommit
  <2>1. Live' = {}
    BY <1>2 DEF SubmitCommit
  <2>2. submission' # submission
    BY <1>2, DecisionsOK DEF SubmitCommit, DecInv, DecTypeOK
  <2> QED
    BY <2>1, <2>2 DEF OneMindStep
<1>3. ASSUME NEW c \in Deciding, CommitDecision(c)
      PROVE  \E new \in Ids :
               /\ table'[new].gate \in Gates /\ \A i \in Ids : table[i] # NoRow => i < new
               /\ Live' = (Live \ LiveIn(table, table'[new].gate, table'[new].reviewer)) \cup {new}
  <2> DEFINE n == decide[c].id
  <2>1. decide[c].at = "done" /\ Work(c) /\ DecTypeOK /\ Chained
    BY <1>3 DEF CommitDecision, DecInv
  <2>2. n \in Ids /\ \A i \in Ids : table[i] # NoRow => i < n
    BY <2>1 DEF Work
  <2>3. decide[c].gate \in Gates /\ decide[c].reviewer \in Deciders /\ NoRow.gate \notin Gates
    BY <2>1, DecisionsOK DEF Work, NoRow
  <2>4. ASSUME NEW i \in Ids
        PROVE  /\ i = n => table'[i] = NewRow(c)
               /\ i # n /\ i \in Own(c) => table'[i] = [table[i] EXCEPT !.by = n]
               /\ i # n /\ i \notin Own(c) => table'[i] = table[i]
    BY <1>3, <2>1, WhatCommits DEF CommitDecision, View
  <2>5. table'[n].gate = decide[c].gate /\ table'[n].reviewer = decide[c].reviewer
          /\ table'[n].by = 0 /\ table'[n] # NoRow
    <3>1. table'[n] = NewRow(c)
      BY <2>2, <2>4
    <3> QED
      BY <2>3, <3>1 DEF NewRow
  <2>6. n \notin Live
    BY <2>1, WhatCommits
  <2>7. ASSUME NEW i \in Ids, i # n PROVE i \in Live' <=> i \in Live /\ i \notin Own(c)
    <3>1. CASE i \in Own(c)
      <4>1. table[i] \in RowRecords /\ table[i] # NoRow /\ i # 0
        BY <2>1, <2>3, <3>1, LiveIsLast, DecisionsOK DEF DecTypeOK, Own, Ids
      <4>2. table'[i] = [table[i] EXCEPT !.by = n]
        BY <2>4, <2>7, <3>1
      <4>3. table'[i].by = n
        BY <4>1, <4>2 DEF RowRecords
      <4>4. n # 0
        BY <2>2, DecisionsOK DEF Ids
      <4> QED
        BY <3>1, <4>3, <4>4
    <3>2. CASE i \notin Own(c)
      BY <2>4, <2>7, <3>2
    <3> QED
      BY <3>1, <3>2
  <2>8. LiveIn(table, table'[n].gate, table'[n].reviewer) = Own(c)
    BY <2>5 DEF Own
  <2>9. Live' = (Live \ Own(c)) \cup {n}
    <3>1. n \in Live'
      BY <2>2, <2>5
    <3>2. Live' \subseteq Ids /\ Live \subseteq Ids
      OBVIOUS
    <3> HIDE DEF Live
    <3> QED
      BY <2>2, <2>7, <3>1, <3>2
  <2> QED
    BY <2>2, <2>3, <2>5, <2>8, <2>9
<1>4. UNCHANGED table \/ SubmitCommit \/ \E c \in Deciding : CommitDecision(c)
  BY DEF DecNext, decVars, Ask, LockGate, LockProposal, ReadPrev, PointSelf, InsertRow, Repoint,
         RollBackDecision, SubmitLock, SubmitDelete, SubmitAbort, Expire
<1> QED
  BY <1>1, <1>2, <1>3, <1>4 DEF OneMindStep

\* The three statements of the supersede amount, for whoever reads the live rows, to one step
\* that replaces one reviewer's decision on one gate and nobody else's (HitlGates' RowsAfter).
THEOREM OnlyOneMindChanges == DecSpec => OneMindChanges
<1>1. DecInv /\ [DecNext]_decVars => [OneMindStep]_decVars
  BY OneMindChangesStep
<1> QED
  BY <1>1, DecInvariant, PTL DEF DecSpec, OneMindChanges
=============================================================================
