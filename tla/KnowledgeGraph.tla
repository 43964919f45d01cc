--------------------------- MODULE KnowledgeGraph ---------------------------
(***************************************************************************)
(* The versioned graph: hitl.merge_proposal (db/005), the only writer of   *)
(* kg.node, kg.edge and kg.commit, and the workflows pinned to its commits *)
(* (wf_draft, wf.assert_faithful, wf.publish_workflow).                    *)
(*                                                                         *)
(* A merge locks its own proposal and nothing that another merge of the    *)
(* engagement would want, so merges of different proposals interleave      *)
(* statement by statement under READ COMMITTED.  A statement sees what was *)
(* committed when it began, waits for the row or index entry it is to      *)
(* change, and looks at that row again once it has it.  One engagement:    *)
(* every key, index and query here carries the engagement.                 *)
(*                                                                         *)
(* A version is the pair of the merge that wrote it and its key: a second  *)
(* insert of one key in one merge cannot be closed in between, as its      *)
(* valid_to would equal its valid_from.  Nodes and edges are keys.  Left   *)
(* out: labels and attributes, superseded_by, evidence, content_digest and *)
(* the embedding backlog, which nothing here reads.                        *)
(***************************************************************************)
EXTENDS Integers, Sequences, FiniteSets

CONSTANTS
  Merges, NoMerge,    \* approved proposals, one merge of each at a time
  Keys,               \* node_key and edge_key
  Items,              \* Items[m]: the proposal's items, as [op, key]
  Workflows,
  Binds,              \* Binds[w]: the keys the steps of w are bound to
  MaxStarts           \* bound on the merges begun, those rolled back included

Ops    == {"put", "retire"}
Live   == "live"
Absent == "absent"

ASSUME GraphAssumption ==
  /\ NoMerge \notin Merges /\ Live \notin Merges /\ Absent \notin Merges
  /\ Items \in [Merges -> Seq([op : Ops, key : Keys])]
  /\ Binds \in [Workflows -> SUBSET Keys]
  /\ MaxStarts \in Nat

VARIABLES
  clock,      \* the latest now() any merge was begun at
  lastId,     \* the identity sequence of kg.commit, not rolled back
  merge,      \* the merges and, once merged, their commits
  closer,     \* closer[n][k]: the version of k merge n wrote, if any, and what closed it
  workflow,   \* wf.workflow
  flagged     \* the stale_pin signals: none, an active one, only settled ones

vars == <<clock, lastId, merge, closer, workflow, flagged>>

\* A merge is at "see", "act" or "insert" of its i-th item between "begun"
\* and "merged"; a rolled-back merge is "approved" again.
Running == {"begun", "see", "act", "insert"}
Idle    == [at |-> "approved", start |-> 0, id |-> 0, parent |-> NoMerge,
            i |-> 0, target |-> NoMerge, sealed |-> 0]

MergeRecords == [at : {"approved", "merged"} \cup Running, start : Nat, id : Nat,
                 parent : Merges \cup {NoMerge}, i : Nat,
                 target : Merges \cup {NoMerge}, sealed : Nat]

WorkflowRecords == [status : {"none", "draft", "publishing", "published"},
                    pin : Merges \cup {NoMerge}]

TypeOK ==
  /\ clock \in Nat /\ lastId \in Nat
  /\ merge \in [Merges -> MergeRecords]
  /\ closer \in [Merges -> [Keys -> Merges \cup {Live, Absent}]]
  /\ workflow \in [Workflows -> WorkflowRecords]
  /\ flagged \in [Workflows -> {"none", "active", "settled"}]

-----------------------------------------------------------------------------
IsRunning(m) == merge[m].at \in Running
IsMerged(m)  == merge[m].at = "merged"

\* n's version of k is live in what merge m sees, n itself being m or merged.
LiveTo(m, n, k) ==
  /\ n = m \/ IsMerged(n)
  /\ \/ closer[n][k] = Live
     \/ closer[n][k] \in Merges \ {m} /\ ~ IsMerged(closer[n][k])

\* The committed state: kg.node_current and kg.edge_current.
LiveNow(n, k) == IsMerged(n) /\ LiveTo(n, n, k)

\* m has written the live entry of k: closed it, or inserted it.
Holds(m, k) == IsRunning(m) /\ (closer[m][k] # Absent \/ \E n \in Merges : closer[n][k] = m)

Heads == {m \in Merges : IsMerged(m) /\ \A n \in Merges : IsMerged(n) => merge[n].id <= merge[m].id}

Item(m) == Items[m][merge[m].i]

EndsAfter(n, k, c) == closer[n][k] \in Merges /\ merge[closer[n][k]].start > merge[c].start

\* Variant: the commit id is not looked at.
LiveAtAnyCommit(c, k) ==
  \E n \in Merges : /\ IsMerged(n) /\ closer[n][k] # Absent
                    /\ LiveNow(n, k) \/ EndsAfter(n, k, c)

\* k is live as of commit c, as wf.assert_faithful reads it: a version of c
\* or of an earlier commit, closed after c was sealed or not at all.
LiveAt(c, k) ==
  \E n \in Merges : /\ IsMerged(n) /\ closer[n][k] # Absent
                    /\ merge[n].id <= merge[c].id
                    /\ LiveNow(n, k) \/ EndsAfter(n, k, c)

AssertFaithful(w) == \A k \in Binds[w] : LiveAt(workflow[w].pin, k)

-----------------------------------------------------------------------------
Init ==
  /\ clock = 0 /\ lastId = 0
  /\ merge = [m \in Merges |-> Idle]
  /\ closer = [m \in Merges |-> [k \in Keys |-> Absent]]
  /\ workflow = [w \in Workflows |-> [status |-> "none", pin |-> NoMerge]]
  /\ flagged = [w \in Workflows |-> "none"]

\* The transaction begins: v_now, and the proposal's lock and gates.
Begin(m) ==
  /\ merge[m].at = "approved"
  /\ clock < MaxStarts
  /\ clock' = clock + 1
  /\ merge' = [merge EXCEPT ![m] = [Idle EXCEPT !.at = "begun", !.start = clock + 1]]
  /\ UNCHANGED <<lastId, closer, workflow, flagged>>

\* The commit row, under the newest sealed commit the statement sees.
InsertCommit(m) ==
  /\ merge[m].at = "begun"
  /\ lastId' = lastId + 1
  /\ \E p \in IF Heads = {} THEN {NoMerge} ELSE Heads :
       merge' = [merge EXCEPT ![m] = [@ EXCEPT !.at = "see", !.id = lastId + 1, !.parent = p, !.i = 1]]
  /\ UNCHANGED <<clock, closer, workflow, flagged>>

\* close_node or close_edge: the version the UPDATE's snapshot finds ...
See(m) ==
  /\ merge[m].at = "see" /\ merge[m].i <= Len(Items[m])
  /\ LET seen == {n \in Merges : LiveTo(m, n, Item(m).key)}
     IN \E n \in IF seen = {} THEN {NoMerge} ELSE seen :
          merge' = [merge EXCEPT ![m] = [@ EXCEPT !.at = "act", !.target = n]]
  /\ UNCHANGED <<clock, lastId, closer, workflow, flagged>>

AfterClose(m) ==
  merge' = [merge EXCEPT ![m] = IF Item(m).op = "put" THEN [@ EXCEPT !.at = "insert"]
                                ELSE [@ EXCEPT !.at = "see", !.i = merge[m].i + 1]]

\* node_valid_range, edge_valid_range.
ValidRange(m) == merge[m].start > merge[merge[m].target].start

\* Variant: the row is closed as it was seen.
TargetSeen(m) == merge[m].target # NoMerge

\* The WHERE clause, looked at again on the row's present version.
TargetStillLive(m) == merge[m].target # NoMerge /\ closer[merge[m].target][Item(m).key] = Live

\* ... and its effect, once nobody else is changing that row.
Close(m) ==
  LET t == merge[m].target k == Item(m).key IN
  /\ merge[m].at = "act"
  /\ t # NoMerge => ~ \E n \in Merges \ {m} : IsRunning(n) /\ closer[t][k] = n
  /\ IF TargetStillLive(m)
     THEN ValidRange(m) /\ closer' = [closer EXCEPT ![t][k] = m]
     ELSE UNCHANGED closer
  /\ AfterClose(m)
  /\ UNCHANGED <<clock, lastId, workflow, flagged>>

\* Variant: the index is not unique.
AnyEntry(m, k) == TRUE

\* node_current_key_uq, edge_current_key_uq: no live entry of k, whoever wrote
\* it, and none whose writer may still roll back.
UniqueEntry(m, k) ==
  /\ ~ \E n \in Merges \ {m} : Holds(n, k)
  /\ ~ \E n \in Merges : closer[n][k] = Live

\* Variant: a conflicting insert does nothing.
InsertOrNothing(m) ==
  /\ merge[m].at = "insert"
  /\ closer' = IF UniqueEntry(m, Item(m).key)
               THEN [closer EXCEPT ![m][Item(m).key] = Live] ELSE closer
  /\ merge' = [merge EXCEPT ![m] = [@ EXCEPT !.at = "see", !.i = merge[m].i + 1]]
  /\ UNCHANGED <<clock, lastId, workflow, flagged>>

Insert(m) ==
  /\ merge[m].at = "insert"
  /\ UniqueEntry(m, Item(m).key)
  /\ closer' = [closer EXCEPT ![m][Item(m).key] = Live]
  /\ merge' = [merge EXCEPT ![m] = [@ EXCEPT !.at = "see", !.i = merge[m].i + 1]]
  /\ UNCHANGED <<clock, lastId, workflow, flagged>>

\* Variant: an error ends the loop and not the transaction.
CommitPartial(m) ==
  /\ merge[m].at \in {"see", "act", "insert"}
  /\ merge' = [merge EXCEPT ![m] = [@ EXCEPT !.at = "merged", !.sealed = clock, !.target = NoMerge]]
  /\ UNCHANGED <<clock, lastId, closer, workflow, flagged>>

\* After the last item: the stale_pin signals, and the transaction commits.
Seal(m) ==
  /\ merge[m].at = "see" /\ merge[m].i > Len(Items[m])
  /\ merge' = [merge EXCEPT ![m] = [@ EXCEPT !.at = "merged", !.sealed = clock, !.target = NoMerge]]
  /\ flagged' = [w \in Workflows |->
       IF workflow[w].status = "published" /\ merge[workflow[w].pin].id < merge[m].id
       THEN "active" ELSE flagged[w]]
  /\ UNCHANGED <<clock, lastId, closer, workflow>>

\* A violated constraint, a deadlock the server resolves, a statement timeout
\* or a lost connection: nothing of the merge remains but a gap in the ids.
RollBack(m) ==
  /\ IsRunning(m)
  /\ merge' = [merge EXCEPT ![m] = Idle]
  /\ closer' = [n \in Merges |-> [k \in Keys |->
       IF n = m THEN Absent ELSE IF closer[n][k] = m THEN Live ELSE closer[n][k]]]
  /\ UNCHANGED <<clock, lastId, workflow, flagged>>

-----------------------------------------------------------------------------
\* wf_draft, pinned to any sealed commit, if it is faithful to it.
Draft(w) ==
  /\ workflow[w].status = "none"
  /\ \E c \in Merges :
       /\ IsMerged(c)
       /\ \A k \in Binds[w] : LiveAt(c, k)
       /\ workflow' = [workflow EXCEPT ![w] = [status |-> "draft", pin |-> c]]
  /\ UNCHANGED <<clock, lastId, merge, closer, flagged>>

\* wf.publish_workflow up to its UPDATE, and its commit.
Publish(w) ==
  /\ workflow[w].status = "draft"
  /\ AssertFaithful(w)
  /\ workflow' = [workflow EXCEPT ![w].status = "publishing"]
  /\ UNCHANGED <<clock, lastId, merge, closer, flagged>>

PublishCommit(w) ==
  /\ workflow[w].status = "publishing"
  /\ workflow' = [workflow EXCEPT ![w].status = "published"]
  /\ UNCHANGED <<clock, lastId, merge, closer, flagged>>

\* drift_triage and the console's triage: a signal is settled, or reopened.
Triage(w) ==
  /\ flagged[w] # "none"
  /\ \E s \in {"active", "settled"} \ {flagged[w]} : flagged' = [flagged EXCEPT ![w] = s]
  /\ UNCHANGED <<clock, lastId, merge, closer, workflow>>

Next ==
  \/ \E m \in Merges : \/ Begin(m) \/ InsertCommit(m) \/ See(m) \/ Close(m)
                       \/ Insert(m) \/ Seal(m) \/ RollBack(m)
  \/ \E w \in Workflows : Draft(w) \/ Publish(w) \/ PublishCommit(w) \/ Triage(w)

Spec == Init /\ [][Next]_vars

-----------------------------------------------------------------------------
(* Safety.                                                                 *)

\* "Exactly one live version per (engagement, node_key)" (002:106-109): at no
\* moment do readers of kg.node_current find two, however merges interleave.
OneLiveVersion ==
  \A k \in Keys : \A m, n \in Merges : LiveNow(m, k) /\ LiveNow(n, k) => m = n

\* "Nothing in kg.node / kg.edge is ever UPDATEd or DELETEd in place"
\* (002:6-9): a merged version stays, and once closed it stays as it was closed.
HistoryStands ==
  [][\A n \in Merges, k \in Keys :
       IsMerged(n) /\ closer[n][k] # Absent =>
         /\ closer'[n][k] # Absent
         /\ closer[n][k] \in Merges /\ IsMerged(closer[n][k]) => closer'[n][k] = closer[n][k]]_vars

LastOp(m, k, op) ==
  \E i \in DOMAIN Items[m] : /\ Items[m][i] = [op |-> op, key |-> k]
                             /\ \A j \in i + 1..Len(Items[m]) : Items[m][j].key # k

\* A merge that commits has done what its proposal says: what it puts is live
\* under its commit, whatever other merges did meanwhile; what it retires is
\* gone, but for a version of a merge that committed since it began
\* (docs/07:279-284).
MergeLands ==
  [][\A m \in Merges : ~ IsMerged(m) /\ IsMerged(m)' =>
       \A k \in Keys :
         /\ LastOp(m, k, "put") => LiveNow(m, k)'
         /\ LastOp(m, k, "retire") =>
              \A n \in Merges : LiveNow(n, k)' => IsMerged(n) /\ merge[n].sealed >= merge[m].start]_vars

\* The keys a merge puts, and those it only retires.
KeysOf(m, op) == {Items[m][i].key : i \in {j \in DOMAIN Items[m] : Items[m][j].op = op}}
PutKeys     == [m \in Merges |-> KeysOf(m, "put")]
RetiredKeys == [m \in Merges |-> KeysOf(m, "retire") \ KeysOf(m, "put")]

MergeStage ==
  [m \in Merges |-> IF IsMerged(m) THEN "merged" ELSE IF IsRunning(m) THEN "underway" ELSE "waiting"]

CommittedBefore ==
  [m \in Merges |-> IF IsRunning(m)
                    THEN {n \in Merges : IsMerged(n) /\ merge[n].sealed < merge[m].start} ELSE {}]

\* What readers see of a version: nothing before its merge commits, and no
\* end before the merge that ends it does.
CommittedVersion ==
  [n \in Merges |-> [k \in Keys |->
     IF ~ IsMerged(n) THEN Absent
     ELSE IF closer[n][k] \in Merges /\ ~ IsMerged(closer[n][k]) THEN Live
     ELSE closer[n][k]]]

Promise == INSTANCE GraphPromise WITH
  Puts <- PutKeys, Retires <- RetiredKeys,
  stage <- MergeStage, before <- CommittedBefore, version <- CommittedVersion

\* To readers, merges that interleave statement by statement are merges done
\* in one step each, in the order they commit; what one may miss is a version
\* put since it began.
KeepsHistory == Promise!Spec

\* What was live as of a commit is settled once every merge that was under
\* way when it was sealed has ended: later merges do not change what a
\* workflow pinned to it is faithful to (002:6-9).
SnapshotFinal ==
  [][\A c \in Merges :
       /\ IsMerged(c)
       /\ \A m \in Merges : IsRunning(m) => merge[m].start > merge[c].sealed
       => \A k \in Keys : LiveAt(c, k)' = LiveAt(c, k)]_vars

\* What 002:6-9 says without that condition ("every workflow reproducible
\* against the commit it was authored from"): a published workflow is
\* faithful to its pinned commit.  A merge begun before that commit and
\* sealed after it ends versions in its past.
PublishedFaithful ==
  \A w \in Workflows : workflow[w].status = "published" => AssertFaithful(w)

\* What docs/07:289-293 says of step 8: "for every published workflow pinned
\* behind the new head", "so it cannot be missed".  Nothing looks at the head
\* when a workflow is published.
StaleIsFlagged ==
  \A w \in Workflows :
    workflow[w].status = "published" /\ (\E m \in Merges : IsMerged(m) /\ merge[m].id > merge[workflow[w].pin].id)
      => flagged[w] # "none"
=============================================================================
