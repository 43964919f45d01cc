---------------------------- MODULE GraphPromise ----------------------------
(***************************************************************************)
(* What the graph promises, with nothing of how it keeps the promise       *)
(* (002:4-16, docs/07 section 6): a proposal is merged in one step, all of *)
(* it or nothing; a version is written once, ended at most once, by a      *)
(* merge, and what was ended stays as it was ended.  A merge writes a      *)
(* version of every key it puts and ends the live version of every key it  *)
(* puts or retires.  One thing it may miss: a version put by a merge that  *)
(* committed after this one began, of a key this one only retires.         *)
(*                                                                         *)
(* Items and their order, statements, snapshots, locks, the unique index,  *)
(* commit ids, deadlocks and roll backs do not appear here: KnowledgeGraph *)
(* is shown to implement this module.                                      *)
(***************************************************************************)
CONSTANTS
  Merges, Keys,
  Puts, Retires,      \* Puts[m], Retires[m]: the keys merge m puts, or only retires
  Live, Absent

VARIABLES
  stage,      \* where each merge stands
  before,     \* before[m]: the merges committed when m, under way, began
  version     \* version[m][k]: m's version of k: none, live, or the merge that ended it

vars == <<stage, before, version>>

Init ==
  /\ stage = [m \in Merges |-> "waiting"]
  /\ before = [m \in Merges |-> {}]
  /\ version = [m \in Merges |-> [k \in Keys |-> Absent]]

Begin(m) ==
  /\ stage[m] = "waiting"
  /\ stage' = [stage EXCEPT ![m] = "underway"]
  /\ before' = [before EXCEPT ![m] = {n \in Merges : stage[n] = "merged"}]
  /\ UNCHANGED version

\* The live version of k, if there is one, is of a merge that has committed
\* since m began.
MayMiss(m, k) ==
  \A n \in Merges : version[n][k] = Live => stage[n] = "merged" /\ n \notin before[m]

Merge(m) ==
  /\ stage[m] = "underway"
  /\ \E missed \in SUBSET {k \in Retires[m] : MayMiss(m, k)} :
       version' = [n \in Merges |-> [k \in Keys |->
         IF n = m THEN IF k \in Puts[m] THEN Live ELSE Absent
         ELSE IF version[n][k] = Live /\ k \in (Puts[m] \cup Retires[m]) \ missed THEN m
         ELSE version[n][k]]]
  /\ stage' = [stage EXCEPT ![m] = "merged"]
  /\ before' = [before EXCEPT ![m] = {}]

\* A merge that fails has never been.
Fail(m) ==
  /\ stage[m] = "underway"
  /\ stage' = [stage EXCEPT ![m] = "waiting"]
  /\ before' = [before EXCEPT ![m] = {}]
  /\ UNCHANGED version

Next == \E m \in Merges : Begin(m) \/ Merge(m) \/ Fail(m)

Spec == Init /\ [][Next]_vars
=============================================================================
