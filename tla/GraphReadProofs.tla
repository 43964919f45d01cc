--------------------------- MODULE GraphReadProofs ---------------------------
(***************************************************************************)
(* What holds of the readers of the graph: of a training episode for every *)
(* set of merges and every number of steps, and of kg.traverse for every   *)
(* graph and query.                                                        *)
(*                                                                         *)
(* While no two merges overlap, the order of their starts is the order of  *)
(* their commit_ids and of their commits, so that the head pinned and the  *)
(* time read as of name the same graph.  A traversal keeps, for each node  *)
(* it reached, a shortest row whose own nodes have rows: dropping the rows *)
(* that close a cycle loses no node and no distance.  A shortest walk      *)
(* closes none and comes through shortest walks, so the best row of a node *)
(* is as strong as the strongest of them: the recursion that says so is    *)
(* unfolded by induction, from the least element of a set of numbers.      *)
(***************************************************************************)
EXTENDS RolloutEpisode, Traversal, WellFoundedInduction, TLAPS

\* The graph as of the pinned commit.
Pinned == {m \in Committed : merge[m].start <= episode.asOf}

\* The clock and the sequence are ahead of what they gave out.
Given == \A m \in Merges : merge[m].start <= clock /\ merge[m].id <= lastId

\* At most one merge is under way, and it began, and got its commit_id, after every one
\* that has committed.
OneAtATime == mergesOverlapped \/ \A m, n \in Merges :
  /\ m \in UnderWay /\ n \in UnderWay => m = n
  /\ m \in UnderWay /\ n \in Committed => merge[n].start < merge[m].start
  /\ merge[m].at = "inserted" /\ n \in Committed => merge[n].id < merge[m].id
  /\ m \in Committed /\ n \in Committed /\ merge[m].id <= merge[n].id =>
       merge[m].start <= merge[n].start

\* The episode is pinned to one committed merge.
HeadKnown == episode.at # "none" => \E m \in Committed :
  merge[m].id = episode.head /\ merge[m].start = episode.asOf

\* A check of the head, until a merge lands, says that the graph is the pinned one.
CheckHolds == mergesOverlapped \/ slipped \/
  (episode.at = "checked" => \A m \in Committed : merge[m].start <= episode.asOf)

\* Every pinned query saw the pinned graph.
SawPinned == mergesOverlapped \/ slipped \/ \A S \in seen : S = Pinned

RolloutInv ==
  /\ RolloutTypeOK /\ Given /\ OneAtATime /\ HeadKnown /\ CheckHolds /\ SawPinned
  /\ episode.at = "none" => seen = {}

LEMMA RolloutStarts == RolloutInit => RolloutInv
<1> SUFFICES ASSUME RolloutInit PROVE RolloutInv
  OBVIOUS
<1>1. RolloutTypeOK
  BY DEF RolloutInit, RolloutTypeOK, MergeRows, NoCommit
<1>2. Given
  BY DEF RolloutInit, Given, NoCommit
<1>3. Committed = {} /\ UnderWay = {} /\ \A m \in Merges : merge[m].at = "none"
  BY DEF RolloutInit, Committed, UnderWay
<1>4. OneAtATime
  BY <1>3 DEF OneAtATime
<1>5. HeadKnown /\ CheckHolds /\ SawPinned /\ seen = {}
  BY DEF RolloutInit, HeadKnown, CheckHolds, SawPinned
<1> QED
  BY <1>1, <1>2, <1>4, <1>5 DEF RolloutInv

\* Every step keeps the types.
LEMMA RolloutTypeStep ==
  ASSUME RolloutTypeOK, RolloutNext
  PROVE  RolloutTypeOK'
<1> USE DEF RolloutTypeOK, MergeRows, NoCommit, graphVars
<1>1. CASE \E m \in Merges : BeginMerge(m)
  BY <1>1 DEF BeginMerge
<1>2. CASE \E m \in Merges : InsertCommit(m)
  BY <1>2 DEF InsertCommit
<1>3. CASE \E m \in Merges : CommitMerge(m)
  BY <1>3 DEF CommitMerge
<1>4. CASE Reset
  <2>1. PICK m \in Merges : episode' = [at |-> "ready", head |-> merge[m].id,
                                        asOf |-> merge[m].start, steps |-> 0]
    BY <1>4 DEF Reset
  <2>2. merge[m].id \in Nat /\ merge[m].start \in Nat
    OBVIOUS
  <2> QED
    BY <1>4, <2>1, <2>2 DEF Reset
<1>5. CASE Walk
  BY <1>5 DEF Walk, Returns, Committed
<1>6. CASE UnpinnedCall \/ CheckHead \/ Finish
  BY <1>6 DEF UnpinnedCall, CheckHead, Finish
<1>7. CASE Search
  BY <1>7 DEF Search, Returns, Committed
<1>8. CASE RecordStep
  <2>1. PICK at \in {"ready", "over"} :
          episode' = [episode EXCEPT !.at = at, !.steps = episode.steps + 1]
    BY <1>8 DEF RecordStep
  <2>2. episode.steps + 1 \in Nat
    OBVIOUS
  <2> QED
    BY <1>8, <2>1, <2>2 DEF RecordStep
<1> QED
  BY <1>1, <1>2, <1>3, <1>4, <1>5, <1>6, <1>7, <1>8 DEF RolloutNext

\* A step of the episode that pins nothing new and records nothing keeps the rest.
LEMMA EpisodeStep ==
  ASSUME RolloutInv, RolloutTypeOK', UNCHANGED <<graphVars, slipped>>,
         episode.at # "none", episode'.at # "none",
         episode'.head = episode.head, episode'.asOf = episode.asOf,
         episode'.at = "checked" => \A m \in Committed : merge[m].start <= episode.asOf
                                    \/ mergesOverlapped \/ slipped,
         \A S \in seen' : S \in seen \/ S = Pinned \/ mergesOverlapped \/ slipped
  PROVE  RolloutInv'
<1>1. /\ merge' = merge /\ clock' = clock /\ lastId' = lastId
      /\ mergesOverlapped' = mergesOverlapped /\ slipped' = slipped
  BY DEF graphVars
<1>2. Committed' = Committed /\ UnderWay' = UnderWay
  BY <1>1 DEF Committed, UnderWay
<1>3. Pinned' = Pinned
  BY <1>1, <1>2 DEF Pinned
<1>4. Given' /\ OneAtATime'
  BY <1>1, <1>2 DEF RolloutInv, Given, OneAtATime
<1>5. HeadKnown' /\ CheckHolds'
  BY <1>1, <1>2 DEF RolloutInv, HeadKnown, CheckHolds
<1>6. SawPinned'
  BY <1>1, <1>3 DEF RolloutInv, SawPinned
<1> QED
  BY <1>4, <1>5, <1>6 DEF RolloutInv

\* Every step keeps what the pinned reads rely on.
LEMMA RolloutInductive ==
  ASSUME RolloutInv, [RolloutNext]_rolloutVars
  PROVE  RolloutInv'
<1>1. CASE UNCHANGED rolloutVars
  BY <1>1 DEF RolloutInv, RolloutTypeOK, Given, OneAtATime, HeadKnown, CheckHolds, SawPinned,
              Pinned, Committed, UnderWay, rolloutVars
<1>2. ASSUME RolloutNext PROVE RolloutInv'
  <2> USE DEF NoCommit
  <2>1. RolloutTypeOK' /\ RolloutTypeOK
    BY <1>2, RolloutTypeStep DEF RolloutInv
  <2>2. \A m \in Merges : merge[m].start \in Nat /\ merge[m].id \in Nat /\ merge[m] \in MergeRows
    BY <2>1 DEF RolloutTypeOK, MergeRows
  <2>3. ASSUME NEW m \in Merges, BeginMerge(m) PROVE RolloutInv'
    <3>1. /\ UNCHANGED <<lastId, episode, seen, slipped>> /\ clock' = clock + 1
          /\ merge[m].at = "none"
          /\ ~mergesOverlapped' => ~mergesOverlapped /\ UnderWay = {}
      BY <2>1, <2>3 DEF BeginMerge, RolloutTypeOK
    <3>2. \A n \in Merges :
            /\ merge'[n].at = IF n = m THEN "begun" ELSE merge[n].at
            /\ merge'[n].start = IF n = m THEN clock + 1 ELSE merge[n].start
            /\ merge'[n].id = IF n = m THEN NoCommit ELSE merge[n].id
      BY <2>1, <2>3 DEF BeginMerge, RolloutTypeOK
    <3>3. Committed' = Committed /\ UnderWay' = UnderWay \cup {m} /\ m \notin Committed
      BY <3>1, <3>2 DEF Committed, UnderWay
    <3>4. Given'
      BY <2>1, <2>2, <3>1, <3>2 DEF RolloutInv, Given, RolloutTypeOK
    <3>5. \A n \in Committed : n \in Merges /\ merge[n].start < clock + 1
      BY <2>1, <2>2 DEF RolloutInv, Given, RolloutTypeOK, Committed
    <3>6. OneAtATime'
      BY <2>1, <2>2, <3>1, <3>2, <3>3, <3>5 DEF RolloutInv, OneAtATime, UnderWay
    <3>7. HeadKnown'
      BY <3>1, <3>2, <3>3 DEF RolloutInv, HeadKnown, Committed
    <3>8. Pinned' = Pinned
      BY <3>1, <3>2, <3>3 DEF Pinned, Committed
    <3>9. CheckHolds' /\ SawPinned'
      BY <3>1, <3>2, <3>3, <3>8 DEF RolloutInv, CheckHolds, SawPinned, Committed
    <3> QED
      BY <2>1, <3>1, <3>4, <3>6, <3>7, <3>9 DEF RolloutInv
  <2>4. ASSUME NEW m \in Merges, InsertCommit(m) PROVE RolloutInv'
    <3>1. /\ UNCHANGED <<clock, mergesOverlapped, episode, seen, slipped>>
          /\ lastId' = lastId + 1 /\ merge[m].at = "begun"
      BY <2>4 DEF InsertCommit
    <3>2. \A n \in Merges :
            /\ merge'[n].at = IF n = m THEN "inserted" ELSE merge[n].at
            /\ merge'[n].start = merge[n].start
            /\ merge'[n].id = IF n = m THEN lastId + 1 ELSE merge[n].id
      BY <2>1, <2>4 DEF InsertCommit, RolloutTypeOK
    <3>3. Committed' = Committed /\ UnderWay' = UnderWay /\ m \notin Committed /\ m \in UnderWay
      BY <3>1, <3>2 DEF Committed, UnderWay
    <3>4. Given'
      BY <2>1, <2>2, <3>1, <3>2 DEF RolloutInv, Given, RolloutTypeOK
    <3>5. \A n \in Committed : n \in Merges /\ merge[n].id < lastId + 1
      BY <2>1, <2>2 DEF RolloutInv, Given, RolloutTypeOK, Committed
    <3>6. OneAtATime'
      BY <2>1, <2>2, <3>1, <3>2, <3>3, <3>5 DEF RolloutInv, OneAtATime, UnderWay
    <3>7. HeadKnown'
      BY <3>1, <3>2, <3>3 DEF RolloutInv, HeadKnown, Committed
    <3>8. Pinned' = Pinned
      BY <3>1, <3>2, <3>3 DEF Pinned, Committed
    <3>9. CheckHolds' /\ SawPinned'
      BY <3>1, <3>2, <3>3, <3>8 DEF RolloutInv, CheckHolds, SawPinned, Committed
    <3> QED
      BY <2>1, <3>1, <3>4, <3>6, <3>7, <3>9 DEF RolloutInv
  <2>5. ASSUME NEW m \in Merges, CommitMerge(m) PROVE RolloutInv'
    <3>1. /\ UNCHANGED <<clock, lastId, mergesOverlapped, episode, seen>>
          /\ merge[m].at = "inserted"
          /\ ~slipped' => ~slipped /\ episode.at # "checked"
      BY <2>5 DEF CommitMerge
    <3>2. \A n \in Merges :
            /\ merge'[n].at = IF n = m THEN "committed" ELSE merge[n].at
            /\ merge'[n].start = merge[n].start
            /\ merge'[n].id = merge[n].id
      BY <2>1, <2>5 DEF CommitMerge, RolloutTypeOK
    <3>3. /\ Committed' = Committed \cup {m} /\ UnderWay' = UnderWay \ {m}
          /\ m \in UnderWay /\ m \notin Committed
      BY <3>1, <3>2 DEF Committed, UnderWay
    <3>4. Given'
      BY <3>1, <3>2 DEF RolloutInv, Given
    <3>5. OneAtATime'
      <4> SUFFICES ASSUME ~mergesOverlapped, NEW k \in Merges, NEW n \in Merges
                   PROVE  /\ k \in UnderWay' /\ n \in UnderWay' => k = n
                          /\ k \in UnderWay' /\ n \in Committed' =>
                               merge'[n].start < merge'[k].start
                          /\ merge'[k].at = "inserted" /\ n \in Committed' =>
                               merge'[n].id < merge'[k].id
                          /\ k \in Committed' /\ n \in Committed'
                             /\ merge'[k].id <= merge'[n].id =>
                               merge'[k].start <= merge'[n].start
        BY <3>1 DEF OneAtATime
      <4>1. UnderWay \subseteq {m}
        BY <3>3 DEF RolloutInv, OneAtATime, UnderWay
      <4>2. UnderWay' = {} /\ merge'[k].at # "inserted"
        BY <3>1, <3>2, <3>3, <4>1 DEF UnderWay
      <4>3. ASSUME k \in Committed', n \in Committed', merge'[k].id <= merge'[n].id
            PROVE  merge'[k].start <= merge'[n].start
        <5>1. CASE k \in Committed /\ n \in Committed
          BY <3>2, <4>3, <5>1 DEF RolloutInv, OneAtATime
        <5>2. CASE k = m /\ n \in Committed
          BY <2>2, <3>1, <3>2, <4>3, <5>2 DEF RolloutInv, OneAtATime
        <5>3. CASE n = m /\ k \in Committed
          BY <2>2, <3>1, <3>2, <3>3, <5>3 DEF RolloutInv, OneAtATime
        <5>4. CASE k = m /\ n = m
          BY <2>2, <3>2, <5>4
        <5> QED
          BY <3>3, <4>3, <5>1, <5>2, <5>3, <5>4
      <4> QED
        BY <4>2, <4>3
    <3>6. HeadKnown'
      BY <3>1, <3>2, <3>3 DEF RolloutInv, HeadKnown, Committed
    <3>7. mergesOverlapped \/ (episode.at # "none" => merge[m].start > episode.asOf)
      BY <3>3 DEF RolloutInv, OneAtATime, HeadKnown, Committed
    <3>8. mergesOverlapped \/ (episode.at # "none" => Pinned' = Pinned)
      BY <2>1, <2>2, <3>1, <3>2, <3>3, <3>7 DEF Pinned, Committed, RolloutTypeOK
    <3>9. CheckHolds'
      BY <3>1 DEF CheckHolds
    <3>10. SawPinned'
      BY <3>1, <3>8 DEF RolloutInv, SawPinned
    <3> QED
      BY <2>1, <3>1, <3>4, <3>5, <3>6, <3>9, <3>10 DEF RolloutInv
  <2>6. CASE Reset
    <3>1. PICK m \in Merges :
            /\ IsHead(m)
            /\ episode' = [at |-> "ready", head |-> merge[m].id, asOf |-> merge[m].start,
                           steps |-> 0]
      BY <2>6 DEF Reset
    <3>2. /\ seen' = {} /\ merge' = merge /\ clock' = clock /\ lastId' = lastId
          /\ mergesOverlapped' = mergesOverlapped
      BY <2>6 DEF Reset, graphVars
    <3>3. Committed' = Committed /\ UnderWay' = UnderWay /\ m \in Committed
      BY <3>1, <3>2 DEF Committed, UnderWay, IsHead
    <3>4. Given' /\ OneAtATime'
      BY <3>2, <3>3 DEF RolloutInv, Given, OneAtATime
    <3>5. HeadKnown' /\ CheckHolds' /\ SawPinned'
      BY <3>1, <3>2, <3>3 DEF HeadKnown, CheckHolds, SawPinned
    <3> QED
      BY <2>1, <3>2, <3>4, <3>5 DEF RolloutInv
  <2>7. CASE Walk
    <3>1. /\ episode' = [episode EXCEPT !.at = "recording"] /\ seen' = seen \cup {Pinned}
          /\ UNCHANGED <<graphVars, slipped>> /\ episode.at = "ready"
      BY <2>7 DEF Walk, Returns, Budget, Pinned
    <3> QED
      BY <2>1, <3>1, EpisodeStep DEF RolloutTypeOK
  <2>8. CASE UnpinnedCall \/ Finish
    <3>1. PICK at \in {"recording", "over"} : episode' = [episode EXCEPT !.at = at]
      BY <2>8 DEF UnpinnedCall, Finish
    <3>2. UNCHANGED <<graphVars, slipped, seen>> /\ episode.at = "ready"
      BY <2>8 DEF UnpinnedCall, Finish, Budget
    <3> QED
      BY <2>1, <3>1, <3>2, EpisodeStep DEF RolloutTypeOK
  <2>9. CASE CheckHead
    <3>1. UNCHANGED <<graphVars, slipped, seen>> /\ episode.at = "ready"
      BY <2>9 DEF CheckHead, Budget
    <3>2. CASE \E m \in Merges : IsHead(m) /\ merge[m].id = episode.head
      <4>1. episode' = [episode EXCEPT !.at = "checked"]
        BY <2>9, <3>2 DEF CheckHead
      <4>2. PICK h \in Committed : merge[h].id = episode.head /\ merge[h].start = episode.asOf
        BY <3>1 DEF RolloutInv, HeadKnown
      <4>3. \A n \in Committed : n \in Merges /\ h \in Merges /\ merge[n].id <= merge[h].id
        BY <3>2, <4>2 DEF IsHead, Committed
      <4>4. \A n \in Committed : merge[n].start <= episode.asOf \/ mergesOverlapped
        BY <4>2, <4>3 DEF RolloutInv, OneAtATime
      <4> QED
        BY <2>1, <3>1, <4>1, <4>4, EpisodeStep DEF RolloutTypeOK
    <3>3. CASE ~ \E m \in Merges : IsHead(m) /\ merge[m].id = episode.head
      <4>1. episode' = [episode EXCEPT !.at = "over"]
        BY <2>9, <3>3 DEF CheckHead
      <4> QED
        BY <2>1, <3>1, <4>1, EpisodeStep DEF RolloutTypeOK
    <3> QED
      BY <3>2, <3>3
  <2>10. CASE Search
    <3>1. /\ episode' = [episode EXCEPT !.at = "recording"] /\ seen' = seen \cup {Committed}
          /\ UNCHANGED <<graphVars, slipped>> /\ episode.at = "checked"
      BY <2>10 DEF Search, Returns
    <3>2. Committed = Pinned \/ mergesOverlapped \/ slipped
      BY <3>1 DEF RolloutInv, CheckHolds, Pinned
    <3> QED
      BY <2>1, <3>1, <3>2, EpisodeStep DEF RolloutTypeOK
  <2>11. CASE RecordStep
    <3>1. PICK at \in {"ready", "over"} :
            episode' = [episode EXCEPT !.at = at, !.steps = @ + 1]
      BY <2>11 DEF RecordStep
    <3>2. UNCHANGED <<graphVars, slipped, seen>> /\ episode.at = "recording"
      BY <2>11 DEF RecordStep
    <3> QED
      BY <2>1, <3>1, <3>2, EpisodeStep DEF RolloutTypeOK
  <2> QED
    BY <1>2, <2>3, <2>4, <2>5, <2>6, <2>7, <2>8, <2>9, <2>10, <2>11 DEF RolloutNext
<1> QED
  BY <1>1, <1>2

LEMMA RolloutInvariant == RolloutSpec => []RolloutInv
<1>1. RolloutInit => RolloutInv
  BY RolloutStarts
<1>2. RolloutInv /\ [RolloutNext]_rolloutVars => RolloutInv'
  BY RolloutInductive
<1> QED
  BY <1>1, <1>2, PTL DEF RolloutSpec

\* Every variable of an episode and of the merges keeps its type (RolloutEnv).
THEOREM RolloutTypeCorrect == RolloutSpec => []RolloutTypeOK
<1>1. RolloutInv => RolloutTypeOK
  BY DEF RolloutInv
<1> QED
  BY <1>1, RolloutInvariant, PTL

\* While merges follow one another, and none lands between a check of the head and its
\* query, the pinned queries of an episode see one graph, whatever merges meanwhile
\* (RolloutEnv._assert_commit_unchanged and the as-of forms of the closures).
THEOREM EpisodeAlwaysPinned == RolloutSpec => []EpisodePinned
<1>1. RolloutInv => EpisodePinned
  BY DEF RolloutInv, SawPinned, EpisodePinned
<1> QED
  BY <1>1, RolloutInvariant, PTL

-----------------------------------------------------------------------------
(* Numbers.                                                                *)

\* A set of naturals has a least element.
LEMMA Least ==
  ASSUME NEW T, T \subseteq Nat, T # {}
  PROVE  \E n \in T : \A m \in T : n <= m
<1>1. IsWellFoundedOn(OpToRel(<, Nat), Nat)
  BY NatLessThanWellFounded
<1>2. \A x, y \in Nat : <<y, x>> \in OpToRel(<, Nat) <=> y < x
  BY DEF OpToRel
<1>3. PICK n \in T : \A m \in T : ~(<<m, n>> \in OpToRel(<, Nat))
  BY <1>1, WFMin
<1>4. \A m \in T : ~(m < n)
  BY <1>2, <1>3
<1> QED
  BY <1>4

LEMMA Greatest ==
  ASSUME NEW T, T \subseteq Nat, T # {}, NEW B \in Nat, \A t \in T : t <= B
  PROVE  \E m \in T : \A t \in T : t <= m
<1> DEFINE U == {u \in Nat : \A t \in T : t <= u}
<1>1. U \subseteq Nat /\ B \in U
  OBVIOUS
<1>2. PICK u \in U : \A v \in U : u <= v
  BY <1>1, Least
<1>3. CASE u \in T
  BY <1>3
<1>4. CASE u \notin T
  <2>1. u \in Nat /\ \A t \in T : t \in Nat /\ t < u
    BY <1>4
  <2>2. u - 1 \in Nat /\ \A t \in T : t <= u - 1
    <3>1. PICK t \in T : t \in Nat /\ t < u
      BY <2>1
    <3> HIDE DEF U
    <3> QED
      BY <2>1, <3>1
  <2>3. u - 1 \in U
    BY <2>2
  <2> QED
    BY <1>2, <2>3
<1> QED
  BY <1>3, <1>4

\* Induction over a set: what it leaves out would have a least element.
LEMMA Induct ==
  ASSUME NEW T, T \subseteq Nat, 0 \in T, \A n \in T : n + 1 \in T
  PROVE  \A n \in Nat : n \in T
<1> SUFFICES ASSUME Nat \ T # {} PROVE FALSE
  OBVIOUS
<1>1. PICK n \in Nat \ T : \A m \in Nat \ T : n <= m
  BY Least
<1>2. n # 0 /\ n - 1 \in Nat
  OBVIOUS
<1>3. n - 1 \in T
  BY <1>1, <1>2
<1> QED
  BY <1>2, <1>3

\* What a finite set is measured by has a bound.
LEMMA FiniteBound ==
  ASSUME NEW S, IsFiniteSet(S), NEW f, \A s \in S : f[s] \in Nat
  PROVE  \E B \in Nat : \A s \in S : f[s] <= B
<1>1. PICK q \in Seq(S) : \A s \in S : \E i \in 1..Len(q) : q[i] = s
  BY DEF IsFiniteSet
<1>2. Len(q) \in Nat /\ \A i \in 1..Len(q) : q[i] \in S
  OBVIOUS
<1>3. \A i \in 1..Len(q) : f[q[i]] \in Nat
  BY <1>2
<1> DEFINE Bounds(n, B) == \A i \in 1..n : f[q[i]] <= B
           T == {n \in Nat : n <= Len(q) => \E B \in Nat : Bounds(n, B)}
<1>4. 0 \in T
  <2>1. Bounds(0, 0)
    OBVIOUS
  <2> HIDE DEF Bounds
  <2> QED
    BY <2>1
<1>5. ASSUME NEW n \in T PROVE n + 1 \in T
  <2>1. n \in Nat /\ (n <= Len(q) => \E B \in Nat : Bounds(n, B))
    OBVIOUS
  <2> SUFFICES ASSUME n + 1 <= Len(q) PROVE \E B \in Nat : Bounds(n + 1, B)
    BY <2>1
  <2>2. PICK B \in Nat : Bounds(n, B)
    BY <1>2, <2>1
  <2>3. f[q[n + 1]] \in Nat
    BY <1>2, <1>3, <2>1
  <2>4. PICK C \in Nat : B <= C /\ f[q[n + 1]] <= C
    <3> HIDE DEF T
    <3> DEFINE C == B + f[q[n + 1]]
    <3>1. C \in Nat /\ B <= C /\ f[q[n + 1]] <= C
      BY <2>3
    <3> QED
      BY <3>1
  <2>5. Bounds(n + 1, C)
    <3> SUFFICES ASSUME NEW i \in 1..(n + 1) PROVE f[q[i]] <= C
      OBVIOUS
    <3> HIDE DEF T
    <3>1. CASE i = n + 1
      BY <2>4, <3>1
    <3>2. CASE i # n + 1
      <4>1. i \in 1..n /\ f[q[i]] \in Nat
        BY <1>2, <1>3, <2>1, <3>2
      <4>2. f[q[i]] <= B
        BY <2>2, <4>1
      <4> QED
        BY <2>4, <4>1, <4>2
    <3> QED
      BY <3>1, <3>2
  <2> QED
    BY <2>5
<1>6. Len(q) \in T
  <2> HIDE DEF T
  <2>1. T \subseteq Nat
    BY DEF T
  <2> QED
    BY <1>2, <1>4, <1>5, <2>1, Induct
<1>7. PICK B \in Nat : Bounds(Len(q), B)
  BY <1>2, <1>6
<1> SUFFICES ASSUME NEW s \in S PROVE f[s] <= B
  OBVIOUS
<1>8. PICK i \in 1..Len(q) : q[i] = s
  BY <1>1
<1> QED
  BY <1>7, <1>8

LEMMA Products ==
  ASSUME NEW a \in Nat, NEW b \in Nat, NEW c \in Nat, NEW d \in Nat, a <= b, c <= d
  PROVE  a * c \in Nat /\ a * c <= b * c /\ a * c <= b * d
<1>1. PICK x \in Nat : b = a + x
  <2>1. b - a \in Nat /\ b = a + (b - a)
    OBVIOUS
  <2> QED
    BY <2>1
<1>2. PICK y \in Nat : d = c + y
  <2>1. d - c \in Nat /\ d = c + (d - c)
    OBVIOUS
  <2> QED
    BY <2>1
<1>3. b * c = a * c + x * c /\ b * d = b * c + b * y
  BY <1>1, <1>2
<1>4. x * c \in Nat /\ b * y \in Nat /\ a * c \in Nat /\ b * c \in Nat
  OBVIOUS
<1>5. a * c <= b * c
  BY <1>3, <1>4
<1>6. b * c <= b * d
  BY <1>3, <1>4
<1>7. b * d \in Nat
  OBVIOUS
<1> QED
  BY <1>4, <1>5, <1>6, <1>7

-----------------------------------------------------------------------------
(* The traversal.                                                          *)

\* The rows that close no cycle.
Kept == {w \in rows : ~Closes(w.path)}
\* One of them ends in k after at most n - 1 edges.
ReachedBy(k, n) == \E w \in Kept : End(w.path) = k /\ Len(w.path) <= n
Started == phase \in {"walking", "done"}
\* k is reached by a walk of n edges and by none that is shorter.
FirstAt(k, n) == Reaches(k, n) /\ \A m \in 0..(n - 1) : ~Reaches(k, m)

PathsAreWalks == \A w \in rows : Len(w.path) \in 1..(level + 1) /\ IsWalk(w.path)
\* The nodes of a row's path have rows of their own.
NodesKept == \A w \in Kept : \A i \in 1..Len(w.path) : ReachedBy(w.path[i], i)
\* But for the last level, each row has been extended along each edge.
Extended == \A w \in Kept : Len(w.path) <= level =>
  \A k \in Keys : Connects(End(w.path), k) => ReachedBy(k, Len(w.path) + 1)
\* So whatever walk leads to a node, a row that is no longer does.
AllReached == Started => \A n \in 0..level : \A k \in Keys : Reaches(k, n) => ReachedBy(k, n + 1)
\* A node reached has a shortest row.
HasLeast == \A w \in Kept : \E v \in Kept : End(v.path) = End(w.path) /\
  \A u \in Kept : End(u.path) = End(w.path) => Len(v.path) <= Len(u.path)

TraverseInv ==
  /\ TraverseTypeOK /\ (~Started => rows = {} /\ level = 0)
  /\ PathsAreWalks /\ NodesKept /\ Extended /\ AllReached /\ HasLeast /\ ReachExact

LEMMA PathFacts ==
  ASSUME TraverseTypeOK, PathsAreWalks, NEW w \in rows
  PROVE  /\ w.path \in Seq(Keys) /\ Len(w.path) \in Nat /\ Len(w.path) >= 1
         /\ Len(w.path) <= level + 1 /\ level \in Nat
         /\ End(w.path) \in Keys /\ End(w.path) = w.path[Len(w.path)]
<1>1. w.path \in Seq(Keys) /\ query \in QueryShape
  BY TraverseOK DEF TraverseTypeOK, NodeRows
<1>2. query.hops \in Nat /\ level \in Nat
  BY <1>1 DEF QueryShape, TraverseTypeOK
<1> QED
  BY <1>1, <1>2 DEF PathsAreWalks, End

LEMMA RowsOfKept == \A k : RowsOf(k) = {w \in Kept : End(w.path) = k}
BY DEF RowsOf, Kept

\* A path and one key more.
LEMMA Longer ==
  ASSUME NEW p \in Seq(Keys), NEW k \in Keys
  PROVE  /\ Append(p, k) \in Seq(Keys) /\ Len(Append(p, k)) = Len(p) + 1
         /\ End(Append(p, k)) = k
         /\ \A i \in 1..Len(p) : Append(p, k)[i] = p[i]
         /\ Closes(Append(p, k)) <=> \E i \in 1..Len(p) : p[i] = k
<1>1. /\ Append(p, k) \in Seq(Keys) /\ Len(Append(p, k)) = Len(p) + 1 /\ Len(p) \in Nat
      /\ Append(p, k)[Len(p) + 1] = k
      /\ \A i \in 1..Len(p) : Append(p, k)[i] = p[i]
  OBVIOUS
<1>2. End(Append(p, k)) = k
  BY <1>1 DEF End
<1> QED
  BY <1>1, <1>2 DEF Closes

\* What a step keeps that adds no row.
LEMMA NoRows ==
  ASSUME TraverseInv, UNCHANGED <<graphKeys, graphEdges, query, rows, level>>, TraverseTypeOK',
         Started' => Started, Started => Started', ReachExact'
  PROVE  TraverseInv'
<1>1. Kept' = Kept /\ \A k, n : ReachedBy(k, n)' <=> ReachedBy(k, n)
  BY DEF Kept, ReachedBy
<1>2. \A j, k : Connects(j, k)' <=> Connects(j, k)
  BY DEF Connects, Leads
<1>3. \A k, n : Reaches(k, n)' <=> Reaches(k, n)
  BY <1>2 DEF Reaches, IsWalk
<1>4. PathsAreWalks'
  BY <1>2 DEF TraverseInv, PathsAreWalks, IsWalk
<1>5. NodesKept' /\ Extended' /\ AllReached' /\ HasLeast'
  BY <1>1, <1>2, <1>3 DEF TraverseInv, NodesKept, Extended, AllReached, HasLeast
<1> QED
  BY <1>4, <1>5 DEF TraverseInv

LEMMA SeedStep == TraverseInv /\ Seed => TraverseInv'
<1> SUFFICES ASSUME TraverseInv, Seed PROVE TraverseInv'
  OBVIOUS
<1>1. /\ phase = "asked" /\ phase' = "walking" /\ level = 0 /\ level' = 0
      /\ rows' = {[path |-> <<k>>, conf |-> 1] : k \in query.starts}
      /\ UNCHANGED <<graphKeys, graphEdges, query, level, answer>>
  BY DEF Seed, TraverseInv, Started
<1>2. query \in QueryShape /\ query.starts \subseteq Keys
  BY TraverseOK DEF TraverseInv, TraverseTypeOK, QueryShape
<1>3. \A k \in Keys : /\ <<k>> \in Seq(Keys) /\ Len(<<k>>) = 1 /\ End(<<k>>) = k
                      /\ <<k>>[1] = k /\ ~Closes(<<k>>)
  BY DEF End, Closes
<1>4. \A w \in rows' : \E k \in query.starts : w = [path |-> <<k>>, conf |-> 1] /\ w.path = <<k>>
  BY <1>1
<1>5. \A w \in rows' : /\ w \in NodeRows /\ Len(w.path) = 1 /\ End(w.path) \in query.starts
                       /\ w.path[1] = End(w.path) /\ ~Closes(w.path)
  <2> SUFFICES ASSUME NEW w \in rows'
               PROVE  /\ w \in NodeRows /\ Len(w.path) = 1 /\ End(w.path) \in query.starts
                      /\ w.path[1] = End(w.path) /\ ~Closes(w.path)
    OBVIOUS
  <2>1. PICK k \in query.starts : w = [path |-> <<k>>, conf |-> 1] /\ w.path = <<k>>
    BY <1>4
  <2>2. /\ <<k>> \in Seq(Keys) /\ Len(<<k>>) = 1 /\ End(<<k>>) = k
        /\ <<k>>[1] = k /\ ~Closes(<<k>>)
    BY <1>2, <1>3
  <2>3. w \in NodeRows
    BY <2>1, <2>2 DEF NodeRows
  <2>4. Len(w.path) = 1 /\ End(w.path) = k /\ w.path[1] = k /\ ~Closes(w.path)
    BY <2>1, <2>2
  <2> QED
    BY <2>3, <2>4
<1>6. \A k \in query.starts : \E w \in rows' : End(w.path) = k
  <2> SUFFICES ASSUME NEW k \in query.starts PROVE \E w \in rows' : End(w.path) = k
    OBVIOUS
  <2>1. [path |-> <<k>>, conf |-> 1] \in rows' /\ [path |-> <<k>>, conf |-> 1].path = <<k>>
    BY <1>1
  <2> QED
    BY <1>2, <1>3, <2>1
<1>7. Kept' = rows'
  BY <1>5 DEF Kept
<1>8. TraverseTypeOK'
  BY <1>1, <1>5 DEF TraverseInv, TraverseTypeOK
<1>9. PathsAreWalks'
  <2>1. \A w \in rows' : w.path[1] \in query'.starts /\ Len(w.path) = 1
    BY <1>1, <1>5
  <2> QED
    BY <1>1, <2>1 DEF PathsAreWalks, IsWalk
<1>10. NodesKept'
  <2> SUFFICES ASSUME NEW v \in Kept', NEW i \in 1..Len(v.path) PROVE ReachedBy(v.path[i], i)'
    BY DEF NodesKept
  <2>1. Len(v.path) = 1 /\ v.path[1] = End(v.path)
    BY <1>5, <1>7
  <2>2. i = 1
    BY <2>1
  <2>3. End(v.path) = v.path[i] /\ Len(v.path) <= i
    BY <2>1, <2>2
  <2> QED
    BY <2>3 DEF ReachedBy
<1>11. Extended'
  BY <1>1, <1>5, <1>7 DEF Extended
<1>12. AllReached'
  <2> SUFFICES ASSUME NEW k \in Keys, Reaches(k, 0)' PROVE ReachedBy(k, 1)'
    BY <1>1 DEF AllReached
  <2>1. k \in query.starts
    BY <1>1 DEF Reaches, IsWalk
  <2> QED
    <3>1. PICK w \in rows' : End(w.path) = k
      BY <1>6, <2>1
    <3>2. Len(w.path) = 1 /\ w \in Kept'
      BY <1>5, <1>7
    <3>3. Len(w.path) <= 1
      BY <3>2
    <3>4. \E u \in Kept' : End(u.path) = k /\ Len(u.path) <= 1
      BY <3>1, <3>2, <3>3, Zenon
    <3> QED
      BY <3>4 DEF ReachedBy
<1>13. HasLeast'
  <2>1. \A v \in rows', u \in rows' : Len(v.path) <= Len(u.path)
    BY <1>5
  <2> QED
    BY <1>7, <2>1 DEF HasLeast
<1>14. ReachExact' /\ (~Started => rows = {} /\ level = 0)'
  BY <1>1 DEF ReachExact, Started
<1> QED
  BY <1>8, <1>9, <1>10, <1>11, <1>12, <1>13, <1>14 DEF TraverseInv

LEMMA ExpandStep == TraverseInv /\ Expand => TraverseInv'
<1> SUFFICES ASSUME TraverseInv, Expand PROVE TraverseInv'
  OBVIOUS
<1> DEFINE working == {w \in rows : Len(w.path) = level + 1 /\ ~Closes(w.path)}
           Extends(w, k, e, v) == /\ Leads(e, End(w.path), k)
                                  /\ v = [path |-> Append(w.path, k), conf |-> w.conf * e.conf]
<1>1. /\ phase = "walking" /\ phase' = "walking" /\ level < query.hops /\ level' = level + 1
      /\ UNCHANGED <<graphKeys, graphEdges, query, answer>>
  BY DEF Expand
<1>2. \A v : v \in rows' <=>
        v \in rows \/ \E w \in working, k \in Keys, e \in graphEdges : Extends(w, k, e, v)
  <2> DEFINE new(w, k) == {[path |-> Append(w.path, k), conf |-> w.conf * e.conf] :
                             e \in {e \in graphEdges : Leads(e, End(w.path), k)}}
  <2>1. rows' = rows \cup UNION {new(w, k) : w \in working, k \in Keys}
    BY DEF Expand
  <2>2. \A w, k, v : v \in new(w, k) <=> \E e \in graphEdges : Extends(w, k, e, v)
    OBVIOUS
  <2> HIDE DEF new, Extends, working
  <2> DEFINE news == UNION {new(w, k) : w \in working, k \in Keys}
  <2>3. \A v : v \in news <=> \E w \in working, k \in Keys : v \in new(w, k)
    OBVIOUS
  <2>4. \A v : v \in news <=> \E w \in working, k \in Keys, e \in graphEdges : Extends(w, k, e, v)
    <3> SUFFICES ASSUME NEW v
                 PROVE  v \in news <=>
                          \E w \in working, k \in Keys, e \in graphEdges : Extends(w, k, e, v)
      OBVIOUS
    <3> HIDE DEF news
    <3>1. \A w \in working, k \in Keys : v \in new(w, k) <=> \E e \in graphEdges : Extends(w, k, e, v)
      BY <2>2
    <3>2. v \in news <=> \E w \in working, k \in Keys : v \in new(w, k)
      BY <2>3
    <3> QED
      BY <3>1, <3>2
  <2>5. rows' = rows \cup news
    BY <2>1
  <2> HIDE DEF news
  <2> QED
    BY <2>5, <2>4
<1>3. /\ \A w \in rows : /\ w.path \in Seq(Keys) /\ Len(w.path) \in Nat /\ Len(w.path) >= 1
                         /\ Len(w.path) <= level + 1 /\ End(w.path) \in Keys
                         /\ End(w.path) = w.path[Len(w.path)]
      /\ level \in Nat /\ query.hops \in Nat
  BY PathFacts, TraverseOK DEF TraverseInv, TraverseTypeOK, QueryShape
<1>4. \A w \in rows : w.conf \in Nat
  BY DEF TraverseInv, TraverseTypeOK, NodeRows
<1>5. \A e \in graphEdges : e.conf \in Nat
  BY TraverseOK DEF TraverseInv, TraverseTypeOK, EdgeShape
<1>6. \A v \in rows' : v \in rows \/ \E w \in working, k \in Keys :
        /\ v \in NodeRows /\ Connects(End(w.path), k) /\ v.path = Append(w.path, k)
        /\ v.path \in Seq(Keys) /\ Len(v.path) = level + 2 /\ End(v.path) = k
        /\ (\A i \in 1..(level + 1) : v.path[i] = w.path[i])
        /\ Closes(v.path) <=> \E i \in 1..(level + 1) : w.path[i] = k
  <2> SUFFICES ASSUME NEW v, NEW w \in working, NEW k \in Keys, NEW e \in graphEdges,
                      Extends(w, k, e, v)
               PROVE  /\ v \in NodeRows /\ Connects(End(w.path), k) /\ v.path = Append(w.path, k)
                      /\ v.path \in Seq(Keys) /\ Len(v.path) = level + 2 /\ End(v.path) = k
                      /\ (\A i \in 1..(level + 1) : v.path[i] = w.path[i])
                      /\ Closes(v.path) <=> \E i \in 1..(level + 1) : w.path[i] = k
    BY <1>2
  <2>1. w \in rows /\ w.path \in Seq(Keys) /\ Len(w.path) = level + 1
    BY <1>3
  <2>2. v = [path |-> Append(w.path, k), conf |-> w.conf * e.conf] /\ v.path = Append(w.path, k)
    OBVIOUS
  <2>3. w.conf * e.conf \in Nat
    BY <1>4, <1>5, <2>1
  <2>4. Append(w.path, k) \in Seq(Keys)
    BY <2>1, Longer
  <2>5. v \in NodeRows
    BY <2>2, <2>3, <2>4 DEF NodeRows
  <2>6. Connects(End(w.path), k)
    BY DEF Connects
  <2>7. Len(v.path) = level + 2
    BY <1>3, <2>1, <2>2, Longer
  <2> QED
    BY <2>1, <2>2, <2>4, <2>5, <2>6, <2>7, Longer
<1>7. \A w \in working, k \in Keys : Connects(End(w.path), k) =>
        \E v \in rows' : v.path = Append(w.path, k)
  <2> SUFFICES ASSUME NEW w \in working, NEW k \in Keys, NEW e \in graphEdges,
                      Leads(e, End(w.path), k)
               PROVE  \E v \in rows' : v.path = Append(w.path, k)
    BY DEF Connects
  <2> DEFINE v == [path |-> Append(w.path, k), conf |-> w.conf * e.conf]
  <2>1. Extends(w, k, e, v) /\ v.path = Append(w.path, k)
    OBVIOUS
  <2>2. v \in rows'
    BY <1>2, <2>1
  <2> QED
    BY <2>1, <2>2
<1> HIDE DEF Extends
<1>8. working \subseteq Kept /\ working \subseteq rows /\ \A w \in working : Len(w.path) = level + 1
  BY DEF Kept
<1>9. rows \subseteq rows' /\ Kept \subseteq Kept' /\ Kept \subseteq rows
  BY <1>2 DEF Kept
<1>10. \A v \in Kept' : v \in Kept \/ v \in rows' \ rows
  BY DEF Kept
<1>11. \A k, n : ReachedBy(k, n) => ReachedBy(k, n)'
  BY <1>9 DEF ReachedBy
<1>12. /\ \A j, k : Connects(j, k)' <=> Connects(j, k)
       /\ \A p : IsWalk(p)' <=> IsWalk(p)
       /\ \A k, n : Reaches(k, n)' <=> Reaches(k, n)
  BY <1>1 DEF Connects, Leads, IsWalk, Reaches
<1>13. TraverseTypeOK'
  <2>1. rows' \subseteq NodeRows
    BY <1>6 DEF TraverseInv, TraverseTypeOK
  <2>2. level' \in 0..query'.hops
    BY <1>1, <1>3
  <2> QED
    BY <1>1, <2>1, <2>2 DEF TraverseInv, TraverseTypeOK
<1>14. PathsAreWalks'
  <2> SUFFICES ASSUME NEW v \in rows' PROVE Len(v.path) \in 1..(level + 2) /\ IsWalk(v.path)
    <3>1. level' + 1 = level + 2
      BY <1>1, <1>3
    <3> QED
      BY <1>12, <3>1 DEF PathsAreWalks
  <2>1. CASE v \in rows
    BY <1>3, <2>1 DEF TraverseInv, PathsAreWalks
  <2>2. CASE v \notin rows
    <3>1. PICK w \in working, k \in Keys :
            /\ Connects(End(w.path), k) /\ Len(v.path) = level + 2 /\ End(v.path) = k
            /\ \A i \in 1..(level + 1) : v.path[i] = w.path[i]
      BY <1>6, <2>2
    <3>2. IsWalk(w.path) /\ Len(w.path) = level + 1 /\ End(w.path) = w.path[level + 1]
      BY <1>3, <1>8 DEF TraverseInv, PathsAreWalks
    <3>3. v.path[level + 2] = k
      BY <3>1 DEF End
    <3>4. v.path[1] \in query.starts
      BY <1>3, <3>1, <3>2 DEF IsWalk
    <3>5. ASSUME NEW i \in 2..(level + 2) PROVE Connects(v.path[i - 1], v.path[i])
      <4>1. CASE i = level + 2
        <5>1. v.path[i - 1] = End(w.path)
          BY <1>3, <3>1, <3>2, <4>1
        <5> QED
          BY <3>1, <3>3, <4>1, <5>1
      <4>2. CASE i # level + 2
        <5>1. i \in 2..(level + 1) /\ i \in 1..(level + 1) /\ i - 1 \in 1..(level + 1)
          BY <1>3, <4>2
        <5> QED
          BY <3>1, <3>2, <5>1 DEF IsWalk
      <4> QED
        BY <4>1, <4>2
    <3> QED
      BY <1>3, <3>1, <3>4, <3>5 DEF IsWalk
  <2> QED
    BY <2>1, <2>2
<1>15. NodesKept'
  <2> SUFFICES ASSUME NEW v \in Kept', NEW i \in 1..Len(v.path) PROVE ReachedBy(v.path[i], i)'
    BY DEF NodesKept
  <2>1. CASE v \in Kept
    BY <1>11, <2>1 DEF TraverseInv, NodesKept
  <2>2. CASE v \notin Kept
    <3>1. PICK w \in working, k \in Keys :
            /\ Len(v.path) = level + 2 /\ End(v.path) = k
            /\ \A j \in 1..(level + 1) : v.path[j] = w.path[j]
      BY <1>6, <1>10, <2>2
    <3>2. CASE i = level + 2
      <4>1. End(v.path) = v.path[i] /\ Len(v.path) <= i
        BY <1>3, <3>1, <3>2 DEF End
      <4> QED
        BY <4>1 DEF ReachedBy
    <3>3. CASE i # level + 2
      <4>1. i \in 1..(level + 1) /\ v.path[i] = w.path[i] /\ w \in Kept /\ i \in 1..Len(w.path)
        BY <1>3, <1>8, <3>1, <3>3
      <4>2. ReachedBy(w.path[i], i)
        BY <4>1 DEF TraverseInv, NodesKept
      <4> QED
        BY <1>11, <4>1, <4>2
    <3> QED
      BY <3>2, <3>3
  <2> QED
    BY <2>1, <2>2
<1>16. \A w \in Kept : \A k \in Keys : Connects(End(w.path), k) => ReachedBy(k, Len(w.path) + 1)'
  <2> SUFFICES ASSUME NEW w \in Kept, NEW k \in Keys, Connects(End(w.path), k)
               PROVE  ReachedBy(k, Len(w.path) + 1)'
    OBVIOUS
  <2>1. CASE Len(w.path) <= level
    BY <1>11, <2>1 DEF TraverseInv, Extended
  <2>2. CASE ~(Len(w.path) <= level)
    <3>1. w \in rows /\ ~Closes(w.path)
      BY DEF Kept
    <3>2. w \in working /\ Len(w.path) = level + 1 /\ w.path \in Seq(Keys)
      BY <1>3, <2>2, <3>1
    <3>3. PICK v \in rows' : v.path = Append(w.path, k)
      BY <1>7, <3>2
    <3>4. /\ Len(v.path) = level + 2 /\ End(v.path) = k
          /\ Closes(v.path) <=> \E i \in 1..(level + 1) : w.path[i] = k
      BY <1>3, <3>2, <3>3, Longer
    <3>5. CASE ~Closes(v.path)
      <4>1. v \in Kept' /\ Len(v.path) <= Len(w.path) + 1
        BY <1>3, <3>2, <3>4, <3>5 DEF Kept
      <4> QED
        BY <3>4, <4>1 DEF ReachedBy
    <3>6. CASE Closes(v.path)
      <4>1. PICK i \in 1..(level + 1) : w.path[i] = k
        BY <3>4, <3>6
      <4>2. ReachedBy(k, i)
        BY <3>2, <4>1 DEF TraverseInv, NodesKept
      <4>3. PICK u \in Kept : End(u.path) = k /\ Len(u.path) <= i
        BY <4>2 DEF ReachedBy
      <4>4. u \in Kept' /\ Len(u.path) <= Len(w.path) + 1
        BY <1>3, <1>9, <3>2, <4>1, <4>3
      <4> QED
        BY <4>3, <4>4 DEF ReachedBy
    <3> QED
      BY <3>5, <3>6
  <2> QED
    BY <2>1, <2>2
<1>17. Extended'
  <2> SUFFICES ASSUME NEW v \in Kept', Len(v.path) <= level + 1, NEW k \in Keys,
                      Connects(End(v.path), k)
               PROVE  ReachedBy(k, Len(v.path) + 1)'
    BY <1>1, <1>12 DEF Extended
  <2>1. v \in Kept
    BY <1>3, <1>6, <1>10
  <2> QED
    BY <1>16, <2>1
<1>18. AllReached'
  <2> SUFFICES ASSUME NEW n \in 0..(level + 1), NEW k \in Keys, Reaches(k, n)
               PROVE  ReachedBy(k, n + 1)'
    BY <1>1, <1>12 DEF AllReached
  <2>1. CASE n <= level
    <3>1. n \in 0..level /\ Started
      BY <1>1, <1>3, <2>1 DEF Started
    <3> QED
      BY <1>11, <3>1 DEF TraverseInv, AllReached
  <2>2. CASE ~(n <= level)
    <3>1. n = level + 1 /\ Started /\ level \in 0..level
      BY <1>1, <1>3, <2>2 DEF Started
    <3>2. PICK p \in [1..(n + 1) -> Keys] : IsWalk(p) /\ p[n + 1] = k
      BY DEF Reaches
    <3> DEFINE q == [i \in 1..(level + 1) |-> p[i]]
    <3>3. q \in [1..(level + 1) -> Keys] /\ q[level + 1] = p[level + 1] /\ p[level + 1] \in Keys
      BY <1>3, <3>1
    <3>4. p \in Seq(Keys) /\ Len(p) = level + 2 /\ q \in Seq(Keys) /\ Len(q) = level + 1
      BY <1>3, <3>1, <3>2, <3>3
    <3>5. IsWalk(q) /\ Connects(p[level + 1], k)
      <4>1. p[1] \in query.starts /\ \A i \in 2..(level + 2) : Connects(p[i - 1], p[i])
        BY <3>2, <3>4 DEF IsWalk
      <4>2. q[1] = p[1] /\ \A i \in 2..(level + 1) : q[i - 1] = p[i - 1] /\ q[i] = p[i]
        BY <1>3
      <4>3. Connects(p[level + 1], k)
        <5>1. level + 2 \in 2..(level + 2) /\ (level + 2) - 1 = level + 1 /\ p[level + 2] = k
          BY <1>3, <3>1, <3>2
        <5> QED
          BY <4>1, <5>1
      <4>4. \A i \in 2..(level + 1) : i \in 2..(level + 2)
        BY <1>3
      <4> QED
        BY <3>4, <4>1, <4>2, <4>3, <4>4 DEF IsWalk
    <3>6. Reaches(p[level + 1], level)
      BY <3>3, <3>5 DEF Reaches
    <3>7. ReachedBy(p[level + 1], level + 1)
      BY <3>1, <3>3, <3>6 DEF TraverseInv, AllReached
    <3>8. PICK w \in Kept : End(w.path) = p[level + 1] /\ Len(w.path) <= level + 1
      BY <3>7 DEF ReachedBy
    <3>9. ReachedBy(k, Len(w.path) + 1)'
      BY <1>16, <3>5, <3>8
    <3>10. Len(w.path) + 1 <= n + 1 /\ \A x \in Kept' : Len(x.path) \in Nat
      BY <1>1, <1>3, <1>6, <1>9, <1>10, <3>1, <3>8
    <3> QED
      BY <1>3, <1>9, <3>1, <3>8, <3>9, <3>10 DEF ReachedBy
  <2> QED
    BY <2>1, <2>2
<1>19. HasLeast'
  <2>1. \A v \in Kept' : \/ v \in Kept /\ Len(v.path) \in Nat /\ Len(v.path) <= level + 1
                         \/ v \notin Kept /\ Len(v.path) = level + 2
    BY <1>3, <1>6, <1>9, <1>10
  <2> SUFFICES ASSUME NEW w \in Kept'
               PROVE  \E v \in Kept' : End(v.path) = End(w.path) /\
                        \A u \in Kept' : End(u.path) = End(w.path) => Len(v.path) <= Len(u.path)
    BY DEF HasLeast
  <2>2. CASE \E x \in Kept : End(x.path) = End(w.path)
    <3>1. PICK v \in Kept : /\ End(v.path) = End(w.path)
                            /\ \A u \in Kept : End(u.path) = End(w.path) => Len(v.path) <= Len(u.path)
      BY <2>2 DEF TraverseInv, HasLeast
    <3>2. v \in Kept' /\ Len(v.path) \in Nat /\ Len(v.path) <= level + 1
      BY <1>9, <2>1, <3>1
    <3> QED
      BY <1>3, <2>1, <3>1, <3>2
  <2>3. CASE ~\E x \in Kept : End(x.path) = End(w.path)
    BY <1>3, <2>1, <2>3
  <2> QED
    BY <2>2, <2>3
<1>20. ReachExact' /\ (~Started => rows = {} /\ level = 0)'
  BY <1>1 DEF ReachExact, Started
<1> QED
  BY <1>13, <1>14, <1>15, <1>17, <1>18, <1>19, <1>20 DEF TraverseInv

\* A row is a walk as long as its depth.
LEMMA RowWalks ==
  ASSUME TraverseInv, NEW w \in rows
  PROVE  Len(w.path) - 1 \in 0..level /\ Reaches(End(w.path), Len(w.path) - 1)
<1>1. /\ w.path \in Seq(Keys) /\ Len(w.path) \in Nat /\ Len(w.path) >= 1
      /\ Len(w.path) <= level + 1 /\ level \in Nat /\ End(w.path) = w.path[Len(w.path)]
  BY PathFacts DEF TraverseInv
<1>2. w.path \in [1..((Len(w.path) - 1) + 1) -> Keys] /\ (Len(w.path) - 1) + 1 = Len(w.path)
  BY <1>1
<1>3. IsWalk(w.path) /\ w.path[Len(w.path)] = End(w.path)
  BY <1>1 DEF TraverseInv, PathsAreWalks
<1>4. Len(w.path) - 1 \in 0..level
  BY <1>1
<1> QED
  BY <1>2, <1>3, <1>4 DEF Reaches

\* The depth answered of a node is that of its shortest walk.
LEMMA DepthIs ==
  ASSUME TraverseInv, Started, NEW k \in Keys, RowsOf(k) # {}
  PROVE  Depth(k) \in 0..level /\ FirstAt(k, Depth(k))
<1>1. \A w \in Kept : /\ Len(w.path) \in Nat /\ Len(w.path) - 1 \in 0..level
                      /\ Reaches(End(w.path), Len(w.path) - 1)
  BY RowWalks, PathFacts DEF Kept, TraverseInv
<1>2. level \in Nat
  BY TraverseOK DEF TraverseInv, TraverseTypeOK, QueryShape
<1>3. PICK w \in Kept : End(w.path) = k
  BY RowsOfKept
<1>4. PICK v \in Kept : /\ End(v.path) = k
                        /\ \A u \in Kept : End(u.path) = k => Len(v.path) <= Len(u.path)
  BY <1>3 DEF TraverseInv, HasLeast
<1> DEFINE lens == {Len(u.path) - 1 : u \in RowsOf(k)}
<1>5. Depth(k) = CHOOSE d \in lens : \A other \in lens : d <= other
  BY DEF Depth
<1>6. Len(v.path) - 1 \in lens /\ \A other \in lens : Len(v.path) - 1 <= other
  <2>1. v \in RowsOf(k) /\ \A u \in RowsOf(k) : u \in Kept /\ End(u.path) = k
    BY <1>4, RowsOfKept
  <2>2. \A u \in RowsOf(k) : Len(v.path) <= Len(u.path) /\ Len(u.path) \in Nat /\ Len(v.path) \in Nat
    BY <1>1, <1>4, <2>1
  <2> QED
    BY <2>1, <2>2
<1>7. Depth(k) \in lens /\ \A other \in lens : Depth(k) <= other
  <2> HIDE DEF lens
  <2> QED
    BY <1>5, <1>6
<1>8. PICK u \in Kept : End(u.path) = k /\ Depth(k) = Len(u.path) - 1
  BY <1>7, RowsOfKept
<1>9. ASSUME NEW n \in 0..(Depth(k) - 1), Reaches(k, n) PROVE FALSE
  <2>1. n \in 0..level /\ n < Depth(k)
    BY <1>1, <1>2, <1>8, <1>9
  <2>2. PICK x \in Kept : End(x.path) = k /\ Len(x.path) <= n + 1
    BY <1>9, <2>1 DEF TraverseInv, AllReached, ReachedBy
  <2>3. Len(x.path) - 1 \in lens
    BY <2>2, RowsOfKept
  <2>4. Depth(k) <= Len(x.path) - 1 /\ Len(x.path) \in Nat /\ Depth(k) \in 0..level
    BY <1>1, <1>7, <1>8, <2>2, <2>3
  <2> QED
    BY <1>2, <2>1, <2>2, <2>4
<1> QED
  BY <1>1, <1>8, <1>9 DEF FirstAt

LEMMA AnswerStep == TraverseInv /\ Answer => TraverseInv'
<1> SUFFICES ASSUME TraverseInv, Answer PROVE TraverseInv'
  OBVIOUS
<1> DEFINE reach == {k \in graphKeys : \E n \in 0..query.hops : Reaches(k, n)}
           found == {k \in graphKeys : RowsOf(k) # {}}
<1>1. /\ phase = "walking" /\ phase' = "done" /\ level = query.hops
      /\ answer' = [k \in FirstOf(found, query.nodes) |->
                      [depth |-> Depth(k), conf |-> PathConfidence(k)]]
      /\ UNCHANGED <<graphKeys, graphEdges, query, rows, level>>
  BY DEF Answer
<1>2. Started /\ graphKeys \subseteq Keys
  BY <1>1 DEF Started, TraverseInv, TraverseTypeOK
<1>3. \A w \in Kept : Len(w.path) - 1 \in 0..query.hops /\ Reaches(End(w.path), Len(w.path) - 1)
  BY <1>1, RowWalks DEF Kept
<1>4. \A k \in Keys : \A n \in 0..query.hops : Reaches(k, n) => \E w \in Kept : End(w.path) = k
  BY <1>1 DEF TraverseInv, AllReached, Started, ReachedBy
<1>5. found = reach
  <2>1. ASSUME NEW k \in graphKeys, RowsOf(k) # {} PROVE \E n \in 0..query.hops : Reaches(k, n)
    <3>1. PICK w \in Kept : End(w.path) = k
      BY <2>1, RowsOfKept
    <3> QED
      BY <1>3, <3>1
  <2>2. ASSUME NEW k \in graphKeys, \E n \in 0..query.hops : Reaches(k, n) PROVE RowsOf(k) # {}
    <3>1. PICK w \in Kept : End(w.path) = k
      BY <1>2, <1>4, <2>2
    <3> QED
      BY <3>1, RowsOfKept
  <2> QED
    BY <2>1, <2>2
<1>6. ReachExact'
  <2>1. \A k, n : Reaches(k, n)' <=> Reaches(k, n)
    BY <1>1 DEF Reaches, IsWalk, Connects, Leads
  <2>2. DOMAIN answer' = FirstOf(reach, query.nodes)
    BY <1>1, <1>5
  <2>3. \A k \in DOMAIN answer' : k \in Keys /\ RowsOf(k) # {} /\ answer'[k].depth = Depth(k)
    BY <1>1, <1>2 DEF FirstOf
  <2>4. \A k \in DOMAIN answer' : FirstAt(k, answer'[k].depth)
    BY <1>2, <2>3, DepthIs
  <2>5. reach = {k \in graphKeys' : \E n \in 0..query'.hops : Reaches(k, n)'}
    BY <1>1, <2>1
  <2>6. FirstOf(reach, query.nodes)' = FirstOf(reach, query.nodes)
    BY <1>1, <2>5 DEF FirstOf
  <2> HIDE DEF found
  <2> QED
    BY <1>1, <2>1, <2>2, <2>4, <2>6 DEF ReachExact, FirstAt
<1>7. TraverseTypeOK'
  BY <1>1 DEF TraverseInv, TraverseTypeOK
<1> QED
  BY <1>1, <1>6, <1>7, NoRows DEF Started

LEMMA TraverseInductive == TraverseInv /\ [TraverseNext]_traverseVars => TraverseInv'
<1> SUFFICES ASSUME TraverseInv, [TraverseNext]_traverseVars PROVE TraverseInv'
  OBVIOUS
<1>1. CASE RefuseQuery
  <2>1. TraverseTypeOK' /\ ReachExact' /\ ~Started' /\ ~Started
    BY <1>1 DEF RefuseQuery, TraverseInv, TraverseTypeOK, ReachExact, Started
  <2> QED
    BY <1>1, <2>1, NoRows DEF RefuseQuery
<1>2. CASE UNCHANGED traverseVars
  <2>1. TraverseTypeOK' /\ (Started' <=> Started)
    BY <1>2 DEF traverseVars, TraverseInv, TraverseTypeOK, Started
  <2>2. ReachExact'
    <3>1. UNCHANGED <<graphKeys, graphEdges, query, phase, answer>> /\ ReachExact
      BY <1>2 DEF traverseVars, TraverseInv
    <3>2. \A k, n : Reaches(k, n)' <=> Reaches(k, n)
      BY <3>1 DEF Reaches, IsWalk, Connects, Leads
    <3> DEFINE reach == {k \in graphKeys : \E n \in 0..query.hops : Reaches(k, n)}
    <3>3. reach' = reach
      BY <3>1, <3>2
    <3>4. FirstOf(reach, query.nodes)' = FirstOf(reach, query.nodes)
      BY <3>1, <3>3 DEF FirstOf
    <3> QED
      BY <3>1, <3>2, <3>4 DEF ReachExact
  <2> QED
    BY <1>2, <2>1, <2>2, NoRows DEF traverseVars
<1> QED
  BY <1>1, <1>2, SeedStep, ExpandStep, AnswerStep DEF TraverseNext

LEMMA TraverseStarts == TraverseInit => TraverseInv
<1> SUFFICES ASSUME TraverseInit PROVE TraverseInv
  OBVIOUS
<1>1. query \in QueryShape /\ 0 \in 0..query.hops
  BY TraverseOK DEF TraverseInit, QueryShape
<1> QED
  BY <1>1 DEF TraverseInit, TraverseInv, TraverseTypeOK, PathsAreWalks, NodesKept, Extended,
       AllReached, HasLeast, ReachExact, Kept, Started

LEMMA TraverseInvariant == TraverseSpec => []TraverseInv
BY TraverseStarts, TraverseInductive, PTL DEF TraverseSpec

\* The rows, their level and the query keep their types in every traversal.
THEOREM TraverseTypeCorrect == TraverseSpec => []TraverseTypeOK
BY TraverseInvariant, PTL DEF TraverseInv

\* Whatever the graph, its cycles included, and whatever is asked, kg.traverse answers
\* exactly the live nodes within the hops asked for, the first of them by key when there
\* are too many, each at its least distance.
THEOREM ReachAlwaysExact == TraverseSpec => []ReachExact
BY TraverseInvariant, PTL DEF TraverseInv

-----------------------------------------------------------------------------
(* The strength of walks.                                                  *)

\* The recursive definition of Strength defines something.
LEMMA StrengthIs == Strength = [n \in 0..HopCeiling |-> IF n = 0 THEN Seeds ELSE Further(Strength[n - 1])]
<1> DEFINE Obeys(f, n) == f = [m \in 0..n |-> IF m = 0 THEN Seeds ELSE Further(f[m - 1])]
           T == {n \in Nat : \E f : Obeys(f, n)}
<1>1. HopCeiling \in Nat
  BY TraverseOK
<1> HIDE DEF Obeys
<1>2. 0 \in T
  <2>1. Obeys([m \in 0..0 |-> Seeds], 0)
    BY DEF Obeys
  <2> QED
    BY <2>1
<1>3. ASSUME NEW n \in T PROVE n + 1 \in T
  <2>1. n \in Nat
    OBVIOUS
  <2>2. PICK f : Obeys(f, n)
    OBVIOUS
  <2> HIDE DEF T
  <2> DEFINE g == [m \in 0..(n + 1) |-> IF m = n + 1 THEN Further(f[n]) ELSE f[m]]
  <2>3. /\ \A m \in 0..n : g[m] = f[m] /\ f[m] = IF m = 0 THEN Seeds ELSE Further(f[m - 1])
        /\ g[n + 1] = Further(f[n])
    BY <2>1, <2>2 DEF Obeys
  <2>4. g = [m \in 0..(n + 1) |-> g[m]]
    OBVIOUS
  <2> HIDE DEF g
  <2>5. \A m \in 0..(n + 1) : g[m] = IF m = 0 THEN Seeds ELSE Further(g[m - 1])
    <3> SUFFICES ASSUME NEW m \in 0..(n + 1) PROVE g[m] = IF m = 0 THEN Seeds ELSE Further(g[m - 1])
      OBVIOUS
    <3>1. CASE m = n + 1
      BY <2>1, <2>3, <3>1
    <3>2. CASE m = 0
      BY <2>1, <2>3, <3>2
    <3>3. CASE m # n + 1 /\ m # 0
      <4>1. m \in 0..n /\ m - 1 \in 0..n
        BY <2>1, <3>3
      <4> QED
        BY <2>3, <3>3, <4>1
    <3> QED
      BY <3>1, <3>2, <3>3
  <2>6. Obeys(g, n + 1)
    <3>1. [m \in 0..(n + 1) |-> g[m]] = [m \in 0..(n + 1) |-> IF m = 0 THEN Seeds ELSE Further(g[m - 1])]
      BY <2>5
    <3> QED
      BY <2>4, <3>1 DEF Obeys
  <2> QED
    BY <2>1, <2>6 DEF T
<1>4. \E f : Obeys(f, HopCeiling)
  <2>1. T \subseteq Nat
    OBVIOUS
  <2> HIDE DEF T
  <2>2. HopCeiling \in T
    BY <1>1, <1>2, <1>3, <2>1, Induct
  <2> QED
    BY <2>2 DEF T
<1>5. Strength = CHOOSE f : Obeys(f, HopCeiling)
  BY DEF Strength, Obeys
<1>6. Obeys(Strength, HopCeiling)
  BY <1>4, <1>5
<1> QED
  BY <1>6 DEF Obeys
\* What a key is offered by the walks that are an edge longer.
LEMMA OffersAre ==
  \A S, k : \A d : d \in Offers(S, k) <=>
    d = 0 \/ \E j \in Keys : \E e \in graphEdges : Leads(e, j, k) /\ d = S[j] * e.conf
<1> SUFFICES ASSUME NEW S, NEW k, NEW d
             PROVE  d \in Offers(S, k) <=>
                      d = 0 \/ \E j \in Keys : \E e \in graphEdges : Leads(e, j, k) /\ d = S[j] * e.conf
  OBVIOUS
<1> DEFINE ways(j) == {S[j] * e.conf : e \in {e \in graphEdges : Leads(e, j, k)}}
<1>1. \A j : d \in ways(j) <=> \E e \in graphEdges : Leads(e, j, k) /\ d = S[j] * e.conf
  OBVIOUS
<1>2. d \in Offers(S, k) <=> d = 0 \/ \E j \in Keys : d \in ways(j)
  BY DEF Offers
<1> HIDE DEF ways
<1> QED
  BY <1>1, <1>2

\* The strongest offer exists, as an edge's confidence is bounded in a finite graph.
LEMMA FurtherIs ==
  ASSUME TraverseTypeOK, NEW S, NEW B \in Nat, \A k \in Keys : S[k] \in Nat /\ S[k] <= B
  PROVE  \E C \in Nat : \A k \in Keys :
           /\ Further(S)[k] \in Nat /\ Further(S)[k] <= C
           /\ Further(S)[k] \in Offers(S, k)
           /\ \A d \in Offers(S, k) : d <= Further(S)[k]
<1> DEFINE conf == [e \in EdgeRows |-> e.conf]
<1>1. \A e \in EdgeRows : conf[e] \in Nat /\ conf[e] = e.conf
  BY TraverseOK DEF EdgeShape
<1>2. PICK M \in Nat : \A e \in EdgeRows : conf[e] <= M
  BY <1>1, TraverseOK, FiniteBound
<1>3. \A e \in graphEdges : e.conf \in Nat /\ e.conf <= M
  BY <1>1, <1>2 DEF TraverseTypeOK
<1>4. B * M \in Nat
  OBVIOUS
<1>5. \A k \in Keys : \A d \in Offers(S, k) : d \in Nat /\ d <= B * M
  <2> SUFFICES ASSUME NEW k \in Keys, NEW d \in Offers(S, k) PROVE d \in Nat /\ d <= B * M
    OBVIOUS
  <2>1. CASE d = 0
    BY <1>4, <2>1
  <2>2. CASE d # 0
    <3>1. PICK j \in Keys, e \in graphEdges : d = S[j] * e.conf
      BY <2>2, OffersAre
    <3>2. S[j] \in Nat /\ S[j] <= B /\ e.conf \in Nat /\ e.conf <= M
      BY <1>3
    <3>3. S[j] * e.conf \in Nat /\ S[j] * e.conf <= B * M
      BY <3>2, Products
    <3> QED
      BY <3>1, <3>3
  <2> QED
    BY <2>1, <2>2
<1>6. ASSUME NEW k \in Keys
      PROVE  /\ Further(S)[k] \in Offers(S, k)
             /\ \A d \in Offers(S, k) : d <= Further(S)[k]
  <2>1. Offers(S, k) \subseteq Nat /\ Offers(S, k) # {}
    BY <1>5, OffersAre
  <2>2. \E m \in Offers(S, k) : \A t \in Offers(S, k) : t <= m
    BY <1>4, <1>5, <2>1, Greatest
  <2>3. Further(S)[k] = CHOOSE c \in Offers(S, k) : \A d \in Offers(S, k) : d <= c
    BY DEF Further
  <2> QED
    BY <2>2, <2>3
<1>7. \A k \in Keys : Further(S)[k] \in Nat /\ Further(S)[k] <= B * M
  BY <1>5, <1>6
<1> QED
  BY <1>4, <1>6, <1>7

\* Level by level, the strength of a walk is that of the strongest way to extend one.
LEMMA StrengthFacts ==
  ASSUME TraverseTypeOK
  PROVE  /\ \A k \in Keys : Strength[0][k] = IF k \in query.starts THEN 1 ELSE 0
         /\ \A n \in 0..HopCeiling : \A k \in Keys : Strength[n][k] \in Nat
         /\ \A n \in 1..HopCeiling : \A k \in Keys :
              /\ Strength[n][k] \in Offers(Strength[n - 1], k)
              /\ \A d \in Offers(Strength[n - 1], k) : d <= Strength[n][k]
<1> DEFINE Within(n, B) == \A k \in Keys : Strength[n][k] \in Nat /\ Strength[n][k] <= B
           T == {n \in Nat : n <= HopCeiling => \E B \in Nat : Within(n, B)}
<1>1. HopCeiling \in Nat
  BY TraverseOK
<1>2. Strength[0] = Seeds /\ \A n \in 1..HopCeiling : Strength[n] = Further(Strength[n - 1])
  <2> DEFINE Body(n) == IF n = 0 THEN Seeds ELSE Further(Strength[n - 1])
  <2>1. \A n \in 0..HopCeiling : Strength[n] = Body(n)
    <3>1. Strength = [n \in 0..HopCeiling |-> Body(n)]
      BY StrengthIs
    <3> HIDE DEF Body
    <3>2. \A f : f = [n \in 0..HopCeiling |-> Body(n)] => \A n \in 0..HopCeiling : f[n] = Body(n)
      OBVIOUS
    <3> QED
      BY <3>1, <3>2
  <2> QED
    BY <1>1, <2>1
<1>3. \A k \in Keys : Strength[0][k] = IF k \in query.starts THEN 1 ELSE 0
  BY <1>2 DEF Seeds
<1>4. 0 \in T
  <2>1. Within(0, 1)
    BY <1>3
  <2> HIDE DEF Within
  <2> QED
    BY <2>1
<1>5. ASSUME NEW n \in T PROVE n + 1 \in T
  <2>1. n \in Nat /\ (n <= HopCeiling => \E B \in Nat : Within(n, B))
    OBVIOUS
  <2> HIDE DEF T
  <2> SUFFICES ASSUME n + 1 <= HopCeiling PROVE \E B \in Nat : Within(n + 1, B)
    BY <2>1 DEF T
  <2>2. PICK B \in Nat : Within(n, B)
    BY <1>1, <2>1
  <2>3. Strength[n + 1] = Further(Strength[n])
    <3>1. n + 1 \in 1..HopCeiling /\ (n + 1) - 1 = n
      BY <1>1, <2>1
    <3> QED
      BY <1>2, <3>1
  <2>4. \E C \in Nat : \A k \in Keys : Further(Strength[n])[k] \in Nat /\ Further(Strength[n])[k] <= C
    <3>1. \A k \in Keys : Strength[n][k] \in Nat /\ Strength[n][k] <= B
      BY <2>2
    <3> QED
      BY <3>1, FurtherIs
  <2> QED
    BY <2>3, <2>4
<1>6. \A n \in 0..HopCeiling : \E B \in Nat : Within(n, B)
  <2>1. T \subseteq Nat
    OBVIOUS
  <2> HIDE DEF T
  <2>2. \A n \in Nat : n \in T
    BY <1>4, <1>5, <2>1, Induct
  <2>3. \A n \in 0..HopCeiling : n \in T /\ n <= HopCeiling
    BY <1>1, <2>2
  <2> QED
    BY <2>3 DEF T
<1>7. ASSUME NEW n \in 1..HopCeiling, NEW k \in Keys
      PROVE  /\ Strength[n][k] \in Offers(Strength[n - 1], k)
             /\ \A d \in Offers(Strength[n - 1], k) : d <= Strength[n][k]
  <2>1. n - 1 \in 0..HopCeiling /\ Strength[n] = Further(Strength[n - 1])
    BY <1>1, <1>2
  <2>2. PICK B \in Nat : Within(n - 1, B)
    BY <1>6, <2>1
  <2>3. \A j \in Keys : Strength[n - 1][j] \in Nat /\ Strength[n - 1][j] <= B
    BY <2>2
  <2>4. \E C \in Nat : \A j \in Keys :
           /\ Further(Strength[n - 1])[j] \in Offers(Strength[n - 1], j)
           /\ \A d \in Offers(Strength[n - 1], j) : d <= Further(Strength[n - 1])[j]
    BY <2>3, FurtherIs
  <2> QED
    BY <2>1, <2>4
<1>8. \A n \in 0..HopCeiling : \A k \in Keys : Strength[n][k] \in Nat
  BY <1>6
<1> QED
  BY <1>3, <1>7, <1>8

\* The rows kept of k after n edges.
Rows(k, n) == {w \in Kept : End(w.path) = k /\ Len(w.path) = n + 1}

\* Of the levels done, Strength is 0 where no walk leads, and where a node is first reached
\* it is what the strongest of its rows has.
Strongest == \A n \in 0..level : \A k \in Keys :
  /\ ~Reaches(k, n) => Strength[n][k] = 0
  /\ FirstAt(k, n) => /\ \A w \in Rows(k, n) : w.conf <= Strength[n][k]
                      /\ \E w \in Rows(k, n) : w.conf = Strength[n][k]

StrongInv == TraverseInv /\ (Started => ~TooWide /\ Strongest) /\ StrongestPath

LEMMA WalkOn ==
  ASSUME NEW j \in Keys, NEW k \in Keys, NEW n \in Nat, Reaches(j, n), Connects(j, k)
  PROVE  Reaches(k, n + 1)
<1>1. PICK p \in [1..(n + 1) -> Keys] : IsWalk(p) /\ p[n + 1] = j
  BY DEF Reaches
<1> DEFINE q == [i \in 1..(n + 2) |-> IF i = n + 2 THEN k ELSE p[i]]
<1>2. q \in [1..(n + 2) -> Keys] /\ q[n + 2] = k /\ \A i \in 1..(n + 1) : q[i] = p[i]
  OBVIOUS
<1>3. p \in Seq(Keys) /\ Len(p) = n + 1 /\ q \in Seq(Keys) /\ Len(q) = n + 2
  BY <1>1, <1>2
<1> HIDE DEF q
<1>4. q[1] \in query.starts
  BY <1>1, <1>2 DEF IsWalk
<1>5. ASSUME NEW i \in 2..(n + 2) PROVE Connects(q[i - 1], q[i])
  <2>1. CASE i = n + 2
    <3>1. q[i - 1] = j /\ q[i] = k
      BY <1>1, <1>2, <2>1
    <3> QED
      BY <3>1
  <2>2. CASE i # n + 2
    <3>1. i \in 2..(n + 1) /\ q[i - 1] = p[i - 1] /\ q[i] = p[i]
      BY <1>2, <2>2
    <3> QED
      BY <1>1, <1>3, <3>1 DEF IsWalk
  <2> QED
    BY <2>1, <2>2
<1>6. IsWalk(q)
  BY <1>3, <1>4, <1>5 DEF IsWalk
<1> QED
  BY <1>2, <1>6 DEF Reaches

LEMMA WalkBack ==
  ASSUME NEW k \in Keys, NEW n \in Nat, Reaches(k, n + 1)
  PROVE  \E j \in Keys : Reaches(j, n) /\ Connects(j, k)
<1>1. PICK p \in [1..(n + 2) -> Keys] : IsWalk(p) /\ p[n + 2] = k
  BY DEF Reaches
<1> DEFINE q == [i \in 1..(n + 1) |-> p[i]]
<1>2. q \in [1..(n + 1) -> Keys] /\ p[n + 1] \in Keys /\ \A i \in 1..(n + 1) : q[i] = p[i]
  OBVIOUS
<1>3. p \in Seq(Keys) /\ Len(p) = n + 2 /\ q \in Seq(Keys) /\ Len(q) = n + 1
  BY <1>1, <1>2
<1> HIDE DEF q
<1>4. p[1] \in query.starts /\ \A i \in 2..(n + 2) : Connects(p[i - 1], p[i])
  BY <1>1, <1>3 DEF IsWalk
<1>5. Connects(p[n + 1], k)
  <2>1. n + 2 \in 2..(n + 2) /\ (n + 2) - 1 = n + 1
    OBVIOUS
  <2> QED
    BY <1>1, <1>4, <2>1
<1>6. IsWalk(q)
  <2>1. \A i \in 2..(n + 1) : i \in 2..(n + 2) /\ q[i - 1] = p[i - 1] /\ q[i] = p[i]
    BY <1>2
  <2>2. q[1] = p[1]
    BY <1>2
  <2> QED
    BY <1>3, <1>4, <2>1, <2>2 DEF IsWalk
<1> QED
  BY <1>2, <1>5, <1>6 DEF Reaches

\* Strength follows from the graph and the query alone.
LEMMA StrengthStays ==
  ASSUME UNCHANGED <<graphEdges, query>>
  PROVE  /\ Strength' = Strength
         /\ \A k, n : (Reaches(k, n)' <=> Reaches(k, n)) /\ (FirstAt(k, n)' <=> FirstAt(k, n))
<1>1. Strength' = Strength
  BY DEF Strength, Seeds, Further, Offers, Leads
<1>2. \A j, k : Connects(j, k)' <=> Connects(j, k)
  BY DEF Connects, Leads
<1>3. \A k, n : Reaches(k, n)' <=> Reaches(k, n)
  BY <1>2 DEF Reaches, IsWalk
<1> QED
  BY <1>1, <1>3 DEF FirstAt
LEMMA SeedStrong == TraverseInv /\ Seed => Strongest'
<1> SUFFICES ASSUME TraverseInv, Seed PROVE Strongest'
  OBVIOUS
<1>1. /\ phase = "asked" /\ level = 0 /\ level' = 0
      /\ rows' = {[path |-> <<k>>, conf |-> 1] : k \in query.starts}
      /\ UNCHANGED <<graphKeys, graphEdges, query>>
  BY DEF Seed, TraverseInv, Started
<1>2. query.starts \subseteq Keys
  BY TraverseOK DEF TraverseInv, TraverseTypeOK, QueryShape
<1>3. Strength' = Strength /\ \A k, n : (Reaches(k, n)' <=> Reaches(k, n)) /\ (FirstAt(k, n)' <=> FirstAt(k, n))
  BY <1>1, StrengthStays
<1>4. ASSUME NEW k \in Keys
      PROVE  /\ Reaches(k, 0) <=> k \in query.starts
             /\ Strength[0][k] = IF k \in query.starts THEN 1 ELSE 0
  <2>1. Strength[0][k] = IF k \in query.starts THEN 1 ELSE 0
    BY StrengthFacts DEF TraverseInv
  <2>2. ASSUME Reaches(k, 0) PROVE k \in query.starts
    BY <2>2 DEF Reaches, IsWalk
  <2>3. ASSUME k \in query.starts PROVE Reaches(k, 0)
    <3>1. <<k>> \in [1..(0 + 1) -> Keys] /\ <<k>>[1] = k /\ <<k>>[0 + 1] = k /\ Len(<<k>>) = 1
      OBVIOUS
    <3>2. IsWalk(<<k>>)
      BY <2>3, <3>1 DEF IsWalk
    <3> QED
      BY <3>1, <3>2 DEF Reaches
  <2> QED
    BY <2>1, <2>2, <2>3
<1>5. \A w \in rows' : \E k \in query.starts :
         w.path = <<k>> /\ w.conf = 1 /\ Len(w.path) = 1 /\ End(w.path) = k /\ ~Closes(w.path)
  <2> SUFFICES ASSUME NEW k \in query.starts
               PROVE  Len(<<k>>) = 1 /\ End(<<k>>) = k /\ ~Closes(<<k>>)
    BY <1>1
  <2> QED
    BY <1>2 DEF End, Closes
<1>6. \A k \in query.starts : \E w \in rows' : End(w.path) = k
  <2> SUFFICES ASSUME NEW k \in query.starts PROVE \E w \in rows' : End(w.path) = k
    OBVIOUS
  <2>1. [path |-> <<k>>, conf |-> 1] \in rows' /\ End(<<k>>) = k
    BY <1>1, <1>2 DEF End
  <2> QED
    BY <2>1
<1>7. Kept' = rows'
  BY <1>5 DEF Kept
<1>8. ASSUME NEW k \in Keys, FirstAt(k, 0)
      PROVE  /\ \A w \in Rows(k, 0)' : w.conf <= Strength[0][k]
             /\ \E w \in Rows(k, 0)' : w.conf = Strength[0][k]
  <2>1. k \in query.starts /\ Strength[0][k] = 1
    BY <1>4, <1>8 DEF FirstAt
  <2>2. \A w \in rows' : w.conf = 1 /\ Len(w.path) = 0 + 1
    BY <1>5
  <2>3. PICK w \in rows' : End(w.path) = k
    BY <1>6, <2>1
  <2> QED
    BY <1>7, <2>1, <2>2, <2>3 DEF Rows
<1>9. \A n \in 0..level' : n = 0
  BY <1>1
<1>10. ASSUME NEW k \in Keys
       PROVE  /\ ~Reaches(k, 0)' => Strength'[0][k] = 0
              /\ FirstAt(k, 0)' => /\ \A w \in Rows(k, 0)' : w.conf <= Strength'[0][k]
                                   /\ \E w \in Rows(k, 0)' : w.conf = Strength'[0][k]
  BY <1>3, <1>4, <1>8
<1> QED
  BY <1>9, <1>10 DEF Strongest

LEMMA ExpandStrong == TraverseInv /\ ~TooWide /\ Strongest /\ Expand => Strongest'
<1> SUFFICES ASSUME TraverseInv, ~TooWide, Strongest, Expand PROVE Strongest'
  OBVIOUS
<1>0. PICK new : new = level + 1
  OBVIOUS
<1> DEFINE Extends(w, k, e, v) == /\ Leads(e, End(w.path), k)
                                  /\ v = [path |-> Append(w.path, k), conf |-> w.conf * e.conf]
           working == {w \in rows : Len(w.path) = level + 1 /\ ~Closes(w.path)}
<1>1. /\ level < query.hops /\ level' = level + 1
      /\ UNCHANGED <<graphKeys, graphEdges, query>>
  BY DEF Expand
<1>2. \A v : v \in rows' <=>
        v \in rows \/ \E w \in working, k \in Keys, e \in graphEdges : Extends(w, k, e, v)
  <2> DEFINE from(w, k) == {[path |-> Append(w.path, k), conf |-> w.conf * e.conf] :
                              e \in {e \in graphEdges : Leads(e, End(w.path), k)}}
  <2>1. rows' = rows \cup UNION {from(w, k) : w \in working, k \in Keys}
    BY DEF Expand
  <2>2. \A w, k, v : v \in from(w, k) <=> \E e \in graphEdges : Extends(w, k, e, v)
    OBVIOUS
  <2> HIDE DEF from, Extends, working
  <2>3. \A v : v \in UNION {from(w, k) : w \in working, k \in Keys}
                 <=> \E w \in working, k \in Keys : v \in from(w, k)
    OBVIOUS
  <2>4. \A v : v \in rows' <=> v \in rows \/ \E w \in working, k \in Keys : v \in from(w, k)
    BY <2>1, <2>3
  <2> SUFFICES ASSUME NEW v
               PROVE  v \in rows' <=>
                        v \in rows \/ \E w \in working, k \in Keys, e \in graphEdges : Extends(w, k, e, v)
    OBVIOUS
  <2>5. \A w \in working, k \in Keys : v \in from(w, k) <=> \E e \in graphEdges : Extends(w, k, e, v)
    BY <2>2
  <2>6. v \in rows' <=> v \in rows \/ \E w \in working, k \in Keys : v \in from(w, k)
    BY <2>4
  <2> QED
    BY <2>5, <2>6
<1>3. /\ \A w \in rows : /\ w.path \in Seq(Keys) /\ Len(w.path) \in Nat /\ Len(w.path) >= 1
                         /\ Len(w.path) <= level + 1 /\ End(w.path) \in Keys
      /\ level \in Nat /\ query.hops \in Nat
  BY PathFacts, TraverseOK DEF TraverseInv, TraverseTypeOK, QueryShape
<1>4. /\ \A w \in rows : w.conf \in Nat
      /\ \A e \in graphEdges : e.conf \in Nat
  BY TraverseOK DEF TraverseInv, TraverseTypeOK, NodeRows, EdgeShape
<1>5. Strength' = Strength /\ \A k, n : (Reaches(k, n)' <=> Reaches(k, n)) /\ (FirstAt(k, n)' <=> FirstAt(k, n))
  BY <1>1, StrengthStays
<1>6. new \in 1..HopCeiling /\ new - 1 = level /\ level \in 0..HopCeiling
  BY <1>0, <1>1, <1>3, TraverseOK DEF TooWide
<1>7. /\ \A k \in Keys : /\ Strength[level][k] \in Nat /\ Strength[new][k] \in Nat
                         /\ Strength[new][k] \in Offers(Strength[level], k)
                         /\ \A d \in Offers(Strength[level], k) : d <= Strength[new][k]
  BY <1>0, <1>3, <1>6, StrengthFacts DEF TraverseInv
\* A row of the new level ends a walk of as many edges, and goes on from a row kept.
<1>8. ASSUME NEW w \in working, NEW k \in Keys, NEW e \in graphEdges, NEW v, Extends(w, k, e, v)
      PROVE  /\ v.path \in Seq(Keys) /\ Len(v.path) = new + 1 /\ End(v.path) = k
             /\ Closes(v.path) <=> \E i \in 1..(level + 1) : w.path[i] = k
             /\ v.conf = w.conf * e.conf
  <2>1. w.path \in Seq(Keys) /\ Len(w.path) = level + 1 /\ v.path = Append(w.path, k)
    BY <1>0, <1>3, <1>8
  <2>2. v.conf = w.conf * e.conf
    BY <1>8
  <2> HIDE DEF Extends, working
  <2> QED
    BY <1>0, <1>3, <2>1, <2>2, Longer
<1>9. working \subseteq rows /\ \A w \in working : w \in Kept /\ Len(w.path) = level + 1 /\ w \in Rows(End(w.path), level)
  BY DEF Kept, Rows
<1>10. \A v \in rows' \ rows : \E w \in working, k \in Keys, e \in graphEdges : Extends(w, k, e, v)
  BY <1>2
<1> HIDE DEF Extends, working
\* Nothing is added to the levels done.
<1>11. \A n \in 0..level : \A k : Rows(k, n)' = Rows(k, n)
  <2> SUFFICES ASSUME NEW n \in 0..level, NEW k, NEW v
               PROVE  v \in Rows(k, n)' <=> v \in Rows(k, n)
    OBVIOUS
  <2>1. v \in rows => v \in rows'
    BY <1>2
  <2>2. v \in rows' /\ v \notin rows => Len(v.path) = new + 1
    BY <1>8, <1>10
  <2>3. new + 1 # n + 1
    BY <1>0, <1>3
  <2> QED
    BY <2>1, <2>2, <2>3 DEF Rows, Kept
<1>12. ASSUME NEW k \in Keys, ~Reaches(k, new) PROVE Strength[new][k] = 0
  <2>1. ASSUME NEW j \in Keys, NEW e \in graphEdges, Leads(e, j, k)
        PROVE  Strength[level][j] * e.conf = 0
    <3>1. Connects(j, k)
      BY <2>1 DEF Connects
    <3>2. ~Reaches(j, level)
      BY <1>0, <1>3, <1>12, <3>1, WalkOn
    <3>3. Strength[level][j] = 0
      BY <1>0, <1>3, <3>2 DEF Strongest
    <3> QED
      BY <1>4, <3>3
  <2> QED
    BY <1>7, <2>1, OffersAre
<1>13. ASSUME NEW k \in Keys, FirstAt(k, new)
       PROVE  /\ \A v \in Rows(k, new)' : v.conf <= Strength[new][k]
              /\ \E v \in Rows(k, new)' : v.conf = Strength[new][k]
  \* What leads to k is itself first reached one level before.
  <2>1. ASSUME NEW j \in Keys, Connects(j, k), Reaches(j, level) PROVE FirstAt(j, level)
    <3>1. ASSUME NEW m \in 0..(level - 1), Reaches(j, m) PROVE FALSE
      <4>1. m \in Nat /\ m + 1 \in 0..(new - 1)
        BY <1>0, <1>3
      <4>2. Reaches(k, m + 1)
        BY <2>1, <3>1, <4>1, WalkOn
      <4> QED
        BY <1>13, <4>1, <4>2 DEF FirstAt
    <3> QED
      BY <2>1, <3>1 DEF FirstAt
  <2>2. ASSUME NEW v \in Rows(k, new)'
        PROVE  \E w \in working, e \in graphEdges : Extends(w, k, e, v)
    <3>1. v \in rows' /\ Len(v.path) = new + 1 /\ End(v.path) = k
      BY DEF Rows, Kept
    <3>2. v \notin rows
      BY <1>0, <1>3, <3>1
    <3>3. PICK w \in working, i \in Keys, e \in graphEdges : Extends(w, i, e, v)
      BY <1>10, <3>1, <3>2
    <3> QED
      BY <1>8, <3>1, <3>3
  <2>3. ASSUME NEW w \in working, NEW e \in graphEdges, Leads(e, End(w.path), k)
        PROVE  /\ End(w.path) \in Keys /\ FirstAt(End(w.path), level)
               /\ w.conf <= Strength[level][End(w.path)]
               /\ \E v \in Rows(k, new)' : Extends(w, k, e, v)
    <3>1. w \in rows /\ w \in Kept /\ End(w.path) \in Keys /\ Len(w.path) = level + 1
      BY <1>0, <1>3, <1>9
    <3>2. FirstAt(End(w.path), level)
      <4>1. Reaches(End(w.path), level)
        <5>1. Len(w.path) - 1 = level
          BY <1>0, <1>3, <3>1
        <5> QED
          BY <3>1, <5>1, RowWalks
      <4>2. Connects(End(w.path), k)
        BY <2>3 DEF Connects
      <4> QED
        BY <2>1, <3>1, <4>1, <4>2
    <3>3. w.conf <= Strength[level][End(w.path)]
      BY <1>0, <1>3, <1>9, <3>1, <3>2 DEF Strongest
    <3> DEFINE v == [path |-> Append(w.path, k), conf |-> w.conf * e.conf]
    <3>4. Extends(w, k, e, v)
      BY <2>3 DEF Extends
    <3> HIDE DEF v
    <3>5. v \in rows' /\ Len(v.path) = new + 1 /\ End(v.path) = k
      BY <1>2, <1>8, <3>4
    <3>6. ~Closes(v.path)
      <4> SUFFICES ASSUME NEW i \in 1..(level + 1), w.path[i] = k PROVE FALSE
        BY <1>8, <3>4
      <4>1. i \in 1..Len(w.path) /\ i \in Nat
        BY <1>0, <1>3, <3>1
      <4>2. ReachedBy(k, i)
        BY <3>1, <4>1 DEF TraverseInv, NodesKept
      <4>3. PICK u \in Kept : End(u.path) = k /\ Len(u.path) <= i
        BY <4>2 DEF ReachedBy
      <4>4. u \in rows /\ Len(u.path) \in Nat
        BY <1>0, <1>3, <4>3 DEF Kept
      <4>5. Reaches(k, Len(u.path) - 1) /\ Len(u.path) - 1 \in 0..level
        BY <4>3, <4>4, RowWalks
      <4>6. Len(u.path) - 1 \in 0..(new - 1)
        BY <1>0, <1>3, <4>5
      <4> QED
        BY <1>13, <4>5, <4>6 DEF FirstAt
    <3>7. v \in Rows(k, new)'
      BY <3>5, <3>6 DEF Rows, Kept
    <3> QED
      BY <3>1, <3>2, <3>3, <3>4, <3>7
  <2>4. ASSUME NEW v \in Rows(k, new)' PROVE v.conf <= Strength[new][k]
    <3>1. PICK w \in working, e \in graphEdges : Extends(w, k, e, v)
      BY <2>2
    <3>2. Leads(e, End(w.path), k) /\ v.conf = w.conf * e.conf
      BY <1>8, <3>1 DEF Extends
    <3>3. w.conf <= Strength[level][End(w.path)] /\ End(w.path) \in Keys /\ w \in rows
      BY <1>9, <2>3, <3>2
    <3>4. w.conf * e.conf <= Strength[level][End(w.path)] * e.conf
      BY <1>4, <1>7, <3>3, Products
    <3>5. Strength[level][End(w.path)] * e.conf <= Strength[new][k]
      BY <1>7, <3>2, <3>3, OffersAre
    <3>6. w.conf * e.conf \in Nat /\ Strength[level][End(w.path)] * e.conf \in Nat
      BY <1>4, <1>7, <3>3
    <3> QED
      BY <1>7, <3>2, <3>4, <3>5, <3>6
  <2>5. \E v \in Rows(k, new)' : v.conf = Strength[new][k]
    <3>1. CASE Strength[new][k] = 0
      <4>1. PICK j \in Keys : Reaches(j, level) /\ Connects(j, k)
        BY <1>0, <1>3, <1>13, WalkBack DEF FirstAt
      <4>2. PICK w \in Rows(j, level) : w.conf = Strength[level][j]
        BY <1>0, <1>3, <2>1, <4>1 DEF Strongest
      <4>3. w \in working /\ End(w.path) = j
        BY <4>2 DEF Rows, Kept, working
      <4>4. PICK e \in graphEdges : Leads(e, j, k)
        BY <4>1 DEF Connects
      <4>5. PICK v \in Rows(k, new)' : Extends(w, k, e, v)
        BY <2>3, <4>3, <4>4
      <4>6. v.conf <= 0 /\ v.conf \in Nat
        <5>1. v.conf = w.conf * e.conf /\ w \in rows
          BY <1>8, <1>9, <4>3, <4>5
        <5> QED
          BY <1>4, <2>4, <3>1, <5>1
      <4> QED
        BY <3>1, <4>6
    <3>2. CASE Strength[new][k] # 0
      <4>1. PICK j \in Keys, e \in graphEdges :
              Leads(e, j, k) /\ Strength[new][k] = Strength[level][j] * e.conf
        BY <1>7, <3>2, OffersAre
      <4>2. Reaches(j, level)
        <5> SUFFICES ASSUME ~Reaches(j, level) PROVE FALSE
          OBVIOUS
        <5>1. Strength[level][j] = 0
          BY <1>0, <1>3 DEF Strongest
        <5> QED
          BY <1>4, <3>2, <4>1, <5>1
      <4>3. FirstAt(j, level)
        BY <2>1, <4>1, <4>2 DEF Connects
      <4>4. PICK w \in Rows(j, level) : w.conf = Strength[level][j]
        BY <1>0, <1>3, <4>3 DEF Strongest
      <4>5. w \in working /\ End(w.path) = j
        BY <4>4 DEF Rows, Kept, working
      <4>6. PICK v \in Rows(k, new)' : Extends(w, k, e, v)
        BY <2>3, <4>1, <4>5
      <4>7. v.conf = w.conf * e.conf
        BY <1>8, <4>5, <4>6
      <4> QED
        BY <4>1, <4>4, <4>7
    <3> QED
      BY <3>1, <3>2
  <2> QED
    BY <2>4, <2>5
<1>14. ASSUME NEW n \in 0..level', NEW k \in Keys
       PROVE  /\ ~Reaches(k, n) => Strength[n][k] = 0
              /\ FirstAt(k, n) => /\ \A w \in Rows(k, n)' : w.conf <= Strength[n][k]
                                  /\ \E w \in Rows(k, n)' : w.conf = Strength[n][k]
  <2>1. CASE n \in 0..level
    BY <1>11, <2>1 DEF Strongest
  <2>2. CASE n \notin 0..level
    <3>1. n = new
      BY <1>0, <1>1, <1>3, <2>2
    <3> QED
      BY <1>12, <1>13, <3>1
  <2> QED
    BY <2>1, <2>2
<1> QED
  BY <1>5, <1>14 DEF Strongest
\* Of the rows at that depth the first is one as strong as Strength says.
LEMMA ConfidenceIs ==
  ASSUME TraverseInv, Started, ~TooWide, Strongest, NEW k \in Keys, RowsOf(k) # {}
  PROVE  PathConfidence(k) = Strength[Depth(k)][k]
<1>1. Depth(k) \in 0..level /\ FirstAt(k, Depth(k))
  BY DepthIs
<1>2. PICK d : d = Depth(k)
  OBVIOUS
<1>3. Strength[d][k] \in Nat
  <2>1. d \in 0..HopCeiling
    <3>1. level \in 0..query.hops /\ query.hops \in Nat /\ query.hops <= HopCeiling /\ HopCeiling \in Nat
      BY TraverseOK DEF TraverseInv, TraverseTypeOK, QueryShape, TooWide
    <3> QED
      BY <1>1, <1>2, <3>1
  <2> QED
    BY <2>1, StrengthFacts DEF TraverseInv
<1>4. \A w : w \in RowsOf(k) /\ Len(w.path) - 1 = d <=> w \in Rows(k, d)
  <2>1. \A w \in Kept : Len(w.path) \in Nat
    BY PathFacts DEF Kept, TraverseInv
  <2>2. d \in Nat
    BY <1>1, <1>2, TraverseOK DEF TraverseInv, TraverseTypeOK, QueryShape
  <2>3. \A w \in Kept : Len(w.path) - 1 = d <=> Len(w.path) = d + 1
    BY <2>1, <2>2
  <2> QED
    BY <2>3, RowsOfKept DEF Rows
<1> DEFINE confs == {w.conf : w \in {w \in RowsOf(k) : Len(w.path) - 1 = Depth(k)}}
<1>5. PathConfidence(k) = CHOOSE c \in confs : \A other \in confs : other <= c
  BY DEF PathConfidence
<1>6. confs = {w.conf : w \in Rows(k, d)}
  <2>1. {w \in RowsOf(k) : Len(w.path) - 1 = Depth(k)} = Rows(k, d)
    <3>1. \A w : w \in {v \in RowsOf(k) : Len(v.path) - 1 = Depth(k)} <=> w \in Rows(k, d)
      BY <1>2, <1>4
    <3> QED
      BY <3>1
  <2> QED
    BY <2>1
<1>7. /\ \A w \in Rows(k, d) : w.conf <= Strength[d][k] /\ w.conf \in Nat
      /\ \E w \in Rows(k, d) : w.conf = Strength[d][k]
  <2>1. \A w \in Rows(k, d) : w.conf \in Nat
    BY DEF Rows, Kept, TraverseInv, TraverseTypeOK, NodeRows
  <2> QED
    BY <1>1, <1>2, <2>1 DEF Strongest
<1>8. /\ Strength[d][k] \in confs /\ \A other \in confs : other <= Strength[d][k]
      /\ \A other \in confs : other \in Nat
  BY <1>6, <1>7
<1> HIDE DEF confs
<1>9. PathConfidence(k) \in confs /\ \A other \in confs : other <= PathConfidence(k)
  BY <1>5, <1>8
<1>10. PathConfidence(k) <= Strength[d][k] /\ Strength[d][k] <= PathConfidence(k) /\ PathConfidence(k) \in Nat
  BY <1>8, <1>9
<1> QED
  BY <1>2, <1>3, <1>10

LEMMA StrongInductive == StrongInv /\ [TraverseNext]_traverseVars => StrongInv'
<1> SUFFICES ASSUME StrongInv, [TraverseNext]_traverseVars PROVE StrongInv'
  OBVIOUS
<1>1. TraverseInv /\ TraverseInv'
  BY TraverseInductive DEF StrongInv
<1>2. CASE RefuseQuery
  BY <1>1, <1>2 DEF StrongInv, RefuseQuery, Started, StrongestPath
<1>3. CASE Seed
  BY <1>1, <1>3, SeedStrong DEF StrongInv, Seed, TooWide, StrongestPath
<1>4. CASE Expand
  <2>1. Started /\ phase' = "walking" /\ UNCHANGED query
    BY <1>4 DEF Expand, Started
  <2> QED
    BY <1>1, <1>4, <2>1, ExpandStrong DEF StrongInv, TooWide, StrongestPath
<1>5. CASE Answer
  <2>1. /\ phase = "walking" /\ Started /\ UNCHANGED <<graphKeys, graphEdges, query, rows, level>>
        /\ answer' = [k \in FirstOf({k \in graphKeys : RowsOf(k) # {}}, query.nodes) |->
                        [depth |-> Depth(k), conf |-> PathConfidence(k)]]
    BY <1>5 DEF Answer, Started
  <2>2. ~TooWide /\ Strongest /\ ~TooWide'
    BY <2>1 DEF StrongInv, TooWide
  <2>3. Strength' = Strength /\ \A k, n : (Reaches(k, n)' <=> Reaches(k, n)) /\ (FirstAt(k, n)' <=> FirstAt(k, n))
    BY <2>1, StrengthStays
  <2>4. Strongest'
    BY <2>1, <2>2, <2>3 DEF Strongest, Rows, Kept
  <2>5. StrongestPath'
    <3> SUFFICES ASSUME NEW k \in DOMAIN answer' PROVE answer'[k].conf = Strength[answer'[k].depth][k]
      BY <2>3 DEF StrongestPath
    <3>1. /\ k \in Keys /\ RowsOf(k) # {}
          /\ answer'[k].depth = Depth(k) /\ answer'[k].conf = PathConfidence(k)
      BY <1>1, <2>1 DEF FirstOf, TraverseInv, TraverseTypeOK
    <3> QED
      BY <1>1, <2>1, <2>2, <3>1, ConfidenceIs
  <2> QED
    BY <1>1, <2>2, <2>4, <2>5 DEF StrongInv
<1>6. CASE UNCHANGED traverseVars
  <2>1. UNCHANGED <<graphKeys, graphEdges, query, phase, rows, level, answer>>
    BY <1>6 DEF traverseVars
  <2>2. Strength' = Strength /\ \A k, n : (Reaches(k, n)' <=> Reaches(k, n)) /\ (FirstAt(k, n)' <=> FirstAt(k, n))
    BY <2>1, StrengthStays
  <2>3. Strongest => Strongest'
    BY <2>1, <2>2 DEF Strongest, Rows, Kept
  <2> QED
    BY <1>1, <2>1, <2>2, <2>3 DEF StrongInv, Started, TooWide, StrongestPath
<1> QED
  BY <1>2, <1>3, <1>4, <1>5, <1>6 DEF TraverseNext

\* Of the ways to a node that are as short as any, kg.traverse answers with the confidence
\* of the most certain one, whatever the graph and the query.
THEOREM StrongestAlwaysAnswered == TraverseSpec => []StrongestPath
<1>1. TraverseInit => StrongInv
  <2> SUFFICES ASSUME TraverseInit PROVE StrongInv
    OBVIOUS
  <2>1. TraverseInv
    BY TraverseStarts
  <2> QED
    BY <2>1 DEF TraverseInit, StrongInv, Started, StrongestPath
<1>2. StrongInv => StrongestPath
  BY DEF StrongInv
<1> QED
  BY <1>1, <1>2, StrongInductive, PTL DEF TraverseSpec
=============================================================================
