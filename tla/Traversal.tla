----------------------------- MODULE Traversal -----------------------------
(***************************************************************************)
(* kg.traverse: a recursive query that walks the live edges of the graph   *)
(* from the start keys, a level at a time, and answers with the best row   *)
(* of every node it reached.  kg.dependency_closure, kg.impact_radius and  *)
(* the expansion of kg.hybrid_search are calls of it.  The statement reads *)
(* one snapshot, so the graph is fixed while it runs.                      *)
(*                                                                         *)
(* Keys are numbered in their order.  A key may be a start, or the end of  *)
(* an edge, without being a live node.  Confidences are whole numbers: the *)
(* query only compares products of as many factors.                        *)
(***************************************************************************)
EXTENDS Integers, Sequences, FiniteSets

CONSTANTS
  NKeys,
  EdgeRows,       \* the edges there may be
  HopCeiling,     \* 6
  NodeCeiling,    \* 5000
  Queries         \* the calls made

Keys == 1..NKeys
\* depends: depends_on, consumes, recorded_in, gated_by; flow: precedes, hands_off_to.
EdgeTypes == {"depends", "flow", "other"}
EdgeShape == [src : Keys, dst : Keys, type : EdgeTypes, conf : Nat \ {0}]
QueryShape ==
  [starts : SUBSET Keys, types : SUBSET EdgeTypes, dir : {"out", "in", "both"},
   hops : Nat, nodes : Nat]

ASSUME TraverseOK ==
  /\ NKeys \in Nat /\ HopCeiling \in Nat /\ NodeCeiling \in Nat
  /\ EdgeRows \subseteq EdgeShape /\ IsFiniteSet(EdgeRows) /\ Queries \subseteq QueryShape

\* The calls of the wrappers; theirs is the cap of 1000 nodes.
DependencyClosure(k, hops, cap) ==
  [starts |-> {k}, types |-> {"depends"}, dir |-> "out", hops |-> hops, nodes |-> cap]
ImpactRadius(k, hops, cap) ==
  [starts |-> {k}, types |-> {"depends", "flow"}, dir |-> "in", hops |-> hops, nodes |-> cap]

VARIABLES
  graphKeys,      \* the nodes live at the time read
  graphEdges,     \* the edges live at the time read
  query,
  phase,          \* "asked", "walking", "done" or "refused"
  rows,           \* the rows of the recursive query, by their path and confidence
  level,          \* the depth of the working table
  answer          \* what is returned: node |-> its depth and path_confidence

traverseVars == <<graphKeys, graphEdges, query, phase, rows, level, answer>>

NodeRows == [path : Seq(Keys), conf : Nat]

TraverseTypeOK ==
  /\ graphKeys \subseteq Keys /\ graphEdges \subseteq EdgeRows /\ query \in Queries
  /\ phase \in {"asked", "walking", "done", "refused"}
  /\ rows \subseteq NodeRows /\ level \in 0..query.hops

TraverseInit ==
  /\ graphKeys \in SUBSET Keys /\ graphEdges \in SUBSET EdgeRows /\ query \in Queries
  /\ phase = "asked" /\ rows = {} /\ level = 0
  /\ answer = [k \in {} |-> [depth |-> 0, conf |-> 0]]

-----------------------------------------------------------------------------
\* The ceilings on what may be asked.
TooWide == query.hops > HopCeiling \/ query.nodes > NodeCeiling

RefuseQuery ==
  /\ phase = "asked" /\ TooWide
  /\ phase' = "refused"
  /\ UNCHANGED <<graphKeys, graphEdges, query, rows, level, answer>>

\* The non-recursive term: a row for each start.
Seed ==
  /\ phase = "asked" /\ ~TooWide
  /\ rows' = {[path |-> <<k>>, conf |-> 1] : k \in query.starts}
  /\ phase' = "walking"
  /\ UNCHANGED <<graphKeys, graphEdges, query, level, answer>>

\* An edge that leads from one node to another in the direction asked for.
Leads(e, j, k) ==
  /\ e.type \in query.types
  /\ \/ query.dir \in {"out", "both"} /\ e.src = j /\ e.dst = k
     \/ query.dir \in {"in", "both"} /\ e.dst = j /\ e.src = k

End(p) == p[Len(p)]
\* CYCLE: the row of this path comes back to a node of it.
Closes(p) == \E i \in 1..(Len(p) - 1) : p[i] = End(p)

\* Variant: a node that is no longer live is not walked through.
ExpandLive ==
  /\ phase = "walking" /\ level < query.hops
  /\ rows' = rows \cup
       UNION {{[path |-> Append(w.path, k), conf |-> w.conf * e.conf] :
                 e \in {e \in graphEdges : Leads(e, End(w.path), k)}} :
                w \in {w \in rows : Len(w.path) = level + 1 /\ ~Closes(w.path)}, k \in graphKeys}
  /\ level' = level + 1
  /\ UNCHANGED <<graphKeys, graphEdges, query, phase, answer>>

\* The recursive term, over the rows of the last level that closed no cycle.
Expand ==
  /\ phase = "walking" /\ level < query.hops
  /\ rows' = rows \cup
       UNION {{[path |-> Append(w.path, k), conf |-> w.conf * e.conf] :
                 e \in {e \in graphEdges : Leads(e, End(w.path), k)}} :
                w \in {w \in rows : Len(w.path) = level + 1 /\ ~Closes(w.path)}, k \in Keys}
  /\ level' = level + 1
  /\ UNCHANGED <<graphKeys, graphEdges, query, phase, answer>>

\* DISTINCT ON: of the rows of a node, the first by depth and then by confidence, the
\* highest first.
RowsOf(k) == {w \in rows : ~Closes(w.path) /\ End(w.path) = k}
Depth(k) ==
  LET depths == {Len(w.path) - 1 : w \in RowsOf(k)}
  IN CHOOSE d \in depths : \A other \in depths : d <= other

\* Variant: the confidence ascending.
WeakestFirst(k) ==
  LET confs == {w.conf : w \in {w \in RowsOf(k) : Len(w.path) - 1 = Depth(k)}}
  IN CHOOSE c \in confs : \A other \in confs : c <= other

PathConfidence(k) ==
  LET confs == {w.conf : w \in {w \in RowsOf(k) : Len(w.path) - 1 = Depth(k)}}
  IN CHOOSE c \in confs : \A other \in confs : other <= c

\* LIMIT: the first by their key.
FirstOf(K, n) == {k \in K : Cardinality({j \in K : j < k}) < n}

\* What is returned: the nodes reached that are live.
Answer ==
  /\ phase = "walking" /\ level = query.hops
  /\ answer' = [k \in FirstOf({k \in graphKeys : RowsOf(k) # {}}, query.nodes) |->
       [depth |-> Depth(k), conf |-> PathConfidence(k)]]
  /\ phase' = "done"
  /\ UNCHANGED <<graphKeys, graphEdges, query, rows, level>>

TraverseNext == RefuseQuery \/ Seed \/ Expand \/ Answer

TraverseSpec == TraverseInit /\ [][TraverseNext]_traverseVars

-----------------------------------------------------------------------------
(* Properties.                                                             *)

\* A walk of n edges from a start to k, through whatever nodes.
Connects(j, k) == \E e \in graphEdges : Leads(e, j, k)
IsWalk(p) ==
  /\ p[1] \in query.starts
  /\ \A i \in 2..Len(p) : Connects(p[i - 1], p[i])
Reaches(k, n) == \E p \in [1..(n + 1) -> Keys] : IsWalk(p) /\ p[n + 1] = k

\* The closure is exact: leaving every row that closes a cycle, the query still finds each
\* live node within the hops asked for, at its least distance, through nodes that are live
\* or not; of more than it may return, the first by their key.
ReachExact == phase = "done" =>
  LET reach == {k \in graphKeys : \E n \in 0..query.hops : Reaches(k, n)} IN
  /\ DOMAIN answer = FirstOf(reach, query.nodes)
  /\ \A k \in DOMAIN answer :
       /\ Reaches(k, answer[k].depth)
       /\ \A n \in 0..(answer[k].depth - 1) : ~Reaches(k, n)

\* The highest confidence of the walks of n edges to each key, 0 if there is none: that of
\* an edge's start times the edge's own.
Seeds == [k \in Keys |-> IF k \in query.starts THEN 1 ELSE 0]
Offers(S, k) ==
  {0} \cup UNION {{S[j] * e.conf : e \in {e \in graphEdges : Leads(e, j, k)}} : j \in Keys}
Further(S) == [k \in Keys |-> CHOOSE c \in Offers(S, k) : \A d \in Offers(S, k) : d <= c]
Strength[n \in 0..HopCeiling] == IF n = 0 THEN Seeds ELSE Further(Strength[n - 1])

\* Of the shortest paths the one of the highest confidence is answered.
StrongestPath == phase = "done" =>
  \A k \in DOMAIN answer : answer[k].conf = Strength[answer[k].depth][k]
=============================================================================
