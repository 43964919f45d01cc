-------------------------- MODULE MCKnowledgeGraph --------------------------
(* Small instances of KnowledgeGraph.                                       *)
EXTENDS KnowledgeGraph, TLC
CONSTANTS m1, m2, m3, k1, k2

Put(k)    == [op |-> "put", key |-> k]
Retire(k) == [op |-> "retire", key |-> k]

\* Two keys written in opposite orders, and one retired.
Crossing == (m1 :> <<Put(k1), Put(k2)>>) @@ (m2 :> <<Put(k2), Put(k1)>>) @@ (m3 :> <<Retire(k1)>>)

\* Two keys that two merges put; a third retires the first key.
Apart == (m1 :> <<Put(k1)>>) @@ (m2 :> <<Put(k2)>>) @@ (m3 :> <<Retire(k1)>>)

BoundToFirst == [w \in Workflows |-> {k1}]
=============================================================================
