---------------------------- MODULE MCHitlGates ----------------------------
(* Small instances of HitlGates.  One definition per constant and instance; *)
(* the .cfg files choose.                                                   *)
EXTENDS HitlGates, TLC

CONSTANTS p1, p2, i1, i2, g1, g2, r1, r2, author, agent, s1, e1, k1, k2, a, b

\* One proposal with one item, written by somebody who is also a reviewer.
OneItemsOf      == [p \in Proposals |-> {i1}]
OneAuthor       == [p \in Proposals |-> author]
OneSessionOf    == [p \in Proposals |-> s1]
OneEngagementOf == [p \in Proposals |-> e1]
AgentPayloadA   == [i \in Items |-> a]
OneKindOf       == [g \in Policies |-> k1]
AllMatch        == Policies \X Items \X Payloads
AllAuthority    == Reviewers \X Engagements \X Kinds
Everyone        == Reviewers
Everything      == Items
Nothing         == {}
QuorumTwo       == [g \in Policies |-> 2]
QuorumOne       == [g \in Policies |-> 1]
Fixed           == [g \in Policies |-> {}]
Retuned         == [g \in Policies |-> 0..2]

\* Two proposals of one agent session, one item each.
TwoItemsOf      == [p \in Proposals |-> IF p = p1 THEN {i1} ELSE {i2}]
AgentAuthor     == [p \in Proposals |-> agent]

\* Two gates of different kinds; an edited payload no longer matches the second.
TwoKindsOf      == [g \in Policies |-> IF g = g1 THEN k1 ELSE k2]
EditUnmatches   == {<<g1, i, x>> : i \in Items, x \in Payloads} \cup {<<g2, i1, a>>}
CrossAuthority  == {<<r1, e1, k1>>, <<r2, e1, k2>>}

\* One proposal with two items.
PairItemsOf     == [p \in Proposals |-> {i1, i2}]

Symmetry == Permutations({r1, r2})
=============================================================================
