------------------------------- MODULE Intake -------------------------------
(***************************************************************************)
(* Transcripts into kg.source and kg.chunk, and the re-ingestion of the    *)
(* passages no live node matched (fde_gate.service.sources).  A source and *)
(* its chunks are never updated.  A call is one transaction, but what it   *)
(* looks up (the checksum, a successor, the live nodes) no index or lock   *)
(* holds until it inserts.                                                 *)
(***************************************************************************)
EXTENDS Integers, FiniteSets

CONSTANTS
  Texts,          \* the transcripts
  PassagesOf,     \* chunk_transcript: the passages of each, shared with no other
  Nodes,
  Matches,        \* intake.match_anchors: the nodes whose label a passage mentions
  Operators,      \* the calls of the console
  MaxSources      \* bound on the rows of kg.source

SourceIds == 1..MaxSources
NoSource  == 0
Passages  == UNION {PassagesOf[t] : t \in Texts}

ASSUME IntakeOK ==
  /\ MaxSources \in Nat
  /\ Matches \in [Passages -> SUBSET Nodes]
  /\ \A t \in Texts, u \in Texts : t # u => PassagesOf[t] \cap PassagesOf[u] = {}

VARIABLES
  liveNodes,      \* kg.node_current
  sources,        \* kg.source with its chunks: passage |-> anchor_keys; reingest_of
  intake,         \* the calls under way
  crossed         \* history: a source was inserted while another call had looked

intakeVars == <<liveNodes, sources, intake, crossed>>

NoIntake == [at |-> "idle"]
Chunkings == UNION {[P -> SUBSET Nodes] : P \in SUBSET Passages}
SourceRows == [of : SourceIds \cup {NoSource}, anchors : Chunkings]
CallRows   == [at : {"looked", "matched"}, of : SourceIds \cup {NoSource}, anchors : Chunkings]

IntakeTypeOK ==
  /\ liveNodes \subseteq Nodes
  /\ DOMAIN sources \subseteq SourceIds /\ \A s \in DOMAIN sources : sources[s] \in SourceRows
  /\ intake \in [Operators -> {NoIntake} \cup CallRows]
  /\ crossed \in BOOLEAN

IntakeInit ==
  /\ liveNodes = {}
  /\ sources = [s \in {} |-> NoSource]
  /\ intake = [o \in Operators |-> NoIntake]
  /\ crossed = FALSE

-----------------------------------------------------------------------------
Registered == {s \in DOMAIN sources : sources[s].of = NoSource}
Successors(s) == {t \in DOMAIN sources : sources[t].of = s}

Looks(o, of, P) ==
  intake' = [intake EXCEPT ![o] = [at |-> "looked", of |-> of, anchors |-> [p \in P |-> {}]]]

\* register: no source has this content's checksum.
Register(o) ==
  /\ intake[o].at = "idle"
  /\ \E t \in Texts :
       /\ \A s \in Registered : DOMAIN sources[s].anchors # PassagesOf[t]
       /\ Looks(o, NoSource, PassagesOf[t])
  /\ UNCHANGED <<liveNodes, sources, crossed>>

\* cardinality(anchor_keys) = 0.
Dark(s) == {p \in DOMAIN sources[s].anchors : sources[s].anchors[p] = {}}

\* Variant: no look for a successor.
ReingestAny(o) ==
  /\ intake[o].at = "idle"
  /\ \E s \in DOMAIN sources : Dark(s) # {} /\ Looks(o, s, Dark(s))
  /\ UNCHANGED <<liveNodes, sources, crossed>>

\* reingest_dark_chunks: a source with no successor yet, and its dark passages.
Reingest(o) ==
  /\ intake[o].at = "idle"
  /\ \E s \in DOMAIN sources :
       Successors(s) = {} /\ Dark(s) # {} /\ Looks(o, s, Dark(s))
  /\ UNCHANGED <<liveNodes, sources, crossed>>

\* Variant: a re-ingestion carries only the passages that match now.
MatchedOnly(o) ==
  [p \in {q \in DOMAIN intake[o].anchors :
            intake[o].of = NoSource \/ Matches[q] \cap liveNodes # {}} |-> Matches[p] \cap liveNodes]

\* match_anchors over the live nodes.
Anchored(o) == [p \in DOMAIN intake[o].anchors |-> Matches[p] \cap liveNodes]

\* The nodes as they are now; a re-ingestion that anchors nothing, or whose content and
\* anchors another re-ingestion has already stored, ends here (see Abandon).
MatchAnchors(o) ==
  LET anchors == Anchored(o) IN
  /\ intake[o].at = "looked"
  /\ intake[o].of # NoSource =>
       /\ \E p \in DOMAIN anchors : anchors[p] # {}
       /\ \A s \in DOMAIN sources \ Registered : sources[s].anchors # anchors
  /\ intake' = [intake EXCEPT ![o] = [at |-> "matched", of |-> @.of, anchors |-> anchors]]
  /\ UNCHANGED <<liveNodes, sources, crossed>>

\* The source with its chunks; the commit.
Insert(o) ==
  /\ intake[o].at = "matched" /\ Cardinality(DOMAIN sources) < MaxSources
  /\ LET new == Cardinality(DOMAIN sources) + 1
         row == [of |-> intake[o].of, anchors |-> intake[o].anchors]
     IN sources' = [s \in DOMAIN sources \cup {new} |-> IF s = new THEN row ELSE sources[s]]
  /\ crossed' = (crossed \/ \E other \in Operators \ {o} : intake[other].at # "idle")
  /\ intake' = [intake EXCEPT ![o] = NoIntake]
  /\ UNCHANGED liveNodes

\* A refusal, a source that exists already, or a lost connection.
Abandon(o) ==
  /\ intake[o].at # "idle"
  /\ intake' = [intake EXCEPT ![o] = NoIntake]
  /\ UNCHANGED <<liveNodes, sources, crossed>>

\* A merge adds or retires a node.
MergeNode == \E n \in Nodes :
  /\ \/ liveNodes' = liveNodes \cup {n}
     \/ liveNodes' = liveNodes \ {n}
  /\ UNCHANGED <<sources, intake, crossed>>

IntakeNext ==
  \/ MergeNode
  \/ \E o \in Operators :
       Register(o) \/ Reingest(o) \/ MatchAnchors(o) \/ Insert(o) \/ Abandon(o)

IntakeSpec == IntakeInit /\ [][IntakeNext]_intakeVars

-----------------------------------------------------------------------------
(* Properties.                                                             *)

\* A passage is anchored in at most one source, so that nothing is counted as evidence
\* twice, whatever merges come between the versions; unless two calls overlapped: the
\* checksum and the successor are looked up, not enforced.
AnchoredOnce == crossed \/ \A s \in DOMAIN sources, t \in DOMAIN sources :
  \A p \in DOMAIN sources[s].anchors \cap DOMAIN sources[t].anchors :
    s # t => p \in Dark(s) \/ p \in Dark(t)

\* Re-ingestion loses no passage: each is anchored in some version or is still dark in one
\* that can be re-ingested, even when calls overlap.
DarkStaysReachable == \A s \in DOMAIN sources : \A p \in Dark(s) :
  \E t \in DOMAIN sources :
    /\ p \in DOMAIN sources[t].anchors
    /\ p \notin Dark(t) \/ Successors(t) = {}
=============================================================================
