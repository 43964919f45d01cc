-------------------------- MODULE IngestionProofs --------------------------
(***************************************************************************)
(* What holds of the two ways data comes in, for every instance: the       *)
(* transcripts that people register and re-ingest, and the records of a    *)
(* customer's system.  Both read, and write in a later step; the invariants *)
(* say what of the reading is still true then.                             *)
(***************************************************************************)
EXTENDS Intake, SorIngest, FiniteSetTheorems, TLAPS

-----------------------------------------------------------------------------
(* Intake.                                                                 *)

\* Sources are numbered as they come.
Numbered == \E n \in Nat : DOMAIN sources = 1..n

\* A successor has the dark passages of its origin, which comes before it.
Descends == \A s \in DOMAIN sources : sources[s].of # NoSource =>
  /\ sources[s].of \in DOMAIN sources /\ sources[s].of < s
  /\ DOMAIN sources[s].anchors = Dark(sources[s].of)

\* A call under way to re-ingest carries the dark passages of its origin.
CarriesDark == \A o \in Operators : intake[o].at # "idle" /\ intake[o].of # NoSource =>
  intake[o].of \in DOMAIN sources /\ DOMAIN intake[o].anchors = Dark(intake[o].of)

\* A call under way to register carries a whole text.
CarriesText == \A o \in Operators : intake[o].at # "idle" /\ intake[o].of = NoSource =>
  \E t \in Texts : DOMAIN intake[o].anchors = PassagesOf[t]

\* Unless calls crossed, what one looked up is still so.
LookHolds == crossed \/ \A o \in Operators : intake[o].at # "idle" =>
  /\ intake[o].of # NoSource => Successors(intake[o].of) = {}
  /\ intake[o].of = NoSource =>
       \A s \in Registered : DOMAIN sources[s].anchors # DOMAIN intake[o].anchors

\* Every source is of a registered text, whole.
Rooted == \A s \in DOMAIN sources : \E r \in Registered, t \in Texts :
  DOMAIN sources[r].anchors = PassagesOf[t] /\ DOMAIN sources[s].anchors \subseteq PassagesOf[t]

\* Unless calls crossed, a passage found in two sources was dark in the first of them,
\* which has been re-ingested.
Chained == crossed \/ \A s \in DOMAIN sources, t \in DOMAIN sources : s < t =>
  \A p \in DOMAIN sources[s].anchors \cap DOMAIN sources[t].anchors :
    p \in Dark(s) /\ Successors(s) # {}

IntakeInv ==
  /\ IntakeTypeOK /\ Numbered /\ Descends /\ CarriesDark /\ CarriesText /\ LookHolds /\ Rooted
  /\ Chained /\ DarkStaysReachable

\* While no source is inserted, what is said of the sources alone stays.
LEMMA SourcesStay ==
  ASSUME IntakeInv, UNCHANGED <<sources, crossed>>
  PROVE  /\ Numbered' /\ Descends' /\ Rooted' /\ Chained' /\ DarkStaysReachable'
         /\ Registered' = Registered
         /\ \A s : Dark(s)' = Dark(s) /\ Successors(s)' = Successors(s)
<1>1. sources' = sources /\ DOMAIN sources' = DOMAIN sources /\ crossed' = crossed
  OBVIOUS
<1>2. /\ Registered' = Registered
      /\ \A s : Dark(s)' = Dark(s) /\ Successors(s)' = Successors(s)
  BY <1>1 DEF Registered, Dark, Successors
<1>3. Numbered'
  BY <1>1 DEF IntakeInv, Numbered
<1>4. Descends' /\ Rooted'
  BY <1>1, <1>2 DEF IntakeInv, Descends, Rooted
<1>5. Chained'
  BY <1>1, <1>2 DEF IntakeInv, Chained
<1>6. DarkStaysReachable'
  BY <1>1, <1>2 DEF IntakeInv, DarkStaysReachable
<1> QED
  BY <1>2, <1>3, <1>4, <1>5, <1>6

\* A call's row is replaced, and no source is inserted.
LEMMA CallStep ==
  ASSUME IntakeInv, NEW o \in Operators, NEW r, r \in {NoIntake} \cup CallRows,
         intake' = [intake EXCEPT ![o] = r], UNCHANGED <<liveNodes, sources, crossed>>,
         r.at # "idle" /\ r.of # NoSource =>
           /\ r.of \in DOMAIN sources /\ DOMAIN r.anchors = Dark(r.of)
           /\ crossed \/ Successors(r.of) = {},
         r.at # "idle" /\ r.of = NoSource =>
           /\ \E t \in Texts : DOMAIN r.anchors = PassagesOf[t]
           /\ crossed \/ \A s \in Registered : DOMAIN sources[s].anchors # DOMAIN r.anchors
  PROVE  IntakeInv'
<1>1. \A c \in Operators : intake'[c] = IF c = o THEN r ELSE intake[c]
  BY DEF IntakeInv, IntakeTypeOK
<1>2. IntakeTypeOK'
  BY DEF IntakeInv, IntakeTypeOK
<1>3. Numbered' /\ Descends' /\ Rooted' /\ Chained' /\ DarkStaysReachable'
  BY SourcesStay
<1>4. CarriesDark'
  BY <1>1 DEF IntakeInv, CarriesDark, Dark
<1>5. CarriesText'
  BY <1>1 DEF IntakeInv, CarriesText
<1>6. LookHolds'
  BY <1>1 DEF IntakeInv, LookHolds, Registered, Successors
<1> QED
  BY <1>2, <1>3, <1>4, <1>5, <1>6 DEF IntakeInv

\* A chunking is a function; so is what a call holds of a text.
LEMMA ChunkingSets ==
  /\ \A P \in SUBSET Passages : [p \in P |-> {}] \in Chunkings
  /\ \A P \in SUBSET Passages : \A f \in [P -> SUBSET Nodes] : f \in Chunkings
  /\ \A f \in Chunkings : DOMAIN f \in SUBSET Passages /\ f \in [DOMAIN f -> SUBSET Nodes]
BY DEF Chunkings

LEMMA InsertStep ==
  ASSUME IntakeInv, NEW o \in Operators, Insert(o)
  PROVE  IntakeInv'
<1>0. PICK origin, chunks : origin = intake[o].of /\ chunks = intake[o].anchors
  OBVIOUS
<1> DEFINE new == Cardinality(DOMAIN sources) + 1
           row == [of |-> origin, anchors |-> chunks]
<1>1. PICK n \in Nat : DOMAIN sources = 1..n
  BY DEF IntakeInv, Numbered
<1>2. new = n + 1 /\ Cardinality(DOMAIN sources) = n
  <2>1. IsFiniteSet(1..n) /\ Cardinality(1..n) = n
    BY <1>1, FS_Interval
  <2> QED
    BY <1>1, <2>1
<1>3. /\ DOMAIN sources' = 1..(n + 1)
      /\ \A s \in 1..n : sources'[s] = sources[s]
      /\ sources'[n + 1] = row
  BY <1>0, <1>1, <1>2 DEF Insert
<1>4. /\ intake[o] \in CallRows /\ intake[o].at = "matched"
      /\ row \in SourceRows /\ row.of = origin /\ row.anchors = chunks
  BY <1>0 DEF IntakeInv, IntakeTypeOK, Insert, CallRows, SourceRows, NoIntake
<1>5. \A c \in Operators : intake'[c] = IF c = o THEN NoIntake ELSE intake[c]
  BY DEF Insert, IntakeInv, IntakeTypeOK
<1>6. liveNodes' = liveNodes /\ n < MaxSources
      /\ (crossed => crossed')
      /\ (crossed' \/ \A c \in Operators \ {o} : intake[c].at = "idle")
  BY <1>2 DEF Insert
<1>7. /\ \A s \in 1..n : Dark(s)' = Dark(s)
      /\ Dark(n + 1)' = {p \in DOMAIN chunks : chunks[p] = {}}
  BY <1>3 DEF Dark
<1>8. origin = NoSource \/ origin \in 1..n
  BY <1>0, <1>1, <1>4 DEF IntakeInv, CarriesDark
<1>9. /\ \A s \in 1..n : Successors(s) \subseteq Successors(s)'
      /\ \A s \in 1..n : s # origin => Successors(s)' = Successors(s)
      /\ origin # NoSource => n + 1 \in Successors(origin)'
      /\ Successors(n + 1)' = {}
  <2>1. \A s \in 1..n : sources[s].of \in 1..n \cup {NoSource}
    BY <1>1 DEF IntakeInv, Descends
  <2>2. \A s : Successors(s) = {t \in 1..n : sources[t].of = s}
    BY <1>1 DEF Successors
  <2>3. \A s : Successors(s)' = {t \in 1..(n + 1) : sources'[t].of = s}
    BY <1>3 DEF Successors
  <2>4. \A s : \A t \in 1..n : t \in Successors(s)' <=> t \in Successors(s)
    BY <1>3, <2>2, <2>3
  <2>5. \A s : n + 1 \in Successors(s)' <=> origin = s
    BY <1>1, <1>3, <2>3
  <2>6. ASSUME NEW s \in 1..n, s # origin PROVE Successors(s)' = Successors(s)
    <3>1. \A t : t \in 1..(n + 1) <=> t \in 1..n \/ t = n + 1
      BY <1>1
    <3>2. \A t : t \in Successors(s)' <=> t \in Successors(s)
      BY <2>2, <2>3, <2>4, <2>5, <2>6, <3>1
    <3> QED
      BY <3>2
  <2>7. Successors(n + 1)' = {}
    BY <1>1, <1>3, <1>4, <1>8, <2>1, <2>3 DEF NoSource
  <2>8. \A s \in 1..n : Successors(s) \subseteq Successors(s)'
    BY <2>2, <2>4
  <2> QED
    BY <2>5, <2>6, <2>7, <2>8
<1>10. IntakeTypeOK'
  <2>1. IntakeOK /\ n + 1 \in SourceIds
    BY <1>6, IntakeOK DEF SourceIds
  <2>2. \A s \in DOMAIN sources' : sources'[s] \in SourceRows /\ s \in SourceIds
    BY <1>1, <1>3, <1>4, <2>1 DEF IntakeInv, IntakeTypeOK
  <2> QED
    BY <2>2 DEF Insert, IntakeInv, IntakeTypeOK
<1>11. Numbered'
  BY <1>3 DEF Numbered
<1>12. Descends'
  <2>1. \A s \in 1..n : sources[s].of # NoSource =>
          /\ sources[s].of \in 1..n /\ sources[s].of < s
          /\ DOMAIN sources[s].anchors = Dark(sources[s].of)
    BY <1>1 DEF IntakeInv, Descends
  <2>2. origin # NoSource => origin \in 1..n /\ origin < n + 1 /\ DOMAIN chunks = Dark(origin)
    BY <1>0, <1>1, <1>4, <1>8 DEF IntakeInv, CarriesDark
  <2> QED
    BY <1>3, <1>7, <2>1, <2>2 DEF Descends
<1>13. CarriesDark'
  BY <1>1, <1>3, <1>5, <1>7 DEF IntakeInv, CarriesDark, NoIntake
<1>14. CarriesText'
  BY <1>5 DEF IntakeInv, CarriesText, NoIntake
<1>15. LookHolds'
  BY <1>5, <1>6 DEF LookHolds, NoIntake
<1>16. Registered \subseteq Registered' /\ (origin = NoSource => n + 1 \in Registered')
  BY <1>1, <1>3 DEF Registered
<1>17. Rooted'
  <2>1. \A s \in 1..n : \E r \in Registered', t \in Texts :
          DOMAIN sources'[r].anchors = PassagesOf[t] /\ DOMAIN sources'[s].anchors \subseteq PassagesOf[t]
    BY <1>1, <1>3, <1>16 DEF IntakeInv, Rooted, Registered
  <2>2. CASE origin = NoSource
    <3>1. PICK t \in Texts : DOMAIN chunks = PassagesOf[t]
      BY <1>0, <1>4, <2>2 DEF IntakeInv, CarriesText
    <3>2. n + 1 \in Registered' /\ sources'[n + 1].anchors = chunks
      BY <1>3, <1>16, <2>2
    <3>3. \A s \in 1..(n + 1) : s \in 1..n \/ s = n + 1
      BY <1>1
    <3> QED
      BY <1>3, <2>1, <3>1, <3>2, <3>3 DEF Rooted
  <2>3. CASE origin # NoSource
    <3>1. origin \in 1..n /\ DOMAIN chunks \subseteq DOMAIN sources'[origin].anchors
      BY <1>0, <1>3, <1>4, <1>8, <2>3 DEF IntakeInv, CarriesDark, Dark
    <3> QED
      BY <1>3, <2>1, <3>1 DEF Rooted
  <2> QED
    BY <2>2, <2>3
<1>18. Chained'
  <2> SUFFICES ASSUME ~crossed', NEW s \in 1..(n + 1), NEW t \in 1..(n + 1), s < t,
                      NEW p \in DOMAIN sources'[s].anchors \cap DOMAIN sources'[t].anchors
               PROVE  p \in Dark(s)' /\ Successors(s)' # {}
    BY <1>3 DEF Chained
  <2>1. ~crossed /\ s \in 1..n /\ p \in DOMAIN sources[s].anchors
    BY <1>1, <1>3, <1>6
  <2>2. CASE t \in 1..n
    BY <1>1, <1>3, <1>7, <1>9, <2>1, <2>2 DEF IntakeInv, Chained
  <2>3. CASE t = n + 1 /\ origin = NoSource
    <3>1. PICK u \in Texts : DOMAIN chunks = PassagesOf[u]
      BY <1>0, <1>4, <2>3 DEF IntakeInv, CarriesText
    <3>2. PICK r \in Registered, v \in Texts :
            DOMAIN sources[r].anchors = PassagesOf[v] /\ DOMAIN sources[s].anchors \subseteq PassagesOf[v]
      BY <1>1, <2>1 DEF IntakeInv, Rooted
    <3>3. PassagesOf[v] # PassagesOf[u]
      BY <1>0, <1>4, <2>1, <2>3, <3>1, <3>2 DEF IntakeInv, LookHolds
    <3>4. p \in PassagesOf[u] \cap PassagesOf[v]
      BY <1>3, <2>1, <2>3, <3>1, <3>2
    <3> QED
      BY <3>3, <3>4, IntakeOK
  <2>4. CASE t = n + 1 /\ origin # NoSource
    <3>1. origin \in 1..n /\ p \in Dark(origin) /\ Successors(origin) = {}
      BY <1>0, <1>3, <1>4, <1>8, <2>1, <2>4 DEF IntakeInv, CarriesDark, LookHolds
    <3>2. p \in DOMAIN sources[origin].anchors
      BY <3>1 DEF Dark
    <3>3. CASE s = origin
      <4>1. n + 1 \in Successors(origin)' /\ Dark(s)' = Dark(s)
        BY <1>7, <1>9, <2>1, <2>4
      <4> QED
        BY <3>1, <3>3, <4>1
    <3>4. CASE s # origin
      <4>1. s < origin \/ origin < s
        BY <2>1, <3>1, <3>4
      <4>2. p \in Dark(s) /\ Successors(s) # {}
        BY <1>1, <2>1, <3>1, <3>2, <4>1 DEF IntakeInv, Chained
      <4> QED
        BY <1>7, <1>9, <2>1, <4>2
    <3> QED
      BY <3>3, <3>4
  <2> QED
    BY <2>2, <2>3, <2>4
<1>19. DarkStaysReachable'
  <2> SUFFICES ASSUME NEW s \in 1..(n + 1), NEW p \in Dark(s)'
               PROVE  \E t \in 1..(n + 1) :
                        /\ p \in DOMAIN sources'[t].anchors
                        /\ p \notin Dark(t)' \/ Successors(t)' = {}
    BY <1>3 DEF DarkStaysReachable
  <2>1. CASE p \in DOMAIN chunks
    BY <1>3, <1>9, <2>1
  <2>2. CASE p \notin DOMAIN chunks
    <3>1. s \in 1..n /\ p \in Dark(s)
      BY <1>7, <2>2 DEF Dark
    <3>2. PICK t \in 1..n : /\ p \in DOMAIN sources[t].anchors
                            /\ p \notin Dark(t) \/ Successors(t) = {}
      BY <1>1, <3>1 DEF IntakeInv, DarkStaysReachable
    <3>3. t = origin => p \notin Dark(t)
      BY <1>0, <1>4, <1>8, <2>2 DEF IntakeInv, CarriesDark, NoSource
    <3> QED
      BY <1>3, <1>7, <1>9, <3>2, <3>3
  <2> QED
    BY <2>1, <2>2
<1> QED
  BY <1>10, <1>11, <1>12, <1>13, <1>14, <1>15, <1>17, <1>18, <1>19 DEF IntakeInv

LEMMA IntakeInductive ==
  ASSUME IntakeInv, [IntakeNext]_intakeVars
  PROVE  IntakeInv'
<1>1. CASE UNCHANGED intakeVars
  <2>1. UNCHANGED <<liveNodes, sources, intake, crossed>>
    BY <1>1 DEF intakeVars
  <2> QED
    BY <2>1, SourcesStay DEF IntakeInv, IntakeTypeOK, CarriesDark, CarriesText, LookHolds
<1>2. CASE MergeNode
  <2>1. liveNodes' \subseteq Nodes /\ UNCHANGED <<sources, intake, crossed>>
    BY <1>2 DEF MergeNode, IntakeInv, IntakeTypeOK
  <2> QED
    BY <2>1, SourcesStay DEF IntakeInv, IntakeTypeOK, CarriesDark, CarriesText, LookHolds
<1>3. ASSUME NEW o \in Operators, Register(o) PROVE IntakeInv'
  <2>1. PICK t \in Texts : /\ \A s \in Registered : DOMAIN sources[s].anchors # PassagesOf[t]
                           /\ Looks(o, NoSource, PassagesOf[t])
    BY <1>3 DEF Register
  <2> DEFINE r == [at |-> "looked", of |-> NoSource, anchors |-> [p \in PassagesOf[t] |-> {}]]
  <2>2. r \in CallRows
    BY ChunkingSets DEF CallRows, Passages
  <2>3. intake' = [intake EXCEPT ![o] = r] /\ UNCHANGED <<liveNodes, sources, crossed>>
    BY <1>3, <2>1 DEF Looks, Register
  <2>4. r.of = NoSource /\ DOMAIN r.anchors = PassagesOf[t]
    OBVIOUS
  <2> HIDE DEF r
  <2> QED
    BY <2>1, <2>2, <2>3, <2>4, CallStep
<1>4. ASSUME NEW o \in Operators, Reingest(o) PROVE IntakeInv'
  <2>1. PICK s \in DOMAIN sources : Successors(s) = {} /\ Looks(o, s, Dark(s))
    BY <1>4 DEF Reingest
  <2> DEFINE r == [at |-> "looked", of |-> s, anchors |-> [p \in Dark(s) |-> {}]]
  <2>2. r \in CallRows
    <3>1. s \in SourceIds /\ sources[s].anchors \in Chunkings
      BY DEF IntakeInv, IntakeTypeOK, SourceRows
    <3>2. Dark(s) \in SUBSET Passages
      BY <3>1, ChunkingSets DEF Dark
    <3> QED
      BY <3>1, <3>2, ChunkingSets DEF CallRows
  <2>3. intake' = [intake EXCEPT ![o] = r] /\ UNCHANGED <<liveNodes, sources, crossed>>
    BY <1>4, <2>1 DEF Looks, Reingest
  <2>4. r.of = s /\ DOMAIN r.anchors = Dark(s) /\ s # NoSource
    BY DEF IntakeInv, IntakeTypeOK, SourceIds, NoSource
  <2> HIDE DEF r
  <2> QED
    BY <2>1, <2>2, <2>3, <2>4, CallStep
<1>5. ASSUME NEW o \in Operators, MatchAnchors(o) PROVE IntakeInv'
  <2> DEFINE r == [at |-> "matched", of |-> intake[o].of, anchors |-> Anchored(o)]
  <2>1. intake[o] \in CallRows /\ intake[o].at = "looked"
    BY <1>5 DEF MatchAnchors, IntakeInv, IntakeTypeOK, CallRows, NoIntake
  <2>2. DOMAIN Anchored(o) = DOMAIN intake[o].anchors /\ Anchored(o) \in Chunkings
    <3>1. DOMAIN intake[o].anchors \in SUBSET Passages
      BY <2>1, ChunkingSets DEF CallRows
    <3>2. Anchored(o) \in [DOMAIN intake[o].anchors -> SUBSET Nodes]
      BY <3>1, IntakeOK DEF Anchored
    <3> QED
      BY <3>1, <3>2, ChunkingSets DEF Anchored
  <2>3. r \in CallRows
    BY <2>1, <2>2 DEF CallRows
  <2>4. intake' = [intake EXCEPT ![o] = r] /\ UNCHANGED <<liveNodes, sources, crossed>>
    BY <1>5 DEF MatchAnchors
  <2>5. r.of = intake[o].of /\ DOMAIN r.anchors = DOMAIN intake[o].anchors
    BY <2>2
  <2> HIDE DEF r
  <2> QED
    BY <2>1, <2>3, <2>4, <2>5, CallStep DEF IntakeInv, CarriesDark, CarriesText, LookHolds
<1>6. ASSUME NEW o \in Operators, Abandon(o) PROVE IntakeInv'
  <2>1. NoIntake.at = "idle"
    BY DEF NoIntake
  <2> QED
    BY <1>6, <2>1, CallStep DEF Abandon
<1> QED
  BY <1>1, <1>2, <1>3, <1>4, <1>5, <1>6, InsertStep DEF IntakeNext

LEMMA IntakeInvariant == IntakeSpec => []IntakeInv
<1>1. IntakeInit => IntakeInv
  <2> SUFFICES ASSUME IntakeInit PROVE IntakeInv
    OBVIOUS
  <2>1. DOMAIN sources = {} /\ 1..0 = {} /\ \A o \in Operators : intake[o] = NoIntake
    BY DEF IntakeInit
  <2>2. IntakeTypeOK
    BY <2>1 DEF IntakeInit, IntakeTypeOK
  <2>3. Numbered
    BY <2>1 DEF Numbered
  <2>4. CarriesDark /\ CarriesText /\ LookHolds
    BY <2>1 DEF CarriesDark, CarriesText, LookHolds, NoIntake
  <2> QED
    BY <2>1, <2>2, <2>3, <2>4 DEF IntakeInv, Descends, Rooted, Chained, DarkStaysReachable
<1>2. IntakeInv /\ [IntakeNext]_intakeVars => IntakeInv'
  BY IntakeInductive
<1> QED
  BY <1>1, <1>2, PTL DEF IntakeSpec

\* The sources, their chunks and the calls under way keep their types (service.sources).
THEOREM IntakeTypeCorrect == IntakeSpec => []IntakeTypeOK
<1>1. IntakeInv => IntakeTypeOK
  BY DEF IntakeInv
<1> QED
  BY <1>1, IntakeInvariant, PTL

\* For any texts, nodes and calls, a passage is anchored in at most one version, unless two
\* calls overlapped (register, reingest_dark_chunks).
THEOREM AlwaysAnchoredOnce == IntakeSpec => []AnchoredOnce
<1>1. IntakeInv => AnchoredOnce
  <2> SUFFICES ASSUME IntakeInv, ~crossed, NEW s \in DOMAIN sources, NEW t \in DOMAIN sources,
                      NEW p \in DOMAIN sources[s].anchors \cap DOMAIN sources[t].anchors, s # t
               PROVE  p \in Dark(s) \/ p \in Dark(t)
    BY DEF AnchoredOnce
  <2>1. s < t \/ t < s
    BY DEF IntakeInv, Numbered
  <2> QED
    BY <2>1 DEF IntakeInv, Chained
<1> QED
  BY <1>1, IntakeInvariant, PTL

\* For any texts and calls, overlapping or not, no dark passage is lost
\* (reingest_dark_chunks).
THEOREM DarkAlwaysReachable == IntakeSpec => []DarkStaysReachable
<1>1. IntakeInv => DarkStaysReachable
  BY DEF IntakeInv
<1> QED
  BY <1>1, IntakeInvariant, PTL

-----------------------------------------------------------------------------
(* Ingestion from a system of record.                                      *)

\* The record is behind whatever position a fetch from x starts at: after x in the log,
\* at x or after it in an API.
Beyond(r, x) == IF sorKind = "db_cdc" THEN Stamp[r] > x ELSE Stamp[r] >= x

\* The source never goes back: what is to come is behind all there is, and behind where
\* the next fetch starts.
SourceOrder == \A s \in Records \ emitted :
  /\ \A r \in emitted : Beyond(s, Stamp[r])
  /\ Beyond(s, slot) /\ Beyond(s, lastCursor)

\* A run knows nothing that is still to come.
RunKnows(p) ==
  /\ ingesting[p].unread \subseteq emitted /\ ingesting[p].batch \subseteq emitted
  /\ ingesting[p].cursor <= ingesting[p].mark
  /\ \A s \in Records \ emitted : Beyond(s, ingesting[p].mark)

\* Between its commit and its acknowledgement a run holds nothing, and of a log it has
\* read no further than it says, but for what it jumped.
AckSafe(p) == ingesting[p].at = "ack" =>
  /\ ingesting[p].replay = FALSE /\ sorKind # "rest_poll" /\ ingesting[p].batch = {}
  /\ sorKind = "db_cdc" =>
       \A u \in ingesting[p].unread : Stamp[u] <= ingesting[p].cursor => u \in jumped

\* What a run is to delete from a queue is stored or in its batch, and can be decoded.
ReceiptsSafe(p) == sorKind = "event_stream" => \A r \in ingesting[p].receipts :
  /\ Grade[r] # "undecodable"
  /\ Grade[r] = "good" => r \in stored \cup ingesting[p].batch

\* What the source has produced is stored, jumped, in the hands of the run, or younger
\* than anything the run has read or is to read.
Younger(r, p) ==
  /\ Beyond(r, ingesting[p].mark)
  /\ \A u \in ingesting[p].unread : Beyond(r, Stamp[u])
Covers(p) == sorKind # "event_stream" /\ ingesting[p].replay = FALSE /\ ingesting[p].at # "idle" =>
  \A r \in emitted : Grade[r] = "good" =>
    \/ r \in stored \cup jumped \cup ingesting[p].batch \cup ingesting[p].unread
    \/ Younger(r, p)

RunSound(p) == RunKnows(p) /\ AckSafe(p) /\ ReceiptsSafe(p) /\ Covers(p)

SorInv == SorTypeOK /\ SourceOrder /\ NothingLost /\ \A p \in IngestRuns : RunSound(p)

LEMMA StampNat ==
  /\ \A r \in Records : Stamp[r] \in Nat \ {0} /\ Stamp[r] \in Stamps
  /\ Stamps \subseteq Nat /\ 0 \in Stamps
BY SorOK DEF Stamps

LEMMA LaterMax ==
  ASSUME NEW x \in Stamps, NEW y \in Stamps
  PROVE  Later(x, y) \in Stamps /\ Later(x, y) >= x /\ Later(x, y) >= y /\ Later(x, y) \in {x, y}
BY StampNat DEF Later

\* A run at rest is sound.
LEMMA IdleSound ==
  ASSUME SorTypeOK, NEW p \in IngestRuns, ingesting[p] = IdleRun
  PROVE  RunSound(p)
<1>1. /\ ingesting[p].at = "idle" /\ ingesting[p].unread = {} /\ ingesting[p].batch = {}
      /\ ingesting[p].cursor = 0 /\ ingesting[p].mark = 0 /\ ingesting[p].receipts = {}
  BY DEF IdleRun
<1>2. RunKnows(p)
  <2>1. \A s \in Records \ emitted : Beyond(s, 0)
    BY StampNat DEF Beyond
  <2> QED
    BY <1>1, <2>1 DEF RunKnows
<1> QED
  BY <1>1, <1>2 DEF RunSound, AckSafe, ReceiptsSafe, Covers

\* What others store or jump leaves a run sound.
LEMMA OthersSound ==
  ASSUME NEW p \in IngestRuns, RunSound(p), UNCHANGED <<sorKind, emitted>>,
         stored \subseteq stored', jumped \subseteq jumped', ingesting'[p] = ingesting[p]
  PROVE  RunSound(p)'
<1>1. RunKnows(p)'
  BY DEF RunSound, RunKnows, Beyond
<1>2. AckSafe(p)'
  BY DEF RunSound, AckSafe
<1>3. ReceiptsSafe(p)'
  BY DEF RunSound, ReceiptsSafe
<1>4. Covers(p)'
  BY DEF RunSound, Covers, Younger, Beyond
<1> QED
  BY <1>1, <1>2, <1>3, <1>4 DEF RunSound

\* The source produces: what is new is younger than all there is.
LEMMA EmitStep == SorInv /\ Emit => SorInv'
<1> SUFFICES ASSUME SorInv, Emit PROVE SorInv'
  OBVIOUS
<1>1. PICK r \in Records \ emitted, new \in SUBSET Records :
        /\ \A s \in Records \ emitted : r <= s
        /\ new = IF sorKind = "db_cdc" THEN {s \in Records : Stamp[s] = Stamp[r]} ELSE {r}
        /\ emitted' = emitted \cup new /\ queue' = queue \cup new
        /\ UNCHANGED <<sorKind, stored, lastCursor, slot, ingesting, jumped, ingestCrashes>>
  <2>1. PICK r \in Records \ emitted :
          /\ \A s \in Records \ emitted : r <= s
          /\ LET new == IF sorKind = "db_cdc" THEN {s \in Records : Stamp[s] = Stamp[r]} ELSE {r}
             IN emitted' = emitted \cup new /\ queue' = queue \cup new
    BY DEF Emit
  <2> DEFINE n == IF sorKind = "db_cdc" THEN {s \in Records : Stamp[s] = Stamp[r]} ELSE {r}
  <2>2. n \in SUBSET Records /\ emitted' = emitted \cup n /\ queue' = queue \cup n
    BY <2>1
  <2>3. UNCHANGED <<sorKind, stored, lastCursor, slot, ingesting, jumped, ingestCrashes>>
    BY DEF Emit
  <2> QED
    BY <2>1, <2>2, <2>3
<1>2. SorTypeOK'
  BY <1>1 DEF SorInv, SorTypeOK
<1>3. \A s \in Records \ emitted' : s \in Records \ emitted
  BY <1>1
<1>4. \A n \in new, s \in Records \ emitted' : Beyond(s, Stamp[n])
  <2> SUFFICES ASSUME NEW n \in new, NEW s \in Records \ emitted' PROVE Beyond(s, Stamp[n])
    OBVIOUS
  <2>1. r <= s /\ s # r /\ Stamp[r] <= Stamp[s] /\ Stamp[n] = Stamp[r]
    BY <1>1, SorOK DEF Records
  <2>2. sorKind = "db_cdc" => Stamp[s] # Stamp[r]
    BY <1>1
  <2> QED
    BY <2>1, <2>2, StampNat DEF Beyond
<1>5. SourceOrder'
  BY <1>1, <1>3, <1>4 DEF SorInv, SourceOrder, Beyond
<1>6. \A n \in new, p \in IngestRuns : n \in emitted \/ Younger(n, p)
  <2> SUFFICES ASSUME NEW n \in new, NEW p \in IngestRuns, n \notin emitted PROVE Younger(n, p)
    OBVIOUS
  <2> QED
    BY DEF SorInv, RunSound, RunKnows, Younger, SourceOrder
<1>7. ASSUME NEW p \in IngestRuns PROVE RunSound(p)'
  <2>1. RunSound(p)
    BY DEF SorInv
  <2>2. RunKnows(p)'
    BY <1>1, <1>3, <2>1 DEF RunSound, RunKnows, Beyond
  <2>3. AckSafe(p)' /\ ReceiptsSafe(p)'
    BY <1>1, <2>1 DEF RunSound, AckSafe, ReceiptsSafe
  <2>4. Covers(p)'
    BY <1>1, <1>6, <2>1 DEF RunSound, Covers, Younger, Beyond
  <2> QED
    BY <2>2, <2>3, <2>4 DEF RunSound
<1>8. NothingLost'
  <2>1. Stamps \subseteq Nat /\ slot \in Stamps /\ lastCursor \in Stamps
    BY StampNat DEF SorInv, SorTypeOK
  <2>2. ASSUME NEW n \in new, n \notin emitted PROVE n \in Fetch'
    <3>1. CASE sorKind = "event_stream"
      BY <1>1, <3>1, <2>2 DEF Fetch
    <3>2. CASE sorKind = "db_cdc"
      BY <1>1, <3>2, <2>2 DEF Fetch, Beyond, SorInv, SourceOrder
    <3>3. CASE sorKind = "rest_poll"
      BY <1>1, <3>3, <2>2 DEF Fetch, Beyond, SorInv, SourceOrder
    <3> QED
      BY <3>1, <3>2, <3>3 DEF SorInv, SorTypeOK
  <2>3. \A n \in Fetch : n \in Fetch'
    BY <1>1 DEF Fetch
  <2> QED
    BY <1>1, <2>2, <2>3 DEF SorInv, NothingLost
<1> QED
  BY <1>2, <1>5, <1>7, <1>8 DEF SorInv

\* One run steps: what it stores, jumps and tells the source; the others go on.
LEMMA RunStep ==
  ASSUME SorInv, NEW p \in IngestRuns, NEW me \in RunRecords,
         ingesting' = [ingesting EXCEPT ![p] = me],
         UNCHANGED <<sorKind, emitted>>, stored \subseteq stored', stored' \subseteq emitted,
         jumped \subseteq jumped', jumped' \subseteq emitted, queue' \subseteq queue,
         slot' \in Stamps, lastCursor' \in Stamps, ingestCrashes' \in 0..MaxIngestCrashes,
         RunSound(p)', SourceOrder', NothingLost'
  PROVE  SorInv'
<1>1. SorTypeOK'
  BY DEF SorInv, SorTypeOK
<1>2. ASSUME NEW q \in IngestRuns PROVE RunSound(q)'
  <2>1. CASE q = p
    BY <2>1
  <2>2. CASE q # p
    <3>1. ingesting'[q] = ingesting[q]
      BY <2>2 DEF SorInv, SorTypeOK
    <3> QED
      BY <3>1, OthersSound DEF SorInv
  <2> QED
    BY <2>1, <2>2
<1> QED
  BY <1>1, <1>2 DEF SorInv

\* What a step that tells the source nothing keeps.
LEMMA Untold ==
  ASSUME SorInv, UNCHANGED <<sorKind, emitted, lastCursor, slot, queue>>,
         stored \subseteq stored', jumped \subseteq jumped'
  PROVE  SourceOrder' /\ NothingLost'
<1>1. SourceOrder'
  BY DEF SorInv, SourceOrder, Beyond
<1>2. NothingLost'
  BY DEF SorInv, NothingLost, Fetch
<1> QED
  BY <1>1, <1>2

LEMMA StartStep ==
  ASSUME SorInv, NEW p \in IngestRuns, StartIngest(p)
  PROVE  SorInv'
<1>1. PICK replay \in BOOLEAN :
        ingesting' = [ingesting EXCEPT ![p] =
          [at |-> "reading", replay |-> replay, unread |-> IF replay THEN emitted ELSE Fetch,
           batch |-> {}, cursor |-> 0, mark |-> 0, receipts |-> {}]]
  BY DEF StartIngest
<1> DEFINE from == IF replay THEN emitted ELSE Fetch
           me == [at |-> "reading", replay |-> replay, unread |-> from, batch |-> {},
                  cursor |-> 0, mark |-> 0, receipts |-> {}]
<1>2. from \subseteq emitted /\ (replay = FALSE => from = Fetch)
  BY DEF Fetch, SorInv, SorTypeOK
<1>3. ingesting' = [ingesting EXCEPT ![p] = me]
  BY <1>1
<1> HIDE DEF from
<1>4. me \in RunRecords
  BY <1>2, StampNat DEF RunRecords, SorInv, SorTypeOK
<1>5. UNCHANGED <<sorKind, emitted, stored, lastCursor, slot, queue, jumped, ingestCrashes>>
  BY DEF StartIngest
<1>6. ingesting'[p] = me
  BY <1>3 DEF SorInv, SorTypeOK
<1>7. /\ ingesting'[p].at = "reading" /\ ingesting'[p].replay = replay
      /\ ingesting'[p].unread = from /\ ingesting'[p].batch = {} /\ ingesting'[p].cursor = 0
      /\ ingesting'[p].mark = 0 /\ ingesting'[p].receipts = {}
  BY <1>6
<1>8. RunSound(p)'
  <2>1. RunKnows(p)'
    <3>1. \A s \in Records \ emitted : Beyond(s, 0)
      BY StampNat DEF Beyond
    <3> QED
      BY <1>2, <1>5, <1>7, <3>1 DEF RunKnows, Beyond
  <2>2. AckSafe(p)' /\ ReceiptsSafe(p)'
    BY <1>7 DEF AckSafe, ReceiptsSafe
  <2>3. Covers(p)'
    BY <1>2, <1>5, <1>7 DEF Covers, SorInv, NothingLost
  <2> QED
    BY <2>1, <2>2, <2>3 DEF RunSound
<1>9. SourceOrder' /\ NothingLost'
  BY <1>5, Untold
<1> QED
  BY <1>3, <1>4, <1>5, <1>8, <1>9, RunStep DEF SorInv, SorTypeOK

LEMMA ReadStep ==
  ASSUME SorInv, NEW p \in IngestRuns, ReadRecord(p)
  PROVE  SorInv'
<1> DEFINE me == ingesting[p]
<1>1. /\ me \in RunRecords /\ RunSound(p) /\ me.at = "reading"
      /\ UNCHANGED <<sorKind, emitted, stored, lastCursor, slot, queue, jumped, ingestCrashes>>
  BY DEF SorInv, SorTypeOK, ReadRecord
<1>2. PICK r \in me.unread :
        LET mark == Later(me.mark, Stamp[r]) IN
        ingesting' = [ingesting EXCEPT ![p] =
          [at |-> "reading", replay |-> me.replay, unread |-> me.unread \ {r},
           batch |-> me.batch \cup Good({r}),
           cursor |-> IF Grade[r] # "good" THEN me.cursor
                      ELSE IF sorKind = "rest_poll" THEN mark ELSE Stamp[r],
           mark |-> mark,
           receipts |-> IF sorKind = "event_stream" /\ Grade[r] # "undecodable"
                        THEN me.receipts \cup {r} ELSE me.receipts]]
  BY DEF ReadRecord
<1> DEFINE mark == Later(me.mark, Stamp[r])
           cursor == IF Grade[r] # "good" THEN me.cursor
                     ELSE IF sorKind = "rest_poll" THEN mark ELSE Stamp[r]
           receipts == IF sorKind = "event_stream" /\ Grade[r] # "undecodable"
                       THEN me.receipts \cup {r} ELSE me.receipts
           next == [at |-> "reading", replay |-> me.replay, unread |-> me.unread \ {r},
                    batch |-> me.batch \cup Good({r}), cursor |-> cursor, mark |-> mark,
                    receipts |-> receipts]
<1>3. r \in Records /\ r \in emitted /\ Stamp[r] \in Stamps /\ me.mark \in Stamps /\ me.cursor \in Stamps
  BY <1>1, <1>2, StampNat DEF RunSound, RunKnows, SorInv, SorTypeOK, RunRecords
<1>4. /\ mark \in Stamps /\ mark >= me.mark /\ mark >= Stamp[r] /\ mark \in {me.mark, Stamp[r]}
      /\ cursor \in Stamps /\ cursor <= mark
  <2>1. /\ mark \in Stamps /\ mark >= me.mark /\ mark >= Stamp[r] /\ mark \in {me.mark, Stamp[r]}
    BY <1>3, LaterMax
  <2>2. me.cursor <= me.mark
    BY <1>1 DEF RunSound, RunKnows
  <2> HIDE DEF mark
  <2> QED
    BY <1>3, <2>1, <2>2, StampNat
<1>5. ingesting' = [ingesting EXCEPT ![p] = next]
  BY <1>2
<1>6. next \in RunRecords
  <2>1. /\ me.replay \in BOOLEAN /\ me.unread \subseteq Records /\ me.batch \subseteq Records
        /\ me.receipts \subseteq Records
    BY <1>1 DEF RunRecords
  <2>2. me.batch \cup Good({r}) \subseteq Records /\ receipts \subseteq Records
    BY <1>3, <2>1 DEF Good
  <2> HIDE DEF mark, cursor, receipts
  <2> QED
    BY <1>4, <2>1, <2>2 DEF RunRecords
<1>7. ingesting'[p] = next
  BY <1>5 DEF SorInv, SorTypeOK
<1>8. /\ ingesting'[p].at = "reading" /\ ingesting'[p].replay = me.replay
      /\ ingesting'[p].unread = me.unread \ {r} /\ ingesting'[p].batch = me.batch \cup Good({r})
      /\ ingesting'[p].cursor = cursor /\ ingesting'[p].mark = mark
      /\ ingesting'[p].receipts = receipts
  BY <1>7
<1>9. RunSound(p)'
  <2>1. \A s \in Records : Beyond(s, me.mark) /\ Beyond(s, Stamp[r]) => Beyond(s, mark)
    BY <1>4
  <2>2. RunKnows(p)'
    <3>1. me.batch \cup Good({r}) \subseteq emitted /\ me.unread \subseteq emitted
      BY <1>1, <1>3 DEF RunSound, RunKnows, Good
    <3>2. \A s \in Records \ emitted : Beyond(s, mark)
      BY <1>1, <1>3, <2>1 DEF RunSound, RunKnows, SorInv, SourceOrder
    <3> HIDE DEF mark, cursor
    <3> QED
      BY <1>1, <1>4, <1>8, <3>1, <3>2 DEF RunKnows, Beyond
  <2>3. AckSafe(p)'
    BY <1>8 DEF AckSafe
  <2>4. ReceiptsSafe(p)'
    BY <1>1, <1>8 DEF RunSound, ReceiptsSafe, Good
  <2>5. Covers(p)'
    <3>1. \A s \in Records : Younger(s, p) => Beyond(s, mark)
      BY <2>1 DEF Younger
    <3>2. Grade[r] = "good" => r \in me.batch \cup Good({r})
      BY DEF Good
    <3>3. emitted \subseteq Records
      BY DEF SorInv, SorTypeOK
    <3> HIDE DEF mark
    <3> QED
      BY <1>1, <1>8, <3>1, <3>2, <3>3 DEF RunSound, Covers, Younger, Beyond
  <2> QED
    BY <2>2, <2>3, <2>4, <2>5 DEF RunSound
<1>10. SourceOrder' /\ NothingLost'
  BY <1>1, Untold
<1> HIDE DEF next, mark, cursor, receipts, me
<1> QED
  BY <1>1, <1>5, <1>6, <1>9, <1>10, RunStep DEF SorInv, SorTypeOK

LEMMA FlushStep ==
  ASSUME SorInv, NEW p \in IngestRuns, Flush(p)
  PROVE  SorInv'
<1> DEFINE me == ingesting[p]
           at == IF sorKind = "rest_poll" \/ me.replay THEN "reading" ELSE "ack"
           passed == {r \in me.unread : Stamp[r] <= me.cursor}
           next == [at |-> at, replay |-> me.replay, unread |-> me.unread, batch |-> {},
                    cursor |-> me.cursor, mark |-> me.mark, receipts |-> me.receipts]
<1>1. /\ me \in RunRecords /\ RunSound(p) /\ me.at = "reading"
      /\ stored' = stored \cup me.batch
      /\ lastCursor' = IF Advances(me) THEN me.cursor ELSE lastCursor
      /\ jumped' = IF me.replay \/ sorKind = "event_stream" THEN jumped ELSE jumped \cup passed
      /\ ingesting' = [ingesting EXCEPT ![p] = next]
      /\ UNCHANGED <<sorKind, emitted, slot, queue, ingestCrashes>>
  BY DEF SorInv, SorTypeOK, Flush
<1>2. /\ me.unread \subseteq emitted /\ me.batch \subseteq emitted /\ me.cursor <= me.mark
      /\ \A s \in Records \ emitted : Beyond(s, me.mark)
  BY <1>1 DEF RunSound, RunKnows
<1>3. /\ at \in {"reading", "ack"} /\ me.replay \in BOOLEAN /\ me.unread \subseteq Records
      /\ me.cursor \in Stamps /\ me.mark \in Stamps /\ me.receipts \subseteq Records
  BY <1>1 DEF RunRecords
<1>4. next \in RunRecords
  <2> HIDE DEF at, me
  <2> QED
    BY <1>3 DEF RunRecords
<1>5. at = "ack" => me.replay = FALSE /\ sorKind # "rest_poll"
  BY <1>3
<1>6. sorKind # "event_stream" /\ me.replay = FALSE => jumped' = jumped \cup passed
  BY <1>1
<1>7. jumped \subseteq jumped' /\ jumped' \subseteq emitted
  BY <1>1, <1>2 DEF SorInv, SorTypeOK
<1>8. ingesting'[p] = next
  BY <1>1 DEF SorInv, SorTypeOK
<1>9. /\ ingesting'[p].at = at /\ ingesting'[p].replay = me.replay
      /\ ingesting'[p].unread = me.unread /\ ingesting'[p].batch = {}
      /\ ingesting'[p].cursor = me.cursor /\ ingesting'[p].mark = me.mark
      /\ ingesting'[p].receipts = me.receipts
  BY <1>8
<1> HIDE DEF at
<1>10. RunSound(p)'
  <2>1. RunKnows(p)'
    BY <1>1, <1>2, <1>9 DEF RunKnows, Beyond
  <2>2. AckSafe(p)'
    BY <1>1, <1>5, <1>6, <1>9 DEF AckSafe
  <2>3. ReceiptsSafe(p)'
    BY <1>1, <1>9 DEF RunSound, ReceiptsSafe
  <2>4. Covers(p)'
    BY <1>1, <1>7, <1>9 DEF RunSound, Covers, Younger, Beyond
  <2> QED
    BY <2>1, <2>2, <2>3, <2>4 DEF RunSound
<1>11. Advances(me) => sorKind = "rest_poll" /\ me.replay = FALSE
  BY DEF Advances
<1>12. lastCursor' \in Stamps /\ (lastCursor' = lastCursor \/ (Advances(me) /\ lastCursor' = me.cursor))
  <2>1. CASE Advances(me)
    BY <1>1, <1>3, <2>1 DEF Advances
  <2>2. CASE ~Advances(me)
    BY <1>1, <2>2 DEF SorInv, SorTypeOK, Advances
  <2> QED
    BY <2>1, <2>2
<1>13. SourceOrder'
  <2>1. sorKind = "rest_poll" => \A s \in Records \ emitted : Beyond(s, me.cursor)
    <3>1. me.cursor \in Nat /\ me.mark \in Nat
      BY <1>3, StampNat
    <3> HIDE DEF me
    <3> QED
      BY <1>2, <3>1, StampNat DEF Beyond
  <2> QED
    BY <1>1, <1>11, <1>12, <2>1 DEF SorInv, SourceOrder, Beyond
<1>14. NothingLost'
  <2>1. CASE lastCursor' = lastCursor
    BY <1>1, <1>7, <2>1 DEF SorInv, NothingLost, Fetch
  <2>2. CASE Advances(me) /\ lastCursor' = me.cursor
    <3> SUFFICES ASSUME NEW r \in emitted, Grade[r] = "good"
                 PROVE  r \in stored' \/ r \in Fetch' \/ r \in jumped'
      BY <1>1, <1>11, <2>2 DEF NothingLost
    <3>1. \/ r \in stored \cup jumped \cup me.batch \cup me.unread
          \/ Stamp[r] >= me.mark
      BY <1>1, <1>11, <2>2 DEF RunSound, Covers, Younger, Beyond
    <3>2. Stamp[r] \in Nat /\ me.cursor \in Nat /\ me.mark \in Nat
      BY <1>3, StampNat DEF SorInv, SorTypeOK
    <3>3. Stamp[r] >= me.cursor => r \in Fetch'
      BY <1>1, <1>11, <2>2 DEF Fetch
    <3>4. CASE r \in me.unread
      <4>1. Stamp[r] <= me.cursor \/ Stamp[r] >= me.cursor
        BY <3>2
      <4> QED
        BY <1>6, <1>11, <2>2, <3>3, <3>4, <4>1
    <3>5. CASE Stamp[r] >= me.mark
      <4>1. Stamp[r] >= me.cursor
        BY <1>2, <3>2, <3>5
      <4> QED
        BY <3>3, <4>1
    <3> QED
      BY <1>1, <1>7, <3>1, <3>4, <3>5
  <2> QED
    BY <1>12, <2>1, <2>2
<1> HIDE DEF next, me
<1> QED
  BY <1>1, <1>2, <1>4, <1>7, <1>10, <1>12, <1>13, <1>14, RunStep DEF SorInv, SorTypeOK

LEMMA AcknowledgeStep ==
  ASSUME SorInv, NEW p \in IngestRuns, Acknowledge(p)
  PROVE  SorInv'
<1> DEFINE me == ingesting[p]
           next == [at |-> "reading", replay |-> me.replay, unread |-> me.unread,
                    batch |-> me.batch, cursor |-> me.cursor, mark |-> me.mark, receipts |-> {}]
<1>1. /\ me \in RunRecords /\ RunSound(p) /\ me.at = "ack"
      /\ ingesting' = [ingesting EXCEPT ![p] = next]
      /\ UNCHANGED <<sorKind, emitted, stored, lastCursor, jumped, ingestCrashes>>
  BY DEF SorInv, SorTypeOK, Acknowledge
<1>2. \/ sorKind = "db_cdc" /\ slot' = Later(slot, me.cursor) /\ queue' = queue
      \/ sorKind = "db_cdc" /\ slot' = slot /\ queue' = queue
      \/ sorKind = "event_stream" /\ queue' = queue \ me.receipts /\ slot' = slot
  BY DEF Acknowledge
<1>3. /\ me.replay = FALSE /\ sorKind # "rest_poll" /\ me.batch = {}
      /\ sorKind = "db_cdc" => \A u \in me.unread : Stamp[u] <= me.cursor => u \in jumped
  BY <1>1 DEF RunSound, AckSafe
<1>4. /\ me.replay \in BOOLEAN /\ me.unread \subseteq Records /\ me.batch \subseteq Records
      /\ me.cursor \in Stamps /\ me.mark \in Stamps /\ slot \in Stamps
  BY <1>1 DEF RunRecords, SorInv, SorTypeOK
<1>5. next \in RunRecords
  <2> HIDE DEF me
  <2> QED
    BY <1>4 DEF RunRecords
<1>6. Later(slot, me.cursor) \in {slot, me.cursor}
  BY <1>4, LaterMax
<1>7. slot' \in Stamps /\ (slot' = slot \/ (sorKind = "db_cdc" /\ slot' = me.cursor))
  <2> HIDE DEF me
  <2> QED
    BY <1>2, <1>4, <1>6
<1>8. queue' \subseteq queue /\ (sorKind = "event_stream" => queue' = queue \ me.receipts)
  BY <1>2
<1>9. ingesting'[p] = next
  BY <1>1 DEF SorInv, SorTypeOK
<1>10. /\ ingesting'[p].at = "reading" /\ ingesting'[p].replay = me.replay
       /\ ingesting'[p].unread = me.unread /\ ingesting'[p].batch = me.batch
       /\ ingesting'[p].cursor = me.cursor /\ ingesting'[p].mark = me.mark
       /\ ingesting'[p].receipts = {}
  BY <1>9
<1>11. RunSound(p)'
  <2>1. RunKnows(p)'
    BY <1>1, <1>10 DEF RunSound, RunKnows, Beyond
  <2>2. AckSafe(p)' /\ ReceiptsSafe(p)'
    BY <1>10 DEF AckSafe, ReceiptsSafe
  <2>3. Covers(p)'
    BY <1>1, <1>10 DEF RunSound, Covers, Younger, Beyond
  <2> QED
    BY <2>1, <2>2, <2>3 DEF RunSound
<1>12. SourceOrder'
  <2>1. me.cursor <= me.mark /\ \A s \in Records \ emitted : Beyond(s, me.mark)
    BY <1>1 DEF RunSound, RunKnows
  <2>2. sorKind = "db_cdc" => \A s \in Records \ emitted : Beyond(s, me.cursor)
    <3>1. me.cursor \in Nat /\ me.mark \in Nat
      BY <1>4, StampNat
    <3> HIDE DEF me
    <3> QED
      BY <2>1, <3>1, StampNat DEF Beyond
  <2> QED
    BY <1>1, <1>7, <2>2 DEF SorInv, SourceOrder, Beyond
<1>13. NothingLost'
  <2>1. CASE sorKind = "event_stream"
    <3>1. \A r \in me.receipts : Grade[r] # "undecodable" /\ (Grade[r] = "good" => r \in stored)
      BY <1>1, <1>3, <2>1 DEF RunSound, ReceiptsSafe
    <3> QED
      BY <1>1, <1>8, <2>1, <3>1 DEF SorInv, NothingLost, Fetch
  <2>2. CASE slot' = slot /\ sorKind = "db_cdc"
    BY <1>1, <2>2 DEF SorInv, NothingLost, Fetch
  <2>3. CASE slot' = me.cursor /\ sorKind = "db_cdc"
    <3> SUFFICES ASSUME NEW r \in emitted, Grade[r] = "good"
                 PROVE  r \in stored' \/ r \in Fetch' \/ r \in jumped'
      BY <1>1, <2>3 DEF NothingLost
    <3>1. Stamp[r] \in Nat /\ me.cursor \in Nat /\ me.mark \in Nat
      BY <1>4, StampNat DEF SorInv, SorTypeOK
    <3>2. r \in stored \cup jumped \cup me.unread \/ Stamp[r] > me.mark
      BY <1>1, <1>3, <2>3 DEF RunSound, Covers, Younger, Beyond
    <3>3. Stamp[r] > me.cursor => r \in Fetch'
      BY <1>1, <2>3 DEF Fetch
    <3>4. me.cursor <= me.mark
      BY <1>1 DEF RunSound, RunKnows
    <3>5. Stamp[r] <= me.cursor \/ Stamp[r] > me.cursor
      BY <3>1
    <3>6. Stamp[r] > me.mark => Stamp[r] > me.cursor
      BY <3>1, <3>4
    <3> QED
      BY <1>1, <1>3, <2>3, <3>2, <3>3, <3>5, <3>6
  <2> QED
    BY <1>2, <1>7, <2>1, <2>2, <2>3
<1> HIDE DEF next, me
<1> QED
  BY <1>1, <1>5, <1>7, <1>8, <1>11, <1>12, <1>13, RunStep DEF SorInv, SorTypeOK

\* A run that ends, or dies, loses what it holds.
LEMMA EndStep ==
  ASSUME SorInv, NEW p \in IngestRuns, ingesting' = [ingesting EXCEPT ![p] = IdleRun],
         UNCHANGED <<sorKind, emitted, stored, lastCursor, slot, queue, jumped>>,
         ingestCrashes' \in 0..MaxIngestCrashes
  PROVE  SorInv'
<1>1. IdleRun \in RunRecords
  BY StampNat DEF IdleRun, RunRecords
<1>2. ingesting'[p] = IdleRun /\ SorTypeOK'
  BY <1>1 DEF SorInv, SorTypeOK
<1>3. /\ ingesting'[p].at = "idle" /\ ingesting'[p].unread = {} /\ ingesting'[p].batch = {}
      /\ ingesting'[p].cursor = 0 /\ ingesting'[p].mark = 0 /\ ingesting'[p].receipts = {}
  BY <1>2 DEF IdleRun
<1>4. RunSound(p)'
  <2>1. \A s \in Records \ emitted : Beyond(s, 0)
    BY StampNat DEF Beyond
  <2>2. RunKnows(p)'
    BY <1>3, <2>1 DEF RunKnows, Beyond
  <2> QED
    BY <1>3, <2>2 DEF RunSound, AckSafe, ReceiptsSafe, Covers
<1>5. SourceOrder' /\ NothingLost'
  BY Untold
<1> QED
  BY <1>1, <1>4, <1>5, RunStep DEF SorInv, SorTypeOK

\* The Lambda stores what it takes off the queue.
LEMMA ConsumeStep == SorInv /\ ConsumeSqsBatch => SorInv'
<1> SUFFICES ASSUME SorInv, ConsumeSqsBatch PROVE SorInv'
  OBVIOUS
<1>1. PICK M \in SUBSET queue :
        /\ stored' = stored \cup Good(M) /\ queue' \in {queue, queue \ Good(M)}
        /\ sorKind = "event_stream"
        /\ UNCHANGED <<sorKind, emitted, lastCursor, slot, ingesting, jumped, ingestCrashes>>
  BY DEF ConsumeSqsBatch
<1>2. SorTypeOK'
  BY <1>1 DEF SorInv, SorTypeOK, Good
<1>3. SourceOrder'
  BY <1>1 DEF SorInv, SourceOrder, Beyond
<1>4. NothingLost'
  BY <1>1 DEF SorInv, NothingLost, Fetch, Good
<1>5. \A p \in IngestRuns : RunSound(p)'
  BY <1>1, OthersSound DEF SorInv
<1> QED
  BY <1>2, <1>3, <1>4, <1>5 DEF SorInv

LEMMA SorInductive == SorInv /\ [SorNext]_sorVars => SorInv'
<1> SUFFICES ASSUME SorInv, [SorNext]_sorVars PROVE SorInv'
  OBVIOUS
<1>1. CASE UNCHANGED sorVars
  <2>1. SorTypeOK'
    BY <1>1 DEF SorInv, SorTypeOK, sorVars
  <2>2. SourceOrder' /\ NothingLost'
    BY <1>1, Untold DEF sorVars
  <2>3. \A p \in IngestRuns : RunSound(p)'
    BY <1>1, OthersSound DEF SorInv, sorVars
  <2> QED
    BY <2>1, <2>2, <2>3 DEF SorInv
<1>2. ASSUME NEW p \in IngestRuns, FinishIngest(p) PROVE SorInv'
  BY <1>2, EndStep DEF FinishIngest, SorInv, SorTypeOK
<1>3. ASSUME NEW p \in IngestRuns, CrashIngest(p) PROVE SorInv'
  <2>1. ingestCrashes' \in 0..MaxIngestCrashes
    BY <1>3, SorOK DEF CrashIngest, SorInv, SorTypeOK
  <2> QED
    BY <1>3, <2>1, EndStep DEF CrashIngest
<1> QED
  BY <1>1, <1>2, <1>3, EmitStep, ConsumeStep, StartStep, ReadStep, FlushStep, AcknowledgeStep
     DEF SorNext, IngestStep

LEMMA SorInvariant == SorSpec => []SorInv
<1>1. SorInit => SorInv
  <2> SUFFICES ASSUME SorInit PROVE SorInv
    OBVIOUS
  <2>1. \A p \in IngestRuns : ingesting[p] = IdleRun
    BY DEF SorInit
  <2>2. SorTypeOK
    <3>1. IdleRun \in RunRecords
      BY StampNat DEF IdleRun, RunRecords
    <3> QED
      BY <3>1, StampNat, SorOK DEF SorInit, SorTypeOK
  <2>3. SourceOrder
    BY StampNat DEF SorInit, SourceOrder, Beyond
  <2>4. NothingLost
    BY DEF SorInit, NothingLost
  <2> QED
    BY <2>1, <2>2, <2>3, <2>4, IdleSound DEF SorInv
<1>2. SorInv /\ [SorNext]_sorVars => SorInv'
  BY SorInductive
<1> QED
  BY <1>1, <1>2, PTL DEF SorSpec

\* The records, the positions and the runs of ingestion keep their types
\* (fde_sor.observations).
THEOREM SorTypeCorrect == SorSpec => []SorTypeOK
<1>1. SorInv => SorTypeOK
  BY DEF SorInv
<1> QED
  BY <1>1, SorInvariant, PTL

\* For any records, batch size and runs that overlap and die anywhere, what the source
\* produced is stored or can be fetched again, unless a run committed past it (ingest,
\* _flush, on_batch_committed, consume_sqs_batch).
THEOREM NothingEverLost == SorSpec => []NothingLost
<1>1. SorInv => NothingLost
  BY DEF SorInv
<1> QED
  BY <1>1, SorInvariant, PTL
=============================================================================
