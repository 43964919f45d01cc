------------------------ MODULE KnowledgeGraphProofs ------------------------
(***************************************************************************)
(* What holds of the graph for every set of merges, items and keys.  The   *)
(* invariant is about views: whoever looks, merged or not, sees at most    *)
(* one live version of a key (Views), because the writers of one key take  *)
(* turns (OneHolder).                                                      *)
(***************************************************************************)
EXTENDS KnowledgeGraph, TLAPS

\* Where a merge is, it is at one of its items.
AtItem ==
  \A m \in Merges :
    /\ merge[m].at \in {"see", "act", "insert"} => merge[m].i \in Nat \ {0}
    /\ merge[m].at \in {"act", "insert"} => merge[m].i <= Len(Items[m])

\* Only merges under way or merged have written, and only merged versions
\* are closed.
Written ==
  \A n \in Merges, k \in Keys :
    /\ closer[n][k] # Absent => IsRunning(n) \/ IsMerged(n)
    /\ closer[n][k] \in Merges => IsMerged(n) /\ (IsRunning(closer[n][k]) \/ IsMerged(closer[n][k]))

\* What a merge is about to close is its own or merged.
TargetOK ==
  \A m \in Merges : merge[m].at = "act" /\ merge[m].target # NoMerge =>
    merge[m].target = m \/ IsMerged(merge[m].target)

\* A version ends after it began (the range check), so no merge closes its own.
Chronology ==
  \A n \in Merges, k \in Keys :
    closer[n][k] \in Merges => merge[closer[n][k]].start > merge[n].start

OneHolder == \A k \in Keys : \A m, n \in Merges : Holds(m, k) /\ Holds(n, k) => m = n

Views ==
  \A k \in Keys : \A m, n1, n2 \in Merges : LiveTo(m, n1, k) /\ LiveTo(m, n2, k) => n1 = n2

IInv ==
  /\ TypeOK
  /\ AtItem
  /\ Written
  /\ TargetOK
  /\ Chronology
  /\ OneHolder
  /\ Views

-----------------------------------------------------------------------------
\* The item a merge is at has a key and an operation.
LEMMA ItemType ==
  ASSUME NEW m \in Merges, AtItem, merge[m].at \in {"act", "insert"}
  PROVE  Item(m).key \in Keys /\ Item(m).op \in Ops
<1> DEFINE I == [op : Ops, key : Keys]
           s == Items[m]
<1>1. s \in Seq(I)
  BY GraphAssumption
<1>2. merge[m].i \in Nat \ {0} /\ merge[m].i <= Len(s)
  BY DEF AtItem
<1>3. s[merge[m].i] \in I
  <2> HIDE DEF I, s
  <2> QED BY <1>1, <1>2
<1> QED
  BY <1>3 DEF Item

LEMMA InitIInv == Init => IInv
<1> SUFFICES ASSUME Init PROVE IInv
  OBVIOUS
<1>1. Idle \in MergeRecords
  BY DEF Idle, MergeRecords, Running
<1>2. /\ \A m \in Merges : merge[m] = Idle /\ \A k \in Keys : closer[m][k] = Absent
      /\ Idle.at = "approved"
  BY DEF Init, Idle
<1>3. TypeOK
  BY <1>1 DEF Init, TypeOK, WorkflowRecords
<1>4. \A m \in Merges : ~ IsRunning(m) /\ ~ IsMerged(m)
  BY <1>2 DEF IsRunning, IsMerged, Running
<1>5. AtItem /\ TargetOK
  BY <1>2 DEF AtItem, TargetOK
<1>6. \A m \in Merges, k \in Keys : closer[m][k] = Absent /\ Absent \notin Merges
  BY <1>2, GraphAssumption
<1>7. Written /\ Chronology
  BY <1>6 DEF Written, Chronology
<1>8. OneHolder
  BY <1>4 DEF OneHolder, Holds
<1>9. Views
  BY <1>6 DEF Views, LiveTo, Live, Absent
<1> QED
  BY <1>3, <1>5, <1>7, <1>8, <1>9 DEF IInv

LEMMA IdleRecord == Idle \in MergeRecords
BY DEF Idle, MergeRecords, Running

LEMMA TargetType == TypeOK => \A m \in Merges : merge[m].target \in Merges \cup {NoMerge}
BY DEF TypeOK, MergeRecords

\* What the actions make of a merge's record.
LEMMA RecordEdits ==
  ASSUME NEW r \in MergeRecords, NEW x \in Nat, NEW p \in Merges \cup {NoMerge}
  PROVE  /\ [Idle EXCEPT !.at = "begun", !.start = x] \in MergeRecords
         /\ [r EXCEPT !.at = "see", !.id = x, !.parent = p, !.i = 1] \in MergeRecords
         /\ [r EXCEPT !.at = "act", !.target = p] \in MergeRecords
         /\ [r EXCEPT !.at = "insert"] \in MergeRecords
         /\ [r EXCEPT !.at = "see", !.i = r.i + 1] \in MergeRecords
         /\ [r EXCEPT !.at = "merged", !.sealed = x, !.target = NoMerge] \in MergeRecords
         /\ Idle \in MergeRecords
<1>1. [Idle EXCEPT !.at = "begun", !.start = x] \in MergeRecords
  BY DEF MergeRecords, Running, Idle
<1>2. [r EXCEPT !.at = "see", !.id = x, !.parent = p, !.i = 1] \in MergeRecords
  BY DEF MergeRecords, Running
<1>3. [r EXCEPT !.at = "act", !.target = p] \in MergeRecords
  BY DEF MergeRecords, Running
<1>4. [r EXCEPT !.at = "insert"] \in MergeRecords
  BY DEF MergeRecords, Running
<1>5. [r EXCEPT !.at = "see", !.i = r.i + 1] \in MergeRecords
  <2>1. ASSUME NEW j \in Nat PROVE [r EXCEPT !.at = "see", !.i = j] \in MergeRecords
    BY DEF MergeRecords, Running
  <2>2. r.i + 1 \in Nat
    BY DEF MergeRecords
  <2> QED
    BY <2>1, <2>2
<1>6. [r EXCEPT !.at = "merged", !.sealed = x, !.target = NoMerge] \in MergeRecords
  BY DEF MergeRecords, Running
<1>7. Idle \in MergeRecords
  BY DEF MergeRecords, Running, Idle
<1> QED
  BY <1>1, <1>2, <1>3, <1>4, <1>5, <1>6, <1>7

\* One record changes.
LEMMA OneMerge ==
  ASSUME TypeOK, NEW m \in Merges, NEW r \in MergeRecords, merge' = [merge EXCEPT ![m] = r]
  PROVE  /\ merge' \in [Merges -> MergeRecords]
         /\ merge'[m] = r
         /\ \A n \in Merges \ {m} : merge'[n] = merge[n]
BY DEF TypeOK

Others(m) == \A n \in Merges \ {m} : merge'[n] = merge[n]

\* What each action does to the records of the merges.
LEMMA BeginEffect ==
  ASSUME TypeOK, NEW m \in Merges, Begin(m)
  PROVE  /\ merge' \in [Merges -> MergeRecords] /\ Others(m)
         /\ merge'[m].at = "begun"
<1> DEFINE r == [Idle EXCEPT !.at = "begun", !.start = clock + 1]
<1>1. clock + 1 \in Nat
  BY DEF TypeOK
<1>2. r \in MergeRecords
  BY <1>1, RecordEdits, IdleRecord, NoMerge \in Merges \cup {NoMerge}
<1>3. r.at = "begun"
  BY DEF Idle
<1>4. merge' = [merge EXCEPT ![m] = r]
  BY DEF Begin
<1> HIDE DEF r
<1> QED
  BY <1>2, <1>3, <1>4, OneMerge DEF Others

LEMMA InsertCommitEffect ==
  ASSUME TypeOK, NEW m \in Merges, InsertCommit(m)
  PROVE  /\ merge' \in [Merges -> MergeRecords] /\ Others(m)
         /\ merge'[m].at = "see" /\ merge'[m].i = 1 /\ merge'[m].start = merge[m].start
<1>1. PICK p \in Merges \cup {NoMerge} : merge' =
        [merge EXCEPT ![m] = [@ EXCEPT !.at = "see", !.id = lastId + 1, !.parent = p, !.i = 1]]
  BY DEF InsertCommit, Heads
<1> DEFINE r == [merge[m] EXCEPT !.at = "see", !.id = lastId + 1, !.parent = p, !.i = 1]
<1>2. merge[m] \in MergeRecords /\ lastId + 1 \in Nat
  BY DEF TypeOK
<1>3. r \in MergeRecords
  BY <1>2, RecordEdits
<1>4. r.at = "see" /\ r.i = 1 /\ r.start = merge[m].start
  BY <1>2 DEF MergeRecords
<1>5. merge' = [merge EXCEPT ![m] = r]
  BY <1>1 DEF TypeOK
<1> HIDE DEF r
<1> QED
  BY <1>3, <1>4, <1>5, OneMerge DEF Others

LEMMA SeeEffect ==
  ASSUME TypeOK, NEW m \in Merges, See(m)
  PROVE  /\ merge' \in [Merges -> MergeRecords] /\ Others(m)
         /\ merge'[m].at = "act" /\ merge'[m].i = merge[m].i /\ merge'[m].start = merge[m].start
         /\ merge'[m].target # NoMerge => LiveTo(m, merge'[m].target, Item(m).key)
<1>1. PICK n \in Merges \cup {NoMerge} :
        /\ n # NoMerge => LiveTo(m, n, Item(m).key)
        /\ merge' = [merge EXCEPT ![m] = [@ EXCEPT !.at = "act", !.target = n]]
  BY DEF See
<1> DEFINE r == [merge[m] EXCEPT !.at = "act", !.target = n]
<1>2. merge[m] \in MergeRecords
  BY DEF TypeOK
<1>3. r \in MergeRecords
  BY <1>2, RecordEdits
<1>4. r.at = "act" /\ r.i = merge[m].i /\ r.start = merge[m].start /\ r.target = n
  BY <1>2 DEF MergeRecords
<1>5. merge' = [merge EXCEPT ![m] = r]
  BY <1>1 DEF TypeOK
<1> HIDE DEF r
<1> QED
  BY <1>1, <1>3, <1>4, <1>5, OneMerge DEF Others

\* Close and Insert go on with the item or to the next one.
LEMMA NextItemEffect ==
  ASSUME TypeOK, NEW m \in Merges,
         merge' = [merge EXCEPT ![m] = [@ EXCEPT !.at = "see", !.i = merge[m].i + 1]]
  PROVE  /\ merge' \in [Merges -> MergeRecords] /\ Others(m)
         /\ merge'[m].at = "see" /\ merge'[m].i = merge[m].i + 1
         /\ merge'[m].start = merge[m].start
<1> DEFINE r == [merge[m] EXCEPT !.at = "see", !.i = merge[m].i + 1]
<1>2. merge[m] \in MergeRecords
  BY DEF TypeOK
<1>3. r \in MergeRecords
  BY <1>2, RecordEdits, NoMerge \in Merges \cup {NoMerge}, 0 \in Nat
<1>4. r.at = "see" /\ r.i = merge[m].i + 1 /\ r.start = merge[m].start
  BY <1>2 DEF MergeRecords
<1>5. merge' = [merge EXCEPT ![m] = r]
  BY <1>2 DEF TypeOK
<1> HIDE DEF r
<1> QED
  BY <1>3, <1>4, <1>5, OneMerge DEF Others

LEMMA CloseEffect ==
  ASSUME TypeOK, NEW m \in Merges, Close(m)
  PROVE  /\ merge' \in [Merges -> MergeRecords] /\ Others(m)
         /\ \/ merge'[m].at = "insert" /\ merge'[m].i = merge[m].i
            \/ merge'[m].at = "see" /\ merge'[m].i = merge[m].i + 1
         /\ merge'[m].start = merge[m].start
<1>1. CASE Item(m).op = "put"
  <2> DEFINE r == [merge[m] EXCEPT !.at = "insert"]
  <2>2. merge[m] \in MergeRecords
    BY DEF TypeOK
  <2>3. r \in MergeRecords
    BY <2>2, RecordEdits, NoMerge \in Merges \cup {NoMerge}, 0 \in Nat
  <2>4. r.at = "insert" /\ r.i = merge[m].i /\ r.start = merge[m].start
    BY <2>2 DEF MergeRecords
  <2>5. merge' = [merge EXCEPT ![m] = r]
    BY <1>1 DEF Close, AfterClose, TypeOK
  <2> HIDE DEF r
  <2> QED
    BY <2>3, <2>4, <2>5, OneMerge DEF Others
<1>2. CASE Item(m).op # "put"
  <2>1. merge' = [merge EXCEPT ![m] = [@ EXCEPT !.at = "see", !.i = merge[m].i + 1]]
    BY <1>2 DEF Close, AfterClose
  <2> QED
    BY <2>1, NextItemEffect
<1> QED
  BY <1>1, <1>2

LEMMA SealEffect ==
  ASSUME TypeOK, NEW m \in Merges, Seal(m)
  PROVE  /\ merge' \in [Merges -> MergeRecords] /\ Others(m)
         /\ merge'[m].at = "merged" /\ merge'[m].start = merge[m].start
<1> DEFINE r == [merge[m] EXCEPT !.at = "merged", !.sealed = clock, !.target = NoMerge]
<1>2. merge[m] \in MergeRecords /\ clock \in Nat
  BY DEF TypeOK
<1>3. r \in MergeRecords
  BY <1>2, RecordEdits, NoMerge \in Merges \cup {NoMerge}
<1>4. r.at = "merged" /\ r.start = merge[m].start
  BY <1>2 DEF MergeRecords
<1>5. merge' = [merge EXCEPT ![m] = r]
  BY DEF Seal, TypeOK
<1> HIDE DEF r
<1> QED
  BY <1>3, <1>4, <1>5, OneMerge DEF Others

LEMMA RollBackEffect ==
  ASSUME TypeOK, NEW m \in Merges, RollBack(m)
  PROVE  /\ merge' \in [Merges -> MergeRecords] /\ Others(m)
         /\ merge'[m].at = "approved"
<1>1. Idle \in MergeRecords /\ Idle.at = "approved"
  BY DEF Idle, MergeRecords, Running
<1>2. merge' = [merge EXCEPT ![m] = Idle]
  BY DEF RollBack
<1> QED
  BY <1>1, <1>2, OneMerge DEF Others

CloserType == closer \in [Merges -> [Keys -> Merges \cup {Live, Absent}]]

\* ... and to the versions.
\* A close ends at most one version, its target's, which was live.
LEMMA CloseVersions ==
  ASSUME TypeOK, AtItem, NEW m \in Merges, Close(m), TargetStillLive(m)
  PROVE  \E t \in Merges, k \in Keys :
           /\ t = merge[m].target /\ k = Item(m).key
           /\ CloserType' /\ closer[t][k] = Live /\ closer'[t][k] = m
           /\ \A n \in Merges, j \in Keys : n # t \/ j # k => closer'[n][j] = closer[n][j]
<1>1. Item(m).key \in Keys
  BY ItemType DEF Close
<1>2. PICK t \in Merges, k \in Keys :
        /\ t = merge[m].target /\ k = Item(m).key
        /\ closer[t][k] = Live /\ closer' = [closer EXCEPT ![t][k] = m]
  BY <1>1, TargetType DEF Close, TargetStillLive
<1>3. /\ CloserType' /\ closer'[t][k] = m
      /\ \A n \in Merges, j \in Keys : n # t \/ j # k => closer'[n][j] = closer[n][j]
  BY <1>2 DEF TypeOK, CloserType
<1> QED
  BY <1>2, <1>3

\* An insert makes one version live.
LEMMA InsertVersions ==
  ASSUME TypeOK, AtItem, NEW m \in Merges, Insert(m)
  PROVE  \E k \in Keys :
           /\ k = Item(m).key /\ UniqueEntry(m, k)
           /\ CloserType' /\ closer'[m][k] = Live
           /\ \A n \in Merges, j \in Keys : n # m \/ j # k => closer'[n][j] = closer[n][j]
<1>1. Item(m).key \in Keys
  BY ItemType DEF Insert
<1>2. PICK k \in Keys :
        k = Item(m).key /\ UniqueEntry(m, k) /\ closer' = [closer EXCEPT ![m][k] = Live]
  BY <1>1 DEF Insert
<1>3. /\ CloserType' /\ closer'[m][k] = Live
      /\ \A n \in Merges, j \in Keys : n # m \/ j # k => closer'[n][j] = closer[n][j]
  BY <1>2 DEF TypeOK, CloserType
<1> QED
  BY <1>2, <1>3

LEMMA RollBackVersions ==
  ASSUME TypeOK, NEW m \in Merges, RollBack(m)
  PROVE  /\ CloserType'
         /\ \A n \in Merges, k \in Keys :
              closer'[n][k] = IF n = m THEN Absent ELSE IF closer[n][k] = m THEN Live ELSE closer[n][k]
<1>1. \A n \in Merges, k \in Keys :
        closer'[n][k] = IF n = m THEN Absent ELSE IF closer[n][k] = m THEN Live ELSE closer[n][k]
  BY DEF RollBack
<1>2. \A n \in Merges, k \in Keys : closer[n][k] \in Merges \cup {Live, Absent}
  BY DEF TypeOK
<1>3. \A n \in Merges, k \in Keys :
        (IF n = m THEN Absent ELSE IF closer[n][k] = m THEN Live ELSE closer[n][k])
          \in Merges \cup {Live, Absent}
  BY <1>2
<1>4. CloserType'
  BY <1>3 DEF RollBack, CloserType
<1> QED
  BY <1>1, <1>4

\* Views depend on the versions and on which merges are merged.
LEMMA SameViews ==
  ASSUME closer' = closer, \A n \in Merges : merge'[n].at = "merged" <=> merge[n].at = "merged",
         CloserType
  PROVE  \A m, n \in Merges, k \in Keys : LiveTo(m, n, k)' <=> LiveTo(m, n, k)
BY DEF LiveTo, IsMerged, CloserType

\* A merge that goes on leaves every merge what it was, as others see it.
Unseen ==
  \A n \in Merges : /\ merge'[n].at = "merged" <=> merge[n].at = "merged"
                    /\ merge'[n].at \in Running <=> merge[n].at \in Running
                    /\ merge'[n].start = merge[n].start

LEMMA GoesOn ==
  ASSUME NEW m \in Merges, Others(m), merge[m].at \in Running, merge'[m].at \in Running,
         merge'[m].start = merge[m].start
  PROVE  Unseen
<1>1. "merged" \notin Running
  BY DEF Running
<1> QED
  BY <1>1 DEF Others, Unseen

\* With no version written either, only its own place and target are new.
LEMMA NothingWritten ==
  ASSUME IInv, TypeOK', Unseen, closer' = closer
  PROVE  /\ Written' /\ Chronology' /\ OneHolder' /\ Views'
<1> USE DEF IInv
<1>1. Written'
  BY DEF Written, Unseen, IsRunning, IsMerged
<1>2. Chronology'
  BY DEF Chronology, Unseen
<1>3. OneHolder'
  BY DEF OneHolder, Holds, Unseen, IsRunning
<1>4. CloserType
  BY DEF TypeOK, CloserType
<1>5. Views'
  BY <1>4, SameViews DEF Views, Unseen
<1> QED
  BY <1>1, <1>2, <1>3, <1>5

-----------------------------------------------------------------------------
\* The inductive step, action by action.
LEMMA BeginStep ==
  ASSUME IInv, NEW m \in Merges, Begin(m)
  PROVE  IInv'
<1> USE DEF IInv
<1>1. /\ merge' \in [Merges -> MergeRecords] /\ Others(m) /\ merge'[m].at = "begun"
      /\ merge[m].at = "approved" /\ closer' = closer
  BY BeginEffect DEF Begin
<1>2. TypeOK'
  BY <1>1 DEF Begin, TypeOK
<1>3. \A n \in Merges : merge'[n].at = "merged" <=> merge[n].at = "merged"
  BY <1>1 DEF Others
<1>4. /\ ~ IsRunning(m) /\ ~ IsMerged(m)
      /\ \A n \in Merges \ {m} : merge'[n] = merge[n]
  BY <1>1 DEF Others, IsRunning, IsMerged, Running
<1>5. \A n \in Merges, k \in Keys : closer[m][k] = Absent /\ closer[n][k] # m
  BY <1>4 DEF Written
<1>6. AtItem'
  BY <1>1 DEF AtItem, Others
<1>7. TargetOK'
  BY <1>1, <1>3, TargetType DEF TargetOK, Others, IsMerged
<1>8. Written'
  BY <1>1, <1>3, <1>4, <1>5 DEF Written, IsRunning, IsMerged
<1>9. Chronology'
  <2>1. ASSUME NEW n \in Merges, NEW k \in Keys, closer[n][k] \in Merges
        PROVE  merge'[closer[n][k]].start > merge'[n].start
    <3>1. n # m /\ closer[n][k] # m
      BY <1>5, <2>1, GraphAssumption
    <3>2. merge'[n] = merge[n] /\ merge'[closer[n][k]] = merge[closer[n][k]]
      BY <1>4, <2>1, <3>1
    <3> QED
      BY <2>1, <3>2 DEF Chronology
  <2> QED
    BY <1>1, <2>1 DEF Chronology
<1>10. OneHolder'
  BY <1>1, <1>4, <1>5 DEF OneHolder, Holds, IsRunning
<1>11. CloserType
  BY DEF TypeOK, CloserType
<1>12. Views'
  BY <1>1, <1>3, <1>11, SameViews DEF Views
<1> QED
  BY <1>2, <1>6, <1>7, <1>8, <1>9, <1>10, <1>12

LEMMA InsertCommitStep ==
  ASSUME IInv, NEW m \in Merges, InsertCommit(m)
  PROVE  IInv'
<1> USE DEF IInv
<1>1. /\ merge' \in [Merges -> MergeRecords] /\ Others(m) /\ merge'[m].at = "see"
      /\ merge'[m].i = 1 /\ merge'[m].start = merge[m].start
      /\ merge[m].at = "begun" /\ closer' = closer
  BY InsertCommitEffect DEF InsertCommit
<1>2. TypeOK'
  BY <1>1 DEF InsertCommit, TypeOK
<1>3. Unseen
  BY <1>1, GoesOn DEF Running
<1>4. AtItem'
  BY <1>1 DEF AtItem, Others
<1>5. TargetOK'
  BY <1>1, <1>3, TargetType DEF TargetOK, Others, IsMerged, Unseen
<1> QED
  BY <1>1, <1>2, <1>3, <1>4, <1>5, NothingWritten

LEMMA SeeStep ==
  ASSUME IInv, NEW m \in Merges, See(m)
  PROVE  IInv'
<1> USE DEF IInv
<1>1. /\ merge' \in [Merges -> MergeRecords] /\ Others(m) /\ merge'[m].at = "act"
      /\ merge'[m].i = merge[m].i /\ merge'[m].start = merge[m].start
      /\ merge'[m].target # NoMerge => LiveTo(m, merge'[m].target, Item(m).key)
      /\ merge[m].at = "see" /\ merge[m].i <= Len(Items[m]) /\ closer' = closer
  BY SeeEffect DEF See
<1>2. TypeOK'
  BY <1>1 DEF See, TypeOK
<1>3. Unseen
  BY <1>1, GoesOn DEF Running
<1>4. AtItem'
  BY <1>1 DEF AtItem, Others
<1>5. TargetOK'
  <2>1. merge'[m].target # NoMerge => merge'[m].target \in Merges
    BY <1>1 DEF MergeRecords
  <2> QED
    BY <1>1, <1>3, <2>1, TargetType DEF TargetOK, Others, LiveTo, IsMerged, Unseen
<1> QED
  BY <1>1, <1>2, <1>3, <1>4, <1>5, NothingWritten

LEMMA CloseStep ==
  ASSUME IInv, NEW m \in Merges, Close(m)
  PROVE  IInv'
<1> USE DEF IInv
<1>1. /\ merge' \in [Merges -> MergeRecords] /\ Others(m)
      /\ \/ merge'[m].at = "insert" /\ merge'[m].i = merge[m].i
         \/ merge'[m].at = "see" /\ merge'[m].i = merge[m].i + 1
      /\ merge'[m].start = merge[m].start
      /\ merge[m].at = "act"
  BY CloseEffect DEF Close
<1>3. Unseen
  BY <1>1, GoesOn DEF Running
<1>4. AtItem'
  BY <1>1 DEF AtItem, Others
<1>5. TargetOK'
  BY <1>1, <1>3, TargetType DEF TargetOK, Others, IsMerged, Unseen
<1>6. CASE ~ TargetStillLive(m)
  <2>1. closer' = closer
    BY <1>6 DEF Close
  <2>2. TypeOK'
    BY <1>1, <2>1 DEF Close, TypeOK
  <2> QED
    BY <1>3, <1>4, <1>5, <2>1, <2>2, NothingWritten
<1>7. CASE TargetStillLive(m)
  <2>1. PICK t \in Merges, k \in Keys :
          /\ t = merge[m].target /\ k = Item(m).key
          /\ CloserType' /\ closer[t][k] = Live /\ closer'[t][k] = m
          /\ \A n \in Merges, j \in Keys : n # t \/ j # k => closer'[n][j] = closer[n][j]
    BY <1>7, CloseVersions
  <2>2. merge[m].start > merge[t].start
    BY <1>7, <2>1 DEF Close, ValidRange
  <2>3. merge[m].start \in Nat
    BY DEF TypeOK, MergeRecords
  <2>4. t # m /\ IsMerged(t)
    BY <1>1, <2>1, <2>2, <2>3, GraphAssumption DEF TargetOK
  <2>5. IsRunning(m) /\ ~ IsMerged(m)
    BY <1>1 DEF IsRunning, IsMerged, Running
  <2>6. TypeOK'
    BY <1>1, <2>1 DEF Close, TypeOK, CloserType
  <2>7. Written'
    BY <1>3, <2>1, <2>2, <2>4, <2>5 DEF Written, Unseen, IsRunning, IsMerged
  <2>8. Chronology'
    BY <1>3, <2>1, <2>2 DEF Chronology, Unseen
  <2>9. \A n \in Merges \ {m} : ~ Holds(n, k)
    <3> SUFFICES ASSUME NEW n \in Merges \ {m}, Holds(n, k) PROVE FALSE
      OBVIOUS
    <3>1. IsRunning(n) /\ ~ IsMerged(n)
      BY DEF Holds, IsRunning, IsMerged, Running
    <3>2. CASE closer[n][k] # Absent
      <4>1. closer[n][k] = Live
        BY <3>1, <3>2 DEF Written, TypeOK
      <4>2. LiveTo(n, n, k) /\ LiveTo(n, t, k)
        BY <2>1, <2>4, <4>1 DEF LiveTo
      <4> QED
        BY <2>1, <2>4, <3>1, <4>2 DEF Views
    <3>3. CASE \E q \in Merges : closer[q][k] = n
      <4>1. PICK q \in Merges : closer[q][k] = n
        BY <3>3
      <4>2. LiveTo(m, q, k) /\ LiveTo(m, t, k)
        BY <2>1, <2>4, <3>1, <4>1 DEF LiveTo, Written
      <4>3. q = t
        BY <2>1, <4>2 DEF Views
      <4> QED
        BY <2>1, <4>1, <4>3, GraphAssumption
    <3> QED
      BY <3>2, <3>3 DEF Holds
  <2>10. OneHolder'
    <3>1. \A a \in Merges, j \in Keys : closer'[a][j] # Absent => a = t \/ closer[a][j] # Absent
      BY <2>1
    <3>2. merge'[t].at \notin Running
      BY <1>3, <2>1, <2>4 DEF Unseen, IsMerged, Running
    <3>3. \A a, n \in Merges, j \in Keys :
            closer'[n][j] = a => closer[n][j] = a \/ (a = m /\ j = k)
      BY <2>1
    <3>4. \A a \in Merges, j \in Keys : Holds(a, j)' => Holds(a, j) \/ (a = m /\ j = k)
      BY <1>3, <3>1, <3>2, <3>3 DEF Holds, Unseen, IsRunning
    <3> QED
      BY <2>9, <3>4 DEF OneHolder
  <2>11. \A a, n \in Merges, j \in Keys : LiveTo(a, n, j)' => LiveTo(a, n, j)
    BY <1>3, <2>1, <2>2, <2>4 DEF LiveTo, Unseen, IsMerged
  <2>12. Views'
    BY <2>11 DEF Views
  <2> QED
    BY <1>4, <1>5, <2>6, <2>7, <2>8, <2>10, <2>12
<1> QED
  BY <1>6, <1>7

LEMMA InsertStep ==
  ASSUME IInv, NEW m \in Merges, Insert(m)
  PROVE  IInv'
<1> USE DEF IInv
<1>1. merge' = [merge EXCEPT ![m] = [@ EXCEPT !.at = "see", !.i = merge[m].i + 1]]
  BY DEF Insert
<1>2. /\ merge' \in [Merges -> MergeRecords] /\ Others(m)
      /\ merge'[m].at = "see" /\ merge'[m].i = merge[m].i + 1
      /\ merge'[m].start = merge[m].start
      /\ merge[m].at = "insert"
  BY <1>1, NextItemEffect DEF Insert
<1>3. PICK k \in Keys :
        /\ UniqueEntry(m, k)
        /\ CloserType' /\ closer'[m][k] = Live
        /\ \A n \in Merges, j \in Keys : n # m \/ j # k => closer'[n][j] = closer[n][j]
  BY InsertVersions
<1>4. /\ \A n \in Merges \ {m} : ~ Holds(n, k)
      /\ \A n \in Merges : closer[n][k] # Live
  BY <1>3 DEF UniqueEntry
<1>6. Unseen
  BY <1>2, GoesOn DEF Running
<1>7. IsRunning(m) /\ ~ IsMerged(m)
  BY <1>2 DEF IsRunning, IsMerged, Running
<1>8. TypeOK'
  BY <1>2, <1>3 DEF Insert, TypeOK, CloserType
<1>9. AtItem'
  BY <1>2 DEF AtItem, Others
<1>10. TargetOK'
  BY <1>2, <1>6, TargetType DEF TargetOK, Others, IsMerged, Unseen
<1>11. Written'
  BY <1>3, <1>6, <1>7, GraphAssumption DEF Written, Unseen, IsRunning, IsMerged
<1>12. Chronology'
  <2>1. ASSUME NEW n \in Merges, NEW j \in Keys, closer'[n][j] \in Merges
        PROVE  merge'[closer'[n][j]].start > merge'[n].start
    <3>1. closer'[n][j] = closer[n][j]
      BY <1>3, <2>1, GraphAssumption
    <3>2. /\ merge'[n].start = merge[n].start
          /\ merge'[closer[n][j]].start = merge[closer[n][j]].start
      BY <1>6, <2>1, <3>1 DEF Unseen
    <3> QED
      BY <2>1, <3>1, <3>2 DEF Chronology
  <2> QED
    BY <2>1 DEF Chronology
<1>13. OneHolder'
  <2>1. \A a \in Merges, j \in Keys :
          closer'[a][j] # Absent => closer[a][j] # Absent \/ (a = m /\ j = k)
    BY <1>3
  <2>2. \A a, n \in Merges, j \in Keys : closer'[n][j] = a => closer[n][j] = a
    BY <1>3, GraphAssumption
  <2>3. \A a \in Merges, j \in Keys : Holds(a, j)' => Holds(a, j) \/ (a = m /\ j = k)
    BY <1>6, <2>1, <2>2 DEF Holds, Unseen, IsRunning
  <2> QED
    BY <1>4, <2>3 DEF OneHolder
<1>14. \A a, n \in Merges, j \in Keys :
         LiveTo(a, n, j)' => LiveTo(a, n, j) \/ (a = m /\ n = m /\ j = k)
  BY <1>3, <1>6, <1>7 DEF LiveTo, Unseen, IsMerged
<1>15. \A n \in Merges : ~ LiveTo(m, n, k)
  <2> SUFFICES ASSUME NEW n \in Merges, LiveTo(m, n, k) PROVE FALSE
    OBVIOUS
  <2>1. closer[n][k] \in Merges \ {m} /\ ~ IsMerged(closer[n][k])
    BY <1>4 DEF LiveTo
  <2>2. IsRunning(closer[n][k])
    BY <1>3, <2>1 DEF Written
  <2>3. Holds(closer[n][k], k)
    BY <2>1, <2>2 DEF Holds
  <2> QED
    BY <1>4, <2>1, <2>3
<1>16. Views'
  BY <1>14, <1>15 DEF Views
<1> QED
  BY <1>8, <1>9, <1>10, <1>11, <1>12, <1>13, <1>16

LEMMA SealStep ==
  ASSUME IInv, NEW m \in Merges, Seal(m)
  PROVE  IInv'
<1> USE DEF IInv
<1>1. /\ merge' \in [Merges -> MergeRecords] /\ Others(m)
      /\ merge'[m].at = "merged" /\ merge'[m].start = merge[m].start
      /\ merge[m].at = "see" /\ closer' = closer
  BY SealEffect DEF Seal
<1>2. TypeOK'
  BY <1>1 DEF Seal, TypeOK
<1>3. IsRunning(m) /\ ~ IsMerged(m)
  BY <1>1 DEF IsRunning, IsMerged, Running
<1>4. \A n \in Merges : /\ merge'[n].start = merge[n].start
                        /\ merge'[n].at = "merged" <=> n = m \/ merge[n].at = "merged"
                        /\ merge'[n].at \in Running <=> n # m /\ merge[n].at \in Running
  BY <1>1 DEF Others, Running
<1>5. AtItem'
  BY <1>1 DEF AtItem, Others
<1>6. TargetOK'
  BY <1>1, <1>4, TargetType DEF TargetOK, Others, IsMerged
<1>7. Written'
  BY <1>1, <1>3, <1>4 DEF Written, IsRunning, IsMerged
<1>8. Chronology'
  BY <1>1, <1>4 DEF Chronology
<1>9. OneHolder'
  BY <1>1, <1>4 DEF OneHolder, Holds, IsRunning
<1>10. \A n \in Merges, k \in Keys : closer[n][k] \in Merges \cup {Live, Absent}
  BY DEF TypeOK
\* What a sees of n, m having committed, it saw before, or n is m.
<1>11. \A a, n \in Merges, k \in Keys : LiveTo(a, n, k)' /\ n # m => LiveTo(a, n, k)
  BY <1>1, <1>4 DEF LiveTo, IsMerged
<1>12. \A a \in Merges, k \in Keys : LiveTo(a, m, k)' => closer[m][k] = Live
  BY <1>1, <1>3 DEF LiveTo, Written
<1>13. ASSUME NEW a \in Merges, NEW n \in Merges \ {m}, NEW k \in Keys,
              LiveTo(a, m, k)', LiveTo(a, n, k)'
       PROVE  FALSE
  <2>1. closer[m][k] = Live /\ LiveTo(m, m, k) /\ Holds(m, k)
    BY <1>3, <1>12, <1>13 DEF LiveTo, Holds, Live, Absent
  <2>2. ~ LiveTo(m, n, k)
    BY <1>13, <2>1 DEF Views
  <2>3. CASE closer[n][k] = Live
    <3>1. ~ IsMerged(n)
      BY <2>2, <2>3 DEF LiveTo
    <3>2. IsRunning(n)
      BY <2>3, <3>1 DEF Written, Live, Absent
    <3>3. Holds(n, k)
      BY <2>3, <3>2 DEF Holds, Live, Absent
    <3> QED
      BY <1>13, <2>1, <3>3 DEF OneHolder
  <2>4. CASE closer[n][k] # Live
    <3> DEFINE c == closer[n][k]
    <3>1. c \in Merges /\ merge'[c].at # "merged"
      BY <1>1, <1>13, <2>4 DEF LiveTo, IsMerged
    <3>2. c # m /\ ~ IsMerged(c)
      BY <1>4, <3>1 DEF IsMerged
    <3>3. Holds(c, k)
      BY <3>1, <3>2 DEF Written, Holds
    <3> QED
      BY <2>1, <3>1, <3>2, <3>3 DEF OneHolder
  <2> QED
    BY <2>3, <2>4
<1>14. Views'
  BY <1>11, <1>13 DEF Views
<1> QED
  BY <1>2, <1>5, <1>6, <1>7, <1>8, <1>9, <1>14

LEMMA RollBackStep ==
  ASSUME IInv, NEW m \in Merges, RollBack(m)
  PROVE  IInv'
<1> USE DEF IInv
<1>1. /\ merge' \in [Merges -> MergeRecords] /\ Others(m)
      /\ merge'[m].at = "approved" /\ merge[m].at \in Running
  BY RollBackEffect DEF RollBack, IsRunning
<1>2. /\ CloserType'
      /\ \A n \in Merges, k \in Keys :
           closer'[n][k] = IF n = m THEN Absent ELSE IF closer[n][k] = m THEN Live ELSE closer[n][k]
  BY RollBackVersions
<1>3. TypeOK'
  BY <1>1, <1>2 DEF RollBack, TypeOK, CloserType
<1>4. Live # Absent /\ Live \notin Merges /\ Absent \notin Merges
  BY GraphAssumption DEF Live, Absent
<1>5. \A n \in Merges : /\ merge'[n].at = "merged" <=> merge[n].at = "merged"
                        /\ merge'[n].at \in Running <=> n # m /\ merge[n].at \in Running
                        /\ n # m => merge'[n].start = merge[n].start
  BY <1>1 DEF Others, Running
\* The versions that remain, and those that are closed, were so before.
<1>6. \A n \in Merges, k \in Keys :
        /\ closer'[n][k] # Absent => n # m /\ closer[n][k] # Absent
        /\ closer'[n][k] \in Merges => closer'[n][k] = closer[n][k] /\ closer[n][k] # m
        /\ closer'[n][k] = Live => closer[n][k] \in {Live, m}
  BY <1>2, <1>4
<1>7. AtItem'
  BY <1>1 DEF AtItem, Others
<1>8. TargetOK'
  BY <1>1, <1>5, TargetType DEF TargetOK, Others, IsMerged
<1>9. Written'
  BY <1>5, <1>6 DEF Written, IsRunning, IsMerged
<1>10. Chronology'
  BY <1>4, <1>5, <1>6 DEF Chronology
<1>11. OneHolder'
  <2>1. \A a \in Merges, k \in Keys : Holds(a, k)' => Holds(a, k)
    BY <1>5, <1>6 DEF Holds, IsRunning
  <2> QED
    BY <2>1 DEF OneHolder
<1>12. ASSUME NEW a \in Merges, NEW n \in Merges, NEW k \in Keys, LiveTo(a, n, k)'
       PROVE  /\ n # m /\ (n = a \/ IsMerged(n))
              /\ closer[n][k] # Live => closer[n][k] \in Merges /\ ~ IsMerged(closer[n][k])
              /\ a # m => LiveTo(a, n, k)
  <2>1. ~ IsMerged(m)
    BY <1>1 DEF IsMerged, Running
  <2>2. n = a \/ IsMerged(n)
    BY <1>5, <1>12 DEF LiveTo, IsMerged
  <2>3. n # m
    BY <1>4, <1>6, <1>12 DEF LiveTo
  <2>4. CASE closer'[n][k] = Live
    <3>1. closer[n][k] = Live \/ closer[n][k] = m
      BY <1>6, <2>4
    <3>2. a # m => LiveTo(a, n, k)
      BY <2>1, <2>2, <3>1 DEF LiveTo
    <3> QED
      BY <2>1, <2>2, <2>3, <3>1, <3>2
  <2>5. CASE closer'[n][k] \in Merges \ {a} /\ merge'[closer'[n][k]].at # "merged"
    BY <1>5, <1>6, <2>2, <2>3, <2>5 DEF LiveTo, IsMerged
  <2> QED
    BY <1>12, <2>4, <2>5 DEF LiveTo, IsMerged
<1>13. ASSUME NEW a \in Merges, NEW n1 \in Merges, NEW n2 \in Merges, NEW k \in Keys,
              LiveTo(a, n1, k)', LiveTo(a, n2, k)'
       PROVE  n1 = n2
  <2>1. CASE a # m
    BY <1>12, <1>13, <2>1 DEF Views
  <2>2. CASE a = m
    <3>1. IsMerged(n1) /\ IsMerged(n2)
      BY <1>12, <1>13, <2>2
    <3>2. LiveTo(n1, n1, k) /\ LiveTo(n1, n2, k)
      BY <1>12, <1>13, <3>1 DEF LiveTo
    <3> QED
      BY <3>2 DEF Views
  <2> QED
    BY <2>1, <2>2
<1>14. Views'
  BY <1>13 DEF Views
<1> QED
  BY <1>3, <1>7, <1>8, <1>9, <1>10, <1>11, <1>14

\* The workflows, and settling a signal, leave the graph alone.
LEMMA WorkflowStep ==
  ASSUME IInv, NEW w \in Workflows, Draft(w) \/ Publish(w) \/ PublishCommit(w) \/ Triage(w)
  PROVE  IInv'
<1> USE DEF IInv
<1>1. /\ clock' = clock /\ lastId' = lastId /\ merge' = merge /\ closer' = closer
  BY DEF Draft, Publish, PublishCommit, Triage
<1>2. workflow' \in [Workflows -> WorkflowRecords]
  <2>1. CASE Draft(w)
    BY <2>1 DEF Draft, TypeOK, WorkflowRecords
  <2>2. CASE Publish(w) \/ PublishCommit(w)
    <3>1. workflow \in [Workflows -> WorkflowRecords]
      BY DEF TypeOK
    <3>2. PICK s \in {"publishing", "published"} : workflow' = [workflow EXCEPT ![w].status = s]
      BY <2>2 DEF Publish, PublishCommit
    <3> QED
      BY <3>1, <3>2 DEF WorkflowRecords
  <2>3. CASE Triage(w)
    BY <2>3 DEF Triage, TypeOK
  <2> QED
    BY <2>1, <2>2, <2>3
<1>3. flagged' \in [Workflows -> {"none", "active", "settled"}]
  BY DEF Draft, Publish, PublishCommit, Triage, TypeOK
<1>4. TypeOK'
  BY <1>1, <1>2, <1>3 DEF TypeOK
<1>5. Unseen
  BY <1>1 DEF Unseen
<1>6. AtItem' /\ TargetOK'
  BY <1>1 DEF AtItem, TargetOK, IsMerged
<1> QED
  BY <1>1, <1>4, <1>5, <1>6, NothingWritten

LEMMA IInvStep == IInv /\ [Next]_vars => IInv'
<1> SUFFICES ASSUME IInv, [Next]_vars PROVE IInv'
  OBVIOUS
<1>1. ASSUME NEW m \in Merges, \/ Begin(m) \/ InsertCommit(m) \/ See(m) \/ Close(m)
                                \/ Insert(m) \/ Seal(m) \/ RollBack(m)
      PROVE  IInv'
  BY <1>1, BeginStep, InsertCommitStep, SeeStep, CloseStep, InsertStep, SealStep, RollBackStep
<1>2. ASSUME NEW w \in Workflows, Draft(w) \/ Publish(w) \/ PublishCommit(w) \/ Triage(w)
      PROVE  IInv'
  BY <1>2, WorkflowStep
<1>3. CASE UNCHANGED vars
  BY <1>3 DEF vars, IInv, TypeOK, AtItem, Written, TargetOK, Chronology, OneHolder, Views,
              IsRunning, IsMerged, Holds, LiveTo
<1> QED
  BY <1>1, <1>2, <1>3 DEF Next

THEOREM GraphInductive == Spec => []IInv
BY InitIInv, IInvStep, PTL DEF Spec

-----------------------------------------------------------------------------
\* Every merge, version, workflow and signal keeps its shape.
THEOREM GraphTypeCorrect == Spec => []TypeOK
<1>1. IInv => TypeOK
  BY DEF IInv
<1> QED
  BY <1>1, GraphInductive, PTL

\* Whatever is live to readers is live in one view of it.
LEMMA ReadersSeeOne == IInv => OneLiveVersion
BY DEF IInv, Views, OneLiveVersion, LiveNow, LiveTo

\* However many merges of one engagement interleave, statement by statement,
\* roll backs included, a key never has two live versions (002:106-109).
THEOREM OneLiveVersionAlways == Spec => []OneLiveVersion
<1> QED
  BY ReadersSeeOne, GraphInductive, PTL

\* A merged version is never deleted, and is closed at most once by a merge
\* that commits (002:6-9).
THEOREM HistoryAlwaysStands == Spec => HistoryStands
<1> DEFINE Stands(n, k) ==
      IsMerged(n) /\ closer[n][k] # Absent =>
        /\ closer'[n][k] # Absent
        /\ closer[n][k] \in Merges /\ IsMerged(closer[n][k]) => closer'[n][k] = closer[n][k]
<1>1. ASSUME IInv, Next, NEW n \in Merges, NEW k \in Keys PROVE Stands(n, k)
  <2> USE <1>1 DEF IInv
  <2>1. Live # Absent /\ Live \notin Merges /\ Absent \notin Merges
    BY GraphAssumption DEF Live, Absent
  <2>2. CASE closer' = closer
    BY <2>2
  <2>3. ASSUME NEW m \in Merges, Close(m) PROVE Stands(n, k)
    <3>1. CASE TargetStillLive(m)
      <4>1. PICK t \in Merges, j \in Keys :
              /\ closer[t][j] = Live /\ closer'[t][j] = m
              /\ \A q \in Merges, i \in Keys : q # t \/ i # j => closer'[q][i] = closer[q][i]
        BY <2>3, <3>1, CloseVersions
      <4> QED
        BY <2>1, <4>1
    <3>2. CASE ~ TargetStillLive(m)
      BY <2>2, <2>3, <3>2 DEF Close
    <3> QED
      BY <3>1, <3>2
  <2>4. ASSUME NEW m \in Merges, Insert(m) PROVE Stands(n, k)
    <3>1. PICK j \in Keys :
            \A q \in Merges, i \in Keys : q # m \/ i # j => closer'[q][i] = closer[q][i]
      BY <2>4, InsertVersions
    <3>2. ~ IsMerged(m)
      BY <2>4 DEF Insert, IsMerged
    <3> QED
      BY <3>1, <3>2
  <2>5. ASSUME NEW m \in Merges, RollBack(m) PROVE Stands(n, k)
    <3>1. ~ IsMerged(m)
      BY <2>5 DEF RollBack, IsRunning, IsMerged, Running
    <3>2. closer'[n][k] = IF n = m THEN Absent ELSE IF closer[n][k] = m THEN Live ELSE closer[n][k]
      BY <2>5, RollBackVersions
    <3> QED
      BY <2>1, <3>1, <3>2
  <2>6. ASSUME NEW m \in Merges, Begin(m) \/ InsertCommit(m) \/ See(m) \/ Seal(m)
        PROVE  closer' = closer
    BY <2>6 DEF Begin, InsertCommit, See, Seal
  <2>7. ASSUME NEW w \in Workflows, Draft(w) \/ Publish(w) \/ PublishCommit(w) \/ Triage(w)
        PROVE  closer' = closer
    BY <2>7 DEF Draft, Publish, PublishCommit, Triage
  <2> QED
    BY <1>1, <2>2, <2>3, <2>4, <2>5, <2>6, <2>7 DEF Next
<1>2. IInv /\ [Next]_vars => [\A n \in Merges, k \in Keys : Stands(n, k)]_vars
  BY <1>1
<1> QED
  BY <1>2, GraphInductive, PTL DEF Spec, HistoryStands

-----------------------------------------------------------------------------
(* What a commit's snapshot shows.                                         *)

\* Ids and starts agree as far as they must: a merge begun after a commit was sealed has a
\* later id.
Stamps ==
  /\ \A m \in Merges :
       /\ merge[m].start <= clock /\ merge[m].id <= lastId
       /\ IsMerged(m) => merge[m].start <= merge[m].sealed /\ merge[m].sealed <= clock
  /\ \A c, m \in Merges :
       IsMerged(c) /\ merge[m].at \in {"see", "act", "insert"} /\ merge[m].start > merge[c].sealed
         => merge[m].id > merge[c].id

\* What each action does to the stamps of the merge it is about.
LEMMA StampEffect ==
  ASSUME TypeOK, NEW m \in Merges
  PROVE  /\ Begin(m) => /\ clock' = clock + 1 /\ lastId' = lastId
                        /\ merge'[m].start = clock + 1 /\ merge'[m].id = 0
         /\ InsertCommit(m) => /\ clock' = clock /\ lastId' = lastId + 1
                               /\ merge'[m].start = merge[m].start /\ merge'[m].id = lastId + 1
         /\ See(m) \/ Close(m) \/ Insert(m) =>
              /\ clock' = clock /\ lastId' = lastId
              /\ merge'[m].start = merge[m].start /\ merge'[m].id = merge[m].id
         /\ Seal(m) => /\ clock' = clock /\ lastId' = lastId
                       /\ merge'[m].start = merge[m].start /\ merge'[m].id = merge[m].id
                       /\ merge'[m].sealed = clock
         /\ RollBack(m) => /\ clock' = clock /\ lastId' = lastId
                           /\ merge'[m].start = 0 /\ merge'[m].id = 0
<1>1. merge \in [Merges -> MergeRecords] /\ merge[m] \in MergeRecords
  BY DEF TypeOK
<1>2. Begin(m) => /\ clock' = clock + 1 /\ lastId' = lastId
                  /\ merge'[m].start = clock + 1 /\ merge'[m].id = 0
  BY <1>1 DEF Begin, Idle
<1>3. InsertCommit(m) => /\ clock' = clock /\ lastId' = lastId + 1
                         /\ merge'[m].start = merge[m].start /\ merge'[m].id = lastId + 1
  BY <1>1 DEF InsertCommit, MergeRecords
<1>4. ASSUME See(m) \/ Insert(m) \/ Close(m)
      PROVE  /\ clock' = clock /\ lastId' = lastId
             /\ merge'[m].start = merge[m].start /\ merge'[m].id = merge[m].id
  <2>1. CASE See(m)
    BY <1>1, <2>1 DEF See, MergeRecords
  <2>2. CASE Insert(m)
    BY <1>1, <2>2 DEF Insert, MergeRecords
  <2>3. CASE Close(m)
    <3>1. clock' = clock /\ lastId' = lastId /\ AfterClose(m)
      BY <2>3 DEF Close
    <3> QED
      BY <1>1, <3>1 DEF AfterClose, MergeRecords
  <2> QED
    BY <1>4, <2>1, <2>2, <2>3
<1>5. Seal(m) => /\ clock' = clock /\ lastId' = lastId
                 /\ merge'[m].start = merge[m].start /\ merge'[m].id = merge[m].id
                 /\ merge'[m].sealed = clock
  BY <1>1 DEF Seal, MergeRecords
<1>6. RollBack(m) => /\ clock' = clock /\ lastId' = lastId
                     /\ merge'[m].start = 0 /\ merge'[m].id = 0
  BY <1>1 DEF RollBack, Idle
<1> QED
  BY <1>2, <1>3, <1>4, <1>5, <1>6

\* Clock, ids and stamps are numbers.
LEMMA StampSorts ==
  ASSUME TypeOK
  PROVE  /\ clock \in Nat /\ lastId \in Nat
         /\ \A m \in Merges : merge[m].start \in Nat /\ merge[m].id \in Nat /\ merge[m].sealed \in Nat
BY DEF TypeOK, MergeRecords

\* Where each action finds the merge and where it leaves it.
LEMMA StageEffect ==
  ASSUME TypeOK, NEW m \in Merges
  PROVE  /\ Begin(m) => merge[m].at = "approved" /\ merge'[m].at = "begun" /\ Others(m)
         /\ InsertCommit(m) => merge[m].at = "begun" /\ merge'[m].at = "see" /\ Others(m)
         /\ See(m) \/ Close(m) \/ Insert(m) =>
              /\ merge[m].at \in {"see", "act", "insert"} /\ merge'[m].at \in {"see", "act", "insert"}
              /\ Others(m)
         /\ Seal(m) => merge[m].at = "see" /\ merge'[m].at = "merged" /\ Others(m)
         /\ RollBack(m) => merge[m].at \in Running /\ merge'[m].at = "approved" /\ Others(m)
<1>1. Begin(m) => merge[m].at = "approved" /\ merge'[m].at = "begun" /\ Others(m)
  BY BeginEffect DEF Begin
<1>2. InsertCommit(m) => merge[m].at = "begun" /\ merge'[m].at = "see" /\ Others(m)
  BY InsertCommitEffect DEF InsertCommit
<1>3. See(m) => merge[m].at = "see" /\ merge'[m].at = "act" /\ Others(m)
  BY SeeEffect DEF See
<1>4. Close(m) => merge[m].at = "act" /\ merge'[m].at \in {"see", "insert"} /\ Others(m)
  BY CloseEffect DEF Close
<1>5. Insert(m) => merge[m].at = "insert" /\ merge'[m].at = "see" /\ Others(m)
  BY NextItemEffect DEF Insert
<1>6. Seal(m) => merge[m].at = "see" /\ merge'[m].at = "merged" /\ Others(m)
  BY SealEffect DEF Seal
<1>7. RollBack(m) => merge[m].at \in Running /\ merge'[m].at = "approved" /\ Others(m)
  BY RollBackEffect DEF RollBack, IsRunning
<1> QED
  BY <1>1, <1>2, <1>3, <1>4, <1>5, <1>6, <1>7

\* Every step keeps the stamps in that order.
LEMMA StampsStep == TypeOK /\ Stamps /\ [Next]_vars => Stamps'
<1> SUFFICES ASSUME TypeOK, Stamps, [Next]_vars PROVE Stamps'
  OBVIOUS
<1>0. /\ clock \in Nat /\ lastId \in Nat
      /\ \A m \in Merges : merge[m].start \in Nat /\ merge[m].id \in Nat /\ merge[m].sealed \in Nat
  BY StampSorts
<1>1. ASSUME NEW m \in Merges, Begin(m) PROVE Stamps'
  <2>1. /\ merge'[m].at = "begun" /\ Others(m) /\ merge[m].at = "approved"
        /\ clock' = clock + 1 /\ lastId' = lastId /\ merge'[m].start = clock + 1 /\ merge'[m].id = 0
    BY <1>1, StampEffect, StageEffect
  <2> QED
    BY <1>0, <2>1 DEF Stamps, Others, IsMerged
<1>2. ASSUME NEW m \in Merges, InsertCommit(m) PROVE Stamps'
  <2>1. /\ merge'[m].at = "see" /\ Others(m) /\ merge[m].at = "begun"
        /\ clock' = clock /\ lastId' = lastId + 1
        /\ merge'[m].start = merge[m].start /\ merge'[m].id = lastId + 1
    BY <1>2, StampEffect, StageEffect
  <2> QED
    BY <1>0, <2>1 DEF Stamps, Others, IsMerged
<1>3. ASSUME NEW m \in Merges, See(m) \/ Close(m) \/ Insert(m) PROVE Stamps'
  <2>1. /\ merge[m].at \in {"see", "act", "insert"} /\ merge'[m].at \in {"see", "act", "insert"}
        /\ Others(m) /\ clock' = clock /\ lastId' = lastId
        /\ merge'[m].start = merge[m].start /\ merge'[m].id = merge[m].id
    BY <1>3, StampEffect, StageEffect
  <2> QED
    BY <1>0, <2>1 DEF Stamps, Others, IsMerged
<1>4. ASSUME NEW m \in Merges, Seal(m) PROVE Stamps'
  <2>1. /\ merge[m].at = "see" /\ merge'[m].at = "merged"
        /\ Others(m) /\ clock' = clock /\ lastId' = lastId
        /\ merge'[m].start = merge[m].start /\ merge'[m].id = merge[m].id /\ merge'[m].sealed = clock
    BY <1>4, StampEffect, StageEffect
  <2> QED
    BY <1>0, <2>1 DEF Stamps, Others, IsMerged
<1>5. ASSUME NEW m \in Merges, RollBack(m) PROVE Stamps'
  <2>1. /\ merge[m].at \in Running /\ merge'[m].at = "approved"
        /\ Others(m) /\ clock' = clock /\ lastId' = lastId
        /\ merge'[m].start = 0 /\ merge'[m].id = 0
    BY <1>5, StampEffect, StageEffect
  <2> QED
    BY <1>0, <2>1 DEF Stamps, Others, IsMerged
<1>6. ASSUME \/ UNCHANGED vars
             \/ \E w \in Workflows : Draft(w) \/ Publish(w) \/ PublishCommit(w) \/ Triage(w)
      PROVE  Stamps'
  <2>1. clock' = clock /\ lastId' = lastId /\ merge' = merge
    BY <1>6 DEF vars, Draft, Publish, PublishCommit, Triage
  <2> QED
    BY <2>1 DEF Stamps, IsMerged
<1> QED
  BY <1>1, <1>2, <1>3, <1>4, <1>5, <1>6 DEF Next

\* However merges interleave, ids, starts and seals of one engagement agree that far.
THEOREM StampsAlways == Spec => []Stamps
<1>1. Init => Stamps
  BY DEF Init, Idle, Stamps, IsMerged
<1> QED
  BY <1>1, StampsStep, GraphTypeCorrect, PTL DEF Spec

\* A version a committed merge has closed.
Settled(n, k) == closer[n][k] \in Merges /\ IsMerged(closer[n][k])

\* Only a commit changes what is committed.
LEMMA OnlySealCommits ==
  ASSUME IInv, [Next]_vars, ~ \E m \in Merges : Seal(m)
  PROVE  /\ \A n \in Merges : (IsMerged(n)' <=> IsMerged(n)) /\ (IsMerged(n) => merge'[n] = merge[n])
         /\ \A n \in Merges, k \in Keys : IsMerged(n) =>
              /\ closer'[n][k] = Absent <=> closer[n][k] = Absent
              /\ Settled(n, k)' <=> Settled(n, k)
              /\ Settled(n, k) => closer'[n][k] = closer[n][k]
<1> DEFINE Same == \A n \in Merges : /\ IsMerged(n)' <=> IsMerged(n)
                                     /\ IsMerged(n) => merge'[n] = merge[n]
           Kept == \A n \in Merges, k \in Keys : IsMerged(n) =>
                     /\ closer'[n][k] = Absent <=> closer[n][k] = Absent
                     /\ Settled(n, k)' <=> Settled(n, k)
                     /\ Settled(n, k) => closer'[n][k] = closer[n][k]
<1> USE DEF IInv
<1>0. Live # Absent /\ Live \notin Merges /\ Absent \notin Merges
  BY GraphAssumption DEF Live, Absent
<1>1. ASSUME NEW m \in Merges, Begin(m) \/ InsertCommit(m) \/ See(m) \/ Close(m) \/ Insert(m)
                               \/ RollBack(m)
      PROVE  Same /\ ~ IsMerged(m)
  <2>1. Others(m) /\ merge[m].at # "merged" /\ merge'[m].at # "merged"
    BY <1>1, StageEffect DEF Running
  <2> QED
    BY <2>1 DEF Others, IsMerged
<1>2. Same /\ closer' = closer => Same /\ Kept
  <2> SUFFICES ASSUME Same, closer' = closer, NEW n \in Merges, NEW k \in Keys, IsMerged(n)
               PROVE  Settled(n, k)' <=> Settled(n, k)
    OBVIOUS
  <2> QED
    BY DEF Settled, IsMerged
<1>3. ASSUME NEW m \in Merges, Begin(m) \/ InsertCommit(m) \/ See(m) PROVE Same /\ Kept
  <2>1. closer' = closer
    BY <1>3 DEF Begin, InsertCommit, See
  <2> QED
    BY <1>1, <1>2, <1>3, <2>1
<1>4. ASSUME NEW m \in Merges, Close(m) PROVE Same /\ Kept
  <2>1. CASE TargetStillLive(m)
    <3>1. PICK t \in Merges, j \in Keys :
            /\ closer[t][j] = Live /\ closer'[t][j] = m
            /\ \A q \in Merges, i \in Keys : q # t \/ i # j => closer'[q][i] = closer[q][i]
      BY <1>4, <2>1, CloseVersions
    <3>2. Same /\ ~ IsMerged(m)
      BY <1>1, <1>4
    <3>3. ASSUME NEW n \in Merges, NEW k \in Keys, IsMerged(n)
          PROVE  /\ closer'[n][k] = Absent <=> closer[n][k] = Absent
                 /\ Settled(n, k)' <=> Settled(n, k)
                 /\ Settled(n, k) => closer'[n][k] = closer[n][k]
      <4>1. CASE n = t /\ k = j
        BY <1>0, <3>1, <3>2, <4>1 DEF Settled, IsMerged
      <4>2. CASE n # t \/ k # j
        BY <3>1, <3>2, <4>2 DEF Settled, IsMerged
      <4> QED
        BY <4>1, <4>2
    <3> QED
      BY <3>2, <3>3
  <2>2. CASE ~ TargetStillLive(m)
    <3>1. closer' = closer
      BY <1>4, <2>2 DEF Close
    <3> QED
      BY <1>1, <1>2, <1>4, <3>1
  <2> QED
    BY <2>1, <2>2
<1>5. ASSUME NEW m \in Merges, Insert(m) PROVE Same /\ Kept
  <2>1. PICK j \in Keys : \A q \in Merges, i \in Keys : q # m \/ i # j => closer'[q][i] = closer[q][i]
    BY <1>5, InsertVersions
  <2>2. Same /\ ~ IsMerged(m)
    BY <1>1, <1>5
  <2>3. ASSUME NEW n \in Merges, NEW k \in Keys, IsMerged(n)
        PROVE  closer'[n][k] = closer[n][k] /\ (Settled(n, k)' <=> Settled(n, k))
    BY <2>1, <2>2, <2>3 DEF Settled, IsMerged
  <2> QED
    BY <2>2, <2>3
<1>6. ASSUME NEW m \in Merges, RollBack(m) PROVE Same /\ Kept
  <2>1. \A n \in Merges, k \in Keys :
          closer'[n][k] = IF n = m THEN Absent ELSE IF closer[n][k] = m THEN Live ELSE closer[n][k]
    BY <1>6, RollBackVersions
  <2>2. Same /\ ~ IsMerged(m)
    BY <1>1, <1>6
  <2>3. ASSUME NEW n \in Merges, NEW k \in Keys, IsMerged(n)
        PROVE  /\ closer'[n][k] = Absent <=> closer[n][k] = Absent
               /\ Settled(n, k)' <=> Settled(n, k)
               /\ Settled(n, k) => closer'[n][k] = closer[n][k]
    <3>1. n # m /\ closer'[n][k] = IF closer[n][k] = m THEN Live ELSE closer[n][k]
      BY <2>1, <2>2, <2>3
    <3>2. CASE closer[n][k] = m
      BY <1>0, <2>2, <3>1, <3>2 DEF Settled
    <3>3. CASE closer[n][k] # m
      BY <2>2, <3>1, <3>3 DEF Settled, IsMerged
    <3> QED
      BY <3>2, <3>3
  <2> QED
    BY <2>2, <2>3
<1>7. ASSUME \/ UNCHANGED vars
             \/ \E w \in Workflows : Draft(w) \/ Publish(w) \/ PublishCommit(w) \/ Triage(w)
      PROVE  Same /\ Kept
  <2>1. merge' = merge /\ closer' = closer
    BY <1>7 DEF vars, Draft, Publish, PublishCommit, Triage
  <2>2. Same
    BY <2>1 DEF IsMerged
  <2> QED
    BY <1>2, <2>1, <2>2
<1> QED
  BY <1>3, <1>4, <1>5, <1>6, <1>7 DEF Next

\* A version of a committed merge is live as of c unless a commit begun no later than c has
\* closed it.
LEMMA LiveAsOf ==
  ASSUME TypeOK, NEW n \in Merges, IsMerged(n), NEW k \in Keys, closer[n][k] # Absent, NEW c
  PROVE  LiveNow(n, k) \/ EndsAfter(n, k, c)
           <=> (Settled(n, k) => merge[closer[n][k]].start > merge[c].start)
<1>1. closer[n][k] \in Merges \cup {Live}
  BY DEF TypeOK
<1> QED
  BY <1>1, GraphAssumption DEF LiveNow, LiveTo, EndsAfter, Settled

\* A workflow pinned to a commit is faithful to the same graph for ever, once the merges
\* that were under way when the commit was sealed are over.
THEOREM SnapshotAlwaysFinal == Spec => SnapshotFinal
<1>1. ASSUME IInv, Stamps, [Next]_vars, NEW c \in Merges, IsMerged(c),
             \A m \in Merges : IsRunning(m) => merge[m].start > merge[c].sealed,
             NEW k \in Keys
      PROVE  LiveAt(c, k)' = LiveAt(c, k)
  <2> USE <1>1 DEF IInv
  <2> DEFINE Alive(n) == LiveNow(n, k) \/ EndsAfter(n, k, c)
             In(n) == IsMerged(n) /\ closer[n][k] # Absent /\ merge[n].id <= merge[c].id
             Shown(n) == Settled(n, k) => merge[closer[n][k]].start > merge[c].start
  <2>0. TypeOK'
    BY IInvStep
  <2>1. \A n \in Merges : In(n) => (Alive(n) <=> Shown(n))
    BY LiveAsOf
  <2>2. \A n \in Merges : In(n)' => (Alive(n)' <=> Shown(n)')
    <3> SUFFICES ASSUME NEW n \in Merges, In(n)' PROVE Alive(n)' <=> Shown(n)'
      OBVIOUS
    <3>1. closer'[n][k] \in Merges \cup {Live} /\ merge'[n].at = "merged"
      BY <2>0 DEF TypeOK, IsMerged
    <3> QED
      BY <3>1, GraphAssumption DEF LiveNow, LiveTo, EndsAfter, Settled, IsMerged
  <2>3. LiveAt(c, k) <=> \E n \in Merges : In(n) /\ Shown(n)
    BY <2>1 DEF LiveAt
  <2>4. LiveAt(c, k)' <=> \E n \in Merges : In(n)' /\ Shown(n)'
    BY <2>2 DEF LiveAt
  <2>5. CASE ~ \E m \in Merges : Seal(m)
    <3>1. /\ \A n \in Merges : (IsMerged(n)' <=> IsMerged(n)) /\ (IsMerged(n) => merge'[n] = merge[n])
          /\ \A n \in Merges : IsMerged(n) =>
               /\ closer'[n][k] = Absent <=> closer[n][k] = Absent
               /\ Settled(n, k)' <=> Settled(n, k)
               /\ Settled(n, k) => closer'[n][k] = closer[n][k]
      BY <2>5, OnlySealCommits
    <3>2. \A n \in Merges : In(n)' <=> In(n)
      BY <3>1
    <3>3. \A n \in Merges : In(n) => (Shown(n)' <=> Shown(n))
      <4> SUFFICES ASSUME NEW n \in Merges, In(n), Settled(n, k)
                   PROVE  merge'[closer'[n][k]].start > merge'[c].start
                            <=> merge[closer[n][k]].start > merge[c].start
        BY <3>1
      <4> QED
        BY <3>1 DEF Settled
    <3> QED
      BY <2>3, <2>4, <3>2, <3>3 DEF LiveAt
  <2>6. ASSUME NEW m \in Merges, Seal(m) PROVE LiveAt(c, k)' = LiveAt(c, k)
    <3>1. /\ Others(m) /\ merge[m].at = "see" /\ merge'[m].at = "merged"
          /\ merge'[m].start = merge[m].start /\ merge'[m].id = merge[m].id /\ closer' = closer
      BY <2>6, StampEffect, StageEffect DEF Seal
    <3>2. m # c /\ ~ IsMerged(m) /\ IsRunning(m)
      BY <3>1 DEF IsMerged, IsRunning, Running
    <3>3. merge[m].id > merge[c].id /\ merge[m].start > merge[c].start
      BY <3>1, <3>2, StampSorts DEF Stamps
    <3>4. merge'[c] = merge[c]
      BY <3>1, <3>2 DEF Others
    <3>5. \A n \in Merges : In(n)' <=> In(n)
      <4>1. ~ In(m)' /\ ~ In(m)
        BY <3>1, <3>2, <3>3, <3>4, StampSorts
      <4>2. \A n \in Merges \ {m} : In(n)' <=> In(n)
        BY <3>1, <3>4 DEF Others, IsMerged
      <4> QED
        BY <4>1, <4>2
    <3>6. \A n \in Merges : In(n) => (Shown(n)' <=> Shown(n))
      <4> SUFFICES ASSUME NEW n \in Merges, In(n) PROVE Shown(n)' <=> Shown(n)
        OBVIOUS
      <4>1. CASE closer[n][k] = m
        <5>1. ~ Settled(n, k)
          BY <3>2, <4>1 DEF Settled
        <5>2. merge'[closer'[n][k]].start > merge'[c].start
          BY <3>1, <3>3, <3>4, <4>1
        <5> QED
          BY <5>1, <5>2
      <4>2. CASE closer[n][k] # m
        BY <3>1, <3>4, <4>2 DEF Others, Settled, IsMerged
      <4> QED
        BY <4>1, <4>2
    <3> QED
      BY <2>3, <2>4, <3>5, <3>6 DEF LiveAt
  <2> QED
    BY <2>5, <2>6
<1>2. IInv /\ Stamps /\ [Next]_vars =>
        [\A c \in Merges :
           /\ IsMerged(c)
           /\ \A m \in Merges : IsRunning(m) => merge[m].start > merge[c].sealed
           => \A k \in Keys : LiveAt(c, k)' = LiveAt(c, k)]_vars
  BY <1>1
<1> QED
  BY <1>2, GraphInductive, StampsAlways, PTL DEF Spec, SnapshotFinal

-----------------------------------------------------------------------------
(* What a merge owes when it commits.                                      *)

\* n has committed since m began.
Since(m, n) == IsMerged(n) /\ merge[n].sealed >= merge[m].start

\* The first i - 1 items are done: what they put is live in m; of what they retired and have
\* not put again m sees only what others have committed in the meantime.
Done(m, i) ==
  /\ \A j \in 1..i - 1 : Items[m][j].op = "put" => closer[m][Items[m][j].key] = Live
  /\ \A j \in 1..i - 1 :
       /\ Items[m][j].op = "retire"
       /\ \A l \in 1..i - 1 : l > j /\ Items[m][l].op = "put" => Items[m][l].key # Items[m][j].key
       => \A n \in Merges : LiveTo(m, n, Items[m][j].key) => Since(m, n)

\* Whatever m sees of the key of its i-th item, it is about to close, or was committed since.
Sees(m, i, t) == \A n \in Merges : LiveTo(m, n, Items[m][i].key) => n = t \/ Since(m, n)

LandedAt(m, i, at, t) ==
  /\ i <= Len(Items[m]) + 1
  /\ at = "insert" => Items[m][i].op = "put"
  /\ Done(m, i)
  /\ at = "act" => Sees(m, i, t)

Landed(m) == LandedAt(m, merge[m].i, merge[m].at, merge[m].target)

AtWork(m) == merge[m].at \in {"see", "act", "insert"}

Lands == \A m \in Merges : AtWork(m) => Landed(m)

\* Every item has a key.
LEMMA ItemKeys ==
  ASSUME NEW m \in Merges, NEW j \in 1..Len(Items[m])
  PROVE  Items[m][j].key \in Keys /\ Items[m][j].op \in Ops
<1> DEFINE I == [op : Ops, key : Keys]
           s == Items[m]
<1>1. s \in Seq(I)
  BY GraphAssumption
<1>2. j \in 1..Len(s)
  OBVIOUS
<1>3. s[j] \in I
  <2> HIDE DEF I, s
  <2> QED BY <1>1, <1>2
<1> QED
  BY <1>3

\* The items of a merge are a finite sequence.
LEMMA ItemsLen == \A m \in Merges : Len(Items[m]) \in Nat /\ DOMAIN Items[m] = 1..Len(Items[m])
<1> SUFFICES ASSUME NEW m \in Merges PROVE Len(Items[m]) \in Nat /\ DOMAIN Items[m] = 1..Len(Items[m])
  OBVIOUS
<1>1. Items[m] \in Seq([op : Ops, key : Keys])
  BY GraphAssumption
<1> QED
  BY <1>1

\* What another merge does short of its commit, m does not see.
LEMMA OthersUnseen ==
  ASSUME IInv, NEW m \in Merges, IsRunning(m), NEW x \in Merges \ {m},
         Begin(x) \/ InsertCommit(x) \/ See(x) \/ Close(x) \/ Insert(x) \/ RollBack(x)
  PROVE  /\ merge'[m] = merge[m]
         /\ \A n \in Merges : Since(m, n)' <=> Since(m, n)
         /\ \A n \in Merges, k \in Keys : LiveTo(m, n, k)' <=> LiveTo(m, n, k)
         /\ \A k \in Keys : closer'[m][k] = closer[m][k]
<1> USE DEF IInv
<1>0. Live # Absent /\ Live \notin Merges /\ Absent \notin Merges
  BY GraphAssumption DEF Live, Absent
<1>1. Others(x) /\ merge[x].at # "merged" /\ merge'[x].at # "merged"
  BY StageEffect DEF Running
<1>2. /\ \A n \in Merges : IsMerged(n)' <=> IsMerged(n)
      /\ \A n \in Merges \ {x} : merge'[n] = merge[n]
      /\ ~ IsMerged(x) /\ ~ IsMerged(m)
  BY <1>1 DEF Others, IsMerged, IsRunning, Running
<1>3. \A n \in Merges : Since(m, n)' <=> Since(m, n)
  BY <1>2 DEF Since
<1>4. CASE closer' = closer
  BY <1>2, <1>3, <1>4 DEF LiveTo, IsMerged
<1>5. CASE Close(x) /\ TargetStillLive(x)
  <2>1. PICK t \in Merges, j \in Keys :
          /\ t = merge[x].target /\ closer[t][j] = Live /\ closer'[t][j] = x
          /\ \A q \in Merges, i \in Keys : q # t \/ i # j => closer'[q][i] = closer[q][i]
    BY <1>5, CloseVersions
  <2>2. t # m
    BY <1>0, <1>2, <1>5, <2>1, GraphAssumption DEF TargetOK, Close
  <2>3. \A n \in Merges, k \in Keys : LiveTo(m, n, k)' <=> LiveTo(m, n, k)
    <3> SUFFICES ASSUME NEW n \in Merges, NEW k \in Keys
                 PROVE  LiveTo(m, n, k)' <=> LiveTo(m, n, k)
      OBVIOUS
    <3>1. CASE n = t /\ k = j
      BY <1>0, <1>2, <2>1, <3>1 DEF LiveTo, IsMerged
    <3>2. CASE n # t \/ k # j
      BY <1>2, <2>1, <3>2 DEF LiveTo, IsMerged
    <3> QED
      BY <3>1, <3>2
  <2> QED
    BY <1>2, <1>3, <2>1, <2>2, <2>3
<1>6. CASE Insert(x)
  <2>1. PICK j \in Keys : \A q \in Merges, i \in Keys : q # x \/ i # j => closer'[q][i] = closer[q][i]
    BY <1>6, InsertVersions
  <2>2. \A n \in Merges, k \in Keys : LiveTo(m, n, k)' <=> LiveTo(m, n, k)
    BY <1>2, <2>1 DEF LiveTo, IsMerged
  <2> QED
    BY <1>2, <1>3, <2>1, <2>2
<1>7. CASE RollBack(x)
  <2>1. \A n \in Merges, k \in Keys :
          closer'[n][k] = IF n = x THEN Absent ELSE IF closer[n][k] = x THEN Live ELSE closer[n][k]
    BY <1>7, RollBackVersions
  <2>2. \A k \in Keys : closer[m][k] # x /\ closer'[m][k] = closer[m][k]
    BY <1>2, <2>1 DEF Written
  <2>3. \A n \in Merges, k \in Keys : LiveTo(m, n, k)' <=> LiveTo(m, n, k)
    <3> SUFFICES ASSUME NEW n \in Merges, NEW k \in Keys
                 PROVE  LiveTo(m, n, k)' <=> LiveTo(m, n, k)
      OBVIOUS
    <3>1. CASE n = x
      BY <1>2, <3>1 DEF LiveTo
    <3>2. CASE n # x /\ closer[n][k] = x
      BY <1>2, <2>1, <3>2 DEF LiveTo, IsMerged
    <3>3. CASE n # x /\ closer[n][k] # x
      BY <1>2, <2>1, <3>3 DEF LiveTo, IsMerged
    <3> QED
      BY <3>1, <3>2, <3>3
  <2> QED
    BY <1>2, <1>3, <2>2, <2>3
<1>8. Begin(x) \/ InsertCommit(x) \/ See(x) \/ (Close(x) /\ ~ TargetStillLive(x)) => closer' = closer
  BY DEF Begin, InsertCommit, See, Close
<1> QED
  BY <1>4, <1>5, <1>6, <1>7, <1>8

\* A merge's own close takes one version out of its view, and never one of its own.
LEMMA CloseViews ==
  ASSUME IInv, NEW m \in Merges, Close(m)
  PROVE  /\ \A n \in Merges, j \in Keys : LiveTo(m, n, j)' => LiveTo(m, n, j)
         /\ \A j \in Keys : closer'[m][j] = closer[m][j]
         /\ TargetStillLive(m) =>
              \A k \in Keys : k = Item(m).key => \A n \in Merges : ~ LiveTo(m, n, k)'
<1> USE DEF IInv
<1>0. Live # Absent /\ Live \notin Merges /\ Absent \notin Merges
  BY GraphAssumption DEF Live, Absent
<1>1. /\ Others(m) /\ merge[m].at = "act" /\ merge'[m].at # "merged"
  BY StageEffect, CloseEffect DEF Close
<1>2. \A n \in Merges : (IsMerged(n)' <=> IsMerged(n))
  BY <1>1 DEF Others, IsMerged
<1>3. CASE ~ TargetStillLive(m)
  <2>1. closer' = closer
    BY <1>3 DEF Close
  <2> QED
    BY <1>2, <1>3, <2>1 DEF LiveTo, IsMerged
<1>4. CASE TargetStillLive(m)
  <2>1. PICK t \in Merges, k \in Keys :
          /\ t = merge[m].target /\ k = Item(m).key
          /\ closer[t][k] = Live /\ closer'[t][k] = m
          /\ \A n \in Merges, j \in Keys : n # t \/ j # k => closer'[n][j] = closer[n][j]
    BY <1>4, CloseVersions
  <2>2. merge[m].start > merge[t].start
    BY <1>4, <2>1 DEF Close, ValidRange
  <2>3. t # m
    BY <2>2, StampSorts
  <2>4. IsMerged(t) /\ LiveTo(m, t, k)
    BY <1>1, <2>1, <2>3, GraphAssumption DEF TargetOK, LiveTo
  <2>5. \A n \in Merges, j \in Keys : LiveTo(m, n, j)' => LiveTo(m, n, j)
    <3> SUFFICES ASSUME NEW n \in Merges, NEW j \in Keys, LiveTo(m, n, j)'
                 PROVE  LiveTo(m, n, j)
      OBVIOUS
    <3>1. CASE n = t /\ j = k
      BY <2>4, <3>1
    <3>2. CASE n # t \/ j # k
      BY <1>2, <2>1, <3>2 DEF LiveTo, IsMerged
    <3> QED
      BY <3>1, <3>2
  <2>6. ~ LiveTo(m, t, k)'
    BY <1>0, <2>1 DEF LiveTo
  <2>7. \A n \in Merges : ~ LiveTo(m, n, k)'
    <3> SUFFICES ASSUME NEW n \in Merges, LiveTo(m, n, k)' PROVE FALSE
      OBVIOUS
    <3>1. n = t
      BY <2>4, <2>5 DEF Views
    <3> QED
      BY <2>6, <3>1
  <2> QED
    BY <2>1, <2>3, <2>5, <2>7
<1> QED
  BY <1>3, <1>4

\* What m comes to see was committed since it began.
SeesOnlyNews(m) ==
  /\ \A n \in Merges : Since(m, n) => Since(m, n)'
  /\ \A n \in Merges, k \in Keys : LiveTo(m, n, k)' => LiveTo(m, n, k) \/ Since(m, n)'

\* As long as that is so, what it has done stays done, ...
LEMMA DoneStays ==
  ASSUME NEW m \in Merges, NEW i \in Nat \ {0}, i <= Len(Items[m]) + 1,
         Done(m, i), SeesOnlyNews(m),
         \A k \in Keys : closer'[m][k] = closer[m][k]
  PROVE  Done(m, i)'
<1>1. \A j \in 1..i - 1 : Items[m][j].key \in Keys
  <2>1. \A j \in 1..i - 1 : j \in 1..Len(Items[m])
    BY ItemsLen
  <2> QED
    BY <2>1, ItemKeys
<1>2. \A j \in 1..i - 1 : Items[m][j].op = "put" => closer'[m][Items[m][j].key] = Live
  BY <1>1 DEF Done
<1>3. ASSUME NEW j \in 1..i - 1, Items[m][j].op = "retire",
             \A l \in 1..i - 1 : l > j /\ Items[m][l].op = "put" => Items[m][l].key # Items[m][j].key,
             NEW n \in Merges, LiveTo(m, n, Items[m][j].key)'
      PROVE  Since(m, n)'
  <2>1. PICK k \in Keys : k = Items[m][j].key
    BY <1>1
  <2>2. LiveTo(m, n, k)'
    BY <1>3, <2>1
  <2>3. LiveTo(m, n, k) => Since(m, n)
    BY <1>3, <2>1 DEF Done
  <2> QED
    BY <2>2, <2>3 DEF SeesOnlyNews
<1> QED
  BY <1>2, <1>3 DEF Done

\* ... and so does what it is about to do.
LEMMA LandedStays ==
  ASSUME NEW m \in Merges, NEW i \in Nat \ {0}, NEW at, NEW t \in Merges \cup {NoMerge},
         at \in {"act", "insert"} => i <= Len(Items[m]),
         LandedAt(m, i, at, t), SeesOnlyNews(m),
         \A k \in Keys : closer'[m][k] = closer[m][k]
  PROVE  LandedAt(m, i, at, t)'
<1>1. Done(m, i)'
  BY DoneStays DEF LandedAt
<1>2. ASSUME at = "act", NEW n \in Merges, LiveTo(m, n, Items[m][i].key)'
      PROVE  n = t \/ Since(m, n)'
  <2>1. i \in 1..Len(Items[m])
    BY <1>2, ItemsLen
  <2>2. PICK k \in Keys : k = Items[m][i].key
    BY <2>1, ItemKeys
  <2>3. LiveTo(m, n, k)'
    BY <1>2, <2>2
  <2>4. LiveTo(m, n, k) => n = t \/ Since(m, n)
    BY <1>2, <2>2 DEF LandedAt, Sees
  <2> QED
    BY <2>3, <2>4 DEF SeesOnlyNews
<1>3. at = "act" => Sees(m, i, t)'
  BY <1>2 DEF Sees
<1> QED
  BY <1>1, <1>3 DEF LandedAt

\* Short of its commit another merge shows m nothing; with it, only what is committed since.
LEMMA LandsOthers ==
  ASSUME IInv, Stamps, NEW m \in Merges, AtWork(m), Landed(m), NEW x \in Merges \ {m},
         \/ Begin(x) \/ InsertCommit(x) \/ See(x) \/ Close(x) \/ Insert(x) \/ Seal(x) \/ RollBack(x)
  PROVE  Landed(m)'
<1> USE DEF IInv
<1>0. /\ IsRunning(m) /\ merge[m].i \in Nat \ {0} /\ merge[m].target \in Merges \cup {NoMerge}
      /\ merge[m].at \in {"act", "insert"} => merge[m].i <= Len(Items[m])
      /\ LandedAt(m, merge[m].i, merge[m].at, merge[m].target)
  BY TargetType DEF AtWork, IsRunning, Running, AtItem, Landed
<1>1. PICK i, at, t : i = merge[m].i /\ at = merge[m].at /\ t = merge[m].target
  OBVIOUS
<1>2. /\ merge'[m] = merge[m] /\ SeesOnlyNews(m)
      /\ \A k \in Keys : closer'[m][k] = closer[m][k]
  <2>1. CASE ~ Seal(x)
    <3>1. Begin(x) \/ InsertCommit(x) \/ See(x) \/ Close(x) \/ Insert(x) \/ RollBack(x)
      BY <2>1
    <3> QED
      BY <1>0, <3>1, OthersUnseen DEF SeesOnlyNews
  <2>2. CASE Seal(x)
    <3>1. /\ merge'[m] = merge[m] /\ merge'[x].at = "merged" /\ merge'[x].sealed = clock
          /\ closer' = closer /\ merge[x].at # "merged"
          /\ \A n \in Merges \ {x} : merge'[n] = merge[n]
      BY <2>2, StampEffect, StageEffect, ZenonT(30) DEF Seal, Others
    <3>2. merge[m].start <= clock /\ clock \in Nat /\ merge[m].start \in Nat
      BY StampSorts DEF Stamps
    <3>3. Since(m, x)'
      BY <3>1, <3>2 DEF Since, IsMerged
    <3>4. \A n \in Merges : Since(m, n) => Since(m, n)'
      BY <3>1 DEF Since, IsMerged
    <3>5. \A n \in Merges, k \in Keys : LiveTo(m, n, k)' => LiveTo(m, n, k) \/ n = x
      BY <3>1 DEF LiveTo, IsMerged
    <3> QED
      BY <3>1, <3>3, <3>4, <3>5 DEF SeesOnlyNews
  <2> QED
    BY <2>1, <2>2
<1>3. /\ i \in Nat \ {0} /\ t \in Merges \cup {NoMerge}
      /\ at \in {"act", "insert"} => i <= Len(Items[m])
      /\ LandedAt(m, i, at, t)
  BY <1>0, <1>1
<1>4. LandedAt(m, i, at, t)'
  BY <1>2, <1>3, LandedStays
<1> QED
  BY <1>1, <1>2, <1>4 DEF Landed

\* A step of a merge that stays at work makes nothing news, or old.
LEMMA OwnNews ==
  ASSUME TypeOK, NEW m \in Merges, InsertCommit(m) \/ See(m) \/ Close(m) \/ Insert(m)
  PROVE  /\ \A n \in Merges : Since(m, n)' <=> Since(m, n)
         /\ \A n \in Merges : IsMerged(n)' <=> IsMerged(n)
         /\ ~ IsMerged(m)
<1>1. /\ Others(m) /\ merge[m].at # "merged" /\ merge'[m].at # "merged"
      /\ merge'[m].start = merge[m].start
  BY StageEffect, StampEffect
<1> QED
  BY <1>1 DEF Since, IsMerged, Others

\* A merge that has its commit row has done nothing yet.
LEMMA LandsInsertCommit ==
  ASSUME IInv, NEW m \in Merges, InsertCommit(m)
  PROVE  Landed(m)'
<1>1. merge'[m].at = "see" /\ merge'[m].i = 1
  BY InsertCommitEffect DEF IInv
<1>2. Len(Items[m]) \in Nat
  BY ItemsLen
<1>3. Done(m, 1)'
  BY DEF Done
<1> QED
  BY <1>1, <1>2, <1>3 DEF Landed, LandedAt

\* It looks, ...
LEMMA LandsSee ==
  ASSUME IInv, NEW m \in Merges, Landed(m), See(m)
  PROVE  Landed(m)'
<1> USE DEF IInv
<1>1. PICK i \in Nat \ {0} : i = merge[m].i
  BY DEF See, AtItem
<1>2. PICK k \in Keys : k = Items[m][i].key
  BY <1>1, ItemsLen, ItemKeys DEF See
<1>3. PICK n \in Merges \cup {NoMerge} :
        /\ IF n = NoMerge THEN \A q \in Merges : ~ LiveTo(m, q, k) ELSE LiveTo(m, n, k)
        /\ merge' = [merge EXCEPT ![m] = [@ EXCEPT !.at = "act", !.target = n]]
  BY <1>1, <1>2, GraphAssumption DEF See, Item
<1>4. merge'[m].at = "act" /\ merge'[m].i = i /\ merge'[m].target = n
  BY <1>1, <1>3 DEF TypeOK, MergeRecords
<1>5. closer' = closer /\ i <= Len(Items[m]) /\ Done(m, i)
  BY <1>1 DEF See, Landed, LandedAt
<1>6. /\ \A q \in Merges : Since(m, q)' <=> Since(m, q)
      /\ \A q \in Merges : IsMerged(q)' <=> IsMerged(q)
  BY OwnNews
<1>7. \A q \in Merges, j \in Keys : LiveTo(m, q, j)' <=> LiveTo(m, q, j)
  BY <1>5, <1>6 DEF LiveTo, IsMerged
<1>8. i <= Len(Items[m]) + 1
  BY <1>5, ItemsLen
<1>9. Done(m, i)'
  BY <1>5, <1>6, <1>7, <1>8, DoneStays DEF SeesOnlyNews
<1>10. \A q \in Merges : LiveTo(m, q, k)' => q = n
  BY <1>3, <1>7 DEF Views
<1>11. Sees(m, i, n)'
  BY <1>2, <1>10 DEF Sees
<1> QED
  BY <1>4, <1>8, <1>9, <1>11 DEF Landed, LandedAt

\* ... closes what it saw, which with that is done if it only retires, ...
LEMMA LandsClose ==
  ASSUME IInv, NEW m \in Merges, Landed(m), Close(m)
  PROVE  Landed(m)'
<1> USE DEF IInv
<1>1. PICK i \in Nat \ {0} : i = merge[m].i /\ i <= Len(Items[m])
  BY DEF Close, AtItem
<1>2. PICK k \in Keys : k = Items[m][i].key /\ k = Item(m).key
  BY <1>1, ItemType DEF Close, Item
<1>3. /\ \A n \in Merges, j \in Keys : LiveTo(m, n, j)' => LiveTo(m, n, j)
      /\ \A j \in Keys : closer'[m][j] = closer[m][j]
      /\ TargetStillLive(m) => \A n \in Merges : ~ LiveTo(m, n, k)'
  BY <1>2, CloseViews
<1>4. \A n \in Merges : Since(m, n)' <=> Since(m, n)
  BY OwnNews
<1>5. i <= Len(Items[m]) + 1 /\ i + 1 <= Len(Items[m]) + 1 /\ Done(m, i)
  BY <1>1, ItemsLen DEF Landed, LandedAt
<1>6. Done(m, i)'
  BY <1>3, <1>4, <1>5, DoneStays DEF SeesOnlyNews
<1>7. CASE Item(m).op = "put"
  <2>1. merge'[m].at = "insert" /\ merge'[m].i = i
    BY <1>1, <1>7 DEF Close, AfterClose, TypeOK, MergeRecords
  <2>2. Items[m][i].op = "put"
    BY <1>1, <1>7 DEF Item
  <2> QED
    BY <1>5, <1>6, <2>1, <2>2 DEF Landed, LandedAt
<1>8. CASE Item(m).op # "put"
  <2>1. merge'[m].at = "see" /\ merge'[m].i = i + 1
    BY <1>1, <1>8 DEF Close, AfterClose, TypeOK, MergeRecords
  <2>2. Items[m][i].op # "put"
    BY <1>1, <1>8 DEF Item
  <2>3. ASSUME NEW n \in Merges, LiveTo(m, n, k)' PROVE Since(m, n)
    <3>1. LiveTo(m, n, k) /\ ~ TargetStillLive(m)
      BY <1>3, <2>3
    <3>2. n = merge[m].target \/ Since(m, n)
      BY <1>1, <1>2, <3>1 DEF Landed, LandedAt, Sees, Close
    <3>3. CASE n = merge[m].target
      <4>1. closer[n][k] # Live
        BY <1>2, <3>1, <3>3, GraphAssumption DEF TargetStillLive
      <4>2. closer[n][k] \in Merges \ {m} /\ IsRunning(closer[n][k])
        BY <3>1, <4>1 DEF LiveTo, Written
      <4> QED
        BY <1>2, <3>3, <4>2, GraphAssumption DEF Close
    <3> QED
      BY <3>2, <3>3
  <2>4. Done(m, i + 1)'
    <3>1. \A j \in 1..(i + 1) - 1 : j = i \/ j \in 1..i - 1
      OBVIOUS
    <3>2. i - 1 \in Nat /\ 1..i - 1 \subseteq 1..(i + 1) - 1
      OBVIOUS
    <3>3. \A j \in 1..(i + 1) - 1 : Items[m][j].op = "put" => closer'[m][Items[m][j].key] = Live
      BY <1>6, <2>2, <3>1 DEF Done
    <3>4. ASSUME NEW j \in 1..(i + 1) - 1, Items[m][j].op = "retire",
                 \A l \in 1..(i + 1) - 1 :
                   l > j /\ Items[m][l].op = "put" => Items[m][l].key # Items[m][j].key,
                 NEW n \in Merges, LiveTo(m, n, Items[m][j].key)'
          PROVE  Since(m, n)'
      <4>1. CASE j = i
        <5>1. LiveTo(m, n, k)'
          BY <1>2, <3>4, <4>1
        <5> QED
          BY <1>4, <2>3, <5>1
      <4>2. CASE j \in 1..i - 1
        BY <1>6, <3>2, <3>4, <4>2 DEF Done
      <4> QED
        BY <3>1, <4>1, <4>2
    <3> QED
      BY <3>3, <3>4 DEF Done
  <2> QED
    BY <1>5, <2>1, <2>4 DEF Landed, LandedAt
<1> QED
  BY <1>7, <1>8

\* ... and inserts, which for good makes its version the live one of its view.
LEMMA LandsInsert ==
  ASSUME IInv, NEW m \in Merges, Landed(m), Insert(m)
  PROVE  Landed(m)'
<1> USE DEF IInv
<1>1. PICK i \in Nat \ {0} : i = merge[m].i /\ i <= Len(Items[m])
  BY DEF Insert, AtItem
<1>2. PICK k \in Keys :
        /\ k = Items[m][i].key
        /\ closer'[m][k] = Live
        /\ \A n \in Merges, j \in Keys : n # m \/ j # k => closer'[n][j] = closer[n][j]
  BY <1>1, InsertVersions DEF Item
<1>3. /\ \A n \in Merges : Since(m, n)' <=> Since(m, n)
      /\ \A n \in Merges : IsMerged(n)' <=> IsMerged(n)
      /\ ~ IsMerged(m)
  BY OwnNews
<1>4. /\ i + 1 <= Len(Items[m]) + 1 /\ Done(m, i) /\ Items[m][i].op = "put"
      /\ \A j \in 1..i : Items[m][j].key \in Keys
  <2>1. i + 1 <= Len(Items[m]) + 1 /\ \A j \in 1..i : j \in 1..Len(Items[m])
    BY <1>1, ItemsLen
  <2> QED
    BY <1>1, <2>1, ItemKeys DEF Landed, LandedAt, Insert
<1>5. merge'[m].at = "see" /\ merge'[m].i = i + 1
  BY <1>1 DEF Insert, TypeOK, MergeRecords
<1>6. \A n \in Merges, j \in Keys : j # k => (LiveTo(m, n, j)' => LiveTo(m, n, j))
  BY <1>2, <1>3 DEF LiveTo, IsMerged
<1>7. Done(m, i + 1)'
  <2>1. \A j \in 1..(i + 1) - 1 : j \in 1..i /\ (j = i \/ j \in 1..i - 1)
    OBVIOUS
  <2>2. 1..i - 1 \subseteq 1..(i + 1) - 1 /\ i \in 1..(i + 1) - 1
    OBVIOUS
  <2>3. ASSUME NEW j \in 1..(i + 1) - 1, Items[m][j].op = "put"
        PROVE  closer'[m][Items[m][j].key] = Live
    <3>1. CASE Items[m][j].key = k
      BY <1>2, <3>1
    <3>2. CASE Items[m][j].key # k
      <4>1. j \in 1..i - 1 /\ Items[m][j].key \in Keys
        BY <1>2, <1>4, <2>1, <3>2
      <4>2. closer[m][Items[m][j].key] = Live
        BY <1>4, <2>3, <4>1 DEF Done
      <4> QED
        BY <1>2, <3>2, <4>1, <4>2
    <3> QED
      BY <3>1, <3>2
  <2>4. ASSUME NEW j \in 1..(i + 1) - 1, Items[m][j].op = "retire",
               \A l \in 1..(i + 1) - 1 :
                 l > j /\ Items[m][l].op = "put" => Items[m][l].key # Items[m][j].key,
               NEW n \in Merges, LiveTo(m, n, Items[m][j].key)'
        PROVE  Since(m, n)'
    <3>1. j \in 1..i - 1 /\ i > j
      BY <1>4, <2>1, <2>4
    <3>2. PICK q \in Keys : q = Items[m][j].key
      BY <1>4, <2>1
    <3>3. q # k
      BY <1>2, <1>4, <2>2, <2>4, <3>1, <3>2
    <3>4. LiveTo(m, n, q)'
      BY <2>4, <3>2
    <3>5. LiveTo(m, n, q)
      BY <1>6, <3>3, <3>4
    <3> QED
      BY <1>3, <1>4, <2>2, <2>4, <3>1, <3>2, <3>5 DEF Done
  <2> QED
    BY <2>3, <2>4 DEF Done
<1> QED
  BY <1>4, <1>5, <1>7 DEF Landed, LandedAt

\* Every merge at work has done its items, whoever moves.
LEMMA LandsStep == IInv /\ Stamps /\ Lands /\ [Next]_vars => Lands'
<1> SUFFICES ASSUME IInv, Stamps, Lands, [Next]_vars, NEW m \in Merges, AtWork(m)'
             PROVE  Landed(m)'
  BY DEF Lands
<1>0. TypeOK
  BY DEF IInv
<1>1. ASSUME NEW x \in Merges, x # m,
             \/ Begin(x) \/ InsertCommit(x) \/ See(x) \/ Close(x) \/ Insert(x) \/ Seal(x)
             \/ RollBack(x)
      PROVE  Landed(m)'
  <2>1. merge'[m] = merge[m]
    BY <1>0, <1>1, StageEffect DEF Others
  <2>2. AtWork(m) /\ Landed(m)
    BY <2>1 DEF AtWork, Lands
  <2> QED
    BY <1>1, <2>2, LandsOthers
<1>2. CASE InsertCommit(m)
  BY <1>2, LandsInsertCommit
<1>3. CASE See(m) \/ Close(m) \/ Insert(m)
  <2>1. Landed(m)
    BY <1>0, <1>3, StageEffect DEF AtWork, Lands
  <2> QED
    BY <1>3, <2>1, LandsSee, LandsClose, LandsInsert
<1>4. ~ Begin(m) /\ ~ Seal(m) /\ ~ RollBack(m)
  BY <1>0, StageEffect DEF AtWork
<1>5. ASSUME \/ UNCHANGED vars
             \/ \E w \in Workflows : Draft(w) \/ Publish(w) \/ PublishCommit(w) \/ Triage(w)
      PROVE  Landed(m)'
  <2>1. merge' = merge /\ closer' = closer
    BY <1>5 DEF vars, Draft, Publish, PublishCommit, Triage
  <2>2. Landed(m)
    BY <2>1 DEF AtWork, Lands
  <2> QED
    BY <2>1, <2>2 DEF Landed, LandedAt, Done, Sees, Since, LiveTo, IsMerged
<1> QED
  BY <1>1, <1>2, <1>3, <1>4, <1>5 DEF Next

\* However merges interleave, one at work has done the items before the one it is at.
THEOREM LandsAlways == Spec => []Lands
<1>1. Init => Lands
  BY DEF Init, Idle, Lands, AtWork
<1> QED
  BY <1>1, LandsStep, GraphInductive, StampsAlways, PTL DEF Spec

\* A merge that commits has done what its proposal says; what it retires and is live all the
\* same was committed under it.
THEOREM MergeAlwaysLands == Spec => MergeLands
<1>3. ASSUME IInv, Lands, [Next]_vars, NEW m \in Merges, ~ IsMerged(m), IsMerged(m)',
             NEW k \in Keys
      PROVE  /\ LastOp(m, k, "put") => LiveNow(m, k)'
             /\ LastOp(m, k, "retire") => \A n \in Merges : LiveNow(n, k)' => Since(m, n)
  <2> USE <1>3 DEF IInv
  <2>0. Live # Absent /\ Live \notin Merges /\ Absent \notin Merges
    BY GraphAssumption DEF Live, Absent
  <2>1. Seal(m)
    <3>1. ASSUME NEW x \in Merges, x # m,
                 \/ Begin(x) \/ InsertCommit(x) \/ See(x) \/ Close(x) \/ Insert(x) \/ Seal(x)
                 \/ RollBack(x)
          PROVE  FALSE
      BY <3>1, StageEffect DEF Others, IsMerged
    <3>2. ~ (Begin(m) \/ InsertCommit(m) \/ See(m) \/ Close(m) \/ Insert(m) \/ RollBack(m))
      BY StageEffect DEF IsMerged
    <3>3. ~ (\/ UNCHANGED vars
             \/ \E w \in Workflows : Draft(w) \/ Publish(w) \/ PublishCommit(w) \/ Triage(w))
      BY DEF vars, Draft, Publish, PublishCommit, Triage, IsMerged
    <3> QED
      BY <3>1, <3>2, <3>3 DEF Next
  <2>2. /\ Others(m) /\ merge[m].at = "see" /\ merge'[m].at = "merged" /\ closer' = closer
    BY <2>1, StageEffect DEF Seal
  <2>3. Landed(m) /\ merge[m].i = Len(Items[m]) + 1
    <3>1. Landed(m) /\ merge[m].i \in Nat
      BY <2>2 DEF Lands, AtWork, AtItem
    <3>2. merge[m].i <= Len(Items[m]) + 1 /\ merge[m].i > Len(Items[m])
      BY <2>1, <3>1 DEF Landed, LandedAt, Seal
    <3> QED
      BY <3>1, <3>2, ItemsLen
  <2>4. /\ Done(m, merge[m].i) /\ 1..merge[m].i - 1 = DOMAIN Items[m]
        /\ DOMAIN Items[m] = 1..Len(Items[m])
    <3>1. Len(Items[m]) \in Nat /\ DOMAIN Items[m] = 1..Len(Items[m])
      BY ItemsLen
    <3> QED
      BY <2>3, <3>1 DEF Landed, LandedAt
  <2>5. ASSUME LastOp(m, k, "put") PROVE LiveNow(m, k)'
    <3>1. PICK j \in DOMAIN Items[m] : Items[m][j] = [op |-> "put", key |-> k]
      BY <2>5 DEF LastOp
    <3>2. Items[m][j].op = "put" /\ Items[m][j].key = k /\ j \in 1..merge[m].i - 1
      <4>1. j \in 1..merge[m].i - 1
        BY <2>4
      <4>2. Items[m][j].op = "put" /\ Items[m][j].key = k
        BY <3>1
      <4> QED
        BY <4>1, <4>2
    <3>3. closer[m][k] = Live
      BY <2>4, <3>2 DEF Done
    <3> QED
      BY <2>2, <3>3 DEF LiveNow, LiveTo, IsMerged
  <2>6. ASSUME LastOp(m, k, "retire"), NEW n \in Merges, LiveNow(n, k)' PROVE Since(m, n)
    <3>1. PICK j \in DOMAIN Items[m] :
            /\ Items[m][j] = [op |-> "retire", key |-> k]
            /\ \A l \in j + 1..Len(Items[m]) : Items[m][l].key # k
      BY <2>6 DEF LastOp
    <3>2. \A l \in DOMAIN Items[m] : l > j => Items[m][l].key # k
      BY <2>4, <3>1, ItemsLen
    <3>3. LiveTo(m, n, k) => Since(m, n)
      <4>1. Items[m][j].op = "retire" /\ Items[m][j].key = k /\ j \in 1..merge[m].i - 1
        <5>1. j \in 1..merge[m].i - 1
          BY <2>4
        <5>2. Items[m][j].op = "retire" /\ Items[m][j].key = k
          BY <3>1
        <5> QED
          BY <5>1, <5>2
      <4>2. \A l \in 1..merge[m].i - 1 : l > j => Items[m][l].key # Items[m][j].key
        BY <2>4, <3>2, <4>1
      <4> QED
        BY <2>4, <4>1, <4>2 DEF Done
    <3>4. CASE n = m
      <4>1. closer[m][k] = Live
        BY <2>2, <2>6, <3>4 DEF LiveNow, LiveTo, Written
      <4> QED
        BY <3>3, <3>4, <4>1 DEF LiveTo
    <3>5. CASE n # m
      BY <2>2, <2>6, <3>3, <3>5 DEF LiveNow, LiveTo, IsMerged, Others
    <3> QED
      BY <3>4, <3>5
  <2> QED
    BY <2>5, <2>6
<1>4. IInv /\ Lands /\ [Next]_vars =>
        [\A m \in Merges : ~ IsMerged(m) /\ IsMerged(m)' =>
           \A k \in Keys :
             /\ LastOp(m, k, "put") => LiveNow(m, k)'
             /\ LastOp(m, k, "retire") =>
                  \A n \in Merges : LiveNow(n, k)' => IsMerged(n) /\ merge[n].sealed >= merge[m].start]_vars
  BY <1>3 DEF Since
<1> QED
  BY <1>4, LandsAlways, GraphInductive, PTL DEF Spec, MergeLands

-----------------------------------------------------------------------------
(* What readers see is what GraphPromise says.                             *)

\* A merge writes versions of the keys it puts, and ends versions of its items' keys.
OwnKeys ==
  \A n \in Merges, k \in Keys :
    /\ closer[n][k] # Absent => k \in KeysOf(n, "put")
    /\ \A m \in Merges : closer[n][k] = m => k \in KeysOf(m, "put") \cup KeysOf(m, "retire")

\* The key of the item a merge is at is one of its keys.
LEMMA AtOwnKey ==
  ASSUME AtItem, NEW m \in Merges, merge[m].at \in {"act", "insert"}
  PROVE  Item(m).key \in KeysOf(m, Item(m).op)
<1>1. PICK i \in DOMAIN Items[m] : i = merge[m].i
  BY ItemsLen DEF AtItem
<1> QED
  BY <1>1 DEF KeysOf, Item

\* No step writes another key.
LEMMA OwnKeysStep == IInv /\ Lands /\ OwnKeys /\ [Next]_vars => OwnKeys'
<1> SUFFICES ASSUME IInv, Lands, OwnKeys, [Next]_vars PROVE OwnKeys'
  OBVIOUS
<1> USE DEF IInv
<1>0. Live # Absent /\ Live \notin Merges /\ Absent \notin Merges
  BY GraphAssumption DEF Live, Absent
<1>1. CASE closer' = closer
  BY <1>1 DEF OwnKeys, KeysOf
<1>2. ASSUME NEW m \in Merges, Close(m), TargetStillLive(m) PROVE OwnKeys'
  <2>1. PICK t \in Merges, k \in Keys :
          /\ k = Item(m).key /\ closer[t][k] = Live /\ closer'[t][k] = m
          /\ \A n \in Merges, j \in Keys : n # t \/ j # k => closer'[n][j] = closer[n][j]
    BY <1>2, CloseVersions
  <2>2. k \in KeysOf(m, "put") \cup KeysOf(m, "retire")
    BY <1>2, <2>1, AtOwnKey, ItemType DEF Close, Ops
  <2>3. k \in KeysOf(t, "put")
    BY <1>0, <2>1 DEF OwnKeys
  <2>4. ASSUME NEW n \in Merges, NEW j \in Keys
        PROVE  /\ closer'[n][j] # Absent => j \in KeysOf(n, "put")
               /\ \A x \in Merges : closer'[n][j] = x => j \in KeysOf(x, "put") \cup KeysOf(x, "retire")
    <3>1. CASE n = t /\ j = k
      BY <2>1, <2>2, <2>3, <3>1
    <3>2. CASE n # t \/ j # k
      BY <2>1, <3>2 DEF OwnKeys
    <3> QED
      BY <3>1, <3>2
  <2> QED
    BY <2>4 DEF OwnKeys, KeysOf
<1>3. ASSUME NEW m \in Merges, Insert(m) PROVE OwnKeys'
  <2>1. PICK k \in Keys :
          /\ k = Item(m).key /\ closer'[m][k] = Live
          /\ \A n \in Merges, j \in Keys : n # m \/ j # k => closer'[n][j] = closer[n][j]
    BY <1>3, InsertVersions
  <2>2. merge[m].at = "insert" /\ Item(m).op = "put"
    BY <1>3 DEF Insert, Lands, AtWork, Landed, LandedAt, Item
  <2>3. k \in KeysOf(m, "put")
    BY <2>1, <2>2, AtOwnKey
  <2>4. ASSUME NEW n \in Merges, NEW j \in Keys
        PROVE  /\ closer'[n][j] # Absent => j \in KeysOf(n, "put")
               /\ \A x \in Merges : closer'[n][j] = x => j \in KeysOf(x, "put") \cup KeysOf(x, "retire")
    <3>1. CASE n = m /\ j = k
      BY <1>0, <2>1, <2>3, <3>1
    <3>2. CASE n # m \/ j # k
      BY <2>1, <3>2 DEF OwnKeys
    <3> QED
      BY <3>1, <3>2
  <2> QED
    BY <2>4 DEF OwnKeys, KeysOf
<1>4. ASSUME NEW m \in Merges, RollBack(m) PROVE OwnKeys'
  <2>1. \A n \in Merges, k \in Keys :
          closer'[n][k] = IF n = m THEN Absent ELSE IF closer[n][k] = m THEN Live ELSE closer[n][k]
    BY <1>4, RollBackVersions
  <2>2. ASSUME NEW n \in Merges, NEW j \in Keys
        PROVE  /\ closer'[n][j] # Absent => j \in KeysOf(n, "put")
               /\ \A x \in Merges : closer'[n][j] = x => j \in KeysOf(x, "put") \cup KeysOf(x, "retire")
    BY <1>0, <2>1 DEF OwnKeys
  <2> QED
    BY <2>2 DEF OwnKeys, KeysOf
<1>5. \A m \in Merges : Begin(m) \/ InsertCommit(m) \/ See(m) \/ Seal(m) \/ (Close(m) /\ ~ TargetStillLive(m))
        => closer' = closer
  BY DEF Begin, InsertCommit, See, Seal, Close
<1>6. (\/ UNCHANGED vars
       \/ \E w \in Workflows : Draft(w) \/ Publish(w) \/ PublishCommit(w) \/ Triage(w)) => closer' = closer
  BY DEF vars, Draft, Publish, PublishCommit, Triage
<1> QED
  BY <1>1, <1>2, <1>3, <1>4, <1>5, <1>6 DEF Next

\* A version that readers see is live until a merge that has committed ends it.
LEMMA VersionIs ==
  ASSUME TypeOK
  PROVE  \A n \in Merges, k \in Keys :
           CommittedVersion[n][k] =
             IF ~ IsMerged(n) \/ closer[n][k] = Absent THEN Absent
             ELSE IF Settled(n, k) THEN closer[n][k] ELSE Live
<1>0. Live # Absent /\ Live \notin Merges /\ Absent \notin Merges
  BY GraphAssumption DEF Live, Absent
<1>1. \A n \in Merges, k \in Keys : closer[n][k] \in Merges \cup {Live, Absent}
  BY DEF TypeOK
<1> QED
  BY <1>0, <1>1 DEF CommittedVersion, Settled

\* Only a commit shows them anything new.
LEMMA VersionStays ==
  ASSUME IInv, [Next]_vars, ~ \E m \in Merges : Seal(m)
  PROVE  CommittedVersion' = CommittedVersion
<1>0. Live # Absent /\ Live \notin Merges /\ Absent \notin Merges
  BY GraphAssumption DEF Live, Absent
<1>1. /\ \A n \in Merges, k \in Keys : closer[n][k] \in Merges \cup {Live, Absent}
      /\ \A n \in Merges, k \in Keys : closer'[n][k] \in Merges \cup {Live, Absent}
  BY IInvStep DEF IInv, TypeOK
<1>2. /\ \A n \in Merges : (IsMerged(n)' <=> IsMerged(n))
      /\ \A n \in Merges, k \in Keys : IsMerged(n) =>
           /\ closer'[n][k] = Absent <=> closer[n][k] = Absent
           /\ Settled(n, k)' <=> Settled(n, k)
           /\ Settled(n, k) => closer'[n][k] = closer[n][k]
  BY OnlySealCommits
<1>3. \A n \in Merges, k \in Keys :
        (IF ~ IsMerged(n) THEN Absent
         ELSE IF closer[n][k] \in Merges /\ ~ IsMerged(closer[n][k]) THEN Live ELSE closer[n][k])'
        = IF ~ IsMerged(n) THEN Absent
          ELSE IF closer[n][k] \in Merges /\ ~ IsMerged(closer[n][k]) THEN Live ELSE closer[n][k]
  <2> SUFFICES ASSUME NEW n \in Merges, NEW k \in Keys
               PROVE  (IF ~ IsMerged(n) THEN Absent
                       ELSE IF closer[n][k] \in Merges /\ ~ IsMerged(closer[n][k])
                            THEN Live ELSE closer[n][k])'
                      = IF ~ IsMerged(n) THEN Absent
                        ELSE IF closer[n][k] \in Merges /\ ~ IsMerged(closer[n][k])
                             THEN Live ELSE closer[n][k]
    OBVIOUS
  <2>1. CASE ~ IsMerged(n)
    BY <1>2, <2>1
  <2>2. CASE IsMerged(n) /\ Settled(n, k)
    <3>1. IsMerged(n)' /\ Settled(n, k)' /\ closer'[n][k] = closer[n][k]
      BY <1>2, <2>2
    <3> QED
      BY <2>2, <3>1 DEF Settled
  <2>3. CASE IsMerged(n) /\ ~ Settled(n, k)
    <3>1. IsMerged(n)' /\ ~ Settled(n, k)' /\ (closer'[n][k] = Absent <=> closer[n][k] = Absent)
      BY <1>2, <2>3
    <3>2. closer'[n][k] \in Merges \cup {Live, Absent} /\ closer[n][k] \in Merges \cup {Live, Absent}
      BY <1>1
    <3> QED
      BY <1>0, <2>3, <3>1, <3>2 DEF Settled
  <2> QED
    BY <2>1, <2>2, <2>3
<1> QED
  BY <1>3 DEF CommittedVersion

\* One value of a function changes.
LEMMA OneValue ==
  ASSUME NEW S, NEW f, NEW g, NEW m \in S, NEW v,
         f = [x \in S |-> f[x]], g = [x \in S |-> g[x]],
         g[m] = v, \A x \in S \ {m} : g[x] = f[x]
  PROVE  g = [f EXCEPT ![m] = v]
OBVIOUS

\* A merge that goes on, and whatever workflows do, the promise does not see.
LEMMA HiddenSteps ==
  ASSUME IInv, [Next]_vars,
         \/ \E m \in Merges : InsertCommit(m) \/ See(m) \/ Close(m) \/ Insert(m)
         \/ \E w \in Workflows : Draft(w) \/ Publish(w) \/ PublishCommit(w) \/ Triage(w)
         \/ UNCHANGED vars
  PROVE  UNCHANGED Promise!vars
<1> USE DEF IInv
<1>1. CASE \/ \E w \in Workflows : Draft(w) \/ Publish(w) \/ PublishCommit(w) \/ Triage(w)
           \/ UNCHANGED vars
  <2>1. merge' = merge /\ closer' = closer
    BY <1>1 DEF vars, Draft, Publish, PublishCommit, Triage
  <2> QED
    BY <2>1 DEF Promise!vars, MergeStage, CommittedBefore, CommittedVersion, IsMerged, IsRunning
<1>2. ASSUME NEW m \in Merges, InsertCommit(m) \/ See(m) \/ Close(m) \/ Insert(m)
      PROVE  UNCHANGED Promise!vars
  <2>1. /\ merge[m].at \in Running /\ merge'[m].at \in Running /\ Others(m)
        /\ merge'[m].start = merge[m].start
    BY <1>2, StageEffect, StampEffect DEF Running
  <2>2. /\ \A n \in Merges : (IsMerged(n)' <=> IsMerged(n)) /\ (IsRunning(n)' <=> IsRunning(n))
        /\ \A n \in Merges : merge'[n].start = merge[n].start
        /\ \A n \in Merges : IsMerged(n) => merge'[n].sealed = merge[n].sealed
    BY <2>1 DEF Others, IsMerged, IsRunning, Running
  <2>3. MergeStage' = MergeStage /\ CommittedBefore' = CommittedBefore
    BY <2>2 DEF MergeStage, CommittedBefore
  <2>4. \A x \in Merges : ~ Seal(x)
    BY <2>1, StageEffect DEF Others, Running
  <2> QED
    BY <2>3, <2>4, VersionStays DEF Promise!vars
<1> QED
  BY <1>1, <1>2

\* A merge begins knowing what is committed.
LEMMA BeginMaps ==
  ASSUME IInv, Stamps, [Next]_vars, NEW m \in Merges, Begin(m)
  PROVE  Promise!Begin(m)
<1> USE DEF IInv
<1>1. /\ merge[m].at = "approved" /\ merge'[m].at = "begun" /\ Others(m)
      /\ merge'[m].start = clock + 1 /\ clock \in Nat
  BY StageEffect, StampEffect, StampSorts
<1>2. /\ ~ IsMerged(m) /\ ~ IsMerged(m)' /\ ~ IsRunning(m) /\ IsRunning(m)'
      /\ \A n \in Merges \ {m} : merge'[n] = merge[n]
  BY <1>1 DEF IsMerged, IsRunning, Running, Others
<1>3. MergeStage[m] = "waiting" /\ MergeStage' = [MergeStage EXCEPT ![m] = "underway"]
  <2>1. MergeStage[m] = "waiting" /\ MergeStage'[m] = "underway"
    BY <1>2 DEF MergeStage
  <2>2. \A x \in Merges \ {m} : MergeStage'[x] = MergeStage[x]
    BY <1>2 DEF MergeStage, IsMerged, IsRunning
  <2>3. MergeStage = [x \in Merges |-> MergeStage[x]] /\ MergeStage' = [x \in Merges |-> MergeStage'[x]]
    BY DEF MergeStage
  <2> QED
    BY <2>1, <2>2, <2>3, OneValue
<1>4. \A n \in Merges : IsMerged(n) => merge'[n].sealed < merge'[m].start
  BY <1>1, <1>2, StampSorts DEF Stamps
<1>5. {n \in Merges : IsMerged(n)' /\ merge'[n].sealed < merge'[m].start}
        = {n \in Merges : MergeStage[n] = "merged"}
  BY <1>2, <1>4 DEF MergeStage, IsMerged
<1>6. CommittedBefore' = [CommittedBefore EXCEPT ![m] = {n \in Merges : MergeStage[n] = "merged"}]
  <2>1. CommittedBefore'[m] = {n \in Merges : MergeStage[n] = "merged"}
    BY <1>2, <1>5 DEF CommittedBefore
  <2>2. \A x \in Merges \ {m} : CommittedBefore'[x] = CommittedBefore[x]
    <3>1. \A x \in Merges \ {m} :
            /\ {n \in Merges : IsMerged(n)' /\ merge'[n].sealed < merge'[x].start}
                = {n \in Merges : IsMerged(n) /\ merge[n].sealed < merge[x].start}
            /\ IsRunning(x)' <=> IsRunning(x)
      BY <1>2 DEF IsMerged, IsRunning
    <3> QED
      BY <3>1 DEF CommittedBefore
  <2>3. /\ CommittedBefore = [x \in Merges |-> CommittedBefore[x]]
        /\ CommittedBefore' = [x \in Merges |-> CommittedBefore'[x]]
    BY DEF CommittedBefore
  <2> QED
    BY <2>1, <2>2, <2>3, OneValue
<1>7. \A x \in Merges : ~ Seal(x)
  BY <1>1, StageEffect DEF Others
<1> QED
  BY <1>3, <1>6, <1>7, VersionStays DEF Promise!Begin

\* A merge rolled back has never been.
LEMMA RollBackMaps ==
  ASSUME IInv, [Next]_vars, NEW m \in Merges, RollBack(m)
  PROVE  Promise!Fail(m)
<1> USE DEF IInv
<1>1. merge[m].at \in Running /\ merge'[m].at = "approved" /\ Others(m)
  BY StageEffect
<1>2. /\ ~ IsMerged(m) /\ ~ IsMerged(m)' /\ IsRunning(m) /\ ~ IsRunning(m)'
      /\ \A n \in Merges \ {m} : merge'[n] = merge[n]
  BY <1>1 DEF IsMerged, IsRunning, Running, Others
<1>3. MergeStage[m] = "underway" /\ MergeStage' = [MergeStage EXCEPT ![m] = "waiting"]
  <2>1. MergeStage[m] = "underway" /\ MergeStage'[m] = "waiting"
    BY <1>2 DEF MergeStage
  <2>2. \A x \in Merges \ {m} : MergeStage'[x] = MergeStage[x]
    BY <1>2 DEF MergeStage, IsMerged, IsRunning
  <2>3. MergeStage = [x \in Merges |-> MergeStage[x]] /\ MergeStage' = [x \in Merges |-> MergeStage'[x]]
    BY DEF MergeStage
  <2> QED
    BY <2>1, <2>2, <2>3, OneValue
<1>4. CommittedBefore' = [CommittedBefore EXCEPT ![m] = {}]
  <2>1. CommittedBefore'[m] = {}
    BY <1>2 DEF CommittedBefore
  <2>2. \A x \in Merges \ {m} : CommittedBefore'[x] = CommittedBefore[x]
    <3>1. \A x \in Merges \ {m} :
            /\ {n \in Merges : IsMerged(n)' /\ merge'[n].sealed < merge'[x].start}
                = {n \in Merges : IsMerged(n) /\ merge[n].sealed < merge[x].start}
            /\ IsRunning(x)' <=> IsRunning(x)
      BY <1>2 DEF IsMerged, IsRunning
    <3> QED
      BY <3>1 DEF CommittedBefore
  <2>3. /\ CommittedBefore = [x \in Merges |-> CommittedBefore[x]]
        /\ CommittedBefore' = [x \in Merges |-> CommittedBefore'[x]]
    BY DEF CommittedBefore
  <2> QED
    BY <2>1, <2>2, <2>3, OneValue
<1>5. \A x \in Merges : ~ Seal(x)
  BY <1>1, StageEffect DEF Others, Running
<1> QED
  BY <1>3, <1>4, <1>5, VersionStays DEF Promise!Fail

\* No two committed versions of a key are live to readers.
LEMMA OneLive ==
  ASSUME IInv, NEW k \in Keys, NEW m \in Merges, NEW n \in Merges,
         CommittedVersion[m][k] = Live, CommittedVersion[n][k] = Live
  PROVE  m = n
<1>0. Live # Absent /\ Live \notin Merges
  BY GraphAssumption DEF Live, Absent
<1>1. \A x \in Merges : CommittedVersion[x][k] = Live => LiveNow(x, k)
  BY <1>0 DEF CommittedVersion, LiveNow, LiveTo
<1> QED
  BY <1>1, ReadersSeeOne DEF OneLiveVersion

\* A merge that seals has done all its items.
LEMMA AllDone ==
  ASSUME IInv, Lands, NEW m \in Merges, Seal(m)
  PROVE  /\ \A k \in PutKeys[m] : closer[m][k] = Live
         /\ \A k \in RetiredKeys[m], n \in Merges : LiveTo(m, n, k) => Since(m, n)
<1> DEFINE all == DOMAIN Items[m]
<1>1. merge[m].at = "see" /\ merge[m].i \in Nat /\ merge[m].i > Len(Items[m])
  BY DEF Seal, IInv, AtItem
<1>2. merge[m].i <= Len(Items[m]) + 1 /\ Done(m, merge[m].i)
  BY <1>1 DEF Lands, AtWork, Landed, LandedAt
<1>3. merge[m].i = Len(Items[m]) + 1 /\ 1..merge[m].i - 1 = all
  BY <1>1, <1>2, ItemsLen
<1>4. ASSUME NEW k \in PutKeys[m] PROVE closer[m][k] = Live
  <2>1. PICK j \in all : Items[m][j].op = "put" /\ Items[m][j].key = k
    BY DEF PutKeys, KeysOf
  <2> QED
    BY <1>2, <1>3, <2>1 DEF Done
<1>5. ASSUME NEW k \in RetiredKeys[m], NEW n \in Merges, LiveTo(m, n, k) PROVE Since(m, n)
  <2>1. PICK j \in all : Items[m][j].op = "retire" /\ Items[m][j].key = k
    BY DEF RetiredKeys, KeysOf
  <2>2. \A l \in all : Items[m][l].op = "put" => Items[m][l].key # k
    BY DEF RetiredKeys, KeysOf
  <2> QED
    BY <1>2, <1>3, <1>5, <2>1, <2>2 DEF Done
<1> QED
  BY <1>4, <1>5

\* What a commit shows readers: its own versions, and the end of those it closed.
LEMMA SealShows ==
  ASSUME IInv, NEW m \in Merges, Seal(m), NEW k \in Keys
  PROVE  /\ CommittedVersion'[m][k] = closer[m][k]
         /\ \A n \in Merges \ {m} :
              /\ CommittedVersion'[n][k] = IF closer[n][k] = m THEN m ELSE CommittedVersion[n][k]
              /\ closer[n][k] = m => CommittedVersion[n][k] = Live
<1> USE DEF IInv
<1>0. Live # Absent /\ Live \notin Merges /\ Absent \notin Merges
  BY GraphAssumption DEF Live, Absent
<1>1. /\ closer' = closer /\ ~ IsMerged(m) /\ IsMerged(m)'
      /\ \A n \in Merges \ {m} : IsMerged(n)' <=> IsMerged(n)
  BY StageEffect DEF Seal, Others, IsMerged
<1>2. closer[m][k] \notin Merges
  BY <1>1 DEF Written
<1>3. CommittedVersion'[m][k] = closer[m][k]
  BY <1>1, <1>2 DEF CommittedVersion
<1>4. ASSUME NEW n \in Merges \ {m}
      PROVE  /\ CommittedVersion'[n][k] = IF closer[n][k] = m THEN m ELSE CommittedVersion[n][k]
             /\ closer[n][k] = m => CommittedVersion[n][k] = Live
  <2>1. CASE closer[n][k] = m
    <3>1. IsMerged(n) /\ IsMerged(n)'
      BY <1>1, <2>1 DEF Written
    <3> QED
      BY <1>1, <2>1, <3>1 DEF CommittedVersion
  <2>2. CASE closer[n][k] # m
    <3>1. closer'[n][k] = closer[n][k] /\ (IsMerged(n)' <=> IsMerged(n))
      BY <1>1
    <3>2. closer[n][k] \in Merges => (IsMerged(closer[n][k])' <=> IsMerged(closer[n][k]))
      BY <1>1, <2>2
    <3> QED
      BY <2>2, <3>1, <3>2 DEF CommittedVersion
  <2> QED
    BY <2>1, <2>2
<1> QED
  BY <1>3, <1>4

\* A commit is the promised merge; it misses the keys it retires of which another's version
\* stays live.
LEMMA SealMaps ==
  ASSUME IInv, Stamps, Lands, OwnKeys, NEW m \in Merges, Seal(m)
  PROVE  Promise!Merge(m)
<1> USE DEF IInv
<1> DEFINE V == CommittedVersion
           missed == {k \in RetiredKeys[m] : \E n \in Merges : V[n][k] = Live /\ closer[n][k] # m}
<1>0. Live # Absent /\ Live \notin Merges /\ Absent \notin Merges
  BY GraphAssumption DEF Live, Absent
<1>1. /\ merge[m].at = "see" /\ merge'[m].at = "merged" /\ Others(m)
      /\ closer' = closer /\ merge'[m].sealed = clock
  BY StageEffect, StampEffect DEF Seal
<1>2. /\ ~ IsMerged(m) /\ IsMerged(m)' /\ IsRunning(m) /\ ~ IsRunning(m)'
      /\ \A n \in Merges \ {m} : merge'[n] = merge[n]
  BY <1>1 DEF IsMerged, IsRunning, Running, Others
<1>3. \A n \in Merges, k \in Keys : V[n][k] = Live /\ closer[n][k] # m => LiveTo(m, n, k)
  BY <1>0, <1>2 DEF CommittedVersion, LiveTo
<1>4. \A n \in Merges, k \in Keys : V[n][k] = Live => IsMerged(n)
  BY <1>0 DEF CommittedVersion
<1>5. PutKeys[m] \cup RetiredKeys[m] = KeysOf(m, "put") \cup KeysOf(m, "retire")
  BY DEF PutKeys, RetiredKeys
<1>6. missed \in SUBSET {k \in RetiredKeys[m] : Promise!MayMiss(m, k)}
  <2> SUFFICES ASSUME NEW k \in missed PROVE Promise!MayMiss(m, k)
    OBVIOUS
  <2>1. k \in RetiredKeys[m] /\ k \in Keys
    <3>1. \A j \in DOMAIN Items[m] : Items[m][j].key \in Keys
      BY ItemsLen, ItemKeys
    <3> QED
      BY <3>1 DEF RetiredKeys, KeysOf
  <2>2. PICK x \in Merges : V[x][k] = Live /\ closer[x][k] # m
    OBVIOUS
  <2>3. IsMerged(x) /\ Since(m, x)
    BY <1>3, <1>4, <2>1, <2>2, AllDone
  <2>4. \A n \in Merges : V[n][k] = Live => n = x
    BY <2>1, <2>2, OneLive
  <2>5. x \notin CommittedBefore[m] /\ MergeStage[x] = "merged"
    <3>1. ~ (merge[x].sealed < merge[m].start)
      BY <2>3, StampSorts DEF Since
    <3> QED
      BY <2>3, <3>1 DEF CommittedBefore, MergeStage
  <2> QED
    BY <2>4, <2>5 DEF Promise!MayMiss
<1>7. ASSUME NEW n \in Merges \ {m}, NEW k \in Keys
      PROVE  closer[n][k] = m <=> V[n][k] = Live /\ k \in (PutKeys[m] \cup RetiredKeys[m]) \ missed
  <2>1. ASSUME closer[n][k] = m
        PROVE  V[n][k] = Live /\ k \in (PutKeys[m] \cup RetiredKeys[m]) \ missed
    <3>1. V[n][k] = Live
      BY <2>1, SealShows
    <3>2. k \in PutKeys[m] \cup RetiredKeys[m]
      BY <1>5, <2>1 DEF OwnKeys
    <3>3. k \notin missed
      BY <2>1, <3>1, OneLive
    <3> QED
      BY <3>1, <3>2, <3>3
  <2>2. ASSUME V[n][k] = Live, k \in PutKeys[m] PROVE closer[n][k] = m
    <3>1. LiveTo(m, m, k)
      BY <2>2, AllDone DEF LiveTo
    <3> QED
      BY <1>3, <2>2, <3>1 DEF Views
  <2>3. ASSUME V[n][k] = Live, k \in RetiredKeys[m] \ missed PROVE closer[n][k] = m
    BY <2>3
  <2> QED
    BY <2>1, <2>2, <2>3
<1>8. CommittedVersion' =
        [n \in Merges |-> [k \in Keys |->
           IF n = m THEN IF k \in PutKeys[m] THEN Live ELSE Absent
           ELSE IF V[n][k] = Live /\ k \in (PutKeys[m] \cup RetiredKeys[m]) \ missed THEN m
           ELSE V[n][k]]]
  <2>1. ASSUME NEW n \in Merges, NEW k \in Keys
        PROVE  CommittedVersion'[n][k] =
                 IF n = m THEN IF k \in PutKeys[m] THEN Live ELSE Absent
                 ELSE IF V[n][k] = Live /\ k \in (PutKeys[m] \cup RetiredKeys[m]) \ missed THEN m
                 ELSE V[n][k]
    <3>1. CASE n = m
      <4>1. CommittedVersion'[m][k] = closer[m][k]
        BY SealShows
      <4>2. k \in PutKeys[m] => closer[m][k] = Live
        BY AllDone
      <4>3. k \notin PutKeys[m] => closer[m][k] = Absent
        BY DEF OwnKeys, PutKeys
      <4> QED
        BY <3>1, <4>1, <4>2, <4>3
    <3>2. CASE n # m
      <4>1. CommittedVersion'[n][k] = IF closer[n][k] = m THEN m ELSE CommittedVersion[n][k]
        BY <3>2, SealShows
      <4> HIDE DEF missed
      <4> QED
        BY <1>7, <3>2, <4>1
    <3> QED
      BY <3>1, <3>2
  <2>2. CommittedVersion' = [n \in Merges |-> [k \in Keys |-> CommittedVersion'[n][k]]]
    BY DEF CommittedVersion
  <2> HIDE DEF missed, V
  <2> QED
    BY <2>1, <2>2
<1>9. MergeStage[m] = "underway" /\ MergeStage' = [MergeStage EXCEPT ![m] = "merged"]
  <2>1. MergeStage[m] = "underway" /\ MergeStage'[m] = "merged"
    BY <1>2 DEF MergeStage
  <2>2. \A x \in Merges \ {m} : MergeStage'[x] = MergeStage[x]
    BY <1>2 DEF MergeStage, IsMerged, IsRunning
  <2>3. MergeStage = [x \in Merges |-> MergeStage[x]] /\ MergeStage' = [x \in Merges |-> MergeStage'[x]]
    BY DEF MergeStage
  <2> QED
    BY <2>1, <2>2, <2>3, OneValue
<1>10. CommittedBefore' = [CommittedBefore EXCEPT ![m] = {}]
  <2>1. CommittedBefore'[m] = {}
    BY <1>2 DEF CommittedBefore
  <2>2. \A x \in Merges \ {m} : CommittedBefore'[x] = CommittedBefore[x]
    <3>1. \A x \in Merges \ {m} : IsRunning(x)' <=> IsRunning(x)
      BY <1>2 DEF IsRunning
    <3>2. \A x \in Merges \ {m} : ~ (merge'[m].sealed < merge'[x].start)
      BY <1>1, <1>2, StampSorts DEF Stamps
    <3>3. \A x \in Merges \ {m} :
            {n \in Merges : IsMerged(n)' /\ merge'[n].sealed < merge'[x].start}
              = {n \in Merges : IsMerged(n) /\ merge[n].sealed < merge[x].start}
      BY <1>2, <3>2 DEF IsMerged
    <3> QED
      BY <3>1, <3>3 DEF CommittedBefore
  <2>3. /\ CommittedBefore = [x \in Merges |-> CommittedBefore[x]]
        /\ CommittedBefore' = [x \in Merges |-> CommittedBefore'[x]]
    BY DEF CommittedBefore
  <2> QED
    BY <2>1, <2>2, <2>3, OneValue
<1> HIDE DEF missed
<1> QED
  BY <1>6, <1>8, <1>9, <1>10 DEF Promise!Merge

\* An empty graph is where the promise starts.
LEMMA PromiseInit == Init => Promise!Init
<1> SUFFICES ASSUME Init PROVE Promise!Init
  OBVIOUS
<1>1. \A m \in Merges : ~ IsMerged(m) /\ ~ IsRunning(m)
  BY DEF Init, Idle, IsMerged, IsRunning, Running
<1> QED
  BY <1>1 DEF Promise!Init, MergeStage, CommittedBefore, CommittedVersion

\* Every step of the merges is a step of the promise, or none.
LEMMA PromiseStep ==
  IInv /\ Stamps /\ Lands /\ OwnKeys /\ [Next]_vars => [Promise!Next]_(Promise!vars)
<1> SUFFICES ASSUME IInv, Stamps, Lands, OwnKeys, [Next]_vars
             PROVE  Promise!Next \/ UNCHANGED Promise!vars
  OBVIOUS
<1>1. ASSUME NEW m \in Merges, Begin(m) \/ Seal(m) \/ RollBack(m)
      PROVE  Promise!Next
  <2>1. Promise!Begin(m) \/ Promise!Merge(m) \/ Promise!Fail(m)
    BY <1>1, BeginMaps, SealMaps, RollBackMaps
  <2> QED
    BY <2>1 DEF Promise!Next
<1>2. CASE \/ \E m \in Merges : InsertCommit(m) \/ See(m) \/ Close(m) \/ Insert(m)
           \/ \E w \in Workflows : Draft(w) \/ Publish(w) \/ PublishCommit(w) \/ Triage(w)
           \/ UNCHANGED vars
  BY <1>2, HiddenSteps
<1> QED
  BY <1>1, <1>2 DEF Next

\* For any number of merges, of any items, on any keys: to readers of the graph merges that
\* interleave statement by statement, wait for each other, fail and roll back are merges done
\* in one step each, and the only thing one can miss is a version committed since it began
\* (002:4-16, 005:46-75).
THEOREM HistoryKept == Spec => KeepsHistory
<1>1. Init => OwnKeys
  BY GraphAssumption DEF Init, OwnKeys
<1>2. Spec => []OwnKeys
  BY <1>1, OwnKeysStep, LandsAlways, GraphInductive, PTL DEF Spec
<1> QED
  BY <1>2, PromiseInit, PromiseStep, LandsAlways, GraphInductive, StampsAlways, PTL
  DEF Spec, KeepsHistory, Promise!Spec
=============================================================================
