----------------------------- MODULE SorIngest -----------------------------
(***************************************************************************)
(* Ingestion from one customer system of record: fde_sor.observations      *)
(* (ingest, _flush) with the three kinds of live adapter, the SQS Lambda   *)
(* and the backfill.  A batch and the adapter's cursor commit together;    *)
(* what the source is told (the slot's position, the deleted messages)     *)
(* comes after, in a step of its own.  Runs overlap and die anywhere.      *)
(*                                                                         *)
(* Records are numbered in the order the source produced them.  Stamp is   *)
(* the position a record is fetched by: the LSN of its transaction, shared *)
(* by the transaction's rows, or its updated-at timestamp: a later record  *)
(* has no lower one.                                                       *)
(***************************************************************************)
EXTENDS Integers, FiniteSets

CONSTANTS
  IngestRuns,
  NRecords,
  Stamp,
  Grade,          \* "good", "malformed" (RecordError), "undecodable" (SQS only)
  BatchSize,
  MaxIngestCrashes      \* bound on the runs that die

Records == 1..NRecords
Stamps  == {Stamp[r] : r \in Records} \cup {0}

ASSUME SorOK ==
  /\ NRecords \in Nat /\ BatchSize \in Nat \ {0} /\ MaxIngestCrashes \in Nat
  /\ Stamp \in [Records -> Nat \ {0}]
  /\ \A r \in Records, s \in Records : r <= s => Stamp[r] <= Stamp[s]
  /\ Grade \in [Records -> {"good", "malformed", "undecodable"}]

VARIABLES
  sorKind,        \* the adapter's kind
  emitted,        \* the records the source has produced
  stored,         \* sor.observation: at most one row per dedup_key
  lastCursor,     \* sor.adapter.last_cursor, of a rest_poll adapter
  slot,           \* the position of the replication slot, of a db_cdc adapter
  queue,          \* the messages of the queue, of an event_stream adapter
  ingesting,      \* the runs
  jumped,         \* history: records a run had still to read when it committed past them
  ingestCrashes

sorVars == <<sorKind, emitted, stored, lastCursor, slot, queue, ingesting, jumped, ingestCrashes>>

IdleRun == [at |-> "idle", replay |-> FALSE, unread |-> {}, batch |-> {}, cursor |-> 0,
            mark |-> 0, receipts |-> {}]
RunRecords ==
  [at : {"idle", "reading", "ack"}, replay : BOOLEAN, unread : SUBSET Records,
   batch : SUBSET Records, cursor : Stamps, mark : Stamps, receipts : SUBSET Records]

SorTypeOK ==
  /\ sorKind \in {"db_cdc", "rest_poll", "event_stream"}
  /\ emitted \subseteq Records /\ stored \subseteq emitted
  /\ queue \subseteq emitted /\ jumped \subseteq emitted
  /\ lastCursor \in Stamps /\ slot \in Stamps
  /\ ingesting \in [IngestRuns -> RunRecords]
  /\ ingestCrashes \in 0..MaxIngestCrashes

SorInit ==
  /\ sorKind \in {"db_cdc", "rest_poll", "event_stream"}
  /\ emitted = {} /\ stored = {} /\ queue = {} /\ jumped = {}
  /\ lastCursor = 0 /\ slot = 0
  /\ ingesting = [p \in IngestRuns |-> IdleRun]
  /\ ingestCrashes = 0

Good(R) == {r \in R : Grade[r] = "good"}

-----------------------------------------------------------------------------
\* The source commits its next transaction, or publishes its next record.
Emit ==
  /\ emitted # Records
  /\ \E r \in Records \ emitted :
       /\ \A s \in Records \ emitted : r <= s
       /\ LET new == IF sorKind = "db_cdc" THEN {s \in Records : Stamp[s] = Stamp[r]} ELSE {r}
          IN emitted' = emitted \cup new /\ queue' = queue \cup new
  /\ UNCHANGED <<sorKind, stored, lastCursor, slot, ingesting, jumped, ingestCrashes>>

\* Variant: the poll asks for what is newer than the cursor.
FetchNewer ==
  CASE sorKind = "db_cdc"    -> {r \in emitted : Stamp[r] > slot}
    [] sorKind = "rest_poll" -> {r \in emitted : Stamp[r] > lastCursor}
    [] OTHER                 -> queue

\* What the source hands out: the changes the slot still holds, what changed at or after
\* the cursor, the messages of the queue.
Fetch ==
  CASE sorKind = "db_cdc"    -> {r \in emitted : Stamp[r] > slot}
    [] sorKind = "rest_poll" -> {r \in emitted : Stamp[r] >= lastCursor}
    [] OTHER                 -> queue

\* A poll starts; or a backfill, which reads an export of the same records.
StartIngest(p) ==
  /\ ingesting[p].at = "idle"
  /\ \E replay \in BOOLEAN :
       ingesting' = [ingesting EXCEPT ![p] =
         [at |-> "reading", replay |-> replay, unread |-> IF replay THEN emitted ELSE Fetch,
          batch |-> {}, cursor |-> 0, mark |-> 0, receipts |-> {}]]
  /\ UNCHANGED <<sorKind, emitted, stored, lastCursor, slot, queue, jumped, ingestCrashes>>

\* The cursor a record brings: a poll's is the highest stamp seen so far in the run.
Later(x, y) == IF x > y THEN x ELSE y

\* One record.  The slot replays in commit order; an API or a queue in any order.  One that
\* does not normalise is noted and leaves the batch and its cursor alone, but its receipt
\* is pending all the same; an undecodable message is never acknowledged.
ReadRecord(p) ==
  LET me == ingesting[p] IN
  /\ me.at = "reading" /\ Cardinality(me.batch) < BatchSize
  /\ \E r \in me.unread :
       /\ sorKind = "db_cdc" => \A s \in me.unread : r <= s
       /\ LET mark == Later(me.mark, Stamp[r]) IN
          ingesting' = [ingesting EXCEPT ![p] =
            [at |-> "reading", replay |-> me.replay, unread |-> me.unread \ {r},
             batch |-> me.batch \cup Good({r}),
             cursor |-> IF Grade[r] # "good" THEN me.cursor
                        ELSE IF sorKind = "rest_poll" THEN mark ELSE Stamp[r],
             mark |-> mark,
             receipts |-> IF sorKind = "event_stream" /\ Grade[r] # "undecodable"
                          THEN me.receipts \cup {r} ELSE me.receipts]]
  /\ UNCHANGED <<sorKind, emitted, stored, lastCursor, slot, queue, jumped, ingestCrashes>>

\* advance_cursor: a backfill leaves the live cursor alone.
Advances(me) == sorKind = "rest_poll" /\ ~me.replay

\* _flush: the rows the dedup index does not have yet, and the cursor, together.
Flush(p) ==
  LET me == ingesting[p] IN
  /\ me.at = "reading" /\ me.batch # {}
  /\ Cardinality(me.batch) = BatchSize \/ me.unread = {}
  /\ stored' = stored \cup me.batch
  /\ lastCursor' = IF Advances(me) THEN me.cursor ELSE lastCursor
  /\ jumped' = IF me.replay \/ sorKind = "event_stream" THEN jumped
               ELSE jumped \cup {r \in me.unread : Stamp[r] <= me.cursor}
  /\ ingesting' = [ingesting EXCEPT ![p] =
       [at |-> IF sorKind = "rest_poll" \/ me.replay THEN "reading" ELSE "ack",
        replay |-> me.replay, unread |-> me.unread, batch |-> {}, cursor |-> me.cursor,
        mark |-> me.mark, receipts |-> me.receipts]]
  /\ UNCHANGED <<sorKind, emitted, slot, queue, ingestCrashes>>

\* Variant: the messages are deleted as they are read, not once they are committed.
AckBeforeFlush(p) ==
  LET me == ingesting[p] IN
  /\ me.at \in {"reading", "ack"} /\ ~me.replay /\ sorKind = "event_stream"
  /\ queue' = queue \ me.receipts /\ slot' = slot
  /\ ingesting' = [ingesting EXCEPT ![p] =
       [at |-> "reading", replay |-> me.replay, unread |-> me.unread, batch |-> me.batch,
        cursor |-> me.cursor, mark |-> me.mark, receipts |-> {}]]
  /\ UNCHANGED <<sorKind, emitted, stored, lastCursor, jumped, ingestCrashes>>

\* on_batch_committed: the slot moves to the batch's cursor (a failure is only logged), or
\* the messages received so far are deleted.
Acknowledge(p) ==
  LET me == ingesting[p] IN
  /\ me.at = "ack"
  /\ \/ sorKind = "db_cdc" /\ slot' = Later(slot, me.cursor) /\ queue' = queue
     \/ sorKind = "db_cdc" /\ UNCHANGED <<slot, queue>>
     \/ sorKind = "event_stream" /\ queue' = queue \ me.receipts /\ slot' = slot
  /\ ingesting' = [ingesting EXCEPT ![p] =
       [at |-> "reading", replay |-> me.replay, unread |-> me.unread, batch |-> me.batch,
        cursor |-> me.cursor, mark |-> me.mark, receipts |-> {}]]
  /\ UNCHANGED <<sorKind, emitted, stored, lastCursor, jumped, ingestCrashes>>

FinishIngest(p) ==
  /\ ingesting[p].at = "reading" /\ ingesting[p].unread = {} /\ ingesting[p].batch = {}
  /\ ingesting' = [ingesting EXCEPT ![p] = IdleRun]
  /\ UNCHANGED <<sorKind, emitted, stored, lastCursor, slot, queue, jumped, ingestCrashes>>

\* A run dies: a crash, a failing page, a failing insert.
CrashIngest(p) ==
  /\ ingesting[p].at # "idle" /\ ingestCrashes < MaxIngestCrashes
  /\ ingestCrashes' = ingestCrashes + 1
  /\ ingesting' = [ingesting EXCEPT ![p] = IdleRun]
  /\ UNCHANGED <<sorKind, emitted, stored, lastCursor, slot, queue, jumped>>

\* consume_sqs_batch: what is not stored, or not normalised, is reported and redelivered;
\* a Lambda that dies or fails part-way reports everything.
ConsumeSqsBatch ==
  /\ sorKind = "event_stream"
  /\ \E M \in SUBSET queue :
       \/ stored' = stored \cup Good(M) /\ queue' = queue \ Good(M)
       \/ stored' = stored \cup Good(M) /\ queue' = queue
  /\ UNCHANGED <<sorKind, emitted, lastCursor, slot, ingesting, jumped, ingestCrashes>>

IngestStep(p) == ReadRecord(p) \/ Flush(p) \/ Acknowledge(p) \/ FinishIngest(p)

SorNext ==
  \/ Emit \/ ConsumeSqsBatch
  \/ \E p \in IngestRuns : StartIngest(p) \/ IngestStep(p) \/ CrashIngest(p)

SorSpec == SorInit /\ [][SorNext]_sorVars

-----------------------------------------------------------------------------
(* Properties.                                                             *)

\* At least once: whatever run dies, overlaps another or is a backfill, a record is stored
\* or can be fetched again, unless a run committed past it before reading it: a batch that
\* ends inside a transaction (every row of one has its LSN), or an API that serves the
\* newest first.  A message nobody can decode is never deleted.
NothingLost == \A r \in emitted :
  /\ Grade[r] = "good" => r \in stored \/ r \in Fetch \/ r \in jumped
  /\ Grade[r] = "undecodable" /\ sorKind = "event_stream" => r \in queue

\* The polls catch up: what the source produced and no run jumped is stored in the end,
\* malformed records in front of it notwithstanding.
Ingested == []<>(Good(emitted) \subseteq stored \cup jumped)
=============================================================================
