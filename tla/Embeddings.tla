----------------------------- MODULE Embeddings -----------------------------
(***************************************************************************)
(* The embedding backlog and its workers (fde_mcp.embedder_worker) beside  *)
(* the merges that close what they embed.  A claim is a transaction of its *)
(* own whose claimed_at nobody reads, so two workers may hold one item; an *)
(* item is loaded, sent to the embedding model and written in another      *)
(* transaction.  A merge's closing UPDATE and its trigger run in the       *)
(* middle of the merge, and others see the closed version only once it has *)
(* committed: until then a worker loads the version as open.               *)
(***************************************************************************)
EXTENDS Integers, FiniteSets

CONSTANTS
  Subjects,       \* the node and edge versions
  Ends,           \* the endpoints of an edge version; of a node version, none
  Embedders, NoSubject,
  ClaimLimit,     \* settings.embedder.batch_size
  MaxEmbedTries,  \* settings.embedder.max_attempts
  MaxEmbedCrashes \* bound on the workers that die

ASSUME EmbOK ==
  /\ NoSubject \notin Subjects /\ IsFiniteSet(Subjects) /\ IsFiniteSet(Embedders)
  /\ Ends \in [Subjects -> SUBSET Subjects]
  /\ ClaimLimit \in Nat \ {0} /\ MaxEmbedTries \in Nat \ {0} /\ MaxEmbedCrashes \in Nat

VARIABLES
  version,        \* the life of each version: what valid_to and tx_to say, as committed
  closing,        \* of a version that a merge under way has closed: did its trigger find an
                  \* embedding to correct (and hold its row since)
  tries,          \* kg.embed_queue.attempts
  completed,      \* the items with a completed_at
  embedding,      \* kg.node_embedding, kg.edge_embedding: "current" is is_current
  embedder,       \* the batch of each worker, the item in hand, is_current as loaded
  racedClose,     \* history: versions that a worker had loaded as open when a merge closed
                  \* them, or loads so before the merge has committed
  embedCrashes

embVars == <<version, closing, tries, completed, embedding, embedder, racedClose, embedCrashes>>

Resting == [batch |-> {}, item |-> NoSubject, seen |-> FALSE]

EmbTypeOK ==
  /\ version \in [Subjects -> {"absent", "open", "superseded", "retired"}]
  /\ closing \in [Subjects -> {"no", "uncorrected", "corrected"}]
  /\ tries \in [Subjects -> Nat]
  /\ completed \subseteq Subjects /\ racedClose \subseteq Subjects
  /\ embedding \in [Subjects -> {"none", "current", "past"}]
  /\ embedder \in [Embedders -> [batch : SUBSET Subjects, item : Subjects \cup {NoSubject},
                                 seen : BOOLEAN]]
  /\ embedCrashes \in Nat

EmbInit ==
  /\ version = [s \in Subjects |-> "absent"]
  /\ closing = [s \in Subjects |-> "no"]
  /\ tries = [s \in Subjects |-> 0]
  /\ completed = {} /\ racedClose = {}
  /\ embedding = [s \in Subjects |-> "none"]
  /\ embedder = [w \in Embedders |-> Resting]
  /\ embedCrashes = 0

-----------------------------------------------------------------------------
(* The merges.                                                             *)

\* A version is written and enqueued; nothing checks the endpoints of an edge.
Enqueue(s) ==
  /\ version[s] = "absent"
  /\ version' = [version EXCEPT ![s] = "open"]
  /\ UNCHANGED <<closing, tries, completed, embedding, embedder, racedClose, embedCrashes>>

Held(s) == {w \in Embedders : embedder[w].item = s}

\* A merge closes it: the UPDATE, which waits for another merge's, and its trigger
\* (kg.sync_embedding_currency), which corrects the embedding that is committed by then.
CloseBegin(s) ==
  /\ version[s] = "open" /\ closing[s] = "no"
  /\ closing' = [closing EXCEPT ![s] =
       IF embedding[s] = "current" THEN "corrected" ELSE "uncorrected"]
  /\ racedClose' = IF Held(s) # {} THEN racedClose \cup {s} ELSE racedClose
  /\ UNCHANGED <<version, tries, completed, embedding, embedder, embedCrashes>>

\* The merge commits: everybody sees the version closed, with or without a successor, and
\* the correction.
CloseCommit(s) ==
  /\ closing[s] # "no"
  /\ closing' = [closing EXCEPT ![s] = "no"]
  /\ \E end \in {"superseded", "retired"} : version' = [version EXCEPT ![s] = end]
  /\ embedding' = [embedding EXCEPT ![s] = IF closing[s] = "corrected" THEN "past" ELSE @]
  /\ UNCHANGED <<tries, completed, embedder, racedClose, embedCrashes>>

\* It is rolled back: the version was never closed.
CloseAbort(s) ==
  /\ closing[s] # "no"
  /\ closing' = [closing EXCEPT ![s] = "no"]
  /\ racedClose' = racedClose \ {s}
  /\ UNCHANGED <<version, tries, completed, embedding, embedder, embedCrashes>>

-----------------------------------------------------------------------------
(* A worker.                                                               *)

\* Variant: a row that failed is never offered again.
PendingOnce == {s \in Subjects : version[s] # "absent" /\ s \notin completed /\ tries[s] < 1}

\* Variant: one attempt too many.
PendingOneMore == {s \in Subjects :
  version[s] # "absent" /\ s \notin completed /\ tries[s] <= MaxEmbedTries}

Pending == {s \in Subjects :
  version[s] # "absent" /\ s \notin completed /\ tries[s] < MaxEmbedTries}

\* _claim_batch.
Claim(w) ==
  /\ embedder[w] = Resting /\ Pending # {}
  /\ \E B \in SUBSET Pending :
       /\ Cardinality(B) = ClaimLimit \/ (B = Pending /\ Cardinality(B) < ClaimLimit)
       /\ embedder' = [embedder EXCEPT ![w].batch = B]
  /\ UNCHANGED <<version, closing, tries, completed, embedding, racedClose, embedCrashes>>

\* The endpoints' keys are in kg.node_current: as this version, or as its successor.
Loadable(s) == \A n \in Ends[s] : version[n] \in {"open", "superseded"}

Drops(w, s) == embedder' = [embedder EXCEPT ![w] =
  [batch |-> embedder[w].batch \ {s}, item |-> NoSubject, seen |-> FALSE]]

\* _mark_failed: one more attempt.
Fails(w, s) == tries' = [tries EXCEPT ![s] = @ + 1] /\ Drops(w, s)

\* The next item of the batch is loaded; an edge whose endpoint is not current is not found.
Load(w) ==
  /\ embedder[w].item = NoSubject
  /\ \E s \in embedder[w].batch :
       \/ /\ Loadable(s)
          /\ embedder' = [embedder EXCEPT ![w] =
               [batch |-> embedder[w].batch, item |-> s, seen |-> version[s] = "open"]]
          /\ racedClose' = IF closing[s] # "no" THEN racedClose \cup {s} ELSE racedClose
          /\ UNCHANGED tries
       \/ ~Loadable(s) /\ Fails(w, s) /\ UNCHANGED racedClose
  /\ UNCHANGED <<version, closing, completed, embedding, embedCrashes>>

\* The embedding model fails, or the write has waited for the time a statement may take.
EmbedFails(w) ==
  /\ embedder[w].item # NoSubject
  /\ Fails(w, embedder[w].item)
  /\ UNCHANGED <<version, closing, completed, embedding, racedClose, embedCrashes>>

\* Variant: every vector is written as current.
UpsertCurrent(w) ==
  /\ embedder[w].item # NoSubject /\ closing[embedder[w].item] # "corrected"
  /\ embedding' = [embedding EXCEPT ![embedder[w].item] = "current"]
  /\ completed' = completed \cup {embedder[w].item}
  /\ Drops(w, embedder[w].item)
  /\ UNCHANGED <<version, closing, tries, racedClose, embedCrashes>>

\* The vector, with is_current as the version was loaded, and completed_at, in the
\* transaction that ends here.  It waits for a merge that has corrected the same row.
Upsert(w) ==
  /\ embedder[w].item # NoSubject /\ closing[embedder[w].item] # "corrected"
  /\ embedding' = [embedding EXCEPT ![embedder[w].item] =
       IF embedder[w].seen THEN "current" ELSE "past"]
  /\ completed' = completed \cup {embedder[w].item}
  /\ Drops(w, embedder[w].item)
  /\ UNCHANGED <<version, closing, tries, racedClose, embedCrashes>>

\* The worker dies; its claim holds nothing back.
CrashEmbedder(w) ==
  /\ embedder[w] # Resting /\ embedCrashes < MaxEmbedCrashes
  /\ embedCrashes' = embedCrashes + 1
  /\ embedder' = [embedder EXCEPT ![w] = Resting]
  /\ UNCHANGED <<version, closing, tries, completed, embedding, racedClose>>

Embeds(w) == Claim(w) \/ Load(w) \/ EmbedFails(w) \/ Upsert(w)

EmbNext ==
  \/ \E s \in Subjects : Enqueue(s) \/ CloseBegin(s) \/ CloseCommit(s) \/ CloseAbort(s)
  \/ \E w \in Embedders : Embeds(w) \/ CrashEmbedder(w)

EmbSpec == EmbInit /\ [][EmbNext]_embVars

-----------------------------------------------------------------------------
(* Properties.                                                             *)

\* What the vector indexes offer as current (is_current) is an open version, unless the
\* merge that closed it met a worker: the worker had loaded it as open when the merge closed
\* it, or loaded it so before the merge committed.  Then the trigger finds no row to correct,
\* or the upsert undoes its correction, and nothing mends it later.
CurrencyHonest == \A s \in Subjects :
  embedding[s] = "current" => version[s] = "open" \/ s \in racedClose

\* The retry budget: an item is tried at most once more per further worker than
\* max_attempts allows, because every worker that claimed it before the last failure still
\* tries it.
TriesBounded == \A s \in Subjects : tries[s] < MaxEmbedTries + Cardinality(Embedders)

\* The backlog drains: what is enqueued is embedded or has used up its attempts.
Drained == []<>(\A s \in Subjects :
  version[s] # "absent" => s \in completed \/ tries[s] >= MaxEmbedTries)
=============================================================================
