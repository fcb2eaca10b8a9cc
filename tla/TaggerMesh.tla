----------------------------- MODULE TaggerMesh -----------------------------
(***************************************************************************)
(* One tagger-cluster job: run_tagger_cluster hands the files to           *)
(* work_steal, whose workers (one per peer) take batches off a shared      *)
(* queue, tag them file by file and save a batch's tags in one             *)
(* transaction.  A worker that panics is not noticed by work_steal, which  *)
(* throws the JoinError away.                                              *)
(***************************************************************************)
EXTENDS Naturals, FiniteSets

CONSTANTS
    FileCount,      \* the entries iter_active_paths gives; two may name one file
    Peers,          \* one worker each
    BatchSize       \* TAGGER_BATCH_SIZE

\* A job without peers fails before it begins.
ASSUME TaggerAssumption == FileCount \in Nat /\ BatchSize \in Nat \ {0} /\ Peers # {}

VARIABLES
    handedOut,      \* how many entries have left the front of the queue
    batch,          \* per peer: the files taken and not yet looked at
    tagWrites,         \* per peer: files of the batch with tags to save
    batchStats,     \* per peer: BatchStats of the batch
    peerWorker,         \* per peer: "taking", "tagging", "reporting", "ended", "panicked"
    stats,          \* BatchStats of the job
    meshCancelled,  \* the job's cancellation token
    meshOutcome,    \* "running", "done" or "cancelled"
    fate            \* ghost: what became of each file

taggerVars == <<handedOut, batch, tagWrites, batchStats, peerWorker, stats, meshCancelled,
                meshOutcome, fate>>

Files == 1 .. FileCount
Queued == {f \in Files : f > handedOut}
NoStats == [tagged |-> 0, empty |-> 0, errors |-> 0, done |-> 0]
Fates == {"pending", "write", "saved", "unsaved", "empty", "error", "skipped"}

TaggerTypeOK ==
    /\ handedOut \in 0 .. FileCount
    /\ batch \in [Peers -> SUBSET Files] /\ tagWrites \in [Peers -> SUBSET Files]
    /\ batchStats \in [Peers -> [tagged : Nat, empty : Nat, errors : Nat, done : Nat]]
    /\ peerWorker \in [Peers -> {"taking", "tagging", "reporting", "ended", "panicked"}]
    /\ stats \in [tagged : Nat, empty : Nat, errors : Nat, done : Nat]
    /\ meshCancelled \in BOOLEAN
    /\ meshOutcome \in {"running", "done", "cancelled"}
    /\ fate \in [Files -> Fates]

TaggerInit ==
    /\ handedOut = 0
    /\ batch = [p \in Peers |-> {}] /\ tagWrites = [p \in Peers |-> {}]
    /\ batchStats = [p \in Peers |-> NoStats]
    /\ peerWorker = [p \in Peers |-> "taking"]
    /\ stats = NoStats /\ meshCancelled = FALSE /\ meshOutcome = "running"
    /\ fate = [f \in Files |-> "pending"]

-----------------------------------------------------------------------------
\* work_steal: a worker's loop.

\* Mutant: the file is read off the queue and left there.
PopWithoutRemoving(p) ==
    /\ peerWorker[p] = "taking" /\ ~meshCancelled
    /\ Queued # {} /\ Cardinality(batch[p]) < BatchSize
    /\ batch' = [batch EXCEPT ![p] = @ \cup {handedOut + 1}]
    /\ UNCHANGED <<handedOut, tagWrites, batchStats, peerWorker, stats, meshCancelled, meshOutcome, fate>>

\* The token is looked at, and the queue locked, for every file.
Pop(p) ==
    /\ peerWorker[p] = "taking" /\ ~meshCancelled
    /\ Queued # {} /\ Cardinality(batch[p]) < BatchSize
    /\ batch' = [batch EXCEPT ![p] = @ \cup {handedOut + 1}]
    /\ handedOut' = handedOut + 1
    /\ UNCHANGED <<tagWrites, batchStats, peerWorker, stats, meshCancelled, meshOutcome, fate>>

\* The batch is as large as it will be; a worker that got nothing ends.
StopTaking(p) ==
    /\ peerWorker[p] = "taking"
    /\ meshCancelled \/ Queued = {} \/ Cardinality(batch[p]) = BatchSize
    /\ peerWorker' = [peerWorker EXCEPT ![p] = IF batch[p] = {} THEN "ended" ELSE "tagging"]
    /\ UNCHANGED <<handedOut, batch, tagWrites, batchStats, stats, meshCancelled, meshOutcome, fate>>

-----------------------------------------------------------------------------
\* run_tagger_batch_worker.

Counted(s, field, n) == [s EXCEPT ![field] = @ + n, !.done = @ + n]

\* A peer answers for one file: tags to save, none above the threshold, or an
\* error (the peer's, or an answer that is not a list of tags).
TagFile(p) ==
    /\ peerWorker[p] = "tagging" /\ ~meshCancelled
    /\ \E f \in batch[p], outcome \in {"write", "empty", "error"} :
          /\ batch' = [batch EXCEPT ![p] = @ \ {f}]
          /\ fate' = [fate EXCEPT ![f] = outcome]
          /\ tagWrites' = IF outcome = "write" THEN [tagWrites EXCEPT ![p] = @ \cup {f}] ELSE tagWrites
          /\ batchStats' = [batchStats EXCEPT ![p] =
                CASE outcome = "empty" -> Counted(@, "empty", 1)
                  [] outcome = "error" -> Counted(@, "errors", 1)
                  [] OTHER -> @]
    /\ UNCHANGED <<handedOut, peerWorker, stats, meshCancelled, meshOutcome>>

\* Cancelled: the rest of the batch is left, what was tagged is still saved.
SkipRest(p) ==
    /\ peerWorker[p] = "tagging" /\ meshCancelled /\ batch[p] # {}
    /\ fate' = [f \in Files |-> IF f \in batch[p] THEN "skipped" ELSE fate[f]]
    /\ batch' = [batch EXCEPT ![p] = {}]
    /\ UNCHANGED <<handedOut, tagWrites, batchStats, peerWorker, stats, meshCancelled, meshOutcome>>

\* Mutant: the files of a failed transaction are not counted.
SaveUncounted(p) ==
    /\ peerWorker[p] = "tagging" /\ batch[p] = {}
    /\ \E saved \in BOOLEAN :
          /\ batchStats' = IF saved THEN [batchStats EXCEPT ![p] =
                                             Counted(@, "tagged", Cardinality(tagWrites[p]))]
                           ELSE batchStats
          /\ fate' = [f \in Files |-> IF f \notin tagWrites[p] THEN fate[f]
                                      ELSE IF saved THEN "saved" ELSE "unsaved"]
    /\ tagWrites' = [tagWrites EXCEPT ![p] = {}]
    /\ peerWorker' = [peerWorker EXCEPT ![p] = "reporting"]
    /\ UNCHANGED <<handedOut, batch, stats, meshCancelled, meshOutcome>>

\* save_tagger_tags_batch is one transaction: all of the writes or none.
Save(p) ==
    /\ peerWorker[p] = "tagging" /\ batch[p] = {}
    /\ \E saved \in BOOLEAN :
          /\ batchStats' = [batchStats EXCEPT ![p] =
                Counted(@, IF saved THEN "tagged" ELSE "errors", Cardinality(tagWrites[p]))]
          /\ fate' = [f \in Files |-> IF f \notin tagWrites[p] THEN fate[f]
                                      ELSE IF saved THEN "saved" ELSE "unsaved"]
    /\ tagWrites' = [tagWrites EXCEPT ![p] = {}]
    /\ peerWorker' = [peerWorker EXCEPT ![p] = "reporting"]
    /\ UNCHANGED <<handedOut, batch, stats, meshCancelled, meshOutcome>>

\* The batch's statistics are added under the lock, and shown as progress.
Report(p) ==
    /\ peerWorker[p] = "reporting"
    /\ stats' = [field \in DOMAIN stats |-> stats[field] + batchStats[p][field]]
    /\ batchStats' = [batchStats EXCEPT ![p] = NoStats]
    /\ peerWorker' = [peerWorker EXCEPT ![p] = "taking"]
    /\ UNCHANGED <<handedOut, batch, tagWrites, meshCancelled, meshOutcome, fate>>

\* What tags a file panics: the worker is gone, with its batch.
PanicInBatch(p) ==
    /\ peerWorker[p] = "tagging" /\ batch[p] # {}
    /\ peerWorker' = [peerWorker EXCEPT ![p] = "panicked"]
    /\ UNCHANGED <<handedOut, batch, tagWrites, batchStats, stats, meshCancelled, meshOutcome, fate>>

-----------------------------------------------------------------------------
\* The handler that cancels, and the end of the job.

CancelMesh ==
    /\ meshOutcome = "running" /\ meshCancelled' = TRUE
    /\ UNCHANGED <<handedOut, batch, tagWrites, batchStats, peerWorker, stats, meshOutcome, fate>>

\* work_steal joins every worker, however it ended.
FinishMesh ==
    /\ meshOutcome = "running" /\ \A p \in Peers : peerWorker[p] \in {"ended", "panicked"}
    /\ meshOutcome' = IF meshCancelled THEN "cancelled" ELSE "done"
    /\ UNCHANGED <<handedOut, batch, tagWrites, batchStats, peerWorker, stats, meshCancelled, fate>>

PeerStep(p) ==
    \/ Pop(p) \/ StopTaking(p)
    \/ TagFile(p) \/ SkipRest(p) \/ Save(p) \/ Report(p)

TaggerNext ==
    \/ \E p \in Peers : PeerStep(p) \/ PanicInBatch(p)
    \/ CancelMesh \/ FinishMesh

TaggerSpec == TaggerInit /\ [][TaggerNext]_taggerVars

\* The runtime polls every worker, and a peer's call has a timeout.
TaggerFair ==
    /\ \A p \in Peers : WF_taggerVars(PeerStep(p))
    /\ WF_taggerVars(FinishMesh)

-----------------------------------------------------------------------------
\* Properties.

WithFate(fates) == {f \in Files : fate[f] \in fates}

\* An entry is handed out once, whichever workers steal from one another: it is
\* in at most one batch, and there neither queued nor looked at already
\* (every_item_is_handled_once_across_multiple_batches, work_steal.rs:88).
HandedOutOnce ==
    /\ \A p, q \in Peers : p # q => batch[p] \cap batch[q] = {} /\ tagWrites[p] \cap tagWrites[q] = {}
    /\ \A p \in Peers : /\ batch[p] \cap Queued = {}
                        /\ batch[p] \subseteq WithFate({"pending"})
                        /\ tagWrites[p] \subseteq WithFate({"write"})
    /\ Queued \subseteq WithFate({"pending"})

\* When the job ends, its result counts as tagged exactly the files whose tags
\* are in the database, whatever was cancelled, failed to save or panicked; and
\* unless a worker panicked it accounts for every file: one is tagged, empty, an
\* error, or was left because of the cancellation.
ResultIsExact ==
    meshOutcome # "running" =>
        /\ stats.tagged = Cardinality(WithFate({"saved"}))
        /\ stats.done = stats.tagged + stats.empty + stats.errors
        /\ (\A p \in Peers : peerWorker[p] = "ended") =>
              /\ stats.empty = Cardinality(WithFate({"empty"}))
              /\ stats.errors = Cardinality(WithFate({"error", "unsaved"}))
              /\ meshOutcome = "done" => stats.done = FileCount

\* A job that has begun ends, although workers may panic and peers fail.
MeshEnds ==
    (handedOut > 0 \/ \E p \in Peers : peerWorker[p] # "taking") ~> meshOutcome # "running"
=============================================================================
