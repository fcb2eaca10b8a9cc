---------------------------- MODULE BatchRunner ----------------------------
(***************************************************************************)
(* The caption and speech-to-text runners (caption_runner.rs,              *)
(* s2t_runner.rs): one batch at a time, a progress record under a mutex    *)
(* and a stop flag beside it.  The flag is not under the mutex: stop looks *)
(* at the record, lets go of it, and then stores the flag.  Only the       *)
(* caption runner has a stop endpoint.  What is done to a file, the        *)
(* numbers but for the count, and the clock are left out.                  *)
(***************************************************************************)
EXTENDS Naturals

CONSTANTS
    Batches,            \* start requests
    Stoppers,           \* stop requests
    NoBatch,
    ItemsOfBatch        \* bound: files in a batch

ASSUME BatchRunnerAssumption == NoBatch \notin Batches /\ ItemsOfBatch \in Nat

VARIABLES
    batchRunning,       \* progress.running
    counted,            \* progress.processed + progress.errors
    shownBatch,         \* history: the batch that started the record
    stopFlag,           \* stop_requested
    batchAt,            \* where each batch is
    itemsDone,          \* files its worker has counted, as processed or as errors
    stopAt,             \* where each stop request is
    stopSaw,            \* history: the batch it found running
    obeys               \* history: batches that a stop was stored for while they ran

batchVars ==
    <<batchRunning, counted, shownBatch, stopFlag, batchAt, itemsDone, stopAt, stopSaw, obeys>>

BatchTypeOK ==
    /\ batchRunning \in BOOLEAN /\ stopFlag \in BOOLEAN
    /\ counted \in 0 .. ItemsOfBatch
    /\ shownBatch \in Batches \cup {NoBatch}
    /\ batchAt \in [Batches -> {"new", "init", "next", "item", "count", "finish", "complete",
                                "done", "refused", "panicked"}]
    /\ itemsDone \in [Batches -> 0 .. ItemsOfBatch]
    /\ stopAt \in [Stoppers -> {"look", "store", "done"}]
    /\ stopSaw \in [Stoppers -> Batches \cup {NoBatch}]
    /\ obeys \subseteq Batches

BatchInit ==
    /\ batchRunning = FALSE /\ counted = 0 /\ shownBatch = NoBatch /\ stopFlag = FALSE
    /\ batchAt = [b \in Batches |-> "new"] /\ itemsDone = [b \in Batches |-> 0]
    /\ stopAt = [s \in Stoppers |-> "look"] /\ stopSaw = [s \in Stoppers |-> NoBatch]
    /\ obeys = {}

BatchGoes(b, from, to) == batchAt[b] = from /\ batchAt' = [batchAt EXCEPT ![b] = to]

\* start, one critical section, the flag included; the worker is spawned.
StartBatch(b) ==
    /\ ~batchRunning /\ BatchGoes(b, "new", "init")
    /\ batchRunning' = TRUE /\ counted' = 0 /\ shownBatch' = b /\ stopFlag' = FALSE
    /\ UNCHANGED <<itemsDone, stopAt, stopSaw, obeys>>

RefuseBatch(b) ==
    /\ batchRunning /\ BatchGoes(b, "new", "refused")
    /\ UNCHANGED <<batchRunning, counted, shownBatch, stopFlag, itemsDone, stopAt, stopSaw, obeys>>

\* Mutant: the worker clears the flag, when it gets to run.
InitClearingFlag(b) ==
    /\ \/ BatchGoes(b, "init", "next") /\ batchRunning' = TRUE /\ counted' = 0 /\ stopFlag' = FALSE
       \/ BatchGoes(b, "init", "finish") /\ UNCHANGED <<batchRunning, counted, stopFlag>>
    /\ UNCHANGED <<shownBatch, itemsDone, stopAt, stopSaw, obeys>>

\* The model and the paths are looked up: the record is reset, or the batch ends.
InitBatch(b) ==
    /\ \/ BatchGoes(b, "init", "next") /\ batchRunning' = TRUE /\ counted' = 0
       \/ BatchGoes(b, "init", "finish") /\ UNCHANGED <<batchRunning, counted>>
    /\ UNCHANGED <<shownBatch, stopFlag, itemsDone, stopAt, stopSaw, obeys>>

\* should_stop at the head of the loop, and the end of the list, which may be shorter
\* than the bound; a file listed again after it failed is passed over.
NextItem(b) ==
    /\ \/ BatchGoes(b, "next", "finish")
       \/ ~stopFlag /\ itemsDone[b] < ItemsOfBatch /\ BatchGoes(b, "next", "item")
    /\ UNCHANGED <<batchRunning, counted, shownBatch, stopFlag, itemsDone, stopAt, stopSaw, obeys>>

\* The file is read, described and stored: awaits that may take minutes.  The caption
\* runner reports a file without a path with the next one only, or never.
DoItem(b) ==
    /\ BatchGoes(b, "item", "count") \/ BatchGoes(b, "item", "next")
    /\ itemsDone' = [itemsDone EXCEPT ![b] = @ + 1]
    /\ UNCHANGED <<batchRunning, counted, shownBatch, stopFlag, stopAt, stopSaw, obeys>>

CountItem(b) ==
    /\ BatchGoes(b, "count", "next")
    /\ counted' = itemsDone[b]
    /\ UNCHANGED <<batchRunning, shownBatch, stopFlag, itemsDone, stopAt, stopSaw, obeys>>

\* finish: the record is released first, the event follows.
FinishBatch(b) ==
    /\ BatchGoes(b, "finish", "complete")
    /\ batchRunning' = FALSE
    /\ UNCHANGED <<counted, shownBatch, stopFlag, itemsDone, stopAt, stopSaw, obeys>>

EmitComplete(b) ==
    /\ BatchGoes(b, "complete", "done")
    /\ UNCHANGED <<batchRunning, counted, shownBatch, stopFlag, itemsDone, stopAt, stopSaw, obeys>>

\* Nothing clears the record: the runner answers already_running for good.
PanicBatch(b) ==
    /\ BatchGoes(b, "item", "panicked")
    /\ UNCHANGED <<batchRunning, counted, shownBatch, stopFlag, itemsDone, stopAt, stopSaw, obeys>>

\* stop, up to the end of its critical section, and its store.
LookForStop(s) ==
    /\ stopAt[s] = "look"
    /\ stopAt' = [stopAt EXCEPT ![s] = IF batchRunning THEN "store" ELSE "done"]
    /\ stopSaw' = [stopSaw EXCEPT ![s] = IF batchRunning THEN shownBatch ELSE NoBatch]
    /\ UNCHANGED <<batchRunning, counted, shownBatch, stopFlag, batchAt, itemsDone, obeys>>

StoreStop(s) ==
    /\ stopAt[s] = "store" /\ stopAt' = [stopAt EXCEPT ![s] = "done"]
    /\ stopFlag' = TRUE
    /\ obeys' = obeys \cup (IF batchRunning /\ shownBatch = stopSaw[s] THEN {shownBatch} ELSE {})
    /\ UNCHANGED <<batchRunning, counted, shownBatch, batchAt, itemsDone, stopSaw>>

BatchStep(b) ==
    \/ InitBatch(b) \/ NextItem(b) \/ DoItem(b) \/ CountItem(b)
    \/ FinishBatch(b) \/ EmitComplete(b)

BatchNext ==
    \/ \E b \in Batches : StartBatch(b) \/ RefuseBatch(b) \/ BatchStep(b) \/ PanicBatch(b)
    \/ \E s \in Stoppers : LookForStop(s) \/ StoreStop(s)

----------------------------------------------------------------------------
HasWorker(b) == batchAt[b] \in {"init", "next", "item", "count", "finish"}

\* The record tells of one batch at most, the one that has the worker, and it
\* counts no file that batch is not through with; it stays taken when the worker has
\* panicked.
BatchIsShown ==
    /\ \A b, c \in Batches : HasWorker(b) /\ HasWorker(c) => b = c
    /\ batchRunning <=> \E b \in Batches : HasWorker(b) \/ batchAt[b] = "panicked"
    /\ \A b \in Batches : HasWorker(b) =>
          shownBatch = b /\ counted <= itemsDone[b]

\* A batch takes up no further file once a stop that found it running has been stored
\* while it still ran: its own start cannot undo the stop.
StopIsObeyed == [][\A b \in obeys : batchAt[b] # "item" => batchAt'[b] # "item"]_batchVars

\* A batch that was accepted ends, or its worker panics.
BatchEnds == \A b \in Batches : batchAt[b] = "init" ~> batchAt[b] \in {"done", "panicked"}
=============================================================================
