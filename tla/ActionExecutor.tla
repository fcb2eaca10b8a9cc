--------------------------- MODULE ActionExecutor ---------------------------
(***************************************************************************)
(* actions.rs: the executor that runs the actions of the rules that match. *)
(* A batch goes through a bounded channel to the executor task, which      *)
(* gives it a task of its own; the actions of all batches share one set of *)
(* permits, and a batch is answered by its deadline at the latest.         *)
(***************************************************************************)
EXTENDS Naturals, Sequences, FiniteSets

CONSTANTS
    Batches,            \* bound: the batches spawned by the rule task
    Deferred,           \* the actions of a rule besides its snapshot
    ActionQueue,        \* ACTION_QUEUE_CAPACITY
    Concurrency         \* ACTION_CONCURRENCY

Snapshot == "snapshot"

ASSUME ActionsAssumption ==
    /\ IsFiniteSet(Batches)
    /\ Snapshot \notin Deferred /\ IsFiniteSet(Deferred)
    /\ ActionQueue \in Nat \ {0} /\ Concurrency \in Nat \ {0}

VARIABLES
    batch, batchQueue,  \* the batches, and the executor's channel
    act, permits        \* each batch's actions, and the free permits

actionVars == <<batch, batchQueue, act, permits>>
Actions == Deferred \cup {Snapshot}

ActionsTypeOK ==
    /\ batch \in [Batches -> {"none", "spawned", "queued", "running", "answered", "refused"}]
    /\ batchQueue \in Seq(Batches) /\ Len(batchQueue) <= ActionQueue
    /\ act \in [Batches -> [Actions -> {"todo", "running", "done"}]]
    /\ permits \in 0 .. Concurrency

ActionsInit ==
    /\ batch = [b \in Batches |-> "none"] /\ batchQueue = <<>>
    /\ act = [b \in Batches |-> [a \in Actions |-> "todo"]] /\ permits = Concurrency

\* The rule task spawns a batch with its own copy of the rule.
SpawnBatch(b) ==
    /\ batch[b] = "none"
    /\ batch' = [batch EXCEPT ![b] = "spawned"]
    /\ UNCHANGED <<batchQueue, act, permits>>

\* submit: try_send; a full queue is answered at once.
Submit(b) ==
    /\ batch[b] = "spawned"
    /\ IF Len(batchQueue) < ActionQueue
       THEN batch' = [batch EXCEPT ![b] = "queued"] /\ batchQueue' = Append(batchQueue, b)
       ELSE batch' = [batch EXCEPT ![b] = "refused"] /\ UNCHANGED batchQueue
    /\ UNCHANGED <<act, permits>>

StartBatch ==
    /\ batchQueue # <<>>
    /\ batch' = [batch EXCEPT ![Head(batchQueue)] = "running"]
    /\ batchQueue' = Tail(batchQueue)
    /\ UNCHANGED <<act, permits>>

\* The snapshot first, then all the others at once, each under a permit.
BeginAction(b, a) ==
    /\ batch[b] = "running" /\ act[b][a] = "todo" /\ permits > 0
    /\ a = Snapshot \/ act[b][Snapshot] = "done"
    /\ act' = [act EXCEPT ![b][a] = "running"]
    /\ permits' = permits - 1
    /\ UNCHANGED <<batch, batchQueue>>

EndAction(b, a) ==
    /\ act[b][a] = "running"
    /\ act' = [act EXCEPT ![b][a] = "done"]
    /\ permits' = permits + 1
    /\ UNCHANGED <<batch, batchQueue>>

\* execute_batch has every result.
AnswerBatch(b) ==
    /\ batch[b] = "running" /\ \A a \in Actions : act[b][a] = "done"
    /\ batch' = [batch EXCEPT ![b] = "answered"]
    /\ UNCHANGED <<batchQueue, act, permits>>

\* BATCH_TIMEOUT, counted from submit, drops the futures and their permits.
TimeOutBatch(b) ==
    /\ batch[b] = "running"
    /\ batch' = [batch EXCEPT ![b] = "answered"]
    /\ permits' = permits + Cardinality({a \in Actions : act[b][a] = "running"})
    /\ act' = [act EXCEPT ![b] = [a \in Actions |-> IF @[a] = "running" THEN "done" ELSE @[a]]]
    /\ UNCHANGED <<batchQueue>>

-----------------------------------------------------------------------------
BatchStep(b) ==
    \/ Submit(b) \/ AnswerBatch(b) \/ TimeOutBatch(b)
    \/ \E a \in Actions : BeginAction(b, a) \/ EndAction(b, a)

ActionsNext == StartBatch \/ \E b \in Batches : SpawnBatch(b) \/ BatchStep(b)

\* The runtime polls the tasks and fires the deadline; an action itself may
\* take for ever.
ActionsFair ==
    /\ WF_actionVars(StartBatch)
    /\ \A b \in Batches : WF_actionVars(Submit(b)) /\ WF_actionVars(TimeOutBatch(b))

ActionsSpec == ActionsInit /\ [][ActionsNext]_actionVars

-----------------------------------------------------------------------------
\* Properties.

\* A permit is out for each running action, and only a batch not yet answered
\* has one: a time-out in the middle of a batch gives every permit back.
PermitsAreExact ==
    /\ permits + Cardinality({p \in Batches \X Actions : act[p[1]][p[2]] = "running"}) = Concurrency
    /\ \A b \in Batches, a \in Actions : act[b][a] = "running" => batch[b] = "running"

\* Every match is reported on, whatever its actions do and whoever holds the
\* permits: done, timed out, or refused by a full queue.
BatchIsAnswered ==
    \A b \in Batches : batch[b] # "none" ~> batch[b] \in {"answered", "refused"}
=============================================================================
