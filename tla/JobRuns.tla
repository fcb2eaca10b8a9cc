------------------------------ MODULE JobRuns ------------------------------
(***************************************************************************)
(* The HTTP handlers and the background workers that share the job table.  *)
(* Four disciplines are in use:                                            *)
(*   "guarded"  OCR: start_or_current, a catch_unwind guard, finish_run;   *)
(*   "caught"   WD-Tagger batch, Hailo YOLO batch: start_if_idle, the      *)
(*              worker inside catch_unwind, finish / finish_cancelled;     *)
(*   "plain"    WD-Tagger retag, tagger mesh, thumbnail warm-up:           *)
(*              start_if_idle and finish, a panic unwinds the task;        *)
(*   "checked"  hash backfill, freeze-pullback, Hailo tagger, cross-search *)
(*              and markdown scans: is_running, then (after whatever the   *)
(*              handler awaits) start, and finish.                         *)
(* Requests and workers interleave at every acquisition of the table lock. *)
(***************************************************************************)
EXTENDS JobManager

CONSTANTS
    JobOf,      \* the job id a run is submitted under
    Kind,       \* its discipline
    Deaf,       \* runs whose worker drops the token (warm-up, text scans)
    Foreign     \* job ids some other caller may close with finish_cancelled

Kinds == {"guarded", "caught", "plain", "checked"}

ASSUME JobRunsAssumption ==
    /\ JobOf \in [Runs -> JobIds]
    /\ Kind \in [Runs -> Kinds]
    /\ Deaf \subseteq {r \in Runs : Kind[r] \in {"plain", "checked"}}
    /\ Foreign \subseteq JobIds

VARIABLES
    pc,         \* where each run's handler or worker is
    done,       \* items each worker has processed
    cancelReq,  \* the OCR cancel request that names this run
    hit         \* the run that request cancelled

vars == <<jobs, cancelled, pc, done, cancelReq, hit>>
worker == <<pc, done>>
canceller == <<cancelReq, hit>>

TypeOK ==
    /\ JobManagerTypeOK
    /\ pc \in [Runs -> {"idle", "checked", "started", "working", "ended", "refused", "dead"}]
    /\ done \in [Runs -> 0 .. Items]
    /\ cancelReq \in [Runs -> {"none", "checked", "sent", "refused"}]
    /\ hit \in [Runs -> Runs \cup {NoRun}]

Init ==
    /\ JobManagerInit
    /\ pc = [r \in Runs |-> "idle"]
    /\ done = [r \in Runs |-> 0]
    /\ cancelReq = [r \in Runs |-> "none"]
    /\ hit = [r \in Runs |-> NoRun]

Goto(r, l) == pc' = [pc EXCEPT ![r] = l]

-----------------------------------------------------------------------------
\* Handlers.  A busy table answers 409 and leaves everything as it was.

Refuse(r) ==
    /\ pc[r] = "idle" /\ IsRunning(JobOf[r])
    /\ Goto(r, "refused")
    /\ UNCHANGED <<jobs, cancelled, done, canceller>>

SubmitGuarded(r) ==
    /\ pc[r] = "idle" /\ Kind[r] = "guarded"
    /\ StartOrCurrent(JobOf[r], r)
    /\ Goto(r, "working")
    /\ UNCHANGED <<cancelled, done, canceller>>

SubmitIfIdle(r) ==
    /\ pc[r] = "idle" /\ Kind[r] \in {"caught", "plain"}
    /\ StartIfIdle(JobOf[r], r)
    /\ Goto(r, IF Kind[r] = "plain" THEN "started" ELSE "working")
    /\ UNCHANGED <<cancelled, done, canceller>>

\* Retag writes its first phase under a second acquisition of the lock; the
\* mesh and the warm-up spawn at once.
SpawnPlain(r) ==
    /\ pc[r] = "started"
    /\ SetPhase(JobOf[r], "running") \/ UNCHANGED jobs
    /\ Goto(r, "working")
    /\ UNCHANGED <<cancelled, done, canceller>>

\* is_running answered false; the handler goes on to resolve its input.
CheckIdle(r) ==
    /\ pc[r] = "idle" /\ Kind[r] = "checked"
    /\ ~IsRunning(JobOf[r])
    /\ Goto(r, "checked")
    /\ UNCHANGED <<jobs, cancelled, done, canceller>>

\* start after the check, or an early return (file not found, no roots).
StartChecked(r) ==
    /\ pc[r] = "checked"
    /\ \/ Start(JobOf[r], r) /\ Goto(r, "working")
       \/ UNCHANGED jobs /\ Goto(r, "refused")
    /\ UNCHANGED <<cancelled, done, canceller>>

-----------------------------------------------------------------------------
\* Workers.

\* A body that reads its token stops at the next item boundary.
Stopped(r) == r \in cancelled \ Deaf

\* One item.  OCR bodies report no progress.
Work(r) ==
    /\ pc[r] = "working" /\ done[r] < Items /\ ~Stopped(r)
    /\ done' = [done EXCEPT ![r] = @ + 1]
    /\ IF Kind[r] = "guarded" THEN UNCHANGED jobs
                              ELSE UpdateProgress(JobOf[r], done[r] + 1)
    /\ UNCHANGED <<cancelled, pc, canceller>>

\* The phases a body can end with: an error at any point; its last item; a
\* cancellation, which OCR reports as an error, the batch workers as such,
\* and the others (freeze-pullback, hash backfill) as completion.
EndPhases(r) ==
    {"error"}
    \cup {p \in {"complete"} : done[r] = Items \/ (Stopped(r) /\ Kind[r] = "checked")}
    \cup {p \in {"cancelled"} : Stopped(r) /\ Kind[r] \in {"caught", "plain"}}

WriteOutcome(r, phase) ==
    IF Kind[r] = "guarded" THEN FinishRun(JobOf[r], r, phase)
                           ELSE Finish(JobOf[r], phase, r)

Conclude(r) ==
    /\ pc[r] = "working"
    /\ \E phase \in EndPhases(r) : WriteOutcome(r, phase)
    /\ Goto(r, "ended")
    /\ UNCHANGED <<cancelled, done, canceller>>

\* The body panics: a guard writes the outcome, an unguarded task just dies.
Panic(r) ==
    /\ pc[r] = "working"
    /\ IF Kind[r] \in {"guarded", "caught"}
       THEN WriteOutcome(r, "error") /\ Goto(r, "ended")
       ELSE UNCHANGED jobs /\ Goto(r, "dead")
    /\ UNCHANGED <<cancelled, done, canceller>>

-----------------------------------------------------------------------------
\* Everybody else.

\* POST /api/jobs/{id}/cancel and the per-feature cancel handlers.
CancelAny(j) == CancelJob(j) /\ UNCHANGED <<jobs, worker, canceller>>

\* POST /api/ocr/cancel with run_id = r: get_job, compare, and only then
\* cancel_job.
OcrCancelCheck(r) ==
    /\ Kind[r] = "guarded" /\ pc[r] # "idle" /\ cancelReq[r] = "none"
    /\ LET job == jobs[JobOf[r]]
           current == job.running /\ job.detail = r
       IN  cancelReq' = [cancelReq EXCEPT ![r] = IF current THEN "checked" ELSE "refused"]
    /\ UNCHANGED <<jobs, cancelled, worker, hit>>

OcrCancelApply(r) ==
    /\ cancelReq[r] = "checked"
    /\ \/ /\ CancelJob(JobOf[r])
          /\ hit' = [hit EXCEPT ![r] = jobs[JobOf[r]].token]
          /\ cancelReq' = [cancelReq EXCEPT ![r] = "sent"]
       \/ /\ ~IsRunning(JobOf[r])
          /\ cancelReq' = [cancelReq EXCEPT ![r] = "refused"]
          /\ UNCHANGED <<cancelled, hit>>
    /\ UNCHANGED <<jobs, worker>>

ForeignFinish(j) ==
    /\ j \in Foreign
    /\ Finish(j, "cancelled", NoRun)
    /\ UNCHANGED <<cancelled, worker, canceller>>

Poll == PruneHistory /\ UNCHANGED <<cancelled, worker, canceller>>

Tick(j) == Age(j) /\ UNCHANGED <<cancelled, worker, canceller>>

-----------------------------------------------------------------------------
RunStep(r) == SpawnPlain(r) \/ StartChecked(r) \/ Work(r) \/ Conclude(r)

Next ==
    \/ \E r \in Runs :
          \/ Refuse(r) \/ SubmitGuarded(r) \/ SubmitIfIdle(r) \/ CheckIdle(r)
          \/ RunStep(r) \/ Panic(r)
          \/ OcrCancelCheck(r) \/ OcrCancelApply(r)
    \/ \E j \in JobIds : CancelAny(j) \/ ForeignFinish(j) \/ Tick(j)
    \/ Poll

Spec == Init /\ [][Next]_vars

\* A spawned task keeps being polled by the runtime.
FairSpec == Spec /\ \A r \in Runs : WF_vars(RunStep(r))

-----------------------------------------------------------------------------
\* Properties.

\* A job id is disciplined when every submission decides under the table lock
\* and nobody but the runs themselves closes its record.
Disciplined(j) ==
    /\ j \notin Foreign
    /\ \A r \in Runs : JobOf[r] = j => Kind[r] # "checked"

Active(r) == pc[r] \in {"started", "working"}

\* The record a live worker believes to be its own is its own: it is still in
\* the table, running, and carries this run's token, so a cancel reaches this
\* worker and no second worker of the id exists.
RunOwnsRecord ==
    \A r \in Runs : Active(r) /\ Disciplined(JobOf[r]) =>
        IsRunning(JobOf[r]) /\ jobs[JobOf[r]].token = r

\* The progress a poller reads is the progress of the run it reads about,
\* although update_progress carries no run identity.
ProgressIsOwn ==
    \A r \in Runs :
        Active(r) /\ Disciplined(JobOf[r]) /\ Kind[r] # "guarded" =>
            jobs[JobOf[r]].current = done[r]

\* No phantom: a running record has a live worker, under every discipline; the
\* one exception is a worker without catch_unwind that panicked.  Otherwise the
\* id would answer 409 until the server restarts.
RunningHasWorker ==
    \A j \in JobIds : IsRunning(j) =>
        LET r == jobs[j].token
        IN  Active(r) \/ (pc[r] = "dead" /\ Kind[r] \in {"plain", "checked"})

\* The table tells the truth about who works, in both directions.
RecordsAreTrue == RunOwnsRecord /\ RunningHasWorker

Guarded(j) == \A r \in Runs : JobOf[r] = j => Kind[r] = "guarded"

\* finish_run: "A late run must never overwrite a newer one" (jobs/mod.rs:141).
\* Even when somebody else closed the record and a newer run took the id, a
\* run that ends closes no record but its own.
LateRunHarmless ==
    [][\A j \in JobIds, r \in Runs :
          Guarded(j) /\ JobOf[r] = j /\ pc[r] = "working" /\ pc'[r] = "ended"
              => jobs'[j] = jobs[j] \/ jobs[j].token = r]_vars

\* What a poller reads as the result of a run was written by that run.
OutcomeIsOwn ==
    \A j \in JobIds : Guarded(j) => jobs[j].outcome \in {NoRun, jobs[j].token}

\* What a poller is shown of a run, its progress and its outcome, is that run's.
ShownIsOwn == ProgressIsOwn /\ OutcomeIsOwn

\* Every accepted run of a panic-contained discipline stops being reported as
\* running, whatever its body does.
RunIsClosed ==
    \A r \in Runs :
        (pc[r] = "working" /\ Kind[r] \in {"guarded", "caught"})
            ~> ~(IsRunning(JobOf[r]) /\ jobs[JobOf[r]].token = r)

\* "render job already running" (routes/freeze_pullback.rs:493): a second
\* request is refused while a worker of the id is alive.
OneWorkerPerJob ==
    \A r, s \in Runs : r # s /\ Active(r) /\ Active(s) => JobOf[r] # JobOf[s]

\* cancel_requires_the_current_run_id (routes/ocr_jobs.rs:795): a cancel that
\* names a run cancels that run or nothing.
CancelHitsNamedRun == \A r \in Runs : hit[r] \in {NoRun, r}
=============================================================================
