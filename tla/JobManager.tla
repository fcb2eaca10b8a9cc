----------------------------- MODULE JobManager -----------------------------
(***************************************************************************)
(* The in-process job table of jobs/mod.rs: one mutex around a map from    *)
(* job id to job record.  Every operator below is one critical section of  *)
(* that mutex.  A run is one accepted or attempted start; the record's     *)
(* cancel_token is named by the run that created it, and so is the         *)
(* run_id that start_or_current leaves in `detail'.                        *)
(***************************************************************************)
EXTENDS Naturals

CONSTANTS
    JobIds,     \* the job ids in use ("ocr", "wd_tagger", ...)
    Runs,       \* the runs ever submitted
    NoRun,      \* absence of a run
    Items       \* the work items a run reports progress over

ASSUME JobManagerAssumption == NoRun \notin Runs /\ Items \in Nat

VARIABLES
    jobs,       \* the map; an absent key is NoJob
    cancelled   \* the runs whose token has been cancelled

Phases == {"none", "running", "complete", "error", "cancelled"}

\* `outcome' is the run that wrote the result/error pair, `old' says that
\* finished_at lies more than HISTORY_TTL_SECS back.
Job == [token   : Runs \cup {NoRun},
        running : BOOLEAN,
        phase   : Phases,
        current : 0 .. Items,
        detail  : Runs \cup {NoRun},
        outcome : Runs \cup {NoRun},
        old     : BOOLEAN]

NewJob(r, detail) ==
    [token |-> r, running |-> TRUE, phase |-> "none", current |-> 0,
     detail |-> detail, outcome |-> NoRun, old |-> FALSE]

NoJob ==
    [token |-> NoRun, running |-> FALSE, phase |-> "none", current |-> 0,
     detail |-> NoRun, outcome |-> NoRun, old |-> FALSE]

Present(j) == jobs[j].token # NoRun

IsRunning(j) == jobs[j].running

\* Inserts unconditionally: a running record and its token are replaced.
Start(j, r) == jobs' = [jobs EXCEPT ![j] = NewJob(r, NoRun)]

\* Mutant: the idle check is dropped.
StartWithoutCheck(j, r) == Start(j, r)

StartIfIdle(j, r) == ~IsRunning(j) /\ Start(j, r)

\* Mutant: the run id is not left in the record.
StartWithoutRunId(j, r) == ~IsRunning(j) /\ jobs' = [jobs EXCEPT ![j] = NewJob(r, NoRun)]

\* Mutant: the record keeps the previous run's result and error.
StartKeepingOutcome(j, r) ==
    /\ ~IsRunning(j)
    /\ jobs' = [jobs EXCEPT ![j] = [NewJob(r, r) EXCEPT !.outcome = jobs[j].outcome]]

\* The Started branch; the Busy branch leaves the table alone.
StartOrCurrent(j, r) ==
    /\ ~IsRunning(j)
    /\ jobs' = [jobs EXCEPT ![j] = NewJob(r, r)]

Close(j, phase, by) ==
    jobs' = [jobs EXCEPT ![j].running = FALSE, ![j].phase = phase,
                         ![j].outcome = by]

\* finish and finish_cancelled: whatever record is there is closed.
Finish(j, phase, by) == IF Present(j) THEN Close(j, phase, by) ELSE UNCHANGED jobs

\* Mutant: finish in place of finish_run.
FinishAnyRun(j, r, phase) == Finish(j, phase, r)

FinishRun(j, r, phase) ==
    IF jobs[j].detail = r THEN Close(j, phase, r) ELSE UNCHANGED jobs

UpdateProgress(j, n) ==
    IF Present(j) THEN jobs' = [jobs EXCEPT ![j].current = n] ELSE UNCHANGED jobs

SetPhase(j, phase) ==
    IF Present(j) THEN jobs' = [jobs EXCEPT ![j].phase = phase] ELSE UNCHANGED jobs

CancelJob(j) == IsRunning(j) /\ cancelled' = cancelled \cup {jobs[j].token}

\* The first half of get_job and get_status.
PruneHistory ==
    jobs' = [j \in JobIds |->
                IF jobs[j].running \/ ~jobs[j].old THEN jobs[j] ELSE NoJob]

\* Time: the record's finished_at passes the cutoff.
Age(j) ==
    /\ Present(j) /\ ~IsRunning(j) /\ ~jobs[j].old
    /\ jobs' = [jobs EXCEPT ![j].old = TRUE]

JobManagerTypeOK == jobs \in [JobIds -> Job] /\ cancelled \subseteq Runs

JobManagerInit == jobs = [j \in JobIds |-> NoJob] /\ cancelled = {}
=============================================================================
