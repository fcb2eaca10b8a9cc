------------------------------ MODULE Scheduler ------------------------------
(***************************************************************************)
(* start_scheduler: every cron time of a job starts a task.  The tasks of  *)
(* one job meet on its running flag; the task that wins it runs the job,   *)
(* writes the history and sends an event.  All hold the state weakly.      *)
(***************************************************************************)
EXTENDS Naturals, FiniteSets

CONSTANTS
    CronJobs,       \* the job ids of JOBS
    Firings         \* the tasks ever started (a bound)

VARIABLES
    flag,           \* running, by job
    firing,         \* where each task is
    jobOf,          \* the job each task was started for
    result,         \* what run_job returned
    history,        \* ghost: tasks with a row in scheduler_history
    event,          \* the event each task has sent
    stateAlive      \* weak.upgrade() succeeds

schedVars == <<flag, firing, jobOf, result, history, event, stateAlive>>

Stages == {"unborn", "started", "won", "running", "recording", "sending", "clearing",
           "gone", "panicked"}

SchedTypeOK ==
    /\ flag \in [CronJobs -> BOOLEAN] /\ firing \in [Firings -> Stages]
    /\ jobOf \in [Firings -> CronJobs]
    /\ result \in [Firings -> {"none", "ok", "error"}]
    /\ history \subseteq Firings
    /\ event \in [Firings -> {"none", "skipped", "executed", "error"}]
    /\ stateAlive \in BOOLEAN

SchedInit ==
    /\ flag = [j \in CronJobs |-> FALSE] /\ firing = [f \in Firings |-> "unborn"]
    /\ jobOf \in [Firings -> CronJobs] /\ result = [f \in Firings |-> "none"]
    /\ history = {} /\ event = [f \in Firings |-> "none"] /\ stateAlive = TRUE

Goto(f, stage) == firing' = [firing EXCEPT ![f] = stage]
FiringAt(f, stage) == firing[f] = stage

-----------------------------------------------------------------------------
\* The cron library starts a task whether or not the last one has ended.
CronFires(f) ==
    /\ FiringAt(f, "unborn") /\ Goto(f, "started")
    /\ UNCHANGED <<flag, jobOf, result, history, event, stateAlive>>

\* Mutant: the flag is read, and set by a later step.
ClaimByReading(f) ==
    /\ FiringAt(f, "started") /\ ~flag[jobOf[f]] /\ Goto(f, "won")
    /\ UNCHANGED <<flag, jobOf, result, history, event, stateAlive>>

\* compare_exchange(false, true) succeeds.
ClaimFlag(f) ==
    /\ FiringAt(f, "started") /\ ~flag[jobOf[f]]
    /\ flag' = [flag EXCEPT ![jobOf[f]] = TRUE] /\ Goto(f, "won")
    /\ UNCHANGED <<jobOf, result, history, event, stateAlive>>

\* It fails: the firing is skipped, which is told while there is a state.
SkipFiring(f) ==
    /\ FiringAt(f, "started") /\ flag[jobOf[f]] /\ Goto(f, "gone")
    /\ event' = IF stateAlive THEN [event EXCEPT ![f] = "skipped"] ELSE event
    /\ UNCHANGED <<flag, jobOf, result, history, stateAlive>>

\* The state is gone: the flag is cleared.
GiveUpFiring(f) ==
    /\ FiringAt(f, "won") /\ ~stateAlive /\ Goto(f, "gone")
    /\ flag' = [flag EXCEPT ![jobOf[f]] = FALSE]
    /\ UNCHANGED <<jobOf, result, history, event, stateAlive>>

BeginJob(f) ==
    /\ FiringAt(f, "won") /\ stateAlive /\ Goto(f, "running")
    /\ UNCHANGED <<flag, jobOf, result, history, event, stateAlive>>

RunJob(f) ==
    /\ FiringAt(f, "running") /\ Goto(f, "recording")
    /\ \E r \in {"ok", "error"} : result' = [result EXCEPT ![f] = r]
    /\ UNCHANGED <<flag, jobOf, history, event, stateAlive>>

\* record_execution; a failure is ignored.
RecordExecution(f) ==
    /\ FiringAt(f, "recording") /\ Goto(f, "sending")
    /\ history' \in {history, history \cup {f}}
    /\ UNCHANGED <<flag, jobOf, result, event, stateAlive>>

SendEvent(f) ==
    /\ FiringAt(f, "sending") /\ Goto(f, "clearing")
    /\ event' = [event EXCEPT ![f] = IF result[f] = "ok" THEN "executed" ELSE "error"]
    /\ UNCHANGED <<flag, jobOf, result, history, stateAlive>>

ClearFlag(f) ==
    /\ FiringAt(f, "clearing") /\ Goto(f, "gone")
    /\ flag' = [flag EXCEPT ![jobOf[f]] = FALSE]
    /\ UNCHANGED <<jobOf, result, history, event, stateAlive>>

\* run_job panics: the task is gone, and nothing clears its flag.
PanicInJob(f) ==
    /\ FiringAt(f, "running") /\ Goto(f, "panicked")
    /\ UNCHANGED <<flag, jobOf, result, history, event, stateAlive>>

\* A running job holds the state it upgraded.
DropState ==
    /\ stateAlive /\ \A f \in Firings : firing[f] \in {"unborn", "started", "won", "gone", "panicked"}
    /\ stateAlive' = FALSE
    /\ UNCHANGED <<flag, firing, jobOf, result, history, event>>

FiringStep(f) ==
    \/ ClaimFlag(f) \/ SkipFiring(f) \/ GiveUpFiring(f) \/ BeginJob(f)
    \/ RunJob(f) \/ RecordExecution(f) \/ SendEvent(f) \/ ClearFlag(f)

SchedNext ==
    \/ \E f \in Firings : CronFires(f) \/ FiringStep(f) \/ PanicInJob(f)
    \/ DropState

SchedSpec == SchedInit /\ [][SchedNext]_schedVars

\* The runtime polls every task, and every job ends.
SchedFair == \A f \in Firings : WF_schedVars(FiringStep(f))

-----------------------------------------------------------------------------
\* Properties.

Holding == {"won", "running", "recording", "sending", "clearing", "panicked"}

\* No two tasks run one job at once, although cron starts a task while the last
\* one may still run; and the flag is set exactly while a task has it - or for
\* ever, when its task panicked.
OneRunPerJob ==
    \A j \in CronJobs :
        LET holders == {f \in Firings : jobOf[f] = j /\ firing[f] \in Holding}
        IN  Cardinality(holders) = IF flag[j] THEN 1 ELSE 0

\* While the state lives no firing passes in silence: each one is skipped aloud,
\* told as executed or as an error - unless its job panicked.
FiringIsTold ==
    \A f \in Firings :
        /\ firing[f] = "gone" /\ event[f] = "none" => ~stateAlive
        /\ event[f] = "executed" => result[f] = "ok"
        /\ event[f] = "error" => result[f] = "error"

\* Firings neither overlap nor pass in silence.
FiringsAreTrue == OneRunPerJob /\ FiringIsTold

\* A job's flag does not stay set, so that the next firing can run it, unless its
\* task panicked.
JobIsFreed ==
    \A j \in CronJobs :
        flag[j] ~> ~flag[j] \/ \E f \in Firings : jobOf[f] = j /\ FiringAt(f, "panicked")
=============================================================================
