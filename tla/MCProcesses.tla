----------------------------- MODULE MCProcesses -----------------------------
(***************************************************************************)
(* Small instances of the parts that look after a process, a batch or one  *)
(* request at a time: the sidecar's supervision, the scan manager, the     *)
(* batch runners, the configuration file, image generation, the MCP        *)
(* sessions, and one source task with its callers.  Each behaviour is one  *)
(* of one part: focus names it, the others rest in their initial state.    *)
(***************************************************************************)
EXTENDS InferSupervisor, ScanManager, BatchRunner, SettingsFile, GenerationJobs, McpSessions

CONSTANTS TaskSources, TaskClients, TaskPermits, NoTask, TaskQueue, TaskBound

VARIABLES
    focus,
    free, permit, task, after, serving, queue, cmd, status, frames,
    rt, last, stopReq, sent, events     \* of the source task

Task == INSTANCE SourceTask WITH
    Sources <- TaskSources, Clients <- TaskClients, AdHoc <- {}, Permits <- TaskPermits,
    None <- NoTask, CommandCapacity <- TaskQueue, FrameBound <- TaskBound,
    EventBound <- TaskBound

taskVars ==
    <<free, permit, task, after, serving, queue, cmd, status, frames, rt, last, stopReq,
      sent, events>>
processVars ==
    <<focus, vars, scanVars, batchVars, settingsVars, taskVars, genVars, mcpVars>>

ProcessesInit ==
    /\ focus \in {"infer", "scan", "batch", "settings", "task", "gen", "mcp"}
    /\ Init /\ ScanInit /\ BatchInit /\ SettingsInit /\ Task!Init /\ GenInit /\ McpInit
    /\ focus # "gen" => path = [j \in GenJobs |-> "sd"]
    /\ focus # "infer" => installed = CHOOSE p \in Pids : TRUE

InferFocus ==
    /\ focus = "infer" /\ Next
    /\ UNCHANGED <<focus, scanVars, batchVars, settingsVars, taskVars, genVars, mcpVars>>

\* Bound: a behaviour is followed until the pid file has been raced for.
ScanFocus ==
    /\ focus = "scan" /\ ~raced /\ ScanNext
    /\ UNCHANGED <<focus, vars, batchVars, settingsVars, taskVars, genVars, mcpVars>>

BatchFocus ==
    /\ focus = "batch" /\ BatchNext
    /\ UNCHANGED <<focus, vars, scanVars, settingsVars, taskVars, genVars, mcpVars>>

SettingsFocus ==
    /\ focus = "settings" /\ SettingsNext
    /\ UNCHANGED <<focus, vars, scanVars, batchVars, taskVars, genVars, mcpVars>>

TaskFocus ==
    /\ focus = "task" /\ Task!Next
    /\ UNCHANGED <<focus, vars, scanVars, batchVars, settingsVars, genVars, mcpVars>>

GenFocus ==
    /\ focus = "gen" /\ GenNext
    /\ UNCHANGED <<focus, vars, scanVars, batchVars, settingsVars, taskVars, mcpVars>>

\* Bound: messages and sessions, which are alike, come in the order of their numbers,
\* and messages go to the first session; the others compete with it for the limits.
McpFocus ==
    /\ focus = "mcp" /\ McpNext
    /\ \A m, n \in McpPosts : m < n /\ post'[n] # "idle" => post'[m] # "idle"
    /\ \A s, t \in McpIds : s < t /\ sse'[t] # "new" => sse'[s] # "new"
    /\ \A m \in McpPosts : target'[m] = 1
    /\ UNCHANGED <<focus, vars, scanVars, batchVars, settingsVars, taskVars, genVars>>

ProcessesNext ==
    \/ InferFocus \/ ScanFocus \/ BatchFocus \/ SettingsFocus \/ TaskFocus
    \/ GenFocus \/ McpFocus

\* The fairness each module justifies, for the part in focus; in its initial state
\* a source task has nothing it must do.
ProcessesFair ==
    /\ WF_vars(focus = "infer" /\ Supervise) /\ WF_vars(focus = "infer" /\ Shutdown)
    /\ \A p \in Pids : WF_vars(focus = "infer" /\ p \in signalled /\ Dies(p))
    /\ \A c \in ScanCallers \ Bridges : WF_scanVars(focus = "scan" /\ ScanStep(c))
    /\ \A b \in Bridges : WF_scanVars(focus = "scan" /\ BridgeStep(b))
    /\ \A b \in Batches : WF_batchVars(focus = "batch" /\ BatchStep(b))
    /\ Task!Fairness
    /\ \A j \in GenJobs :
          /\ WF_genVars(focus = "gen" /\ HandlerTurn(j))
          /\ WF_genVars(focus = "gen" /\ PollerTurn(j))
          /\ SF_genVars(focus = "gen" /\ PollTimesOut(j))

ProcessesSpec == ProcessesInit /\ [][ProcessesNext]_processVars /\ ProcessesFair

\* What files and records tell of a scan, a batch and a generation is true, the scan
\* worker that runs is followed, and the MCP sessions are charged to their addresses.
RunsAreShown ==
    /\ ScanTypeOK /\ BatchTypeOK /\ SettingsTypeOK
    /\ GenTypeOK /\ McpTypeOK
    /\ ScanIsFollowed /\ BatchIsShown /\ GenerationIsShown /\ LateProgressOnce
    /\ SessionsAreCharged

\* What was acknowledged takes effect: a setting answered as saved stays in the file,
\* and a batch that was told to stop begins no further file.
AnswersHold == []AcknowledgedIsKept /\ StopIsObeyed

\* Every request to a source task gets its answer.
EveryCommandAnswered == Task!EveryCommandAnswered

\* The sidecar and its supervision end after a stop; the bridge of a scan and a batch
\* end when there is nothing left to follow or to do; a generation and its poller
\* end too.
ProcessesEnd == ShutdownEnds /\ BridgeEnds /\ BatchEnds /\ GenerationEnds
=============================================================================
