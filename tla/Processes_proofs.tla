--------------------------- MODULE Processes_proofs ---------------------------
(***************************************************************************)
(* Proofs about InferSupervisor, for any number of processes and attempts, *)
(* about SettingsFile and BatchRunner, for any number of requests, about   *)
(* ScanManager, for any number of requests, bridges and workers, about     *)
(* GenerationJobs, for any number of requests, and about McpSessions, for  *)
(* any number of sessions, addresses and messages.                         *)
(***************************************************************************)
EXTENDS MCProcesses, FiniteSetTheorems, TLAPS

(***************************************************************************)
(* The inductive invariant: where the live process can be, by where the    *)
(* task is; and what the shutdown closure has established.                 *)
(***************************************************************************)
Typed ==
    /\ proc \in [Pids -> {"unborn", "alive", "zombie", "reaped"}]
    /\ installed \in Pids

\* Between a child's death and the next spawn nothing runs.
NothingRuns ==
    pc \in {"check", "spawn", "pause"} => \A p \in Pids : proc[p] # "alive"

OnlyNewRuns ==
    pc \in {"health", "install", "discard"} =>
        new \in Pids /\ \A p \in Pids : proc[p] = "alive" => p = new

OnlyInstalledRuns ==
    pc \in {"sleep", "poll", "returned"} =>
        \A p \in Pids : proc[p] = "alive" => p = installed

Closed ==
    /\ shut # "serving" => stop
    /\ shut \in {"draining", "exited"} => installed \in signalled

IInv == Typed /\ NothingRuns /\ OnlyNewRuns /\ OnlyInstalledRuns /\ OneSidecar /\ Closed

LEMMA InitIInv == Init => IInv
BY DEF Init, IInv, Typed, NothingRuns, OnlyNewRuns, OnlyInstalledRuns, OneSidecar,
       Running, Closed

LEMMA StepIInv == IInv /\ [Next]_vars => IInv'
<1> SUFFICES ASSUME IInv, [Next]_vars PROVE IInv'
    OBVIOUS
<1> USE InferSupervisorAssumption
<1> USE DEF IInv, Typed, NothingRuns, OnlyNewRuns, OnlyInstalledRuns, OneSidecar,
            Running, Closed, Goto, procs, respawn, closure
<1>1. CASE Wake
    BY <1>1 DEF Wake
<1>2. CASE Poll
    BY <1>2 DEF Poll
<1>3. CASE CheckStop
    BY <1>3 DEF CheckStop
<1>4. CASE Spawn
    BY <1>4 DEF Spawn
<1>5. CASE SpawnFails
    BY <1>5 DEF SpawnFails, NextAttempt
<1>6. CASE Healthy
    BY <1>6 DEF Healthy
<1>7. CASE Unhealthy
    BY <1>7 DEF Unhealthy, NextAttempt
<1>8. CASE Pause
    BY <1>8 DEF Pause
<1>9. CASE Install
    BY <1>9 DEF Install
<1>10. CASE Discarded
    BY <1>10 DEF Discarded
<1>11. CASE RequestStop
    BY <1>11 DEF RequestStop
<1>12. CASE StreamsDown
    BY <1>12 DEF StreamsDown
<1>13. CASE Terminate
    BY <1>13 DEF Terminate
<1>14. CASE Exit
    BY <1>14 DEF Exit, Awaiting
<1>15. ASSUME NEW p \in Pids, Dies(p) PROVE IInv'
    BY <1>15 DEF Dies
<1>16. CASE UNCHANGED vars
    BY <1>16 DEF vars
<1> QED
    BY <1>1, <1>2, <1>3, <1>4, <1>5, <1>6, <1>7, <1>8, <1>9, <1>10, <1>11, <1>12,
       <1>13, <1>14, <1>15, <1>16 DEF Next, Supervise, Shutdown

(***************************************************************************)
(* However often the sidecar crashes, fails its health check or is         *)
(* respawned during a shutdown, two never run at once.                     *)
(***************************************************************************)
THEOREM NeverTwoSidecars == Spec => []OneSidecar
<1>1. IInv => OneSidecar
    BY DEF IInv
<1> QED
    BY <1>1, InitIInv, StepIInv, PTL DEF Spec

(***************************************************************************)
(* No live sidecar escapes the two places the code keeps a child in.       *)
(***************************************************************************)
THEOREM NoneGoesStray == Spec => []NoStray
<1>1. IInv => \/ pc \notin Awaiting \cup {"poll", "check", "spawn", "install", "discard",
                                         "returned"}
              \/ NoStray
    BY DEF IInv, NothingRuns, OnlyNewRuns, OnlyInstalledRuns, NoStray, Running, Awaiting
<1> DEFINE Somewhere == pc \in Awaiting \cup {"poll", "check", "spawn", "install", "discard",
                                             "returned", "cancelled"}
<1>3. Init => Somewhere
    BY DEF Init, Awaiting
<1>4. Somewhere /\ [Next]_vars => Somewhere'
    BY DEF Next, Supervise, Shutdown, vars, Awaiting, Goto, NextAttempt, Wake, Poll,
       CheckStop, Spawn, SpawnFails, Healthy, Unhealthy, Pause, Install, Discarded,
       RequestStop, StreamsDown, Terminate, Exit, Dies
<1>5. IInv /\ Somewhere => NoStray
    BY <1>1 DEF NoStray
<1> HIDE DEF Somewhere
<1> QED
    BY <1>3, <1>4, <1>5, InitIInv, StepIInv, PTL DEF Spec

(***************************************************************************)
(* The recheck of `stop' under the installing lock suffices: once the task *)
(* has returned and the closure has run, every live sidecar has been sent  *)
(* SIGTERM.                                                                *)
(***************************************************************************)
THEOREM ShutdownReachesAll == Spec => []StoppedIsTold
<1>1. IInv => StoppedIsTold
    BY DEF IInv, OnlyInstalledRuns, Closed, StoppedIsTold, Running
<1> QED
    BY <1>1, InitIInv, StepIInv, PTL DEF Spec

-----------------------------------------------------------------------------
\* A pause is taken only while an attempt is left.
AttemptsLeft == pc = "pause" => attempt < MaxAttempts

LEMMA StepTypeOK ==
    ASSUME IInv, TypeOK, AttemptsLeft, [Next]_vars
    PROVE  TypeOK' /\ AttemptsLeft'
<1> USE InferSupervisorAssumption
<1> USE DEF AttemptsLeft, Goto, procs, respawn, closure
<1>1. proc' \in [Pids -> {"unborn", "alive", "zombie", "reaped"}] /\ installed' \in Pids
    BY StepIInv DEF IInv, Typed
<1>2. signalled' \subseteq Pids
    <2>1. pc \in {"health", "install"} => new \in Pids
        BY DEF IInv, OnlyNewRuns
    <2> QED
        BY <2>1 DEF Next, Supervise, Shutdown, vars, TypeOK, Wake, Poll, CheckStop, Spawn,
           SpawnFails, Healthy, Unhealthy, Pause, Install, Discarded, RequestStop,
           StreamsDown, Terminate, Exit, Dies
<1>3. new' \in Pids \cup {NoPid}
    BY DEF Next, Supervise, Shutdown, vars, TypeOK, NextAttempt, Wake, Poll, CheckStop,
       Spawn, SpawnFails, Healthy, Unhealthy, Pause, Install, Discarded, RequestStop,
       StreamsDown, Terminate, Exit, Dies
<1>4. attempt' \in 0 .. MaxAttempts /\ AttemptsLeft'
    BY DEF Next, Supervise, Shutdown, vars, TypeOK, NextAttempt, Wake, Poll, CheckStop,
       Spawn, SpawnFails, Healthy, Unhealthy, Pause, Install, Discarded, RequestStop,
       StreamsDown, Terminate, Exit, Dies
<1>5. pc' \in Awaiting \cup {"poll", "check", "spawn", "install", "discard", "returned",
                             "cancelled"}
    BY DEF Next, Supervise, Shutdown, vars, TypeOK, Awaiting, NextAttempt, Wake, Poll,
       CheckStop, Spawn, SpawnFails, Healthy, Unhealthy, Pause, Install, Discarded,
       RequestStop, StreamsDown, Terminate, Exit, Dies
<1>6. stop' \in BOOLEAN /\ shut' \in {"serving", "stopping", "terminating", "draining",
                                     "exited"}
    BY DEF Next, Supervise, Shutdown, vars, TypeOK, Wake, Poll, CheckStop,
       Spawn, SpawnFails, Healthy, Unhealthy, Pause, Install, Discarded, RequestStop,
       StreamsDown, Terminate, Exit, Dies
<1> QED
    BY <1>1, <1>2, <1>3, <1>4, <1>5, <1>6 DEF TypeOK

(***************************************************************************)
(* The task never counts past max_attempts, however often the sidecar      *)
(* fails to start, and every process it signals is one it spawned.         *)
(***************************************************************************)
THEOREM TypeCorrect == Spec => []TypeOK
<1>1. Init => TypeOK /\ AttemptsLeft
    <2>1. Init => stop \in BOOLEAN
        BY Zenon DEF Init
    <2>2. Init => proc \in [Pids -> {"unborn", "alive", "zombie", "reaped"}]
        BY DEF Init
    <2> QED
        BY <2>1, <2>2, InferSupervisorAssumption DEF Init, TypeOK, AttemptsLeft, Awaiting
<1>2. IInv /\ TypeOK /\ AttemptsLeft /\ [Next]_vars => TypeOK' /\ AttemptsLeft'
    BY StepTypeOK
<1> QED
    BY <1>1, <1>2, InitIInv, StepIInv, PTL DEF Spec

(***************************************************************************)
(* At most one sidecar runs, and it is the installed one or the respawn's, *)
(* which are the two a shutdown reaches.                                   *)
(***************************************************************************)
THEOREM SidecarStaysKnown == Spec => []SidecarIsKnown
<1>1. OneSidecar /\ NoStray => SidecarIsKnown
    BY DEF SidecarIsKnown
<1> QED
    BY <1>1, NeverTwoSidecars, NoneGoesStray, PTL

(***************************************************************************)
(* The configuration file, when every handler takes the lock: the holder   *)
(* is the only one between its read and its answer, and its copy is the    *)
(* file.                                                                   *)
(***************************************************************************)
SavesInv ==
    /\ SettingsTypeOK
    /\ acknowledged \subseteq settingsFile
    /\ \A w \in Savers : saverAt[w] \in {"load", "write", "saved", "failed"} => settingsLock = w
    /\ \A w \in Savers : saverAt[w] = "write" => copyOf[w] = settingsFile
    /\ \A w \in Savers : saverAt[w] = "saved" => w \in settingsFile

LEMMA SaverKeepsInv ==
    ASSUME BareSavers = {}, SavesInv, NEW w \in Savers, SaverStep(w)
    PROVE  SavesInv'
<1> USE SettingsFileAssumption DEF SavesInv, SettingsTypeOK, SaverGoes
<1>1. CASE BeginSave(w)
    BY <1>1 DEF BeginSave
<1>2. CASE TakeSettingsLock(w)
    BY <1>2 DEF TakeSettingsLock
<1>3. CASE DropSaver(w)
    BY <1>3 DEF DropSaver
<1>4. CASE LoadSettings(w)
    BY <1>4 DEF LoadSettings
<1>5. CASE ReplaceSettings(w)
    BY <1>5 DEF ReplaceSettings
<1>6. CASE AnswerSave(w)
    BY <1>6 DEF AnswerSave
<1> QED
    BY <1>1, <1>2, <1>3, <1>4, <1>5, <1>6 DEF SaverStep

(***************************************************************************)
(* Where every handler takes settings_lock, a change that was answered as  *)
(* saved is never lost, for any number of handlers and through crashes.    *)
(***************************************************************************)
THEOREM AcknowledgedStaysKept ==
    ASSUME BareSavers = {}
    PROVE  SettingsSpec => []AcknowledgedIsKept
<1>1. SettingsInit => SavesInv
    BY SettingsFileAssumption DEF SettingsInit, SavesInv, SettingsTypeOK
<1>2. SavesInv /\ [SettingsNext]_settingsVars => SavesInv'
    <2> SUFFICES ASSUME SavesInv, [SettingsNext]_settingsVars PROVE SavesInv'
        OBVIOUS
    <2>1. CASE UNCHANGED settingsVars
        BY <2>1 DEF settingsVars, SavesInv, SettingsTypeOK
    <2>2. CASE SettingsCrash
        BY <2>2, SettingsFileAssumption DEF SettingsCrash, SavesInv, SettingsTypeOK
    <2>3. CASE \E w \in Savers : SaverStep(w)
        BY <2>3, SaverKeepsInv
    <2> QED
        BY <2>1, <2>2, <2>3 DEF SettingsNext
<1>3. SavesInv => AcknowledgedIsKept
    BY DEF SavesInv, AcknowledgedIsKept
<1> QED
    BY <1>1, <1>2, <1>3, PTL DEF SettingsSpec

(***************************************************************************)
(* The batch runner: who has the worker, or died of it, holds the record;  *)
(* and a batch that obeys finds the flag set as long as it has the worker. *)
(***************************************************************************)
Holds(b) == HasWorker(b) \/ batchAt[b] = "panicked"

OneHolds == \A b, c \in Batches : Holds(b) /\ Holds(c) => b = c
RunningIsHeld == batchRunning <=> \E b \in Batches : Holds(b)
RecordIsHolders == \A b \in Batches : Holds(b) => shownBatch = b
CountIsHolders ==
    \A b \in Batches :
        /\ batchAt[b] \in {"new", "init"} => itemsDone[b] = 0
        /\ HasWorker(b) => counted <= itemsDone[b]
        /\ batchAt[b] = "item" => itemsDone[b] < ItemsOfBatch
ToldFindFlag ==
    \A b \in obeys :
        \/ HasWorker(b) /\ stopFlag
        \/ batchAt[b] \in {"complete", "done", "panicked"}

BatchInv ==
    /\ BatchTypeOK /\ OneHolds /\ RunningIsHeld /\ RecordIsHolders
    /\ CountIsHolders /\ ToldFindFlag

BatchSpec == BatchInit /\ [][BatchNext]_batchVars

LEMMA BatchKeepsInv ==
    ASSUME BatchInv, NEW b \in Batches,
           StartBatch(b) \/ RefuseBatch(b) \/ BatchStep(b) \/ PanicBatch(b)
    PROVE  BatchInv'
<1> USE BatchRunnerAssumption
    DEF BatchInv, BatchTypeOK, BatchGoes, Holds, HasWorker, OneHolds, RunningIsHeld,
        RecordIsHolders, CountIsHolders, ToldFindFlag
<1>1. CASE StartBatch(b)
    <2> USE <1>1 DEF StartBatch
    <2>1. \A c \in Batches : ~Holds(c)
        BY Zenon
    <2>2. BatchTypeOK' /\ CountIsHolders'
        <3>1. batchRunning' \in BOOLEAN /\ stopFlag' \in BOOLEAN
            BY Zenon
        <3>2. counted' \in 0 .. ItemsOfBatch /\ CountIsHolders'
            BY <2>1
        <3> QED
            BY <3>1, <3>2
    <2>3. OneHolds' /\ RecordIsHolders'
        BY <2>1
    <2>4. RunningIsHeld'
        BY <2>1
    <2>5. ToldFindFlag'
        BY <2>1
    <2> QED
        BY <2>2, <2>3, <2>4, <2>5
<1>2. CASE RefuseBatch(b)
    BY <1>2 DEF RefuseBatch
<1>3. CASE InitBatch(b)
    <2> USE <1>3 DEF InitBatch
    <2>1. BatchTypeOK' /\ CountIsHolders'
        <3>1. batchRunning' \in BOOLEAN /\ stopFlag' \in BOOLEAN
            BY Zenon
        <3>2. counted' \in 0 .. ItemsOfBatch /\ CountIsHolders'
            OBVIOUS
        <3> QED
            BY <3>1, <3>2
    <2>2. OneHolds' /\ RecordIsHolders'
        OBVIOUS
    <2>3. batchRunning /\ batchRunning' /\ RunningIsHeld'
        OBVIOUS
    <2>4. ToldFindFlag'
        OBVIOUS
    <2> QED
        BY <2>1, <2>2, <2>3, <2>4
<1>4. CASE NextItem(b)
    BY <1>4 DEF NextItem
<1>5. CASE DoItem(b)
    BY <1>5 DEF DoItem
<1>6. CASE CountItem(b)
    BY <1>6 DEF CountItem
<1>7. CASE FinishBatch(b)
    BY <1>7 DEF FinishBatch
<1>8. CASE EmitComplete(b)
    BY <1>8 DEF EmitComplete
<1>9. CASE PanicBatch(b)
    BY <1>9 DEF PanicBatch
<1> QED
    BY <1>1, <1>2, <1>3, <1>4, <1>5, <1>6, <1>7, <1>8, <1>9 DEF BatchStep

LEMMA StopKeepsInv ==
    ASSUME BatchInv, NEW s \in Stoppers, LookForStop(s) \/ StoreStop(s)
    PROVE  BatchInv'
<1> USE BatchRunnerAssumption
    DEF BatchInv, BatchTypeOK, Holds, HasWorker, OneHolds, RunningIsHeld,
        RecordIsHolders, CountIsHolders, ToldFindFlag
<1>1. CASE LookForStop(s)
    BY <1>1 DEF LookForStop
<1>2. CASE StoreStop(s)
    BY <1>2 DEF StoreStop
<1> QED
    BY <1>1, <1>2

LEMMA BatchInvHolds == BatchSpec => []BatchInv
<1>1. BatchInit => BatchInv
    <2> SUFFICES ASSUME BatchInit PROVE BatchInv
        OBVIOUS
    <2>1. BatchTypeOK /\ CountIsHolders
        <3>1. batchRunning \in BOOLEAN /\ stopFlag \in BOOLEAN
            BY Zenon DEF BatchInit
        <3>2. counted \in 0 .. ItemsOfBatch /\ CountIsHolders
            BY BatchRunnerAssumption DEF BatchInit, CountIsHolders
        <3> QED
            BY <3>1, <3>2, BatchRunnerAssumption DEF BatchInit, BatchTypeOK
    <2>2. \A b \in Batches : ~Holds(b)
        BY DEF BatchInit, Holds, HasWorker
    <2>3. ~batchRunning /\ obeys = {}
        BY Zenon DEF BatchInit
    <2> QED
        BY <2>1, <2>2, <2>3
        DEF BatchInv, OneHolds, RunningIsHeld, RecordIsHolders, ToldFindFlag
<1>2. BatchInv /\ [BatchNext]_batchVars => BatchInv'
    <2>1. BatchInv /\ UNCHANGED batchVars => BatchInv'
        BY DEF batchVars, BatchInv, BatchTypeOK, Holds, HasWorker, OneHolds, RunningIsHeld,
           RecordIsHolders, CountIsHolders, ToldFindFlag
    <2> QED
        BY <2>1, BatchKeepsInv, StopKeepsInv DEF BatchNext
<1> QED
    BY <1>1, <1>2, PTL DEF BatchSpec

(***************************************************************************)
(* One batch at a time has the worker, the record is its own, and it       *)
(* counts no file that batch is not through with.                          *)
(***************************************************************************)
THEOREM BatchStaysShown == BatchSpec => []BatchIsShown
<1>1. BatchInv => BatchIsShown
    BY BatchRunnerAssumption
    DEF BatchInv, BatchIsShown, BatchTypeOK, Holds, HasWorker, OneHolds, RunningIsHeld,
        RecordIsHolders, CountIsHolders
<1> QED
    BY <1>1, BatchInvHolds, PTL

(***************************************************************************)
(* A stop that was stored while the batch it found still ran is obeyed: no *)
(* further file is begun.                                                  *)
(***************************************************************************)
THEOREM StopsAreObeyed == BatchSpec => StopIsObeyed
<1>1. BatchInv /\ [BatchNext]_batchVars =>
          [\A b \in obeys : batchAt[b] # "item" => batchAt'[b] # "item"]_batchVars
    <2> SUFFICES ASSUME BatchInv, BatchNext, NEW b \in obeys, batchAt[b] # "item"
                 PROVE  batchAt'[b] # "item"
        BY DEF batchVars
    <2> USE DEF BatchInv, BatchTypeOK, BatchGoes, HasWorker, ToldFindFlag
    <2>1. ASSUME NEW c \in Batches, StartBatch(c) \/ RefuseBatch(c) \/ PanicBatch(c)
          PROVE  batchAt'[b] # "item"
        BY <2>1 DEF StartBatch, RefuseBatch, PanicBatch
    <2>2. ASSUME NEW c \in Batches, NextItem(c)
          PROVE  batchAt'[b] # "item"
        BY <2>2 DEF NextItem
    <2>3. ASSUME NEW c \in Batches, BatchStep(c), ~NextItem(c)
          PROVE  batchAt'[b] # "item"
        BY <2>3 DEF BatchStep, InitBatch, DoItem, CountItem, FinishBatch, EmitComplete
    <2>4. ASSUME NEW s \in Stoppers, LookForStop(s) \/ StoreStop(s)
          PROVE  batchAt'[b] # "item"
        BY <2>4 DEF LookForStop, StoreStop
    <2> QED
        BY <2>1, <2>2, <2>3, <2>4 DEF BatchNext
<1> QED
    BY <1>1, BatchInvHolds, PTL DEF BatchSpec, StopIsObeyed


(***************************************************************************)
(* The scan manager.  Whatever has happened, a pid that someone has at     *)
(* hand is one that was spawned, and one about to be cleared is gone; and  *)
(* the server boots alone.                                                 *)
(***************************************************************************)
IsUp(p) == process[p] \in {"alive", "ending"}

SeenWasBorn ==
    /\ pidFile # NoScan => process[pidFile] # "unborn"
    /\ \A c \in ScanCallers :
          /\ seen[c] # NoScan => process[seen[c]] # "unborn"
          /\ scanAt[c] \in {"alive", "clear", "wipe", "write"} => seen[c] # NoScan
          /\ scanAt[c] \in {"clear", "wipe"} => process[seen[c]] = "gone"

BootIsAlone ==
    scanAt[Boot] # "idle" =>
        /\ \A c \in ScanCallers \ {Boot} : scanAt[c] = "idle"
        /\ scanAt[Boot] \in {"alive", "clear", "wipe"} => pidFile \in {seen[Boot], NoScan}

\* The rest is about behaviours that the files can express.
OneDecides == \A r, q \in ScanRequests : Deciding(r) /\ Deciding(q) => r = q
OneRuns == \A p, q \in ScanPids : IsUp(p) /\ IsUp(q) => p = q
RunnerIsNamed ==
    \A p \in ScanPids : IsUp(p) =>
        pidFile = p \/ \E r \in ScanRequests : scanAt[r] = "write" /\ seen[r] = p
SpawnsAlone ==
    \A r \in ScanRequests, p \in ScanPids :
        /\ scanAt[r] \in {"wipe", "clean", "spawn"} => ~IsUp(p)
        /\ scanAt[r] = "write" /\ IsUp(p) => seen[r] = p
ProgressIsRunners ==
    /\ \A r \in ScanRequests : scanAt[r] = "spawn" => progressFile # "done"
    /\ \A p \in ScanPids : process[p] = "alive" => progressFile # "done"

\* A bridge that will look again, or one that has just read the worker's own pid.
Follows(b, p) ==
    scanAt[b] \in {"tick", "check"} \/ (scanAt[b] = "alive" /\ seen[b] = p)
RunnerIsFollowed ==
    scanAt[Boot] = "idle" =>
        \A p \in ScanPids : process[p] = "alive" =>
            \/ \E b \in Bridges : Follows(b, p)
            \/ \E r \in ScanRequests : scanAt[r] \in {"write", "bridge"} /\ seen[r] = p

Expressed ==
    /\ OneDecides /\ OneRuns /\ RunnerIsNamed /\ SpawnsAlone
    /\ ProgressIsRunners /\ RunnerIsFollowed

ScanInv == ScanTypeOK /\ SeenWasBorn /\ BootIsAlone /\ (raced \/ Expressed)

ScanSpec == ScanInit /\ [][ScanNext]_scanVars

LEMMA ScanInitInv == ScanInit => ScanInv
<1> SUFFICES ASSUME ScanInit PROVE ScanInv
    OBVIOUS
<1> USE ScanManagerAssumption DEF ScanInit, ScanCallers
<1>1. ScanTypeOK
    <2>1. raced \in BOOLEAN
        BY Zenon
    <2> QED
        BY <2>1 DEF ScanTypeOK
<1>2. SeenWasBorn /\ BootIsAlone
    BY DEF SeenWasBorn, BootIsAlone
<1>3. OneDecides /\ SpawnsAlone /\ RunnerIsFollowed
    BY DEF OneDecides, Deciding, SpawnsAlone, RunnerIsFollowed
<1>4. OneRuns /\ RunnerIsNamed /\ ProgressIsRunners
    BY DEF OneRuns, RunnerIsNamed, IsUp, ProgressIsRunners
<1> QED
    BY <1>1, <1>2, <1>3, <1>4 DEF ScanInv, Expressed

LEMMA ReadKeepsInv ==
    ASSUME ScanInv, NEW c \in ScanCallers, ReadPid(c)
    PROVE  ScanInv'
<1> USE ScanManagerAssumption
    DEF ReadPid, ScanGoes, Keeps, ScanInv, ScanCallers, NotRunning
<1>1. ScanTypeOK'
    BY DEF ScanTypeOK
<1>2. SeenWasBorn'
    BY DEF ScanTypeOK, SeenWasBorn
<1>3. BootIsAlone'
    BY DEF ScanTypeOK, BootIsAlone
<1>4. raced' \/ Expressed'
    <2> SUFFICES ASSUME ~raced' PROVE Expressed'
        OBVIOUS
    <2>1. Expressed /\ ~StartsOverlap'
        BY DEF ScanTypeOK
    <2>2. OneDecides'
        BY <2>1 DEF StartsOverlap, OneDecides
    <2>3. OneRuns' /\ RunnerIsNamed'
        BY <2>1 DEF Expressed, OneRuns, RunnerIsNamed, IsUp, ScanTypeOK
    <2>4. SpawnsAlone'
        BY <2>1, <2>2 DEF Expressed, RunnerIsNamed, SpawnsAlone, IsUp, ScanTypeOK,
                          OneDecides, Deciding
    <2>5. ProgressIsRunners'
        BY <2>1 DEF Expressed, ProgressIsRunners, ScanTypeOK
    <2>6. RunnerIsFollowed'
        BY <2>1 DEF Expressed, RunnerIsFollowed, RunnerIsNamed, IsUp, Follows,
                    ScanTypeOK, BootIsAlone
    <2> QED
        BY <2>2, <2>3, <2>4, <2>5, <2>6 DEF Expressed
<1> QED
    BY <1>1, <1>2, <1>3, <1>4

LEMMA ProbeKeepsInv ==
    ASSUME ScanInv, NEW c \in ScanCallers, ProbePid(c)
    PROVE  ScanInv'
<1> USE ScanManagerAssumption
    DEF ProbePid, ScanGoes, Keeps, Signalable, NotRunning, IsRunning, ScanInv, ScanCallers,
        ScanTypeOK
<1>1. ScanTypeOK' /\ SeenWasBorn' /\ BootIsAlone'
    BY DEF SeenWasBorn, BootIsAlone
<1>2. ASSUME ~raced' PROVE OneDecides' /\ OneRuns' /\ RunnerIsNamed' /\ SpawnsAlone'
    BY <1>2 DEF Expressed, OneDecides, Deciding, OneRuns, IsUp, RunnerIsNamed, SpawnsAlone
<1>3. ASSUME ~raced' PROVE ProgressIsRunners' /\ RunnerIsFollowed'
    BY <1>3 DEF Expressed, ProgressIsRunners, RunnerIsFollowed, Follows, BootIsAlone
<1> QED
    BY <1>1, <1>2, <1>3 DEF Expressed

LEMMA ClearKeepsInv ==
    ASSUME ScanInv, NEW c \in ScanCallers, ClearPid(c)
    PROVE  ScanInv'
<1> USE ScanManagerAssumption
    DEF ClearPid, ScanGoes, Keeps, ScanInv, ScanCallers, NotRunning
<1>1. ScanTypeOK'
    BY DEF ScanTypeOK
<1>2. SeenWasBorn'
    BY DEF ScanTypeOK, SeenWasBorn
<1>3. BootIsAlone'
    BY DEF ScanTypeOK, BootIsAlone
<1>4. raced' \/ Expressed'
    <2> SUFFICES ASSUME ~raced' PROVE Expressed'
        OBVIOUS
    <2>1. Expressed
        BY DEF ScanTypeOK
    <2>2. OneDecides'
        BY <2>1 DEF Expressed, OneDecides, Deciding, ScanTypeOK
    <2>3. OneRuns' /\ RunnerIsNamed'
        BY <2>1 DEF Expressed, OneRuns, RunnerIsNamed, SpawnsAlone, SeenWasBorn, IsUp,
                    OneDecides, Deciding, ScanTypeOK
    <2>4. SpawnsAlone'
        <3>1. ASSUME c \in ScanRequests, NEW p \in ScanPids, IsUp(p) PROVE FALSE
            <4>1. process[seen[c]] = "gone" /\ pidFile \in {seen[c], NoScan}
                BY DEF SeenWasBorn, ScanTypeOK
            <4>2. pidFile # p
                BY <3>1, <4>1 DEF IsUp
            <4>3. PICK q \in ScanRequests : scanAt[q] = "write"
                BY <2>1, <3>1, <4>2 DEF Expressed, RunnerIsNamed
            <4> QED
                BY <2>1, <3>1, <4>3 DEF Expressed, OneDecides, Deciding
        <3> QED
            BY <2>1, <3>1 DEF Expressed, SpawnsAlone, IsUp, ScanTypeOK
    <2>5. ProgressIsRunners'
        BY <2>1 DEF Expressed, ProgressIsRunners, SpawnsAlone, OneRuns, IsUp, ScanTypeOK
    <2>6. RunnerIsFollowed'
        BY <2>1 DEF Expressed, RunnerIsFollowed, RunnerIsNamed, ProgressIsRunners, IsUp,
                    Follows, ScanTypeOK, BootIsAlone, SeenWasBorn
    <2> QED
        BY <2>2, <2>3, <2>4, <2>5, <2>6 DEF Expressed
<1> QED
    BY <1>1, <1>2, <1>3, <1>4

LEMMA WipeKeepsInv ==
    ASSUME ScanInv, NEW c \in ScanCallers, WipeProgress(c)
    PROVE  ScanInv'
<1> USE ScanManagerAssumption
    DEF WipeProgress, ScanGoes, Keeps, NotRunning, ScanInv, ScanCallers, ScanTypeOK
<1>1. ScanTypeOK' /\ SeenWasBorn' /\ BootIsAlone'
    BY DEF SeenWasBorn, BootIsAlone
<1>2. ASSUME ~raced' PROVE OneDecides' /\ OneRuns' /\ RunnerIsNamed' /\ SpawnsAlone'
    BY <1>2 DEF Expressed, OneDecides, Deciding, OneRuns, IsUp, RunnerIsNamed, SpawnsAlone
<1>3. ASSUME ~raced' PROVE ProgressIsRunners' /\ RunnerIsFollowed'
    BY <1>3 DEF Expressed, ProgressIsRunners, RunnerIsFollowed, Follows, BootIsAlone,
               RunnerIsNamed, SeenWasBorn, IsUp
<1> QED
    BY <1>1, <1>2, <1>3 DEF Expressed

LEMMA ArriveKeepsInv ==
    ASSUME ScanInv, NEW c \in ScanCallers, Arrive(c)
    PROVE  ScanInv'
<1> USE ScanManagerAssumption
    DEF Arrive, ScanGoes, ScanInv, ScanCallers, ScanTypeOK
<1>1. ScanTypeOK' /\ SeenWasBorn' /\ BootIsAlone'
    BY DEF SeenWasBorn, BootIsAlone
<1>2. ASSUME Expressed PROVE OneDecides' /\ OneRuns' /\ RunnerIsNamed' /\ SpawnsAlone'
    BY <1>2 DEF Expressed, OneDecides, Deciding, OneRuns, IsUp, RunnerIsNamed, SpawnsAlone
<1>3. ASSUME Expressed PROVE ProgressIsRunners' /\ RunnerIsFollowed'
    BY <1>3 DEF Expressed, ProgressIsRunners, RunnerIsFollowed, Follows, BootIsAlone
<1> QED
    BY <1>1, <1>2, <1>3 DEF Expressed

LEMMA CleanKeepsInv ==
    ASSUME ScanInv, NEW r \in ScanRequests, CleanProgress(r)
    PROVE  ScanInv'
<1> USE ScanManagerAssumption
    DEF CleanProgress, ScanGoes, ScanInv, ScanCallers, ScanTypeOK
<1>1. ScanTypeOK' /\ SeenWasBorn' /\ BootIsAlone'
    BY DEF SeenWasBorn, BootIsAlone
<1>2. ASSUME ~raced' PROVE OneDecides' /\ OneRuns' /\ RunnerIsNamed' /\ SpawnsAlone'
    BY <1>2 DEF Expressed, OneDecides, Deciding, OneRuns, IsUp, RunnerIsNamed, SpawnsAlone
<1>3. ASSUME ~raced' PROVE ProgressIsRunners' /\ RunnerIsFollowed'
    BY <1>3 DEF Expressed, ProgressIsRunners, RunnerIsFollowed, Follows, BootIsAlone
<1> QED
    BY <1>1, <1>2, <1>3 DEF Expressed

LEMMA SpawnKeepsInv ==
    ASSUME ScanInv, NEW r \in ScanRequests, SpawnWorker(r)
    PROVE  ScanInv'
<1> USE ScanManagerAssumption
    DEF SpawnWorker, ScanGoes, Keeps, ScanInv, ScanCallers, NotRunning
<1>1. ScanTypeOK'
    BY DEF ScanTypeOK
<1>2. SeenWasBorn'
    BY DEF ScanTypeOK, SeenWasBorn
<1>3. BootIsAlone'
    BY DEF ScanTypeOK, BootIsAlone
<1>4. raced' \/ Expressed'
    <2> SUFFICES ASSUME ~raced' PROVE Expressed'
        OBVIOUS
    <2>1. Expressed
        BY DEF ScanTypeOK
    <2>2. OneDecides'
        BY <2>1 DEF Expressed, OneDecides, Deciding, ScanTypeOK
    <2>3. OneRuns' /\ RunnerIsNamed'
        BY <2>1 DEF Expressed, OneRuns, RunnerIsNamed, SpawnsAlone, SeenWasBorn, IsUp,
                    OneDecides, Deciding, ScanTypeOK
    <2>4. SpawnsAlone'
        <3>1. \A p \in ScanPids : ~IsUp(p)
            BY <2>1 DEF Expressed, SpawnsAlone
        <3>2. \A q \in ScanRequests : q # r => ~Deciding(q)
            BY <2>1 DEF Expressed, OneDecides, Deciding
        <3>3. scanAt'[r] = "write" /\ \A p \in ScanPids : IsUp(p)' => seen'[r] = p
            BY <3>1 DEF IsUp, ScanTypeOK
        <3>4. ASSUME NEW q \in ScanRequests, q # r
              PROVE  scanAt'[q] \notin {"wipe", "clean", "spawn", "write"}
            BY <3>2, <3>4 DEF Deciding, ScanTypeOK
        <3> QED
            BY <3>3, <3>4 DEF SpawnsAlone
    <2>5. ProgressIsRunners'
        BY <2>1 DEF Expressed, ProgressIsRunners, SpawnsAlone, OneRuns, IsUp, ScanTypeOK
    <2>6. RunnerIsFollowed'
        <3>1. \A p \in ScanPids : ~IsUp(p)
            BY <2>1 DEF Expressed, SpawnsAlone
        <3>2. \A p \in ScanPids : process'[p] = "alive" =>
                  scanAt'[r] = "write" /\ seen'[r] = p
            BY <3>1 DEF IsUp, ScanTypeOK
        <3> QED
            BY <3>2 DEF RunnerIsFollowed
    <2> QED
        BY <2>2, <2>3, <2>4, <2>5, <2>6 DEF Expressed
<1> QED
    BY <1>1, <1>2, <1>3, <1>4

LEMMA SpawnErrsKeepsInv ==
    ASSUME ScanInv, NEW r \in ScanRequests, SpawnErrs(r)
    PROVE  ScanInv'
<1> USE ScanManagerAssumption
    DEF SpawnErrs, ScanGoes, ScanInv, ScanCallers, ScanTypeOK
<1>1. ScanTypeOK' /\ SeenWasBorn' /\ BootIsAlone'
    BY DEF SeenWasBorn, BootIsAlone
<1>2. ASSUME Expressed PROVE OneDecides' /\ OneRuns' /\ RunnerIsNamed' /\ SpawnsAlone'
    BY <1>2 DEF Expressed, OneDecides, Deciding, OneRuns, IsUp, RunnerIsNamed, SpawnsAlone
<1>3. ASSUME Expressed PROVE ProgressIsRunners' /\ RunnerIsFollowed'
    BY <1>3 DEF Expressed, ProgressIsRunners, RunnerIsFollowed, Follows, BootIsAlone
<1> QED
    BY <1>1, <1>2, <1>3 DEF Expressed

LEMMA WriteKeepsInv ==
    ASSUME ScanInv, NEW r \in ScanRequests, WritePid(r)
    PROVE  ScanInv'
<1> USE ScanManagerAssumption
    DEF WritePid, ScanGoes, Keeps, ScanInv, ScanCallers, ScanTypeOK
<1>1. ScanTypeOK' /\ SeenWasBorn' /\ BootIsAlone'
    BY DEF SeenWasBorn, BootIsAlone
<1>2. ASSUME ~raced' PROVE OneDecides' /\ OneRuns' /\ RunnerIsNamed' /\ SpawnsAlone'
    BY <1>2 DEF Expressed, OneDecides, Deciding, OneRuns, IsUp, RunnerIsNamed, SpawnsAlone
<1>3. ASSUME ~raced' PROVE ProgressIsRunners' /\ RunnerIsFollowed'
    BY <1>3 DEF Expressed, ProgressIsRunners, RunnerIsFollowed, Follows, BootIsAlone
<1> QED
    BY <1>1, <1>2, <1>3 DEF Expressed

LEMMA WriteFailsKeepsInv ==
    ASSUME ScanInv, NEW r \in ScanRequests, WritePidFails(r)
    PROVE  ScanInv'
<1> USE ScanManagerAssumption
    DEF WritePidFails, ScanGoes, Keeps, ScanInv, ScanCallers
<1>1. ScanTypeOK' /\ raced'
    BY DEF ScanTypeOK
<1>2. SeenWasBorn' /\ BootIsAlone'
    BY DEF ScanTypeOK, SeenWasBorn, BootIsAlone
<1> QED
    BY <1>1, <1>2

LEMMA StartBridgeKeepsInv ==
    ASSUME ScanInv, NEW c \in ScanCallers \ Bridges, StartBridge(c)
    PROVE  ScanInv'
<1> USE ScanManagerAssumption
    DEF StartBridge, Keeps, ScanInv, ScanCallers, ScanTypeOK
<1>1. ScanTypeOK' /\ SeenWasBorn' /\ BootIsAlone'
    BY DEF SeenWasBorn, BootIsAlone
<1>2. ASSUME Expressed PROVE OneDecides' /\ OneRuns' /\ RunnerIsNamed' /\ SpawnsAlone'
    BY <1>2 DEF Expressed, OneDecides, Deciding, OneRuns, IsUp, RunnerIsNamed, SpawnsAlone
<1>3. ASSUME Expressed PROVE ProgressIsRunners' /\ RunnerIsFollowed'
    BY <1>3 DEF Expressed, ProgressIsRunners, RunnerIsFollowed, Follows, BootIsAlone
<1> QED
    BY <1>1, <1>2, <1>3 DEF Expressed

LEMMA TickKeepsInv ==
    ASSUME ScanInv, NEW b \in Bridges, Tick(b)
    PROVE  ScanInv'
<1> USE ScanManagerAssumption
    DEF Tick, ScanGoes, ScanInv, ScanCallers, ScanTypeOK
<1>1. ScanTypeOK' /\ SeenWasBorn' /\ BootIsAlone'
    BY DEF SeenWasBorn, BootIsAlone
<1>2. ASSUME ~raced' PROVE OneDecides' /\ OneRuns' /\ RunnerIsNamed' /\ SpawnsAlone'
    BY <1>2 DEF Expressed, OneDecides, Deciding, OneRuns, IsUp, RunnerIsNamed, SpawnsAlone
<1>3. ASSUME ~raced' PROVE ProgressIsRunners' /\ RunnerIsFollowed'
    BY <1>3 DEF Expressed, ProgressIsRunners, RunnerIsFollowed, Follows, BootIsAlone
<1> QED
    BY <1>1, <1>2, <1>3 DEF Expressed

LEMMA ReportKeepsInv ==
    ASSUME ScanInv, NEW p \in ScanPids, Report(p)
    PROVE  ScanInv'
<1> USE ScanManagerAssumption
    DEF Report, ScanInv, ScanCallers, ScanTypeOK
<1>1. ScanTypeOK' /\ SeenWasBorn' /\ BootIsAlone'
    BY DEF SeenWasBorn, BootIsAlone
<1>2. ASSUME ~raced' PROVE OneDecides' /\ OneRuns' /\ RunnerIsNamed' /\ SpawnsAlone'
    BY <1>2 DEF Expressed, OneDecides, Deciding, OneRuns, IsUp, RunnerIsNamed, SpawnsAlone
<1>3. ASSUME ~raced' PROVE ProgressIsRunners' /\ RunnerIsFollowed'
    BY <1>3 DEF Expressed, ProgressIsRunners, RunnerIsFollowed, Follows, BootIsAlone,
               SpawnsAlone, OneRuns, IsUp
<1> QED
    BY <1>1, <1>2, <1>3 DEF Expressed

LEMMA ExitKeepsInv ==
    ASSUME ScanInv, NEW p \in ScanPids, WorkerExits(p)
    PROVE  ScanInv'
<1> USE ScanManagerAssumption
    DEF WorkerExits, ScanInv, ScanCallers, ScanTypeOK
<1>1. ScanTypeOK' /\ SeenWasBorn' /\ BootIsAlone'
    BY DEF SeenWasBorn, BootIsAlone
<1>2. ASSUME ~raced' PROVE OneDecides' /\ OneRuns' /\ RunnerIsNamed' /\ SpawnsAlone'
    BY <1>2 DEF Expressed, OneDecides, Deciding, OneRuns, IsUp, RunnerIsNamed, SpawnsAlone
<1>3. ASSUME ~raced' PROVE ProgressIsRunners' /\ RunnerIsFollowed'
    BY <1>3 DEF Expressed, ProgressIsRunners, RunnerIsFollowed, Follows, BootIsAlone
<1> QED
    BY <1>1, <1>2, <1>3 DEF Expressed

LEMMA ServerGoesKeepsInv ==
    ASSUME ScanInv, ServerGoes
    PROVE  ScanInv'
<1> USE ScanManagerAssumption
    DEF ServerGoes, ScanInv, ScanCallers, ScanTypeOK
<1>1. ScanTypeOK' /\ SeenWasBorn' /\ BootIsAlone'
    BY DEF SeenWasBorn, BootIsAlone
<1>2. ASSUME ~raced' PROVE OneDecides' /\ OneRuns' /\ RunnerIsNamed' /\ SpawnsAlone'
    BY <1>2 DEF Expressed, OneDecides, Deciding, OneRuns, IsUp, RunnerIsNamed, SpawnsAlone
<1>3. ASSUME ~raced' PROVE ProgressIsRunners' /\ RunnerIsFollowed'
    BY <1>3 DEF Expressed, ProgressIsRunners, RunnerIsFollowed, Follows, BootIsAlone
<1> QED
    BY <1>1, <1>2, <1>3 DEF Expressed

LEMMA ScanInvHolds == ScanSpec => []ScanInv
<1>1. ScanInv /\ [ScanNext]_scanVars => ScanInv'
    <2>1. ScanInv /\ UNCHANGED scanVars => ScanInv'
        BY DEF scanVars, ScanInv, ScanTypeOK, SeenWasBorn, BootIsAlone, Expressed, OneDecides,
               Deciding, OneRuns, RunnerIsNamed, IsUp, SpawnsAlone, ProgressIsRunners,
               RunnerIsFollowed, Follows
    <2>2. ASSUME ScanInv, NEW c \in ScanCallers, Probe(c) PROVE ScanInv'
        BY <2>2, ReadKeepsInv, ProbeKeepsInv, ClearKeepsInv, WipeKeepsInv DEF Probe
    <2>3. ASSUME ScanInv, NEW r \in ScanRequests, SpawnStep(r) PROVE ScanInv'
        BY <2>3, CleanKeepsInv, SpawnKeepsInv, SpawnErrsKeepsInv, WriteKeepsInv,
           WriteFailsKeepsInv DEF SpawnStep
    <2>4. ASSUME ScanInv, NEW c \in ScanCallers \ Bridges, ScanStep(c) PROVE ScanInv'
        BY <2>2, <2>3, <2>4, StartBridgeKeepsInv DEF ScanStep
    <2>5. ASSUME ScanInv, NEW b \in Bridges, BridgeStep(b) PROVE ScanInv'
        BY <2>2, <2>5, TickKeepsInv DEF BridgeStep, ScanCallers
    <2>6. ASSUME ScanInv, NEW c \in ScanRequests \cup ScanPollers, Arrive(c) PROVE ScanInv'
        BY <2>6, ArriveKeepsInv DEF ScanCallers
    <2> QED
        BY <2>1, <2>4, <2>5, <2>6, ReportKeepsInv, ExitKeepsInv, ServerGoesKeepsInv DEF ScanNext
<1> QED
    BY <1>1, ScanInitInv, PTL DEF ScanSpec

(***************************************************************************)
(* The scan worker that runs is the only one, it is on file, and a bridge  *)
(* follows it, through every restart, unless the pid file was raced for.   *)
(***************************************************************************)
THEOREM ScanStaysFollowed == ScanSpec => []ScanIsFollowed
<1>1. ScanInv => ScanIsFollowed
    BY DEF ScanInv, ScanIsFollowed, Expressed, OneRuns, RunnerIsNamed, IsUp,
           RunnerIsFollowed, Follows
<1> QED
    BY <1>1, ScanInvHolds, PTL

-----------------------------------------------------------------------------
(***************************************************************************)
(* Generation.  Beside what the property says, a handler that began has    *)
(* its record in the table, and the poller of an answered request has been *)
(* told; a write into a closed record leaves the poller where it ends.     *)
(***************************************************************************)
GenOk(j) ==
    /\ gen[j] = "new" => genTable[j].token = NoGen /\ poller[j] = "none"
    /\ gen[j] # "new" => genTable[j].token = j
    /\ genTable[j].running <=> gen[j] \in Awaits \cup {"dropped"}
    /\ gen[j] = "result" <=> genTable[j].phase = "complete"
    /\ gen[j] = "failure" <=> genTable[j].phase = "error"
    /\ gen[j] \in {"prompt", "poll", "interrupt", "history", "fetch"} => poller[j] = "none"
    /\ poller[j] # "none" /\ gen[j] \in {"read", "save", "result", "failure"} =>
          j \in genCancelled
    /\ lateWrites[j] > 0 =>
          lateWrites[j] = 1 /\ j \in genCancelled /\ poller[j] \in {"wait", "ended"}

GenInv == GenTypeOK /\ \A j \in GenJobs : GenOk(j)

GenSpec == GenInit /\ [][GenNext]_genVars

LEMMA GenInitInv == GenInit => GenInv
BY GenerationAssumption
DEF GenInit, GenInv, GenOk, GenTypeOK, Awaits, Answers, Table!JobManagerInit, Table!JobManagerTypeOK,
    Table!NoJob, Table!Job, Table!Phases

\* What a step of one request may do to its record; the other records stay.
LEMMA GenFinish ==
    ASSUME GenInv, NEW j \in GenJobs, gen[j] # "new",
           NEW phase \in {"complete", "error"}, Table!Finish(j, phase, j)
    PROVE  /\ genTable' \in [GenJobs -> Table!Job]
           /\ genTable'[j].token = j /\ ~genTable'[j].running /\ genTable'[j].phase = phase
           /\ \A i \in GenJobs \ {j} : genTable'[i] = genTable[i]
<1>1. genTable[j].token = j /\ genTable \in [GenJobs -> Table!Job]
    BY DEF GenInv, GenOk, GenTypeOK, Table!JobManagerTypeOK
<1>2. Table!Close(j, phase, j)
    BY <1>1, GenerationAssumption DEF Table!Finish, Table!Present
<1>3. genTable' = [genTable EXCEPT ![j] = [genTable[j] EXCEPT
                      !.running = FALSE, !.phase = phase, !.outcome = j]]
    BY <1>1, <1>2 DEF Table!Close, Table!Job
<1> QED
    BY <1>1, <1>3 DEF Table!Job, Table!Phases

LEMMA GenStart ==
    ASSUME GenInv, NEW j \in GenJobs, Table!Start(j, j)
    PROVE  /\ genTable' \in [GenJobs -> Table!Job]
           /\ genTable'[j].token = j /\ genTable'[j].running /\ genTable'[j].phase = "none"
           /\ \A i \in GenJobs \ {j} : genTable'[i] = genTable[i]
BY GenerationAssumption
DEF GenInv, GenTypeOK, Table!JobManagerTypeOK, Table!Start, Table!NewJob, Table!Job, Table!Phases

LEMMA GenProgress ==
    ASSUME GenInv, NEW j \in GenJobs, NEW n \in 0 .. 1, Table!UpdateProgress(j, n)
    PROVE  /\ genTable' \in [GenJobs -> Table!Job]
           /\ \A i \in GenJobs : /\ genTable'[i].token = genTable[i].token
                                 /\ genTable'[i].running = genTable[i].running
                                 /\ genTable'[i].phase = genTable[i].phase
BY GenerationAssumption
DEF GenInv, GenTypeOK, Table!JobManagerTypeOK, Table!UpdateProgress, Table!Present, Table!Job

\* One step per kind of action; the steps of a handler either finish the record, or
\* write progress, or leave it alone.
LEMMA GenKeepsInv == GenInv /\ [GenNext]_genVars => GenInv'
<1> SUFFICES ASSUME GenInv, [GenNext]_genVars PROVE GenInv'
    OBVIOUS
<1> USE GenerationAssumption DEF GenGoes, Awaits, Answers
<1>0. genTable \in [GenJobs -> Table!Job] /\ genCancelled \subseteq GenJobs
    BY DEF GenInv, GenTypeOK, Table!JobManagerTypeOK
<1>1. CASE UNCHANGED genVars
    BY <1>1 DEF genVars, GenInv, GenTypeOK, GenOk, Table!JobManagerTypeOK
<1>2. ASSUME NEW j \in GenJobs, StartSd(j) \/ StartComfy(j) \/ StartGradio(j)
      PROVE  GenInv'
    <2>1. Table!Start(j, j)
        BY <1>2 DEF StartSd, StartComfy, StartGradio
    <2> QED
        BY <1>2, <2>1, GenStart
        DEF StartSd, StartComfy, StartGradio, GenInv, GenTypeOK, GenOk, Table!JobManagerTypeOK
<1>3. ASSUME NEW j \in GenJobs, NEW from \in Awaits, Fails(j, from) \/ Succeeds(j, from),
             from = "post" => genCancelled' = genCancelled \cup {j},
             from # "post" => genCancelled' = genCancelled,
             UNCHANGED <<path, poller, lateWrites>>
      PROVE  GenInv'
    <2>1. CASE Fails(j, from)
        <3>1. Table!Finish(j, "error", j) /\ gen[j] = from
            BY <2>1 DEF Fails
        <3> QED
            BY <1>0, <1>3, <2>1, <3>1, GenFinish
            DEF Fails, GenInv, GenTypeOK, GenOk, Table!JobManagerTypeOK
    <2>2. CASE Succeeds(j, from)
        <3>1. Table!Finish(j, "complete", j) /\ gen[j] = from
            BY <2>2 DEF Succeeds
        <3> QED
            BY <1>0, <1>3, <2>2, <3>1, GenFinish
            DEF Succeeds, GenInv, GenTypeOK, GenOk, Table!JobManagerTypeOK
    <2> QED
        BY <1>3, <2>1, <2>2
<1>4. ASSUME NEW j \in GenJobs, NEW from \in Awaits, NEW to \in Awaits,
             GenGoes(j, from, to), UNCHANGED genTable,
             to = "read" => genCancelled' = genCancelled \cup {j},
             to # "read" => genCancelled' = genCancelled,
             UNCHANGED <<path, poller, lateWrites>>,
             <<from, to>> \in {<<"post", "read">>, <<"read", "save">>, <<"prompt", "poll">>,
                 <<"poll", "interrupt">>, <<"poll", "history">>, <<"history", "poll">>,
                 <<"history", "fetch">>, <<"fetch", "save">>}
      PROVE  GenInv'
    BY <1>0, <1>4 DEF GenInv, GenTypeOK, GenOk, Table!JobManagerTypeOK
<1>5. ASSUME NEW j \in GenJobs, SdResponds(j) \/ SdReads(j)
      PROVE  GenInv'
    BY <1>3, <1>4, <1>5 DEF SdResponds, SdReads, Fails
<1>6. ASSUME NEW j \in GenJobs, Prompt(j) \/ SeesCancel(j) \/ PollSleeps(j) \/ PollTimesOut(j)
                                \/ Interrupts(j) \/ Fetches(j)
      PROVE  GenInv'
    BY <1>3, <1>4, <1>6
    DEF Prompt, SeesCancel, PollSleeps, PollTimesOut, Interrupts, Fetches, Fails
<1>7. ASSUME NEW j \in GenJobs, ReadsHistory(j)
      PROVE  GenInv'
    <2>1. ASSUME NEW n \in 0 .. 1, Table!UpdateProgress(j, n), GenGoes(j, "history", "poll")
          PROVE  GenInv'
        BY <1>0, <1>7, <2>1, GenProgress
        DEF ReadsHistory, GenInv, GenTypeOK, GenOk, Table!JobManagerTypeOK
    <2> QED
        BY <1>3, <1>4, <1>7, <2>1 DEF ReadsHistory, Fails
<1>8. ASSUME NEW j \in GenJobs, Saves(j)
      PROVE  GenInv'
    BY <1>3, <1>8 DEF Saves, Succeeds
<1>9. ASSUME NEW j \in GenJobs, PollerWaits(j)
      PROVE  GenInv'
    BY <1>0, <1>9 DEF PollerWaits, GenInv, GenTypeOK, GenOk, Table!JobManagerTypeOK
<1>10. ASSUME NEW j \in GenJobs, PollerWrites(j)
       PROVE  GenInv'
    <2>1. CASE UNCHANGED <<genTable, lateWrites>>
        BY <1>0, <1>10, <2>1
        DEF PollerWrites, GenInv, GenTypeOK, GenOk, Table!JobManagerTypeOK
    <2>2. ASSUME NEW n \in 0 .. 1, Table!UpdateProgress(j, n),
                 lateWrites' = [lateWrites EXCEPT ![j] = IF genTable[j].running THEN @ ELSE @ + 1]
          PROVE  GenInv'
        <3>1. lateWrites[j] = 0
            BY <1>10 DEF PollerWrites, GenInv, GenTypeOK, GenOk
        <3>2. ~genTable[j].running => j \in genCancelled
            BY <1>10 DEF PollerWrites, GenInv, GenTypeOK, GenOk
        <3> QED
            BY <1>0, <1>10, <2>2, <3>1, <3>2, GenProgress
            DEF PollerWrites, GenInv, GenTypeOK, GenOk, Table!JobManagerTypeOK
    <2> QED
        BY <1>10, <2>1, <2>2 DEF PollerWrites
<1>11. ASSUME NEW j \in GenJobs, CancelGen(j)
       PROVE  GenInv'
    <2>1. genTable[j].token = j
        BY <1>11 DEF CancelGen, Table!CancelJob, Table!IsRunning, GenInv, GenOk
    <2> QED
        BY <1>0, <1>11, <2>1
        DEF CancelGen, Table!CancelJob, GenInv, GenTypeOK, GenOk, Table!JobManagerTypeOK
<1>12. ASSUME NEW j \in GenJobs, DropGen(j)
       PROVE  GenInv'
    BY <1>0, <1>12 DEF DropGen, GenInv, GenTypeOK, GenOk, Table!JobManagerTypeOK
<1> QED
    BY <1>1, <1>2, <1>5, <1>6, <1>7, <1>8, <1>9, <1>10, <1>11, <1>12
    DEF GenNext, HandlerTurn, PollerTurn

\* For any number of requests on any path: a record shows running as long as its
\* handler is at work or was dropped, a closed one says what was answered, and a poller
\* writes into a closed record at most once (generate.rs:54-87, :165-318).
THEOREM GenerationStaysShown == GenSpec => [](GenerationIsShown /\ LateProgressOnce)
<1>1. GenInv => GenerationIsShown /\ LateProgressOnce
    BY DEF GenInv, GenTypeOK, GenOk, GenerationIsShown, LateProgressOnce
<1> QED
    BY <1>1, GenInitInv, GenKeepsInv, PTL DEF GenSpec

-----------------------------------------------------------------------------
(***************************************************************************)
(* The MCP sessions.  The invariant is the property with the types it      *)
(* needs, and that a session not yet begun has no owner.  Four actions     *)
(* touch the table; every other one leaves it alone.                       *)
(***************************************************************************)
McpInv ==
    /\ owner \in [McpIds -> McpIps \cup {NoIp}]
    /\ perIp \in [McpIps -> Nat]
    /\ sse \in [McpIds -> {"new", "first", "open", "leaving", "refused"}]
    /\ receiving \in [McpIds -> BOOLEAN]
    /\ \A s \in McpIds : sse[s] \in {"new", "refused"} => owner[s] = NoIp
    /\ SessionsAreCharged

McpSpec == McpInit /\ [][McpNext]_mcpVars

LEMMA OpenIsFinite ==
    /\ IsFiniteSet(Listed)
    /\ \A ip \in McpIps : IsFiniteSet(OpenOf(ip))
BY McpAssumption, FS_Subset DEF Listed, OpenOf

LEMMA McpInitInv == McpInit => McpInv
<1> SUFFICES ASSUME McpInit PROVE McpInv
    OBVIOUS
<1>1. Listed = {} /\ \A ip \in McpIps : OpenOf(ip) = {}
    BY McpAssumption DEF McpInit, Listed, OpenOf
<1>2. Cardinality({}) = 0
    BY FS_EmptySet
<1>3. ASSUME NEW ip \in McpIps
      PROVE  perIp[ip] = Cardinality(OpenOf(ip)) /\ perIp[ip] <= MaxPerIp
    <2>1. OpenOf(ip) = {}
        BY <1>1
    <2> QED
        BY <1>2, <2>1, McpAssumption DEF McpInit
<1>4. Cardinality(Listed) <= MaxMcpSessions
    BY <1>1, <1>2, McpAssumption
<1> QED
    BY <1>3, <1>4 DEF McpInit, McpInv, SessionsAreCharged

\* What reads of a session only what a step leaves alone stays as it was.
LEMMA McpQuiet ==
    ASSUME McpInv, UNCHANGED <<owner, perIp>>,
           sse' \in [McpIds -> {"new", "first", "open", "leaving", "refused"}],
           receiving' \in [McpIds -> BOOLEAN],
           \A s \in McpIds : sse'[s] \in {"new", "refused"} => owner[s] = NoIp,
           \A s \in McpIds : sse'[s] \in {"first", "open"} => receiving'[s] /\ s \in Listed,
           bound' \subseteq Listed
    PROVE  McpInv'
<1>1. Listed' = Listed /\ \A ip \in McpIps : OpenOf(ip)' = OpenOf(ip)
    BY DEF Listed, OpenOf
<1> QED
    BY <1>1 DEF McpInv, SessionsAreCharged, Reachable

LEMMA RegisterKeepsInv ==
    ASSUME McpInv, NEW s \in McpIds, NEW ip \in McpIps, Register(s, ip)
    PROVE  McpInv'
<1>1. s \notin Listed /\ s \notin OpenOf(ip)
    BY McpAssumption DEF Register, McpInv, Listed, OpenOf
<1>2. /\ Listed' = Listed \cup {s}
      /\ OpenOf(ip)' = OpenOf(ip) \cup {s}
      /\ \A other \in McpIps \ {ip} : OpenOf(other)' = OpenOf(other)
    BY <1>1, McpAssumption DEF Register, McpInv, Listed, OpenOf
<1>3. /\ Cardinality(Listed') = Cardinality(Listed) + 1
      /\ Cardinality(OpenOf(ip)') = Cardinality(OpenOf(ip)) + 1
    BY <1>1, <1>2, OpenIsFinite, FS_AddElement
<1>4. Cardinality(Listed) \in Nat
    BY OpenIsFinite, FS_CardinalityType
<1>5. /\ owner' \in [McpIds -> McpIps \cup {NoIp}]
      /\ perIp' \in [McpIps -> Nat]
      /\ sse' \in [McpIds -> {"new", "first", "open", "leaving", "refused"}]
      /\ receiving' \in [McpIds -> BOOLEAN]
      /\ \A t \in McpIds : sse'[t] \in {"new", "refused"} => owner'[t] = NoIp
    BY DEF Register, McpInv
<1>6. \A other \in McpIps :
          perIp'[other] = Cardinality(OpenOf(other)') /\ perIp'[other] <= MaxPerIp
    <2>1. /\ perIp'[ip] = perIp[ip] + 1 /\ perIp[ip] \in Nat /\ perIp[ip] < MaxPerIp
          /\ perIp[ip] = Cardinality(OpenOf(ip))
        BY DEF Register, Admits, McpInv, SessionsAreCharged
    <2>2. perIp'[ip] = Cardinality(OpenOf(ip)') /\ perIp'[ip] <= MaxPerIp
        BY <1>3, <2>1, McpAssumption
    <2>3. ASSUME NEW other \in McpIps \ {ip}
          PROVE  perIp'[other] = Cardinality(OpenOf(other)') /\ perIp'[other] <= MaxPerIp
        <3>1. perIp'[other] = perIp[other]
            BY DEF Register, McpInv
        <3>2. OpenOf(other)' = OpenOf(other)
            BY <1>2
        <3> QED
            BY <3>1, <3>2 DEF McpInv, SessionsAreCharged
    <2> QED
        BY <2>2, <2>3
<1>7. Cardinality(Listed') <= MaxMcpSessions
    BY <1>3, <1>4, McpAssumption DEF Register, Admits
<1>8. \A t \in McpIds : sse'[t] \in {"first", "open"} => t \in Listed' /\ receiving'[t]
    BY <1>2 DEF Register, McpInv, SessionsAreCharged, Reachable
<1>9. bound' \subseteq Listed'
    BY <1>2 DEF Register, McpInv, SessionsAreCharged
<1> QED
    BY <1>5, <1>6, <1>7, <1>8, <1>9 DEF McpInv, SessionsAreCharged, Reachable

LEMMA DropGuardKeepsInv ==
    ASSUME McpInv, NEW s \in McpIds, DropGuard(s)
    PROVE  McpInv'
<1>0. PICK ip \in McpIps : ip = owner[s]
    BY DEF DropGuard, McpInv
<1>1. ip \in McpIps /\ s \in Listed /\ s \in OpenOf(ip)
    BY <1>0, McpAssumption DEF Listed, OpenOf
<1>2. /\ Listed' = Listed \ {s}
      /\ OpenOf(ip)' = OpenOf(ip) \ {s}
      /\ \A other \in McpIps \ {ip} : OpenOf(other)' = OpenOf(other)
    <2>1. owner' = [owner EXCEPT ![s] = NoIp] /\ owner \in [McpIds -> McpIps \cup {NoIp}]
        BY DEF DropGuard, McpInv
    <2> QED
        BY <1>0, <2>1, McpAssumption DEF Listed, OpenOf
<1>3. /\ Cardinality(Listed') = Cardinality(Listed) - 1
      /\ Cardinality(OpenOf(ip)') = Cardinality(OpenOf(ip)) - 1
    BY <1>1, <1>2, OpenIsFinite, FS_RemoveElement
<1>4. Cardinality(Listed) \in Nat
    BY OpenIsFinite, FS_CardinalityType
<1>5. perIp[ip] = Cardinality(OpenOf(ip)) /\ perIp[ip] \in Nat /\ perIp[ip] <= MaxPerIp
    BY <1>1 DEF McpInv, SessionsAreCharged
<1>6. perIp[ip] >= 1
    <2>1. OpenOf(ip) # {}
        BY <1>1
    <2> QED
        BY <1>1, <1>5, <2>1, OpenIsFinite, FS_EmptySet
<1>7. perIp'[ip] = perIp[ip] - 1 /\ \A other \in McpIps \ {ip} : perIp'[other] = perIp[other]
    BY <1>0, <1>1, <1>5, <1>6 DEF DropGuard, McpInv
<1>8. \A other \in McpIps :
          perIp'[other] = Cardinality(OpenOf(other)') /\ perIp'[other] <= MaxPerIp
    <2>1. perIp'[ip] = Cardinality(OpenOf(ip)') /\ perIp'[ip] <= MaxPerIp
        BY <1>3, <1>5, <1>7, McpAssumption
    <2>2. ASSUME NEW other \in McpIps \ {ip}
          PROVE  perIp'[other] = Cardinality(OpenOf(other)') /\ perIp'[other] <= MaxPerIp
        <3>1. perIp'[other] = perIp[other] /\ OpenOf(other)' = OpenOf(other)
            BY <1>2, <1>7
        <3> QED
            BY <3>1 DEF McpInv, SessionsAreCharged
    <2> QED
        BY <1>1, <2>1, <2>2
<1>9. /\ owner' \in [McpIds -> McpIps \cup {NoIp}]
      /\ perIp' \in [McpIps -> Nat]
      /\ \A t \in McpIds : sse'[t] \in {"new", "refused"} => owner'[t] = NoIp
    BY <1>0, <1>1, <1>5, <1>6 DEF DropGuard, McpInv
<1>10. Cardinality(Listed') <= MaxMcpSessions
    BY <1>3, <1>4, McpAssumption DEF McpInv, SessionsAreCharged
<1>11. \A t \in McpIds : sse'[t] \in {"first", "open"} => t \in Listed' /\ receiving'[t]
    BY <1>2 DEF DropGuard, McpInv, SessionsAreCharged, Reachable
<1>12. bound' \subseteq Listed'
    BY <1>2 DEF DropGuard, McpInv, SessionsAreCharged
<1> QED
    BY <1>8, <1>9, <1>10, <1>11, <1>12 DEF DropGuard, McpInv, SessionsAreCharged, Reachable

LEMMA McpKeepsInv == McpInv /\ [McpNext]_mcpVars => McpInv'
<1> SUFFICES ASSUME McpInv, [McpNext]_mcpVars PROVE McpInv'
    OBVIOUS
<1> USE DEF session, messages
<1>0. /\ sse \in [McpIds -> {"new", "first", "open", "leaving", "refused"}]
      /\ receiving \in [McpIds -> BOOLEAN]
      /\ \A s \in McpIds : sse[s] \in {"new", "refused"} => owner[s] = NoIp
      /\ \A s \in McpIds : sse[s] \in {"first", "open"} => receiving[s] /\ s \in Listed
      /\ bound \subseteq Listed
    BY DEF McpInv, SessionsAreCharged, Reachable
<1>1. ASSUME UNCHANGED <<session, sse>> PROVE McpInv'
    BY <1>0, <1>1, McpQuiet
<1>2. ASSUME NEW s \in McpIds, NEW ip \in McpIps, Register(s, ip) \/ RefuseSession(s, ip)
      PROVE  McpInv'
    <2>1. CASE RefuseSession(s, ip)
        BY <1>0, <2>1, McpQuiet DEF RefuseSession
    <2> QED
        BY <1>2, <2>1, RegisterKeepsInv
<1>3. ASSUME NEW s \in McpIds, SessionStep(s) \/ Disconnect(s)
      PROVE  McpInv'
    <2>1. CASE DropGuard(s)
        BY <2>1, DropGuardKeepsInv
    <2>2. CASE DropReceiver(s)
        BY <1>0, <2>2, McpQuiet DEF DropReceiver
    <2>3. CASE FirstEvent(s) \/ Receive(s) \/ Disconnect(s)
        BY <1>0, <2>3, McpQuiet DEF FirstEvent, Receive, Disconnect
    <2> QED
        BY <1>3, <2>1, <2>2, <2>3 DEF SessionStep
<1>4. ASSUME NEW m \in McpPosts, Bind(m)
      PROVE  McpInv'
    BY <1>0, <1>4, McpQuiet DEF Bind
<1>5. ASSUME NEW m \in McpPosts,
             PostStep(m) \/ DropPost(m) \/ (\E s \in McpIds, ip \in McpIps : Post(m, s, ip))
      PROVE  McpInv'
    BY <1>1, <1>5 DEF PostStep, Dispatched, SendTo, CloseSession, DropPost, Post
<1>6. CASE UNCHANGED mcpVars
    BY <1>1, <1>6 DEF mcpVars
<1> QED
    BY <1>2, <1>3, <1>4, <1>5, <1>6 DEF McpNext

\* For any sessions, addresses and messages, within any limits: the count of an address
\* is the number of its sessions in the table, both limits hold, and a session is in
\* the table while its stream is open (mcp/session.rs:43-67, :106-116).
THEOREM SessionsStayCharged == McpSpec => []SessionsAreCharged
<1>1. McpInv => SessionsAreCharged
    BY DEF McpInv
<1> QED
    BY <1>1, McpInitInv, McpKeepsInv, PTL DEF McpSpec

(***************************************************************************)
(* Types of what the invariants above say nothing of: the file's users     *)
(* when some take no lock, and the queues and messages of the sessions.    *)
(***************************************************************************)
LEMMA SettingsTypes == SettingsSpec => []SettingsTypeOK
<1>1. SettingsInit => SettingsTypeOK
    BY SettingsFileAssumption DEF SettingsInit, SettingsTypeOK
<1>2. SettingsTypeOK /\ [SettingsNext]_settingsVars => SettingsTypeOK'
    <2> SUFFICES ASSUME SettingsTypeOK, [SettingsNext]_settingsVars PROVE SettingsTypeOK'
        OBVIOUS
    <2> USE SettingsFileAssumption DEF SettingsTypeOK, SaverGoes
    <2>1. CASE UNCHANGED settingsVars
        BY <2>1 DEF settingsVars
    <2>2. CASE SettingsCrash
        BY <2>2 DEF SettingsCrash
    <2>3. ASSUME NEW w \in Savers, BeginSave(w) \/ TakeSettingsLock(w) \/ DropSaver(w)
          PROVE  SettingsTypeOK'
        BY <2>3 DEF BeginSave, TakeSettingsLock, DropSaver
    <2>4. ASSUME NEW w \in Savers, LoadSettings(w) \/ ReplaceSettings(w) \/ AnswerSave(w)
          PROVE  SettingsTypeOK'
        BY <2>4 DEF LoadSettings, ReplaceSettings, AnswerSave
    <2> QED
        BY <2>1, <2>2, <2>3, <2>4 DEF SettingsNext, SaverStep
<1> QED
    BY <1>1, <1>2, PTL DEF SettingsSpec

\* The queue of every session is a queue of messages and marks within its depth.
Letters == McpPosts \cup {CloseMark}
QueuesTyped ==
    /\ mailbox \in [McpIds -> Seq(Letters)]
    /\ \A s \in McpIds : Len(mailbox[s]) <= QueueDepth

PostsTyped ==
    /\ post \in [McpPosts -> {"idle", "dispatch", "send", "full", "done", "dropped"}]
    /\ target \in [McpPosts -> McpIds]
    /\ reply \in [McpPosts -> {"none", "ok", "accepted", "missing", "forbidden", "malformed",
                               "disconnected", "unavailable"}]

LEMMA LetterFits ==
    ASSUME QueuesTyped, NEW s \in McpIds, NEW letter \in Letters, HasRoom(s),
           mailbox' = [mailbox EXCEPT ![s] = Append(@, letter)]
    PROVE  QueuesTyped'
<1>1. mailbox[s] \in Seq(Letters) /\ Len(mailbox[s]) \in Nat
    BY DEF QueuesTyped
<1>2. Append(mailbox[s], letter) \in Seq(Letters)
    BY <1>1
<1>3. Len(Append(mailbox[s], letter)) = Len(mailbox[s]) + 1
    BY <1>1
<1>4. Len(Append(mailbox[s], letter)) <= QueueDepth
    BY <1>1, <1>3, McpAssumption DEF HasRoom
<1> QED
    BY <1>2, <1>4 DEF QueuesTyped

LEMMA TakenLetterFits ==
    ASSUME QueuesTyped, NEW s \in McpIds,
           \/ mailbox[s] # <<>> /\ mailbox' = [mailbox EXCEPT ![s] = Tail(@)]
           \/ mailbox' = [mailbox EXCEPT ![s] = <<>>]
    PROVE  QueuesTyped'
<1>1. mailbox[s] \in Seq(Letters) /\ Len(mailbox[s]) \in Nat /\ Len(mailbox[s]) <= QueueDepth
    BY DEF QueuesTyped
<1>2. CASE mailbox[s] # <<>> /\ mailbox' = [mailbox EXCEPT ![s] = Tail(@)]
    <2>1. Tail(mailbox[s]) \in Seq(Letters) /\ Len(Tail(mailbox[s])) = Len(mailbox[s]) - 1
        BY <1>1, <1>2
    <2> QED
        BY <1>1, <1>2, <2>1, McpAssumption DEF QueuesTyped
<1>3. CASE mailbox' = [mailbox EXCEPT ![s] = <<>>]
    <2>1. <<>> \in Seq(Letters) /\ Len(<<>>) = 0
        OBVIOUS
    <2> QED
        BY <1>3, <2>1, McpAssumption DEF QueuesTyped
<1> QED
    BY <1>2, <1>3

LEMMA QueuesStayTyped == QueuesTyped /\ PostsTyped /\ [McpNext]_mcpVars => QueuesTyped'
<1> SUFFICES ASSUME QueuesTyped, PostsTyped, [McpNext]_mcpVars PROVE QueuesTyped'
    OBVIOUS
<1>1. ASSUME UNCHANGED mailbox PROVE QueuesTyped'
    BY <1>1 DEF QueuesTyped
<1>2. ASSUME NEW s \in McpIds, SessionStep(s) \/ Disconnect(s)
      PROVE  QueuesTyped'
    BY <1>1, <1>2, TakenLetterFits
    DEF SessionStep, FirstEvent, Receive, DropReceiver, DropGuard, Disconnect
<1>3. ASSUME NEW s \in McpIds, NEW ip \in McpIps, Register(s, ip) \/ RefuseSession(s, ip)
      PROVE  QueuesTyped'
    BY <1>1, <1>3 DEF Register, RefuseSession
<1>4. ASSUME NEW m \in McpPosts, SendTo(m) \/ CloseSession(m)
      PROVE  QueuesTyped'
    <2>1. target[m] \in McpIds /\ m \in Letters /\ CloseMark \in Letters
        BY DEF PostsTyped, Letters
    <2> QED
        BY <1>1, <1>4, <2>1, LetterFits DEF SendTo, CloseSession
<1>5. ASSUME NEW m \in McpPosts,
             Dispatched(m) \/ Bind(m) \/ DropPost(m)
                 \/ \E s \in McpIds, ip \in McpIps : Post(m, s, ip)
      PROVE  QueuesTyped'
    BY <1>1, <1>5 DEF Dispatched, Bind, DropPost, Post
<1>6. CASE UNCHANGED mcpVars
    BY <1>1, <1>6 DEF mcpVars
<1> QED
    BY <1>2, <1>3, <1>4, <1>5, <1>6 DEF McpNext, PostStep

LEMMA PostsStayTyped == PostsTyped /\ [McpNext]_mcpVars => PostsTyped'
<1> SUFFICES ASSUME PostsTyped, [McpNext]_mcpVars PROVE PostsTyped'
    OBVIOUS
<1>1. ASSUME UNCHANGED messages PROVE PostsTyped'
    BY <1>1 DEF messages, PostsTyped
<1>2. ASSUME NEW s \in McpIds, SessionStep(s) \/ Disconnect(s)
      PROVE  PostsTyped'
    BY <1>1, <1>2 DEF SessionStep, FirstEvent, Receive, DropReceiver, DropGuard, Disconnect
<1>3. ASSUME NEW s \in McpIds, NEW ip \in McpIps, Register(s, ip) \/ RefuseSession(s, ip)
      PROVE  PostsTyped'
    BY <1>1, <1>3 DEF Register, RefuseSession
<1>4. ASSUME NEW m \in McpPosts, SendTo(m) \/ CloseSession(m)
      PROVE  PostsTyped'
    BY <1>4 DEF SendTo, CloseSession, AnswerPost, PostsTyped
<1>5. ASSUME NEW m \in McpPosts, Dispatched(m) \/ Bind(m) \/ DropPost(m)
      PROVE  PostsTyped'
    BY <1>5 DEF Dispatched, Bind, DropPost, AnswerPost, PostsTyped, messages
<1>6. ASSUME NEW m \in McpPosts, NEW s \in McpIds, NEW ip \in McpIps, Post(m, s, ip)
      PROVE  PostsTyped'
    BY <1>6 DEF Post, AnswerPost, PostsTyped
<1>7. CASE UNCHANGED mcpVars
    BY <1>1, <1>7 DEF mcpVars, messages
<1> QED
    BY <1>2, <1>3, <1>4, <1>5, <1>6, <1>7 DEF McpNext, PostStep

LEMMA McpTypes == McpSpec => []McpTypeOK
<1>1. McpInit => QueuesTyped /\ PostsTyped
    <2> SUFFICES ASSUME McpInit PROVE QueuesTyped /\ PostsTyped
        OBVIOUS
    <2>1. (CHOOSE s \in McpIds : TRUE) \in McpIds
        BY McpAssumption
    <2> QED
        BY <2>1, McpAssumption DEF McpInit, QueuesTyped, PostsTyped
<1>2. McpInv /\ QueuesTyped /\ PostsTyped => McpTypeOK
    BY DEF McpInv, SessionsAreCharged, Listed, QueuesTyped, PostsTyped, Letters, McpTypeOK
<1> QED
    BY <1>1, <1>2, McpInitInv, McpKeepsInv, QueuesStayTyped, PostsStayTyped, PTL DEF McpSpec

-----------------------------------------------------------------------------
(***************************************************************************)
(* All parts side by side.  A behaviour of MCProcesses, in which one part  *)
(* is in focus, is one of each part's own specification.                   *)
(***************************************************************************)
PartsSpec == ScanSpec /\ BatchSpec /\ SettingsSpec /\ GenSpec /\ McpSpec

LEMMA FocusIsOneOfThem == ProcessesSpec => PartsSpec
<1>1. ProcessesInit => ScanInit /\ BatchInit /\ SettingsInit /\ GenInit /\ McpInit
    BY DEF ProcessesInit
<1>2. [ProcessesNext]_processVars =>
          /\ [ScanNext]_scanVars /\ [BatchNext]_batchVars /\ [SettingsNext]_settingsVars
          /\ [GenNext]_genVars /\ [McpNext]_mcpVars
    BY Zenon
    DEF ProcessesNext, processVars, InferFocus, ScanFocus, BatchFocus, SettingsFocus, TaskFocus,
        GenFocus, McpFocus
<1> QED
    BY <1>1, <1>2, PTL
    DEF ProcessesSpec, PartsSpec, ScanSpec, BatchSpec, SettingsSpec, GenSpec, McpSpec

\* The files and records of a scan, a batch and a generation tell the truth and are
\* well-typed, and sessions are charged to their addresses, whatever the parts do side
\* by side: for any number of requests, workers, batches, savers and sessions
\* (scan_manager.rs, caption_runner.rs, config_io.rs, generate.rs, mcp/session.rs).
THEOREM RunsStayShown == PartsSpec => []RunsAreShown
<1>1. ScanInv => ScanTypeOK
    BY DEF ScanInv
<1>2. BatchInv => BatchTypeOK
    BY DEF BatchInv
<1>3. GenInv => GenTypeOK
    BY DEF GenInv
<1>4. /\ ScanTypeOK /\ BatchTypeOK /\ SettingsTypeOK /\ GenTypeOK /\ McpTypeOK
      /\ ScanIsFollowed /\ BatchIsShown /\ GenerationIsShown /\ LateProgressOnce
      /\ SessionsAreCharged
      => RunsAreShown
    BY DEF RunsAreShown
<1> QED
    BY <1>1, <1>2, <1>3, <1>4, ScanInvHolds, BatchInvHolds, GenInitInv, GenKeepsInv,
       SettingsTypes, McpTypes, ScanStaysFollowed, BatchStaysShown, GenerationStaysShown,
       SessionsStayCharged, PTL
    DEF PartsSpec, GenSpec

\* The same of a behaviour in which one part is in focus.
COROLLARY RunsShownInFocus == ProcessesSpec => []RunsAreShown
BY FocusIsOneOfThem, RunsStayShown, PTL

\* Where every handler takes the lock, what was acknowledged takes effect: a saved
\* setting stays in the file through crashes, and a batch told to stop while it ran
\* begins no further file (config_io.rs, caption_runner.rs).
THEOREM AnswersStayHeld ==
    ASSUME BareSavers = {}
    PROVE  PartsSpec => AnswersHold
<1>1. SettingsSpec => []AcknowledgedIsKept
    BY AcknowledgedStaysKept
<1> QED
    BY <1>1, StopsAreObeyed, PTL DEF PartsSpec, AnswersHold
=============================================================================
