---------------------------- MODULE ScanManager ----------------------------
(***************************************************************************)
(* The folder-scan worker of scan_manager.rs and scan-core's ipc.rs.  The  *)
(* worker is a process of its own that outlives the server; all the server *)
(* knows of it is in two files, the pid and the progress.  Everyone reads  *)
(* and clears those files without a lock: the requests that start a scan,  *)
(* those that ask for its status or cancel it, the tasks that bridge its   *)
(* progress to the event stream, and the boot of the server.               *)
(*                                                                         *)
(* The server never waits for its child, so a dead worker stays a zombie,  *)
(* for which kill(pid, 0) succeeds, until the server goes.  The worker     *)
(* itself is not in this repository: it reports, ends, and may or may not  *)
(* remove its pid.  Its arguments and the numbers it reports are left out. *)
(***************************************************************************)
EXTENDS Naturals

CONSTANTS
    ScanPids,           \* the worker processes, in the order they are spawned
    ScanRequests,       \* start, resume and scan-all handlers
    ScanPollers,        \* status and cancel handlers
    Bridges,            \* run_bridge tasks
    Boot,               \* reconnect_if_running, before the listener opens
    NoScan,
    ScanCrashBound      \* bound: how often the server goes

ScanCallers == ScanRequests \cup ScanPollers \cup Bridges \cup {Boot}

ASSUME ScanManagerAssumption ==
    /\ ScanPids \subseteq Nat /\ NoScan \notin ScanPids
    /\ Boot \notin ScanRequests \cup ScanPollers \cup Bridges
    /\ ScanRequests \cap ScanPollers = {} /\ Bridges \cap (ScanRequests \cup ScanPollers) = {}
    /\ ScanCrashBound \in Nat

VARIABLES
    pidFile,        \* the pid in worker.pid
    progressFile,   \* progress.json: absent, or what its running flag says
    process,        \* each worker; "ending": it has reported that it is done
    ours,           \* the children of the server that runs now
    scanAt,         \* where each caller is
    seen,           \* the pid it has read, or spawned
    raced,          \* history: something happened that the files cannot express
    scanCrashes

scanVars == <<pidFile, progressFile, process, ours, scanAt, seen, raced, scanCrashes>>

ScanTypeOK ==
    /\ pidFile \in ScanPids \cup {NoScan}
    /\ progressFile \in {"none", "going", "done"}
    /\ process \in [ScanPids -> {"unborn", "alive", "ending", "zombie", "gone"}]
    /\ ours \subseteq ScanPids
    /\ scanAt \in [ScanCallers -> {"idle", "tick", "check", "alive", "clear", "wipe",
                                   "clean", "spawn", "write", "bridge"}]
    /\ seen \in [ScanCallers -> ScanPids \cup {NoScan}]
    /\ raced \in BOOLEAN
    /\ scanCrashes \in 0 .. ScanCrashBound

ScanInit ==
    /\ pidFile = NoScan /\ progressFile = "none"
    /\ process = [p \in ScanPids |-> "unborn"] /\ ours = {}
    /\ scanAt = [c \in ScanCallers |-> IF c = Boot THEN "check" ELSE "idle"]
    /\ seen = [c \in ScanCallers |-> NoScan]
    /\ raced = FALSE /\ scanCrashes = 0

ScanGoes(c, from, to) == scanAt[c] = from /\ scanAt' = [scanAt EXCEPT ![c] = to]

\* The pid a caller has at hand is dropped when it is done with it.
Keeps(c, pid) == seen' = [seen EXCEPT ![c] = IF scanAt'[c] \in {"idle", "tick", "clean"}
                                            THEN NoScan ELSE pid]

\* is_process_alive: a zombie can be signalled.
Signalable(p) == p # NoScan /\ process[p] \in {"alive", "ending", "zombie"}

\* A request that has read the pid file and not yet written its own pid.
Deciding(r) == scanAt[r] \in {"alive", "clear", "wipe", "clean", "spawn", "write"}
StartsOverlap == \E r, q \in ScanRequests : r # q /\ Deciding(r) /\ Deciding(q)

----------------------------------------------------------------------------
(* is_worker_running, cut at its system calls                              *)

\* Where a caller goes with the answer "not running" and with "running".
NotRunning(c) == IF c \in ScanRequests THEN "clean" ELSE "idle"
IsRunning(c) ==
    IF c = Boot THEN "bridge" ELSE IF c \in Bridges THEN "tick" ELSE "idle"

ReadPid(c) ==
    /\ ScanGoes(c, "check", IF pidFile = NoScan THEN NotRunning(c) ELSE "alive")
    /\ Keeps(c, pidFile)
    /\ raced' = (raced \/ StartsOverlap')
    /\ UNCHANGED <<pidFile, progressFile, process, ours, scanCrashes>>

\* The probe; a cancel request sends its signal here, and the worker may end at
\* any time anyhow.
ProbePid(c) ==
    /\ ScanGoes(c, "alive", IF Signalable(seen[c]) THEN IsRunning(c) ELSE "clear")
    /\ Keeps(c, seen[c])
    /\ UNCHANGED <<pidFile, progressFile, process, ours, raced, scanCrashes>>

\* clear_pid removes the file, whatever pid it names by now.
ClearPid(c) ==
    /\ ScanGoes(c, "clear", "wipe")
    /\ pidFile' = NoScan
    /\ raced' = (raced \/ pidFile \notin {seen[c], NoScan})
    /\ UNCHANGED <<progressFile, process, ours, seen, scanCrashes>>

WipeProgress(c) ==
    /\ ScanGoes(c, "wipe", NotRunning(c))
    /\ Keeps(c, seen[c])
    /\ progressFile' = "none"
    /\ UNCHANGED <<pidFile, process, ours, raced, scanCrashes>>

Probe(c) == ReadPid(c) \/ ProbePid(c) \/ ClearPid(c) \/ WipeProgress(c)

----------------------------------------------------------------------------
(* spawn_worker                                                            *)

\* Requests are served once the server has booted.
Arrive(c) ==
    /\ c \in ScanRequests \cup ScanPollers /\ scanAt[Boot] = "idle"
    /\ ScanGoes(c, "idle", "check")
    /\ UNCHANGED <<pidFile, progressFile, process, ours, seen, raced, scanCrashes>>

\* Mutant: the progress of the last scan is left for the new one's bridge to find.
KeepProgress(r) ==
    /\ ScanGoes(r, "clean", "spawn")
    /\ UNCHANGED <<pidFile, progressFile, process, ours, seen, raced, scanCrashes>>

CleanProgress(r) ==
    /\ ScanGoes(r, "clean", "spawn")
    /\ progressFile' = "none"
    /\ UNCHANGED <<pidFile, process, ours, seen, raced, scanCrashes>>

\* Bound: pids are given out in order.
SpawnWorker(r) ==
    \E p \in ScanPids :
        /\ process[p] = "unborn" /\ \A q \in ScanPids : q < p => process[q] # "unborn"
        /\ ScanGoes(r, "spawn", "write")
        /\ process' = [process EXCEPT ![p] = "alive"] /\ ours' = ours \cup {p}
        /\ seen' = [seen EXCEPT ![r] = p]
        /\ UNCHANGED <<pidFile, progressFile, raced, scanCrashes>>

SpawnErrs(r) ==
    /\ ScanGoes(r, "spawn", "idle")
    /\ UNCHANGED <<pidFile, progressFile, process, ours, seen, raced, scanCrashes>>

WritePid(r) ==
    /\ ScanGoes(r, "write", "bridge")
    /\ pidFile' = seen[r]
    /\ UNCHANGED <<progressFile, process, ours, seen, raced, scanCrashes>>

\* The error is returned, and the worker that nobody knows of runs on.
WritePidFails(r) ==
    /\ ScanGoes(r, "write", "idle")
    /\ Keeps(r, seen[r])
    /\ raced' = TRUE
    /\ UNCHANGED <<pidFile, progressFile, process, ours, scanCrashes>>

\* For a request and for the boot; an older bridge is detached, not ended.
StartBridge(c) ==
    \E b \in Bridges :
        /\ scanAt[c] = "bridge" /\ scanAt[b] = "idle"
        /\ scanAt' = [scanAt EXCEPT ![c] = "idle", ![b] = "tick"]
        /\ Keeps(c, seen[c])
        /\ UNCHANGED <<pidFile, progressFile, process, ours, raced, scanCrashes>>

SpawnStep(r) ==
    \/ CleanProgress(r) \/ SpawnWorker(r) \/ SpawnErrs(r)
    \/ WritePid(r) \/ WritePidFails(r)

----------------------------------------------------------------------------
(* run_bridge                                                              *)

\* A worker that says it is done is believed; of any other the pid is probed.
Tick(b) ==
    /\ ScanGoes(b, "tick", IF progressFile = "done" THEN "idle" ELSE "check")
    /\ UNCHANGED <<pidFile, progressFile, process, ours, seen, raced, scanCrashes>>

----------------------------------------------------------------------------
(* The worker process, and the death of the server                         *)

Report(p) ==
    /\ process[p] = "alive"
    /\ \/ progressFile' = "going" /\ process' = process
       \/ progressFile' = "done" /\ process' = [process EXCEPT ![p] = "ending"]
    /\ UNCHANGED <<pidFile, ours, scanAt, seen, raced, scanCrashes>>

\* It ends by itself, by a signal or by a crash, and may have removed its pid.
WorkerExits(p) ==
    /\ process[p] \in {"alive", "ending"}
    /\ process' = [process EXCEPT ![p] = IF p \in ours THEN "zombie" ELSE "gone"]
    /\ pidFile' \in {pidFile} \cup (IF pidFile = p THEN {NoScan} ELSE {})
    /\ UNCHANGED <<progressFile, ours, scanAt, seen, raced, scanCrashes>>

\* The worker has a session of its own and survives; its zombie is reaped by init.
ServerGoes ==
    /\ scanCrashes < ScanCrashBound /\ scanCrashes' = scanCrashes + 1
    /\ process' = [p \in ScanPids |-> IF process[p] = "zombie" THEN "gone" ELSE process[p]]
    /\ ours' = {}
    /\ raced' = (raced \/ \E r \in ScanRequests : scanAt[r] = "write")
    /\ scanAt' = [c \in ScanCallers |-> IF c = Boot THEN "check" ELSE "idle"]
    /\ seen' = [c \in ScanCallers |-> NoScan]
    /\ UNCHANGED <<pidFile, progressFile>>

ScanStep(c) == Probe(c) \/ StartBridge(c) \/ (c \in ScanRequests /\ SpawnStep(c))
BridgeStep(b) == Probe(b) \/ Tick(b)

ScanNext ==
    \/ \E c \in ScanRequests \cup ScanPollers : Arrive(c)
    \/ \E c \in ScanCallers \ Bridges : ScanStep(c)
    \/ \E b \in Bridges : BridgeStep(b)
    \/ \E p \in ScanPids : Report(p) \/ WorkerExits(p)
    \/ ServerGoes

----------------------------------------------------------------------------
\* Unless two starts overlapped, a stale pid was cleared over a new one, or a pid
\* was not written (raced): one scan worker runs at most, the pid file names it or
\* its starter is about to write it, and while it has not reported its end a bridge
\* follows it, from the moment the server has booted, through every restart.
ScanIsFollowed ==
    ~raced /\ scanAt[Boot] = "idle" =>
        \A p \in ScanPids : process[p] = "alive" =>
            /\ \A q \in ScanPids \ {p} : process[q] \notin {"alive", "ending"}
            /\ \/ pidFile = p
               \/ \E r \in ScanRequests : scanAt[r] = "write" /\ seen[r] = p
            /\ \/ \E b \in Bridges : scanAt[b] # "idle"
               \/ \E r \in ScanRequests : scanAt[r] \in {"write", "bridge"} /\ seen[r] = p

\* A bridge ends once the worker has said that it is done, or no pid that could be
\* signalled is on file; a dead worker of this server whose pid stays on file is one
\* that can be, and its bridge goes on until the server goes.
BridgeEnds ==
    \A b \in Bridges :
        []<>(scanAt[b] = "idle" \/ (progressFile # "done" /\ Signalable(pidFile)))
=============================================================================
