--------------------------- MODULE InferSupervisor ---------------------------
(***************************************************************************)
(* The supervision of the yu-infer sidecar: the task of infer_manager.rs   *)
(* that polls the process and respawns it after a crash, and the graceful  *)
(* shutdown closure of main.rs that stops the task and terminates whatever *)
(* child is installed.  Both meet on the `stop' flag and on the mutex      *)
(* around the installed child.  The behaviour begins where main has        *)
(* spawned the task with a healthy child.                                  *)
(*                                                                         *)
(* When axum::serve returns, main returns and the runtime is dropped: the  *)
(* task is then cancelled at the await it is suspended at.                 *)
(***************************************************************************)
EXTENDS Naturals

CONSTANTS
    Pids,           \* the processes ever spawned (a bound)
    NoPid,
    MaxAttempts     \* max_attempts of spawn_with_restart

ASSUME InferSupervisorAssumption ==
    NoPid \notin Pids /\ Pids # {} /\ MaxAttempts \in Nat \ {0}

VARIABLES
    proc,       \* each process: alive, a zombie, or reaped
    signalled,  \* processes that were sent SIGTERM or killed
    installed,  \* the child behind the mutex
    new,        \* the child a respawn is waiting for
    attempt,    \* the attempt it is at
    pc,         \* the supervise task
    stop,       \* infer_supervisor_stop
    shut        \* the shutdown closure, and main after it

procs == <<proc, signalled>>
respawn == <<new, attempt>>
closure == <<stop, shut>>
vars == <<procs, installed, respawn, pc, closure>>

\* Where the task is suspended at an await, and may be cancelled.
Awaiting == {"sleep", "health", "pause"}

TypeOK ==
    /\ proc \in [Pids -> {"unborn", "alive", "zombie", "reaped"}]
    /\ signalled \subseteq Pids
    /\ installed \in Pids
    /\ new \in Pids \cup {NoPid}
    /\ attempt \in 0 .. MaxAttempts
    /\ pc \in Awaiting \cup {"poll", "check", "spawn", "install", "discard",
                             "returned", "cancelled"}
    /\ stop \in BOOLEAN
    /\ shut \in {"serving", "stopping", "terminating", "draining", "exited"}

Init ==
    /\ installed \in Pids
    /\ proc = [p \in Pids |-> IF p = installed THEN "alive" ELSE "unborn"]
    /\ signalled = {} /\ new = NoPid /\ attempt = 0
    /\ pc = "sleep" /\ stop = FALSE /\ shut = "serving"

Goto(l) == pc' = l

-----------------------------------------------------------------------------
\* supervise.

Wake ==
    /\ pc = "sleep"
    /\ Goto(IF stop THEN "returned" ELSE "poll")
    /\ UNCHANGED <<procs, installed, respawn, closure>>

\* try_wait under the lock; a status once obtained is obtained again.  The
\* call may also fail, which counts as still running.
Poll ==
    /\ pc = "poll"
    /\ \/ /\ proc[installed] \in {"zombie", "reaped"}
          /\ proc' = [proc EXCEPT ![installed] = "reaped"]
          /\ Goto("check")
       \/ Goto("sleep") /\ UNCHANGED proc
    /\ UNCHANGED <<signalled, installed, respawn, closure>>

CheckStop ==
    /\ pc = "check"
    /\ IF stop THEN Goto("returned") /\ UNCHANGED attempt
               ELSE Goto("spawn") /\ attempt' = 1
    /\ UNCHANGED <<procs, installed, new, closure>>

-----------------------------------------------------------------------------
\* spawn_with_restart.  It does not look at `stop'.

NextAttempt ==
    /\ new' = NoPid
    /\ IF attempt < MaxAttempts THEN Goto("pause") /\ UNCHANGED attempt
                                ELSE Goto("sleep") /\ attempt' = 0

Spawn ==
    /\ pc = "spawn"
    /\ \E p \in Pids :
          /\ proc[p] = "unborn"
          /\ proc' = [proc EXCEPT ![p] = "alive"] /\ new' = p
    /\ Goto("health")
    /\ UNCHANGED <<signalled, installed, attempt, closure>>

SpawnFails ==
    /\ pc = "spawn"
    /\ NextAttempt
    /\ UNCHANGED <<procs, installed, closure>>

\* wait_for_healthy: the child answers with this instance's id ...
Healthy ==
    /\ pc = "health" /\ proc[new] = "alive"
    /\ Goto("install")
    /\ UNCHANGED <<procs, installed, respawn, closure>>

\* Mutant: an unhealthy child is left to itself.
UnhealthyUnreaped ==
    /\ pc = "health"
    /\ NextAttempt
    /\ UNCHANGED <<procs, installed, closure>>

\* ... or the five seconds pass: kill and wait.
Unhealthy ==
    /\ pc = "health"
    /\ proc' = [proc EXCEPT ![new] = "reaped"] /\ signalled' = signalled \cup {new}
    /\ NextAttempt
    /\ UNCHANGED <<installed, closure>>

Pause ==
    /\ pc = "pause"
    /\ Goto("spawn") /\ attempt' = attempt + 1
    /\ UNCHANGED <<procs, installed, new, closure>>

\* Mutant: the new child is installed without a second look at `stop'.
InstallUnchecked ==
    /\ pc = "install"
    /\ installed' = new /\ new' = NoPid /\ Goto("sleep")
    /\ attempt' = 0
    /\ UNCHANGED <<procs, closure>>

\* Mutant: the discarded child is waited for without a signal.
InstallUnsignalled ==
    /\ pc = "install"
    /\ IF stop THEN Goto("discard") /\ UNCHANGED <<installed, new>>
               ELSE installed' = new /\ new' = NoPid /\ Goto("sleep")
    /\ attempt' = 0
    /\ UNCHANGED <<procs, closure>>

\* The recheck and the installation, under one acquisition of the lock.
Install ==
    /\ pc = "install"
    /\ IF stop
       THEN Goto("discard") /\ signalled' = signalled \cup {new} /\ UNCHANGED <<installed, new>>
       ELSE installed' = new /\ new' = NoPid /\ Goto("sleep") /\ UNCHANGED signalled
    /\ attempt' = 0
    /\ UNCHANGED <<proc, closure>>

\* The blocking wait for the discarded child.
Discarded ==
    /\ pc = "discard" /\ proc[new] = "zombie"
    /\ proc' = [proc EXCEPT ![new] = "reaped"] /\ new' = NoPid
    /\ Goto("returned")
    /\ UNCHANGED <<signalled, installed, attempt, closure>>

-----------------------------------------------------------------------------
\* The graceful shutdown.

RequestStop ==
    /\ shut = "serving"
    /\ stop' = TRUE /\ shut' = "stopping"
    /\ UNCHANGED <<procs, installed, respawn, pc>>

\* stream.shutdown().await takes its time.
StreamsDown ==
    /\ shut = "stopping" /\ shut' = "terminating"
    /\ UNCHANGED <<procs, installed, respawn, pc, stop>>

\* Lock and terminate_child.
Terminate ==
    /\ shut = "terminating" /\ shut' = "draining"
    /\ signalled' = signalled \cup {installed}
    /\ UNCHANGED <<proc, installed, respawn, pc, stop>>

\* axum::serve returns and the runtime goes, with the task at an await.
Exit ==
    /\ shut = "draining" /\ pc \in Awaiting \cup {"returned"}
    /\ shut' = "exited" /\ Goto(IF pc = "returned" THEN pc ELSE "cancelled")
    /\ UNCHANGED <<procs, installed, respawn, stop>>

-----------------------------------------------------------------------------
\* A process crashes, or obeys SIGTERM.
Dies(p) ==
    /\ proc[p] = "alive" /\ proc' = [proc EXCEPT ![p] = "zombie"]
    /\ UNCHANGED <<signalled, installed, respawn, pc, closure>>

Supervise ==
    \/ Wake \/ Poll \/ CheckStop \/ Spawn \/ SpawnFails \/ Healthy \/ Unhealthy
    \/ Pause \/ Install \/ Discarded

Shutdown == StreamsDown \/ Terminate

Next == Supervise \/ RequestStop \/ Shutdown \/ Exit \/ \E p \in Pids : Dies(p)

Spec == Init /\ [][Next]_vars

\* Timers fire, the shutdown proceeds, and a signalled sidecar exits.  The
\* runtime is not assumed to be dropped before the task has returned.
FairSpec ==
    /\ Spec
    /\ WF_vars(Supervise) /\ WF_vars(Shutdown)
    /\ \A p \in Pids : WF_vars(p \in signalled /\ Dies(p))

-----------------------------------------------------------------------------
\* Properties.

Running == {p \in Pids : proc[p] = "alive"}

\* The port and the accelerator are never contended: a new sidecar is spawned
\* only when the previous one is dead, through crashes, unhealthy attempts and
\* a shutdown in between.
OneSidecar == \A p, q \in Running : p = q

\* What runs is known: every live sidecar is the installed one or the one the
\* respawn is at, so that a shutdown or a later attempt can reach it.
NoStray == pc # "cancelled" => Running \subseteq {installed, new}

\* At most one sidecar runs, and it is where a shutdown finds it.
SidecarIsKnown == OneSidecar /\ NoStray

\* The mutual exclusion the comment at infer_manager.rs:213 argues for: when
\* the task has returned and the closure has run, every live sidecar has been
\* told to go.
StoppedIsTold ==
    pc = "returned" /\ shut \in {"draining", "exited"} => Running \subseteq signalled

\* The supervision ends after a stop, in the middle of a respawn too.
SupervisionEnds == stop ~> pc \in {"returned", "cancelled"}

\* ... and the sidecar with it, if the task is given the time to return.
SidecarEnds == stop ~> Running = {} \/ pc = "cancelled"

\* A stop ends the supervision and the sidecar, in the middle of a respawn too.
ShutdownEnds == SupervisionEnds /\ SidecarEnds

\* "orphaning it" (infer_manager.rs:217): no sidecar survives the server
\* without having been told to go.
NoOrphan == shut = "exited" => Running \subseteq signalled
=============================================================================
