----------------------------- MODULE SourceTask -----------------------------
(***************************************************************************)
(* The per-source actors of source_task.rs.  Each owns one video source,   *)
(* serves Start / Stop / Delete / Test commands one at a time, follows the *)
(* events of its runtime, and holds one permit of the shared active_slots  *)
(* semaphore while it has a runtime.  The runtime is the FrameSupervisor,  *)
(* seen here through its promise (SourceEvents) only.                      *)
(*                                                                         *)
(* The clients are HTTP handlers: each sends a command and awaits the      *)
(* answer.  An action ends where the actor awaits.                         *)
(***************************************************************************)
EXTENDS Naturals, Sequences, FiniteSets, SourceEventOrder

CONSTANTS
    Sources, Clients,
    AdHoc,              \* actors spawned by a test of an unsaved URL
    Permits,            \* the permits of active_slots
    None,               \* no permit, no client
    CommandCapacity,    \* COMMAND_CAPACITY
    FrameBound,         \* bound: frames one runtime sends
    EventBound          \* bound: events waiting in a runtime's channel

ASSUME SourceTaskAssumption ==
    /\ AdHoc \subseteq Sources
    /\ None \notin Permits \cup Clients /\ "none" \notin Sources
    /\ CommandCapacity \in Nat \ {0}
    /\ FrameBound \in Nat /\ EventBound \in Nat

VARIABLES
    free,       \* permits left in active_slots
    permit,     \* active_permit, or the local permit of a running test
    task,       \* where each actor is
    after,      \* what the stop_running in progress is part of
    serving,    \* the client a stop or test in progress will answer
    queue,      \* the command channel: clients in order
    cmd,        \* each client's outstanding command
    status,     \* SourceStatus.state
    frames,     \* SourceStatus.frame_count
    rt,         \* the runtime's thread: none, up, or returned Ok / Err
    last,       \* the last event it sent
    stopReq,    \* request_stop was called on it
    sent,       \* frames it has sent
    events      \* its event channel

perms == <<free, permit>>
actor == <<task, after, serving>>
calls == <<queue, cmd>>
shown == <<status, frames>>
runtime == <<rt, last, stopReq, sent, events>>
vars == <<perms, actor, calls, shown, runtime>>

Rest == {"idle", "stopped", "error"}
Live == {"connecting", "active", "reconnecting"}
Ops == {"start", "stop", "delete", "test"}
NoCmd == [src |-> "none", op |-> "none"]

TypeOK ==
    /\ free \subseteq Permits
    /\ permit \in [Sources -> Permits \cup {None}]
    /\ task \in [Sources -> {"select", "stopping", "testing", "testwait", "gone"}]
    /\ after \in [Sources -> {"none", "stop", "delete", "ended", "error", "hangup"}]
    /\ serving \in [Sources -> Clients \cup {None}]
    /\ queue \in [Sources -> Seq(Clients)]
    /\ cmd \in [Clients -> [src : Sources, op : Ops] \cup {NoCmd}]
    /\ status \in [Sources -> Rest \cup Live]
    /\ frames \in [Sources -> 0 .. FrameBound]
    /\ rt \in [Sources -> {"none", "up", "ok", "err"}]
    /\ last \in [Sources -> Events \cup {"none"}]
    /\ stopReq \in [Sources -> BOOLEAN]
    /\ sent \in [Sources -> 0 .. FrameBound]
    /\ events \in [Sources -> Seq(Events)]

Init ==
    /\ free = Permits /\ permit = [s \in Sources |-> None]
    /\ task = [s \in Sources |-> "select"] /\ after = [s \in Sources |-> "none"]
    /\ serving = [s \in Sources |-> None]
    /\ queue = [s \in Sources |-> <<>>] /\ cmd = [c \in Clients |-> NoCmd]
    /\ status = [s \in Sources |-> "idle"] /\ frames = [s \in Sources |-> 0]
    /\ rt = [s \in Sources |-> "none"] /\ last = [s \in Sources |-> "none"]
    /\ stopReq = [s \in Sources |-> FALSE] /\ sent = [s \in Sources |-> 0]
    /\ events = [s \in Sources |-> <<>>]

-----------------------------------------------------------------------------
\* SourceHandle::request.  A full channel makes the handler wait; an actor
\* that is gone answers Closed at once, which changes nothing.

Request(c, s, op) ==
    /\ cmd[c] = NoCmd /\ task[s] # "gone"
    /\ s \in AdHoc => op = "test"
    /\ Len(queue[s]) < CommandCapacity
    /\ cmd' = [cmd EXCEPT ![c] = [src |-> s, op |-> op]]
    /\ queue' = [queue EXCEPT ![s] = Append(@, c)]
    /\ UNCHANGED <<perms, actor, shown, runtime>>

-----------------------------------------------------------------------------
\* Building blocks of the actor.

Goto(s, l) == task' = [task EXCEPT ![s] = l]

\* The head of the command channel of an actor in its select.
Received(s, op) ==
    /\ task[s] = "select" /\ queue[s] # <<>>
    /\ cmd[Head(queue[s])].op = op

Dequeue(s) == queue' = [queue EXCEPT ![s] = Tail(@)]

Answer(c) == cmd' = [cmd EXCEPT ![c] = NoCmd]

AnswerHead(s) == Dequeue(s) /\ Answer(Head(queue[s]))

SetStatus(s, st) == status' = [status EXCEPT ![s] = st]

Acquire(s, p) ==
    /\ p \in free
    /\ free' = free \ {p} /\ permit' = [permit EXCEPT ![s] = p]

Release(s) ==
    /\ free' = free \cup ({permit[s]} \ {None})
    /\ permit' = [permit EXCEPT ![s] = None]

\* factory.spawn succeeded: a new supervisor thread with its own channel.
SpawnRuntime(s) ==
    /\ rt' = [rt EXCEPT ![s] = "up"] /\ last' = [last EXCEPT ![s] = "none"]
    /\ stopReq' = [stopReq EXCEPT ![s] = FALSE] /\ sent' = [sent EXCEPT ![s] = 0]
    /\ events' = [events EXCEPT ![s] = <<>>]

DropRuntime(s) ==
    /\ rt' = [rt EXCEPT ![s] = "none"] /\ events' = [events EXCEPT ![s] = <<>>]
    /\ UNCHANGED <<last, stopReq, sent>>

\* Mutant: the runtime is awaited without request_stop.
AwaitWithoutRequest(s, l) == Goto(s, l) /\ UNCHANGED <<perms, shown, rt, last, stopReq, sent>>

\* stop_running with a runtime: request the stop, then await the thread.
AwaitRuntime(s, l) ==
    /\ Goto(s, l)
    /\ stopReq' = [stopReq EXCEPT ![s] = TRUE]
    /\ UNCHANGED <<perms, shown, rt, last, sent>>

BeginStop(s, why, c) ==
    /\ AwaitRuntime(s, "stopping")
    /\ after' = [after EXCEPT ![s] = why] /\ serving' = [serving EXCEPT ![s] = c]

\* Mutant: the queued commands are not answered.
DepartSilently(s, c) ==
    /\ Goto(s, "gone")
    /\ queue' = [queue EXCEPT ![s] = <<>>]
    /\ cmd' = [d \in Clients |-> IF d = c THEN NoCmd ELSE cmd[d]]

\* The actor returns and drops its channel: c, if any, has its answer, and the
\* queued commands answer Closed.
Depart(s, c) ==
    /\ Goto(s, "gone")
    /\ queue' = [queue EXCEPT ![s] = <<>>]
    /\ cmd' = [d \in Clients |->
                  IF d = c \/ \E i \in 1 .. Len(queue[s]) : queue[s][i] = d
                  THEN NoCmd ELSE cmd[d]]

-----------------------------------------------------------------------------
\* Start.

StartAgain(s) ==
    /\ Received(s, "start") /\ rt[s] # "none"
    /\ AnswerHead(s)
    /\ UNCHANGED <<perms, actor, shown, runtime>>

StartRefused(s) ==
    /\ Received(s, "start") /\ rt[s] = "none" /\ free = {}
    /\ AnswerHead(s)
    /\ UNCHANGED <<perms, actor, shown, runtime>>

\* Mutant: frame_count survives a Start.
StartKeepingFrames(s) ==
    /\ Received(s, "start") /\ rt[s] = "none"
    /\ \E p \in free : Acquire(s, p)
    /\ SetStatus(s, "connecting")
    /\ SpawnRuntime(s)
    /\ AnswerHead(s)
    /\ UNCHANGED <<actor, frames>>

Start(s) ==
    /\ Received(s, "start") /\ rt[s] = "none"
    /\ \E p \in free : Acquire(s, p)
    /\ SetStatus(s, "connecting") /\ frames' = [frames EXCEPT ![s] = 0]
    /\ SpawnRuntime(s)
    /\ AnswerHead(s)
    /\ UNCHANGED actor

\* The factory refuses: the permit goes back.
StartFails(s) ==
    /\ Received(s, "start") /\ rt[s] = "none" /\ free # {}
    /\ SetStatus(s, "error") /\ frames' = [frames EXCEPT ![s] = 0]
    /\ AnswerHead(s)
    /\ UNCHANGED <<perms, actor, runtime>>

-----------------------------------------------------------------------------
\* Stop and Delete.

\* Mutant: Stop answers on the request and leaves the thread to itself.
StopWithoutAwait(s) ==
    /\ Received(s, "stop") /\ rt[s] # "none"
    /\ stopReq' = [stopReq EXCEPT ![s] = TRUE]
    /\ SetStatus(s, "stopped")
    /\ AnswerHead(s)
    /\ UNCHANGED <<perms, actor, frames, rt, last, sent, events>>

StopRunning(s) ==
    /\ \E op \in {"stop", "delete"} :
          Received(s, op) /\ BeginStop(s, op, Head(queue[s]))
    /\ rt[s] # "none"
    /\ Dequeue(s)
    /\ UNCHANGED <<cmd, events>>

StopIdle(s) ==
    /\ Received(s, "stop") /\ rt[s] = "none"
    /\ SetStatus(s, "stopped")
    /\ AnswerHead(s)
    /\ UNCHANGED <<perms, actor, frames, runtime>>

DeleteIdle(s) ==
    /\ Received(s, "delete") /\ rt[s] = "none"
    /\ SetStatus(s, "stopped")
    /\ Depart(s, None)
    /\ UNCHANGED <<perms, after, serving, frames, runtime>>

\* The status a finished stop_running leaves, by what it was part of.
FinalStatus(s) ==
    CASE after[s] \in {"stop", "delete", "ended"} -> "stopped"
      [] after[s] = "error" -> "error"
      [] after[s] = "hangup" -> IF rt[s] = "ok" THEN "stopped" ELSE "error"

\* wait() returned: the permit is dropped, the status set, the answer sent.
Reaped(s) ==
    /\ task[s] = "stopping" /\ rt[s] \in {"ok", "err"}
    /\ Release(s)
    /\ SetStatus(s, FinalStatus(s))
    /\ DropRuntime(s)
    /\ after' = [after EXCEPT ![s] = "none"] /\ serving' = [serving EXCEPT ![s] = None]
    /\ \/ after[s] = "delete" /\ Depart(s, serving[s])
       \/ /\ after[s] # "delete" /\ Goto(s, "select")
          /\ IF serving[s] = None THEN UNCHANGED cmd ELSE Answer(serving[s])
          /\ UNCHANGED queue
    /\ UNCHANGED frames

\* The handle of an ad-hoc actor is dropped when its test is over.
HandleDropped(s) ==
    /\ s \in AdHoc /\ task[s] = "select" /\ queue[s] = <<>> /\ rt[s] = "none"
    /\ \A c \in Clients : cmd[c].src # s
    /\ Depart(s, None)
    /\ UNCHANGED <<perms, after, serving, shown, runtime>>

-----------------------------------------------------------------------------
\* Test.

TestRunning(s) ==
    /\ Received(s, "test") /\ rt[s] # "none"
    /\ AnswerHead(s)
    /\ UNCHANGED <<perms, actor, shown, runtime>>

\* No permit, or the factory refuses.
TestRefused(s) ==
    /\ Received(s, "test") /\ rt[s] = "none"
    /\ AnswerHead(s)
    /\ UNCHANGED <<perms, actor, shown, runtime>>

Test(s) ==
    /\ Received(s, "test") /\ rt[s] = "none"
    /\ \E p \in free : Acquire(s, p)
    /\ SpawnRuntime(s)
    /\ Goto(s, "testing") /\ serving' = [serving EXCEPT ![s] = Head(queue[s])]
    /\ Dequeue(s)
    /\ UNCHANGED <<after, cmd, shown>>

TestRetries(s) ==
    /\ task[s] = "testing" /\ events[s] # <<>> /\ Head(events[s]) = "reconnecting"
    /\ events' = [events EXCEPT ![s] = Tail(@)]
    /\ UNCHANGED <<perms, actor, calls, shown, rt, last, stopReq, sent>>

\* An event that decides the test, or the end of the channel.
TestDecided(s) ==
    /\ task[s] = "testing"
    /\ \/ events[s] # <<>> /\ Head(events[s]) # "reconnecting"
       \/ events[s] = <<>> /\ rt[s] # "up"
    /\ AwaitRuntime(s, "testwait")
    /\ UNCHANGED <<after, serving, calls, events>>

\* SOURCE_TEST_TIMEOUT.
TestTimesOut(s) ==
    /\ task[s] = "testing"
    /\ AwaitRuntime(s, "testwait")
    /\ UNCHANGED <<after, serving, calls, events>>

\* Mutant: the test forgets its permit.
TestReapedLeaking(s) ==
    /\ task[s] = "testwait" /\ rt[s] \in {"ok", "err"}
    /\ DropRuntime(s) /\ permit' = [permit EXCEPT ![s] = None]
    /\ Goto(s, "select") /\ serving' = [serving EXCEPT ![s] = None]
    /\ Answer(serving[s])
    /\ UNCHANGED <<free, after, queue, shown>>

TestReaped(s) ==
    /\ task[s] = "testwait" /\ rt[s] \in {"ok", "err"}
    /\ DropRuntime(s) /\ Release(s)
    /\ Goto(s, "select") /\ serving' = [serving EXCEPT ![s] = None]
    /\ Answer(serving[s])
    /\ UNCHANGED <<after, queue, shown>>

-----------------------------------------------------------------------------
\* Events.

Event(s, e) ==
    /\ task[s] = "select" /\ rt[s] # "none"
    /\ events[s] # <<>> /\ Head(events[s]) = e
    /\ events' = [events EXCEPT ![s] = Tail(@)]

OnConnected(s) ==
    /\ Event(s, "connected")
    /\ SetStatus(s, "active")
    /\ UNCHANGED <<perms, actor, calls, frames, rt, last, stopReq, sent>>

OnFrame(s) ==
    /\ Event(s, "frame")
    /\ SetStatus(s, "active") /\ frames' = [frames EXCEPT ![s] = @ + 1]
    /\ UNCHANGED <<perms, actor, calls, rt, last, stopReq, sent>>

OnReconnecting(s) ==
    /\ Event(s, "reconnecting")
    /\ SetStatus(s, "reconnecting")
    /\ UNCHANGED <<perms, actor, calls, frames, rt, last, stopReq, sent>>

\* Mutant: a terminal event only changes what pollers see.
OnTerminalShownOnly(s) ==
    /\ \E e \in Terminal :
          Event(s, e) /\ SetStatus(s, IF e = "error" THEN "error" ELSE "stopped")
    /\ UNCHANGED <<perms, actor, calls, frames, rt, last, stopReq, sent>>

OnTerminal(s) ==
    /\ \E e \in Terminal :
          Event(s, e) /\ BeginStop(s, IF e = "error" THEN "error" ELSE "ended", None)
    /\ UNCHANGED calls

\* finish_runtime: the channel closed without a terminal event.
OnClosed(s) ==
    /\ task[s] = "select" /\ rt[s] \in {"ok", "err"} /\ events[s] = <<>>
    /\ BeginStop(s, "hangup", None)
    /\ UNCHANGED <<calls, events>>

-----------------------------------------------------------------------------
\* The runtime's thread.  Nobody reads its channel once it is being awaited.

RuntimeSends(s, e) ==
    /\ rt[s] = "up" /\ e \in Follows(last[s])
    /\ e = "stopped" => stopReq[s]
    /\ e = "frame" => sent[s] < FrameBound
    /\ last' = [last EXCEPT ![s] = e]
    /\ sent' = [sent EXCEPT ![s] = IF e = "frame" THEN @ + 1 ELSE @]
    /\ IF stopReq[s] THEN UNCHANGED events
       ELSE Len(events[s]) < EventBound /\ events' = [events EXCEPT ![s] = Append(@, e)]
    /\ UNCHANGED <<perms, actor, calls, shown, rt, stopReq>>

RuntimeReturns(s) ==
    /\ rt[s] = "up"
    /\ \E r \in {"ok", "err"} : rt' = [rt EXCEPT ![s] = r]
    /\ UNCHANGED <<perms, actor, calls, shown, last, stopReq, sent, events>>

-----------------------------------------------------------------------------
ServeCommand(s) ==
    \/ StartAgain(s) \/ StartRefused(s) \/ Start(s) \/ StartFails(s)
    \/ StopRunning(s) \/ StopIdle(s) \/ DeleteIdle(s)
    \/ TestRunning(s) \/ TestRefused(s) \/ Test(s)

ServeEvent(s) ==
    OnConnected(s) \/ OnFrame(s) \/ OnReconnecting(s) \/ OnTerminal(s) \/ OnClosed(s)

Await(s) == Reaped(s) \/ TestRetries(s) \/ TestDecided(s) \/ TestReaped(s)

Next ==
    \/ \E c \in Clients, s \in Sources, op \in Ops : Request(c, s, op)
    \/ \E s \in Sources :
          \/ ServeCommand(s) \/ ServeEvent(s) \/ Await(s)
          \/ TestTimesOut(s) \/ HandleDropped(s)
          \/ \E e \in Events : RuntimeSends(s, e)
          \/ RuntimeReturns(s)

\* tokio::select! picks among ready branches at random, so a ready command is
\* not passed over for ever; timers fire; a runtime that was asked to stop, or
\* has sent its terminal event, returns (FrameSupervisor!StopEnds).
Fairness ==
    \A s \in Sources :
        /\ SF_vars(ServeCommand(s)) /\ WF_vars(ServeEvent(s))
        /\ WF_vars(Await(s)) /\ WF_vars(TestTimesOut(s))
        /\ WF_vars((stopReq[s] \/ last[s] \in Terminal) /\ RuntimeReturns(s))

Spec == Init /\ [][Next]_vars
FairSpec == Spec /\ Fairness

-----------------------------------------------------------------------------
\* Properties.

\* The semaphore is neither overdrawn nor leaked: every permit is free or held
\* by exactly one actor, and an actor holds one exactly while it has a runtime,
\* tests included.  Hence at most stream_max_sources ffmpeg supervisors exist.
PermitAccounting ==
    /\ \A s \in Sources : permit[s] # None <=> rt[s] # "none"
    /\ \A s \in Sources : permit[s] # None => permit[s] \notin free
    /\ \A s, t \in Sources : permit[s] = permit[t] /\ s # t => permit[s] = None
    /\ \A p \in Permits : p \in free \/ \E s \in Sources : permit[s] = p

\* What pollers see agrees with what exists: between commands and events a
\* source shows a live state exactly while it has a runtime.
StatusTracksRuntime ==
    \A s \in Sources : task[s] = "select" => (status[s] \in Live <=> rt[s] # "none")

\* "late frames cannot revive stopped state" (source_task.rs:745): a source at
\* rest comes to life through a Start and in no other way.
RevivedByStartOnly ==
    [][\A s \in Sources :
          status[s] \in Rest /\ status'[s] \in Live => Start(s)]_vars

FramesIn(q) == Cardinality({i \in DOMAIN q : q[i] = "frame"})

\* frame_count counts the frames of the present runtime only: what was counted
\* and what is still queued is what this runtime sent.
FramesAreThisRuns ==
    \A s \in Sources :
        task[s] = "select" /\ rt[s] # "none" =>
            frames[s] + FramesIn(events[s]) = sent[s]

\* A Stop or Delete that answers has reaped the runtime and returned its permit.
StopAnswersAfterReaping ==
    [][\A c \in Clients :
          cmd[c].op \in {"stop", "delete"} /\ cmd'[c] = NoCmd /\ task'[cmd[c].src] # "gone"
              => rt'[cmd[c].src] = "none" /\ permit'[cmd[c].src] = None]_vars

\* Only a Start brings a source to life, and a Stop answers when it is at rest.
SourceStepsInOrder == RevivedByStartOnly /\ StopAnswersAfterReaping

\* A deleted source is finished: no runtime, no permit, nobody left waiting in
\* its channel.
GoneIsClean ==
    \A s \in Sources : task[s] = "gone" =>
        /\ rt[s] = "none" /\ permit[s] = None /\ queue[s] = <<>>
        /\ status[s] \in Rest
        /\ \A c \in Clients : cmd[c].src # s

\* Every handler gets its answer: through stops, tests that time out, events
\* that keep arriving, and a Delete ahead of it in the channel.
EveryCommandAnswered == \A c \in Clients : cmd[c] # NoCmd ~> cmd[c] = NoCmd
=============================================================================
