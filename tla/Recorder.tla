------------------------------ MODULE Recorder ------------------------------
(***************************************************************************)
(* recorder.rs: one task owns every recording.  Action batches trigger,    *)
(* handlers of the registry stop, a monitor ticks every second and the     *)
(* server's end shuts down; their commands form one queue.  A frame is     *)
(* written to ffmpeg's pipe inside the command that brings it, and the     *)
(* task does nothing else meanwhile.                                       *)
(***************************************************************************)
EXTENDS Naturals, Sequences, FiniteSets

CONSTANTS
    Subjects,       \* source ids that can be recorded
    Triggers,       \* record actions, one trigger each
    Stoppers,       \* stop_source and delete_source calls, and shutdown
    Monitor,        \* the task that ticks
    MaxConcurrent,  \* MAX_CONCURRENT
    Duration, MaxDuration,  \* duration_sec and max_duration_sec of the rules
    TriggerWindow,  \* bound: the clock when the last trigger is received
    Horizon         \* bound: the clock

ASSUME RecorderAssumption ==
    /\ Subjects # {}
    /\ Triggers \cap Stoppers = {} /\ Monitor \notin Triggers \cup Stoppers
    /\ MaxConcurrent \in Nat \ {0}
    /\ Duration \in Nat \ {0} /\ MaxDuration \in Nat \ {0}
    /\ TriggerWindow \in Nat /\ Horizon \in Nat

VARIABLES
    recClock,
    recQueue,       \* the commands not yet received
    recorder,       \* "ready", "writing" a frame to ffmpeg, or "ended"
    writing,        \* the trigger whose frame is being written
    sessions,       \* RecordingSession by source
    asker           \* the callers: "idle", "waiting", "answered" or "unavailable"

recorderVars == <<recClock, recQueue, recorder, writing, sessions, asker>>

Callers == Triggers \cup Stoppers
Modes == {"fixed", "extend", "extend_max"}
NoSession == [mode |-> "none", started |-> 0, deadline |-> 0]
Sessions == [mode : Modes, started : 0 .. Horizon, deadline : Nat] \cup {NoSession}
Live == {s \in Subjects : sessions[s] # NoSession}

RecCommand == [op : {"none", "trigger", "stop", "tick", "shutdown"}, of : Subjects,
               from : Callers \cup {Monitor}]
NoCommand == [op |-> "none", of |-> CHOOSE s \in Subjects : TRUE, from |-> Monitor]

RecorderTypeOK ==
    /\ recClock \in 0 .. Horizon
    /\ recQueue \in Seq(RecCommand) /\ writing \in RecCommand
    /\ recorder \in {"ready", "writing", "ended"} /\ sessions \in [Subjects -> Sessions]
    /\ (recorder = "writing") <=> (writing.op = "trigger")
    /\ asker \in [Callers -> {"idle", "waiting", "answered", "unavailable"}]

RecorderInit ==
    /\ recClock = 0 /\ recQueue = <<>> /\ recorder = "ready" /\ writing = NoCommand
    /\ sessions = [s \in Subjects |-> NoSession]
    /\ asker = [p \in Callers |-> "idle"]

-----------------------------------------------------------------------------
\* The callers.  Once the task has ended, sending fails.

Ask(p, o, s) ==
    /\ asker[p] = "idle"
    /\ IF recorder = "ended"
       THEN asker' = [asker EXCEPT ![p] = "unavailable"] /\ UNCHANGED recQueue
       ELSE /\ recQueue' = Append(recQueue, [op |-> o, of |-> s, from |-> p])
            /\ asker' = [asker EXCEPT ![p] = "waiting"]
    /\ UNCHANGED <<recClock, recorder, writing, sessions>>

AskTrigger(t) == recClock <= TriggerWindow /\ \E s \in Subjects : Ask(t, "trigger", s)
AskStop(p) == \E s \in Subjects : Ask(p, "stop", s)
AskShutdown(p) == Ask(p, "shutdown", NoCommand.of)

\* The monitor waits until its tick is in the queue.  Bound: one tick waits.
SendTick ==
    /\ recorder # "ended" /\ \A i \in DOMAIN recQueue : recQueue[i].op # "tick"
    /\ recQueue' = Append(recQueue, [NoCommand EXCEPT !.op = "tick"])
    /\ UNCHANGED <<recClock, recorder, writing, sessions, asker>>

\* Bound: the last trigger is received at TriggerWindow.
PassTime ==
    /\ recClock = TriggerWindow => \A i \in DOMAIN recQueue : recQueue[i].op # "trigger"
    /\ recClock < Horizon /\ recClock' = recClock + 1
    /\ UNCHANGED <<recQueue, recorder, writing, sessions, asker>>

-----------------------------------------------------------------------------
\* The recorder task.

Receive(o) ==
    /\ recorder = "ready" /\ recQueue # <<>> /\ Head(recQueue).op = o
    /\ UNCHANGED recClock

Answer(p) == asker' = [asker EXCEPT ![p] = "answered"]

\* Mutant: extend_max forgets its maximum.
ExtendedForEver(session) ==
    IF session.mode = "fixed" THEN session
    ELSE [session EXCEPT !.deadline = recClock + Duration]

\* extend_deadline: the mode is the one the recording was started with.
Extended(session) ==
    LET later == recClock + Duration
        last == session.started + MaxDuration
    IN  CASE session.mode = "extend" -> [session EXCEPT !.deadline = later]
          [] session.mode = "extend_max" ->
                [session EXCEPT !.deadline = IF later < last THEN later ELSE last]
          [] OTHER -> session

\* The source is being recorded: a new deadline, then the frame.
ExtendSession ==
    /\ Receive("trigger") /\ Head(recQueue).of \in Live
    /\ sessions' = [sessions EXCEPT ![Head(recQueue).of] = Extended(@)]
    /\ recorder' = "writing" /\ writing' = Head(recQueue) /\ recQueue' = Tail(recQueue)
    /\ UNCHANGED asker

\* The rule's extend_mode is read here for the first time.
BeginSession ==
    /\ Receive("trigger") /\ Head(recQueue).of \notin Live
    /\ Cardinality(Live) < MaxConcurrent
    /\ \E m \in Modes : sessions' = [sessions EXCEPT ![Head(recQueue).of] =
          [mode |-> m, started |-> recClock, deadline |-> recClock + Duration]]
    /\ recorder' = "writing" /\ writing' = Head(recQueue) /\ recQueue' = Tail(recQueue)
    /\ UNCHANGED asker

\* Too many recordings, no disk space, an invalid request, or no ffmpeg.
RefuseTrigger ==
    /\ Receive("trigger") /\ Head(recQueue).of \notin Live
    /\ Answer(Head(recQueue).from) /\ recQueue' = Tail(recQueue)
    /\ UNCHANGED <<recorder, writing, sessions>>

FrameWritten ==
    /\ recorder = "writing" /\ recorder' = "ready"
    /\ Answer(writing.from) /\ writing' = NoCommand
    /\ UNCHANGED <<recClock, recQueue, sessions>>

\* finish_broken: the recording ends with its pipe.
PipeBroken ==
    /\ recorder = "writing" /\ recorder' = "ready"
    /\ Answer(writing.from) /\ writing' = NoCommand
    /\ sessions' = [sessions EXCEPT ![writing.of] = NoSession]
    /\ UNCHANGED <<recClock, recQueue>>

\* What is left of the recordings when those in gone are finished.
Remaining(gone) == [s \in Subjects |-> IF s \in gone THEN NoSession ELSE sessions[s]]

StopSession ==
    /\ Receive("stop")
    /\ LET c == Head(recQueue)
       IN  sessions' = Remaining({c.of}) /\ Answer(c.from)
    /\ recQueue' = Tail(recQueue)
    /\ UNCHANGED <<recorder, writing>>

Expired == {s \in Live : recClock >= sessions[s].deadline}

\* stop_expired, at the monitor's tick.
StopExpired ==
    /\ Receive("tick")
    /\ sessions' = Remaining(Expired) /\ recQueue' = Tail(recQueue)
    /\ UNCHANGED <<recorder, writing, asker>>

\* Mutant: commands still queued are left without an answer.
ShutdownForgettingQueue ==
    /\ Receive("shutdown")
    /\ sessions' = Remaining(Subjects) /\ Answer(Head(recQueue).from)
    /\ recorder' = "ended" /\ recQueue' = <<>>
    /\ UNCHANGED writing

\* stop_all; whoever is still in the queue is told the recorder is unavailable.
Shutdown ==
    /\ Receive("shutdown")
    /\ sessions' = Remaining(Subjects)
    /\ asker' = [p \in Callers |->
          CASE p = Head(recQueue).from -> "answered"
            [] \E i \in 2 .. Len(recQueue) : recQueue[i].from = p -> "unavailable"
            [] OTHER -> asker[p]]
    /\ recorder' = "ended" /\ recQueue' = <<>>
    /\ UNCHANGED writing

-----------------------------------------------------------------------------
RecorderStep ==
    \/ ExtendSession \/ BeginSession \/ RefuseTrigger \/ FrameWritten \/ PipeBroken
    \/ StopSession \/ StopExpired \/ Shutdown

RecorderNext ==
    \/ \E t \in Triggers : AskTrigger(t)
    \/ \E p \in Stoppers : AskStop(p) \/ AskShutdown(p)
    \/ SendTick \/ PassTime
    \/ RecorderStep

RecorderSpec == RecorderInit /\ [][RecorderNext]_recorderVars

\* The runtime polls the task and the monitor, time passes, and ffmpeg reads
\* its pipe or dies: write_frame has no timeout of its own.
RecorderFair ==
    /\ WF_recorderVars(RecorderStep) /\ WF_recorderVars(SendTick)
    /\ WF_recorderVars(PassTime)

-----------------------------------------------------------------------------
\* Properties.

\* However often it is triggered again, a fixed recording keeps its deadline, and
\* an extend_max one ends within its maximum, or within the duration it was begun
\* with when that is longer (extend_deadline, recorder.rs:548); and there are
\* never more than MAX_CONCURRENT recordings.
DeadlineIsBounded ==
    /\ Cardinality(Live) <= MaxConcurrent
    /\ \A s \in Live :
          LET length == sessions[s].deadline - sessions[s].started
          IN  /\ sessions[s].mode = "fixed" => length = Duration
              /\ sessions[s].mode = "extend_max" => length <= Duration \/ length <= MaxDuration

\* Every recording ends, the one too that a late trigger begins between
\* stop_source's end of the recording and the end of the source
\* (registry.rs:454): by its deadline, a stop, its pipe or the shutdown.
RecordingEnds == \A s \in Subjects : s \in Live ~> s \notin Live

\* Every caller hears from the recorder, although it may be shut down with
\* commands in its queue.
CallerIsAnswered == \A p \in Callers : asker[p] = "waiting" ~> asker[p] # "waiting"
=============================================================================
