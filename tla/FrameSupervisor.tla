-------------------------- MODULE FrameSupervisor --------------------------
(***************************************************************************)
(* The supervisor thread of one video source (frame_source.rs): it starts  *)
(* an ffmpeg child, a reader thread that turns its output into frames, and *)
(* retries failed attempts with a back-off.  Four threads of control meet  *)
(* on the Clock's condition variable: the supervisor, the reader, whoever  *)
(* requests the stop, and time.                                            *)
(*                                                                         *)
(* The Clock's token counts notifications; only whether it has moved since *)
(* the supervisor last read it matters, which is `notified'.  Deadlines    *)
(* are likewise only passed or not: `overdue'.                             *)
(***************************************************************************)
EXTENDS Naturals, SourceEventOrder

CONSTANTS MaxFailures, Policy

ASSUME FrameSupervisorAssumption ==
    /\ MaxFailures \in Nat \ {0}
    /\ Policy \in {"Ended", "FileError", "Retry"}

VARIABLES
    pc,         \* the supervisor thread
    cause,      \* why the current attempt is being shut down
    failures,   \* consecutive failed attempts
    last,       \* the latest SupervisorEvent sent
    result,     \* what the supervisor returned
    child,      \* the ffmpeg process
    reader,     \* the reader thread
    hand,       \* the ReaderEvent the reader is sending
    chan,       \* the one slot of sync_channel(1)
    rx,         \* the receiving side of chan is alive
    stop,       \* the stop flag
    stopper,    \* the thread in request_stop
    notified,   \* the token has moved since the supervisor read it
    overdue     \* the deadline in force has passed

supervisor == <<pc, cause, failures, last, result>>
attempt == <<child, reader, hand, chan, rx>>
signal == <<stop, stopper>>
vars == <<supervisor, attempt, signal, notified, overdue>>

InAttempt == {"token", "check", "recv", "deadline", "wait"}
InShutdown == {"shutdown", "join"}
InBackoff == {"backoff", "btoken", "bcheck", "bwait"}
Between == {"top", "connect"} \cup InBackoff

PlaceTypeOK ==
    /\ pc \in InAttempt \cup InShutdown \cup Between \cup {"return", "done"}
    /\ cause \in {"none", "stop", "eof", "failure"}
    /\ last \in Events \cup {"none"}
    /\ result \in {"none", "ok", "err"}
    /\ child \in {"none", "alive", "killed"}
    /\ reader \in {"none", "reading", "sending", "notifying", "gone", "panicked"}
    /\ hand \in {"none", "frame", "eof", "error"}
    /\ chan \in {"none", "frame", "eof", "error"}
    /\ stopper \in {"idle", "stored", "done"}

FlagTypeOK ==
    rx \in BOOLEAN /\ stop \in BOOLEAN /\ notified \in BOOLEAN /\ overdue \in BOOLEAN

TypeOK == PlaceTypeOK /\ FlagTypeOK /\ failures \in 0 .. MaxFailures - 1

Init ==
    /\ pc = "top" /\ cause = "none" /\ failures = 0 /\ last = "none" /\ result = "none"
    /\ child = "none" /\ reader = "none" /\ hand = "none" /\ chan = "none" /\ rx = FALSE
    /\ stop = FALSE /\ stopper = "idle"
    /\ notified = FALSE /\ overdue = FALSE

-----------------------------------------------------------------------------
\* run_supervisor.

Goto(l) == pc' = l
Return(r) == pc' = "return" /\ result' = r

\* Mutant: reader_rx is not dropped before the child is shut down.
AbandonHoldingChannel(why) == pc' = "shutdown" /\ cause' = why /\ UNCHANGED rx

Abandon(why) == pc' = "shutdown" /\ cause' = why /\ rx' = FALSE

Top ==
    /\ pc = "top"
    /\ IF stop THEN last' = "stopped" /\ Return("ok")
               ELSE Goto("connect") /\ UNCHANGED <<last, result>>
    /\ UNCHANGED <<cause, failures, attempt, signal, notified, overdue>>

\* factory.connect blocks; it does not look at the stop flag.
Connected ==
    /\ pc = "connect"
    /\ Goto("token") /\ last' = "connected" /\ overdue' = FALSE
    /\ child' = "alive" /\ reader' = "reading" /\ hand' = "none"
    /\ chan' = "none" /\ rx' = TRUE
    /\ UNCHANGED <<cause, failures, result, signal, notified>>

\* retry_or_finish up to its loop.
RetryOrFinish ==
    IF failures + 1 = MaxFailures
    THEN last' = "error" /\ Return("err") /\ UNCHANGED <<failures, overdue>>
    ELSE /\ last' = "reconnecting" /\ failures' = failures + 1
         /\ Goto("backoff") /\ overdue' = FALSE
         /\ UNCHANGED result

ConnectFails ==
    /\ pc = "connect"
    /\ IF Policy = "Retry"
       THEN RetryOrFinish
       ELSE last' = "error" /\ Return("err") /\ UNCHANGED <<failures, overdue>>
    /\ UNCHANGED <<cause, attempt, signal, notified>>

-----------------------------------------------------------------------------
\* run_attempt.  The token is read before the flag and the channel are.

ReadToken ==
    /\ pc = "token"
    /\ notified' = FALSE /\ Goto("check")
    /\ UNCHANGED <<cause, failures, last, result, attempt, signal, overdue>>

CheckStop ==
    /\ pc = "check"
    /\ IF stop THEN Abandon("stop") ELSE Goto("recv") /\ UNCHANGED <<cause, rx>>
    /\ UNCHANGED <<failures, last, result, child, reader, hand, chan, signal,
                   notified, overdue>>

\* Mutant: a frame does not end a series of failures.
TryRecvFrameOnly ==
    /\ pc = "recv" /\ chan = "frame"
    /\ chan' = "none" /\ last' = "frame" /\ overdue' = FALSE
    /\ Goto("token")
    /\ UNCHANGED <<cause, failures, result, child, reader, hand, rx, signal, notified>>

TryRecvFrame ==
    /\ pc = "recv" /\ chan = "frame"
    /\ chan' = "none" /\ last' = "frame" /\ failures' = 0 /\ overdue' = FALSE
    /\ Goto("token")
    /\ UNCHANGED <<cause, result, child, reader, hand, rx, signal, notified>>

\* An EOF, a read error, or a reader that went away without a word.
TryRecvEnd ==
    /\ pc = "recv"
    /\ \/ chan = "eof" /\ Abandon("eof")
       \/ chan = "error" /\ Abandon("failure")
       \/ chan = "none" /\ reader \in {"gone", "panicked"} /\ Abandon("failure")
    /\ chan' = "none"
    /\ UNCHANGED <<failures, last, result, child, reader, hand, signal, notified,
                   overdue>>

\* Mutant: the token is read once the channel was found empty.
TryRecvEmptyThenToken ==
    /\ pc = "recv" /\ chan = "none" /\ reader \notin {"gone", "panicked"}
    /\ notified' = FALSE /\ Goto("deadline")
    /\ UNCHANGED <<cause, failures, last, result, attempt, signal, overdue>>

TryRecvEmpty ==
    /\ pc = "recv" /\ chan = "none" /\ reader \notin {"gone", "panicked"}
    /\ Goto("deadline")
    /\ UNCHANGED <<cause, failures, last, result, attempt, signal, notified, overdue>>

CheckDeadline ==
    /\ pc = "deadline"
    /\ IF overdue THEN Abandon("failure") ELSE Goto("wait") /\ UNCHANGED <<cause, rx>>
    /\ UNCHANGED <<failures, last, result, child, reader, hand, chan, signal,
                   notified, overdue>>

\* wait_until: returns at once if the token has moved, at a notification, or
\* at the deadline.
WaitUntil(from, to) ==
    /\ pc = from /\ (notified \/ overdue)
    /\ Goto(to)
    /\ UNCHANGED <<cause, failures, last, result, attempt, signal, notified, overdue>>

\* Mutant: a child that outlives STOP_TIMEOUT is not an error.
ShutdownDespiteTimeout ==
    /\ pc = "shutdown"
    /\ child' \in {"none", "killed"} /\ Goto("join")
    /\ UNCHANGED <<cause, failures, last, result, reader, hand, chan, rx, signal,
                   notified, overdue>>

\* control.shutdown: the child is reaped, with or without an error (a failure
\* status after EOF, a stderr drain that failed), or outlives the kill and
\* STOP_TIMEOUT.  After a stop, an error returns before the reader is joined.
Shutdown ==
    /\ pc = "shutdown"
    /\ \/ child' = "none" /\ Goto("join") /\ UNCHANGED result
       \/ /\ child' \in {"none", "killed"} /\ result' = "err"
          /\ Goto(IF cause = "stop" THEN "return" ELSE "join")
    /\ UNCHANGED <<cause, failures, last, reader, hand, chan, rx, signal, notified,
                   overdue>>

\* reader.join, then the shutdown's error if there was one, then the attempt's
\* end.
Join ==
    /\ pc = "join" /\ reader \in {"gone", "panicked"}
    /\ reader' = "none" /\ cause' = "none"
    /\ IF reader = "panicked" \/ result = "err"
       THEN Return("err") /\ UNCHANGED <<failures, last, overdue>>
       ELSE CASE cause = "stop" ->
                     last' = "stopped" /\ Return("ok") /\ UNCHANGED <<failures, overdue>>
              [] cause = "eof" /\ Policy = "Ended" ->
                     last' = "ended" /\ Return("ok") /\ UNCHANGED <<failures, overdue>>
              [] cause = "eof" /\ Policy = "FileError" ->
                     last' = "error" /\ Return("err") /\ UNCHANGED <<failures, overdue>>
              [] OTHER -> RetryOrFinish
    /\ UNCHANGED <<child, hand, chan, rx, signal, notified>>

-----------------------------------------------------------------------------
\* The back-off loop of retry_or_finish.  Here the flag is read before the
\* token.

Backoff ==
    /\ pc = "backoff"
    /\ Goto(IF overdue \/ stop THEN "top" ELSE "btoken")
    /\ UNCHANGED <<cause, failures, last, result, attempt, signal, notified, overdue>>

BackoffToken ==
    /\ pc = "btoken"
    /\ notified' = FALSE /\ Goto("bcheck")
    /\ UNCHANGED <<cause, failures, last, result, attempt, signal, overdue>>

BackoffCheck ==
    /\ pc = "bcheck"
    /\ Goto(IF overdue THEN "backoff" ELSE "bwait")
    /\ UNCHANGED <<cause, failures, last, result, attempt, signal, notified, overdue>>

\* The thread ends and drops the sending side of the event channel.
Exit ==
    /\ pc = "return" /\ Goto("done")
    /\ UNCHANGED <<cause, failures, last, result, attempt, signal, notified, overdue>>

Supervise ==
    \/ Top \/ Connected \/ ConnectFails
    \/ ReadToken \/ CheckStop \/ TryRecvFrame \/ TryRecvEnd \/ TryRecvEmpty
    \/ CheckDeadline \/ WaitUntil("wait", "token")
    \/ Shutdown \/ Join \/ Exit
    \/ Backoff \/ BackoffToken \/ BackoffCheck \/ WaitUntil("bwait", "backoff")

-----------------------------------------------------------------------------
\* read_frames.

\* A live child yields a frame, the end of its output or an error, when it
\* pleases; a dead one an end or a truncated frame.
NextFrame ==
    /\ reader = "reading"
    /\ \E e \in {"frame", "eof", "error"} :
          (e = "frame" => child = "alive") /\ hand' = e
    /\ reader' = "sending"
    /\ UNCHANGED <<supervisor, child, chan, rx, signal, notified, overdue>>

SendEvent ==
    /\ reader = "sending"
    /\ \/ rx /\ chan = "none" /\ chan' = hand /\ reader' = "notifying"
       \/ ~rx /\ reader' = "gone" /\ UNCHANGED chan
    /\ UNCHANGED <<supervisor, child, hand, rx, signal, notified, overdue>>

NotifyEvent ==
    /\ reader = "notifying"
    /\ notified' = TRUE
    /\ reader' = IF hand = "frame" THEN "reading" ELSE "gone"
    /\ UNCHANGED <<supervisor, child, hand, chan, rx, signal, overdue>>

ReaderPanics ==
    /\ reader = "reading" /\ reader' = "panicked"
    /\ UNCHANGED <<supervisor, child, hand, chan, rx, signal, notified, overdue>>

\* A child that outlived the kill exits after all.
ChildExits ==
    /\ child = "killed" /\ child' = "none"
    /\ UNCHANGED <<supervisor, reader, hand, chan, rx, signal, notified, overdue>>

-----------------------------------------------------------------------------
\* request_stop: store the flag, then notify.

RequestStop ==
    /\ stopper = "idle"
    /\ stop' = TRUE /\ stopper' = "stored"
    /\ UNCHANGED <<supervisor, attempt, notified, overdue>>

NotifyStop ==
    /\ stopper = "stored"
    /\ notified' = TRUE /\ stopper' = "done"
    /\ UNCHANGED <<supervisor, attempt, stop, overdue>>

\* CONNECT_TIMEOUT, FRAME_STALL_TIMEOUT or the back-off passes.
Elapse ==
    /\ pc \in InAttempt \cup InBackoff /\ ~overdue
    /\ overdue' = TRUE
    /\ UNCHANGED <<supervisor, attempt, signal, notified>>

Next ==
    \/ Supervise
    \/ NextFrame \/ SendEvent \/ NotifyEvent \/ ReaderPanics \/ ChildExits
    \/ RequestStop \/ NotifyStop \/ Elapse

\* Threads that can run do run, time passes, and connect returns (ffprobe has
\* a timeout).  A camera need not ever deliver: next_frame is fair only once
\* the child is gone and its pipe is at its end.
Fairness ==
    /\ WF_vars(Supervise)
    /\ WF_vars(SendEvent \/ NotifyEvent)
    /\ WF_vars(child = "none" /\ NextFrame)
    /\ WF_vars(ChildExits) /\ WF_vars(NotifyStop) /\ WF_vars(Elapse)

Spec == Init /\ [][Next]_vars /\ Fairness

-----------------------------------------------------------------------------
\* Properties.

\* No lost wake-up in run_attempt: a supervisor about to sleep until the stall
\* deadline has nothing to do.  A stop or an event it has not seen is one whose
\* sender has yet to notify.
SleepsOnlyWhenIdle ==
    pc = "wait" /\ ~notified =>
        /\ stop => stopper = "stored"
        /\ chan # "none" => reader = "notifying"

\* Attempts do not overlap: while the supervisor connects or backs off, the
\* previous attempt's child is reaped and its reader joined.
AttemptsDoNotOverlap == pc \in Between => child = "none" /\ reader = "none"

\* A supervisor that reports success has left neither a process nor a thread.
CleanReturn == pc = "done" /\ result = "ok" => child = "none" /\ reader = "none"

\* No attempt leaves anything to the next one or to the caller.
AttemptsAreClean == AttemptsDoNotOverlap /\ CleanReturn

\* A requested stop ends the supervisor, also during a stall or a back-off.
StopEnds == stop ~> pc = "done"

\* Nothing is left behind for good, whatever the supervisor returned.
LeavesNothingBehind == pc = "done" ~> child = "none" /\ reader \in {"none", "gone", "panicked"}

\* The supervisor ends when asked to, and what it started ends after it.
EndsCleanly == StopEnds /\ LeavesNothingBehind

\* The supervisor is a source runtime as its owner knows it.
Promise == INSTANCE SourceEvents WITH open <- pc # "done"

ImplementsSourceEvents == Promise!Spec
=============================================================================
