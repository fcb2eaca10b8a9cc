----------------------- MODULE FrameSupervisor_proofs -----------------------
(***************************************************************************)
(* Proofs about FrameSupervisor, for any number of attempts and any        *)
(* end-of-stream policy.                                                   *)
(***************************************************************************)
EXTENDS FrameSupervisor, TLAPS

(***************************************************************************)
(* The inductive invariant.                                                *)
(*                                                                         *)
(* NoLostWakeUp says of every point after the token was read what          *)
(* SleepsOnlyWhenIdle says of the sleep itself: from the flag's check on, a *)
(* stop not yet notified is one whose thread has still to notify; from the *)
(* channel's check on, so is an event.                                     *)
(***************************************************************************)
NoLostWakeUp ==
    ~notified =>
        /\ pc \in {"recv", "deadline", "wait"} /\ stop => stopper = "stored"
        /\ pc \in {"deadline", "wait"} /\ chan # "none" => reader = "notifying"

\* What a finished shutdown has achieved.
ShutDown == pc = "join" /\ result # "err" => child = "none"

Reaped ==
    pc \in {"return", "done"} /\ result = "ok" => child = "none" /\ reader = "none"

\* Which event was sent last, by where the supervisor is.
Announced ==
    /\ pc \in Between => last \in {"none", "reconnecting"}
    /\ pc \in InAttempt \cup InShutdown => last \in {"connected", "frame"}

StopIsRequested ==
    /\ stop <=> stopper # "idle"
    /\ cause = "stop" => stop

Flow ==
    /\ NoLostWakeUp
    /\ AttemptsDoNotOverlap
    /\ ShutDown
    /\ Reaped
    /\ Announced
    /\ StopIsRequested

Control == PlaceTypeOK /\ FlagTypeOK /\ Flow

Counted == failures \in 0 .. MaxFailures - 1

IInv == Control /\ Counted

USE DEF InAttempt, InShutdown, InBackoff, Between, supervisor, attempt, signal,
        Goto, Return, Abandon, Events, Terminal

LEMMA InitIInv == Init => IInv
<1>1. Init => PlaceTypeOK /\ Flow
    BY DEF Init, Flow, PlaceTypeOK, NoLostWakeUp, AttemptsDoNotOverlap, ShutDown, Reaped,
       Announced, StopIsRequested
<1>2. Init => Counted
    BY FrameSupervisorAssumption DEF Init, Counted
<1>3. Init => FlagTypeOK
    BY DEF Init, FlagTypeOK
<1> QED
    BY <1>1, <1>2, <1>3 DEF IInv, Control

-----------------------------------------------------------------------------
(***************************************************************************)
(* retry_or_finish either gives up with an error or counts one failure     *)
(* more, always below MAX_FAILURES.                                        *)
(***************************************************************************)
GivesUp ==
    /\ last' = "error" /\ pc' = "return" /\ result' = "err"
    /\ UNCHANGED <<failures, overdue>>

Retries ==
    /\ last' = "reconnecting" /\ pc' = "backoff" /\ overdue' = FALSE
    /\ UNCHANGED result

LEMMA RetryEffect == RetryOrFinish => GivesUp \/ Retries
BY DEF RetryOrFinish, GivesUp, Retries

LEMMA RetryCount ==
    ASSUME Counted, RetryOrFinish
    PROVE  \/ last' = "error" /\ failures + 1 = MaxFailures /\ failures' = failures
           \/ /\ last' = "reconnecting" /\ failures' = failures + 1
              /\ failures' < MaxFailures /\ failures' \in 0 .. MaxFailures - 1
BY FrameSupervisorAssumption DEF RetryOrFinish, Counted

(***************************************************************************)
(* The two ways the end of an attempt leaves run_supervisor's loop body.   *)
(***************************************************************************)
LEMMA JoinEffect ==
    ASSUME Join
    PROVE  /\ pc = "join" /\ reader' = "none" /\ cause' = "none"
           /\ UNCHANGED <<child, hand, chan, rx, stop, stopper, notified>>
           /\ \/ last' = last /\ Return("err") /\ UNCHANGED <<failures, overdue>>
              \/ /\ result # "err" /\ last' \in {"stopped", "ended"} /\ Return("ok")
                 /\ UNCHANGED <<failures, overdue>>
              \/ last' = "error" /\ Return("err") /\ UNCHANGED <<failures, overdue>>
              \/ result # "err" /\ RetryOrFinish
BY DEF Join

LEMMA StepPlaceType == PlaceTypeOK /\ [Next]_vars => PlaceTypeOK'
<1> SUFFICES ASSUME PlaceTypeOK, [Next]_vars PROVE PlaceTypeOK'
    OBVIOUS
<1> USE DEF PlaceTypeOK
<1>1. CASE Top
    BY <1>1 DEF Top
<1>2. CASE Connected
    BY <1>2 DEF Connected
<1>3. CASE ConnectFails
    <2>1. CASE RetryOrFinish
        BY <1>3, <2>1, RetryEffect DEF ConnectFails, GivesUp, Retries
    <2>2. CASE ~RetryOrFinish
        BY <1>3, <2>2 DEF ConnectFails
    <2> QED
        BY <2>1, <2>2
<1>4. CASE ReadToken
    BY <1>4 DEF ReadToken
<1>5. CASE CheckStop
    BY <1>5 DEF CheckStop
<1>6. CASE TryRecvFrame
    BY <1>6 DEF TryRecvFrame
<1>7. CASE TryRecvEnd
    BY <1>7 DEF TryRecvEnd
<1>8. CASE TryRecvEmpty
    BY <1>8 DEF TryRecvEmpty
<1>9. CASE CheckDeadline
    BY <1>9 DEF CheckDeadline
<1>10. CASE WaitUntil("wait", "token") \/ WaitUntil("bwait", "backoff")
    BY <1>10 DEF WaitUntil
<1>11. CASE Shutdown
    BY <1>11 DEF Shutdown
<1>12. CASE Join
    BY <1>12, JoinEffect, RetryEffect DEF GivesUp, Retries
<1>13. CASE Exit
    BY <1>13 DEF Exit
<1>14. CASE Backoff \/ BackoffToken \/ BackoffCheck
    BY <1>14 DEF Backoff, BackoffToken, BackoffCheck
<1>15. CASE NextFrame
    BY <1>15 DEF NextFrame
<1>16. CASE SendEvent
    BY <1>16 DEF SendEvent
<1>17. CASE NotifyEvent \/ ReaderPanics \/ ChildExits
    BY <1>17 DEF NotifyEvent, ReaderPanics, ChildExits
<1>18. CASE RequestStop \/ NotifyStop \/ Elapse
    BY <1>18 DEF RequestStop, NotifyStop, Elapse
<1>19. CASE UNCHANGED vars
    BY <1>19 DEF vars
<1> QED
    BY <1>1, <1>2, <1>3, <1>4, <1>5, <1>6, <1>7, <1>8, <1>9, <1>10, <1>11, <1>12,
       <1>13, <1>14, <1>15, <1>16, <1>17, <1>18, <1>19 DEF Next, Supervise

LEMMA StepFlagType == FlagTypeOK /\ [Next]_vars => FlagTypeOK'
<1> SUFFICES ASSUME FlagTypeOK, [Next]_vars PROVE FlagTypeOK'
    OBVIOUS
<1> USE DEF Next, Supervise, vars, Top, Connected, ConnectFails, RetryOrFinish,
            ReadToken, CheckStop, TryRecvFrame, TryRecvEnd, TryRecvEmpty, CheckDeadline,
            WaitUntil, Shutdown, Join, Exit, Backoff, BackoffToken, BackoffCheck, NextFrame,
            SendEvent, NotifyEvent, ReaderPanics, ChildExits, RequestStop, NotifyStop, Elapse
<1>1. UNCHANGED rx \/ rx' = TRUE \/ rx' = FALSE
    BY Zenon
<1>2. UNCHANGED stop \/ stop' = TRUE
    BY Zenon
<1>3. UNCHANGED notified \/ notified' = TRUE \/ notified' = FALSE
    BY Zenon
<1>4. UNCHANGED overdue \/ overdue' = TRUE \/ overdue' = FALSE
    BY Zenon
<1> QED
    BY ONLY FlagTypeOK, <1>1, <1>2, <1>3, <1>4, Zenon DEF FlagTypeOK

LEMMA StepFlow == Control /\ [Next]_vars => Flow'
<1> SUFFICES ASSUME Control, [Next]_vars PROVE Flow'
    OBVIOUS
<1> USE DEF Control, PlaceTypeOK, Flow, NoLostWakeUp, AttemptsDoNotOverlap,
            ShutDown, Reaped, Announced, StopIsRequested
<1>1. CASE Top
    BY <1>1 DEF Top
<1>2. CASE Connected
    BY <1>2 DEF Connected
<1>3. CASE ConnectFails
    <2>1. CASE RetryOrFinish
        BY <1>3, <2>1, RetryEffect DEF ConnectFails, GivesUp, Retries
    <2>2. CASE ~RetryOrFinish
        BY <1>3, <2>2 DEF ConnectFails
    <2> QED
        BY <2>1, <2>2
<1>4. CASE ReadToken
    BY <1>4 DEF ReadToken
<1>5. CASE CheckStop
    BY <1>5 DEF CheckStop
<1>6. CASE TryRecvFrame
    BY <1>6 DEF TryRecvFrame
<1>7. CASE TryRecvEnd
    BY <1>7 DEF TryRecvEnd
<1>8. CASE TryRecvEmpty
    BY <1>8 DEF TryRecvEmpty
<1>9. CASE CheckDeadline
    BY <1>9 DEF CheckDeadline
<1>10. CASE WaitUntil("wait", "token") \/ WaitUntil("bwait", "backoff")
    BY <1>10 DEF WaitUntil
<1>11. CASE Shutdown
    BY <1>11 DEF Shutdown
<1>12. CASE Join
    BY <1>12, JoinEffect, RetryEffect DEF GivesUp, Retries
<1>13. CASE Exit
    BY <1>13 DEF Exit
<1>14. CASE Backoff \/ BackoffToken \/ BackoffCheck
    BY <1>14 DEF Backoff, BackoffToken, BackoffCheck
<1>15. CASE NextFrame
    BY <1>15 DEF NextFrame
<1>16. CASE SendEvent
    BY <1>16 DEF SendEvent
<1>17. CASE NotifyEvent \/ ReaderPanics \/ ChildExits
    BY <1>17 DEF NotifyEvent, ReaderPanics, ChildExits
<1>18. CASE RequestStop \/ NotifyStop \/ Elapse
    BY <1>18 DEF RequestStop, NotifyStop, Elapse
<1>19. CASE UNCHANGED vars
    BY <1>19 DEF vars
<1> QED
    BY <1>1, <1>2, <1>3, <1>4, <1>5, <1>6, <1>7, <1>8, <1>9, <1>10, <1>11, <1>12,
       <1>13, <1>14, <1>15, <1>16, <1>17, <1>18, <1>19 DEF Next, Supervise

LEMMA StepControl == Control /\ [Next]_vars => Control'
BY StepPlaceType, StepFlagType, StepFlow DEF Control

LEMMA StepCounted == Counted /\ [Next]_vars => Counted'
<1> SUFFICES ASSUME Counted, [Next]_vars PROVE Counted'
    OBVIOUS
<1>1. UNCHANGED failures \/ failures' = 0 \/ RetryOrFinish
    <2>1. CASE Join
        BY <2>1, JoinEffect
    <2>2. CASE ConnectFails
        BY <2>2 DEF ConnectFails
    <2>3. CASE TryRecvFrame
        BY <2>3 DEF TryRecvFrame
    <2>4. CASE ~(Join \/ ConnectFails \/ TryRecvFrame)
        BY <2>4 DEF Next, Supervise, vars, Top, Connected, ReadToken, CheckStop, TryRecvEnd,
           TryRecvEmpty, CheckDeadline, WaitUntil, Shutdown, Exit, Backoff, BackoffToken,
           BackoffCheck, NextFrame, SendEvent, NotifyEvent, ReaderPanics, ChildExits,
           RequestStop, NotifyStop, Elapse
    <2> QED
        BY <2>1, <2>2, <2>3, <2>4
<1>2. CASE UNCHANGED failures
    BY <1>2 DEF Counted
<1>3. CASE failures' = 0
    BY <1>3, FrameSupervisorAssumption DEF Counted
<1>4. CASE RetryOrFinish
    BY <1>4, RetryCount DEF Counted
<1> QED
    BY <1>1, <1>2, <1>3, <1>4

LEMMA StepIInv == IInv /\ [Next]_vars => IInv'
BY StepControl, StepCounted DEF IInv

-----------------------------------------------------------------------------
(***************************************************************************)
(* Type correctness; the failure count never reaches MAX_FAILURES, the     *)
(* length of RETRY_BACKOFFS plus one, which indexes the back-off table.    *)
(***************************************************************************)
THEOREM TypeCorrect == Spec => []TypeOK
<1>1. IInv => TypeOK
    BY DEF IInv, Control, Counted, TypeOK
<1> QED
    BY <1>1, InitIInv, StepIInv, PTL DEF Spec

(***************************************************************************)
(* run_attempt never sleeps on a stop request or an event whose sender has *)
(* already notified.                                                       *)
(***************************************************************************)
THEOREM NoSleepOnWork == Spec => []SleepsOnlyWhenIdle
<1>1. IInv => SleepsOnlyWhenIdle
    BY DEF IInv, Control, Flow, NoLostWakeUp, SleepsOnlyWhenIdle
<1> QED
    BY <1>1, InitIInv, StepIInv, PTL DEF Spec

(***************************************************************************)
(* Between attempts no child process and no reader thread of this source   *)
(* exists.                                                                 *)
(***************************************************************************)
THEOREM OneAttemptAtATime == Spec => []AttemptsDoNotOverlap
<1>1. IInv => AttemptsDoNotOverlap
    BY DEF IInv, Control, Flow
<1> QED
    BY <1>1, InitIInv, StepIInv, PTL DEF Spec

(***************************************************************************)
(* A supervisor that returned Ok has reaped its child and joined its       *)
(* reader.                                                                 *)
(***************************************************************************)
THEOREM SuccessIsClean == Spec => []CleanReturn
<1>1. IInv => CleanReturn
    BY DEF IInv, Control, Flow, Reaped, CleanReturn
<1> QED
    BY <1>1, InitIInv, StepIInv, PTL DEF Spec

(***************************************************************************)
(* Sending e is a step of the promise when e may follow and the thread is  *)
(* not at its end.                                                         *)
(***************************************************************************)
LEMMA SendStep ==
    ASSUME NEW e, e \in Promise!Follows(last), last' = e, UNCHANGED stop,
           pc # "done", pc' # "done"
    PROVE  Promise!Send(e)
<1>1. (pc # "done")' = (pc # "done")
    BY Zenon
<1> QED
    BY <1>1, Zenon DEF Promise!Send

LEMMA Order ==
    /\ last \in {"none", "reconnecting"} =>
           Promise!Follows(last) = {"connected", "reconnecting", "stopped", "error"}
    /\ last \in {"connected", "frame"} =>
           Promise!Follows(last) = {"frame", "reconnecting", "ended", "stopped", "error"}
BY DEF Promise!Follows, Promise!Terminal

(***************************************************************************)
(* Every supervisor step is a step of the runtime's promise, or none.      *)
(***************************************************************************)
LEMMA StepSimulation == IInv /\ [Next]_vars => [Promise!Next]_(Promise!vars)
<1> SUFFICES ASSUME IInv, [Next]_vars PROVE [Promise!Next]_(Promise!vars)
    OBVIOUS
<1>1. Announced /\ StopIsRequested /\ Counted
    BY DEF IInv, Control, Flow
<1>2. CASE Top
    <2>1. CASE stop
        <3>1. Promise!Send("stopped") /\ UNCHANGED failures
            BY <1>1, <1>2, <2>1, Order, SendStep DEF Top, Announced
        <3> QED
            BY <2>1, <3>1, Zenon DEF Promise!Next, Promise!SendStopped
    <2>2. CASE ~stop
        BY <1>2, <2>2 DEF Top, Promise!vars
    <2> QED
        BY <2>1, <2>2
<1>3. CASE Connected
    <2>1. Promise!Send("connected") /\ UNCHANGED failures
        BY <1>1, <1>3, Order, SendStep DEF Connected, Announced
    <2> QED
        BY <2>1, Zenon DEF Promise!Next, Promise!Progress
<1>4. ASSUME RetryOrFinish, UNCHANGED stop, pc \in {"connect", "join"}
      PROVE  Promise!Next
    <2>1. last' \in {"error", "reconnecting"} /\ pc' # "done"
        BY <1>4, RetryEffect DEF GivesUp, Retries
    <2>2. Promise!Send(last')
        BY <1>1, <1>4, <2>1, Order, SendStep DEF Announced
    <2>3. CASE last' = "error"
        <3>1. failures + 1 = MaxFailures /\ failures' = failures
            BY <1>1, <1>4, <2>3, RetryCount
        <3> QED
            BY <2>2, <2>3, <3>1 DEF Promise!Next, Promise!SendError
    <2>4. CASE last' = "reconnecting"
        <3>1. failures + 1 < MaxFailures /\ failures' = failures + 1
            BY <1>1, <1>4, <2>4, RetryCount
        <3> QED
            BY <2>2, <2>4, <3>1 DEF Promise!Next, Promise!SendReconnecting
    <2> QED
        BY <2>1, <2>3, <2>4
<1>5. CASE ConnectFails
    <2>1. CASE RetryOrFinish
        BY <1>4, <1>5, <2>1 DEF ConnectFails
    <2>2. CASE ~RetryOrFinish
        <3>1. /\ pc = "connect" /\ pc' = "return" /\ Policy # "Retry" /\ last' = "error"
              /\ UNCHANGED <<stop, failures>>
            BY <1>5, <2>2 DEF ConnectFails
        <3>2. Promise!Send("error")
            BY <1>1, <3>1, Order, SendStep DEF Announced
        <3> QED
            BY <3>1, <3>2, Zenon DEF Promise!Next, Promise!SendError
    <2> QED
        BY <2>1, <2>2
<1>6. CASE TryRecvFrame
    <2>1. Promise!Send("frame") /\ failures' = 0
        BY <1>1, <1>6, Order, SendStep DEF TryRecvFrame, Announced
    <2> QED
        BY <2>1, Zenon DEF Promise!Next, Promise!SendFrame
<1>7. CASE Join
    <2>1. pc = "join" /\ UNCHANGED stop
        BY <1>7 DEF Join
    <2>2. CASE RetryOrFinish
        BY <1>4, <2>1, <2>2
    <2>3. CASE ~RetryOrFinish
        <3>1. pc' # "done" /\ failures' = failures
            BY <1>7, <2>3, JoinEffect
        <3>2. \/ last' = last
              \/ last' = "stopped" /\ cause = "stop"
              \/ last' = "ended" /\ Policy = "Ended"
              \/ last' = "error" /\ Policy = "FileError"
            BY <1>7, <2>3 DEF Join
        <3>3. CASE last' = last
            BY <2>1, <3>1, <3>3 DEF Promise!vars
        <3>4. CASE last' \in Terminal
            <4>1. Promise!Send(last')
                BY <1>1, <2>1, <3>1, <3>4, Order, SendStep DEF Announced
            <4>2. CASE last' = "stopped"
                <5>1. stop
                    BY <1>1, <2>1, <3>2, <4>2 DEF Announced, StopIsRequested
                <5> QED
                    BY <3>1, <4>1, <4>2, <5>1, Zenon DEF Promise!Next, Promise!SendStopped
            <4>3. CASE last' = "ended"
                <5>1. Policy = "Ended"
                    BY <1>1, <2>1, <3>2, <4>3 DEF Announced
                <5> QED
                    BY <3>1, <4>1, <4>3, <5>1, Zenon DEF Promise!Next, Promise!Progress
            <4>4. CASE last' = "error"
                <5>1. Policy = "FileError"
                    BY <1>1, <2>1, <3>2, <4>4 DEF Announced
                <5> QED
                    BY <3>1, <4>1, <4>4, <5>1 DEF Promise!Next, Promise!SendError
            <4> QED
                BY <3>4, <4>2, <4>3, <4>4
        <3> QED
            BY <3>2, <3>3, <3>4
    <2> QED
        BY <2>2, <2>3
<1>8. CASE Exit
    BY <1>8 DEF Exit, Promise!Next, Promise!Close
<1>9. CASE RequestStop
    BY <1>1, <1>9 DEF RequestStop, StopIsRequested, Promise!Next, Promise!RequestStop
<1>10. CASE \/ ReadToken \/ CheckStop \/ TryRecvEnd \/ TryRecvEmpty
            \/ CheckDeadline \/ WaitUntil("wait", "token") \/ WaitUntil("bwait", "backoff")
            \/ Shutdown \/ Backoff \/ BackoffToken \/ BackoffCheck
    <2>1. pc # "done" /\ pc' # "done" /\ UNCHANGED <<last, failures, stop>>
        BY <1>10 DEF ReadToken, CheckStop, TryRecvEnd, TryRecvEmpty, CheckDeadline,
           WaitUntil, Shutdown, Backoff, BackoffToken, BackoffCheck
    <2> QED
        BY <2>1 DEF Promise!vars
<1>11. CASE NextFrame \/ SendEvent \/ NotifyEvent \/ ReaderPanics \/ ChildExits
            \/ NotifyStop \/ Elapse
    BY <1>11 DEF NextFrame, SendEvent, NotifyEvent, ReaderPanics, ChildExits,
       NotifyStop, Elapse, Promise!vars
<1>12. CASE UNCHANGED vars
    BY <1>12 DEF vars, Promise!vars
<1> QED
    BY <1>2, <1>3, <1>5, <1>6, <1>7, <1>8, <1>9, <1>10, <1>11, <1>12
       DEF Next, Supervise

(***************************************************************************)
(* The supervisor keeps the safety part of the promise SourceTask relies   *)
(* on: the order of events, the failure count, no event after a terminal   *)
(* one, Stopped only after a request, an error of a retried source only    *)
(* when its attempts are exhausted.                                        *)
(***************************************************************************)
THEOREM KeepsPromise == Spec => Promise!Init /\ [][Promise!Next]_(Promise!vars)
<1>1. Init => Promise!Init
    BY DEF Init, Promise!Init
<1> QED
    BY <1>1, InitIInv, StepIInv, StepSimulation, PTL DEF Spec

(***************************************************************************)
(* run_attempt leaves no child and no reader to its successor, and a       *)
(* supervisor that returned Ok leaves none at all.                         *)
(***************************************************************************)
THEOREM AttemptsStayClean == Spec => []AttemptsAreClean
<1>1. AttemptsDoNotOverlap /\ CleanReturn => AttemptsAreClean
    BY DEF AttemptsAreClean
<1> QED
    BY <1>1, OneAttemptAtATime, SuccessIsClean, PTL

=============================================================================
