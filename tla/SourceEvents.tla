---------------------------- MODULE SourceEvents ----------------------------
(***************************************************************************)
(* What a source runtime promises the task that owns it: the order of the  *)
(* SupervisorEvents on its channel, and that the channel closes once a     *)
(* stop has been requested.  FrameSupervisor implements it; SourceTask     *)
(* relies on nothing else.                                                 *)
(***************************************************************************)
EXTENDS Naturals, SourceEventOrder

CONSTANTS
    MaxFailures,    \* consecutive failed attempts before giving up
    Policy          \* what the end of the stream means

VARIABLES
    last,       \* the latest event sent, "none" before the first
    failures,   \* failed attempts since the last frame
    stop,       \* request_stop has been called
    open        \* the supervisor still holds the sending side

vars == <<last, failures, stop, open>>

Init == last = "none" /\ failures = 0 /\ stop = FALSE /\ open = TRUE

Send(e) ==
    /\ open /\ e \in Follows(last)
    /\ last' = e
    /\ UNCHANGED <<stop, open>>

Progress == \E e \in {"connected", "ended"} :
    /\ Send(e) /\ (e = "ended" => Policy = "Ended")
    /\ UNCHANGED failures

SendFrame == Send("frame") /\ failures' = 0

SendReconnecting ==
    /\ Send("reconnecting")
    /\ failures + 1 < MaxFailures /\ failures' = failures + 1

SendStopped == stop /\ Send("stopped") /\ UNCHANGED failures

\* A retried source reports an error only when its attempts are exhausted.
SendError ==
    /\ Send("error")
    /\ Policy # "Retry" \/ failures + 1 = MaxFailures
    /\ UNCHANGED failures

\* With or without a terminal event: a failed shutdown of the child ends the
\* supervisor silently.
Close == open /\ open' = FALSE /\ UNCHANGED <<last, failures, stop>>

RequestStop == ~stop /\ stop' = TRUE /\ UNCHANGED <<last, failures, open>>

Next == Progress \/ SendFrame \/ SendReconnecting \/ SendStopped \/ SendError
        \/ Close \/ RequestStop

Spec == Init /\ [][Next]_vars /\ (stop ~> ~open)
=============================================================================
