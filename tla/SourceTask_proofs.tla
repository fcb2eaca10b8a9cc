-------------------------- MODULE SourceTask_proofs --------------------------
(***************************************************************************)
(* Proofs about SourceTask, for any number of sources, clients and permits *)
(* and any channel capacity.                                               *)
(***************************************************************************)
EXTENDS SourceTask, TLAPS, FiniteSetTheorems

(***************************************************************************)
(* The inductive invariant.  That a permit goes with a runtime is kept by  *)
(* every step on its own; what pollers see is kept only because a stop in  *)
(* progress knows what it is part of, and because a test leaves the status *)
(* of the resting source alone.                                            *)
(***************************************************************************)
Typed ==
    /\ free \subseteq Permits
    /\ permit \in [Sources -> Permits \cup {None}]
    /\ task \in [Sources -> {"select", "stopping", "testing", "testwait", "gone"}]
    /\ after \in [Sources -> {"none", "stop", "delete", "ended", "error", "hangup"}]
    /\ status \in [Sources -> Rest \cup Live]
    /\ rt \in [Sources -> {"none", "up", "ok", "err"}]

StopHasReason == \A s \in Sources : task[s] = "stopping" => after[s] # "none"

TestedAtRest == \A s \in Sources : task[s] \in {"testing", "testwait"} => status[s] \in Rest

Shown == Typed /\ StopHasReason /\ TestedAtRest /\ StatusTracksRuntime

IInv == Shown /\ PermitAccounting

USE DEF Rest, Live

LEMMA InitIInv == Init => IInv
<1> SUFFICES ASSUME Init PROVE IInv
    OBVIOUS
<1>1. Typed
    BY DEF Init, Typed
<1>2. StopHasReason /\ TestedAtRest /\ StatusTracksRuntime
    BY DEF Init, StopHasReason, TestedAtRest, StatusTracksRuntime
<1>3. PermitAccounting
    BY DEF Init, PermitAccounting
<1> QED
    BY <1>1, <1>2, <1>3 DEF IInv, Shown

(***************************************************************************)
(* A step of one actor leaves the others as they were.                     *)
(***************************************************************************)
LEMMA ActorStep ==
    ASSUME Shown, Typed', NEW s \in Sources,
           \A u \in Sources \ {s} : /\ task'[u] = task[u] /\ after'[u] = after[u]
                                    /\ status'[u] = status[u] /\ rt'[u] = rt[u],
           task'[s] = "stopping" => after'[s] # "none",
           task'[s] \in {"testing", "testwait"} => status'[s] \in Rest,
           task'[s] = "select" => (status'[s] \in Live <=> rt'[s] # "none")
    PROVE  Shown'
<1>1. StopHasReason'
    BY DEF Shown, StopHasReason
<1>2. TestedAtRest'
    BY DEF Shown, TestedAtRest
<1>3. StatusTracksRuntime'
    BY DEF Shown, StatusTracksRuntime
<1> QED
    BY <1>1, <1>2, <1>3 DEF Shown

(***************************************************************************)
(* The three things a step does to the permits.                            *)
(***************************************************************************)
LEMMA AcquireKeeps ==
    ASSUME Typed, PermitAccounting, NEW s \in Sources, NEW p \in free,
           Acquire(s, p), rt[s] = "none", rt' = [rt EXCEPT ![s] = "up"]
    PROVE  /\ PermitAccounting'
           /\ free' \subseteq Permits /\ permit' \in [Sources -> Permits \cup {None}]
<1> USE SourceTaskAssumption
<1>1. permit[s] = None /\ p # None /\ p \in Permits
    BY DEF Typed, PermitAccounting
<1>2. \A u \in Sources : permit'[u] = IF u = s THEN p ELSE permit[u]
    BY DEF Typed, Acquire
<1>3. \A u \in Sources : rt'[u] = IF u = s THEN "up" ELSE rt[u]
    BY DEF Typed
<1>4. free' \subseteq Permits /\ permit' \in [Sources -> Permits \cup {None}]
    BY <1>1 DEF Typed, Acquire
<1>5. \A u \in Sources : permit'[u] # None <=> rt'[u] # "none"
    BY <1>1, <1>2, <1>3 DEF PermitAccounting
<1>6. \A u \in Sources : permit'[u] # None => permit'[u] \notin free'
    BY <1>2 DEF PermitAccounting, Acquire
<1>7. \A u, v \in Sources : permit'[u] = permit'[v] /\ u # v => permit'[u] = None
    BY <1>1, <1>2 DEF PermitAccounting
<1>8. \A q \in Permits : q \in free' \/ \E u \in Sources : permit'[u] = q
    <2> SUFFICES ASSUME NEW q \in Permits, q \notin free'
                 PROVE  \E u \in Sources : permit'[u] = q
        OBVIOUS
    <2>1. CASE q = p
        BY <1>2, <2>1
    <2>2. CASE q # p
        <3>1. PICK u \in Sources : permit[u] = q
            BY <2>2 DEF PermitAccounting, Acquire
        <3>2. u # s
            BY <1>1, <3>1
        <3> QED
            BY <1>2, <3>1, <3>2
    <2> QED
        BY <2>1, <2>2
<1> QED
    BY <1>4, <1>5, <1>6, <1>7, <1>8 DEF PermitAccounting

LEMMA ReleaseKeeps ==
    ASSUME Typed, PermitAccounting, NEW s \in Sources,
           Release(s), rt' = [rt EXCEPT ![s] = "none"]
    PROVE  /\ PermitAccounting'
           /\ free' \subseteq Permits /\ permit' \in [Sources -> Permits \cup {None}]
<1> USE SourceTaskAssumption
<1>2. \A u \in Sources : permit'[u] = IF u = s THEN None ELSE permit[u]
    BY DEF Typed, Release
<1>3. \A u \in Sources : rt'[u] = IF u = s THEN "none" ELSE rt[u]
    BY DEF Typed
<1>4. free' \subseteq Permits /\ permit' \in [Sources -> Permits \cup {None}]
    BY DEF Typed, Release
<1>5. \A u \in Sources : permit'[u] # None <=> rt'[u] # "none"
    BY <1>2, <1>3 DEF PermitAccounting
<1>6. \A u \in Sources : permit'[u] # None => permit'[u] \notin free'
    BY <1>2 DEF PermitAccounting, Release
<1>7. \A u, v \in Sources : permit'[u] = permit'[v] /\ u # v => permit'[u] = None
    BY <1>2 DEF PermitAccounting
<1>8. \A q \in Permits : q \in free' \/ \E u \in Sources : permit'[u] = q
    <2> SUFFICES ASSUME NEW q \in Permits, q \notin free'
                 PROVE  \E u \in Sources : permit'[u] = q
        OBVIOUS
    <2>1. q \notin free /\ q # permit[s]
        BY DEF Release
    <2>2. PICK u \in Sources : permit[u] = q
        BY <2>1 DEF PermitAccounting
    <2> QED
        BY <1>2, <2>1, <2>2
<1> QED
    BY <1>4, <1>5, <1>6, <1>7, <1>8 DEF PermitAccounting

LEMMA HoldKeeps ==
    ASSUME PermitAccounting, UNCHANGED perms,
           \A u \in Sources : rt'[u] = "none" <=> rt[u] = "none"
    PROVE  PermitAccounting'
BY DEF PermitAccounting, perms

(***************************************************************************)
(* Steps that neither the permits nor the pollers see.                     *)
(***************************************************************************)
LEMMA QuietStep ==
    ASSUME IInv, UNCHANGED <<perms, task, after, status, rt>>
    PROVE  IInv'
<1>1. Shown'
    BY DEF IInv, Shown, Typed, StopHasReason, TestedAtRest, StatusTracksRuntime, perms
<1>2. PermitAccounting'
    BY DEF IInv, PermitAccounting, perms
<1> QED
    BY <1>1, <1>2 DEF IInv

LEMMA StepIInv == IInv /\ [Next]_vars => IInv'
<1> SUFFICES ASSUME IInv, [Next]_vars PROVE IInv'
    OBVIOUS
<1>0. Shown /\ Typed /\ PermitAccounting /\ StopHasReason /\ TestedAtRest
      /\ StatusTracksRuntime
    BY DEF IInv, Shown
<1>1. ASSUME NEW c \in Clients, NEW s \in Sources, NEW op \in Ops, Request(c, s, op)
      PROVE  IInv'
    BY <1>1, QuietStep DEF Request, actor, shown, runtime
<1>2. ASSUME NEW s \in Sources,
             StartAgain(s) \/ StartRefused(s) \/ TestRunning(s) \/ TestRefused(s)
      PROVE  IInv'
    BY <1>2, QuietStep DEF StartAgain, StartRefused, TestRunning, TestRefused, actor,
       shown, runtime
<1>3. ASSUME NEW s \in Sources, Start(s) PROVE IInv'
    <2>1. PICK p \in free : Acquire(s, p)
        BY <1>3 DEF Start
    <2>2. /\ task[s] = "select" /\ rt[s] = "none" /\ UNCHANGED <<task, after>>
          /\ rt' = [rt EXCEPT ![s] = "up"]
          /\ status' = [status EXCEPT ![s] = "connecting"]
        BY <1>3 DEF Start, Received, SpawnRuntime, SetStatus, actor
    <2>3. /\ PermitAccounting'
          /\ free' \subseteq Permits /\ permit' \in [Sources -> Permits \cup {None}]
        BY <1>0, <2>1, <2>2, AcquireKeeps
    <2>4. Typed'
        BY <1>0, <2>2, <2>3 DEF Typed
    <2>5. Shown'
        BY <1>0, <2>2, <2>4, ActorStep DEF Typed
    <2> QED
        BY <2>3, <2>5 DEF IInv
<1>4. ASSUME NEW s \in Sources, StartFails(s) \/ StopIdle(s) PROVE IInv'
    <2>1. /\ task[s] = "select" /\ rt[s] = "none" /\ UNCHANGED <<perms, task, after, rt>>
          /\ \E st \in Rest : status' = [status EXCEPT ![s] = st]
        BY <1>4 DEF StartFails, StopIdle, Received, SetStatus, actor, runtime
    <2>2. Typed'
        BY <1>0, <2>1 DEF Typed, perms
    <2>3. Shown'
        BY <1>0, <2>1, <2>2, ActorStep DEF Typed
    <2>4. PermitAccounting'
        BY <1>0, <2>1, HoldKeeps
    <2> QED
        BY <2>3, <2>4 DEF IInv
<1>5. ASSUME NEW s \in Sources, DeleteIdle(s) \/ HandleDropped(s) PROVE IInv'
    <2>1. /\ task' = [task EXCEPT ![s] = "gone"] /\ UNCHANGED <<perms, after, rt>>
          /\ status' = [status EXCEPT ![s] = "stopped"] \/ UNCHANGED status
        BY <1>5 DEF DeleteIdle, HandleDropped, Depart, Goto, SetStatus, shown, runtime
    <2>2. Typed'
        BY <1>0, <2>1 DEF Typed, perms
    <2>3. Shown'
        BY <1>0, <2>1, <2>2, ActorStep DEF Typed
    <2>4. PermitAccounting'
        BY <1>0, <2>1, HoldKeeps
    <2> QED
        BY <2>3, <2>4 DEF IInv
<1>6. ASSUME NEW s \in Sources, StopRunning(s) \/ OnTerminal(s) \/ OnClosed(s) PROVE IInv'
    <2>1. /\ task' = [task EXCEPT ![s] = "stopping"] /\ UNCHANGED <<perms, status, rt>>
          /\ \E why \in {"stop", "delete", "ended", "error", "hangup"} :
                 after' = [after EXCEPT ![s] = why]
        BY <1>6 DEF StopRunning, OnTerminal, OnClosed, BeginStop, AwaitRuntime, Goto, shown
    <2>2. Typed'
        BY <1>0, <2>1 DEF Typed, perms
    <2>3. Shown'
        BY <1>0, <2>1, <2>2, ActorStep DEF Typed
    <2>4. PermitAccounting'
        BY <1>0, <2>1, HoldKeeps
    <2> QED
        BY <2>3, <2>4 DEF IInv
<1>7. ASSUME NEW s \in Sources, Reaped(s) PROVE IInv'
    <2>1. /\ task[s] = "stopping" /\ Release(s)
          /\ rt' = [rt EXCEPT ![s] = "none"]
          /\ after' = [after EXCEPT ![s] = "none"]
          /\ status' = [status EXCEPT ![s] = FinalStatus(s)]
          /\ \E l \in {"gone", "select"} : task' = [task EXCEPT ![s] = l]
        BY <1>7 DEF Reaped, DropRuntime, SetStatus, Depart, Goto
    <2>2. FinalStatus(s) \in Rest
        <3>1. after[s] \in {"stop", "delete", "ended", "error", "hangup"}
            BY <1>0, <2>1 DEF Typed, StopHasReason
        <3> QED
            BY <3>1 DEF FinalStatus
    <2>3. /\ PermitAccounting'
          /\ free' \subseteq Permits /\ permit' \in [Sources -> Permits \cup {None}]
        BY <1>0, <2>1, ReleaseKeeps
    <2>4. Typed'
        BY <1>0, <2>1, <2>2, <2>3 DEF Typed
    <2>5. Shown'
        BY <1>0, <2>1, <2>2, <2>4, ActorStep DEF Typed
    <2> QED
        BY <2>3, <2>5 DEF IInv
<1>8. ASSUME NEW s \in Sources, Test(s) PROVE IInv'
    <2>1. PICK p \in free : Acquire(s, p)
        BY <1>8 DEF Test
    <2>2. /\ task[s] = "select" /\ rt[s] = "none" /\ UNCHANGED <<after, status>>
          /\ rt' = [rt EXCEPT ![s] = "up"]
          /\ task' = [task EXCEPT ![s] = "testing"]
        BY <1>8 DEF Test, Received, SpawnRuntime, Goto, shown
    <2>3. /\ PermitAccounting'
          /\ free' \subseteq Permits /\ permit' \in [Sources -> Permits \cup {None}]
        BY <1>0, <2>1, <2>2, AcquireKeeps
    <2>4. Typed'
        BY <1>0, <2>2, <2>3 DEF Typed
    <2>5. Shown'
        BY <1>0, <2>2, <2>4, ActorStep DEF Typed, StatusTracksRuntime
    <2> QED
        BY <2>3, <2>5 DEF IInv
<1>9. ASSUME NEW s \in Sources, TestRetries(s) PROVE IInv'
    BY <1>9, QuietStep DEF TestRetries, actor, shown
<1>10. ASSUME NEW s \in Sources, TestDecided(s) \/ TestTimesOut(s) PROVE IInv'
    <2>1. /\ task[s] = "testing" /\ task' = [task EXCEPT ![s] = "testwait"]
          /\ UNCHANGED <<perms, after, status, rt>>
        BY <1>10 DEF TestDecided, TestTimesOut, AwaitRuntime, Goto, shown
    <2>2. Typed'
        BY <1>0, <2>1 DEF Typed, perms
    <2>3. Shown'
        BY <1>0, <2>1, <2>2, ActorStep DEF Typed, TestedAtRest
    <2>4. PermitAccounting'
        BY <1>0, <2>1, HoldKeeps
    <2> QED
        BY <2>3, <2>4 DEF IInv
<1>11. ASSUME NEW s \in Sources, TestReaped(s) PROVE IInv'
    <2>1. /\ task[s] = "testwait" /\ Release(s) /\ UNCHANGED <<after, status>>
          /\ rt' = [rt EXCEPT ![s] = "none"]
          /\ task' = [task EXCEPT ![s] = "select"]
        BY <1>11 DEF TestReaped, DropRuntime, Goto, shown
    <2>2. /\ PermitAccounting'
          /\ free' \subseteq Permits /\ permit' \in [Sources -> Permits \cup {None}]
        BY <1>0, <2>1, ReleaseKeeps
    <2>3. Typed'
        BY <1>0, <2>1, <2>2 DEF Typed
    <2>4. Shown'
        BY <1>0, <2>1, <2>3, ActorStep DEF Typed, TestedAtRest
    <2> QED
        BY <2>2, <2>4 DEF IInv
<1>12. ASSUME NEW s \in Sources, OnConnected(s) \/ OnFrame(s) \/ OnReconnecting(s)
       PROVE  IInv'
    <2>1. /\ task[s] = "select" /\ rt[s] # "none" /\ UNCHANGED <<perms, task, after, rt>>
          /\ \E st \in Live : status' = [status EXCEPT ![s] = st]
        BY <1>12 DEF OnConnected, OnFrame, OnReconnecting, Event, SetStatus, actor
    <2>2. Typed'
        BY <1>0, <2>1 DEF Typed, perms
    <2>3. Shown'
        BY <1>0, <2>1, <2>2, ActorStep DEF Typed
    <2>4. PermitAccounting'
        BY <1>0, <2>1, HoldKeeps
    <2> QED
        BY <2>3, <2>4 DEF IInv
<1>13. ASSUME NEW s \in Sources, NEW e \in Events, RuntimeSends(s, e) PROVE IInv'
    BY <1>13, QuietStep DEF RuntimeSends, actor, shown
<1>14. ASSUME NEW s \in Sources, RuntimeReturns(s) PROVE IInv'
    <2>1. /\ rt[s] = "up" /\ UNCHANGED <<perms, task, after, status>>
          /\ \E r \in {"ok", "err"} : rt' = [rt EXCEPT ![s] = r]
        BY <1>14 DEF RuntimeReturns, actor, shown
    <2>2. Typed'
        BY <1>0, <2>1 DEF Typed, perms
    <2>3. Shown'
        BY <1>0, <2>1, <2>2, ActorStep DEF Typed, StopHasReason, TestedAtRest,
           StatusTracksRuntime
    <2>4. PermitAccounting'
        BY <1>0, <2>1, HoldKeeps DEF Typed
    <2> QED
        BY <2>3, <2>4 DEF IInv
<1>15. CASE UNCHANGED vars
    BY <1>15, QuietStep DEF vars, actor, shown, runtime
<1> QED
    BY <1>1, <1>2, <1>3, <1>4, <1>5, <1>6, <1>7, <1>8, <1>9, <1>10, <1>11, <1>12,
       <1>13, <1>14, <1>15 DEF Next, ServeCommand, ServeEvent, Await

-----------------------------------------------------------------------------
(***************************************************************************)
(* The semaphore: a permit is free or held by exactly one actor, which has *)
(* a runtime; tests and failed starts leak none.                           *)
(***************************************************************************)
THEOREM PermitsAccounted == Spec => []PermitAccounting
<1>1. IInv => PermitAccounting
    BY DEF IInv
<1> QED
    BY <1>1, InitIInv, StepIInv, PTL DEF Spec

(***************************************************************************)
(* A source that is serving commands shows a live state exactly while it   *)
(* has a runtime.                                                          *)
(***************************************************************************)
THEOREM StatusIsTrue == Spec => []StatusTracksRuntime
<1>1. IInv => StatusTracksRuntime
    BY DEF IInv, Shown
<1> QED
    BY <1>1, InitIInv, StepIInv, PTL DEF Spec

(***************************************************************************)
(* Late frames and events revive no source at rest: only Start does.       *)
(***************************************************************************)
THEOREM OnlyStartRevives == Spec => RevivedByStartOnly
<1>1. ASSUME IInv, [Next]_vars, NEW s \in Sources, status[s] \in Rest, status'[s] \in Live
      PROVE  Start(s)
    <2>1. Typed /\ StopHasReason /\ StatusTracksRuntime
        BY <1>1 DEF IInv, Shown
    <2>2. PICK u \in Sources :
             \/ Start(u)
             \/ \E st \in Rest : status' = [status EXCEPT ![u] = st]
             \/ OnConnected(u) \/ OnFrame(u) \/ OnReconnecting(u)
             \/ Reaped(u)
        <3>1. ~UNCHANGED status
            BY <1>1, <2>1 DEF Typed
        <3> QED
            BY <1>1, <3>1 DEF Next, ServeCommand, ServeEvent, Await, vars, Request,
               StartAgain, StartRefused, StartFails, StopRunning, StopIdle, DeleteIdle,
               TestRunning, TestRefused, Test, OnTerminal, OnClosed, TestRetries,
               TestDecided, TestReaped, TestTimesOut, HandleDropped, RuntimeSends,
               RuntimeReturns, SetStatus, shown, BeginStop, AwaitRuntime
    <2>3. CASE \E st \in Rest : status' = [status EXCEPT ![u] = st]
        BY <1>1, <2>1, <2>3 DEF Typed
    <2>4. CASE Reaped(u)
        <3>1. after[u] \in {"stop", "delete", "ended", "error", "hangup"}
            BY <2>1, <2>4 DEF Reaped, Typed, StopHasReason
        <3>2. FinalStatus(u) \in Rest
            BY <3>1 DEF FinalStatus
        <3>3. status' = [status EXCEPT ![u] = FinalStatus(u)]
            BY <2>4 DEF Reaped, SetStatus
        <3> QED
            BY <1>1, <2>1, <3>2, <3>3 DEF Typed
    <2>5. CASE OnConnected(u) \/ OnFrame(u) \/ OnReconnecting(u)
        <3>1. status[u] \in Live
            BY <2>1, <2>5 DEF OnConnected, OnFrame, OnReconnecting, Event, StatusTracksRuntime
        <3>2. \E st : status' = [status EXCEPT ![u] = st]
            BY <2>5 DEF OnConnected, OnFrame, OnReconnecting, SetStatus
        <3> QED
            BY <1>1, <2>1, <3>1, <3>2 DEF Typed
    <2>6. CASE Start(u)
        <3>1. status' = [status EXCEPT ![u] = "connecting"]
            BY <2>6 DEF Start, SetStatus
        <3>2. u = s
            BY <1>1, <2>1, <3>1 DEF Typed
        <3> QED
            BY <2>6, <3>2
    <2> QED
        BY <2>2, <2>3, <2>4, <2>5, <2>6
<1>2. IInv /\ [Next]_vars =>
        \A s \in Sources : status[s] \in Rest /\ status'[s] \in Live => Start(s)
    BY <1>1
<1> QED
    BY <1>2, InitIInv, StepIInv, PTL DEF Spec, RevivedByStartOnly

-----------------------------------------------------------------------------
(***************************************************************************)
(* Who waits for an answer waits where the actor will find it: in the      *)
(* channel, or as the client being served.                                 *)
(***************************************************************************)
Queued(c, s) == \E i \in 1 .. Len(queue[s]) : queue[s][i] = c

CallsTyped ==
    /\ serving \in [Sources -> Clients \cup {None}]
    /\ queue \in [Sources -> Seq(Clients)]
    /\ cmd \in [Clients -> [src : Sources, op : Ops] \cup {NoCmd}]

WaitingIsKnown ==
    \A c \in Clients, s \in Sources :
        cmd[c] # NoCmd /\ cmd[c].src = s => Queued(c, s) \/ serving[s] = c

ServesNobody == \A s \in Sources : task[s] \in {"select", "gone"} => serving[s] = None

GoneIsSilent ==
    \A s \in Sources : task[s] = "gone" =>
        /\ rt[s] = "none" /\ queue[s] = <<>> /\ status[s] \in Rest

CallsInv == CallsTyped /\ WaitingIsKnown /\ ServesNobody /\ GoneIsSilent

LEMMA InitCalls == Init => CallsInv
BY DEF Init, CallsInv, CallsTyped, WaitingIsKnown, ServesNobody, GoneIsSilent

(***************************************************************************)
(* The head of a channel is a client, and taking it off loses nobody else. *)
(***************************************************************************)
LEMMA HeadAndTail ==
    ASSUME CallsTyped, NEW s \in Sources, queue[s] # <<>>
    PROVE  /\ Head(queue[s]) \in Clients
           /\ Tail(queue[s]) \in Seq(Clients)
           /\ \A c \in Clients : Queued(c, s) /\ c # Head(queue[s]) =>
                 \E i \in 1 .. Len(Tail(queue[s])) : Tail(queue[s])[i] = c
<1>1. queue[s] \in Seq(Clients)
    BY DEF CallsTyped
<1>2. Head(queue[s]) \in Clients /\ Tail(queue[s]) \in Seq(Clients)
    BY <1>1
<1>3. ASSUME NEW c \in Clients, Queued(c, s), c # Head(queue[s])
      PROVE  \E i \in 1 .. Len(Tail(queue[s])) : Tail(queue[s])[i] = c
    <2>1. PICK i \in 1 .. Len(queue[s]) : queue[s][i] = c
        BY <1>3 DEF Queued
    <2>2. i # 1
        BY <1>1, <1>3, <2>1
    <2>3. i - 1 \in 1 .. Len(Tail(queue[s])) /\ Tail(queue[s])[i - 1] = c
        BY <1>1, <2>1, <2>2
    <2> QED
        BY <2>3
<1> QED
    BY <1>2, <1>3

(***************************************************************************)
(* The shapes of a step: nothing of the calls changes; or only one actor's *)
(* channel and who it serves, and whoever stops waiting there was answered.*)
(***************************************************************************)
LEMMA CallsKept ==
    ASSUME CallsInv, UNCHANGED <<queue, cmd, serving, task, status>>,
           \A u \in Sources : rt[u] = "none" => rt'[u] = "none"
    PROVE  CallsInv'
<1>1. CallsTyped'
    BY DEF CallsInv, CallsTyped
<1>2. WaitingIsKnown'
    BY DEF CallsInv, WaitingIsKnown, Queued
<1>3. ServesNobody'
    BY DEF CallsInv, ServesNobody
<1>4. GoneIsSilent'
    BY DEF CallsInv, GoneIsSilent
<1> QED
    BY <1>1, <1>2, <1>3, <1>4 DEF CallsInv

LEMMA CallsStep ==
    ASSUME CallsInv, CallsTyped', NEW s \in Sources,
           \A u \in Sources \ {s} :
               /\ queue'[u] = queue[u] /\ serving'[u] = serving[u]
               /\ task'[u] = task[u] /\ status'[u] = status[u] /\ rt'[u] = rt[u],
           \A c \in Clients : cmd'[c] # NoCmd => cmd'[c] = cmd[c],
           \A c \in Clients :
               cmd'[c] # NoCmd /\ (Queued(c, s) \/ serving[s] = c) =>
                   Queued(c, s)' \/ serving'[s] = c,
           task'[s] \in {"select", "gone"} => serving'[s] = None,
           task'[s] = "gone" => rt'[s] = "none" /\ queue'[s] = <<>> /\ status'[s] \in Rest
    PROVE  CallsInv'
<1>1. WaitingIsKnown'
    <2> SUFFICES ASSUME NEW c \in Clients, NEW u \in Sources, cmd'[c] # NoCmd, cmd'[c].src = u
                 PROVE  Queued(c, u)' \/ serving'[u] = c
        BY DEF WaitingIsKnown
    <2>1. Queued(c, u) \/ serving[u] = c
        BY DEF CallsInv, WaitingIsKnown
    <2>2. CASE u = s
        BY <2>1, <2>2
    <2>3. CASE u # s
        BY <2>1, <2>3 DEF Queued
    <2> QED
        BY <2>2, <2>3
<1>2. ServesNobody'
    BY DEF CallsInv, ServesNobody
<1>3. GoneIsSilent'
    BY DEF CallsInv, GoneIsSilent
<1> QED
    BY <1>1, <1>2, <1>3 DEF CallsInv

LEMMA StepCalls ==
    ASSUME IInv, CallsInv, [Next]_vars
    PROVE  CallsInv'
<1> USE SourceTaskAssumption
<1>0. /\ CallsTyped /\ ServesNobody /\ GoneIsSilent /\ Typed /\ StopHasReason
      /\ StatusTracksRuntime
    BY DEF IInv, Shown, CallsInv
<1>1. ASSUME NEW c \in Clients, NEW s \in Sources, NEW op \in Ops, Request(c, s, op)
      PROVE  CallsInv'
    <2>1. /\ task[s] # "gone" /\ cmd[c] = NoCmd
          /\ cmd' = [cmd EXCEPT ![c] = [src |-> s, op |-> op]]
          /\ queue' = [queue EXCEPT ![s] = Append(queue[s], c)]
          /\ UNCHANGED <<serving, task, status, rt>>
        BY <1>1 DEF Request, actor, shown, runtime
    <2>2. queue[s] \in Seq(Clients) /\ queue'[s] = Append(queue[s], c)
        BY <1>0, <2>1 DEF CallsTyped
    <2>3. Append(queue[s], c) \in Seq(Clients)
        BY <2>2
    <2>4. CallsTyped'
        BY <1>0, <2>1, <2>3 DEF CallsTyped
    <2>5. Queued(c, s)'
        BY <2>2 DEF Queued
    <2>6. \A d \in Clients : Queued(d, s) => Queued(d, s)'
        BY <2>2 DEF Queued
    <2>7. WaitingIsKnown'
        <3> SUFFICES ASSUME NEW d \in Clients, NEW u \in Sources, cmd'[d] # NoCmd,
                            cmd'[d].src = u
                     PROVE  Queued(d, u)' \/ serving'[u] = d
            BY DEF WaitingIsKnown
        <3>1. CASE d = c
            BY <1>0, <2>1, <2>5, <3>1 DEF CallsTyped
        <3>2. CASE d # c
            <4>1. Queued(d, u) \/ serving[u] = d
                BY <1>0, <2>1, <3>2 DEF CallsInv, WaitingIsKnown, CallsTyped
            <4>2. CASE u = s
                BY <2>1, <2>6, <4>1, <4>2
            <4>3. CASE u # s
                BY <1>0, <2>1, <4>1, <4>3 DEF Queued, CallsTyped
            <4> QED
                BY <4>2, <4>3
        <3> QED
            BY <3>1, <3>2
    <2>8. ServesNobody' /\ GoneIsSilent'
        BY <1>0, <2>1 DEF ServesNobody, GoneIsSilent, CallsTyped
    <2> QED
        BY <2>4, <2>7, <2>8 DEF CallsInv
<1>2. ASSUME NEW s \in Sources,
             StartAgain(s) \/ StartRefused(s) \/ TestRunning(s) \/ TestRefused(s) \/ Start(s)
                 \/ StartFails(s) \/ StopIdle(s)
      PROVE  CallsInv'
    <2>1. /\ task[s] = "select" /\ queue[s] # <<>> /\ AnswerHead(s)
          /\ UNCHANGED <<task, serving>>
          /\ \A u \in Sources \ {s} : status'[u] = status[u] /\ rt'[u] = rt[u]
        BY <1>0, <1>2 DEF StartAgain, StartRefused, TestRunning, TestRefused, Start, StartFails,
           StopIdle, Received, SetStatus, SpawnRuntime, actor, shown, runtime, Typed
    <2>2. /\ queue' = [queue EXCEPT ![s] = Tail(queue[s])]
          /\ cmd' = [cmd EXCEPT ![Head(queue[s])] = NoCmd]
        BY <2>1 DEF AnswerHead, Dequeue, Answer
    <2>3. CallsTyped'
        BY <1>0, <2>1, <2>2, HeadAndTail DEF CallsTyped
    <2>4. \A c \in Clients : cmd'[c] # NoCmd => cmd'[c] = cmd[c] /\ c # Head(queue[s])
        BY <1>0, <2>2 DEF CallsTyped
    <2>5. ASSUME NEW c \in Clients, cmd'[c] # NoCmd, Queued(c, s) \/ serving[s] = c
          PROVE  Queued(c, s)'
        <3>1. Queued(c, s)
            BY <1>0, <2>1, <2>5 DEF ServesNobody
        <3>2. \E i \in 1 .. Len(Tail(queue[s])) : Tail(queue[s])[i] = c
            BY <1>0, <2>1, <2>4, <2>5, <3>1, HeadAndTail
        <3>3. queue'[s] = Tail(queue[s])
            BY <1>0, <2>2 DEF CallsTyped
        <3> QED
            BY <3>2, <3>3 DEF Queued
    <2>6. task'[s] = "select" /\ serving'[s] = None
        BY <1>0, <2>1 DEF ServesNobody
    <2>7. \A u \in Sources \ {s} : queue'[u] = queue[u] /\ serving'[u] = serving[u]
                                    /\ task'[u] = task[u]
        BY <1>0, <2>1, <2>2 DEF CallsTyped
    <2> QED
        BY <2>1, <2>3, <2>4, <2>5, <2>6, <2>7, CallsStep
<1>3. ASSUME NEW s \in Sources, StopRunning(s) \/ Test(s) PROVE CallsInv'
    <2>1. /\ task[s] = "select" /\ queue[s] # <<>> /\ Dequeue(s) /\ UNCHANGED <<cmd, status>>
          /\ \E l \in {"stopping", "testing"} : task' = [task EXCEPT ![s] = l]
          /\ serving' = [serving EXCEPT ![s] = Head(queue[s])]
          /\ \A u \in Sources \ {s} : rt'[u] = rt[u]
        BY <1>0, <1>3 DEF StopRunning, Test, Received, BeginStop, AwaitRuntime, Goto,
           SpawnRuntime, shown, Typed
    <2>2. queue' = [queue EXCEPT ![s] = Tail(queue[s])]
        BY <2>1 DEF Dequeue
    <2>3. CallsTyped'
        BY <1>0, <2>1, <2>2, HeadAndTail DEF CallsTyped
    <2>4. queue'[s] = Tail(queue[s]) /\ serving'[s] = Head(queue[s])
          /\ task'[s] \in {"stopping", "testing"}
        BY <1>0, <2>1, <2>2 DEF CallsTyped, Typed
    <2>5. ASSUME NEW c \in Clients, Queued(c, s) \/ serving[s] = c
          PROVE  Queued(c, s)' \/ serving'[s] = c
        <3>1. Queued(c, s)
            BY <1>0, <2>1, <2>5 DEF ServesNobody
        <3>2. c # Head(queue[s]) => \E i \in 1 .. Len(Tail(queue[s])) : Tail(queue[s])[i] = c
            BY <1>0, <2>1, <3>1, HeadAndTail
        <3> QED
            BY <2>4, <3>2 DEF Queued
    <2>6. \A u \in Sources \ {s} : /\ queue'[u] = queue[u] /\ serving'[u] = serving[u]
                                    /\ task'[u] = task[u] /\ status'[u] = status[u]
        BY <1>0, <2>1, <2>2 DEF CallsTyped, Typed
    <2> QED
        BY <2>1, <2>3, <2>4, <2>5, <2>6, CallsStep
<1>4. ASSUME NEW s \in Sources, DeleteIdle(s) \/ HandleDropped(s) PROVE CallsInv'
    <2>1. /\ task[s] = "select" /\ rt[s] = "none" /\ Depart(s, None)
          /\ UNCHANGED <<rt, serving>>
          /\ status' = [status EXCEPT ![s] = "stopped"] \/ UNCHANGED status
        BY <1>4 DEF DeleteIdle, HandleDropped, Received, SetStatus, shown, runtime
    <2>2. /\ task' = [task EXCEPT ![s] = "gone"] /\ queue' = [queue EXCEPT ![s] = <<>>]
          /\ \A c \in Clients : cmd'[c] = IF c = None \/ Queued(c, s) THEN NoCmd ELSE cmd[c]
          /\ cmd' = [c \in Clients |-> cmd'[c]]
        BY <2>1 DEF Depart, Goto, Queued
    <2>3. CallsTyped'
        BY <1>0, <2>1, <2>2 DEF CallsTyped
    <2>4. serving[s] = None /\ status'[s] \in Rest
        BY <1>0, <2>1 DEF ServesNobody, StatusTracksRuntime, Typed
    <2>5. \A c \in Clients : cmd'[c] # NoCmd => ~Queued(c, s) /\ serving[s] # c
        BY <2>2, <2>4
    <2>6. task'[s] = "gone" /\ serving'[s] = None /\ queue'[s] = <<>>
        BY <1>0, <2>1, <2>2, <2>4 DEF Typed, CallsTyped
    <2>7. \A u \in Sources \ {s} : /\ queue'[u] = queue[u] /\ serving'[u] = serving[u]
                                    /\ task'[u] = task[u] /\ status'[u] = status[u]
                                    /\ rt'[u] = rt[u]
        BY <1>0, <2>1, <2>2 DEF CallsTyped, Typed
    <2>8. \A c \in Clients : cmd'[c] # NoCmd => cmd'[c] = cmd[c]
        BY <2>2
    <2> QED
        BY <2>1, <2>3, <2>4, <2>5, <2>6, <2>7, <2>8, CallsStep
<1>5. ASSUME NEW s \in Sources, Reaped(s), after[s] = "delete" PROVE CallsInv'
    <2>1. /\ task[s] = "stopping" /\ Depart(s, serving[s])
          /\ rt' = [rt EXCEPT ![s] = "none"] /\ serving' = [serving EXCEPT ![s] = None]
          /\ status' = [status EXCEPT ![s] = FinalStatus(s)]
        BY <1>5 DEF Reaped, DropRuntime, SetStatus
    <2>2. /\ task' = [task EXCEPT ![s] = "gone"] /\ queue' = [queue EXCEPT ![s] = <<>>]
          /\ \A c \in Clients :
                cmd'[c] = IF c = serving[s] \/ Queued(c, s) THEN NoCmd ELSE cmd[c]
          /\ cmd' = [c \in Clients |-> cmd'[c]]
        BY <2>1 DEF Depart, Goto, Queued
    <2>3. CallsTyped'
        BY <1>0, <2>1, <2>2 DEF CallsTyped
    <2>4. FinalStatus(s) \in Rest
        BY <1>5 DEF FinalStatus
    <2>5. \A c \in Clients : cmd'[c] # NoCmd => ~Queued(c, s) /\ serving[s] # c
        BY <2>2
    <2>6. /\ task'[s] = "gone" /\ serving'[s] = None /\ queue'[s] = <<>>
          /\ rt'[s] = "none" /\ status'[s] \in Rest
        BY <1>0, <2>1, <2>2, <2>4 DEF Typed, CallsTyped
    <2>7. \A u \in Sources \ {s} : /\ queue'[u] = queue[u] /\ serving'[u] = serving[u]
                                    /\ task'[u] = task[u] /\ status'[u] = status[u]
                                    /\ rt'[u] = rt[u]
        BY <1>0, <2>1, <2>2 DEF CallsTyped, Typed
    <2>8. \A c \in Clients : cmd'[c] # NoCmd => cmd'[c] = cmd[c]
        BY <2>2
    <2> QED
        BY <2>3, <2>5, <2>6, <2>7, <2>8, CallsStep
<1>6. ASSUME NEW s \in Sources, (Reaped(s) /\ after[s] # "delete") \/ TestReaped(s)
      PROVE  CallsInv'
    <2>1. /\ rt' = [rt EXCEPT ![s] = "none"] /\ serving' = [serving EXCEPT ![s] = None]
          /\ task' = [task EXCEPT ![s] = "select"] /\ UNCHANGED queue
          /\ Answer(serving[s]) \/ (serving[s] = None /\ UNCHANGED cmd)
          /\ \A u \in Sources \ {s} : status'[u] = status[u]
        BY <1>0, <1>6 DEF Reaped, TestReaped, DropRuntime, SetStatus, Goto, shown, Typed
    <2>2. \A c \in Clients :
             cmd'[c] # NoCmd => cmd'[c] = cmd[c] /\ serving[s] # c
        BY <1>0, <2>1 DEF Answer, CallsTyped
    <2>3. CallsTyped'
        BY <1>0, <2>1 DEF CallsTyped, Answer
    <2>4. task'[s] = "select" /\ serving'[s] = None
        BY <1>0, <2>1 DEF Typed, CallsTyped
    <2>5. \A c \in Clients : Queued(c, s) => Queued(c, s)'
        BY <2>1 DEF Queued
    <2>6. \A u \in Sources \ {s} : /\ queue'[u] = queue[u] /\ serving'[u] = serving[u]
                                    /\ task'[u] = task[u] /\ rt'[u] = rt[u]
        BY <1>0, <2>1 DEF CallsTyped, Typed
    <2> QED
        BY <2>1, <2>2, <2>3, <2>4, <2>5, <2>6, CallsStep
<1>7. ASSUME NEW s \in Sources,
             OnTerminal(s) \/ OnClosed(s) \/ TestDecided(s) \/ TestTimesOut(s)
      PROVE  CallsInv'
    <2>1. /\ UNCHANGED <<queue, cmd, status, rt>>
          /\ \E l \in {"stopping", "testwait"} : task' = [task EXCEPT ![s] = l]
          /\ \/ UNCHANGED serving
             \/ task[s] = "select" /\ serving' = [serving EXCEPT ![s] = None]
        BY <1>7 DEF OnTerminal, OnClosed, TestDecided, TestTimesOut, Event, BeginStop,
           AwaitRuntime, Goto, calls, shown
    <2>2. UNCHANGED serving
        BY <1>0, <2>1 DEF ServesNobody, CallsTyped
    <2>3. CallsTyped'
        BY <1>0, <2>1, <2>2 DEF CallsTyped
    <2>4. task'[s] \in {"stopping", "testwait"}
        BY <1>0, <2>1 DEF Typed
    <2>5. \A u \in Sources \ {s} : task'[u] = task[u]
        BY <1>0, <2>1 DEF Typed
    <2>6. \A c \in Clients : Queued(c, s) => Queued(c, s)'
        BY <2>1 DEF Queued
    <2> QED
        BY <2>1, <2>2, <2>3, <2>4, <2>5, <2>6, CallsStep
<1>8. ASSUME NEW s \in Sources, OnConnected(s) \/ OnFrame(s) \/ OnReconnecting(s)
      PROVE  CallsInv'
    <2>1. /\ task[s] = "select" /\ UNCHANGED <<queue, cmd, serving, task, rt>>
          /\ \E st \in Live : status' = [status EXCEPT ![s] = st]
        BY <1>8 DEF OnConnected, OnFrame, OnReconnecting, Event, SetStatus, actor, calls
    <2>2. CallsTyped' /\ WaitingIsKnown' /\ ServesNobody'
        BY <1>0, <2>1 DEF CallsInv, CallsTyped, WaitingIsKnown, ServesNobody, Queued
    <2>3. GoneIsSilent'
        BY <1>0, <2>1 DEF GoneIsSilent, Typed
    <2> QED
        BY <2>2, <2>3 DEF CallsInv
<1>9. ASSUME NEW s \in Sources, TestRetries(s) PROVE CallsInv'
    BY <1>9, CallsKept DEF TestRetries, actor, calls, shown
<1>10. ASSUME NEW s \in Sources, NEW e \in Events, RuntimeSends(s, e) PROVE CallsInv'
    BY <1>10, CallsKept DEF RuntimeSends, actor, calls, shown
<1>11. ASSUME NEW s \in Sources, RuntimeReturns(s) PROVE CallsInv'
    <2>1. rt[s] = "up" /\ \E r \in {"ok", "err"} : rt' = [rt EXCEPT ![s] = r]
        BY <1>11 DEF RuntimeReturns
    <2>2. \A u \in Sources : rt[u] = "none" => rt'[u] = "none"
        BY <1>0, <2>1 DEF Typed
    <2> QED
        BY <1>11, <2>2, CallsKept DEF RuntimeReturns, actor, calls, shown
<1>12. CASE UNCHANGED vars
    BY <1>12, CallsKept DEF vars, actor, calls, shown, runtime
<1> QED
    BY <1>1, <1>2, <1>3, <1>4, <1>5, <1>6, <1>7, <1>8, <1>9, <1>10, <1>11, <1>12
       DEF Next, ServeCommand, ServeEvent, Await

(***************************************************************************)
(* A source that was deleted leaves nothing: no runtime, no permit, and    *)
(* no handler that still waits for its answer, the ones that were queued   *)
(* behind the Delete included.                                             *)
(***************************************************************************)
THEOREM DeletedIsClean == Spec => []GoneIsClean
<1>1. IInv /\ CallsInv => GoneIsClean
    <2> SUFFICES ASSUME IInv, CallsInv, NEW s \in Sources, task[s] = "gone"
                 PROVE  /\ rt[s] = "none" /\ permit[s] = None /\ queue[s] = <<>>
                        /\ status[s] \in Rest
                        /\ \A c \in Clients : cmd[c].src # s
        BY DEF GoneIsClean
    <2>1. rt[s] = "none" /\ queue[s] = <<>> /\ status[s] \in Rest /\ serving[s] = None
        BY DEF CallsInv, GoneIsSilent, ServesNobody
    <2>2. permit[s] = None
        BY <2>1 DEF IInv, PermitAccounting
    <2>3. ASSUME NEW c \in Clients, cmd[c].src = s PROVE FALSE
        <3>1. CASE cmd[c] = NoCmd
            BY <2>3, <3>1, SourceTaskAssumption DEF NoCmd
        <3>2. CASE cmd[c] # NoCmd
            <4>1. Queued(c, s) \/ serving[s] = c
                BY <2>3, <3>2 DEF CallsInv, WaitingIsKnown
            <4>2. c # None
                BY SourceTaskAssumption
            <4> QED
                BY <2>1, <4>1, <4>2 DEF Queued
        <3> QED
            BY <3>1, <3>2
    <2> QED
        BY <2>1, <2>2, <2>3
<1>2. IInv /\ CallsInv /\ [Next]_vars => CallsInv'
    BY StepCalls
<1> QED
    BY <1>1, <1>2, InitIInv, StepIInv, InitCalls, PTL DEF Spec

-----------------------------------------------------------------------------
(***************************************************************************)
(* frame_count.  While an actor serves its runtime it has not asked it to  *)
(* stop, so that every frame sent was counted or is in the channel.        *)
(***************************************************************************)
FlowTyped ==
    /\ frames \in [Sources -> 0 .. FrameBound]
    /\ sent \in [Sources -> 0 .. FrameBound]
    /\ last \in [Sources -> Events \cup {"none"}]
    /\ stopReq \in [Sources -> BOOLEAN]
    /\ events \in [Sources -> Seq(Events)]

CountedWhileServed ==
    \A s \in Sources :
        task[s] = "select" /\ rt[s] # "none" =>
            ~ stopReq[s] /\ frames[s] + FramesIn(events[s]) = sent[s]

FlowInv == FlowTyped /\ CountedWhileServed

\* The places of frames in q, and what an append and a receive do to their number.
FramePlaces(q) == {i \in DOMAIN q : q[i] = "frame"}

LEMMA FramesAreCounted ==
    ASSUME NEW q \in Seq(Events)
    PROVE  /\ IsFiniteSet(FramePlaces(q)) /\ FramesIn(q) = Cardinality(FramePlaces(q))
           /\ FramesIn(q) \in Nat
<1>1. Len(q) \in Nat /\ DOMAIN q = 1 .. Len(q)
    OBVIOUS
<1>2. IsFiniteSet(1 .. Len(q)) /\ FramePlaces(q) \subseteq 1 .. Len(q)
    BY <1>1, FS_Interval DEF FramePlaces
<1>3. IsFiniteSet(FramePlaces(q))
    BY <1>2, FS_Subset
<1> QED
    BY <1>3, FS_CardinalityType DEF FramesIn, FramePlaces

LEMMA EmptyHasNoFrames == FramesIn(<<>>) = 0
<1>1. FramePlaces(<<>>) = {}
    BY DEF FramePlaces
<1> QED
    BY <1>1, FS_EmptySet DEF FramesIn, FramePlaces

LEMMA FrameAppended ==
    ASSUME NEW q \in Seq(Events), NEW e \in Events
    PROVE  FramesIn(Append(q, e)) = FramesIn(q) + (IF e = "frame" THEN 1 ELSE 0)
<1> DEFINE w == Append(q, e)
<1>1. /\ Len(q) \in Nat /\ DOMAIN q = 1 .. Len(q) /\ DOMAIN w = 1 .. Len(q) + 1
      /\ w \in Seq(Events) /\ w[Len(q) + 1] = e /\ \A i \in 1 .. Len(q) : w[i] = q[i]
    OBVIOUS
<1>2. Len(q) + 1 \notin FramePlaces(q)
    BY <1>1 DEF FramePlaces
<1>3. FramePlaces(w) = FramePlaces(q) \cup (IF e = "frame" THEN {Len(q) + 1} ELSE {})
    BY <1>1 DEF FramePlaces
<1>4. /\ IsFiniteSet(FramePlaces(q)) /\ FramesIn(q) = Cardinality(FramePlaces(q))
      /\ FramesIn(w) = Cardinality(FramePlaces(w)) /\ FramesIn(q) \in Nat
    BY <1>1, FramesAreCounted
<1>5. Cardinality(FramePlaces(q) \cup {Len(q) + 1}) = Cardinality(FramePlaces(q)) + 1
    BY <1>2, <1>4, FS_AddElement
<1> HIDE DEF w
<1>6. CASE e = "frame"
    BY <1>3, <1>4, <1>5, <1>6 DEF w
<1>7. CASE e # "frame"
    BY <1>3, <1>4, <1>7 DEF w
<1> QED
    BY <1>6, <1>7

LEMMA FrameReceived ==
    ASSUME NEW q \in Seq(Events), q # <<>>
    PROVE  /\ Head(q) \in Events /\ Tail(q) \in Seq(Events)
           /\ FramesIn(q) = FramesIn(Tail(q)) + (IF Head(q) = "frame" THEN 1 ELSE 0)
<1> DEFINE w == Tail(q)
           later == FramePlaces(q) \ {1}
           place == [i \in FramePlaces(w) |-> i + 1]
<1>1. /\ Len(q) \in Nat /\ Len(q) # 0 /\ DOMAIN q = 1 .. Len(q) /\ DOMAIN w = 1 .. Len(q) - 1
      /\ w \in Seq(Events) /\ Head(q) = q[1] /\ Head(q) \in Events
      /\ \A i \in 1 .. Len(q) - 1 : w[i] = q[i + 1]
    OBVIOUS
<1>2. \A i \in DOMAIN w : i \in Nat /\ i + 1 \in DOMAIN q /\ i + 1 # 1 /\ w[i] = q[i + 1]
    BY <1>1
<1>3. \A i \in DOMAIN q : i # 1 => i - 1 \in DOMAIN w /\ (i - 1) + 1 = i
    BY <1>1
<1>4. 1 \in DOMAIN q
    BY <1>1
<1> HIDE DEF w
<1>5. place \in [FramePlaces(w) -> later]
    BY <1>2 DEF FramePlaces
<1>6. \A i, j \in FramePlaces(w) : place[i] = place[j] => i = j
    BY <1>2 DEF FramePlaces
<1>7. \A j \in later : \E i \in FramePlaces(w) : place[i] = j
    <2> SUFFICES ASSUME NEW j \in later PROVE \E i \in FramePlaces(w) : place[i] = j
        OBVIOUS
    <2>1. j \in DOMAIN q /\ j # 1 /\ q[j] = "frame"
        BY DEF FramePlaces
    <2>2. j - 1 \in DOMAIN w /\ w[j - 1] = "frame" /\ (j - 1) + 1 = j
        BY <1>2, <1>3, <2>1
    <2> QED
        BY <2>2 DEF FramePlaces
<1>8. place \in Bijection(FramePlaces(w), later)
    BY <1>5, <1>6, <1>7 DEF Bijection, Injection, IsInjective, Surjection
<1>9. /\ IsFiniteSet(FramePlaces(w)) /\ FramesIn(w) = Cardinality(FramePlaces(w))
      /\ FramesIn(w) \in Nat
    BY <1>1, FramesAreCounted
<1>10. Cardinality(later) = FramesIn(w)
    BY <1>8, <1>9, FS_Bijection DEF ExistsBijection
<1>11. /\ IsFiniteSet(FramePlaces(q)) /\ FramesIn(q) = Cardinality(FramePlaces(q))
       /\ FramesIn(q) \in Nat
    BY FramesAreCounted
<1>12. Cardinality(later) = IF 1 \in FramePlaces(q) THEN FramesIn(q) - 1 ELSE FramesIn(q)
    BY <1>11, FS_RemoveElement
<1>13. 1 \in FramePlaces(q) <=> Head(q) = "frame"
    BY <1>1, <1>4 DEF FramePlaces
<1> HIDE DEF later
<1> QED
    BY <1>1, <1>9, <1>10, <1>11, <1>12, <1>13 DEF w

LEMMA FlowInitInv == Init => FlowInv
BY EmptyHasNoFrames, SourceTaskAssumption
   DEF Init, FlowInv, FlowTyped, CountedWhileServed, Events, Terminal

\* A step of one actor or of its runtime.
LEMMA FlowStep ==
    ASSUME FlowInv, FlowTyped', NEW s \in Sources,
           \A u \in Sources \ {s} :
               /\ task'[u] = task[u] /\ rt'[u] = rt[u] /\ stopReq'[u] = stopReq[u]
               /\ frames'[u] = frames[u] /\ events'[u] = events[u] /\ sent'[u] = sent[u],
           task'[s] = "select" /\ rt'[s] # "none" =>
               ~ stopReq'[s] /\ frames'[s] + FramesIn(events'[s]) = sent'[s]
    PROVE  FlowInv'
<1>1. ASSUME NEW u \in Sources, task'[u] = "select", rt'[u] # "none"
      PROVE  ~ stopReq'[u] /\ frames'[u] + FramesIn(events'[u]) = sent'[u]
    BY <1>1 DEF FlowInv, CountedWhileServed
<1> QED
    BY <1>1 DEF FlowInv, CountedWhileServed

LEMMA StepFlow == IInv /\ FlowInv /\ [Next]_vars => FlowInv'
<1> SUFFICES ASSUME IInv, FlowInv, [Next]_vars PROVE FlowInv'
    OBVIOUS
<1>0. Typed /\ FlowTyped
    BY DEF IInv, Shown, FlowInv
<1>1. ASSUME UNCHANGED <<task, rt, stopReq, frames, events, sent, last>> PROVE FlowInv'
    BY <1>1 DEF FlowInv, FlowTyped, CountedWhileServed
<1>2. ASSUME NEW c \in Clients, NEW s \in Sources, NEW op \in Ops, Request(c, s, op)
      PROVE  FlowInv'
    BY <1>1, <1>2 DEF Request, actor, shown, runtime
<1>3. ASSUME NEW s \in Sources,
             StartAgain(s) \/ StartRefused(s) \/ TestRunning(s) \/ TestRefused(s) \/ StopIdle(s)
      PROVE  FlowInv'
    BY <1>1, <1>3 DEF StartAgain, StartRefused, TestRunning, TestRefused, StopIdle, actor,
       shown, runtime
<1>4. ASSUME NEW s \in Sources, Start(s) \/ Test(s) PROVE FlowInv'
    <2>1. /\ SpawnRuntime(s)
          /\ task' = task \/ task' = [task EXCEPT ![s] = "testing"]
          /\ \/ frames' = [frames EXCEPT ![s] = 0]
             \/ frames' = frames /\ task' = [task EXCEPT ![s] = "testing"]
        BY <1>4 DEF Start, Test, Goto, actor, shown
    <2>2. FlowTyped'
        <3>1. <<>> \in Seq(Events) /\ 0 \in 0 .. FrameBound
            BY SourceTaskAssumption
        <3> QED
            BY <1>0, <2>1, <3>1 DEF FlowTyped, SpawnRuntime
    <2>3. /\ stopReq'[s] = FALSE /\ events'[s] = <<>> /\ sent'[s] = 0
          /\ task'[s] = "select" => frames'[s] = 0
        BY <1>0, <2>1 DEF FlowTyped, Typed, SpawnRuntime
    <2>4. \A u \in Sources \ {s} :
               /\ task'[u] = task[u] /\ rt'[u] = rt[u] /\ stopReq'[u] = stopReq[u]
               /\ frames'[u] = frames[u] /\ events'[u] = events[u] /\ sent'[u] = sent[u]
        BY <1>0, <2>1 DEF FlowTyped, Typed, SpawnRuntime
    <2> QED
        BY <2>2, <2>3, <2>4, FlowStep, EmptyHasNoFrames
<1>5. ASSUME NEW s \in Sources, StartFails(s) PROVE FlowInv'
    <2>1. /\ frames' = [frames EXCEPT ![s] = 0] /\ rt[s] = "none"
          /\ UNCHANGED <<task, rt, stopReq, events, sent, last>>
        BY <1>5 DEF StartFails, actor, runtime
    <2>2. FlowTyped'
        BY <1>0, <2>1, SourceTaskAssumption DEF FlowTyped
    <2> QED
        BY <1>0, <2>1, <2>2, FlowStep DEF FlowTyped
<1>6. ASSUME NEW s \in Sources, NEW l \in {"stopping", "testwait"},
             AwaitRuntime(s, l), \/ UNCHANGED events
                                 \/ \E e \in Terminal : Event(s, e)
      PROVE  FlowInv'
    <2>1. /\ task' = [task EXCEPT ![s] = l] /\ stopReq' = [stopReq EXCEPT ![s] = TRUE]
          /\ UNCHANGED <<frames, rt, sent, last>>
        BY <1>6 DEF AwaitRuntime, Goto, shown
    <2>2. /\ events' \in [Sources -> Seq(Events)]
          /\ \A u \in Sources \ {s} : events'[u] = events[u]
        <3>1. CASE UNCHANGED events
            BY <1>0, <3>1 DEF FlowTyped
        <3>2. CASE \E e \in Terminal : Event(s, e)
            <4>1. events[s] # <<>> /\ events' = [events EXCEPT ![s] = Tail(events[s])]
                BY <3>2 DEF Event
            <4>2. Tail(events[s]) \in Seq(Events)
                BY <1>0, <4>1, FrameReceived DEF FlowTyped
            <4> QED
                BY <1>0, <4>1, <4>2 DEF FlowTyped
        <3> QED
            BY <1>6, <3>1, <3>2
    <2>3. FlowTyped'
        BY <1>0, <2>1, <2>2 DEF FlowTyped
    <2>4. task'[s] # "select"
        BY <1>0, <2>1 DEF Typed
    <2>5. \A u \in Sources \ {s} : task'[u] = task[u] /\ stopReq'[u] = stopReq[u]
        BY <1>0, <2>1 DEF Typed, FlowTyped
    <2> QED
        BY <2>1, <2>2, <2>3, <2>4, <2>5, FlowStep
<1>7. ASSUME NEW s \in Sources,
             StopRunning(s) \/ OnTerminal(s) \/ OnClosed(s) \/ TestDecided(s) \/ TestTimesOut(s)
      PROVE  FlowInv'
    BY <1>6, <1>7 DEF StopRunning, OnTerminal, OnClosed, TestDecided, TestTimesOut, BeginStop
<1>8. ASSUME NEW s \in Sources, DeleteIdle(s) \/ HandleDropped(s) PROVE FlowInv'
    <2>1. /\ task' = [task EXCEPT ![s] = "gone"]
          /\ UNCHANGED <<rt, stopReq, frames, events, sent, last>>
        BY <1>8 DEF DeleteIdle, HandleDropped, Depart, Goto, shown, runtime
    <2>2. FlowTyped'
        BY <1>0, <2>1 DEF FlowTyped
    <2> QED
        BY <1>0, <2>1, <2>2, FlowStep DEF Typed
<1>9. ASSUME NEW s \in Sources, Reaped(s) \/ TestReaped(s) PROVE FlowInv'
    <2>1. /\ DropRuntime(s) /\ UNCHANGED frames
          /\ \E l \in {"gone", "select"} : task' = [task EXCEPT ![s] = l]
        BY <1>9 DEF Reaped, TestReaped, Depart, Goto, shown
    <2>2. FlowTyped'
        <3>1. <<>> \in Seq(Events)
            OBVIOUS
        <3> QED
            BY <1>0, <2>1, <3>1 DEF FlowTyped, DropRuntime
    <2>3. rt'[s] = "none"
        BY <1>0, <2>1 DEF Typed, DropRuntime
    <2>4. \A u \in Sources \ {s} :
               /\ task'[u] = task[u] /\ rt'[u] = rt[u] /\ events'[u] = events[u]
        BY <1>0, <2>1 DEF FlowTyped, Typed, DropRuntime
    <2> QED
        BY <2>1, <2>2, <2>3, <2>4, FlowStep DEF DropRuntime
<1>10. ASSUME NEW s \in Sources, TestRetries(s) PROVE FlowInv'
    <2>1. /\ events[s] # <<>> /\ events' = [events EXCEPT ![s] = Tail(events[s])]
          /\ task[s] = "testing" /\ UNCHANGED <<task, rt, stopReq, frames, sent, last>>
        BY <1>10 DEF TestRetries, actor, shown
    <2>2. FlowTyped'
        <3>1. Tail(events[s]) \in Seq(Events)
            BY <1>0, <2>1, FrameReceived DEF FlowTyped
        <3> QED
            BY <1>0, <2>1, <3>1 DEF FlowTyped
    <2> QED
        BY <1>0, <2>1, <2>2, FlowStep DEF FlowTyped
<1>11. ASSUME NEW s \in Sources, OnConnected(s) \/ OnFrame(s) \/ OnReconnecting(s)
       PROVE  FlowInv'
    <2>1. /\ task[s] = "select" /\ rt[s] # "none" /\ events[s] # <<>>
          /\ events' = [events EXCEPT ![s] = Tail(events[s])]
          /\ UNCHANGED <<task, rt, stopReq, sent, last>>
          /\ \/ Head(events[s]) # "frame" /\ frames' = frames
             \/ Head(events[s]) = "frame" /\ frames' = [frames EXCEPT ![s] = frames[s] + 1]
        BY <1>11 DEF OnConnected, OnFrame, OnReconnecting, Event, actor
    <2>2. /\ Tail(events[s]) \in Seq(Events) /\ FramesIn(Tail(events[s])) \in Nat
          /\ FramesIn(events[s])
                = FramesIn(Tail(events[s])) + (IF Head(events[s]) = "frame" THEN 1 ELSE 0)
        BY <1>0, <2>1, FrameReceived, FramesAreCounted DEF FlowTyped
    <2>3. ~ stopReq[s] /\ frames[s] + FramesIn(events[s]) = sent[s]
        BY <2>1 DEF FlowInv, CountedWhileServed
    <2>4. frames[s] \in 0 .. FrameBound /\ sent[s] \in 0 .. FrameBound /\ FrameBound \in Nat
        BY <1>0, SourceTaskAssumption DEF FlowTyped
    <2>5. events' \in [Sources -> Seq(Events)] /\ events'[s] = Tail(events[s])
        BY <1>0, <2>1, <2>2 DEF FlowTyped
    <2>6. /\ frames' \in [Sources -> 0 .. FrameBound]
          /\ frames'[s] = frames[s] + (IF Head(events[s]) = "frame" THEN 1 ELSE 0)
        <3>1. CASE Head(events[s]) # "frame"
            BY <1>0, <2>1, <2>4, <3>1 DEF FlowTyped
        <3>2. CASE Head(events[s]) = "frame"
            <4>1. frames[s] + 1 \in 0 .. FrameBound
                BY <2>2, <2>3, <2>4, <3>2
            <4> QED
                BY <1>0, <2>1, <3>2, <4>1 DEF FlowTyped
        <3> QED
            BY <3>1, <3>2
    <2>7. frames'[s] + FramesIn(events'[s]) = sent'[s]
        <3>1. CASE Head(events[s]) = "frame"
            BY <2>1, <2>2, <2>3, <2>4, <2>5, <2>6, <3>1
        <3>2. CASE Head(events[s]) # "frame"
            BY <2>1, <2>2, <2>3, <2>4, <2>5, <2>6, <3>2
        <3> QED
            BY <3>1, <3>2
    <2>8. FlowTyped'
        BY <1>0, <2>1, <2>5, <2>6 DEF FlowTyped
    <2>9. \A u \in Sources \ {s} : frames'[u] = frames[u] /\ events'[u] = events[u]
        BY <1>0, <2>1 DEF FlowTyped
    <2> QED
        BY <2>1, <2>3, <2>7, <2>8, <2>9, FlowStep
<1>12. ASSUME NEW s \in Sources, NEW e \in Events, RuntimeSends(s, e) PROVE FlowInv'
    <2>1. /\ e = "frame" => sent[s] < FrameBound
          /\ last' = [last EXCEPT ![s] = e]
          /\ sent' = [sent EXCEPT ![s] = IF e = "frame" THEN sent[s] + 1 ELSE sent[s]]
          /\ \/ stopReq[s] /\ events' = events
             \/ ~ stopReq[s] /\ events' = [events EXCEPT ![s] = Append(events[s], e)]
          /\ UNCHANGED <<task, rt, stopReq, frames>>
        BY <1>12 DEF RuntimeSends, actor, shown
    <2>2. /\ events[s] \in Seq(Events) /\ Append(events[s], e) \in Seq(Events)
          /\ FramesIn(events[s]) \in Nat
          /\ FramesIn(Append(events[s], e))
                = FramesIn(events[s]) + (IF e = "frame" THEN 1 ELSE 0)
        BY <1>0, FrameAppended, FramesAreCounted DEF FlowTyped
    <2>3. sent[s] \in 0 .. FrameBound /\ frames[s] \in 0 .. FrameBound /\ FrameBound \in Nat
        BY <1>0, SourceTaskAssumption DEF FlowTyped
    <2>4. (IF e = "frame" THEN sent[s] + 1 ELSE sent[s]) \in 0 .. FrameBound
        BY <2>1, <2>3
    <2>5. FlowTyped'
        BY <1>0, <2>1, <2>2, <2>4 DEF FlowTyped
    <2>6. \A u \in Sources \ {s} : sent'[u] = sent[u] /\ events'[u] = events[u]
        BY <1>0, <2>1 DEF FlowTyped
    <2>7. ASSUME task[s] = "select", rt[s] # "none"
          PROVE  ~ stopReq[s] /\ frames[s] + FramesIn(events'[s]) = sent'[s]
        <3>1. ~ stopReq[s] /\ frames[s] + FramesIn(events[s]) = sent[s]
            BY <2>7 DEF FlowInv, CountedWhileServed
        <3>2. /\ events'[s] = Append(events[s], e)
              /\ sent'[s] = IF e = "frame" THEN sent[s] + 1 ELSE sent[s]
            BY <1>0, <2>1, <3>1 DEF FlowTyped
        <3>3. frames[s] + FramesIn(events'[s]) = sent'[s]
            <4>1. CASE e = "frame"
                <5>1. FramesIn(events'[s]) = FramesIn(events[s]) + 1
                    BY <2>2, <3>2, <4>1
                <5>2. sent'[s] = sent[s] + 1
                    BY <3>2, <4>1
                <5> QED
                    BY <2>2, <2>3, <3>1, <5>1, <5>2
            <4>2. CASE e # "frame"
                BY <2>2, <2>3, <3>1, <3>2, <4>2
            <4> QED
                BY <4>1, <4>2
        <3> QED
            BY <3>1, <3>3
    <2> QED
        BY <2>1, <2>5, <2>6, <2>7, FlowStep
<1>13. ASSUME NEW s \in Sources, RuntimeReturns(s) PROVE FlowInv'
    <2>1. /\ rt[s] = "up" /\ \E r \in {"ok", "err"} : rt' = [rt EXCEPT ![s] = r]
          /\ UNCHANGED <<task, stopReq, frames, events, sent, last>>
        BY <1>13 DEF RuntimeReturns, actor, shown
    <2>2. FlowTyped'
        BY <1>0, <2>1 DEF FlowTyped
    <2>3. \A u \in Sources \ {s} : rt'[u] = rt[u]
        BY <1>0, <2>1 DEF Typed
    <2>4. task[s] = "select" => ~ stopReq[s] /\ frames[s] + FramesIn(events[s]) = sent[s]
        BY <2>1 DEF FlowInv, CountedWhileServed
    <2> QED
        BY <2>1, <2>2, <2>3, <2>4, FlowStep
<1>14. CASE UNCHANGED vars
    BY <1>1, <1>14 DEF vars, actor, shown, runtime
<1> QED
    BY <1>2, <1>3, <1>4, <1>5, <1>7, <1>8, <1>9, <1>10, <1>11, <1>12, <1>13, <1>14
       DEF Next, ServeCommand, ServeEvent, Await

(***************************************************************************)
(* frame_count and the frames still in the channel are what the present    *)
(* runtime has sent: no frame of an earlier run is counted, none is lost.  *)
(***************************************************************************)
THEOREM FramesStayThisRuns == Spec => []FramesAreThisRuns
<1>1. FlowInv => FramesAreThisRuns
    BY DEF FlowInv, CountedWhileServed, FramesAreThisRuns
<1> QED
    BY <1>1, InitIInv, StepIInv, FlowInitInv, StepFlow, PTL DEF Spec

-----------------------------------------------------------------------------
(***************************************************************************)
(* Who is answered.  A client has one command, and with it one place: in   *)
(* the channel of its source, or as the client that source's actor serves. *)
(* An answer therefore ends the command of that source and of no other.    *)
(***************************************************************************)
OnePlace ==
    \A s \in Sources :
        /\ \A i, j \in 1 .. Len(queue[s]) : queue[s][i] = queue[s][j] => i = j
        /\ \A i \in 1 .. Len(queue[s]) : queue[s][i] # serving[s]

PlaceIsWaiting ==
    \A c \in Clients, s \in Sources : Queued(c, s) \/ serving[s] = c => cmd[c].src = s

PlacesInv == OnePlace /\ PlaceIsWaiting

LEMMA PlacesInitInv == Init => PlacesInv
BY SourceTaskAssumption DEF Init, PlacesInv, OnePlace, PlaceIsWaiting, Queued

\* Taking the head off a channel.
LEMMA HeadHasOnePlace ==
    ASSUME CallsTyped, PlacesInv, NEW s \in Sources, queue[s] # <<>>
    PROVE  /\ Queued(Head(queue[s]), s) /\ Head(queue[s]) \in Clients
           /\ cmd[Head(queue[s])].src = s
           /\ \A i, j \in 1 .. Len(Tail(queue[s])) :
                 Tail(queue[s])[i] = Tail(queue[s])[j] => i = j
           /\ \A i \in 1 .. Len(Tail(queue[s])) :
                 Queued(Tail(queue[s])[i], s) /\ Tail(queue[s])[i] # Head(queue[s])
<1> DEFINE q == queue[s]
           w == Tail(q)
<1>1. q \in Seq(Clients)
    BY DEF CallsTyped
<1>2. /\ Len(q) \in Nat /\ Len(q) # 0 /\ Len(w) = Len(q) - 1 /\ Head(q) = q[1]
      /\ Head(q) \in Clients /\ \A i \in 1 .. Len(w) : w[i] = q[i + 1]
    BY <1>1
<1>3. \A i, j \in 1 .. Len(q) : q[i] = q[j] => i = j
    BY DEF PlacesInv, OnePlace
<1>4. 1 \in 1 .. Len(q) /\ \A i \in 1 .. Len(w) : i + 1 \in 1 .. Len(q) /\ i + 1 # 1
    BY <1>2
<1>5. Queued(Head(q), s)
    BY <1>2, <1>4 DEF Queued
<1>6. cmd[Head(q)].src = s
    BY <1>2, <1>5 DEF PlacesInv, PlaceIsWaiting
<1> HIDE DEF q, w
<1>7. \A i, j \in 1 .. Len(w) : w[i] = w[j] => i = j
    <2> SUFFICES ASSUME NEW i \in 1 .. Len(w), NEW j \in 1 .. Len(w), w[i] = w[j]
                 PROVE  i = j
        OBVIOUS
    <2>1. i + 1 = j + 1
        BY <1>2, <1>3, <1>4
    <2> QED
        BY <2>1
<1>8. \A i \in 1 .. Len(w) : Queued(w[i], s) /\ w[i] # Head(q)
    BY <1>2, <1>3, <1>4 DEF Queued, q
<1> QED
    BY <1>2, <1>5, <1>6, <1>7, <1>8 DEF q, w

LEMMA PlacesKept ==
    ASSUME PlacesInv, UNCHANGED <<queue, serving, cmd>>
    PROVE  PlacesInv'
BY DEF PlacesInv, OnePlace, PlaceIsWaiting, Queued

\* A step of one actor keeps the places it leaves, and answers its own clients only.
LEMMA PlacesStep ==
    ASSUME PlacesInv, NEW s \in Sources,
           \A u \in Sources \ {s} : queue'[u] = queue[u] /\ serving'[u] = serving[u],
           \A c \in Clients : Queued(c, s)' \/ serving'[s] = c =>
               (Queued(c, s) \/ serving[s] = c) /\ cmd'[c] = cmd[c],
           \A c \in Clients : cmd'[c] = cmd[c] \/ cmd[c].src = s,
           \A i, j \in 1 .. Len(queue'[s]) : queue'[s][i] = queue'[s][j] => i = j,
           \A i \in 1 .. Len(queue'[s]) : queue'[s][i] # serving'[s]
    PROVE  PlacesInv'
<1>1. ASSUME NEW u \in Sources
      PROVE  /\ \A i, j \in 1 .. Len(queue'[u]) : queue'[u][i] = queue'[u][j] => i = j
             /\ \A i \in 1 .. Len(queue'[u]) : queue'[u][i] # serving'[u]
    BY DEF PlacesInv, OnePlace, Queued
<1>2. ASSUME NEW c \in Clients, NEW u \in Sources, Queued(c, u)' \/ serving'[u] = c
      PROVE  cmd'[c].src = u
    <2>1. CASE u = s
        BY <1>2, <2>1 DEF PlacesInv, PlaceIsWaiting
    <2>2. CASE u # s
        <3>1. Queued(c, u) \/ serving[u] = c
            BY <1>2, <2>2 DEF Queued
        <3>2. cmd[c].src = u
            BY <3>1 DEF PlacesInv, PlaceIsWaiting
        <3> QED
            BY <2>2, <3>2
    <2> QED
        BY <2>1, <2>2
<1>3. OnePlace'
    BY <1>1 DEF OnePlace
<1>4. PlaceIsWaiting'
    BY <1>2 DEF PlaceIsWaiting
<1> QED
    BY <1>3, <1>4 DEF PlacesInv

LEMMA StepPlaces ==
    ASSUME IInv, CallsInv, PlacesInv, [Next]_vars
    PROVE  PlacesInv'
<1> USE SourceTaskAssumption
<1>0. CallsTyped /\ ServesNobody /\ Typed /\ PlacesInv
    BY DEF IInv, Shown, CallsInv
<1>1. ASSUME NEW c \in Clients, NEW s \in Sources, NEW op \in Ops, Request(c, s, op)
      PROVE  PlacesInv'
    <2>1. /\ cmd[c] = NoCmd /\ UNCHANGED serving
          /\ cmd' = [cmd EXCEPT ![c] = [src |-> s, op |-> op]]
          /\ queue' = [queue EXCEPT ![s] = Append(queue[s], c)]
        BY <1>1 DEF Request, actor
    <2>2. queue[s] \in Seq(Clients) /\ queue'[s] = Append(queue[s], c)
        BY <1>0, <2>1 DEF CallsTyped
    <2>3. /\ Len(queue[s]) \in Nat /\ Len(queue'[s]) = Len(queue[s]) + 1
          /\ queue'[s][Len(queue[s]) + 1] = c
          /\ \A i \in 1 .. Len(queue[s]) : queue'[s][i] = queue[s][i]
        BY <2>2
    <2>4. \A u \in Sources : ~ Queued(c, u) /\ serving[u] # c
        <3>1. \A u \in Sources : cmd[c].src # u
            BY <2>1 DEF NoCmd
        <3> QED
            BY <3>1 DEF PlacesInv, PlaceIsWaiting
    <2>5. \A u \in Sources \ {s} : queue'[u] = queue[u]
        BY <1>0, <2>1 DEF CallsTyped
    <2>6. \A d : Queued(d, s)' => Queued(d, s) \/ d = c
        <3>1. \A i \in 1 .. Len(queue'[s]) : i \in 1 .. Len(queue[s]) \/ i = Len(queue[s]) + 1
            BY <2>3
        <3> QED
            BY <2>3, <3>1 DEF Queued
    <2>7. OnePlace'
        <3>1. ASSUME NEW i \in 1 .. Len(queue'[s]), NEW j \in 1 .. Len(queue'[s]),
                     queue'[s][i] = queue'[s][j]
              PROVE  i = j
            <4>1. /\ i \in 1 .. Len(queue[s]) \/ i = Len(queue[s]) + 1
                  /\ j \in 1 .. Len(queue[s]) \/ j = Len(queue[s]) + 1
                BY <2>3
            <4>2. \A k \in 1 .. Len(queue[s]) : queue[s][k] # c
                BY <2>4 DEF Queued
            <4> QED
                BY <2>3, <3>1, <4>1, <4>2 DEF PlacesInv, OnePlace
        <3>2. ASSUME NEW u \in Sources, NEW i \in 1 .. Len(queue'[u])
              PROVE  queue'[u][i] # serving'[u]
            <4>1. CASE u = s
                <5>1. i \in 1 .. Len(queue[s]) \/ i = Len(queue[s]) + 1
                    BY <2>3, <4>1
                <5> QED
                    BY <2>1, <2>3, <2>4, <4>1, <5>1 DEF PlacesInv, OnePlace
            <4>2. CASE u # s
                BY <2>1, <2>5, <4>2 DEF PlacesInv, OnePlace
            <4> QED
                BY <4>1, <4>2
        <3> QED
            BY <2>5, <3>1, <3>2 DEF PlacesInv, OnePlace
    <2>8. PlaceIsWaiting'
        <3> SUFFICES ASSUME NEW d \in Clients, NEW u \in Sources,
                            Queued(d, u)' \/ serving'[u] = d
                     PROVE  cmd'[d].src = u
            BY DEF PlaceIsWaiting
        <3>1. Queued(d, u) \/ serving[u] = d \/ (d = c /\ u = s)
            <4>1. CASE u = s
                BY <2>1, <2>6, <4>1
            <4>2. CASE u # s
                BY <2>1, <2>5, <4>2 DEF Queued
            <4> QED
                BY <4>1, <4>2
        <3>2. CASE d = c /\ u = s
            BY <1>0, <2>1, <3>2 DEF CallsTyped
        <3>3. CASE Queued(d, u) \/ serving[u] = d
            <4>1. d # c /\ cmd[d].src = u
                BY <2>4, <3>3 DEF PlacesInv, PlaceIsWaiting
            <4> QED
                BY <1>0, <2>1, <4>1 DEF CallsTyped
        <3> QED
            BY <3>1, <3>2, <3>3
    <2> QED
        BY <2>7, <2>8 DEF PlacesInv
<1>2. ASSUME NEW s \in Sources, queue[s] # <<>>, AnswerHead(s), UNCHANGED serving,
             task[s] = "select"
      PROVE  PlacesInv'
    <2>1. /\ queue' = [queue EXCEPT ![s] = Tail(queue[s])]
          /\ cmd' = [cmd EXCEPT ![Head(queue[s])] = NoCmd]
        BY <1>2 DEF AnswerHead, Dequeue, Answer
    <2>2. /\ queue'[s] = Tail(queue[s])
          /\ \A u \in Sources \ {s} : queue'[u] = queue[u]
          /\ \A c \in Clients : c # Head(queue[s]) => cmd'[c] = cmd[c]
        BY <1>0, <2>1 DEF CallsTyped
    <2>3. /\ cmd[Head(queue[s])].src = s
          /\ \A i, j \in 1 .. Len(queue'[s]) : queue'[s][i] = queue'[s][j] => i = j
          /\ \A i \in 1 .. Len(queue'[s]) :
                Queued(queue'[s][i], s) /\ queue'[s][i] # Head(queue[s])
        BY <1>0, <1>2, <2>2, HeadHasOnePlace
    <2>4. serving[s] = None /\ serving'[s] = None
        BY <1>0, <1>2 DEF ServesNobody
    <2>5. \A c : Queued(c, s)' => Queued(c, s) /\ c # Head(queue[s])
        BY <2>3 DEF Queued
    <2>6. \A i \in 1 .. Len(queue'[s]) : queue'[s][i] # serving'[s]
        BY <2>3, <2>4 DEF PlacesInv, OnePlace, Queued
    <2> QED
        BY <1>0, <1>2, <2>2, <2>3, <2>4, <2>5, <2>6, PlacesStep
<1>3. ASSUME NEW s \in Sources,
             StartAgain(s) \/ StartRefused(s) \/ TestRunning(s) \/ TestRefused(s) \/ Start(s)
                 \/ StartFails(s) \/ StopIdle(s)
      PROVE  PlacesInv'
    BY <1>2, <1>3 DEF StartAgain, StartRefused, TestRunning, TestRefused, Start, StartFails,
       StopIdle, Received, actor
<1>4. ASSUME NEW s \in Sources, StopRunning(s) \/ Test(s) PROVE PlacesInv'
    <2>1. /\ queue[s] # <<>> /\ UNCHANGED cmd /\ task[s] = "select"
          /\ queue' = [queue EXCEPT ![s] = Tail(queue[s])]
          /\ serving' = [serving EXCEPT ![s] = Head(queue[s])]
        BY <1>4 DEF StopRunning, Test, Received, BeginStop, Dequeue
    <2>2. /\ queue'[s] = Tail(queue[s]) /\ serving'[s] = Head(queue[s])
          /\ \A u \in Sources \ {s} : queue'[u] = queue[u] /\ serving'[u] = serving[u]
        BY <1>0, <2>1 DEF CallsTyped
    <2>0. /\ Queued(Head(queue[s]), s)
          /\ \A i, j \in 1 .. Len(Tail(queue[s])) :
                Tail(queue[s])[i] = Tail(queue[s])[j] => i = j
          /\ \A i \in 1 .. Len(Tail(queue[s])) :
                Queued(Tail(queue[s])[i], s) /\ Tail(queue[s])[i] # Head(queue[s])
        BY <1>0, <2>1, HeadHasOnePlace
    <2>3. /\ Queued(Head(queue[s]), s)
          /\ \A i, j \in 1 .. Len(queue'[s]) : queue'[s][i] = queue'[s][j] => i = j
          /\ \A i \in 1 .. Len(queue'[s]) :
                Queued(queue'[s][i], s) /\ queue'[s][i] # Head(queue[s])
        BY <2>0, <2>2
    <2>4. \A c : Queued(c, s)' => Queued(c, s) /\ c # Head(queue[s])
        BY <2>3 DEF Queued
    <2>5. \A i \in 1 .. Len(queue'[s]) : queue'[s][i] # serving'[s]
        BY <2>2, <2>3
    <2>6. \A c \in Clients : Queued(c, s)' \/ serving'[s] = c => Queued(c, s)
        BY <2>2, <2>3, <2>4
    <2> QED
        BY <2>1, <2>2, <2>3, <2>5, <2>6, PlacesStep
<1>5. ASSUME NEW s \in Sources, NEW who,
             queue' = [queue EXCEPT ![s] = <<>>], serving'[s] = None,
             \A u \in Sources \ {s} : serving'[u] = serving[u],
             \A c \in Clients : cmd'[c] = cmd[c] \/ c = who \/ Queued(c, s),
             who = None \/ who = serving[s]
      PROVE  PlacesInv'
    <2>1. queue'[s] = <<>> /\ \A u \in Sources \ {s} : queue'[u] = queue[u]
        BY <1>0, <1>5 DEF CallsTyped
    <2>2. \A c : ~ Queued(c, s)'
        BY <2>1 DEF Queued
    <2>3. \A c \in Clients : cmd'[c] = cmd[c] \/ cmd[c].src = s
        BY <1>5 DEF PlacesInv, PlaceIsWaiting
    <2>4. \A c \in Clients : serving'[s] # c
        BY <1>5
    <2> QED
        BY <1>5, <2>1, <2>2, <2>3, <2>4, PlacesStep
<1>6. ASSUME NEW s \in Sources, DeleteIdle(s) \/ HandleDropped(s) PROVE PlacesInv'
    <2>1. /\ task[s] = "select" /\ Depart(s, None) /\ UNCHANGED serving
        BY <1>6 DEF DeleteIdle, HandleDropped, Received
    <2>2. serving[s] = None
        BY <1>0, <2>1 DEF ServesNobody
    <2>3. \A c \in Clients : cmd'[c] = cmd[c] \/ c = None \/ Queued(c, s)
        BY <2>1 DEF Depart, Queued
    <2> QED
        BY <1>5, <2>1, <2>2, <2>3 DEF Depart
<1>7. ASSUME NEW s \in Sources, Reaped(s), Depart(s, serving[s]) PROVE PlacesInv'
    <2>1. serving' = [serving EXCEPT ![s] = None]
        BY <1>7 DEF Reaped
    <2>2. serving'[s] = None /\ \A u \in Sources \ {s} : serving'[u] = serving[u]
        BY <1>0, <2>1 DEF CallsTyped
    <2>3. /\ queue' = [queue EXCEPT ![s] = <<>>]
          /\ \A c \in Clients : cmd'[c] = cmd[c] \/ c = serving[s] \/ Queued(c, s)
        BY <1>7 DEF Depart, Queued
    <2> QED
        BY <1>5, <2>2, <2>3
<1>8. ASSUME NEW s \in Sources, UNCHANGED queue, serving' = [serving EXCEPT ![s] = None],
             Answer(serving[s]) \/ UNCHANGED cmd
      PROVE  PlacesInv'
    <2>1. serving'[s] = None /\ \A u \in Sources \ {s} : serving'[u] = serving[u]
        BY <1>0, <1>8 DEF CallsTyped
    <2>2. \A c : Queued(c, s)' => Queued(c, s)
        BY <1>8 DEF Queued
    <2>3. \A c \in Clients : cmd'[c] = cmd[c] \/ c = serving[s]
        BY <1>0, <1>8 DEF Answer, CallsTyped
    <2>4. \A c \in Clients : cmd'[c] = cmd[c] \/ cmd[c].src = s
        BY <2>3 DEF PlacesInv, PlaceIsWaiting
    <2>5. \A c \in Clients : Queued(c, s)' => cmd'[c] = cmd[c]
        BY <2>2, <2>3 DEF PlacesInv, OnePlace, Queued
    <2>6. \A i \in 1 .. Len(queue'[s]) : queue'[s][i] # serving'[s]
        <3>1. queue[s] \in Seq(Clients)
            BY <1>0 DEF CallsTyped
        <3>2. \A i \in 1 .. Len(queue[s]) : queue[s][i] \in Clients
            BY <3>1
        <3> QED
            BY <1>8, <2>1, <3>2
    <2>7. \A i, j \in 1 .. Len(queue'[s]) : queue'[s][i] = queue'[s][j] => i = j
        BY <1>8 DEF PlacesInv, OnePlace
    <2> QED
        BY <1>8, <2>1, <2>2, <2>4, <2>5, <2>6, <2>7, PlacesStep
<1>9. ASSUME NEW s \in Sources, Reaped(s) \/ TestReaped(s) PROVE PlacesInv'
    BY <1>7, <1>8, <1>9 DEF Reaped, TestReaped
<1>10. ASSUME NEW s \in Sources, OnTerminal(s) \/ OnClosed(s) PROVE PlacesInv'
    <2>1. /\ task[s] = "select" /\ UNCHANGED <<queue, cmd>>
          /\ serving' = [serving EXCEPT ![s] = None]
        BY <1>10 DEF OnTerminal, OnClosed, Event, BeginStop, calls
    <2> QED
        BY <1>8, <2>1
<1>11. ASSUME NEW s \in Sources, \/ TestDecided(s) \/ TestTimesOut(s) \/ TestRetries(s)
                                 \/ OnConnected(s) \/ OnFrame(s) \/ OnReconnecting(s)
                                 \/ RuntimeReturns(s) \/ \E e \in Events : RuntimeSends(s, e)
       PROVE  PlacesInv'
    BY <1>0, <1>11, PlacesKept DEF TestDecided, TestTimesOut, TestRetries, OnConnected,
       OnFrame, OnReconnecting, RuntimeReturns, RuntimeSends, actor, calls
<1>12. CASE UNCHANGED vars
    BY <1>0, <1>12, PlacesKept DEF vars, actor, calls
<1> QED
    BY <1>1, <1>3, <1>4, <1>6, <1>9, <1>10, <1>11, <1>12
       DEF Next, ServeCommand, ServeEvent, Await

(***************************************************************************)
(* A Stop or Delete answers when the runtime is reaped and its permit is   *)
(* back in the semaphore.                                                  *)
(***************************************************************************)
THEOREM StopsAnswerAfterReaping == Spec => StopAnswersAfterReaping
<1> DEFINE AnsweredReaped(c) ==
        cmd[c].op \in {"stop", "delete"} /\ cmd'[c] = NoCmd /\ task'[cmd[c].src] # "gone"
            => rt'[cmd[c].src] = "none" /\ permit'[cmd[c].src] = None
<1>1. ASSUME IInv, CallsInv, PlacesInv, [Next]_vars, NEW c \in Clients
      PROVE  AnsweredReaped(c)
    <2> SUFFICES ASSUME cmd[c].op \in {"stop", "delete"}, cmd'[c] = NoCmd,
                        task'[cmd[c].src] # "gone"
                 PROVE  rt'[cmd[c].src] = "none" /\ permit'[cmd[c].src] = None
        OBVIOUS
    <2>0. /\ Typed /\ CallsTyped /\ PermitAccounting /\ PlacesInv
          /\ cmd[c] # NoCmd /\ cmd'[c] # cmd[c]
        BY <1>1 DEF IInv, Shown, CallsInv, NoCmd
    <2>1. ASSUME NEW s \in Sources, Queued(c, s) \/ serving[s] = c PROVE cmd[c].src = s
        BY <2>0, <2>1 DEF PlacesInv, PlaceIsWaiting
    <2>2. ASSUME NEW d \in Clients, NEW s \in Sources, NEW op \in Ops, Request(d, s, op)
          PROVE  FALSE
        <3>1. cmd' = [cmd EXCEPT ![d] = [src |-> s, op |-> op]]
            BY <2>2 DEF Request
        <3>2. cmd'[c] = [src |-> s, op |-> op]
            BY <2>0, <3>1 DEF CallsTyped
        <3>3. s # "none"
            BY SourceTaskAssumption
        <3> QED
            BY <3>2, <3>3 DEF NoCmd
    <2>3. ASSUME NEW s \in Sources, AnswerHead(s) PROVE c = Head(queue[s])
        BY <2>0, <2>3 DEF AnswerHead, Answer, CallsTyped
    <2>4. ASSUME NEW s \in Sources,
                 StartAgain(s) \/ StartRefused(s) \/ TestRunning(s) \/ TestRefused(s)
                     \/ Start(s) \/ StartFails(s)
          PROVE  FALSE
        <3>1. AnswerHead(s) /\ cmd[Head(queue[s])].op \in {"start", "test"}
            BY <2>4 DEF StartAgain, StartRefused, TestRunning, TestRefused, Start, StartFails,
               Received
        <3> QED
            BY <2>3, <3>1
    <2>5. ASSUME NEW s \in Sources, StopIdle(s)
          PROVE  rt'[cmd[c].src] = "none" /\ permit'[cmd[c].src] = None
        <3>1. /\ queue[s] # <<>> /\ rt[s] = "none" /\ AnswerHead(s)
              /\ UNCHANGED <<permit, rt>>
            BY <2>5 DEF StopIdle, Received, perms, runtime
        <3>2. Queued(Head(queue[s]), s)
            BY <2>0, <3>1, HeadHasOnePlace
        <3>3. cmd[c].src = s
            BY <2>1, <2>3, <3>1, <3>2
        <3>4. permit[s] = None
            BY <2>0, <3>1 DEF PermitAccounting
        <3> QED
            BY <3>1, <3>3, <3>4
    <2>6. ASSUME NEW s \in Sources, Depart(s, None) \/ Depart(s, serving[s]) PROVE FALSE
        <3>1. c = None \/ c = serving[s] \/ Queued(c, s)
            BY <2>0, <2>6 DEF Depart, Queued
        <3>2. cmd[c].src = s
            BY <2>1, <3>1, SourceTaskAssumption
        <3>3. task'[s] = "gone"
            BY <2>0, <2>6 DEF Depart, Goto, Typed
        <3> QED
            BY <3>2, <3>3
    <2>7. ASSUME NEW s \in Sources, Reaped(s) \/ TestReaped(s)
          PROVE  rt'[cmd[c].src] = "none" /\ permit'[cmd[c].src] = None
        <3>1. /\ rt' = [rt EXCEPT ![s] = "none"] /\ permit' = [permit EXCEPT ![s] = None]
              /\ Answer(serving[s]) \/ UNCHANGED cmd \/ Depart(s, serving[s])
            BY <2>7 DEF Reaped, TestReaped, DropRuntime, Release
        <3>2. Answer(serving[s])
            BY <2>0, <2>6, <3>1
        <3>3. c = serving[s]
            BY <2>0, <3>2 DEF Answer, CallsTyped
        <3>4. cmd[c].src = s
            BY <2>1, <3>3
        <3> QED
            BY <2>0, <3>1, <3>4 DEF Typed
    <2>8. UNCHANGED cmd => FALSE
        BY <2>0
    <2> QED
        BY <1>1, <2>2, <2>4, <2>5, <2>6, <2>7, <2>8
        DEF Next, ServeCommand, ServeEvent, Await, StopRunning, DeleteIdle, HandleDropped,
            Test, TestRetries, TestDecided, TestTimesOut, OnConnected, OnFrame,
            OnReconnecting, OnTerminal, OnClosed, RuntimeSends, RuntimeReturns, calls, vars
<1>2. IInv /\ CallsInv /\ PlacesInv /\ [Next]_vars => \A c \in Clients : AnsweredReaped(c)
    BY <1>1
<1> QED
    BY <1>2, InitIInv, StepIInv, InitCalls, StepCalls, PlacesInitInv, StepPlaces, PTL
    DEF Spec, StopAnswersAfterReaping

(***************************************************************************)
(* Only a Start brings a source to life, and a Stop answers when it is at  *)
(* rest.                                                                   *)
(***************************************************************************)
THEOREM StepsStayInOrder == Spec => SourceStepsInOrder
BY OnlyStartRevives, StopsAnswerAfterReaping DEF SourceStepsInOrder

(***************************************************************************)
(* The state is well-typed; frame_count stays within what one runtime      *)
(* sends because it is reset with every Start.                             *)
(***************************************************************************)
THEOREM SourceTypes == Spec => []TypeOK
<1>1. IInv /\ CallsInv /\ FlowInv => TypeOK
    BY DEF IInv, Shown, Typed, CallsInv, CallsTyped, FlowInv, FlowTyped, TypeOK
<1> QED
    BY <1>1, InitIInv, StepIInv, InitCalls, StepCalls, FlowInitInv, StepFlow, PTL DEF Spec
=============================================================================
