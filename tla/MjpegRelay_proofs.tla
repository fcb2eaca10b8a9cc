-------------------------- MODULE MjpegRelay_proofs --------------------------
(***************************************************************************)
(* Proofs about MjpegRelay, for any number of handlers and viewers, any    *)
(* limit on viewers and any number of starts and stops.                    *)
(***************************************************************************)
EXTENDS MjpegRelay, FiniteSetTheorems, TLAPS

-----------------------------------------------------------------------------
(***************************************************************************)
(* The run of the relay.  Who starts or stops it does not matter: what the *)
(* sender lock covers is enough.  A frame being encoded carries some       *)
(* generation, of which nothing more need be known: publish compares it.   *)
(***************************************************************************)
RunTyped ==
    /\ active \in BOOLEAN
    /\ sender \in Nat /\ generation \in Nat /\ latest \in Nat

RunInv == RunTyped /\ SenderIsThisRuns /\ NoOldPicture

LEMMA StartRunKeeps ==
    ASSUME RunInv, StartRun
    PROVE  RunInv'
<1>1. CASE active /\ UNCHANGED <<run, cpc>>
    BY <1>1 DEF RunInv, RunTyped, SenderIsThisRuns, NoOldPicture, run
<1>2. CASE ~active /\ active' = TRUE /\ generation' = generation + 1
              /\ sender' = generation + 1 /\ latest' = 0
    BY <1>2 DEF RunInv, RunTyped, SenderIsThisRuns, NoOldPicture
<1> QED
    BY <1>1, <1>2 DEF StartRun

LEMMA RunUnchanged ==
    ASSUME RunInv, UNCHANGED run
    PROVE  RunInv'
BY DEF RunInv, RunTyped, SenderIsThisRuns, NoOldPicture, run

(***************************************************************************)
(* No step touches the run but a start, the two halves of a stop and a     *)
(* publish.                                                                *)
(***************************************************************************)
LEMMA RunStep ==
    ASSUME [Next]_vars
    PROVE  \/ StartRun
           \/ \E p \in Procs : Stop(p) \/ Quiet(p)
           \/ Publish
           \/ UNCHANGED run
<1>1. CASE UNCHANGED vars
    BY <1>1 DEF vars
<1>2. ASSUME NEW p \in Procs, Stopping(p)
      PROVE  UNCHANGED run \/ Stop(p) \/ Quiet(p)
    BY <1>2 DEF Stopping, StopAgain, ClearPending, Close
<1>3. ASSUME NEW c \in Callers,
             BeginStart(c) \/ BeginStop(c) \/ BeginDelete(c) \/ BeginShutdown(c)
                 \/ Serve(c) \/ Dropped(c)
      PROVE  UNCHANGED run \/ StartRun
    BY <1>3 DEF BeginStart, BeginStop, BeginDelete, BeginShutdown, Dropped, Serve,
             StartTask, Lookup, StartRelay, StopTask, DeleteTask, Unregister, Remove
<1>4. ASSUME SourceChanges \/ Produce \/ Frame
      PROVE  UNCHANGED run \/ StartRun
    BY <1>4 DEF SourceChanges, Produce, FollowLive, FollowRest, PutPending, EndOfLoop,
             StatusClosed, Frame
<1>5. ASSUME Consume \/ Renotified \/ EncodeFails
      PROVE  UNCHANGED run \/ Publish
    BY <1>5 DEF Consume, Look, LookClosed, Take, CheckCurrent, Renotified, EncodeFails,
             ConsumerTo
<1>6. ASSUME NEW v \in Viewers,
             Ask(v) \/ Body(v) \/ EmptyBody(v) \/ BodyEnds(v) \/ ClientLeaves(v)
      PROVE  UNCHANGED run
    BY <1>6 DEF Ask, Body, EmptyBody, BodyEnds, ClientLeaves, DropLease, ViewerTo
<1> QED
    BY <1>1, <1>2, <1>3, <1>4, <1>5, <1>6 DEF Next

LEMMA RunInvStep ==
    ASSUME RunInv, [Next]_vars, job \in Nat
    PROVE  RunInv'
<1>1. CASE StartRun
    BY <1>1, StartRunKeeps
<1>2. ASSUME NEW p \in Procs, Stop(p)
      PROVE  RunInv'
    <2>1. active' = FALSE /\ sender' = 0 /\ generation' = generation + 1 /\ latest' = latest
        BY <1>2 DEF Stop
    <2>2. active' \in BOOLEAN /\ SenderIsThisRuns' /\ NoOldPicture'
        BY <2>1 DEF SenderIsThisRuns, NoOldPicture
    <2>3. sender' \in Nat /\ generation' \in Nat /\ latest' \in Nat
        BY <2>1 DEF RunInv, RunTyped
    <2> QED
        BY <2>2, <2>3 DEF RunInv, RunTyped
<1>3. ASSUME NEW p \in Procs, Quiet(p)
      PROVE  RunInv'
    BY <1>3 DEF Quiet, RunInv, RunTyped, SenderIsThisRuns, NoOldPicture
<1>4. CASE Publish
    BY <1>4 DEF Publish, Current, RunInv, RunTyped, SenderIsThisRuns, NoOldPicture
<1>5. CASE UNCHANGED run
    BY <1>5, RunUnchanged
<1> QED
    BY <1>1, <1>2, <1>3, <1>4, <1>5, RunStep

-----------------------------------------------------------------------------
(***************************************************************************)
(* The viewers.  The open bodies are a finite set that grows by one as a   *)
(* lease is taken and shrinks by one as it is dropped.                     *)
(***************************************************************************)
Open == {v \in Viewers : vpc[v] = "open"}

ViewerInv ==
    /\ vpc \in [Viewers -> {"none", "asked", "open"}]
    /\ viewers \in Nat
    /\ ViewersCounted

LEMMA OpenFinite == IsFiniteSet(Open)
BY MjpegRelayAssumption, FS_Subset DEF Open

LEMMA ViewerMoves ==
    ASSUME ViewerInv, NEW v \in Viewers, vpc[v] # "open", NEW l \in {"none", "asked"},
           vpc' = [vpc EXCEPT ![v] = l], viewers' = viewers
    PROVE  ViewerInv'
<1>1. Open' = Open
    BY DEF ViewerInv, Open
<1> QED
    BY <1>1 DEF ViewerInv, ViewersCounted, Open

LEMMA LeaseTaken ==
    ASSUME ViewerInv, NEW v \in Viewers, Body(v)
    PROVE  ViewerInv'
<1>1. v \notin Open /\ Open' = Open \cup {v}
    BY DEF ViewerInv, Open, Body, ViewerTo
<1>2. Cardinality(Open') = Cardinality(Open) + 1
    BY <1>1, OpenFinite, FS_AddElement
<1>3. viewers' = viewers + 1 /\ viewers < MaxViewers
    BY DEF Body
<1>4. viewers' = Cardinality(Open') /\ viewers' <= MaxViewers /\ viewers' \in Nat
    BY <1>2, <1>3, MjpegRelayAssumption DEF ViewerInv, ViewersCounted, Open
<1>5. vpc' \in [Viewers -> {"none", "asked", "open"}]
    BY DEF ViewerInv, Body, ViewerTo
<1> QED
    BY <1>4, <1>5 DEF ViewerInv, ViewersCounted, Open

LEMMA LeaseDropped ==
    ASSUME ViewerInv, NEW v \in Viewers, vpc[v] = "open", DropLease(v)
    PROVE  ViewerInv'
<1>1. v \in Open /\ Open' = Open \ {v}
    BY DEF ViewerInv, Open, DropLease, ViewerTo
<1>2. Cardinality(Open') = Cardinality(Open) - 1
    BY <1>1, OpenFinite, FS_RemoveElement
<1>3. Cardinality(Open') \in Nat
    BY <1>1, OpenFinite, FS_RemoveElement, FS_CardinalityType
<1>4. viewers' = viewers - 1
    BY DEF DropLease
<1>5. viewers' = Cardinality(Open') /\ viewers' <= MaxViewers /\ viewers' \in Nat
    BY <1>2, <1>3, <1>4, MjpegRelayAssumption DEF ViewerInv, ViewersCounted, Open
<1>6. vpc' \in [Viewers -> {"none", "asked", "open"}]
    BY DEF ViewerInv, DropLease, ViewerTo
<1> QED
    BY <1>5, <1>6 DEF ViewerInv, ViewersCounted, Open

LEMMA BodiesUnchanged ==
    ASSUME ViewerInv, UNCHANGED bodies
    PROVE  ViewerInv'
BY DEF ViewerInv, ViewersCounted, bodies

LEMMA ViewerInvStep ==
    ASSUME ViewerInv, [Next]_vars
    PROVE  ViewerInv'
<1>1. CASE UNCHANGED vars
    BY <1>1, BodiesUnchanged DEF vars
<1>2. ASSUME NEW p \in Procs, Stopping(p)
      PROVE  UNCHANGED bodies
    BY <1>2 DEF Stopping, StopAgain, Stop, ClearPending, Quiet, Close
<1>3. ASSUME NEW c \in Callers,
             BeginStart(c) \/ BeginStop(c) \/ BeginDelete(c) \/ BeginShutdown(c)
                 \/ Serve(c) \/ Dropped(c)
      PROVE  UNCHANGED bodies
    BY <1>3 DEF BeginStart, BeginStop, BeginDelete, BeginShutdown, Dropped, Serve,
             StartTask, Lookup, StartRelay, StopTask, DeleteTask, Unregister, Remove
<1>4. ASSUME SourceChanges \/ Produce \/ Frame
      PROVE  UNCHANGED bodies
    BY <1>4 DEF SourceChanges, Produce, FollowLive, FollowRest, PutPending, EndOfLoop,
             StatusClosed, Frame
<1>5. ASSUME Consume \/ Renotified \/ EncodeFails
      PROVE  UNCHANGED bodies
    BY <1>5 DEF Consume, Look, LookClosed, Take, CheckCurrent, Publish, Renotified,
             EncodeFails, ConsumerTo
<1>6. ASSUME NEW v \in Viewers,
             Ask(v) \/ Body(v) \/ EmptyBody(v) \/ BodyEnds(v) \/ ClientLeaves(v)
      PROVE  ViewerInv'
    <2>1. CASE Ask(v)
        BY <2>1, ViewerMoves DEF Ask, ViewerTo
    <2>2. CASE EmptyBody(v)
        BY <2>2, ViewerMoves DEF EmptyBody, ViewerTo
    <2>3. CASE Body(v)
        BY <2>3, LeaseTaken
    <2>4. CASE BodyEnds(v) \/ ClientLeaves(v)
        BY <2>4, LeaseDropped DEF BodyEnds, ClientLeaves
    <2> QED
        BY <1>6, <2>1, <2>2, <2>3, <2>4
<1> QED
    BY <1>1, <1>2, <1>3, <1>4, <1>5, <1>6, BodiesUnchanged DEF Next

-----------------------------------------------------------------------------
(***************************************************************************)
(* Types.  A stop in progress knows where to return to.                    *)
(***************************************************************************)
StopReturns == \A p \in Procs : pc[p] \in {"stop", "clear", "quiet"} => then[p] # "none"

Flags ==
    /\ unseen \in BOOLEAN /\ up \in BOOLEAN
    /\ registered \in BOOLEAN /\ inMap \in BOOLEAN /\ hubClosed \in BOOLEAN
    /\ active \in BOOLEAN /\ token \in BOOLEAN /\ closed \in BOOLEAN

Values ==
    /\ status \in {"live", "rest"}
    /\ mutations \in Callers \cup {None}
    /\ sender \in Gens /\ generation \in Gens /\ latest \in Gens /\ pending \in Gens
    /\ pc \in [Procs -> Steps] /\ then \in [Procs -> Tails]
    /\ cpc \in {"look", "closed", "wait", "pace", "check", "permit", "encode", "gone"}
    /\ job \in Gens
    /\ vpc \in [Viewers -> {"none", "asked", "open"}]
    /\ sub \in [Viewers -> Gens]
    /\ viewers \in 0 .. MaxViewers
    /\ StopReturns

Typed == Flags /\ Values

LEMMA InitTyped == Init => Typed
<1> SUFFICES ASSUME Init PROVE Typed
    OBVIOUS
<1>1. Flags
    BY DEF Init, Flags
<1>2. pc \in [Procs -> Steps] /\ then \in [Procs -> Tails] /\ StopReturns
    BY DEF Init, StopReturns, Steps, Tails
<1>3. sub \in [Viewers -> Gens] /\ vpc \in [Viewers -> {"none", "asked", "open"}]
    BY MjpegRelayAssumption DEF Init, Gens
<1>4. viewers \in 0 .. MaxViewers /\ 0 \in Gens
    BY MjpegRelayAssumption DEF Init, Gens
<1> QED
    BY <1>1, <1>2, <1>3, <1>4 DEF Init, Typed, Values

(***************************************************************************)
(* One lemma per party: who moves, and what of the types it could disturb. *)
(***************************************************************************)
LEMMA StartRunTyped ==
    ASSUME Typed, StartRun
    PROVE  /\ active' \in BOOLEAN /\ sender' \in Gens /\ generation' \in Gens /\ latest' \in Gens
           /\ cpc' \in {"look", "closed", "wait", "pace", "check", "permit", "encode", "gone"}
<1>1. active' \in BOOLEAN
    BY DEF Typed, Flags, StartRun, run
<1>2. sender' \in Gens /\ generation' \in Gens /\ latest' \in Gens
    BY MjpegRelayAssumption DEF Typed, Values, StartRun, run, Gens
<1>3. cpc' \in {"look", "closed", "wait", "pace", "check", "permit", "encode", "gone"}
    BY DEF Typed, Values, StartRun, NotifyWaiters
<1> QED
    BY <1>1, <1>2, <1>3

LEMMA StopsTyped ==
    ASSUME Typed, NEW p \in Procs, Stopping(p)
    PROVE  Typed'
<1>1. CASE StopAgain(p)
    <2>1. Flags'
        BY <1>1 DEF Typed, Flags, StopAgain, source, hub, run, slot
    <2>2. Values'
        BY <1>1, MjpegRelayAssumption DEF Typed, Values, StopReturns, Steps, Tails, Procs,
           Gens, StopAgain, Return, Goto, At, source, hub, run, slot, procs, consumer,
           bodies
    <2> QED
        BY <2>1, <2>2 DEF Typed
<1>2. CASE Stop(p)
    <2>1. Flags'
        BY <1>2 DEF Typed, Flags, Stop, source, hub, run, slot
    <2>2. Values'
        BY <1>2, MjpegRelayAssumption DEF Typed, Values, StopReturns, Steps, Tails, Procs,
           Gens, Stop, Goto, At, source, hub, run, slot, procs, consumer, bodies
    <2> QED
        BY <2>1, <2>2 DEF Typed
<1>3. CASE ClearPending(p)
    <2>1. Flags'
        BY <1>3 DEF Typed, Flags, ClearPending, source, hub, run, slot
    <2>2. Values'
        BY <1>3, MjpegRelayAssumption DEF Typed, Values, StopReturns, Steps, Tails, Procs,
           Gens, ClearPending, Goto, At, source, hub, run, slot, procs, consumer, bodies
    <2> QED
        BY <2>1, <2>2 DEF Typed
<1>4. CASE Quiet(p)
    <2>1. Flags'
        BY <1>4 DEF Typed, Flags, Quiet, source, hub, run, slot
    <2>2. Values'
        BY <1>4, MjpegRelayAssumption DEF Typed, Values, StopReturns, Steps, Tails, Procs,
           Gens, Quiet, Return, Goto, At, NotifyWaiters, source, hub, run, slot, procs,
           consumer, bodies
    <2> QED
        BY <2>1, <2>2 DEF Typed
<1>5. CASE Close(p)
    <2>1. Flags'
        BY <1>5 DEF Typed, Flags, Close, source, hub, run, slot
    <2>2. Values'
        BY <1>5, MjpegRelayAssumption DEF Typed, Values, StopReturns, Steps, Tails, Procs,
           Gens, Close, Goto, At, AfterClose, NotifyWaiters, Unlock, source, hub, run,
           slot, procs, consumer, bodies
    <2> QED
        BY <2>1, <2>2 DEF Typed
<1> QED
    BY <1>1, <1>2, <1>3, <1>4, <1>5 DEF Stopping

LEMMA HandlersTyped ==
    ASSUME Typed, NEW c \in Callers,
           BeginStart(c) \/ BeginStop(c) \/ BeginDelete(c) \/ BeginShutdown(c)
               \/ Serve(c) \/ Dropped(c)
    PROVE  Typed'
<1>1. CASE BeginStart(c)
    <2>1. Flags'
        BY <1>1 DEF Typed, Flags, BeginStart, source, hub, run, slot
    <2>2. Values'
        BY <1>1, MjpegRelayAssumption DEF Typed, Values, StopReturns, Steps, Tails, Procs,
           Gens, BeginStart, Goto, At, source, hub, run, slot, procs, consumer, bodies
    <2> QED
        BY <2>1, <2>2 DEF Typed
<1>2. CASE BeginStop(c)
    <2>1. Flags'
        BY <1>2 DEF Typed, Flags, BeginStop, source, hub, run, slot
    <2>2. Values'
        BY <1>2, MjpegRelayAssumption DEF Typed, Values, StopReturns, Steps, Tails, Procs,
           Gens, BeginStop, Goto, At, CallStop, source, hub, run, slot, procs, consumer,
           bodies
    <2> QED
        BY <2>1, <2>2 DEF Typed
<1>3. CASE BeginDelete(c)
    <2>1. Flags'
        BY <1>3 DEF Typed, Flags, BeginDelete, source, hub, run, slot
    <2>2. Values'
        BY <1>3, MjpegRelayAssumption DEF Typed, Values, StopReturns, Steps, Tails, Procs,
           Gens, BeginDelete, Goto, At, CallStop, source, hub, run, slot, procs, consumer,
           bodies
    <2> QED
        BY <2>1, <2>2 DEF Typed
<1>4. CASE BeginShutdown(c)
    <2>1. Flags'
        BY <1>4 DEF Typed, Flags, BeginShutdown, source, hub, run, slot
    <2>2. Values'
        BY <1>4, MjpegRelayAssumption DEF Typed, Values, StopReturns, Steps, Tails, Procs,
           Gens, BeginShutdown, Goto, At, CallStop, source, hub, run, slot, procs,
           consumer, bodies
    <2> QED
        BY <2>1, <2>2 DEF Typed
<1>5. CASE StartTask(c)
    <2>1. Flags'
        BY <1>5 DEF Typed, Flags, StartTask, SourceBecomes, source, hub, run, slot
    <2>2. Values'
        BY <1>5, MjpegRelayAssumption DEF Typed, Values, StopReturns, Steps, Tails, Procs,
           Gens, StartTask, Goto, At, SourceBecomes, source, hub, run, slot, procs,
           consumer, bodies
    <2> QED
        BY <2>1, <2>2 DEF Typed
<1>6. CASE Lookup(c)
    <2>1. Flags'
        BY <1>6 DEF Typed, Flags, Lookup, source, hub, run, slot
    <2>2. Values'
        BY <1>6, MjpegRelayAssumption DEF Typed, Values, StopReturns, Steps, Tails, Procs,
           Gens, Lookup, Goto, At, source, hub, run, slot, procs, consumer, bodies
    <2> QED
        BY <2>1, <2>2 DEF Typed
<1>7. CASE StartRelay(c)
    <2>1. Flags'
        BY <1>7, StartRunTyped DEF Typed, Flags, StartRelay, source, hub, run, slot
    <2>2. Values'
        BY <1>7, MjpegRelayAssumption, StartRunTyped DEF Typed, Values, StopReturns, Steps,
           Tails, Procs, Gens, StartRelay, Goto, At, source, hub, run, slot, procs,
           consumer, bodies
    <2> QED
        BY <2>1, <2>2 DEF Typed
<1>8. CASE StopTask(c)
    <2>1. Flags'
        BY <1>8 DEF Typed, Flags, StopTask, SourceBecomes, source, hub, run, slot
    <2>2. Values'
        BY <1>8, MjpegRelayAssumption DEF Typed, Values, StopReturns, Steps, Tails, Procs,
           Gens, StopTask, Goto, At, SourceBecomes, source, hub, run, slot, procs,
           consumer, bodies
    <2> QED
        BY <2>1, <2>2 DEF Typed
<1>9. CASE DeleteTask(c)
    <2>1. Flags'
        BY <1>9 DEF Typed, Flags, DeleteTask, SourceBecomes, source, hub, run, slot
    <2>2. Values'
        BY <1>9, MjpegRelayAssumption DEF Typed, Values, StopReturns, Steps, Tails, Procs,
           Gens, DeleteTask, Goto, At, SourceBecomes, Unlock, source, hub, run, slot,
           procs, consumer, bodies
    <2> QED
        BY <2>1, <2>2 DEF Typed
<1>10. CASE Unregister(c)
    <2>1. Flags'
        BY <1>10 DEF Typed, Flags, Unregister, source, hub, run, slot
    <2>2. Values'
        BY <1>10, MjpegRelayAssumption DEF Typed, Values, StopReturns, Steps, Tails, Procs,
           Gens, Unregister, Goto, At, source, hub, run, slot, procs, consumer, bodies
    <2> QED
        BY <2>1, <2>2 DEF Typed
<1>11. CASE Remove(c)
    <2>1. Flags'
        BY <1>11 DEF Typed, Flags, Remove, source, hub, run, slot
    <2>2. Values'
        BY <1>11, MjpegRelayAssumption DEF Typed, Values, StopReturns, Steps, Tails, Procs,
           Gens, Remove, Goto, At, CallStop, source, hub, run, slot, procs, consumer, bodies
    <2> QED
        BY <2>1, <2>2 DEF Typed
<1>12. CASE Dropped(c)
    <2>1. Flags'
        BY <1>12 DEF Typed, Flags, Dropped, source, hub, run, slot
    <2>2. Values'
        BY <1>12, MjpegRelayAssumption DEF Typed, Values, StopReturns, Steps, Tails, Procs,
           Gens, Dropped, Goto, At, Unlock, source, hub, run, slot, procs, consumer, bodies
    <2> QED
        BY <2>1, <2>2 DEF Typed
<1> QED
    BY <1>1, <1>2, <1>3, <1>4, <1>5, <1>6, <1>7, <1>8, <1>9, <1>10, <1>11, <1>12 DEF Serve

LEMMA TasksTyped ==
    ASSUME Typed, SourceChanges \/ Produce \/ Frame \/ Consume \/ Renotified \/ EncodeFails
    PROVE  Typed'
<1>1. CASE SourceChanges
    <2>1. Flags'
        BY <1>1 DEF Typed, Flags, SourceChanges, SourceBecomes, source, hub, run, slot
    <2>2. Values'
        BY <1>1, MjpegRelayAssumption DEF Typed, Values, StopReturns, Steps, Tails, Procs,
           Gens, SourceChanges, SourceBecomes, source, hub, run, slot, procs, consumer,
           bodies
    <2> QED
        BY <2>1, <2>2 DEF Typed
<1>2. CASE FollowLive
    <2>1. Flags'
        BY <1>2, StartRunTyped DEF Typed, Flags, FollowLive, source, hub, run, slot
    <2>2. Values'
        BY <1>2, MjpegRelayAssumption, StartRunTyped DEF Typed, Values, StopReturns, Steps,
           Tails, Procs, Gens, FollowLive, Goto, At, source, hub, run, slot, procs,
           consumer, bodies
    <2> QED
        BY <2>1, <2>2 DEF Typed
<1>3. CASE FollowRest
    <2>1. Flags'
        BY <1>3 DEF Typed, Flags, FollowRest, source, hub, run, slot
    <2>2. Values'
        BY <1>3, MjpegRelayAssumption DEF Typed, Values, StopReturns, Steps, Tails, Procs,
           Gens, FollowRest, CallStop, Goto, At, source, hub, run, slot, procs, consumer,
           bodies
    <2> QED
        BY <2>1, <2>2 DEF Typed
<1>4. CASE PutPending
    <2>1. Flags'
        BY <1>4 DEF Typed, Flags, PutPending, NotifyOne, source, hub, run, slot
    <2>2. Values'
        BY <1>4, MjpegRelayAssumption DEF Typed, Values, StopReturns, Steps, Tails, Procs,
           Gens, PutPending, Goto, At, NotifyOne, NotifyWaiters, source, hub, run, slot,
           procs, consumer, bodies
    <2> QED
        BY <2>1, <2>2 DEF Typed
<1>5. CASE EndOfLoop
    <2>1. Flags'
        BY <1>5 DEF Typed, Flags, EndOfLoop, source, hub, run, slot
    <2>2. Values'
        BY <1>5, MjpegRelayAssumption DEF Typed, Values, StopReturns, Steps, Tails, Procs,
           Gens, EndOfLoop, CallStop, Goto, At, source, hub, run, slot, procs, consumer,
           bodies
    <2> QED
        BY <2>1, <2>2 DEF Typed
<1>6. CASE StatusClosed
    <2>1. Flags'
        BY <1>6 DEF Typed, Flags, StatusClosed, source, hub, run, slot
    <2>2. Values'
        BY <1>6, MjpegRelayAssumption DEF Typed, Values, StopReturns, Steps, Tails, Procs,
           Gens, StatusClosed, CallStop, Goto, At, source, hub, run, slot, procs, consumer,
           bodies
    <2> QED
        BY <2>1, <2>2 DEF Typed
<1>7. CASE Frame
    <2>1. Flags'
        BY <1>7 DEF Typed, Flags, Frame, source, hub, run, slot
    <2>2. Values'
        BY <1>7, MjpegRelayAssumption DEF Typed, Values, StopReturns, Steps, Tails, Procs,
           Gens, Frame, Goto, At, source, hub, run, slot, procs, consumer, bodies
    <2> QED
        BY <2>1, <2>2 DEF Typed
<1>8. CASE Look
    <2>1. Flags'
        BY <1>8 DEF Typed, Flags, Look, ConsumerTo, source, hub, run, slot
    <2>2. Values'
        BY <1>8, MjpegRelayAssumption DEF Typed, Values, StopReturns, Steps, Tails, Procs,
           Gens, Look, ConsumerTo, source, hub, run, slot, procs, consumer, bodies
    <2> QED
        BY <2>1, <2>2 DEF Typed
<1>9. CASE LookClosed
    <2>1. Flags'
        BY <1>9 DEF Typed, Flags, LookClosed, ConsumerTo, source, hub, run, slot
    <2>2. Values'
        BY <1>9, MjpegRelayAssumption DEF Typed, Values, StopReturns, Steps, Tails, Procs,
           Gens, LookClosed, ConsumerTo, source, hub, run, slot, procs, consumer, bodies
    <2> QED
        BY <2>1, <2>2 DEF Typed
<1>10. CASE Take
    <2>1. Flags'
        BY <1>10 DEF Typed, Flags, Take, ConsumerTo, source, hub, run, slot
    <2>2. Values'
        BY <1>10, MjpegRelayAssumption DEF Typed, Values, StopReturns, Steps, Tails, Procs,
           Gens, Take, ConsumerTo, source, hub, run, slot, procs, consumer, bodies
    <2> QED
        BY <2>1, <2>2 DEF Typed
<1>11. CASE CheckCurrent
    <2>1. Flags'
        BY <1>11 DEF Typed, Flags, CheckCurrent, ConsumerTo, source, hub, run, slot
    <2>2. Values'
        BY <1>11, MjpegRelayAssumption DEF Typed, Values, StopReturns, Steps, Tails, Procs,
           Gens, CheckCurrent, ConsumerTo, source, hub, run, slot, procs, consumer, bodies
    <2> QED
        BY <2>1, <2>2 DEF Typed
<1>12. CASE Publish
    <2>1. Flags'
        BY <1>12 DEF Typed, Flags, Publish, source, hub, run, slot
    <2>2. Values'
        BY <1>12, MjpegRelayAssumption DEF Typed, Values, StopReturns, Steps, Tails, Procs,
           Gens, Publish, source, hub, run, slot, procs, consumer, bodies
    <2> QED
        BY <2>1, <2>2 DEF Typed
<1>13. CASE Renotified
    <2>1. Flags'
        BY <1>13 DEF Typed, Flags, Renotified, ConsumerTo, source, hub, run, slot
    <2>2. Values'
        BY <1>13, MjpegRelayAssumption DEF Typed, Values, StopReturns, Steps, Tails, Procs,
           Gens, Renotified, ConsumerTo, source, hub, run, slot, procs, consumer, bodies
    <2> QED
        BY <2>1, <2>2 DEF Typed
<1>14. CASE EncodeFails
    <2>1. Flags'
        BY <1>14 DEF Typed, Flags, EncodeFails, ConsumerTo, source, hub, run, slot
    <2>2. Values'
        BY <1>14, MjpegRelayAssumption DEF Typed, Values, StopReturns, Steps, Tails, Procs,
           Gens, EncodeFails, ConsumerTo, source, hub, run, slot, procs, consumer, bodies
    <2> QED
        BY <2>1, <2>2 DEF Typed
<1> QED
    BY <1>1, <1>2, <1>3, <1>4, <1>5, <1>6, <1>7, <1>8, <1>9, <1>10, <1>11, <1>12,
       <1>13, <1>14 DEF Produce, Consume

LEMMA ViewersTyped ==
    ASSUME Typed, ViewerInv', NEW v \in Viewers,
           Ask(v) \/ Body(v) \/ EmptyBody(v) \/ BodyEnds(v) \/ ClientLeaves(v)
    PROVE  Typed'
<1>1. UNCHANGED <<source, hub, run, slot, procs, consumer>>
    BY DEF Ask, Body, EmptyBody, BodyEnds, ClientLeaves, DropLease, ViewerTo
<1>2. vpc' \in [Viewers -> {"none", "asked", "open"}] /\ viewers' \in 0 .. MaxViewers
    BY MjpegRelayAssumption DEF ViewerInv, ViewersCounted
<1>3. sub' \in [Viewers -> Gens]
    BY MjpegRelayAssumption DEF Typed, Values, Gens, Ask, Body, EmptyBody, BodyEnds,
       ClientLeaves, DropLease
<1> QED
    BY <1>1, <1>2, <1>3 DEF Typed, Flags, Values, StopReturns, source, hub, run, slot,
       procs, consumer

-----------------------------------------------------------------------------
(***************************************************************************)
(* The invariant as a whole, and the theorems.                             *)
(***************************************************************************)
IInv == Typed /\ RunInv /\ ViewerInv

LEMMA InitIInv == Init => IInv
<1> SUFFICES ASSUME Init PROVE IInv
    OBVIOUS
<1>1. RunInv
    BY DEF Init, RunInv, RunTyped, SenderIsThisRuns, NoOldPicture
<1>2. Open = {}
    BY DEF Init, Open
<1>3. Cardinality(Open) = 0
    BY <1>2, FS_EmptySet
<1>4. ViewerInv
    BY <1>3, MjpegRelayAssumption DEF Init, ViewerInv, ViewersCounted, Open
<1> QED
    BY <1>1, <1>4, InitTyped DEF IInv

LEMMA NextIInv == IInv /\ [Next]_vars => IInv'
<1> SUFFICES ASSUME IInv, [Next]_vars PROVE IInv'
    OBVIOUS
<1>1. RunInv'
    BY RunInvStep DEF IInv, Typed, Values, Gens
<1>2. ViewerInv'
    BY ViewerInvStep DEF IInv
<1>3. Typed'
    <2>1. CASE UNCHANGED vars
        BY <2>1 DEF IInv, Typed, Flags, Values, StopReturns, vars, source, hub, run, slot, procs,
           consumer, bodies
    <2>2. CASE Next
        BY <1>2, <2>2, StopsTyped, HandlersTyped, TasksTyped, ViewersTyped DEF IInv, Next
    <2> QED
        BY <2>1, <2>2
<1> QED
    BY <1>1, <1>2, <1>3 DEF IInv

LEMMA InvariantHolds == Spec => []IInv
BY InitIInv, NextIInv, PTL DEF Spec

(***************************************************************************)
(* Every variable keeps its type: in particular the unsigned viewer count  *)
(* of SourceStream never goes below zero.                                  *)
(***************************************************************************)
THEOREM TypeCorrect == Spec => []TypeOK
<1>1. IInv => TypeOK
    BY DEF IInv, Typed, Flags, Values, TypeOK
<1> QED
    BY <1>1, InvariantHolds, PTL

(***************************************************************************)
(* However start and stop of mjpeg.rs interleave, a sender exists exactly  *)
(* while the relay is active, and it belongs to the present generation.    *)
(***************************************************************************)
THEOREM SenderMatchesRun == Spec => []SenderIsThisRuns
<1>1. IInv => SenderIsThisRuns
    BY DEF IInv, RunInv
<1> QED
    BY <1>1, InvariantHolds, PTL

(***************************************************************************)
(* No encoding of an earlier run is ever published into a later one.       *)
(***************************************************************************)
THEOREM LateEncodingDiscarded == Spec => []NoOldPicture
<1>1. IInv => NoOldPicture
    BY DEF IInv, RunInv
<1> QED
    BY <1>1, InvariantHolds, PTL

(***************************************************************************)
(* The viewer count is exact and within MAX_VIEWERS, however requests,     *)
(* ends of bodies and departing clients interleave with starts and stops.  *)
(***************************************************************************)
THEOREM ViewerCountExact == Spec => []ViewersCounted
<1>1. IInv => ViewersCounted
    BY DEF IInv, ViewerInv
<1> QED
    BY <1>1, InvariantHolds, PTL

(***************************************************************************)
(* Sender, generation and latest picture belong to the present run of the  *)
(* source, whoever started and stopped it.                                 *)
(***************************************************************************)
THEOREM PictureStaysThisRuns == Spec => []PictureIsThisRuns
<1>1. SenderIsThisRuns /\ NoOldPicture => PictureIsThisRuns
    BY DEF PictureIsThisRuns
<1> QED
    BY <1>1, SenderMatchesRun, LateEncodingDiscarded, PTL

=============================================================================
