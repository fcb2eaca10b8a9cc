----------------------------- MODULE MjpegRelay -----------------------------
(***************************************************************************)
(* One SourceStream of mjpeg.rs: the relay between a source and the        *)
(* viewers of its MJPEG stream.  Three parties start and stop it: the      *)
(* handlers of registry.rs (start, stop, delete, shutdown), its producer   *)
(* task following the status of the source, and the hub as it closes.      *)
(* A consumer task encodes the latest frame; a generation stamped on each  *)
(* frame keeps a late encoding out of the next run.                        *)
(*                                                                         *)
(* The number 0 stands for no sender, no frame and no picture.  A step     *)
(* ends at an await or where a lock is released.                           *)
(***************************************************************************)
EXTENDS Naturals, FiniteSets

CONSTANTS
    Callers,        \* handlers of registry.rs running at a time
    Viewers,        \* requests for the MJPEG stream
    Producer,       \* the task running produce
    None,           \* nobody holds the mutations lock
    MaxViewers,     \* MAX_VIEWERS
    GenBound        \* bound: starts and stops of the relay

ASSUME MjpegRelayAssumption ==
    /\ IsFiniteSet(Viewers)
    /\ Producer \notin Callers /\ None \notin Callers
    /\ MaxViewers \in Nat \ {0} /\ GenBound \in Nat

VARIABLES
    status,     \* the source: "live" or at "rest"
    unseen,     \* the producer has not seen the last status
    up,         \* the source's actor runs
    registered, \* the source is in the registry
    inMap,      \* the relay is in the hub's map
    hubClosed,  \* HubInner.closed
    mutations,  \* holder of the registry's mutations lock
    active, sender, generation, latest,     \* SourceStream
    pending, token, closed,                 \* EncodeSlot, and notify's permit
    pc, then,   \* the callers and the producer
    cpc, job,   \* the consumer and the frame it encodes
    vpc, sub,   \* the viewers and the sender each subscribed to
    viewers     \* SourceStream.viewers

source == <<status, unseen, up>>
hub == <<registered, inMap, hubClosed, mutations>>
run == <<active, sender, generation, latest>>
slot == <<pending, token, closed>>
procs == <<pc, then>>
consumer == <<cpc, job>>
bodies == <<vpc, sub, viewers>>
vars == <<source, hub, run, slot, procs, consumer, bodies>>

Procs == Callers \cup {Producer}
Gens == 0 .. GenBound
Tails == {"none", "loop", "closeGone", "stopTask", "deleteTask", "closeRemove", "closeHub"}
Steps == {"idle", "start", "lookup", "relay", "stop", "clear", "quiet", "unregister",
          "remove", "select", "put", "gone"} \cup (Tails \ {"none"})

TypeOK ==
    /\ status \in {"live", "rest"} /\ unseen \in BOOLEAN /\ up \in BOOLEAN
    /\ registered \in BOOLEAN /\ inMap \in BOOLEAN /\ hubClosed \in BOOLEAN
    /\ mutations \in Callers \cup {None}
    /\ active \in BOOLEAN
    /\ sender \in Gens /\ generation \in Gens /\ latest \in Gens
    /\ pending \in Gens /\ token \in BOOLEAN /\ closed \in BOOLEAN
    /\ pc \in [Procs -> Steps] /\ then \in [Procs -> Tails]
    /\ cpc \in {"look", "closed", "wait", "pace", "check", "permit", "encode", "gone"}
    /\ job \in Gens
    /\ vpc \in [Viewers -> {"none", "asked", "open"}]
    /\ sub \in [Viewers -> Gens]
    /\ viewers \in 0 .. MaxViewers

Init ==
    /\ status = "rest" /\ unseen = FALSE /\ up = TRUE
    /\ registered = TRUE /\ inMap = TRUE /\ hubClosed = FALSE /\ mutations = None
    /\ active = FALSE /\ sender = 0 /\ generation = 0 /\ latest = 0
    /\ pending = 0 /\ token = FALSE /\ closed = FALSE
    /\ pc = [p \in Procs |-> IF p = Producer THEN "select" ELSE "idle"]
    /\ then = [p \in Procs |-> "none"]
    /\ cpc = "look" /\ job = 0
    /\ vpc = [v \in Viewers |-> "none"] /\ sub = [v \in Viewers |-> 0] /\ viewers = 0

-----------------------------------------------------------------------------
\* Building blocks.

At(p, l) == pc[p] = l
Goto(p, l) == pc' = [pc EXCEPT ![p] = l]

\* Notify: notify_waiters wakes whoever waits now, notify_one also the next to wait.
NotifyWaiters == cpc' = IF cpc = "wait" THEN "look" ELSE cpc

\* Mutant: notify_waiters where the code has notify_one.
NotifyOnlyWaiting == NotifyWaiters /\ UNCHANGED token

NotifyOne ==
    IF cpc = "wait" THEN cpc' = "look" /\ UNCHANGED token
    ELSE token' = TRUE /\ UNCHANGED cpc

\* SourceStream::start, all of it under the sender lock.
StartRun ==
    \/ active /\ UNCHANGED <<run, cpc>>
    \/ /\ ~active /\ generation < GenBound
       /\ active' = TRUE /\ generation' = generation + 1 /\ sender' = generation + 1
       /\ latest' = 0
       /\ NotifyWaiters

\* A step of p into SourceStream::stop, going on at l when it is done.
CallStop(p, l) == Goto(p, "stop") /\ then' = [then EXCEPT ![p] = l]
Return(p) == Goto(p, then[p]) /\ then' = [then EXCEPT ![p] = "none"]

-----------------------------------------------------------------------------
\* SourceStream::stop and close, by any of the parties.

StopAgain(p) ==
    /\ At(p, "stop") /\ ~active /\ sender = 0
    /\ Return(p)
    /\ UNCHANGED <<source, hub, run, slot, consumer, bodies>>

Stop(p) ==
    /\ At(p, "stop") /\ (active \/ sender # 0) /\ generation < GenBound
    /\ active' = FALSE /\ generation' = generation + 1 /\ sender' = 0
    /\ Goto(p, "clear")
    /\ UNCHANGED <<source, hub, latest, slot, then, consumer, bodies>>

ClearPending(p) ==
    /\ At(p, "clear")
    /\ pending' = 0
    /\ Goto(p, "quiet")
    /\ UNCHANGED <<source, hub, run, token, closed, then, consumer, bodies>>

Quiet(p) ==
    /\ At(p, "quiet")
    /\ latest' = 0 /\ NotifyWaiters
    /\ Return(p)
    /\ UNCHANGED <<source, hub, active, sender, generation, slot, job, bodies>>

\* close: the flag, and a wake-up for the consumer.
AfterClose == [closeGone |-> "gone", closeRemove |-> "idle", closeHub |-> "stopTask"]

Unlock(c) == mutations' = IF mutations = c THEN None ELSE mutations

Close(p) ==
    /\ pc[p] \in DOMAIN AfterClose
    /\ closed' = TRUE /\ NotifyWaiters
    /\ Goto(p, AfterClose[pc[p]])
    /\ IF At(p, "closeRemove") THEN Unlock(p) ELSE UNCHANGED mutations
    /\ UNCHANGED <<source, registered, inMap, hubClosed, run, pending, token, then, job, bodies>>

-----------------------------------------------------------------------------
\* The handlers of registry.rs.  A handler whose client hangs up is dropped
\* where it awaits; a command already sent to the actor is still served.

BeginStart(c) ==
    /\ At(c, "idle") /\ registered
    /\ Goto(c, "start")
    /\ UNCHANGED <<source, hub, run, slot, then, consumer, bodies>>

BeginStop(c) ==
    /\ At(c, "idle") /\ registered
    /\ CallStop(c, "stopTask")
    /\ UNCHANGED <<source, hub, run, slot, consumer, bodies>>

BeginDelete(c) ==
    /\ At(c, "idle") /\ registered /\ mutations = None
    /\ mutations' = c
    /\ CallStop(c, "deleteTask")
    /\ UNCHANGED <<source, registered, inMap, hubClosed, run, slot, consumer, bodies>>

BeginShutdown(c) ==
    /\ At(c, "idle") /\ inMap /\ ~hubClosed
    /\ hubClosed' = TRUE
    /\ CallStop(c, "closeHub")
    /\ UNCHANGED <<source, registered, inMap, mutations, run, slot, consumer, bodies>>

SourceBecomes(st) == status' = st /\ unseen' = TRUE

\* handle.start(): started, refused, already running, or the handler dropped.
StartTask(c) ==
    /\ At(c, "start")
    /\ \/ up /\ \E st \in {"live", "rest"} : SourceBecomes(st)
       \/ UNCHANGED <<status, unseen>>
    /\ \E l \in {"idle", "lookup"} : (l = "lookup" => up /\ status' = "live") /\ Goto(c, l)
    /\ UNCHANGED <<up, hub, run, slot, then, consumer, bodies>>

\* MjpegHub::start_source: the flag and the map, then the relay.
Lookup(c) ==
    /\ At(c, "lookup")
    /\ Goto(c, IF hubClosed \/ ~inMap THEN "idle" ELSE "relay")
    /\ UNCHANGED <<source, hub, run, slot, then, consumer, bodies>>

StartRelay(c) ==
    /\ At(c, "relay")
    /\ StartRun
    /\ Goto(c, "idle")
    /\ UNCHANGED <<source, hub, slot, then, job, bodies>>

StopTask(c) ==
    /\ At(c, "stopTask")
    /\ \/ up /\ SourceBecomes("rest")
       \/ UNCHANGED <<status, unseen>>
    /\ Goto(c, "idle")
    /\ UNCHANGED <<up, hub, run, slot, then, consumer, bodies>>

\* handle.delete(): on an error, and when the handler is dropped, the source
\* stays registered.
DeleteTask(c) ==
    /\ At(c, "deleteTask")
    /\ \/ up /\ up' = FALSE /\ SourceBecomes("rest") /\ Goto(c, "unregister") /\ UNCHANGED mutations
       \/ up /\ up' = FALSE /\ SourceBecomes("rest") /\ Goto(c, "idle") /\ Unlock(c)
       \/ Goto(c, "idle") /\ Unlock(c) /\ UNCHANGED source
    /\ UNCHANGED <<registered, inMap, hubClosed, run, slot, then, consumer, bodies>>

Unregister(c) ==
    /\ At(c, "unregister")
    /\ registered' = FALSE
    /\ Goto(c, "remove")
    /\ UNCHANGED <<source, inMap, hubClosed, mutations, run, slot, then, consumer, bodies>>

Remove(c) ==
    /\ At(c, "remove")
    /\ inMap' = FALSE
    /\ CallStop(c, "closeRemove")
    /\ UNCHANGED <<source, registered, hubClosed, mutations, run, slot, consumer, bodies>>

\* A handler dropped while it waits for the lock of the pending frame.
Dropped(c) ==
    /\ At(c, "clear") /\ then[c] # "closeHub"
    /\ Goto(c, "idle") /\ then' = [then EXCEPT ![c] = "none"] /\ Unlock(c)
    /\ UNCHANGED <<source, registered, inMap, hubClosed, run, slot, consumer, bodies>>

\* The source on its own: reconnecting, connected again, ended or failed.
SourceChanges ==
    /\ up /\ status = "live"
    /\ \E st \in {"live", "rest"} : SourceBecomes(st)
    /\ UNCHANGED <<up, hub, run, slot, procs, consumer, bodies>>

-----------------------------------------------------------------------------
\* produce.

FollowLive ==
    /\ At(Producer, "select") /\ unseen /\ status = "live"
    /\ unseen' = FALSE
    /\ StartRun
    /\ Goto(Producer, "loop")
    /\ UNCHANGED <<status, up, hub, slot, then, job, bodies>>

FollowRest ==
    /\ At(Producer, "select") /\ unseen /\ status = "rest"
    /\ unseen' = FALSE
    /\ CallStop(Producer, "loop")
    /\ UNCHANGED <<status, up, hub, run, slot, consumer, bodies>>

\* A frame is taken while the relay is active and the resolution is known.
Frame ==
    /\ At(Producer, "select")
    /\ \/ active /\ Goto(Producer, "put")
       \/ Goto(Producer, "loop")
    /\ UNCHANGED <<source, hub, run, slot, then, consumer, bodies>>

PutPending ==
    /\ At(Producer, "put")
    /\ pending' = generation /\ NotifyOne
    /\ Goto(Producer, "loop")
    /\ UNCHANGED <<source, hub, run, closed, then, job, bodies>>

EndOfLoop ==
    /\ At(Producer, "loop")
    /\ IF closed THEN CallStop(Producer, "closeGone")
       ELSE Goto(Producer, "select") /\ UNCHANGED then
    /\ UNCHANGED <<source, hub, run, slot, consumer, bodies>>

StatusClosed ==
    /\ At(Producer, "select") /\ ~up /\ ~unseen
    /\ CallStop(Producer, "closeGone")
    /\ UNCHANGED <<source, hub, run, slot, consumer, bodies>>

-----------------------------------------------------------------------------
\* consume.

ConsumerTo(l) == cpc' = l /\ UNCHANGED <<source, hub, run, procs, bodies>>

Look ==
    /\ cpc = "look"
    /\ ConsumerTo(IF pending = 0 THEN "closed" ELSE "pace")
    /\ UNCHANGED <<slot, job>>

LookClosed ==
    /\ cpc = "closed"
    /\ IF closed THEN ConsumerTo("gone") /\ UNCHANGED token
       ELSE ConsumerTo(IF token THEN "look" ELSE "wait") /\ token' = FALSE
    /\ UNCHANGED <<pending, closed, job>>

\* Before the next encoding is due, a notification sends the task back.
Renotified ==
    /\ cpc = "pace" /\ token
    /\ token' = FALSE
    /\ ConsumerTo("look")
    /\ UNCHANGED <<pending, closed, job>>

Take ==
    /\ cpc = "pace"
    /\ ConsumerTo(IF pending = 0 THEN "look" ELSE "check")
    /\ job' = pending /\ pending' = 0
    /\ UNCHANGED <<token, closed>>

Current == active /\ generation = job

\* current() before and after waiting for the encoder's permit.
CheckCurrent ==
    /\ cpc \in {"check", "permit"}
    /\ IF Current THEN ConsumerTo(IF cpc = "check" THEN "permit" ELSE "encode") /\ UNCHANGED job
       ELSE ConsumerTo("look") /\ job' = 0
    /\ UNCHANGED slot

\* Mutant: publish does not compare the generation.
PublishUnchecked ==
    /\ cpc = "encode"
    /\ latest' = IF active THEN job ELSE latest
    /\ cpc' = "look" /\ job' = 0
    /\ UNCHANGED <<source, hub, active, sender, generation, slot, procs, bodies>>

\* publish, under the sender lock.
Publish ==
    /\ cpc = "encode"
    /\ latest' = IF Current THEN job ELSE latest
    /\ cpc' = "look" /\ job' = 0
    /\ UNCHANGED <<source, hub, active, sender, generation, slot, procs, bodies>>

EncodeFails ==
    /\ cpc = "encode"
    /\ ConsumerTo("look") /\ job' = 0
    /\ UNCHANGED slot

-----------------------------------------------------------------------------
\* mjpeg_response, and the body of the response.

ViewerTo(v, l) ==
    /\ vpc' = [vpc EXCEPT ![v] = l]
    /\ UNCHANGED <<source, hub, run, slot, procs, consumer>>

Ask(v) ==
    /\ vpc[v] = "none" /\ registered
    /\ ViewerTo(v, "asked")
    /\ UNCHANGED <<sub, viewers>>

Body(v) ==
    /\ vpc[v] = "asked" /\ inMap /\ active /\ sender # 0 /\ viewers < MaxViewers
    /\ ViewerTo(v, "open")
    /\ sub' = [sub EXCEPT ![v] = sender] /\ viewers' = viewers + 1

\* An empty body; without a relay in the map the handler panics instead.
EmptyBody(v) ==
    /\ vpc[v] = "asked" /\ (~inMap \/ ~active \/ sender = 0 \/ viewers >= MaxViewers)
    /\ ViewerTo(v, "none")
    /\ UNCHANGED <<sub, viewers>>

\* The lease is dropped with the body: at its end, or when the client leaves.
DropLease(v) ==
    /\ ViewerTo(v, "none")
    /\ sub' = [sub EXCEPT ![v] = 0] /\ viewers' = viewers - 1

\* Mutant: a body that ends keeps its place in the count.
BodyEndsCounted(v) ==
    /\ vpc[v] = "open" /\ sub[v] # sender
    /\ ViewerTo(v, "none")
    /\ sub' = [sub EXCEPT ![v] = 0] /\ UNCHANGED viewers

BodyEnds(v) == vpc[v] = "open" /\ sub[v] # sender /\ DropLease(v)

ClientLeaves(v) == vpc[v] = "open" /\ DropLease(v)

-----------------------------------------------------------------------------
Stopping(p) == StopAgain(p) \/ Stop(p) \/ ClearPending(p) \/ Quiet(p) \/ Close(p)

Serve(c) ==
    StartTask(c) \/ Lookup(c) \/ StartRelay(c) \/ StopTask(c) \/ DeleteTask(c)
        \/ Unregister(c) \/ Remove(c)

Produce == FollowLive \/ FollowRest \/ PutPending \/ EndOfLoop \/ StatusClosed

Consume == Look \/ LookClosed \/ Take \/ CheckCurrent \/ Publish

Next ==
    \/ \E p \in Procs : Stopping(p)
    \/ \E c \in Callers :
          \/ BeginStart(c) \/ BeginStop(c) \/ BeginDelete(c) \/ BeginShutdown(c)
          \/ Serve(c) \/ Dropped(c)
    \/ SourceChanges
    \/ Produce \/ Frame
    \/ Consume \/ Renotified \/ EncodeFails
    \/ \E v \in Viewers : Ask(v) \/ Body(v) \/ EmptyBody(v) \/ BodyEnds(v) \/ ClientLeaves(v)

\* The consumer runs on.  next_encode passes: from then on no notification
\* turns it away from Take.
ConsumerFairness == WF_vars(Consume) /\ SF_vars(Take)

\* The other tasks and the handlers run on, too; an ended body is read to its
\* end; the producer's select! is random, so a status change is not passed over
\* for ever.
Fairness ==
    /\ ConsumerFairness
    /\ \A p \in Procs : WF_vars(Stopping(p))
    /\ \A c \in Callers : WF_vars(Serve(c))
    /\ WF_vars(Produce) /\ SF_vars(FollowLive \/ FollowRest \/ StatusClosed)
    /\ \A v \in Viewers : WF_vars(BodyEnds(v))

Spec == Init /\ [][Next]_vars
ConsumerFairSpec == Spec /\ ConsumerFairness
FairSpec == Spec /\ Fairness

-----------------------------------------------------------------------------
\* Properties.

\* However start and stop interleave, by whichever party, a sender exists
\* exactly while the relay is active, and it is the one of this generation:
\* a viewer never waits on a sender that nobody publishes to.
SenderIsThisRuns ==
    /\ active <=> sender # 0
    /\ active => sender = generation

\* An encoding that was under way when the source stopped never becomes the
\* picture of a later run (publish compares the generation).
NoOldPicture == active /\ latest # 0 => latest = generation

\* What viewers wait for and what they are shown belong to the present run.
PictureIsThisRuns == SenderIsThisRuns /\ NoOldPicture

\* The viewer count is the number of open bodies, at most MAX_VIEWERS, through
\* refused requests, bodies that end and clients that leave.
ViewersCounted ==
    /\ viewers = Cardinality({v \in Viewers : vpc[v] = "open"})
    /\ viewers <= MaxViewers

\* No frame is forgotten in the slot: the wake-up of enqueueing is not lost,
\* whatever the consumer is doing at the time.
PendingIsTaken == pending # 0 ~> (pending = 0 \/ closed)

\* "stop ... closes existing and new bodies" (mjpeg.rs:969): the bodies of a
\* source that stays stopped end.
StoppedBodiesEnd ==
    \A v \in Viewers : vpc[v] = "open" /\ status = "rest" ~> vpc[v] # "open" \/ status = "live"
=============================================================================
