--------------------------- MODULE DetectPipeline ---------------------------
(***************************************************************************)
(* detect.rs: per source, a producer task that follows the source's status *)
(* and frames, and a consumer task that detects on the latest frame.  They *)
(* share one slot, a Notify, two flags and the maps the stream shows; all  *)
(* sources share the two counters of the status page.                      *)
(*                                                                         *)
(* A frame, and whatever is computed from it, is the number of the run of  *)
(* the source that sent it; 0 stands for no frame and nothing shown.  A    *)
(* step ends where the code awaits or another thread could tell.           *)
(***************************************************************************)
EXTENDS Naturals, Sequences, FiniteSets

CONSTANTS
    Sources,
    FrameCapacity,  \* FRAME_CAPACITY of the source's broadcast channel
    RunBound        \* bound: runs of a source

ASSUME DetectAssumption ==
    /\ IsFiniteSet(Sources)
    /\ FrameCapacity \in Nat \ {0} /\ RunBound \in Nat \ {0}

VARIABLES
    published,      \* the status each source publishes: "live" or at "rest"
    news,           \* the producer has not seen the last status
    sender,         \* the source's end of the channels still exists
    srcRun,         \* the number of the run of the source
    frames,         \* the producer's receiver of the broadcast channel
    slotFrame, permit, slotClosed, slotActive,  \* LatestSlot, and notify's permit
    queueSize, activeSources,                   \* DetectInner's counters
    produce, consume, inHand,   \* the two tasks, and the frame being detected
    results, drawResults, drawnFrames, detectionError,  \* what the stream shows
    late            \* ghost: what the consumer was at when its source was
                    \* last stopped, until its next publication is complete

feed == <<published, news, sender, srcRun, frames>>
slotVars == <<slotFrame, permit, slotClosed, slotActive>>
counters == <<queueSize, activeSources>>
maps == <<results, drawResults, drawnFrames>>
shown == <<maps, detectionError>>
consumerVars == <<consume, inHand>>
detectVars == <<feed, slotVars, counters, produce, consumerVars, shown, late>>

RunNos == 0 .. RunBound
Clearing == <<"slot", "results", "draw", "drawn", "error">>
ProduceAt == {"select", "notify", "closing", "count", "wake", "ended"}
             \cup {Clearing[i] : i \in DOMAIN Clearing}
Publishing == {"publish", "insertDrawn", "insertResults", "insertDraw"}
Detecting == {"clear", "detect", "failDraw", "failDrawn", "fail"}
ConsumeAt == {"loop", "take", "look", "park", "wait", "done"} \cup Publishing \cup Detecting

DetectTypeOK ==
    /\ published \in [Sources -> {"live", "rest"}]
    /\ news \in [Sources -> BOOLEAN] /\ sender \in [Sources -> BOOLEAN]
    /\ srcRun \in [Sources -> RunNos]
    /\ frames \in [Sources -> Seq(RunNos)]
    /\ \A s \in Sources : Len(frames[s]) <= FrameCapacity
    /\ slotFrame \in [Sources -> RunNos] /\ inHand \in [Sources -> RunNos]
    /\ permit \in [Sources -> BOOLEAN]
    /\ slotClosed \in [Sources -> BOOLEAN] /\ slotActive \in [Sources -> BOOLEAN]
    /\ queueSize \in Nat /\ activeSources \in Nat
    /\ produce \in [Sources -> ProduceAt] /\ consume \in [Sources -> ConsumeAt]
    /\ results \in [Sources -> RunNos] /\ drawResults \in [Sources -> RunNos]
    /\ drawnFrames \in [Sources -> RunNos] /\ detectionError \in [Sources -> BOOLEAN]
    /\ late \in [Sources -> {"none", "detecting", "publishing"}]

\* attach, for a source that has just been spawned.
DetectInit ==
    /\ published = [s \in Sources |-> "rest"]
    /\ news = [s \in Sources |-> FALSE] /\ sender = [s \in Sources |-> TRUE]
    /\ srcRun = [s \in Sources |-> 0]
    /\ frames = [s \in Sources |-> <<>>]
    /\ slotFrame = [s \in Sources |-> 0] /\ inHand = [s \in Sources |-> 0]
    /\ permit = [s \in Sources |-> FALSE]
    /\ slotClosed = [s \in Sources |-> FALSE] /\ slotActive = [s \in Sources |-> FALSE]
    /\ queueSize = 0 /\ activeSources = 0
    /\ produce = [s \in Sources |-> "select"] /\ consume = [s \in Sources |-> "loop"]
    /\ results = [s \in Sources |-> 0] /\ drawResults = [s \in Sources |-> 0]
    /\ drawnFrames = [s \in Sources |-> 0]
    /\ detectionError = [s \in Sources |-> FALSE]
    /\ late = [s \in Sources |-> "none"]

ProduceTo(s, l) == produce' = [produce EXCEPT ![s] = l]
ConsumeTo(s, l) == consume' = [consume EXCEPT ![s] = l]

-----------------------------------------------------------------------------
\* The source's side of the channels (source_task.rs).

GoLive(s) ==
    /\ sender[s] /\ published[s] = "rest" /\ srcRun[s] < RunBound
    /\ published' = [published EXCEPT ![s] = "live"]
    /\ news' = [news EXCEPT ![s] = TRUE]
    /\ srcRun' = [srcRun EXCEPT ![s] = @ + 1]
    /\ UNCHANGED <<sender, frames, slotVars, counters, produce, consumerVars, shown, late>>

GoRest(s) ==
    /\ sender[s] /\ published[s] = "live"
    /\ published' = [published EXCEPT ![s] = "rest"]
    /\ news' = [news EXCEPT ![s] = TRUE]
    /\ UNCHANGED <<sender, srcRun, frames, slotVars, counters, produce, consumerVars, shown, late>>

\* A receiver that lags loses the oldest frame.
SendFrame(s) ==
    /\ sender[s] /\ published[s] = "live"
    /\ frames' = [frames EXCEPT ![s] =
          IF Len(@) = FrameCapacity THEN Append(Tail(@), srcRun[s]) ELSE Append(@, srcRun[s])]
    /\ UNCHANGED <<published, news, sender, srcRun, slotVars, counters, produce, consumerVars, shown, late>>

\* The actor is gone, and its senders with it.
DropSource(s) ==
    /\ sender[s]
    /\ sender' = [sender EXCEPT ![s] = FALSE]
    /\ UNCHANGED <<published, news, srcRun, frames, slotVars, counters, produce, consumerVars, shown, late>>

-----------------------------------------------------------------------------
\* The producer.

SkipRate(n) == IF n \in 1 .. 3 THEN n - 1 ELSE 3

\* What a deactivation may leave behind.
Leftover(s) ==
    IF consume[s] \in Publishing THEN "publishing"
    ELSE IF consume[s] \in Detecting THEN "detecting" ELSE "none"

UpdateActive(s, next) ==
    IF slotActive[s] = next THEN UNCHANGED <<activeSources, slotActive, late>>
    ELSE /\ activeSources' = IF next THEN activeSources + 1 ELSE activeSources - 1
         /\ slotActive' = [slotActive EXCEPT ![s] = next]
         /\ late' = IF next THEN late ELSE [late EXCEPT ![s] = Leftover(s)]

SeeStatus(s) ==
    /\ produce[s] = "select" /\ news[s]
    /\ news' = [news EXCEPT ![s] = FALSE]
    /\ UpdateActive(s, published[s] = "live")
    /\ IF published[s] = "live" THEN UNCHANGED produce ELSE ProduceTo(s, "slot")
    /\ UNCHANGED <<published, sender, srcRun, frames, slotFrame, permit, slotClosed,
                   queueSize, consumerVars, shown>>

\* A frame that arrives while inactive, or that the skip rate leaves out.
SkipFrame(s) ==
    /\ produce[s] = "select" /\ frames[s] # <<>>
    /\ ~slotActive[s] \/ SkipRate(activeSources) > 0
    /\ frames' = [frames EXCEPT ![s] = Tail(@)]
    /\ UNCHANGED <<published, news, sender, srcRun, slotVars, counters, produce, consumerVars, shown, late>>

\* enqueue, up to the release of the slot's lock.
Enqueue(s) ==
    /\ produce[s] = "select" /\ frames[s] # <<>> /\ slotActive[s]
    /\ frames' = [frames EXCEPT ![s] = Tail(@)]
    /\ slotFrame' = [slotFrame EXCEPT ![s] = Head(frames[s])]
    /\ queueSize' = IF slotFrame[s] = 0 THEN queueSize + 1 ELSE queueSize
    /\ ProduceTo(s, "notify")
    /\ UNCHANGED <<published, news, sender, srcRun, permit, slotClosed, slotActive,
                   activeSources, consumerVars, shown, late>>

NotifyConsumer(s) ==
    /\ produce[s] = "notify"
    /\ \/ consume[s] = "wait" /\ ConsumeTo(s, "take") /\ UNCHANGED permit
       \/ consume[s] # "wait" /\ permit' = [permit EXCEPT ![s] = TRUE] /\ UNCHANGED consume
    /\ ProduceTo(s, "select")
    /\ UNCHANGED <<feed, slotFrame, slotClosed, slotActive, counters, inHand, shown, late>>

\* Either channel reports that its sender is gone.
LeaveLoop(s) ==
    /\ produce[s] = "select" /\ ~sender[s]
    /\ ~news[s] \/ frames[s] = <<>>
    /\ UpdateActive(s, FALSE)
    /\ ProduceTo(s, "closing")
    /\ UNCHANGED <<feed, slotFrame, permit, slotClosed, queueSize, consumerVars, shown>>

CloseSlot(s) ==
    /\ produce[s] = "closing"
    /\ slotClosed' = [slotClosed EXCEPT ![s] = TRUE]
    /\ ProduceTo(s, "slot")
    /\ UNCHANGED <<feed, slotFrame, permit, slotActive, counters, consumerVars, shown, late>>

\* Mutant: the count follows the call, not what the call found.
ClearSlotUncounted(s) ==
    /\ produce[s] = "slot"
    /\ slotFrame' = [slotFrame EXCEPT ![s] = 0]
    /\ ProduceTo(s, "results")
    /\ UNCHANGED <<feed, permit, slotClosed, slotActive, counters, consumerVars, shown, late>>

\* clear_slot: the lock is released before the count goes down.
ClearSlot(s) ==
    /\ produce[s] = "slot"
    /\ slotFrame' = [slotFrame EXCEPT ![s] = 0]
    /\ ProduceTo(s, IF slotFrame[s] = 0 THEN "results" ELSE "count")
    /\ UNCHANGED <<feed, permit, slotClosed, slotActive, counters, consumerVars, shown, late>>

CountCleared(s) ==
    /\ produce[s] = "count"
    /\ queueSize' = queueSize - 1
    /\ ProduceTo(s, "results")
    /\ UNCHANGED <<feed, slotVars, activeSources, consumerVars, shown, late>>

ClearResults(s) ==
    /\ produce[s] = "results"
    /\ results' = [results EXCEPT ![s] = 0]
    /\ ProduceTo(s, "draw")
    /\ UNCHANGED <<feed, slotVars, counters, consumerVars, drawResults, drawnFrames, detectionError, late>>

ClearDraw(s) ==
    /\ produce[s] = "draw"
    /\ drawResults' = [drawResults EXCEPT ![s] = 0]
    /\ ProduceTo(s, "drawn")
    /\ UNCHANGED <<feed, slotVars, counters, consumerVars, results, drawnFrames, detectionError, late>>

ClearDrawn(s) ==
    /\ produce[s] = "drawn"
    /\ drawnFrames' = [drawnFrames EXCEPT ![s] = 0]
    /\ ProduceTo(s, "error")
    /\ UNCHANGED <<feed, slotVars, counters, consumerVars, results, drawResults, detectionError, late>>

ClearError(s) ==
    /\ produce[s] = "error"
    /\ detectionError' = [detectionError EXCEPT ![s] = FALSE]
    /\ ProduceTo(s, IF slotClosed[s] THEN "wake" ELSE "select")
    /\ UNCHANGED <<feed, slotVars, counters, consumerVars, maps, late>>

\* Mutant: the producer ends without a word.
EndWithoutWaking(s) ==
    /\ produce[s] = "wake"
    /\ ProduceTo(s, "ended")
    /\ UNCHANGED <<feed, slotVars, counters, consume, inHand, shown, late>>

\* notify_waiters wakes only a consumer that already waits.
WakeWaiters(s) ==
    /\ produce[s] = "wake"
    /\ consume' = IF consume[s] = "wait" THEN [consume EXCEPT ![s] = "take"] ELSE consume
    /\ ProduceTo(s, "ended")
    /\ UNCHANGED <<feed, slotVars, counters, inHand, shown, late>>

-----------------------------------------------------------------------------
\* The consumer.  The backoff after a failure is a delay before take.

CheckClosed(s) ==
    /\ consume[s] = "loop"
    /\ ConsumeTo(s, IF slotClosed[s] THEN "done" ELSE "take")
    /\ UNCHANGED <<feed, slotVars, counters, produce, inHand, shown, late>>

\* The lock is held until the count has gone down.
TakeFrame(s) ==
    /\ consume[s] = "take" /\ slotFrame[s] # 0
    /\ inHand' = [inHand EXCEPT ![s] = slotFrame[s]]
    /\ slotFrame' = [slotFrame EXCEPT ![s] = 0]
    /\ queueSize' = queueSize - 1
    /\ ConsumeTo(s, "clear")
    /\ late' = IF slotActive[s] \/ late[s] # "none" THEN late ELSE [late EXCEPT ![s] = "detecting"]
    /\ UNCHANGED <<feed, permit, slotClosed, slotActive, activeSources, produce, shown>>

TakeNothing(s) ==
    /\ consume[s] = "take" /\ slotFrame[s] = 0
    /\ ConsumeTo(s, "look")
    /\ UNCHANGED <<feed, slotVars, counters, produce, inHand, shown, late>>

Look(s) ==
    /\ consume[s] = "look"
    /\ ConsumeTo(s, IF slotClosed[s] THEN "done" ELSE "park")
    /\ UNCHANGED <<feed, slotVars, counters, produce, inHand, shown, late>>

\* notified().await: the permit, or a place among the waiters.
Park(s) ==
    /\ consume[s] = "park"
    /\ permit' = [permit EXCEPT ![s] = FALSE]
    /\ ConsumeTo(s, IF permit[s] THEN "take" ELSE "wait")
    /\ UNCHANGED <<feed, slotFrame, slotClosed, slotActive, counters, produce, inHand, shown, late>>

ForgetResults(s) ==
    /\ consume[s] = "clear"
    /\ results' = [results EXCEPT ![s] = 0]
    /\ ConsumeTo(s, "detect")
    /\ UNCHANGED <<feed, slotVars, counters, produce, inHand, drawResults, drawnFrames, detectionError, late>>

\* Mutant: a detection is published whatever became of its source.
DetectedUnguarded(s) ==
    /\ consume[s] = "detect"
    /\ ConsumeTo(s, "publish")
    /\ UNCHANGED <<feed, slotVars, counters, produce, inHand, shown, late>>

\* detect answers Ok: published only while the source is active.
Detected(s) ==
    /\ consume[s] = "detect"
    /\ ConsumeTo(s, IF slotActive[s] THEN "publish" ELSE "loop")
    /\ UNCHANGED <<feed, slotVars, counters, produce, inHand, shown, late>>

\* detect answers Err, its time-out included.
DetectFailed(s) ==
    /\ consume[s] = "detect"
    /\ ConsumeTo(s, "failDraw")
    /\ UNCHANGED <<feed, slotVars, counters, produce, inHand, shown, late>>

Publish(s) ==
    /\ consume[s] = "publish"
    /\ detectionError' = [detectionError EXCEPT ![s] = FALSE]
    /\ ConsumeTo(s, "insertDrawn")
    /\ UNCHANGED <<feed, slotVars, counters, produce, inHand, maps, late>>

\* The picture, or none when it cannot be encoded.
InsertDrawn(s) ==
    /\ consume[s] = "insertDrawn"
    /\ \E picture \in {inHand[s], 0} : drawnFrames' = [drawnFrames EXCEPT ![s] = picture]
    /\ ConsumeTo(s, "insertResults")
    /\ UNCHANGED <<feed, slotVars, counters, produce, inHand, results, drawResults, detectionError, late>>

InsertResults(s) ==
    /\ consume[s] = "insertResults"
    /\ results' = [results EXCEPT ![s] = inHand[s]]
    /\ ConsumeTo(s, "insertDraw")
    /\ UNCHANGED <<feed, slotVars, counters, produce, inHand, drawResults, drawnFrames, detectionError, late>>

InsertDraw(s) ==
    /\ consume[s] = "insertDraw"
    /\ drawResults' = [drawResults EXCEPT ![s] = inHand[s]]
    /\ ConsumeTo(s, "loop")
    /\ late' = IF slotActive[s] THEN [late EXCEPT ![s] = "none"] ELSE late
    /\ UNCHANGED <<feed, slotVars, counters, produce, inHand, results, drawnFrames, detectionError>>

FailDraw(s) ==
    /\ consume[s] = "failDraw"
    /\ drawResults' = [drawResults EXCEPT ![s] = 0]
    /\ ConsumeTo(s, "failDrawn")
    /\ UNCHANGED <<feed, slotVars, counters, produce, inHand, results, drawnFrames, detectionError, late>>

FailDrawn(s) ==
    /\ consume[s] = "failDrawn"
    /\ drawnFrames' = [drawnFrames EXCEPT ![s] = 0]
    /\ ConsumeTo(s, "fail")
    /\ UNCHANGED <<feed, slotVars, counters, produce, inHand, results, drawResults, detectionError, late>>

Fail(s) ==
    /\ consume[s] = "fail"
    /\ detectionError' = [detectionError EXCEPT ![s] = TRUE]
    /\ ConsumeTo(s, "loop")
    /\ UNCHANGED <<feed, slotVars, counters, produce, inHand, maps, late>>

-----------------------------------------------------------------------------
SourceStep(s) == GoLive(s) \/ GoRest(s) \/ SendFrame(s) \/ DropSource(s)

ProducerStep(s) ==
    \/ SeeStatus(s) \/ SkipFrame(s) \/ Enqueue(s) \/ NotifyConsumer(s)
    \/ LeaveLoop(s) \/ CloseSlot(s) \/ ClearSlot(s) \/ CountCleared(s)
    \/ ClearResults(s) \/ ClearDraw(s) \/ ClearDrawn(s) \/ ClearError(s) \/ WakeWaiters(s)

ConsumerStep(s) ==
    \/ CheckClosed(s) \/ TakeFrame(s) \/ TakeNothing(s) \/ Look(s) \/ Park(s)
    \/ ForgetResults(s) \/ Detected(s) \/ DetectFailed(s)
    \/ Publish(s) \/ InsertDrawn(s) \/ InsertResults(s) \/ InsertDraw(s)
    \/ FailDraw(s) \/ FailDrawn(s) \/ Fail(s)

DetectNext == \E s \in Sources : SourceStep(s) \/ ProducerStep(s) \/ ConsumerStep(s)

\* The runtime polls both tasks, and every inference call ends by its time-out.
DetectFair == \A s \in Sources : WF_detectVars(ProducerStep(s)) /\ WF_detectVars(ConsumerStep(s))

DetectSpec == DetectInit /\ [][DetectNext]_detectVars

-----------------------------------------------------------------------------
\* Properties.

\* The queue length the status page shows counts the filled slots, and a slot
\* just cleared whose count has not come down yet; it never goes below zero
\* although three code paths change it and one of them outside the lock.
QueueIsExact ==
    queueSize = Cardinality({s \in Sources : slotFrame[s] # 0 \/ produce[s] = "count"})

\* The number the skip rate is computed from is the number of active sources.
ActiveIsExact == activeSources = Cardinality({s \in Sources : slotActive[s]})

\* A source its producer has stopped shows no boxes and no picture, except
\* those of a detection that had passed the active check before the stop; and
\* no error, except that of a detection under way at the stop.
StoppedShowsNothing ==
    \A s \in Sources : produce[s] \in {"select", "wake", "ended"} /\ ~slotActive[s] =>
        /\ late[s] # "publishing" =>
              results[s] = 0 /\ drawResults[s] = 0 /\ drawnFrames[s] = 0
        /\ late[s] = "none" => ~detectionError[s]

\* Outside a publication and a clearing, the boxes a client draws over the
\* stream are those of the results it lists, and the picture is of that frame.
ShownTogether ==
    \A s \in Sources :
        /\ slotActive[s] /\ late[s] = "none" /\ produce[s] \in {"select", "notify"}
        /\ consume[s] \notin Publishing /\ results[s] # 0
        => drawResults[s] = results[s] /\ drawnFrames[s] \in {results[s], 0}

\* What the page shows of a source is of one frame of its present run.
ShownIsCurrent == StoppedShowsNothing /\ ShownTogether

\* No wake-up is lost while the source exists: a frame in the slot is taken,
\* or cleared when the source stops.
PendingIsTaken == \A s \in Sources : slotFrame[s] # 0 ~> slotFrame[s] = 0

\* When the source goes, the consumer ends, unless it had read closed as false
\* and was about to wait: the one wake-up of produce's last line comes too
\* early for it, and it waits for ever.
ConsumerEnds ==
    \A s \in Sources :
        (slotClosed[s] /\ produce[s] # "ended" /\ consume[s] # "park") ~> consume[s] = "done"
=============================================================================
