------------------------------ MODULE MCStreams ------------------------------
(***************************************************************************)
(* Small instances of the four parts of the stream runtime beside the      *)
(* frame sources.  Each behaviour is one of one part: focus names it, the  *)
(* others rest in their initial state.                                     *)
(***************************************************************************)
EXTENDS DetectPipeline, DetectionRules, ActionExecutor, Recorder

\* The instance follows one source (First).
ASSUME StreamsAssumption == Sources # {}

VARIABLE focus

streamVars == <<focus, detectVars, rulesVars, actionVars, recorderVars>>

StreamsInit ==
    /\ focus \in {"detect", "rules", "actions", "recorder"}
    /\ DetectInit /\ RulesInit /\ ActionsInit /\ RecorderInit

\* Bound: of the other source only its activation is followed, before the first
\* source runs; then the first source runs once only.
First == CHOOSE s \in Sources : TRUE
Others == Sources \ {First}

DetectFocus ==
    /\ focus = "detect"
    /\ \/ SourceStep(First) \/ ProducerStep(First) \/ ConsumerStep(First)
       \/ \E s \in Others : srcRun[First] = 0 /\ (GoLive(s) \/ SeeStatus(s))
    /\ srcRun'[First] > 0 => \A s \in Others : ~news[s]
    /\ srcRun'[First] > 1 => \A s \in Others : srcRun[s] = 0
    /\ UNCHANGED <<focus, rulesVars, actionVars, recorderVars>>

\* Bound: one push is not yet notified, and detections overlap between their
\* times and their pushes at the first two pushes only.
RulesFocus ==
    /\ focus = "rules" /\ RulesNext
    /\ Cardinality(toNotify') <= 1
    /\ Cardinality({s \in Detectors : stamp'[s] # Never}) <= 1 \/ pushes' <= 1
    /\ UNCHANGED <<focus, detectVars, actionVars, recorderVars>>

ActionsFocus ==
    /\ focus = "actions" /\ ActionsNext
    /\ UNCHANGED <<focus, detectVars, rulesVars, recorderVars>>

RecorderFocus ==
    /\ focus = "recorder" /\ RecorderNext
    /\ UNCHANGED <<focus, detectVars, rulesVars, actionVars>>

StreamsNext == DetectFocus \/ RulesFocus \/ ActionsFocus \/ RecorderFocus

\* The fairness each module justifies, for the part in focus.
StreamsFair ==
    /\ WF_detectVars(focus = "detect" /\ ProducerStep(First))
    /\ WF_detectVars(focus = "detect" /\ ConsumerStep(First))
    /\ WF_rulesVars(focus = "rules" /\ RuleTaskStep)
    /\ \A p \in Detectors \cup Admins : WF_rulesVars(focus = "rules" /\ NotifyRuleTask(p))
    /\ WF_actionVars(focus = "actions" /\ StartBatch)
    /\ \A b \in Batches :
          /\ WF_actionVars(focus = "actions" /\ Submit(b))
          /\ WF_actionVars(focus = "actions" /\ TimeOutBatch(b))
    /\ WF_recorderVars(focus = "recorder" /\ RecorderStep)
    /\ WF_recorderVars(focus = "recorder" /\ SendTick)
    /\ WF_recorderVars(focus = "recorder" /\ PassTime)

StreamsSpec == StreamsInit /\ [][StreamsNext]_streamVars /\ StreamsFair

StreamsTypeOK == DetectTypeOK /\ RulesTypeOK /\ ActionsTypeOK /\ RecorderTypeOK

\* Every counter that is kept by hand beside what it counts is exact and within
\* its type: slots filled, sources active, evaluations queued, permits out.
CountersAreExact ==
    StreamsTypeOK /\ QueueIsExact /\ ActiveIsExact /\ PendingIsExact /\ PermitsAreExact

\* Whoever asks is answered: a rule request, a match, a caller of the recorder.
EveryoneIsAnswered == RequestIsAnswered /\ BatchIsAnswered /\ CallerIsAnswered

\* Frames, consumers and recordings come to an end.
NothingLingers == PendingIsTaken /\ ConsumerEnds /\ RecordingEnds
=============================================================================
