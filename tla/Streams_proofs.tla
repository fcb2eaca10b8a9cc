--------------------------- MODULE Streams_proofs ---------------------------
(***************************************************************************)
(* Proofs about the recorder, the action executor, the detection pipeline  *)
(* and the rules' mailbox, for any sources, batches, permits and limits.   *)
(***************************************************************************)
EXTENDS MCStreams, TLAPS, FiniteSetTheorems

-----------------------------------------------------------------------------
(***************************************************************************)
(* The recorder.  Only a trigger makes a recording or moves a deadline;    *)
(* what else a step does to the recordings is to end some (Remaining).     *)
(* The length of each mode holds at its beginning and at every extension.  *)
(***************************************************************************)
Recording == [mode : Modes, started : Nat, deadline : Nat]

LengthIsBounded(session) ==
    LET length == session.deadline - session.started
    IN  /\ session.mode = "fixed" => length = Duration
        /\ session.mode = "extend_max" => length <= Duration \/ length <= MaxDuration

RecInv ==
    /\ recClock \in Nat
    /\ sessions \in [Subjects -> Recording \cup {NoSession}]
    /\ \A s \in Live : LengthIsBounded(sessions[s])
    /\ IsFiniteSet(Live) /\ Cardinality(Live) <= MaxConcurrent

LEMMA RecInitInv == RecorderInit => RecInv
<1> SUFFICES ASSUME RecorderInit PROVE RecInv
    OBVIOUS
<1>1. Live = {}
    BY DEF RecorderInit, Live
<1> QED
    BY <1>1, FS_EmptySet, RecorderAssumption DEF RecorderInit, RecInv

LEMMA NoneIsNoRecording == NoSession \notin Recording
BY DEF NoSession, Recording, Modes

\* Recordings end.
LEMMA RecEnds ==
    ASSUME RecInv, NEW gone, recClock' \in Nat, sessions' = Remaining(gone)
    PROVE  RecInv'
<1>1. Live' \subseteq Live /\ \A s \in Live' : sessions'[s] = sessions[s]
    BY DEF Live, Remaining
<1>2. IsFiniteSet(Live') /\ Cardinality(Live') <= Cardinality(Live)
    BY <1>1, FS_Subset DEF RecInv
<1>3. Cardinality(Live') \in Nat /\ Cardinality(Live) \in Nat
    BY <1>2, FS_CardinalityType DEF RecInv
<1>4. sessions' \in [Subjects -> Recording \cup {NoSession}]
    BY DEF RecInv, Remaining
<1>5. \A s \in Live' : LengthIsBounded(sessions'[s])
    BY <1>1 DEF RecInv
<1> QED
    BY <1>1, <1>2, <1>3, <1>4, <1>5, RecorderAssumption DEF RecInv, LengthIsBounded

LEMMA ExtendedIsBounded ==
    ASSUME NEW session \in Recording, LengthIsBounded(session), recClock \in Nat
    PROVE  Extended(session) \in Recording /\ LengthIsBounded(Extended(session))
<1> USE RecorderAssumption DEF Recording, LengthIsBounded, Extended
<1>1. CASE session.mode = "extend"
    BY <1>1
<1>2. CASE session.mode = "extend_max"
    BY <1>2
<1>3. CASE session.mode = "fixed"
    BY <1>3
<1> QED
    BY <1>1, <1>2, <1>3 DEF Modes

LEMMA RecKeepsInv == RecInv /\ [RecorderNext]_recorderVars => RecInv'
<1> SUFFICES ASSUME RecInv, [RecorderNext]_recorderVars PROVE RecInv'
    OBVIOUS
<1>0. recClock \in Nat
    BY DEF RecInv
<1>1. ASSUME recClock' \in Nat, UNCHANGED sessions PROVE RecInv'
    BY <1>1 DEF RecInv, Live, LengthIsBounded
<1>2. ASSUME ExtendSession PROVE RecInv'
    <2>1. PICK s \in Live : /\ sessions' = [sessions EXCEPT ![s] = Extended(sessions[s])]
                            /\ UNCHANGED recClock
        BY <1>2 DEF ExtendSession, Receive
    <2>2. s \in Subjects /\ sessions[s] \in Recording /\ LengthIsBounded(sessions[s])
        BY DEF RecInv, Live
    <2>3. Extended(sessions[s]) \in Recording /\ LengthIsBounded(Extended(sessions[s]))
        BY <1>0, <2>2, ExtendedIsBounded
    <2>4. sessions' \in [Subjects -> Recording \cup {NoSession}]
        BY <2>1, <2>3 DEF RecInv
    <2>5. Live' = Live
        BY <2>1, <2>2, <2>3, NoneIsNoRecording DEF Live, RecInv
    <2>6. \A t \in Live' : LengthIsBounded(sessions'[t])
        BY <2>1, <2>2, <2>3, <2>5 DEF RecInv, Live
    <2> QED
        BY <2>1, <2>4, <2>5, <2>6 DEF RecInv, LengthIsBounded
<1>3. ASSUME BeginSession PROVE RecInv'
    <2>1. PICK s \in {Head(recQueue).of}, m \in Modes :
             /\ s \notin Live /\ Cardinality(Live) < MaxConcurrent /\ UNCHANGED recClock
             /\ sessions' = [sessions EXCEPT ![s] =
                   [mode |-> m, started |-> recClock, deadline |-> recClock + Duration]]
        BY <1>3 DEF BeginSession, Receive
    <2>2. CASE s \notin Subjects
        <3>1. sessions' = sessions
            BY <2>1, <2>2 DEF RecInv
        <3> QED
            BY <1>0, <1>1, <2>1, <3>1
    <2>3. CASE s \in Subjects
        <3> DEFINE begun == [mode |-> m, started |-> recClock, deadline |-> recClock + Duration]
        <3>1. begun \in Recording /\ LengthIsBounded(begun)
            BY <1>0, RecorderAssumption DEF Recording, LengthIsBounded
        <3>2. sessions' \in [Subjects -> Recording \cup {NoSession}]
            BY <2>1, <3>1 DEF RecInv
        <3>3. Live' = Live \cup {s}
            BY <2>1, <2>3, <3>1, NoneIsNoRecording DEF Live, RecInv
        <3>4. IsFiniteSet(Live') /\ Cardinality(Live') = Cardinality(Live) + 1
            BY <2>1, <3>3, FS_AddElement DEF RecInv
        <3>5. Cardinality(Live) \in Nat
            BY FS_CardinalityType DEF RecInv
        <3>6. \A t \in Live' : LengthIsBounded(sessions'[t])
            BY <2>1, <2>3, <3>1, <3>3 DEF RecInv, Live
        <3> QED
            BY <1>0, <2>1, <3>2, <3>4, <3>5, <3>6, RecorderAssumption DEF RecInv, LengthIsBounded
    <2> QED
        BY <2>2, <2>3
<1>4. ASSUME PipeBroken PROVE RecInv'
    <2>1. sessions' = Remaining({writing.of}) /\ UNCHANGED recClock
        BY <1>4 DEF PipeBroken, RecInv, Remaining
    <2> QED
        BY <1>0, <2>1, RecEnds
<1>5. ASSUME StopSession \/ StopExpired \/ Shutdown PROVE RecInv'
    <2>1. (\E gone : sessions' = Remaining(gone)) /\ UNCHANGED recClock
        BY <1>5 DEF StopSession, StopExpired, Shutdown, Receive
    <2> QED
        BY <1>0, <2>1, RecEnds
<1>6. CASE RefuseTrigger \/ FrameWritten \/ SendTick \/ PassTime \/ UNCHANGED recorderVars
    BY <1>0, <1>1, <1>6 DEF RefuseTrigger, FrameWritten, SendTick, PassTime, Receive, recorderVars
<1>7. ASSUME NEW p, NEW o, NEW s, Ask(p, o, s) PROVE RecInv'
    BY <1>0, <1>1, <1>7 DEF Ask
<1> QED
    BY <1>2, <1>3, <1>4, <1>5, <1>6, <1>7
       DEF RecorderNext, RecorderStep, AskTrigger, AskStop, AskShutdown

\* For any sources, callers, durations and limit: however often a recording is
\* triggered, its length stays within what its mode allows (extend_deadline,
\* recorder.rs:548), and never more than MAX_CONCURRENT record.
THEOREM DeadlinesStayBounded == RecorderSpec => []DeadlineIsBounded
<1>1. RecInv => DeadlineIsBounded
    BY DEF RecInv, DeadlineIsBounded, LengthIsBounded
<1> QED
    BY <1>1, RecInitInv, RecKeepsInv, PTL DEF RecorderSpec

-----------------------------------------------------------------------------
(***************************************************************************)
(* The types of the recorder: its commands name a subject and a caller it  *)
(* knows, and no recording began after the clock.                          *)
(***************************************************************************)
LEMMA AskKeepsTypes ==
    ASSUME RecorderTypeOK, NEW p \in Callers, NEW o \in {"trigger", "stop", "shutdown"},
           NEW s \in Subjects, Ask(p, o, s)
    PROVE  RecorderTypeOK'
<1> DEFINE command == [op |-> o, of |-> s, from |-> p]
<1>1. command \in RecCommand
    BY DEF RecCommand
<1>2. recQueue' \in Seq(RecCommand)
    <2> HIDE DEF command
    <2>1. recQueue' = recQueue \/ recQueue' = Append(recQueue, command)
        BY DEF Ask, command
    <2> QED
        BY <1>1, <2>1 DEF RecorderTypeOK
<1>3. asker' \in [Callers -> {"idle", "waiting", "answered", "unavailable"}]
    BY DEF Ask, RecorderTypeOK
<1> QED
    BY <1>2, <1>3 DEF Ask, RecorderTypeOK

LEMMA NoCommandIsCommand ==
    /\ NoCommand \in RecCommand /\ NoCommand.op = "none" /\ NoCommand.of \in Subjects
    /\ [NoCommand EXCEPT !.op = "tick"] \in RecCommand
BY RecorderAssumption DEF NoCommand, RecCommand

\* What the task takes from its queue, and what remains there.
LEMMA HeadIsCommand ==
    ASSUME RecorderTypeOK, recQueue # <<>>
    PROVE  Head(recQueue) \in RecCommand /\ Tail(recQueue) \in Seq(RecCommand)
BY DEF RecorderTypeOK

LEMMA RemainingAreSessions ==
    ASSUME RecorderTypeOK, NEW gone
    PROVE  Remaining(gone) \in [Subjects -> Sessions]
<1>1. NoSession \in Sessions
    BY DEF Sessions
<1> QED
    BY <1>1 DEF RecorderTypeOK, Remaining

LEMMA ExtendedIsSession ==
    ASSUME NEW session \in Sessions, recClock \in Nat
    PROVE  Extended(session) \in Sessions
<1> USE RecorderAssumption
<1>1. CASE session = NoSession
    BY <1>1 DEF NoSession, Extended
<1>2. CASE session \in [mode : Modes, started : 0 .. Horizon, deadline : Nat]
    <2> DEFINE later == recClock + Duration
               last == session.started + MaxDuration
    <2>1. later \in Nat /\ last \in Nat
        BY <1>2
    <2>2. ASSUME NEW d \in Nat PROVE [session EXCEPT !.deadline = d] \in Sessions
        BY <1>2 DEF Sessions
    <2>3. (IF later < last THEN later ELSE last) \in Nat
        BY <2>1
    <2>4. session.mode \in Modes
        BY <1>2
    <2>5. CASE session.mode = "extend"
        BY <2>1, <2>2, <2>5 DEF Extended
    <2>6. CASE session.mode = "extend_max"
        <3>1. Extended(session) =
                  [session EXCEPT !.deadline = IF later < last THEN later ELSE last]
            BY <2>6 DEF Extended
        <3> HIDE DEF later, last
        <3> QED
            BY <2>2, <2>3, <3>1
    <2>7. CASE session.mode = "fixed"
        BY <2>7 DEF Extended
    <2> QED
        BY <2>4, <2>5, <2>6, <2>7 DEF Modes
<1> QED
    BY <1>1, <1>2 DEF Sessions

LEMMA StepKeepsRecorderTypes ==
    ASSUME RecorderTypeOK, RecorderStep
    PROVE  RecorderTypeOK'
<1>0. recClock \in Nat /\ recClock \in 0 .. Horizon
    BY RecorderAssumption DEF RecorderTypeOK
<1>1. CASE ExtendSession
    <2>1. PICK c \in RecCommand :
             /\ c.op = "trigger" /\ c.of \in Live /\ writing' = c
             /\ sessions' = [sessions EXCEPT ![c.of] = Extended(sessions[c.of])]
             /\ recQueue' \in Seq(RecCommand)
        BY <1>1, HeadIsCommand DEF ExtendSession, Receive
    <2>2. sessions' \in [Subjects -> Sessions]
        BY <1>0, <2>1, ExtendedIsSession DEF RecorderTypeOK, Live
    <2> QED
        BY <1>1, <2>1, <2>2 DEF ExtendSession, Receive, RecorderTypeOK
<1>2. CASE BeginSession
    <2>1. PICK c \in RecCommand, m \in Modes :
             /\ c.op = "trigger" /\ writing' = c
             /\ sessions' = [sessions EXCEPT ![c.of] =
                   [mode |-> m, started |-> recClock, deadline |-> recClock + Duration]]
             /\ recQueue' \in Seq(RecCommand)
        BY <1>2, HeadIsCommand DEF BeginSession, Receive
    <2>2. [mode |-> m, started |-> recClock, deadline |-> recClock + Duration] \in Sessions
        BY <1>0, RecorderAssumption DEF Sessions
    <2>3. sessions' \in [Subjects -> Sessions]
        BY <2>1, <2>2 DEF RecorderTypeOK
    <2> QED
        BY <1>2, <2>1, <2>3 DEF BeginSession, Receive, RecorderTypeOK
<1>3. CASE RefuseTrigger
    BY <1>3, HeadIsCommand DEF RefuseTrigger, Receive, Answer, RecorderTypeOK
<1>4. CASE FrameWritten \/ PipeBroken
    <2>1. NoSession \in Sessions
        BY DEF Sessions
    <2>2. sessions' \in [Subjects -> Sessions]
        BY <1>4, <2>1 DEF FrameWritten, PipeBroken, RecorderTypeOK
    <2>3. /\ writing' = NoCommand /\ recorder' = "ready" /\ UNCHANGED <<recClock, recQueue>>
          /\ asker' = [asker EXCEPT ![writing.from] = "answered"]
        BY <1>4 DEF FrameWritten, PipeBroken, Answer
    <2> QED
        BY <2>2, <2>3, NoCommandIsCommand DEF RecorderTypeOK
<1>5. CASE StopSession \/ StopExpired
    <2>1. (\E gone : sessions' = Remaining(gone)) /\ UNCHANGED <<recClock, recorder, writing>>
        BY <1>5 DEF StopSession, StopExpired, Receive
    <2>2. recQueue # <<>> /\ recQueue' = Tail(recQueue)
        BY <1>5 DEF StopSession, StopExpired, Receive
    <2>3. asker' = asker \/ asker' = [asker EXCEPT ![Head(recQueue).from] = "answered"]
        BY <1>5 DEF StopSession, StopExpired, Answer
    <2> QED
        BY <2>1, <2>2, <2>3, HeadIsCommand, RemainingAreSessions DEF RecorderTypeOK
<1>6. CASE Shutdown
    <2>1. /\ sessions' = Remaining(Subjects) /\ UNCHANGED <<recClock, writing>>
          /\ recorder = "ready" /\ recorder' = "ended" /\ recQueue' = <<>>
        BY <1>6 DEF Shutdown, Receive
    <2>2. asker' \in [Callers -> {"idle", "waiting", "answered", "unavailable"}]
        BY <1>6 DEF Shutdown, RecorderTypeOK
    <2> QED
        BY <2>1, <2>2, RemainingAreSessions DEF RecorderTypeOK
<1> QED
    BY <1>1, <1>2, <1>3, <1>4, <1>5, <1>6 DEF RecorderStep

LEMMA RecorderTypes == RecorderSpec => []RecorderTypeOK
<1>1. RecorderInit => RecorderTypeOK
    <2> SUFFICES ASSUME RecorderInit PROVE RecorderTypeOK
        OBVIOUS
    <2>1. NoSession \in Sessions
        BY DEF Sessions
    <2> QED
        BY <2>1, NoCommandIsCommand, RecorderAssumption DEF RecorderInit, RecorderTypeOK
<1>2. RecorderTypeOK /\ [RecorderNext]_recorderVars => RecorderTypeOK'
    <2> SUFFICES ASSUME RecorderTypeOK, [RecorderNext]_recorderVars PROVE RecorderTypeOK'
        OBVIOUS
    <2>1. ASSUME NEW p \in Callers, NEW o \in {"trigger", "stop", "shutdown"},
                 \E s \in Subjects : Ask(p, o, s)
          PROVE  RecorderTypeOK'
        BY <2>1, AskKeepsTypes
    <2>2. ASSUME NEW t \in Triggers, AskTrigger(t) PROVE RecorderTypeOK'
        BY <2>1, <2>2 DEF AskTrigger, Callers
    <2>3. ASSUME NEW p \in Stoppers, AskStop(p) \/ AskShutdown(p) PROVE RecorderTypeOK'
        BY <2>1, <2>3, NoCommandIsCommand DEF AskStop, AskShutdown, Callers
    <2>4. CASE SendTick
        BY <2>4, NoCommandIsCommand DEF SendTick, RecorderTypeOK
    <2>5. CASE PassTime
        BY <2>5, RecorderAssumption DEF PassTime, RecorderTypeOK
    <2>6. CASE UNCHANGED recorderVars
        BY <2>6 DEF recorderVars, RecorderTypeOK
    <2> QED
        BY <2>2, <2>3, <2>4, <2>5, <2>6, StepKeepsRecorderTypes DEF RecorderNext
<1> QED
    BY <1>1, <1>2, PTL DEF RecorderSpec

-----------------------------------------------------------------------------
(***************************************************************************)
(* The action executor.  The pairs of a batch and a running action are     *)
(* what the permits are out for; an end takes one pair away, a time-out    *)
(* all those of its batch.                                                 *)
(***************************************************************************)
ActionsRunning == {p \in Batches \X Actions : act[p[1]][p[2]] = "running"}
RunningOf(b) == {a \in Actions : act[b][a] = "running"}

PermitsInv ==
    /\ batch \in [Batches -> {"none", "spawned", "queued", "running", "answered", "refused"}]
    /\ act \in [Batches -> [Actions -> {"todo", "running", "done"}]]
    /\ permits \in Nat
    /\ PermitsAreExact

LEMMA RunningIsFinite ==
    /\ IsFiniteSet(ActionsRunning)
    /\ \A b \in Batches : IsFiniteSet(RunningOf(b))
<1>1. IsFiniteSet(Actions)
    BY ActionsAssumption, FS_AddElement DEF Actions
<1>2. IsFiniteSet(Batches \X Actions)
    BY <1>1, ActionsAssumption, FS_Product
<1> QED
    BY <1>1, <1>2, FS_Subset DEF ActionsRunning, RunningOf

LEMMA PermitsInitInv == ActionsInit => PermitsInv
<1> SUFFICES ASSUME ActionsInit PROVE PermitsInv
    OBVIOUS
<1>1. ActionsRunning = {}
    BY DEF ActionsInit, ActionsRunning
<1>2. permits + Cardinality(ActionsRunning) = Concurrency
    BY <1>1, FS_EmptySet, ActionsAssumption DEF ActionsInit
<1> QED
    BY <1>2, ActionsAssumption DEF ActionsInit, PermitsInv, PermitsAreExact, ActionsRunning

LEMMA PermitsKeepInv == PermitsInv /\ [ActionsNext]_actionVars => PermitsInv'
<1> SUFFICES ASSUME PermitsInv, [ActionsNext]_actionVars PROVE PermitsInv'
    OBVIOUS
<1>0. /\ batch \in [Batches -> {"none", "spawned", "queued", "running", "answered", "refused"}]
      /\ act \in [Batches -> [Actions -> {"todo", "running", "done"}]]
      /\ permits \in Nat /\ Cardinality(ActionsRunning) \in Nat
      /\ permits + Cardinality(ActionsRunning) = Concurrency
      /\ \A b \in Batches, a \in Actions : act[b][a] = "running" => batch[b] = "running"
    BY RunningIsFinite, FS_CardinalityType DEF PermitsInv, PermitsAreExact, ActionsRunning
<1>1. ASSUME UNCHANGED <<act, permits>>,
             batch' \in [Batches -> {"none", "spawned", "queued", "running", "answered", "refused"}],
             \A b \in Batches : batch[b] = "running" =>
                 batch'[b] = "running" \/ RunningOf(b) = {}
      PROVE  PermitsInv'
    <2>1. ASSUME NEW b \in Batches, NEW a \in Actions, act[b][a] = "running"
          PROVE  batch'[b] = "running"
        BY <1>0, <1>1, <2>1 DEF RunningOf
    <2>2. ActionsRunning' = ActionsRunning
        BY <1>1 DEF ActionsRunning
    <2> QED
        BY <1>0, <1>1, <2>1, <2>2 DEF PermitsInv, PermitsAreExact, ActionsRunning
<1>2. ASSUME StartBatch PROVE PermitsInv'
    <2>1. PICK h : batch' = [batch EXCEPT ![h] = "running"]
        BY <1>2 DEF StartBatch
    <2> QED
        BY <1>0, <1>1, <1>2, <2>1 DEF StartBatch
<1>3. ASSUME NEW b \in Batches, SpawnBatch(b) \/ Submit(b) \/ AnswerBatch(b) PROVE PermitsInv'
    <2>1. CASE SpawnBatch(b)
        BY <1>0, <1>1, <2>1 DEF SpawnBatch
    <2>2. CASE Submit(b)
        BY <1>0, <1>1, <2>2 DEF Submit
    <2>3. CASE AnswerBatch(b)
        <3>1. RunningOf(b) = {}
            BY <2>3 DEF AnswerBatch, RunningOf
        <3> QED
            BY <1>0, <1>1, <2>3, <3>1 DEF AnswerBatch
    <2> QED
        BY <1>3, <2>1, <2>2, <2>3
<1>4. ASSUME NEW b \in Batches, NEW a \in Actions, BeginAction(b, a) PROVE PermitsInv'
    <2>1. /\ act' \in [Batches -> [Actions -> {"todo", "running", "done"}]]
          /\ permits' = permits - 1 /\ permits > 0 /\ batch' = batch /\ batch[b] = "running"
          /\ act[b][a] = "todo" /\ act'[b][a] = "running"
          /\ \A c \in Batches, d \in Actions : c # b \/ d # a => act'[c][d] = act[c][d]
        BY <1>0, <1>4 DEF BeginAction
    <2>2. ActionsRunning' = ActionsRunning \cup {<<b, a>>} /\ <<b, a>> \notin ActionsRunning
        BY <2>1 DEF ActionsRunning
    <2>3. Cardinality(ActionsRunning') = Cardinality(ActionsRunning) + 1
        BY <2>2, RunningIsFinite, FS_AddElement
    <2>4. permits' \in Nat /\ permits' + Cardinality(ActionsRunning') = Concurrency
        BY <1>0, <2>1, <2>3
    <2>5. \A c \in Batches, d \in Actions : act'[c][d] = "running" => batch'[c] = "running"
        BY <1>0, <2>1
    <2> QED
        BY <1>0, <2>1, <2>4, <2>5 DEF PermitsInv, PermitsAreExact, ActionsRunning
<1>5. ASSUME NEW b \in Batches, NEW a \in Actions, EndAction(b, a) PROVE PermitsInv'
    <2>1. /\ act' \in [Batches -> [Actions -> {"todo", "running", "done"}]]
          /\ permits' = permits + 1 /\ batch' = batch
          /\ act[b][a] = "running" /\ act'[b][a] = "done"
          /\ \A c \in Batches, d \in Actions : c # b \/ d # a => act'[c][d] = act[c][d]
        BY <1>0, <1>5 DEF EndAction
    <2>2. ActionsRunning' = ActionsRunning \ {<<b, a>>} /\ <<b, a>> \in ActionsRunning
        BY <2>1 DEF ActionsRunning
    <2>3. Cardinality(ActionsRunning') = Cardinality(ActionsRunning) - 1
        BY <2>2, RunningIsFinite, FS_RemoveElement
    <2>4. permits' \in Nat /\ permits' + Cardinality(ActionsRunning') = Concurrency
        BY <1>0, <2>1, <2>3
    <2>5. \A c \in Batches, d \in Actions : act'[c][d] = "running" => batch'[c] = "running"
        BY <1>0, <2>1
    <2> QED
        BY <1>0, <2>1, <2>4, <2>5 DEF PermitsInv, PermitsAreExact, ActionsRunning
<1>6. ASSUME NEW b \in Batches, TimeOutBatch(b) PROVE PermitsInv'
    <2>1. /\ act' \in [Batches -> [Actions -> {"todo", "running", "done"}]]
          /\ permits' = permits + Cardinality(RunningOf(b))
          /\ batch' = [batch EXCEPT ![b] = "answered"]
          /\ \A d \in Actions : act'[b][d] # "running"
          /\ \A c \in Batches \ {b}, d \in Actions : act'[c][d] = act[c][d]
        BY <1>0, <1>6 DEF TimeOutBatch, RunningOf
    <2> DEFINE ended == {b} \X RunningOf(b)
    <2>2. ActionsRunning' = ActionsRunning \ ended /\ ended \subseteq ActionsRunning
        BY <2>1 DEF ActionsRunning, RunningOf
    <2>3. IsFiniteSet(ended) /\ Cardinality(ended) = Cardinality(RunningOf(b))
        <3>1. IsFiniteSet({b}) /\ Cardinality({b}) = 1
            BY FS_Singleton
        <3>2. IsFiniteSet(RunningOf(b)) /\ Cardinality(RunningOf(b)) \in Nat
            BY RunningIsFinite, FS_CardinalityType
        <3>3. IsFiniteSet(ended) /\ Cardinality(ended) = 1 * Cardinality(RunningOf(b))
            BY <3>1, <3>2, FS_Product
        <3> QED
            BY <3>2, <3>3
    <2>4. Cardinality(ActionsRunning') = Cardinality(ActionsRunning) - Cardinality(ended)
        <3>1. ActionsRunning \cap ended = ended
            BY <2>2
        <3>2. Cardinality(ActionsRunning \ ended)
                 = Cardinality(ActionsRunning) - Cardinality(ActionsRunning \cap ended)
            BY RunningIsFinite, FS_Difference
        <3> HIDE DEF ended
        <3> QED
            BY <2>2, <3>1, <3>2
    <2>5. Cardinality(RunningOf(b)) \in Nat
        BY RunningIsFinite, FS_CardinalityType
    <2>6. permits' \in Nat /\ permits' + Cardinality(ActionsRunning') = Concurrency
        BY <1>0, <2>1, <2>3, <2>4, <2>5
    <2>7. \A c \in Batches, d \in Actions : act'[c][d] = "running" => batch'[c] = "running"
        BY <1>0, <2>1
    <2> QED
        BY <1>0, <2>1, <2>6, <2>7 DEF PermitsInv, PermitsAreExact, ActionsRunning
<1>7. CASE UNCHANGED actionVars
    BY <1>0, <1>1, <1>7 DEF actionVars
<1> QED
    BY <1>2, <1>3, <1>4, <1>5, <1>6, <1>7 DEF ActionsNext, BatchStep

\* For any batches, actions, queue and number of permits: a permit is out for each
\* running action, and a time-out in the middle of a batch (actions.rs:183) gives
\* back exactly those it held.
THEOREM PermitsStayExact == ActionsSpec => []PermitsAreExact
<1>1. PermitsInv => PermitsAreExact
    BY DEF PermitsInv
<1> QED
    BY <1>1, PermitsInitInv, PermitsKeepInv, PTL DEF ActionsSpec

\* The batches in the executor's channel are those spawned, and no more than it holds.
LEMMA ActionTypes == ActionsSpec => []ActionsTypeOK
<1> DEFINE ChannelOK == batchQueue \in Seq(Batches) /\ Len(batchQueue) <= ActionQueue
<1>1. ActionsInit => ChannelOK
    BY ActionsAssumption DEF ActionsInit
<1>2. ChannelOK /\ [ActionsNext]_actionVars => ChannelOK'
    <2> SUFFICES ASSUME ChannelOK, [ActionsNext]_actionVars PROVE ChannelOK'
        OBVIOUS
    <2>1. CASE StartBatch
        BY <2>1, ActionsAssumption DEF StartBatch
    <2>2. ASSUME NEW b \in Batches, Submit(b) PROVE ChannelOK'
        BY <2>2, ActionsAssumption DEF Submit
    <2>3. CASE UNCHANGED batchQueue
        BY <2>3
    <2> QED
        BY <2>1, <2>2, <2>3
        DEF ActionsNext, BatchStep, SpawnBatch, AnswerBatch, TimeOutBatch, BeginAction, EndAction,
            actionVars
<1>3. PermitsInv /\ ChannelOK => ActionsTypeOK
    <2> SUFFICES ASSUME PermitsInv, ChannelOK PROVE ActionsTypeOK
        OBVIOUS
    <2>1. permits \in Nat /\ permits + Cardinality(ActionsRunning) = Concurrency
        BY DEF PermitsInv, PermitsAreExact, ActionsRunning
    <2>2. Cardinality(ActionsRunning) \in Nat
        BY RunningIsFinite, FS_CardinalityType
    <2>3. permits \in 0 .. Concurrency
        BY <2>1, <2>2, ActionsAssumption
    <2> QED
        BY <2>3 DEF PermitsInv, ActionsTypeOK
<1> QED
    BY <1>1, <1>2, <1>3, PermitsInitInv, PermitsKeepInv, PTL DEF ActionsSpec

-----------------------------------------------------------------------------
(***************************************************************************)
(* The detection pipeline: what a source shows.  A step is one of a single *)
(* source, so the invariant is stated source by source.  What an inactive  *)
(* source may still show depends on where its producer is with clearing    *)
(* and on what late allows its consumer; what an active one shows, on how  *)
(* far the consumer is with publishing.                                    *)
(***************************************************************************)
ShowTyped ==
    /\ produce \in [Sources -> ProduceAt] /\ consume \in [Sources -> ConsumeAt]
    /\ slotActive \in [Sources -> BOOLEAN]
    /\ late \in [Sources -> {"none", "detecting", "publishing"}]
    /\ slotFrame \in [Sources -> Nat] /\ inHand \in [Sources -> Nat]
    /\ results \in [Sources -> Nat] /\ drawResults \in [Sources -> Nat]
    /\ drawnFrames \in [Sources -> Nat] /\ detectionError \in [Sources -> BOOLEAN]
    /\ frames \in [Sources -> Seq(Nat \ {0})]
    /\ srcRun \in [Sources -> Nat] /\ published \in [Sources -> {"live", "rest"}]
    /\ \A s \in Sources : published[s] = "live" => srcRun[s] # 0

\* The producer works for an active source, or clears an inactive one.
ProducerKnows(s) ==
    /\ produce[s] = "notify" => slotActive[s]
    /\ produce[s] \notin {"select", "notify"} => ~slotActive[s]

LateIsTold(s) ==
    ~slotActive[s] =>
        /\ consume[s] \in Publishing => late[s] = "publishing"
        /\ consume[s] \in Detecting => late[s] # "none"

\* What the producer has cleared so far stays so.
StaysCleared(s) ==
    ~slotActive[s] =>
        /\ late[s] # "publishing" =>
              /\ produce[s] \notin {"closing", "slot", "count", "results"} => results[s] = 0
              /\ produce[s] \notin {"closing", "slot", "count", "results", "draw"} => drawResults[s] = 0
              /\ produce[s] \notin {"closing", "slot", "count", "results", "draw", "drawn"} =>
                    drawnFrames[s] = 0
        /\ late[s] = "none" /\ produce[s] \in {"select", "wake", "ended"} => ~detectionError[s]

\* Between forgetting the last results and publishing the next there are none; then
\* there are those of the frame in hand, unless cleared.
PublishesInHand(s) ==
    /\ consume[s] \in {"detect", "failDraw", "failDrawn", "fail", "publish", "insertDrawn",
                       "insertResults"} => results[s] = 0 \/ ~slotActive[s] \/ late[s] # "none"
    /\ consume[s] \in {"insertResults", "insertDraw"} => drawnFrames[s] \in {inHand[s], 0}
    /\ consume[s] = "insertDraw" => results[s] \in {inHand[s], 0}

ShownIsOne(s) ==
    slotActive[s] /\ late[s] = "none" /\ consume[s] \notin Publishing /\ results[s] # 0
        => drawResults[s] = results[s] /\ drawnFrames[s] \in {results[s], 0}

ShowOk(s) ==
    ProducerKnows(s) /\ LateIsTold(s) /\ StaysCleared(s) /\ PublishesInHand(s) /\ ShownIsOne(s)

ShowInv == ShowTyped /\ \A s \in Sources : ShowOk(s)

LEMMA StepsOfProduce ==
    {"slot", "count", "results", "draw", "drawn", "error"} \subseteq ProduceAt
BY DEF ProduceAt, Clearing

LEMMA StepsOfConsume ==
    /\ {"loop", "take", "look", "park", "wait", "done"} \subseteq ConsumeAt
    /\ Publishing \subseteq ConsumeAt /\ Detecting \subseteq ConsumeAt
BY DEF ConsumeAt

LEMMA ShowInitInv == DetectInit => ShowInv
BY DEF DetectInit, ShowInv, ShowTyped, ShowOk, ProducerKnows, LateIsTold, StaysCleared,
       PublishesInHand, ShownIsOne, ProduceAt, ConsumeAt, Publishing, Detecting

\* A step of one source leaves what is said of the others.
LEMMA OneSource ==
    ASSUME ShowInv, NEW s \in Sources, ShowTyped', ShowOk(s)',
           \A t \in Sources \ {s} :
               /\ produce'[t] = produce[t] /\ consume'[t] = consume[t]
               /\ slotActive'[t] = slotActive[t] /\ late'[t] = late[t] /\ inHand'[t] = inHand[t]
               /\ results'[t] = results[t] /\ drawResults'[t] = drawResults[t]
               /\ drawnFrames'[t] = drawnFrames[t] /\ detectionError'[t] = detectionError[t]
    PROVE  ShowInv'
<1>1. ASSUME NEW t \in Sources \ {s} PROVE ShowOk(t)'
    <2>1. ShowOk(t)
        BY DEF ShowInv
    <2> QED
        BY <2>1 DEF ShowOk, ProducerKnows, LateIsTold, StaysCleared, PublishesInHand, ShownIsOne
<1> QED
    BY <1>1 DEF ShowInv

\* A step that changes nothing of what a source shows or may show.
LEMMA ShowQuiet ==
    ASSUME ShowInv, ShowTyped',
           UNCHANGED <<produce, consumerVars, slotActive, shown, late>>
    PROVE  ShowInv'
BY DEF ShowInv, ShowOk, ProducerKnows, LateIsTold, StaysCleared, PublishesInHand, ShownIsOne,
       consumerVars, shown, maps

LEMMA SourceKeepsShown ==
    ASSUME ShowInv, NEW s \in Sources, SourceStep(s)
    PROVE  ShowInv'
<1> USE DEF slotVars, consumerVars, shown, maps
<1>1. CASE GoLive(s)
    <2>1. ShowTyped'
        BY <1>1 DEF GoLive, ShowInv, ShowTyped
    <2> QED
        BY <1>1, <2>1, ShowQuiet DEF GoLive
<1>2. CASE GoRest(s)
    BY <1>2, ShowQuiet DEF GoRest, ShowInv, ShowTyped
<1>3. CASE DropSource(s)
    BY <1>3, ShowQuiet DEF DropSource, ShowInv, ShowTyped
<1>4. CASE SendFrame(s)
    <2>1. srcRun[s] \in Nat \ {0} /\ frames[s] \in Seq(Nat \ {0})
        BY <1>4 DEF SendFrame, ShowInv, ShowTyped
    <2>2. Append(frames[s], srcRun[s]) \in Seq(Nat \ {0})
        BY <2>1
    <2>3. Len(frames[s]) = FrameCapacity => Append(Tail(frames[s]), srcRun[s]) \in Seq(Nat \ {0})
        BY <2>1, DetectAssumption
    <2>4. frames' \in [Sources -> Seq(Nat \ {0})]
        BY <1>4, <2>2, <2>3 DEF SendFrame, ShowInv, ShowTyped
    <2> QED
        BY <1>4, <2>4, ShowQuiet DEF SendFrame, ShowInv, ShowTyped
<1> QED
    BY <1>1, <1>2, <1>3, <1>4 DEF SourceStep

LEMMA ProducerKeepsShown ==
    ASSUME ShowInv, NEW s \in Sources, ProducerStep(s)
    PROVE  ShowInv'
<1> USE DEF feed, slotVars, counters, consumerVars, shown, maps, ProduceTo, ConsumeTo
<1> DEFINE Elsewhere ==
        \A t \in Sources \ {s} :
            /\ produce'[t] = produce[t] /\ consume'[t] = consume[t]
            /\ slotActive'[t] = slotActive[t] /\ late'[t] = late[t] /\ inHand'[t] = inHand[t]
            /\ results'[t] = results[t] /\ drawResults'[t] = drawResults[t]
            /\ drawnFrames'[t] = drawnFrames[t] /\ detectionError'[t] = detectionError[t]
<1>0. ShowTyped /\ ShowOk(s)
    BY DEF ShowInv
<1>a. ASSUME ShowTyped', Elsewhere, ShowOk(s)' PROVE ShowInv'
    BY <1>a, OneSource
<1> HIDE DEF Elsewhere
<1>1. CASE SeeStatus(s)
    <2>1. ShowTyped' /\ Elsewhere
        <3>1. ShowTyped'
            <4>1. CASE published[s] = "live"
                BY <1>0, <1>1, <4>1 DEF SeeStatus, UpdateActive, ShowTyped
            <4>2. CASE published[s] # "live"
                <5>1. UpdateActive(s, FALSE) /\ ProduceTo(s, "slot")
                    BY <1>1, <4>2 DEF SeeStatus
                <5> QED
                    BY <1>0, <1>1, <5>1, StepsOfProduce DEF SeeStatus, UpdateActive, Leftover, ShowTyped
            <4> QED
                BY <4>1, <4>2
        <3>2. Elsewhere
            BY <1>0, <1>1 DEF SeeStatus, UpdateActive, Leftover, ShowTyped, Elsewhere
        <3> QED
            BY <3>1, <3>2
    <2>2. ShowOk(s)'
        BY <1>0, <1>1 DEF SeeStatus, UpdateActive, Leftover, ShowTyped, ShowOk, ProducerKnows,
           LateIsTold, StaysCleared, PublishesInHand, ShownIsOne, Publishing, Detecting
    <2> QED
        BY <1>a, <2>1, <2>2
<1>2. CASE SkipFrame(s)
    <2>1. Tail(frames[s]) \in Seq(Nat \ {0})
        BY <1>0, <1>2 DEF SkipFrame, ShowTyped
    <2> QED
        BY <1>0, <1>2, <2>1, ShowQuiet DEF SkipFrame, ShowTyped
<1>3. CASE Enqueue(s)
    <2>1. Tail(frames[s]) \in Seq(Nat \ {0}) /\ Head(frames[s]) \in Nat
        BY <1>0, <1>3 DEF Enqueue, ShowTyped
    <2>2. ShowTyped' /\ Elsewhere
        <3>1. ShowTyped'
            BY <1>0, <1>3, <2>1 DEF Enqueue, ShowTyped, ProduceAt
        <3>2. Elsewhere
            BY <1>0, <1>3, <2>1 DEF Enqueue, ShowTyped, Elsewhere
        <3> QED
            BY <3>1, <3>2
    <2>3. ShowOk(s)'
        BY <1>0, <1>3 DEF Enqueue, ShowTyped, ShowOk, ProducerKnows,
           LateIsTold, StaysCleared, PublishesInHand, ShownIsOne
    <2> QED
        BY <1>a, <2>2, <2>3
<1>4. CASE NotifyConsumer(s)
    <2>1. ShowTyped' /\ Elsewhere
        <3>1. ShowTyped'
            BY <1>0, <1>4 DEF NotifyConsumer, ShowTyped, ProduceAt, ConsumeAt
        <3>2. Elsewhere
            BY <1>0, <1>4 DEF NotifyConsumer, ShowTyped, Elsewhere
        <3> QED
            BY <3>1, <3>2
    <2>2. ShowOk(s)'
        BY <1>0, <1>4 DEF NotifyConsumer, ShowTyped, ShowOk, ProducerKnows,
           LateIsTold, StaysCleared, PublishesInHand, ShownIsOne, Publishing, Detecting
    <2> QED
        BY <1>a, <2>1, <2>2
<1>5. CASE LeaveLoop(s)
    <2>1. ShowTyped' /\ Elsewhere
        <3>1. ShowTyped'
            BY <1>0, <1>5 DEF LeaveLoop, UpdateActive, Leftover, ShowTyped, ProduceAt
        <3>2. Elsewhere
            BY <1>0, <1>5 DEF LeaveLoop, UpdateActive, Leftover, ShowTyped, Elsewhere
        <3> QED
            BY <3>1, <3>2
    <2>2. ShowOk(s)'
        BY <1>0, <1>5 DEF LeaveLoop, UpdateActive, Leftover, ShowTyped, ShowOk, ProducerKnows,
           LateIsTold, StaysCleared, PublishesInHand, ShownIsOne, Publishing, Detecting
    <2> QED
        BY <1>a, <2>1, <2>2
<1>6. CASE CloseSlot(s) \/ ClearSlot(s) \/ CountCleared(s)
    <2>1. ShowTyped' /\ Elsewhere
        <3>1. ShowTyped'
            <4>1. CASE CloseSlot(s)
                BY <1>0, <4>1, StepsOfProduce DEF CloseSlot, ShowTyped
            <4>2. CASE ClearSlot(s)
                BY <1>0, <4>2, StepsOfProduce DEF ClearSlot, ShowTyped
            <4>3. CASE CountCleared(s)
                BY <1>0, <4>3, StepsOfProduce DEF CountCleared, ShowTyped
            <4> QED
                BY <1>6, <4>1, <4>2, <4>3
        <3>2. Elsewhere
            BY <1>0, <1>6 DEF CloseSlot, ClearSlot, CountCleared, ShowTyped, Elsewhere
        <3> QED
            BY <3>1, <3>2
    <2>2. ShowOk(s)'
        BY <1>0, <1>6 DEF CloseSlot, ClearSlot, CountCleared, ShowTyped, ShowOk, ProducerKnows,
           LateIsTold, StaysCleared, PublishesInHand, ShownIsOne
    <2> QED
        BY <1>a, <2>1, <2>2
<1>7. CASE ClearResults(s) \/ ClearDraw(s) \/ ClearDrawn(s)
    <2>1. ShowTyped' /\ Elsewhere
        <3>1. ShowTyped'
            <4>1. CASE ClearResults(s)
                BY <1>0, <4>1, StepsOfProduce DEF ClearResults, ShowTyped
            <4>2. CASE ClearDraw(s)
                BY <1>0, <4>2, StepsOfProduce DEF ClearDraw, ShowTyped
            <4>3. CASE ClearDrawn(s)
                BY <1>0, <4>3, StepsOfProduce DEF ClearDrawn, ShowTyped
            <4> QED
                BY <1>7, <4>1, <4>2, <4>3
        <3>2. Elsewhere
            BY <1>0, <1>7 DEF ClearResults, ClearDraw, ClearDrawn, ShowTyped, Elsewhere
        <3> QED
            BY <3>1, <3>2
    <2>2. ShowOk(s)'
        BY <1>0, <1>7 DEF ClearResults, ClearDraw, ClearDrawn, ShowTyped, ShowOk, ProducerKnows,
           LateIsTold, StaysCleared, PublishesInHand, ShownIsOne
    <2> QED
        BY <1>a, <2>1, <2>2
<1>8. CASE ClearError(s)
    <2>1. ShowTyped' /\ Elsewhere
        <3>1. ShowTyped'
            BY <1>0, <1>8 DEF ClearError, ShowTyped, ProduceAt, Clearing
        <3>2. Elsewhere
            BY <1>0, <1>8 DEF ClearError, ShowTyped, Elsewhere
        <3> QED
            BY <3>1, <3>2
    <2>2. ShowOk(s)'
        BY <1>0, <1>8 DEF ClearError, ShowTyped, ShowOk, ProducerKnows,
           LateIsTold, StaysCleared, PublishesInHand, ShownIsOne
    <2> QED
        BY <1>a, <2>1, <2>2
<1>9. CASE WakeWaiters(s)
    <2>1. ShowTyped' /\ Elsewhere
        <3>1. ShowTyped'
            BY <1>0, <1>9 DEF WakeWaiters, ShowTyped, ProduceAt, ConsumeAt
        <3>2. Elsewhere
            BY <1>0, <1>9 DEF WakeWaiters, ShowTyped, Elsewhere
        <3> QED
            BY <3>1, <3>2
    <2>2. ShowOk(s)'
        BY <1>0, <1>9 DEF WakeWaiters, ShowTyped, ShowOk, ProducerKnows,
           LateIsTold, StaysCleared, PublishesInHand, ShownIsOne, Publishing, Detecting
    <2> QED
        BY <1>a, <2>1, <2>2
<1> QED
    BY <1>1, <1>2, <1>3, <1>4, <1>5, <1>6, <1>7, <1>8, <1>9 DEF ProducerStep

LEMMA ConsumerKeepsShown ==
    ASSUME ShowInv, NEW s \in Sources, ConsumerStep(s)
    PROVE  ShowInv'
<1> USE DEF feed, slotVars, counters, consumerVars, shown, maps, ProduceTo, ConsumeTo
<1> DEFINE Elsewhere ==
        \A t \in Sources \ {s} :
            /\ produce'[t] = produce[t] /\ consume'[t] = consume[t]
            /\ slotActive'[t] = slotActive[t] /\ late'[t] = late[t] /\ inHand'[t] = inHand[t]
            /\ results'[t] = results[t] /\ drawResults'[t] = drawResults[t]
            /\ drawnFrames'[t] = drawnFrames[t] /\ detectionError'[t] = detectionError[t]
<1>0. ShowTyped /\ ShowOk(s)
    BY DEF ShowInv
<1>a. ASSUME ShowTyped', Elsewhere, ShowOk(s)' PROVE ShowInv'
    BY <1>a, OneSource
<1> HIDE DEF Elsewhere
<1>1. CASE CheckClosed(s) \/ TakeNothing(s) \/ Look(s) \/ Park(s)
    <2>1. ShowTyped' /\ Elsewhere
        <3>1. ShowTyped'
            BY <1>0, <1>1 DEF CheckClosed, TakeNothing, Look, Park, ShowTyped, ConsumeAt
        <3>2. Elsewhere
            BY <1>0, <1>1 DEF CheckClosed, TakeNothing, Look, Park, ShowTyped, Elsewhere
        <3> QED
            BY <3>1, <3>2
    <2>2. ShowOk(s)'
        BY <1>0, <1>1 DEF CheckClosed, TakeNothing, Look, Park, ShowTyped, ShowOk, ProducerKnows,
           LateIsTold, StaysCleared, PublishesInHand, ShownIsOne, Publishing, Detecting
    <2> QED
        BY <1>a, <2>1, <2>2
<1>2. CASE TakeFrame(s)
    <2>1. ShowTyped' /\ Elsewhere
        <3>1. ShowTyped'
            BY <1>0, <1>2 DEF TakeFrame, ShowTyped, ConsumeAt, Detecting
        <3>2. Elsewhere
            BY <1>0, <1>2 DEF TakeFrame, ShowTyped, Elsewhere
        <3> QED
            BY <3>1, <3>2
    <2>2. ShowOk(s)'
        BY <1>0, <1>2 DEF TakeFrame, ShowTyped, ShowOk, ProducerKnows,
           LateIsTold, StaysCleared, PublishesInHand, ShownIsOne, Publishing, Detecting
    <2> QED
        BY <1>a, <2>1, <2>2
<1>3. CASE ForgetResults(s) \/ Detected(s) \/ DetectFailed(s)
    <2>1. ShowTyped' /\ Elsewhere
        <3>1. ShowTyped'
            <4>1. CASE ForgetResults(s)
                BY <1>0, <4>1, StepsOfConsume DEF ForgetResults, ShowTyped, Publishing, Detecting
            <4>2. CASE Detected(s)
                BY <1>0, <4>2, StepsOfConsume DEF Detected, ShowTyped, Publishing, Detecting
            <4>3. CASE DetectFailed(s)
                BY <1>0, <4>3, StepsOfConsume DEF DetectFailed, ShowTyped, Publishing, Detecting
            <4> QED
                BY <1>3, <4>1, <4>2, <4>3
        <3>2. Elsewhere
            BY <1>0, <1>3 DEF ForgetResults, Detected, DetectFailed, ShowTyped, Elsewhere
        <3> QED
            BY <3>1, <3>2
    <2>2. ShowOk(s)'
        BY <1>0, <1>3 DEF ForgetResults, Detected, DetectFailed, ShowTyped, ShowOk, ProducerKnows,
           LateIsTold, StaysCleared, PublishesInHand, ShownIsOne, Publishing, Detecting
    <2> QED
        BY <1>a, <2>1, <2>2
<1>4. CASE Publish(s) \/ InsertDrawn(s)
    <2>1. ShowTyped' /\ Elsewhere
        <3>1. ShowTyped'
            <4>1. CASE Publish(s)
                BY <1>0, <4>1, StepsOfConsume DEF Publish, ShowTyped, Publishing, Detecting
            <4>2. CASE InsertDrawn(s)
                BY <1>0, <4>2, StepsOfConsume DEF InsertDrawn, ShowTyped, Publishing, Detecting
            <4> QED
                BY <1>4, <4>1, <4>2
        <3>2. Elsewhere
            BY <1>0, <1>4 DEF Publish, InsertDrawn, ShowTyped, Elsewhere
        <3> QED
            BY <3>1, <3>2
    <2>2. ShowOk(s)'
        BY <1>0, <1>4 DEF Publish, InsertDrawn, ShowTyped, ShowOk, ProducerKnows,
           LateIsTold, StaysCleared, PublishesInHand, ShownIsOne, Publishing, Detecting
    <2> QED
        BY <1>a, <2>1, <2>2
<1>5. CASE InsertResults(s) \/ InsertDraw(s)
    <2>1. ShowTyped' /\ Elsewhere
        <3>1. ShowTyped'
            <4>1. CASE InsertResults(s)
                BY <1>0, <4>1, StepsOfConsume DEF InsertResults, ShowTyped, Publishing, Detecting
            <4>2. CASE InsertDraw(s)
                BY <1>0, <4>2, StepsOfConsume DEF InsertDraw, ShowTyped, Publishing, Detecting
            <4> QED
                BY <1>5, <4>1, <4>2
        <3>2. Elsewhere
            BY <1>0, <1>5 DEF InsertResults, InsertDraw, ShowTyped, Elsewhere
        <3> QED
            BY <3>1, <3>2
    <2>2. ShowOk(s)'
        BY <1>0, <1>5 DEF InsertResults, InsertDraw, ShowTyped, ShowOk, ProducerKnows,
           LateIsTold, StaysCleared, PublishesInHand, ShownIsOne, Publishing, Detecting
    <2> QED
        BY <1>a, <2>1, <2>2
<1>6. CASE FailDraw(s) \/ FailDrawn(s) \/ Fail(s)
    <2>1. ShowTyped' /\ Elsewhere
        <3>1. ShowTyped'
            <4>1. CASE FailDraw(s)
                BY <1>0, <4>1, StepsOfConsume DEF FailDraw, ShowTyped, Publishing, Detecting
            <4>2. CASE FailDrawn(s)
                BY <1>0, <4>2, StepsOfConsume DEF FailDrawn, ShowTyped, Publishing, Detecting
            <4>3. CASE Fail(s)
                BY <1>0, <4>3, StepsOfConsume DEF Fail, ShowTyped, Publishing, Detecting
            <4> QED
                BY <1>6, <4>1, <4>2, <4>3
        <3>2. Elsewhere
            BY <1>0, <1>6 DEF FailDraw, FailDrawn, Fail, ShowTyped, Elsewhere
        <3> QED
            BY <3>1, <3>2
    <2>2. ShowOk(s)'
        BY <1>0, <1>6 DEF FailDraw, FailDrawn, Fail, ShowTyped, ShowOk, ProducerKnows,
           LateIsTold, StaysCleared, PublishesInHand, ShownIsOne, Publishing, Detecting
    <2> QED
        BY <1>a, <2>1, <2>2
<1> QED
    BY <1>1, <1>2, <1>3, <1>4, <1>5, <1>6 DEF ConsumerStep

LEMMA ShowKeepsInv == ShowInv /\ [DetectNext]_detectVars => ShowInv'
<1> SUFFICES ASSUME ShowInv, [DetectNext]_detectVars PROVE ShowInv'
    OBVIOUS
<1>1. CASE UNCHANGED detectVars
    BY <1>1, ShowQuiet DEF ShowInv, ShowTyped, detectVars, feed, slotVars, consumerVars, shown, maps
<1> QED
    BY <1>1, SourceKeepsShown, ProducerKeepsShown, ConsumerKeepsShown DEF DetectNext

\* For any sources and runs: a stopped source shows nothing but what a publication
\* under way at the stop may leave, and the boxes, the results and the picture an
\* active one shows are of one frame (detect.rs:318-340).
THEOREM ShownStaysCurrent == DetectSpec => []ShownIsCurrent
<1>1. ShowInv => ShownIsCurrent
    BY DEF ShowInv, ShowTyped, ShowOk, StaysCleared, ShownIsOne, ShownIsCurrent,
           StoppedShowsNothing, ShownTogether
<1> QED
    BY <1>1, ShowInitInv, ShowKeepsInv, PTL DEF DetectSpec

-----------------------------------------------------------------------------
(***************************************************************************)
(* The detection pipeline: its counters.  A step of one source puts it     *)
(* into a counted set, takes it out, or does neither, and the counter goes *)
(* with it: a set of which one element changes (SetFollows).               *)
(***************************************************************************)
Filled == {s \in Sources : slotFrame[s] # 0 \/ produce[s] = "count"}
Active == {s \in Sources : slotActive[s]}

CountInv ==
    /\ QueueIsExact /\ ActiveIsExact
    /\ \A s \in Sources : produce[s] = "count" => slotFrame[s] = 0

\* The set S before a step and T after it, and the number that counts them.
Follows(n, m, S, T, s) ==
    \/ T = S /\ m = n
    \/ s \notin S /\ T = S \cup {s} /\ m = n + 1
    \/ s \in S /\ T = S \ {s} /\ m = n - 1

LEMMA SetFollows ==
    ASSUME NEW S, S \subseteq Sources, NEW T, NEW s \in Sources, NEW n, NEW m,
           n = Cardinality(S), Follows(n, m, S, T, s)
    PROVE  m = Cardinality(T)
<1>1. IsFiniteSet(S)
    BY DetectAssumption, FS_Subset
<1>2. CASE s \notin S /\ T = S \cup {s} /\ m = n + 1
    BY <1>1, <1>2, FS_AddElement
<1>3. CASE s \in S /\ T = S \ {s} /\ m = n - 1
    BY <1>1, <1>3, FS_RemoveElement
<1> QED
    BY <1>2, <1>3 DEF Follows

LEMMA CountFollows ==
    ASSUME CountInv, NEW s \in Sources,
           Follows(queueSize, queueSize', Filled, Filled', s),
           Follows(activeSources, activeSources', Active, Active', s),
           \A t \in Sources : produce'[t] = "count" => slotFrame'[t] = 0
    PROVE  CountInv'
<1>1. queueSize' = Cardinality(Filled')
    BY SetFollows DEF CountInv, QueueIsExact, Filled
<1>2. activeSources' = Cardinality(Active')
    BY SetFollows DEF CountInv, ActiveIsExact, Active
<1> QED
    BY <1>1, <1>2 DEF CountInv, QueueIsExact, ActiveIsExact, Filled, Active

\* A step that neither fills a slot nor counts.
LEMMA CountQuiet ==
    ASSUME CountInv, UNCHANGED <<slotFrame, slotActive, queueSize, activeSources>>,
           \A t \in Sources : (produce'[t] = "count") <=> (produce[t] = "count")
    PROVE  CountInv'
<1>1. Filled' = Filled /\ Active' = Active
    BY DEF Filled, Active
<1> QED
    BY <1>1 DEF CountInv, QueueIsExact, ActiveIsExact, Filled, Active

LEMMA SlotIsCounted ==
    ASSUME ShowInv, CountInv, NEW s \in Sources,
           Enqueue(s) \/ ClearSlot(s) \/ CountCleared(s) \/ TakeFrame(s)
    PROVE  CountInv'
<1> USE DEF ShowInv, ShowTyped, CountInv
<1> DEFINE Fills == Follows(queueSize, queueSize', Filled, Filled', s)
           Empty == \A t \in Sources : produce'[t] = "count" => slotFrame'[t] = 0
<1>1. CASE Enqueue(s)
    <2>1. Head(frames[s]) \in Nat \ {0}
        BY <1>1 DEF Enqueue
    <2>2. slotActive' = slotActive /\ activeSources' = activeSources /\ Empty
        BY <1>1, <2>1 DEF Enqueue, ProduceTo
    <2>3. Filled' = Filled \cup {s}
        BY <1>1, <2>1 DEF Enqueue, ProduceTo, Filled
    <2>4. s \in Filled <=> slotFrame[s] # 0
        BY <1>1 DEF Enqueue, Filled
    <2>5. Fills
        BY <1>1, <2>3, <2>4 DEF Enqueue, Follows
    <2> QED
        BY <2>2, <2>5, CountFollows DEF Follows, Active
<1>2. CASE ClearSlot(s)
    <2>1. /\ slotActive' = slotActive /\ activeSources' = activeSources /\ Empty
          /\ queueSize' = queueSize
        BY <1>2 DEF ClearSlot, ProduceTo, counters
    <2>2. Filled' = Filled
        BY <1>2 DEF ClearSlot, ProduceTo, Filled
    <2> QED
        BY <2>1, <2>2, CountFollows DEF Follows, Active
<1>3. CASE CountCleared(s)
    <2>1. slotActive' = slotActive /\ activeSources' = activeSources /\ Empty
        BY <1>3 DEF CountCleared, ProduceTo, slotVars
    <2>2. Filled' = Filled \ {s} /\ s \in Filled
        BY <1>3 DEF CountCleared, ProduceTo, Filled, slotVars
    <2>3. Fills
        BY <1>3, <2>2 DEF CountCleared, Follows
    <2> QED
        BY <2>1, <2>3, CountFollows DEF Follows, Active
<1>4. CASE TakeFrame(s)
    <2>1. slotActive' = slotActive /\ activeSources' = activeSources /\ Empty
        BY <1>4 DEF TakeFrame
    <2>2. Filled' = Filled \ {s} /\ s \in Filled
        BY <1>4 DEF TakeFrame, Filled
    <2>3. Fills
        BY <1>4, <2>2 DEF TakeFrame, Follows
    <2> QED
        BY <2>1, <2>3, CountFollows DEF Follows, Active
<1> QED
    BY <1>1, <1>2, <1>3, <1>4

LEMMA ActiveIsCounted ==
    ASSUME ShowInv, CountInv, NEW s \in Sources, SeeStatus(s) \/ LeaveLoop(s)
    PROVE  CountInv'
<1> USE DEF ShowInv, ShowTyped
<1>1. PICK next \in BOOLEAN : UpdateActive(s, next)
    BY DEF SeeStatus, LeaveLoop
<1>2. /\ slotFrame' = slotFrame /\ queueSize' = queueSize
      /\ \A t \in Sources : (produce'[t] = "count") <=> (produce[t] = "count")
    BY DEF SeeStatus, LeaveLoop, ProduceTo
<1>3. Filled' = Filled
    BY <1>2 DEF Filled
<1>4. CASE slotActive[s] = next
    BY <1>1, <1>2, <1>4, CountQuiet DEF UpdateActive
<1>5. CASE next /\ ~slotActive[s]
    <2>1. Active' = Active \cup {s} /\ s \notin Active /\ activeSources' = activeSources + 1
        BY <1>1, <1>5 DEF UpdateActive, Active
    <2> QED
        BY <1>2, <1>3, <2>1, CountFollows DEF Follows, CountInv
<1>6. CASE ~next /\ slotActive[s]
    <2>1. Active' = Active \ {s} /\ s \in Active /\ activeSources' = activeSources - 1
        BY <1>1, <1>6 DEF UpdateActive, Active
    <2> QED
        BY <1>2, <1>3, <2>1, CountFollows DEF Follows, CountInv
<1> QED
    BY <1>4, <1>5, <1>6

LEMMA CountKeepsInv ==
    ASSUME ShowInv, CountInv, [DetectNext]_detectVars
    PROVE  CountInv'
<1> USE DEF feed, slotVars, counters, consumerVars, ProduceTo, ConsumeTo
<1>1. CASE UNCHANGED detectVars
    BY <1>1, CountQuiet DEF detectVars
<1>2. ASSUME NEW s \in Sources, SourceStep(s) PROVE CountInv'
    BY <1>2, CountQuiet DEF SourceStep, GoLive, GoRest, SendFrame, DropSource
<1>3. ASSUME NEW s \in Sources, ConsumerStep(s) PROVE CountInv'
    <2>1. CASE TakeFrame(s)
        BY <2>1, SlotIsCounted
    <2>2. CASE ~TakeFrame(s)
        <3>1. UNCHANGED <<slotFrame, slotActive, queueSize, activeSources, produce>>
            BY <1>3, <2>2 DEF ConsumerStep, CheckClosed, TakeNothing, Look, Park, ForgetResults,
               Detected, DetectFailed, Publish, InsertDrawn, InsertResults, InsertDraw, FailDraw,
               FailDrawn, Fail
        <3> QED
            BY <3>1, CountQuiet
    <2> QED
        BY <2>1, <2>2
<1>4. ASSUME NEW s \in Sources, ProducerStep(s) PROVE CountInv'
    <2>1. CASE Enqueue(s) \/ ClearSlot(s) \/ CountCleared(s)
        BY <2>1, SlotIsCounted
    <2>2. CASE SeeStatus(s) \/ LeaveLoop(s)
        BY <2>2, ActiveIsCounted
    <2>3. CASE \/ SkipFrame(s) \/ NotifyConsumer(s) \/ CloseSlot(s) \/ ClearResults(s)
               \/ ClearDraw(s) \/ ClearDrawn(s) \/ ClearError(s) \/ WakeWaiters(s)
        <3>1. UNCHANGED <<slotFrame, slotActive, queueSize, activeSources>>
            BY <2>3 DEF SkipFrame, NotifyConsumer, CloseSlot, ClearResults, ClearDraw, ClearDrawn,
               ClearError, WakeWaiters
        <3>2. \A t \in Sources : (produce'[t] = "count") <=> (produce[t] = "count")
            BY <2>3 DEF SkipFrame, NotifyConsumer, CloseSlot, ClearResults, ClearDraw, ClearDrawn,
               ClearError, WakeWaiters, ShowInv, ShowTyped
        <3> QED
            BY <3>1, <3>2, CountQuiet
    <2> QED
        BY <1>4, <2>1, <2>2, <2>3 DEF ProducerStep
<1> QED
    BY <1>1, <1>2, <1>3, <1>4 DEF DetectNext

\* For any sources and runs: the queue length the status page shows counts the filled
\* slots, although one of its decrements comes after the lock (detect.rs:283), and the
\* number the skip rate is computed from counts the active sources.
THEOREM CountersStayExact == DetectSpec => [](QueueIsExact /\ ActiveIsExact)
<1>1. DetectInit => CountInv
    <2> SUFFICES ASSUME DetectInit PROVE CountInv
        OBVIOUS
    <2>1. Filled = {} /\ Active = {}
        BY DEF DetectInit, Filled, Active
    <2> QED
        BY <2>1, FS_EmptySet DEF DetectInit, CountInv, QueueIsExact, ActiveIsExact, Filled, Active
<1>2. ShowInv /\ CountInv /\ [DetectNext]_detectVars => ShowInv' /\ CountInv'
    BY ShowKeepsInv, CountKeepsInv
<1>3. CountInv => QueueIsExact /\ ActiveIsExact
    BY DEF CountInv
<1> QED
    BY <1>1, <1>2, <1>3, ShowInitInv, PTL DEF DetectSpec

(***************************************************************************)
(* The types of the detection pipeline: a frame, wherever it is, carries   *)
(* the number of a run there has been, and a receiver holds no more frames *)
(* than its channel.                                                       *)
(***************************************************************************)
FramesTyped ==
    /\ srcRun \in [Sources -> RunNos] /\ frames \in [Sources -> Seq(RunNos)]
    /\ \A s \in Sources : Len(frames[s]) <= FrameCapacity
    /\ slotFrame \in [Sources -> RunNos] /\ inHand \in [Sources -> RunNos]
    /\ results \in [Sources -> RunNos] /\ drawResults \in [Sources -> RunNos]
    /\ drawnFrames \in [Sources -> RunNos]

FlagsTyped ==
    /\ news \in [Sources -> BOOLEAN] /\ sender \in [Sources -> BOOLEAN]
    /\ permit \in [Sources -> BOOLEAN] /\ slotClosed \in [Sources -> BOOLEAN]

LEMMA SourceKeepsFrames ==
    ASSUME FramesTyped, NEW s \in Sources, SourceStep(s)
    PROVE  FramesTyped'
<1> USE DetectAssumption DEF FramesTyped, slotVars, consumerVars, shown, maps
<1>1. CASE GoLive(s)
    <2>1. srcRun[s] + 1 \in RunNos
        BY <1>1 DEF GoLive, RunNos
    <2> QED
        BY <1>1, <2>1 DEF GoLive
<1>2. CASE GoRest(s) \/ DropSource(s)
    BY <1>2 DEF GoRest, DropSource
<1>3. CASE SendFrame(s)
    <2> DEFINE q == frames[s]
               r == IF Len(q) = FrameCapacity THEN Append(Tail(q), srcRun[s])
                    ELSE Append(q, srcRun[s])
    <2>1. q \in Seq(RunNos) /\ Len(q) <= FrameCapacity /\ srcRun[s] \in RunNos
        OBVIOUS
    <2>2. r \in Seq(RunNos) /\ Len(r) <= FrameCapacity
        <3> HIDE DEF q
        <3>1. CASE Len(q) = FrameCapacity
            BY <2>1, <3>1
        <3>2. CASE Len(q) # FrameCapacity
            BY <2>1, <3>2
        <3> QED
            BY <3>1, <3>2
    <2>3. frames' = [frames EXCEPT ![s] = r] /\ UNCHANGED <<srcRun, slotFrame, inHand, maps>>
        BY <1>3 DEF SendFrame
    <2> HIDE DEF r
    <2> QED
        BY <2>2, <2>3
<1> QED
    BY <1>1, <1>2, <1>3 DEF SourceStep

LEMMA ProducerKeepsFrames ==
    ASSUME FramesTyped, NEW s \in Sources, ProducerStep(s)
    PROVE  FramesTyped'
<1> USE DEF feed, slotVars, consumerVars, shown, maps, FramesTyped
<1>0. 0 \in RunNos
    BY DetectAssumption DEF RunNos
<1>1. CASE SkipFrame(s) \/ Enqueue(s)
    <2>1. frames[s] # <<>> /\ frames' = [frames EXCEPT ![s] = Tail(frames[s])]
        BY <1>1 DEF SkipFrame, Enqueue
    <2>2. /\ Head(frames[s]) \in RunNos /\ Tail(frames[s]) \in Seq(RunNos)
          /\ Len(Tail(frames[s])) <= FrameCapacity
        <3>1. frames[s] \in Seq(RunNos) /\ Len(frames[s]) <= FrameCapacity
            OBVIOUS
        <3> QED
            BY <2>1, <3>1, DetectAssumption
    <2>3. slotFrame' \in [Sources -> RunNos]
        BY <1>1, <2>2 DEF SkipFrame, Enqueue
    <2> QED
        BY <1>1, <2>1, <2>2, <2>3 DEF SkipFrame, Enqueue
<1>2. CASE \/ SeeStatus(s) \/ NotifyConsumer(s) \/ LeaveLoop(s) \/ CloseSlot(s)
           \/ CountCleared(s) \/ ClearError(s) \/ WakeWaiters(s)
    BY <1>2 DEF SeeStatus, NotifyConsumer, LeaveLoop, CloseSlot, CountCleared, ClearError, WakeWaiters
<1>3. CASE ClearSlot(s) \/ ClearResults(s) \/ ClearDraw(s) \/ ClearDrawn(s)
    BY <1>0, <1>3 DEF ClearSlot, ClearResults, ClearDraw, ClearDrawn
<1> QED
    BY <1>1, <1>2, <1>3 DEF ProducerStep

LEMMA ConsumerKeepsFrames ==
    ASSUME FramesTyped, NEW s \in Sources, ConsumerStep(s)
    PROVE  FramesTyped'
<1> USE DEF feed, slotVars, consumerVars, shown, maps, FramesTyped
<1>0. 0 \in RunNos
    BY DetectAssumption DEF RunNos
<1>1. CASE \/ CheckClosed(s) \/ TakeNothing(s) \/ Look(s) \/ Park(s) \/ Detected(s)
           \/ DetectFailed(s) \/ Publish(s) \/ Fail(s)
    BY <1>1 DEF CheckClosed, TakeNothing, Look, Park, Detected, DetectFailed, Publish, Fail
<1>2. CASE TakeFrame(s) \/ ForgetResults(s)
    BY <1>0, <1>2 DEF TakeFrame, ForgetResults
<1>3. CASE InsertDrawn(s) \/ InsertResults(s) \/ InsertDraw(s)
    BY <1>0, <1>3 DEF InsertDrawn, InsertResults, InsertDraw
<1>4. CASE FailDraw(s) \/ FailDrawn(s)
    BY <1>0, <1>4 DEF FailDraw, FailDrawn
<1> QED
    BY <1>1, <1>2, <1>3, <1>4 DEF ConsumerStep

LEMMA FlagsStayTyped ==
    ASSUME FlagsTyped, [DetectNext]_detectVars
    PROVE  FlagsTyped'
<1> USE DEF feed, slotVars, FlagsTyped
<1>1. ASSUME NEW s \in Sources, SourceStep(s) PROVE FlagsTyped'
    BY <1>1 DEF SourceStep, GoLive, GoRest, SendFrame, DropSource
<1>2. ASSUME NEW s \in Sources, ProducerStep(s) PROVE FlagsTyped'
    BY <1>2 DEF ProducerStep, SeeStatus, SkipFrame, Enqueue, NotifyConsumer, LeaveLoop, CloseSlot,
       ClearSlot, CountCleared, ClearResults, ClearDraw, ClearDrawn, ClearError, WakeWaiters
<1>3. ASSUME NEW s \in Sources, ConsumerStep(s) PROVE FlagsTyped'
    BY <1>3 DEF ConsumerStep, CheckClosed, TakeFrame, TakeNothing, Look, Park, ForgetResults,
       Detected, DetectFailed, Publish, InsertDrawn, InsertResults, InsertDraw, FailDraw,
       FailDrawn, Fail
<1>4. CASE UNCHANGED detectVars
    BY <1>4 DEF detectVars
<1> QED
    BY <1>1, <1>2, <1>3, <1>4 DEF DetectNext

LEMMA DetectTypes == DetectSpec => [](DetectTypeOK /\ QueueIsExact /\ ActiveIsExact)
<1>1. DetectInit => FramesTyped /\ FlagsTyped
    BY DetectAssumption DEF DetectInit, FramesTyped, FlagsTyped, RunNos
<1>2. FramesTyped /\ [DetectNext]_detectVars => FramesTyped'
    <2>1. FramesTyped /\ UNCHANGED detectVars => FramesTyped'
        BY DEF FramesTyped, detectVars, feed, slotVars, consumerVars, shown, maps
    <2> QED
        BY <2>1, SourceKeepsFrames, ProducerKeepsFrames, ConsumerKeepsFrames DEF DetectNext
<1>3. ShowInv /\ FramesTyped /\ FlagsTyped /\ QueueIsExact /\ ActiveIsExact => DetectTypeOK
    <2> SUFFICES ASSUME ShowInv, FramesTyped, FlagsTyped, QueueIsExact, ActiveIsExact
                 PROVE  DetectTypeOK
        OBVIOUS
    <2>1. IsFiniteSet(Filled) /\ IsFiniteSet(Active)
        BY DetectAssumption, FS_Subset DEF Filled, Active
    <2>2. queueSize \in Nat /\ activeSources \in Nat
        BY <2>1, FS_CardinalityType DEF QueueIsExact, ActiveIsExact, Filled, Active
    <2> QED
        BY <2>2 DEF ShowInv, ShowTyped, FramesTyped, FlagsTyped, DetectTypeOK
<1> QED
    BY <1>1, <1>2, <1>3, FlagsStayTyped, ShowInitInv, ShowKeepsInv, CountersStayExact, PTL
       DEF DetectSpec

-----------------------------------------------------------------------------
(***************************************************************************)
(* Taking commands out of the queue.  The rank of a place among the ones   *)
(* that stay numbers them without a gap (RanksNumberPlaces), so the queue  *)
(* that is left holds the others, in their order (WithoutKeepsOrder).      *)
(* Commands carry rising numbers, so a queue is as long as the set of its  *)
(* commands, which turns lengths and evaluations into cardinalities.       *)
(***************************************************************************)
Items(q) == {q[i] : i \in DOMAIN q}
Rising(q) == \A i, j \in DOMAIN q : i < j => q[i].n < q[j].n

LEMMA RanksNumberPlaces ==
    ASSUME NEW kept, IsFiniteSet(kept), kept \subseteq Nat
    PROVE  \E rank \in [kept -> 1 .. Cardinality(kept)] :
              /\ \A i \in kept : rank[i] = Cardinality({j \in kept : j <= i})
              /\ \A i, j \in kept : i < j => rank[i] < rank[j]
              /\ \A k \in 1 .. Cardinality(kept) : \E i \in kept : rank[i] = k
<1> DEFINE upTo(i) == {j \in kept : j <= i}
           rank == [i \in kept |-> Cardinality(upTo(i))]
           size == Cardinality(kept)
<1>1. \A i \in kept : IsFiniteSet(upTo(i)) /\ Cardinality(upTo(i)) \in 1 .. size
    <2> SUFFICES ASSUME NEW i \in kept
                 PROVE  IsFiniteSet(upTo(i)) /\ Cardinality(upTo(i)) \in 1 .. size
        OBVIOUS
    <2>1. upTo(i) \subseteq kept /\ i \in upTo(i)
        OBVIOUS
    <2>2. IsFiniteSet(upTo(i)) /\ Cardinality(upTo(i)) <= size
        BY <2>1, FS_Subset
    <2>3. Cardinality(upTo(i)) # 0
        BY <2>1, <2>2, FS_EmptySet
    <2>4. Cardinality(upTo(i)) \in Nat /\ size \in Nat
        BY <2>2, FS_CardinalityType
    <2> HIDE DEF upTo, size
    <2> QED
        BY <2>2, <2>3, <2>4
<1>2. rank \in [kept -> 1 .. size]
    BY <1>1
<1>3. \A i, j \in kept : i < j => rank[i] < rank[j]
    <2> SUFFICES ASSUME NEW i \in kept, NEW j \in kept, i < j
                 PROVE  Cardinality(upTo(i)) < Cardinality(upTo(j))
        OBVIOUS
    <2>0. i \in Nat /\ j \in Nat /\ \A k \in kept : k \in Nat
        OBVIOUS
    <2>1. upTo(i) \subseteq upTo(j) /\ j \in upTo(j) /\ j \notin upTo(i)
        <3>1. \A k \in kept : k <= i => k <= j
            BY <2>0
        <3>2. j <= j /\ ~ (j <= i)
            BY <2>0
        <3> QED
            BY <3>1, <3>2
    <2>2. /\ Cardinality(upTo(i)) <= Cardinality(upTo(j))
          /\ Cardinality(upTo(j)) = Cardinality(upTo(i)) => upTo(j) = upTo(i)
        BY <1>1, <2>1, FS_Subset
    <2>3. Cardinality(upTo(i)) \in Nat /\ Cardinality(upTo(j)) \in Nat
        BY <1>1
    <2> HIDE DEF upTo
    <2> QED
        BY <2>1, <2>2, <2>3
<1>4. size \in Nat
    BY FS_CardinalityType
<1>5. IsFiniteSet(1 .. size) /\ Cardinality(1 .. size) = size
    BY <1>4, FS_Interval
<1> HIDE DEF rank, size
<1>6. \A i, j \in kept : rank[i] = rank[j] => i = j
    <2>1. \A i \in kept : rank[i] \in 1 .. size
        BY <1>2
    <2> QED
        BY <1>3, <1>4, <2>1
<1>7. rank \in Injection(kept, 1 .. size)
    BY <1>2, <1>6 DEF Injection, IsInjective
<1>8. rank \in Surjection(kept, 1 .. size)
    BY <1>5, <1>7, FS_Injection DEF size
<1>9. \A k \in 1 .. size : \E i \in kept : rank[i] = k
    BY <1>8 DEF Surjection
<1>10. \A i \in kept : rank[i] = Cardinality({j \in kept : j <= i})
    BY DEF rank
<1> QED
    BY <1>2, <1>3, <1>9, <1>10 DEF size

LEMMA WithoutKeepsOrder ==
    ASSUME NEW q \in Seq(Command), NEW victims, Rising(q)
    PROVE  LET w == Without(q, victims)
           IN  /\ w \in Seq(Command) /\ Rising(w)
               /\ Items(w) = Items(q) \ victims
<1> DEFINE kept == {i \in DOMAIN q : q[i] \notin victims}
           size == Cardinality(kept)
           w == Without(q, victims)
<1>1. Len(q) \in Nat /\ DOMAIN q = 1 .. Len(q)
    OBVIOUS
<1>2. IsFiniteSet(kept) /\ kept \subseteq Nat
    <2>1. kept \subseteq 1 .. Len(q) /\ IsFiniteSet(1 .. Len(q))
        BY <1>1, FS_Interval
    <2> HIDE DEF kept
    <2>2. IsFiniteSet(kept)
        BY <2>1, FS_Subset
    <2> QED
        BY <1>1, <2>1, <2>2
<1>3. size \in Nat
    BY <1>2, FS_CardinalityType
<1>4. PICK rank \in [kept -> 1 .. size] :
              /\ \A i \in kept : rank[i] = Cardinality({j \in kept : j <= i})
              /\ \A i, j \in kept : i < j => rank[i] < rank[j]
              /\ \A k \in 1 .. size : \E i \in kept : rank[i] = k
    BY <1>2, RanksNumberPlaces
<1> DEFINE place(k) == CHOOSE i \in kept : Cardinality({j \in kept : j <= i}) = k
<1>5. w = [k \in 1 .. size |-> q[place(k)]]
    BY DEF Without
<1>6. \A k \in 1 .. size : place(k) \in kept /\ rank[place(k)] = k
    <2> SUFFICES ASSUME NEW k \in 1 .. size PROVE place(k) \in kept /\ rank[place(k)] = k
        OBVIOUS
    <2>1. \E i \in kept : Cardinality({j \in kept : j <= i}) = k
        BY <1>4
    <2>2. place(k) \in kept /\ Cardinality({j \in kept : j <= place(k)}) = k
        BY <2>1
    <2> QED
        BY <1>4, <2>2
<1>7. \A i \in kept : rank[i] \in 1 .. size /\ place(rank[i]) = i
    <2> SUFFICES ASSUME NEW i \in kept PROVE rank[i] \in 1 .. size /\ place(rank[i]) = i
        OBVIOUS
    <2>1. rank[i] \in 1 .. size
        OBVIOUS
    <2>2. place(rank[i]) \in kept /\ rank[place(rank[i])] = rank[i]
        BY <1>6, <2>1
    <2> HIDE DEF place, kept, size
    <2>3. place(rank[i]) \in Nat /\ i \in Nat
        BY <1>2, <2>2
    <2>4. \A j \in kept : rank[j] \in Int
        BY <1>3
    <2> QED
        BY <1>4, <2>1, <2>2, <2>3, <2>4
<1> HIDE DEF place, size, w
<1>8. DOMAIN w = 1 .. size /\ \A k \in 1 .. size : w[k] = q[place(k)]
    BY <1>5
<1>9. w \in Seq(Command)
    <2>1. \A k \in 1 .. size : q[place(k)] \in Command
        BY <1>6
    <2>2. w \in [1 .. size -> Command]
        BY <1>5, <2>1
    <2> QED
        BY <1>3, <2>2
<1>10. Rising(w)
    <2> SUFFICES ASSUME NEW k \in 1 .. size, NEW l \in 1 .. size, k < l
                 PROVE  w[k].n < w[l].n
        BY <1>8 DEF Rising
    <2>1. place(k) \in kept /\ place(l) \in kept /\ rank[place(k)] < rank[place(l)]
        BY <1>6
    <2>2. ~ (place(l) < place(k)) /\ place(l) # place(k)
        <3> HIDE DEF kept
        <3>1. \A i \in kept : rank[i] \in Int
            BY <1>3
        <3> QED
            BY <1>3, <1>4, <2>1, <3>1
    <2>3. place(k) < place(l)
        <3> HIDE DEF kept
        <3> QED
            BY <1>2, <2>1, <2>2
    <2> QED
        BY <1>8, <2>1, <2>3 DEF Rising
<1>11. Items(w) = Items(q) \ victims
    <2>1. Items(w) \subseteq Items(q) \ victims
        BY <1>6, <1>8 DEF Items
    <2>2. ASSUME NEW i \in DOMAIN q, q[i] \notin victims PROVE q[i] \in Items(w)
        <3>1. i \in kept
            BY <2>2
        <3> QED
            BY <1>7, <1>8, <3>1 DEF Items
    <2> QED
        BY <2>1, <2>2 DEF Items
<1> QED
    BY <1>9, <1>10, <1>11 DEF w

\* A queue is as long as the set of its commands.
LEMMA LengthCountsItems ==
    ASSUME NEW q \in Seq(Command), Rising(q)
    PROVE  /\ IsFiniteSet(Items(q)) /\ Cardinality(Items(q)) = Len(q)
           /\ \A i, j \in DOMAIN q : q[i].n = q[j].n => i = j
<1>1. Len(q) \in Nat /\ DOMAIN q = 1 .. Len(q)
    OBVIOUS
<1>2. \A i \in DOMAIN q : q[i].n \in Nat
    <2>1. \A i \in DOMAIN q : q[i] \in Command
        OBVIOUS
    <2> QED
        BY <2>1 DEF Command
<1>3. \A i, j \in DOMAIN q : q[i].n = q[j].n => i = j
    BY <1>1, <1>2 DEF Rising
<1>4. q \in Bijection(1 .. Len(q), Items(q))
    <2>1. q \in [1 .. Len(q) -> Items(q)]
        BY <1>1 DEF Items
    <2> QED
        BY <1>1, <1>3, <2>1 DEF Items, Bijection, Injection, IsInjective, Surjection
<1>5. IsFiniteSet(1 .. Len(q)) /\ Cardinality(1 .. Len(q)) = Len(q)
    BY <1>1, FS_Interval
<1> QED
    BY <1>3, <1>4, <1>5, FS_Bijection DEF ExistsBijection

LEMMA EvaluationsAreItems ==
    ASSUME NEW q
    PROVE  Evaluations(q) = {c \in Items(q) : c.op = "evaluate"}
BY DEF Evaluations, Items

LEMMA RestIsCounted ==
    ASSUME NEW S, IsFiniteSet(S), NEW T, T \subseteq S
    PROVE  /\ IsFiniteSet(T) /\ IsFiniteSet(S \ T)
           /\ Cardinality(T) \in Nat /\ Cardinality(S) \in Nat
           /\ Cardinality(S \ T) = Cardinality(S) - Cardinality(T)
<1>1. IsFiniteSet(T) /\ IsFiniteSet(S \ T)
    BY FS_Subset
<1>2. Cardinality((S \ T) \cup T)
        = Cardinality(S \ T) + Cardinality(T) - Cardinality((S \ T) \cap T)
    BY <1>1, FS_Union
<1>3. (S \ T) \cup T = S /\ (S \ T) \cap T = {}
    OBVIOUS
<1>4. Cardinality((S \ T) \cap T) = 0
    BY <1>3, FS_EmptySet
<1>5. /\ Cardinality(T) \in Nat /\ Cardinality(S) \in Nat
      /\ Cardinality(S \ T) \in Nat
    BY <1>1, FS_CardinalityType
<1>6. Cardinality(S) = Cardinality(S \ T) + Cardinality(T)
    BY <1>2, <1>3, <1>4, <1>5
<1> QED
    BY <1>1, <1>5, <1>6

\* The first of some commands of a queue, which has rank 1 among their places, is
\* the oldest of them.
LEMMA OldestExists ==
    ASSUME NEW q \in Seq(Command), Rising(q), NEW E, E \subseteq Items(q), E # {}
    PROVE  \E c \in E : \A d \in E : c.n <= d.n
<1> DEFINE places == {i \in DOMAIN q : q[i] \in E}
           size == Cardinality(places)
<1>1. Len(q) \in Nat /\ DOMAIN q = 1 .. Len(q)
    OBVIOUS
<1>2. IsFiniteSet(places) /\ places \subseteq Nat /\ places # {}
    <2>1. places \subseteq 1 .. Len(q) /\ places # {}
        BY <1>1 DEF Items
    <2>0. IsFiniteSet(1 .. Len(q))
        BY <1>1, FS_Interval
    <2> HIDE DEF places
    <2>2. IsFiniteSet(places)
        BY <2>0, <2>1, FS_Subset
    <2> QED
        BY <1>1, <2>1, <2>2
<1>3. size \in Nat /\ size # 0
    BY <1>2, FS_CardinalityType, FS_EmptySet
<1>4. PICK rank \in [places -> 1 .. size] :
              /\ \A i, j \in places : i < j => rank[i] < rank[j]
              /\ \A k \in 1 .. size : \E i \in places : rank[i] = k
    BY <1>2, RanksNumberPlaces
<1>5. PICK first \in places : rank[first] = 1
    BY <1>3, <1>4
<1>6. \A i \in places : first <= i
    <2> HIDE DEF places
    <2>1. \A i \in places : i \in Nat /\ rank[i] \in 1 .. size
        BY <1>2
    <2> QED
        BY <1>3, <1>4, <1>5, <2>1
<1>7. ASSUME NEW d \in E PROVE q[first].n <= d.n
    <2>1. PICK i \in places : d = q[i]
        BY <1>7 DEF Items
    <2>2. q[first].n \in Nat /\ q[i].n \in Nat
        <3>1. q[first] \in Command /\ q[i] \in Command
            OBVIOUS
        <3> QED
            BY <3>1 DEF Command
    <2>3. first = i \/ first < i
        BY <1>1, <1>6
    <2> QED
        BY <2>1, <2>2, <2>3 DEF Rising
<1> QED
    BY <1>5, <1>7

-----------------------------------------------------------------------------
(***************************************************************************)
(* The mailbox.  Every source has one newest evaluation, so once the       *)
(* superseded ones are gone a full queue holds as many sources as it has   *)
(* room for, and giving up the oldest leaves one of each (RoomIsMade).     *)
(***************************************************************************)
MailOK(q, top) ==
    /\ q \in Seq(Command) /\ Rising(q)
    /\ \A c \in Items(q) : c.n <= top /\ (c.op = "evaluate" <=> c.from \in Detectors)

Asked(q, requests) ==
    \A a \in Admins : requests[a] = "asked" <=> \E c \in Items(q) : c.from = a

OneOfEach(q) == \A c, d \in Items(q) : c.from \in Admins /\ c.from = d.from => c = d

RuleInv ==
    /\ RulesTypeOK
    /\ MailOK(commands, pushes)
    /\ Asked(commands, admin) /\ OneOfEach(commands)
    /\ PendingIsExact
    /\ lastFired = lastTriggered

\* A queue of one evaluation from each of as many sources as it has room for, less
\* one, and none of them s.
Crowded(q, s) ==
    /\ Cardinality(Evaluations(q)) = QueueCapacity - 1
    /\ \A c \in Evaluations(q) : c.from # s
    /\ \A c, d \in Evaluations(q) : c.from = d.from => c = d

LEMMA NewestOfEach ==
    ASSUME NEW q \in Seq(Command), Rising(q)
    PROVE  \A c, d \in Newest(q) : c.from = d.from => c = d
<1> SUFFICES ASSUME NEW c \in Newest(q), NEW d \in Newest(q), c.from = d.from
             PROVE  c = d
    OBVIOUS
<1>1. /\ c \in Evaluations(q) /\ d \in Evaluations(q)
      /\ ~ (c.n > d.n) /\ ~ (d.n > c.n)
    BY DEF Newest, Superseded
<1>2. PICK i \in DOMAIN q, j \in DOMAIN q : c = q[i] /\ d = q[j]
    BY <1>1 DEF Evaluations
<1>3. c \in Command /\ d \in Command
    BY <1>2
<1>4. c.n \in Nat /\ d.n \in Nat
    BY <1>3 DEF Command
<1>5. q[i].n = q[j].n
    BY <1>1, <1>2, <1>4
<1> QED
    BY <1>2, <1>5, LengthCountsItems

LEMMA RoomIsMade ==
    ASSUME RuleInv, NEW s \in Detectors, NEW room, room = MakeRoom(s)
    PROVE  /\ room \in Seq(Command) /\ Rising(room)
           /\ Items(room) \subseteq Items(commands)
           /\ Items(commands) \ Items(room) \subseteq Evaluations(commands)
           /\ Cardinality(Evaluations(room)) < QueueCapacity
           /\ \A c \in Newest(commands) \ Items(room) : c.from = s \/ Crowded(room, s)
<1> DEFINE evals == Evaluations(commands)
           newest == Newest(commands)
           compacted == Without(commands, Superseded(commands))
           displaced == Displaced(compacted, s)
<1>1. commands \in Seq(Command) /\ Rising(commands) /\ QueueCapacity \in Nat \ {0}
    BY RulesAssumption DEF RuleInv, MailOK
<1>2. IsFiniteSet(Items(commands)) /\ evals \subseteq Items(commands)
    BY <1>1, LengthCountsItems, EvaluationsAreItems
<1>3. /\ pendingEvaluations = Cardinality(evals)
      /\ Cardinality(evals) \in Nat /\ Cardinality(evals) <= QueueCapacity
    BY <1>2, RestIsCounted DEF RuleInv, PendingIsExact
<1>4. CASE pendingEvaluations < QueueCapacity
    BY <1>1, <1>3, <1>4 DEF MakeRoom, Newest, Evaluations, Items
<1>5. CASE ~ (pendingEvaluations < QueueCapacity)
    <2>1. room = Without(compacted, displaced)
        BY <1>5 DEF MakeRoom
    <2>2. Superseded(commands) \subseteq evals /\ newest = evals \ Superseded(commands)
        BY DEF Superseded, Newest
    <2>3. /\ compacted \in Seq(Command) /\ Rising(compacted)
          /\ Items(compacted) = Items(commands) \ Superseded(commands)
        BY <1>1, WithoutKeepsOrder
    <2>4. Evaluations(compacted) = newest
        BY <2>2, <2>3, EvaluationsAreItems
    <2>5. displaced \subseteq newest
        BY <2>4 DEF Displaced
    <2>6. /\ room \in Seq(Command) /\ Rising(room)
          /\ Items(room) = Items(compacted) \ displaced
        BY <2>1, <2>3, WithoutKeepsOrder
    <2>7. Evaluations(room) = newest \ displaced
        BY <2>3, <2>4, <2>6, EvaluationsAreItems
    <2>8. /\ Items(room) \subseteq Items(commands)
          /\ Items(commands) \ Items(room) \subseteq evals
        BY <2>2, <2>3, <2>5, <2>6
    <2>9. /\ IsFiniteSet(newest) /\ Cardinality(newest) \in Nat
          /\ Cardinality(newest) <= QueueCapacity
        <3>1. newest \subseteq evals /\ IsFiniteSet(evals)
            BY <1>2, <2>2, FS_Subset
        <3>2. IsFiniteSet(newest) /\ Cardinality(newest) <= Cardinality(evals)
            BY <3>1, FS_Subset
        <3>3. Cardinality(newest) \in Nat
            BY <3>2, FS_CardinalityType
        <3> HIDE DEF newest, evals
        <3> QED
            BY <1>1, <1>3, <3>2, <3>3
    <2>10. /\ Cardinality(displaced) \in Nat
           /\ Cardinality(Evaluations(room)) = Cardinality(newest) - Cardinality(displaced)
        BY <2>5, <2>7, <2>9, RestIsCounted
    <2>11. displaced # {} => Cardinality(displaced) # 0
        BY <2>5, <2>9, FS_Subset, FS_EmptySet
    <2>12. \A c \in newest \ Items(room) : c \in displaced
        BY <2>2, <2>3, <2>6, EvaluationsAreItems
    <2> DEFINE own == {c \in newest : c.from = s}
    <2>13. CASE own # {} \/ Cardinality(newest) < QueueCapacity
        <3>1. displaced = own
            BY <2>4, <2>13 DEF Displaced
        <3>2. Cardinality(Evaluations(room)) < QueueCapacity
            <4> HIDE DEF newest, displaced, own
            <4> QED
                BY <1>1, <2>9, <2>10, <2>11, <2>13, <3>1
        <3>3. \A c \in newest \ Items(room) : c.from = s
            BY <2>12, <3>1
        <3> QED
            BY <2>6, <2>8, <3>2, <3>3
    <2>14. CASE ~ (own # {} \/ Cardinality(newest) < QueueCapacity)
        <3>1. displaced = {c \in newest : \A d \in newest : c.n <= d.n}
            BY <2>4, <2>14 DEF Displaced
        <3>2. Cardinality(newest) = QueueCapacity
            <4> HIDE DEF newest
            <4> QED
                BY <1>1, <2>9, <2>14
        <3>3. newest \subseteq Command
            <4>1. \A i \in DOMAIN commands : commands[i] \in Command
                BY <1>1
            <4> QED
                BY <4>1 DEF Newest, Evaluations
        <3>4. newest # {}
            BY <1>1, <3>2, FS_EmptySet
        <3>5. PICK oldest \in newest : \A d \in newest : oldest.n <= d.n
            <4>1. newest \subseteq Items(commands)
                BY <1>2, <2>2
            <4> HIDE DEF newest
            <4> QED
                BY <1>1, <3>4, <4>1, OldestExists
        <3>6. displaced = {oldest}
            <4>1. ASSUME NEW c \in displaced PROVE c = oldest
                <5>1. c \in newest /\ c.n <= oldest.n /\ oldest.n <= c.n
                    BY <3>1, <3>5, <4>1
                <5>2. c.n \in Nat /\ oldest.n \in Nat
                    BY <3>3, <5>1 DEF Command
                <5>3. c.n = oldest.n
                    BY <5>1, <5>2
                <5>4. PICK i \in DOMAIN commands, j \in DOMAIN commands :
                            c = commands[i] /\ oldest = commands[j]
                    BY <5>1 DEF Newest, Evaluations
                <5> QED
                    BY <1>1, <5>3, <5>4, LengthCountsItems
            <4>2. oldest \in displaced
                BY <3>1, <3>5
            <4> QED
                BY <4>1, <4>2
        <3>7. Cardinality(displaced) = 1
            BY <3>6, FS_Singleton
        <3>8. Cardinality(Evaluations(room)) = QueueCapacity - 1
            <4> HIDE DEF newest, displaced
            <4> QED
                BY <2>10, <3>2, <3>7
        <3>9. \A c \in Evaluations(room) : c.from # s
            BY <2>7, <2>14
        <3>10. \A c, d \in Evaluations(room) : c.from = d.from => c = d
            BY <1>1, <2>7, NewestOfEach
        <3> QED
            BY <1>1, <2>6, <2>8, <3>8, <3>9, <3>10 DEF Crowded
    <2> QED
        BY <2>13, <2>14
<1> QED
    BY <1>4, <1>5

LEMMA AppendedItems ==
    ASSUME NEW q \in Seq(Command), Rising(q), NEW c \in Command,
           \A d \in Items(q) : d.n < c.n
    PROVE  /\ Append(q, c) \in Seq(Command) /\ Rising(Append(q, c))
           /\ Items(Append(q, c)) = Items(q) \cup {c} /\ c \notin Items(q)
<1> DEFINE w == Append(q, c)
<1>1. /\ Len(q) \in Nat /\ DOMAIN q = 1 .. Len(q) /\ DOMAIN w = 1 .. Len(q) + 1
      /\ w \in Seq(Command) /\ w[Len(q) + 1] = c
      /\ \A i \in 1 .. Len(q) : w[i] = q[i]
    OBVIOUS
<1>2. \A i \in DOMAIN w : i \in DOMAIN q \/ i = Len(q) + 1
    BY <1>1
<1>3. \A i \in DOMAIN q : i \in DOMAIN w /\ w[i] = q[i] /\ i < Len(q) + 1
    BY <1>1
<1>4. c.n \in Nat
    BY DEF Command
<1>5. Len(q) + 1 \in DOMAIN w
    BY <1>1
<1>6. \A i \in DOMAIN q : q[i] \in Items(q) /\ q[i].n < c.n
    BY DEF Items
<1> HIDE DEF w
<1>7. Rising(w)
    <2> SUFFICES ASSUME NEW i \in DOMAIN w, NEW j \in DOMAIN w, i < j
                 PROVE  w[i].n < w[j].n
        BY DEF Rising
    <2>1. i \in DOMAIN q
        BY <1>1
    <2>2. CASE j \in DOMAIN q
        BY <1>3, <2>1, <2>2 DEF Rising
    <2>3. CASE j = Len(q) + 1
        BY <1>1, <1>3, <1>6, <2>1, <2>3
    <2> QED
        BY <1>2, <2>2, <2>3
<1>8. Items(w) = Items(q) \cup {c}
    BY <1>1, <1>2, <1>3, <1>5 DEF Items
<1>9. c \notin Items(q)
    BY <1>4
<1> QED
    BY <1>1, <1>7, <1>8, <1>9 DEF w

LEMMA PoppedItems ==
    ASSUME NEW q \in Seq(Command), Rising(q), q # <<>>
    PROVE  /\ Tail(q) \in Seq(Command) /\ Rising(Tail(q))
           /\ Head(q) \in Items(q) /\ Items(Tail(q)) = Items(q) \ {Head(q)}
<1> DEFINE w == Tail(q)
<1>1. /\ Len(q) \in Nat \ {0} /\ DOMAIN q = 1 .. Len(q)
      /\ DOMAIN w = 1 .. Len(q) - 1 /\ w \in Seq(Command) /\ Head(q) = q[1]
      /\ \A i \in 1 .. Len(q) - 1 : w[i] = q[i + 1]
    OBVIOUS
<1>2. \A i \in DOMAIN w : i + 1 \in DOMAIN q /\ w[i] = q[i + 1]
    BY <1>1
<1>3. \A i \in DOMAIN q : i # 1 => i - 1 \in DOMAIN w /\ w[i - 1] = q[i]
    BY <1>1
<1>4. 1 \in DOMAIN q
    BY <1>1
<1>5. \A i, j \in DOMAIN q : q[i] = q[j] => i = j
    BY LengthCountsItems
<1> HIDE DEF w
<1>6. Rising(w)
    <2> SUFFICES ASSUME NEW i \in DOMAIN w, NEW j \in DOMAIN w, i < j
                 PROVE  w[i].n < w[j].n
        BY DEF Rising
    <2>1. i + 1 < j + 1
        BY <1>1
    <2> QED
        BY <1>2, <2>1 DEF Rising
<1>7. \A i \in DOMAIN w : i + 1 # 1
    BY <1>1
<1>8. Items(w) = Items(q) \ {Head(q)}
    <2>1. \A i \in DOMAIN w : w[i] \in Items(q) /\ w[i] # q[1]
        BY <1>2, <1>4, <1>5, <1>7 DEF Items
    <2>2. \A i \in DOMAIN q : q[i] # q[1] => q[i] \in Items(w)
        BY <1>3 DEF Items
    <2> QED
        BY <1>1, <2>1, <2>2 DEF Items
<1> QED
    BY <1>1, <1>4, <1>6, <1>8 DEF w, Items

LEMMA RuleInitInv == RulesInit => RuleInv
<1> SUFFICES ASSUME RulesInit PROVE RuleInv
    OBVIOUS
<1>1. Items(commands) = {} /\ Evaluations(commands) = {} /\ DOMAIN commands = {}
    BY DEF RulesInit, Items, Evaluations
<1>0. 0 \in Times /\ 0 \in 0 .. QueueCapacity /\ <<>> \in Seq(Command)
    BY RulesAssumption DEF Times
<1>2. RulesTypeOK
    BY <1>0 DEF RulesInit, RulesTypeOK
<1>3. MailOK(commands, pushes)
    BY <1>1 DEF RulesInit, MailOK, Rising
<1>4. Asked(commands, admin) /\ OneOfEach(commands)
    BY <1>1 DEF RulesInit, Asked, OneOfEach
<1>5. PendingIsExact
    <2>1. Cardinality(Evaluations(commands)) = 0
        BY <1>1, FS_EmptySet
    <2> QED
        BY <2>1, RulesAssumption DEF RulesInit, PendingIsExact
<1> QED
    BY <1>2, <1>3, <1>4, <1>5 DEF RuleInv, RulesInit

\* What a push makes of the mailbox.
LEMMA EvaluateIsPushed ==
    ASSUME RuleInv, NEW s \in Detectors, PushEvaluate(s)
    PROVE  \E room \in Seq(Command), command \in Command :
              /\ room = MakeRoom(s) /\ Rising(room)
              /\ command.op = "evaluate" /\ command.from = s
              /\ command.n = pushes + 1
              /\ commands' = Append(room, command)
              /\ pendingEvaluations' = Cardinality(Evaluations(room)) + 1
              /\ pendingEvaluations' \in 0 .. QueueCapacity
              /\ IsFiniteSet(Evaluations(room))
<1> DEFINE room == MakeRoom(s)
           command == [op |-> "evaluate", from |-> s, at |-> stamp[s], n |-> pushes + 1]
           gone == Items(commands) \ Items(room)
<1>1. /\ commands' = Append(room, command)
      /\ pendingEvaluations' = pendingEvaluations + 1 - (Len(commands) - Len(room))
    BY DEF PushEvaluate
<1>2. command \in Command
    BY DEF RuleInv, RulesTypeOK, PushEvaluate, Command
<1>3. /\ room \in Seq(Command) /\ Rising(room)
      /\ Items(room) \subseteq Items(commands)
      /\ gone \subseteq Evaluations(commands)
      /\ Cardinality(Evaluations(room)) < QueueCapacity
    BY RoomIsMade
<1>4. commands \in Seq(Command) /\ Rising(commands)
    BY DEF RuleInv, MailOK
<1> HIDE DEF room, command
<1>5. /\ IsFiniteSet(Items(commands)) /\ Cardinality(Items(commands)) = Len(commands)
      /\ Cardinality(Items(room)) = Len(room)
    BY <1>3, <1>4, LengthCountsItems
<1>6. /\ Items(room) = Items(commands) \ gone /\ gone \subseteq Items(commands)
      /\ Evaluations(room) = Evaluations(commands) \ gone
      /\ Evaluations(commands) \subseteq Items(commands)
    BY <1>3, EvaluationsAreItems
<1> HIDE DEF gone
<1>7. /\ Cardinality(gone) \in Nat /\ Len(commands) \in Nat
      /\ Len(room) = Len(commands) - Cardinality(gone)
    BY <1>5, <1>6, RestIsCounted
<1>8. IsFiniteSet(Evaluations(commands))
    BY <1>5, <1>6, FS_Subset
<1>9. /\ Cardinality(Evaluations(commands)) \in Nat /\ IsFiniteSet(Evaluations(room))
      /\ Cardinality(Evaluations(room)) = Cardinality(Evaluations(commands)) - Cardinality(gone)
    BY <1>3, <1>6, <1>8, RestIsCounted
<1>10. Cardinality(Evaluations(room)) \in Nat
    BY <1>9, FS_CardinalityType
<1>11. pendingEvaluations = Cardinality(Evaluations(commands))
    BY DEF RuleInv, PendingIsExact
<1>12. pendingEvaluations' = Cardinality(Evaluations(room)) + 1
    BY <1>1, <1>7, <1>9, <1>11
<1>13. pendingEvaluations' \in 0 .. QueueCapacity
    BY <1>3, <1>10, <1>12, RulesAssumption
<1>14. command.op = "evaluate" /\ command.from = s /\ command.n = pushes + 1
    BY DEF command
<1> QED
    BY <1>1, <1>2, <1>3, <1>9, <1>12, <1>13, <1>14 DEF room

LEMMA PushKeepsInv ==
    ASSUME RuleInv, NEW s \in Detectors, PushEvaluate(s)
    PROVE  RuleInv'
<1>1. PICK room \in Seq(Command), command \in Command :
              /\ room = MakeRoom(s) /\ Rising(room)
              /\ command.op = "evaluate" /\ command.from = s
              /\ command.n = pushes + 1
              /\ commands' = Append(room, command)
              /\ pendingEvaluations' = Cardinality(Evaluations(room)) + 1
              /\ pendingEvaluations' \in 0 .. QueueCapacity
              /\ IsFiniteSet(Evaluations(room))
    BY EvaluateIsPushed
<1>2. /\ Items(room) \subseteq Items(commands)
      /\ Items(commands) \ Items(room) \subseteq Evaluations(commands)
    BY <1>1, RoomIsMade
<1>3. /\ pushes \in Nat /\ commands \in Seq(Command)
      /\ \A c \in Items(commands) :
            c.n <= pushes /\ (c.op = "evaluate" <=> c.from \in Detectors)
    BY DEF RuleInv, RulesTypeOK, MailOK
<1>4. \A c \in Items(commands) : c \in Command /\ c.n \in Nat
    <2>1. \A c \in Items(commands) : c \in Command
        BY <1>3 DEF Items
    <2> QED
        BY <2>1 DEF Command
<1>5. \A c \in Items(room) : c.n < command.n
    BY <1>1, <1>2, <1>3, <1>4
<1>6. /\ commands' \in Seq(Command) /\ Rising(commands')
      /\ Items(commands') = Items(room) \cup {command} /\ command \notin Items(room)
    BY <1>1, <1>5, AppendedItems
<1>7. pushes' = pushes + 1 /\ admin' = admin /\ lastFired' = lastFired
      /\ lastTriggered' = lastTriggered
    BY DEF PushEvaluate, engine
<1>8. MailOK(commands', pushes')
    <2>1. \A c \in Items(commands') : c.n <= pushes'
        BY <1>1, <1>2, <1>3, <1>4, <1>6, <1>7
    <2>2. \A c \in Items(commands') : c.op = "evaluate" <=> c.from \in Detectors
        BY <1>1, <1>2, <1>3, <1>6
    <2> QED
        BY <1>6, <2>1, <2>2 DEF MailOK
<1>9. \A a \in Admins : \A c \in Items(commands) \cup {command} :
           c.from = a => c \in Items(room)
    <2>1. \A c \in Evaluations(commands) \cup {command} : c.from \in Detectors
        BY <1>1, <1>3, EvaluationsAreItems
    <2> QED
        BY <1>2, <2>1, RulesAssumption
<1>10. Asked(commands', admin')
    BY <1>2, <1>6, <1>7, <1>9 DEF RuleInv, Asked
<1>11. OneOfEach(commands')
    BY <1>2, <1>6, <1>9 DEF RuleInv, OneOfEach
<1>12. PendingIsExact'
    <2>1. Evaluations(commands') = Evaluations(room) \cup {command}
        BY <1>1, <1>6, EvaluationsAreItems
    <2>2. command \notin Evaluations(room)
        BY <1>6, EvaluationsAreItems
    <2>3. Cardinality(Evaluations(room) \cup {command}) = Cardinality(Evaluations(room)) + 1
        BY <1>1, <2>2, FS_AddElement
    <2> QED
        BY <1>1, <2>1, <2>3, RulesAssumption DEF PendingIsExact
<1>13. RulesTypeOK'
    <2>1. /\ clock' = clock /\ stamp' = [stamp EXCEPT ![s] = Never] /\ UNCHANGED waiter
          /\ toNotify' = toNotify \cup {s} /\ UNCHANGED engine
        BY DEF PushEvaluate
    <2>2. stamp' \in [Detectors -> Times \cup {Never}]
        BY <2>1 DEF RuleInv, RulesTypeOK
    <2>3. pushes' \in Nat
        BY <1>3, <1>7
    <2> QED
        BY <1>1, <1>6, <1>7, <2>1, <2>2, <2>3 DEF RuleInv, RulesTypeOK, waiter, engine
<1> QED
    BY <1>7, <1>8, <1>10, <1>11, <1>12, <1>13 DEF RuleInv

LEMMA RequestKeepsInv ==
    ASSUME RuleInv, NEW a \in Admins, PushCommand(a)
    PROVE  RuleInv'
<1>1. PICK op \in Ops :
          commands' = Append(commands, [op |-> op, from |-> a, at |-> 0, n |-> pushes + 1])
    BY DEF PushCommand
<1> DEFINE command == [op |-> op, from |-> a, at |-> 0, n |-> pushes + 1]
<1>2. /\ pushes \in Nat /\ commands \in Seq(Command) /\ Rising(commands)
      /\ admin \in [Admins -> {"idle", "asked", "answered"}]
      /\ \A c \in Items(commands) :
            c.n <= pushes /\ (c.op = "evaluate" <=> c.from \in Detectors)
    BY DEF RuleInv, RulesTypeOK, MailOK
<1>3. 0 \in Times
    BY RulesAssumption DEF Times
<1>4. command \in Command
    BY <1>2, <1>3 DEF Command
<1>5. /\ command.from = a /\ command.n = pushes + 1 /\ command.op # "evaluate"
      /\ command.op \in Ops
    BY DEF Ops
<1> HIDE DEF command
<1>6. \A c \in Items(commands) : c \in Command /\ c.n \in Nat
    <2>1. \A c \in Items(commands) : c \in Command
        BY <1>2 DEF Items
    <2> QED
        BY <2>1 DEF Command
<1>7. \A c \in Items(commands) : c.n < command.n
    BY <1>2, <1>5, <1>6
<1>8. /\ commands' = Append(commands, command)
      /\ commands' \in Seq(Command) /\ Rising(commands')
      /\ Items(commands') = Items(commands) \cup {command}
    BY <1>1, <1>2, <1>4, <1>7, AppendedItems DEF command
<1>9. /\ pushes' = pushes + 1 /\ admin[a] = "idle"
      /\ admin' = [admin EXCEPT ![a] = "asked"]
      /\ lastFired' = lastFired /\ lastTriggered' = lastTriggered
      /\ pendingEvaluations' = pendingEvaluations
    BY DEF PushCommand, engine
<1>10. MailOK(commands', pushes')
    <2>1. \A c \in Items(commands') : c.n <= pushes'
        BY <1>2, <1>5, <1>6, <1>8, <1>9
    <2>2. \A c \in Items(commands') : c.op = "evaluate" <=> c.from \in Detectors
        BY <1>2, <1>5, <1>8, RulesAssumption
    <2> QED
        BY <1>8, <2>1, <2>2 DEF MailOK
<1>11. \A c \in Items(commands) : c.from # a
    BY <1>9 DEF RuleInv, Asked
<1>12. Asked(commands', admin')
    BY <1>2, <1>5, <1>8, <1>9 DEF RuleInv, Asked
<1>13. OneOfEach(commands')
    BY <1>5, <1>8, <1>11 DEF RuleInv, OneOfEach
<1>14. PendingIsExact'
    <2>1. Evaluations(commands') = Evaluations(commands)
        BY <1>5, <1>8, EvaluationsAreItems
    <2> QED
        BY <1>9, <2>1 DEF RuleInv, PendingIsExact
<1>15. RulesTypeOK'
    <2>1. /\ UNCHANGED <<clock, stamp>> /\ UNCHANGED waiter /\ UNCHANGED engine
          /\ toNotify' = toNotify \cup {a}
        BY DEF PushCommand
    <2>2. pushes' \in Nat /\ admin' \in [Admins -> {"idle", "asked", "answered"}]
        BY <1>2, <1>9
    <2> QED
        BY <1>8, <1>9, <2>1, <2>2 DEF RuleInv, RulesTypeOK, waiter, engine
<1> QED
    BY <1>9, <1>10, <1>12, <1>13, <1>14, <1>15 DEF RuleInv

\* The rule task takes the first command.
LEMMA PopKeepsMail ==
    ASSUME RuleInv, commands # <<>>, commands' = Tail(commands), pushes' = pushes
    PROVE  /\ MailOK(commands', pushes') /\ OneOfEach(commands')
           /\ Head(commands) \in Items(commands) /\ Head(commands) \in Command
           /\ Items(commands') = Items(commands) \ {Head(commands)}
<1>1. commands \in Seq(Command) /\ Rising(commands)
    BY DEF RuleInv, MailOK
<1>2. /\ commands' \in Seq(Command) /\ Rising(commands')
      /\ Head(commands) \in Items(commands)
      /\ Items(commands') = Items(commands) \ {Head(commands)}
    BY <1>1, PoppedItems
<1>3. Head(commands) \in Command
    BY <1>1, <1>2 DEF Items
<1> QED
    BY <1>2, <1>3 DEF RuleInv, MailOK, OneOfEach

LEMMA EvaluateKeepsInv == RuleInv /\ Evaluate => RuleInv'
<1> SUFFICES ASSUME RuleInv, Evaluate PROVE RuleInv'
    OBVIOUS
<1> DEFINE c == Head(commands)
<1>1. /\ commands # <<>> /\ commands' = Tail(commands) /\ c.op = "evaluate"
      /\ pendingEvaluations' = pendingEvaluations - 1
      /\ UNCHANGED <<clock, stamp, pushes, toNotify, waiter, admin, rule>>
    BY DEF Evaluate
<1>2. \/ lastTriggered' = c.at /\ lastFired' = c.at
      \/ lastTriggered' = lastTriggered /\ lastFired' = lastFired
    BY DEF Evaluate
<1>3. /\ MailOK(commands', pushes') /\ OneOfEach(commands')
      /\ c \in Items(commands) /\ c \in Command
      /\ Items(commands') = Items(commands) \ {c}
    BY <1>1, PopKeepsMail
<1> HIDE DEF c
<1>4. c.at \in Times /\ c.from \in Detectors /\ commands' \in Seq(Command)
    BY <1>1, <1>3 DEF RuleInv, MailOK, Command
<1>5. Asked(commands', admin')
    <2>1. \A a \in Admins : c.from # a
        BY <1>4, RulesAssumption
    <2> QED
        BY <1>1, <1>3, <2>1 DEF RuleInv, Asked
<1>6. PendingIsExact' /\ pendingEvaluations' \in 0 .. QueueCapacity
    <2>1. Evaluations(commands') = Evaluations(commands) \ {c} /\ c \in Evaluations(commands)
        BY <1>1, <1>3, EvaluationsAreItems
    <2>2. IsFiniteSet(Evaluations(commands))
        <3>1. IsFiniteSet(Items(commands))
            BY LengthCountsItems DEF RuleInv, MailOK
        <3> QED
            BY <3>1, EvaluationsAreItems, FS_Subset
    <2>3. /\ Cardinality(Evaluations(commands')) = Cardinality(Evaluations(commands)) - 1
          /\ IsFiniteSet(Evaluations(commands'))
        BY <2>1, <2>2, FS_RemoveElement
    <2>4. /\ Cardinality(Evaluations(commands')) \in Nat
          /\ Cardinality(Evaluations(commands)) \in Nat
        BY <2>2, <2>3, FS_CardinalityType
    <2> QED
        BY <1>1, <2>3, <2>4, RulesAssumption DEF RuleInv, PendingIsExact
<1>7. RulesTypeOK'
    BY <1>1, <1>2, <1>4, <1>6 DEF RuleInv, RulesTypeOK, waiter
<1> QED
    BY <1>1, <1>2, <1>3, <1>5, <1>6, <1>7 DEF RuleInv

LEMMA ServeKeepsInv == RuleInv /\ Serve => RuleInv'
<1> SUFFICES ASSUME RuleInv, Serve PROVE RuleInv'
    OBVIOUS
<1> DEFINE c == Head(commands)
<1>1. /\ commands # <<>> /\ commands' = Tail(commands) /\ c.op \in Ops
      /\ admin' = [admin EXCEPT ![c.from] = "answered"]
      /\ UNCHANGED <<clock, stamp, pendingEvaluations, pushes, toNotify, waiter>>
    BY DEF Serve
<1>2. /\ rule' = IF c.op = "read" THEN rule ELSE c.op # "remove"
      /\ lastTriggered' = IF c.op \in {"add", "remove"} THEN Never ELSE lastTriggered
      /\ lastFired' = IF c.op \in {"add", "remove"} THEN Never ELSE lastFired
    BY DEF Serve, Apply
<1>3. /\ MailOK(commands', pushes') /\ OneOfEach(commands')
      /\ c \in Items(commands) /\ c \in Command
      /\ Items(commands') = Items(commands) \ {c}
    BY <1>1, PopKeepsMail
<1> HIDE DEF c
<1>4. c.op # "evaluate" /\ c.from \in Admins /\ commands' \in Seq(Command)
    BY <1>1, <1>3 DEF RuleInv, MailOK, Command, Ops
<1>5. Asked(commands', admin')
    <2>1. admin \in [Admins -> {"idle", "asked", "answered"}]
        BY DEF RuleInv, RulesTypeOK
    <2>2. \A a \in Admins : admin'[a] = IF a = c.from THEN "answered" ELSE admin[a]
        BY <1>1, <2>1
    <2>3. \A d \in Items(commands') : d.from # c.from
        BY <1>3, <1>4 DEF RuleInv, OneOfEach
    <2> QED
        BY <1>3, <1>4, <2>2, <2>3 DEF RuleInv, Asked
<1>6. PendingIsExact'
    <2>1. Evaluations(commands') = Evaluations(commands)
        <3>1. Evaluations(commands) = {d \in Items(commands) : d.op = "evaluate"}
            BY EvaluationsAreItems
        <3>2. Evaluations(commands') = {d \in Items(commands') : d.op = "evaluate"}
            BY EvaluationsAreItems
        <3> QED
            BY <1>3, <1>4, <3>1, <3>2
    <2> QED
        BY <1>1, <2>1 DEF RuleInv, PendingIsExact
<1>7. RulesTypeOK'
    <2>1. admin' \in [Admins -> {"idle", "asked", "answered"}]
        BY <1>1 DEF RuleInv, RulesTypeOK
    <2>2. rule' \in BOOLEAN
        BY <1>2 DEF RuleInv, RulesTypeOK
    <2>3. lastTriggered' \in Times \cup {Never} /\ lastFired' \in Times \cup {Never}
        BY <1>2 DEF RuleInv, RulesTypeOK
    <2> QED
        BY <1>1, <1>4, <2>1, <2>2, <2>3 DEF RuleInv, RulesTypeOK, waiter
<1>8. lastFired' = lastTriggered'
    BY <1>2 DEF RuleInv
<1> QED
    BY <1>3, <1>5, <1>6, <1>7, <1>8 DEF RuleInv

LEMMA RuleKeepsInv == RuleInv /\ [RulesNext]_rulesVars => RuleInv'
<1> SUFFICES ASSUME RuleInv, [RulesNext]_rulesVars PROVE RuleInv'
    OBVIOUS
<1>1. ASSUME UNCHANGED <<commands, pendingEvaluations, pushes, admin, engine>>, RulesTypeOK'
      PROVE  RuleInv'
    BY <1>1 DEF RuleInv, PendingIsExact, engine
<1> USE DEF mailbox, waiter, engine
<1>2. ASSUME NEW s \in Detectors, ReadClock(s) PROVE RuleInv'
    <2>1. stamp' \in [Detectors -> Times \cup {Never}]
        BY <1>2 DEF RuleInv, RulesTypeOK, ReadClock
    <2>2. RulesTypeOK'
        BY <1>2, <2>1 DEF RuleInv, RulesTypeOK, ReadClock
    <2> QED
        BY <1>1, <1>2, <2>2 DEF ReadClock
<1>3. ASSUME NEW p \in Detectors \cup Admins, NotifyRuleTask(p) PROVE RuleInv'
    <2>1. RulesTypeOK'
        BY <1>3 DEF RuleInv, RulesTypeOK, NotifyRuleTask
    <2> QED
        BY <1>1, <1>3, <2>1 DEF NotifyRuleTask
<1>4. ASSUME FindEmpty PROVE RuleInv'
    <2>1. RulesTypeOK'
        BY <1>4 DEF RuleInv, RulesTypeOK, FindEmpty
    <2> QED
        BY <1>1, <1>4, <2>1 DEF FindEmpty
<1>5. ASSUME AwaitNotified PROVE RuleInv'
    <2>1. RulesTypeOK'
        BY <1>5 DEF RuleInv, RulesTypeOK, AwaitNotified
    <2> QED
        BY <1>1, <1>5, <2>1 DEF AwaitNotified
<1>6. ASSUME TickClock PROVE RuleInv'
    <2>1. clock' \in Times
        BY <1>6, RulesAssumption DEF RuleInv, RulesTypeOK, TickClock, Times
    <2>2. RulesTypeOK'
        BY <1>6, <2>1 DEF RuleInv, RulesTypeOK, TickClock
    <2> QED
        BY <1>1, <1>6, <2>2 DEF TickClock
<1>7. CASE UNCHANGED rulesVars
    BY <1>1, <1>7 DEF RuleInv, RulesTypeOK, rulesVars
<1> QED
    BY <1>2, <1>3, <1>4, <1>5, <1>6, <1>7, PushKeepsInv, RequestKeepsInv,
       EvaluateKeepsInv, ServeKeepsInv DEF RulesNext, RuleTaskStep

\* pending_evaluations is the number of evaluations in the mailbox, whatever was
\* superseded, displaced or popped, and the mailbox holds no more than it has room for.
THEOREM PendingStaysExact == RulesSpec => [](RulesTypeOK /\ PendingIsExact)
<1>1. RuleInv => RulesTypeOK /\ PendingIsExact
    BY DEF RuleInv
<1> QED
    BY <1>1, RuleInitInv, RuleKeepsInv, PTL DEF RulesSpec

\* Making room keeps the order of the commands, and every rule request stays in the
\* mailbox until it is answered.
THEOREM CommandsStayInOrder == RulesSpec => []CommandsInOrder
<1>1. RuleInv => CommandsInOrder
    BY DEF RuleInv, CommandsInOrder, MailOK, Rising, Asked, Items
<1> QED
    BY <1>1, RuleInitInv, RuleKeepsInv, PTL DEF RulesSpec

\* The newest evaluation of a source leaves the mailbox only evaluated, replaced, or
\* crowded out by as many other sources as there is room for.
THEOREM NewestStaysKept == RulesSpec => NewestIsKept
<1> DEFINE Kept(c) ==
        \/ c \in Evaluations(commands')
        \/ c = Head(commands) /\ commands' = Tail(commands)
        \/ \E d \in Evaluations(commands') : d.from = c.from /\ d.n > c.n
        \/ Cardinality({d.from : d \in Evaluations(commands')}) = QueueCapacity
<1>1. ASSUME RuleInv, [RulesNext]_rulesVars
      PROVE  [\A c \in Newest(commands) : Kept(c)]_rulesVars
    <2> SUFFICES ASSUME NEW c \in Newest(commands), RulesNext PROVE Kept(c)
        BY <1>1
    <2>1. c \in Evaluations(commands) /\ c \in Items(commands)
        BY EvaluationsAreItems DEF Newest
    <2>2. CASE commands' = commands
        BY <2>1, <2>2
    <2>3. ASSUME NEW s \in Detectors, PushEvaluate(s) PROVE Kept(c)
        <3>1. PICK room \in Seq(Command), command \in Command :
                  /\ room = MakeRoom(s) /\ Rising(room)
                  /\ command.op = "evaluate" /\ command.from = s
                  /\ command.n = pushes + 1
                  /\ commands' = Append(room, command)
                  /\ IsFiniteSet(Evaluations(room))
            BY <1>1, <2>3, EvaluateIsPushed
        <3>2. /\ Items(room) \subseteq Items(commands)
              /\ c \in Items(room) \/ c.from = s \/ Crowded(room, s)
            BY <1>1, <3>1, RoomIsMade
        <3>3. /\ pushes \in Nat
              /\ \A d \in Items(commands) : d.n <= pushes /\ d.n \in Nat
            <4>1. commands \in Seq(Command) /\ pushes \in Nat
                BY <1>1 DEF RuleInv, RulesTypeOK
            <4>2. \A d \in Items(commands) : d \in Command
                BY <4>1 DEF Items
            <4> QED
                BY <1>1, <4>1, <4>2 DEF RuleInv, MailOK, Command
        <3>4. \A d \in Items(room) : d.n < command.n
            BY <3>1, <3>2, <3>3
        <3>5. Items(commands') = Items(room) \cup {command} /\ command \notin Items(room)
            BY <3>1, <3>4, AppendedItems
        <3>6. Evaluations(commands') = Evaluations(room) \cup {command}
            BY <3>1, <3>5, EvaluationsAreItems
        <3>7. CASE c \in Items(room)
            BY <2>1, <3>6, <3>7, EvaluationsAreItems
        <3>8. CASE c.from = s
            BY <2>1, <3>1, <3>3, <3>6, <3>8
        <3>9. CASE Crowded(room, s)
            <4> DEFINE evals == Evaluations(commands')
                       origins == {d.from : d \in evals}
                       origin == [d \in evals |-> d.from]
            <4>1. command \notin Evaluations(room)
                BY <3>5, EvaluationsAreItems
            <4>2. Cardinality(Evaluations(room) \cup {command}) = Cardinality(Evaluations(room)) + 1
                BY <3>1, <4>1, FS_AddElement
            <4>3. IsFiniteSet(Evaluations(room) \cup {command})
                BY <3>1, FS_AddElement
            <4>4. Cardinality(evals) = QueueCapacity
                BY <3>6, <3>9, <4>2, RulesAssumption DEF Crowded
            <4>5. \A d, e \in evals : d.from = e.from => d = e
                BY <3>1, <3>6, <3>9 DEF Crowded
            <4> HIDE DEF evals
            <4>6. origin \in Bijection(evals, origins)
                BY <4>5 DEF Bijection, Injection, IsInjective, Surjection
            <4>7. Cardinality(origins) = Cardinality(evals)
                BY <3>6, <4>3, <4>6, FS_Bijection DEF evals, ExistsBijection
            <4> QED
                BY <4>4, <4>7 DEF evals
        <3> QED
            BY <3>2, <3>7, <3>8, <3>9
    <2>4. ASSUME NEW a \in Admins, PushCommand(a) PROVE Kept(c)
        <3>1. PICK new : commands' = Append(commands, new)
            BY <2>4 DEF PushCommand
        <3>2. commands \in Seq(Command)
            BY <1>1 DEF RuleInv, MailOK
        <3>3. \A i \in DOMAIN commands :
                 i \in DOMAIN commands' /\ commands'[i] = commands[i]
            BY <3>1, <3>2
        <3>4. c \in Evaluations(commands')
            BY <2>1, <3>3 DEF Evaluations
        <3> QED
            BY <3>4
    <2>5. CASE commands # <<>> /\ commands' = Tail(commands)
        <3>1. Items(commands') = Items(commands) \ {Head(commands)}
            BY <1>1, <2>5, PoppedItems DEF RuleInv, MailOK
        <3>2. c = Head(commands) \/ c \in Evaluations(commands')
            BY <2>1, <3>1, EvaluationsAreItems
        <3> QED
            BY <2>5, <3>2
    <2> QED
        BY <2>2, <2>3, <2>4, <2>5
        DEF RulesNext, RuleTaskStep, ReadClock, NotifyRuleTask, FindEmpty, AwaitNotified,
            TickClock, Evaluate, Serve, mailbox
<1> QED
    BY <1>1, RuleInitInv, RuleKeepsInv, PTL DEF RulesSpec, NewestIsKept

\* Two matches of a rule are a cooldown apart, in whatever order the evaluations reach
\* the engine.
THEOREM CooldownStaysHeld == RulesSpec => CooldownHolds
<1> DEFINE Held == lastFired' \notin {lastFired, Never} =>
                      \/ Cooldown = 0 \/ lastFired = Never
                      \/ lastFired' >= lastFired + Cooldown
<1>1. ASSUME RuleInv, [RulesNext]_rulesVars PROVE [Held]_rulesVars
    <2> SUFFICES ASSUME lastFired' \notin {lastFired, Never}, RulesNext PROVE Held
        BY <1>1
    <2>1. Evaluate
        BY DEF RulesNext, RuleTaskStep, ReadClock, PushEvaluate, PushCommand, NotifyRuleTask,
               FindEmpty, AwaitNotified, TickClock, Serve, Apply, engine
    <2>2. CooledDown(Head(commands).at) /\ lastFired' = Head(commands).at
        BY <2>1 DEF Evaluate
    <2>3. Head(commands).at \in Times
        <3>1. commands # <<>> /\ commands \in Seq(Command) /\ Rising(commands)
            BY <1>1, <2>1 DEF Evaluate, RuleInv, MailOK
        <3>2. Head(commands) \in Command
            BY <3>1
        <3> QED
            BY <3>2 DEF Command
    <2>4. lastFired = lastTriggered /\ lastFired \in Times \cup {Never}
        BY <1>1 DEF RuleInv, RulesTypeOK
    <2> QED
        BY <2>2, <2>3, <2>4, RulesAssumption DEF CooledDown, Times
<1> QED
    BY <1>1, RuleInitInv, RuleKeepsInv, PTL DEF RulesSpec, CooldownHolds
-----------------------------------------------------------------------------
(***************************************************************************)
(* All parts side by side.  A behaviour of MCStreams, in which one part is *)
(* in focus, is one of each part's own specification.                      *)
(***************************************************************************)
StreamParts == DetectSpec /\ RulesSpec /\ ActionsSpec /\ RecorderSpec

LEMMA DetectFocusIsStep == DetectFocus => DetectNext
BY StreamsAssumption DEF DetectFocus, DetectNext, First, Others

LEMMA FocusIsOneOfThem == StreamsSpec => StreamParts
<1>1. StreamsInit => DetectInit /\ RulesInit /\ ActionsInit /\ RecorderInit
    BY DEF StreamsInit
<1>2. [StreamsNext]_streamVars =>
          /\ [DetectNext]_detectVars /\ [RulesNext]_rulesVars
          /\ [ActionsNext]_actionVars /\ [RecorderNext]_recorderVars
    BY DetectFocusIsStep, Zenon
    DEF StreamsNext, streamVars, DetectFocus, RulesFocus, ActionsFocus, RecorderFocus
<1> QED
    BY <1>1, <1>2, PTL
    DEF StreamsSpec, StreamParts, DetectSpec, RulesSpec, ActionsSpec, RecorderSpec

\* Whatever the parts do side by side, every counter kept by hand beside what it counts
\* is exact and within its type: slots filled and sources active (detect.rs),
\* evaluations queued (rules.rs), permits out (actions.rs); and the commands and
\* recordings of recorder.rs are those of its callers and subjects.
THEOREM CountersKeepExact == StreamParts => []CountersAreExact
<1>1. /\ DetectTypeOK /\ QueueIsExact /\ ActiveIsExact
      /\ RulesTypeOK /\ PendingIsExact
      /\ ActionsTypeOK /\ PermitsAreExact /\ RecorderTypeOK
      => CountersAreExact
    BY DEF CountersAreExact, StreamsTypeOK
<1> QED
    BY <1>1, DetectTypes, PendingStaysExact, ActionTypes, PermitsStayExact, RecorderTypes, PTL
       DEF StreamParts

\* The same of a behaviour in which one part is in focus.
COROLLARY CountersExactInFocus == StreamsSpec => []CountersAreExact
BY FocusIsOneOfThem, CountersKeepExact, PTL
=============================================================================
