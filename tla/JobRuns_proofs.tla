--------------------------- MODULE JobRuns_proofs ---------------------------
(***************************************************************************)
(* Proofs about JobRuns, for any number of job ids, runs and items.        *)
(***************************************************************************)
EXTENDS JobRuns, TLAPS

(***************************************************************************)
(* The inductive invariant.  Ownership alone is not inductive: that a run  *)
(* about to start has done nothing yet, that only the check-then-start     *)
(* handlers sit between check and start, that a record is filed under the  *)
(* id of its run, and that its detail is absent or names that run (always  *)
(* the latter for OCR) are what the steps rely on.                         *)
(***************************************************************************)
FreshBeforeStart ==
    \A r \in Runs : pc[r] \in {"idle", "checked", "started"} => done[r] = 0

OnlyCheckedCheck == \A r \in Runs : pc[r] = "checked" => Kind[r] = "checked"

RunningHasToken == \A j \in JobIds : jobs[j].running => jobs[j].token # NoRun

DetailIsToken == \A j \in JobIds : jobs[j].detail \in {NoRun, jobs[j].token}

FiledUnderOwnId ==
    \A j \in JobIds :
        jobs[j].token # NoRun =>
            /\ JobOf[jobs[j].token] = j
            /\ Kind[jobs[j].token] = "guarded" => jobs[j].detail = jobs[j].token

IInv ==
    /\ TypeOK
    /\ FreshBeforeStart
    /\ OnlyCheckedCheck
    /\ RunningHasToken
    /\ DetailIsToken
    /\ RunOwnsRecord
    /\ ProgressIsOwn
    /\ FiledUnderOwnId
    /\ RunningHasWorker

-----------------------------------------------------------------------------
(***************************************************************************)
(* The critical sections keep the table well typed.                        *)
(***************************************************************************)
LEMMA NewJobType ==
    ASSUME NEW r \in Runs, NEW d \in Runs \cup {NoRun}
    PROVE  NewJob(r, d) \in Job
BY JobManagerAssumption DEF NewJob, Job, Phases

LEMMA NoJobType == NoJob \in Job /\ ~NoJob.running /\ NoJob.detail = NoRun
                   /\ NoJob.token = NoRun
BY JobManagerAssumption DEF NoJob, Job, Phases

LEMMA SetPhaseEffect ==
    ASSUME jobs \in [JobIds -> Job], NEW j \in JobIds, NEW phase \in Phases,
           jobs' = [jobs EXCEPT ![j].phase = phase]
    PROVE  /\ jobs' \in [JobIds -> Job]
           /\ \A i \in JobIds : /\ jobs'[i].token = jobs[i].token
                                /\ jobs'[i].running = jobs[i].running
                                /\ jobs'[i].detail = jobs[i].detail
                                /\ jobs'[i].current = jobs[i].current
BY DEF Job

LEMMA ProgressEffect ==
    ASSUME jobs \in [JobIds -> Job], NEW j \in JobIds, NEW n \in 0 .. Items,
           jobs' = [jobs EXCEPT ![j].current = n]
    PROVE  /\ jobs' \in [JobIds -> Job]
           /\ jobs'[j].current = n
           /\ \A i \in JobIds : /\ jobs'[i].token = jobs[i].token
                                /\ jobs'[i].running = jobs[i].running
                                /\ jobs'[i].detail = jobs[i].detail
                                /\ i # j => jobs'[i] = jobs[i]
BY DEF Job

LEMMA AgeEffect ==
    ASSUME jobs \in [JobIds -> Job], NEW j \in JobIds, Age(j)
    PROVE  /\ jobs' \in [JobIds -> Job]
           /\ \A i \in JobIds : /\ jobs'[i].token = jobs[i].token
                                /\ jobs'[i].running = jobs[i].running
                                /\ jobs'[i].detail = jobs[i].detail
                                /\ jobs'[i].current = jobs[i].current
BY DEF Age, Job

\* Cancelling needs a running record, whose token is a run's.
LEMMA CancelEffect ==
    ASSUME jobs \in [JobIds -> Job], cancelled \subseteq Runs,
           NEW j \in JobIds, jobs[j].token # NoRun, CancelJob(j)
    PROVE  cancelled' \subseteq Runs
BY DEF CancelJob, Job

LEMMA CloseEffect ==
    ASSUME jobs \in [JobIds -> Job], NEW j \in JobIds,
           NEW phase \in Phases, NEW by \in Runs \cup {NoRun},
           Close(j, phase, by)
    PROVE  /\ jobs' \in [JobIds -> Job]
           /\ ~jobs'[j].running
           /\ \A i \in JobIds : /\ jobs'[i].token = jobs[i].token
                                /\ jobs'[i].detail = jobs[i].detail
                                /\ jobs'[i].current = jobs[i].current
                                /\ i # j => jobs'[i] = jobs[i]
BY DEF Close, Job

-----------------------------------------------------------------------------
LEMMA InitIInv == Init => IInv
BY JobManagerAssumption, JobRunsAssumption, NoJobType
   DEF Init, JobManagerInit, IInv, TypeOK, JobManagerTypeOK, FreshBeforeStart,
       OnlyCheckedCheck, RunningHasToken, DetailIsToken, RunOwnsRecord, ProgressIsOwn, Active,
       FiledUnderOwnId, RunningHasWorker, IsRunning

(***************************************************************************)
(* A step that starts and ends no run, and leaves token, running, detail   *)
(* and progress of every record as they were, preserves the invariant.     *)
(***************************************************************************)
LEMMA QuietStep ==
    ASSUME IInv, TypeOK', done' = done,
           \A j \in JobIds : /\ jobs'[j].token = jobs[j].token
                             /\ jobs'[j].running = jobs[j].running
                             /\ jobs'[j].detail = jobs[j].detail
                             /\ jobs'[j].current = jobs[j].current,
           \A r \in Runs : \/ pc'[r] = pc[r]
                           \/ pc[r] = "started" /\ pc'[r] = "working"
    PROVE  IInv'
<1> USE JobManagerAssumption, JobRunsAssumption
<1>1. FreshBeforeStart' /\ OnlyCheckedCheck'
    BY DEF IInv, FreshBeforeStart, OnlyCheckedCheck
<1>2. RunningHasToken' /\ DetailIsToken'
    BY DEF IInv, RunningHasToken, DetailIsToken
<1>3. \A r \in Runs : Active(r)' = Active(r)
    BY DEF Active
<1>4. RunOwnsRecord' /\ ProgressIsOwn'
    BY <1>3 DEF IInv, RunOwnsRecord, ProgressIsOwn, Disciplined, IsRunning
<1>5. FiledUnderOwnId'
    BY DEF IInv, FiledUnderOwnId
<1>6. RunningHasWorker'
    <2>1. ASSUME NEW j \in JobIds, IsRunning(j)
          PROVE  LET r == jobs[j].token
                 IN  Active(r)' \/ (pc'[r] = "dead" /\ Kind[r] \in {"plain", "checked"})
        BY <1>3, <2>1 DEF IInv, RunningHasWorker, RunningHasToken, IsRunning, TypeOK,
           JobManagerTypeOK, Job, Active
    <2> QED
        BY <2>1 DEF RunningHasWorker, IsRunning, Active
<1> QED
    BY <1>1, <1>2, <1>4, <1>5, <1>6 DEF IInv

LEMMA StepIInv == IInv /\ [Next]_vars => IInv'
<1> SUFFICES ASSUME IInv, [Next]_vars PROVE IInv'
    OBVIOUS
<1> USE JobManagerAssumption, JobRunsAssumption
<1> USE DEF IInv, TypeOK, JobManagerTypeOK, FreshBeforeStart, OnlyCheckedCheck,
            RunningHasToken, DetailIsToken, RunOwnsRecord, ProgressIsOwn, FiledUnderOwnId,
            RunningHasWorker, Active, Goto,
            worker, canceller, IsRunning, Present
<1>1. ASSUME NEW r \in Runs, Refuse(r) PROVE IInv'
    BY <1>1 DEF Refuse
<1>2. ASSUME NEW r \in Runs, SubmitGuarded(r) PROVE IInv'
    <2>1. NewJob(r, r) \in Job
        BY NewJobType
    <2>2. jobs' \in [JobIds -> Job]
        BY <1>2, <2>1 DEF SubmitGuarded, StartOrCurrent
    <2> QED
        BY <1>2, <2>2 DEF SubmitGuarded, StartOrCurrent, NewJob
<1>3. ASSUME NEW r \in Runs, SubmitIfIdle(r) PROVE IInv'
    <2>1. NewJob(r, NoRun) \in Job
        BY NewJobType
    <2>2. jobs' \in [JobIds -> Job]
        BY <1>3, <2>1 DEF SubmitIfIdle, StartIfIdle, Start
    <2> QED
        BY <1>3, <2>2 DEF SubmitIfIdle, StartIfIdle, Start, NewJob
<1>4. ASSUME NEW r \in Runs, CheckIdle(r) PROVE IInv'
    BY <1>4 DEF CheckIdle
<1>5. ASSUME NEW r \in Runs, SpawnPlain(r) PROVE IInv'
    <2>1. CASE UNCHANGED jobs
        BY <1>5, <2>1 DEF SpawnPlain
    <2>2. CASE jobs' = [jobs EXCEPT ![JobOf[r]].phase = "running"]
        <3>1. "running" \in Phases
            BY DEF Phases
        <3> QED
            <4>1. /\ jobs' \in [JobIds -> Job]
                  /\ \A i \in JobIds : /\ jobs'[i].token = jobs[i].token
                                       /\ jobs'[i].running = jobs[i].running
                                       /\ jobs'[i].detail = jobs[i].detail
                                       /\ jobs'[i].current = jobs[i].current
                BY <2>2, <3>1, SetPhaseEffect
            <4>2. TypeOK'
                BY <1>5, <4>1 DEF SpawnPlain
            <4> QED
                BY <1>5, <4>1, <4>2, QuietStep DEF SpawnPlain
    <2> QED
        BY <1>5, <2>1, <2>2 DEF SpawnPlain, SetPhase
<1>6. ASSUME NEW r \in Runs, StartChecked(r) PROVE IInv'
    <2>1. NewJob(r, NoRun) \in Job
        BY NewJobType
    <2>2. jobs' \in [JobIds -> Job]
        BY <1>6, <2>1 DEF StartChecked, Start
    <2>3. ~Disciplined(JobOf[r])
        BY <1>6 DEF StartChecked, Disciplined
    <2>4. CASE UNCHANGED jobs /\ Goto(r, "refused")
        BY <1>6, <2>4 DEF StartChecked
    <2>5. CASE Start(JobOf[r], r) /\ Goto(r, "working")
        BY <1>6, <2>2, <2>3, <2>5 DEF StartChecked, Start, NewJob
    <2> QED
        BY <1>6, <2>4, <2>5 DEF StartChecked
<1>7. ASSUME NEW r \in Runs, Work(r) PROVE IInv'
    <2>1. done[r] + 1 \in 0 .. Items
        BY <1>7 DEF Work
    <2>2. CASE Kind[r] = "guarded" \/ jobs[JobOf[r]].token = NoRun
        BY <1>7, <2>1, <2>2 DEF Work, UpdateProgress
    <2>3. CASE Kind[r] # "guarded" /\ jobs[JobOf[r]].token # NoRun
        <3>1. jobs' = [jobs EXCEPT ![JobOf[r]].current = done[r] + 1]
            BY <1>7, <2>3 DEF Work, UpdateProgress
        <3>2. jobs \in [JobIds -> Job] /\ JobOf[r] \in JobIds
            OBVIOUS
        <3> QED
            <4>1. /\ jobs' \in [JobIds -> Job]
                  /\ jobs'[JobOf[r]].current = done[r] + 1
                  /\ \A i \in JobIds : /\ jobs'[i].token = jobs[i].token
                                       /\ jobs'[i].running = jobs[i].running
                                       /\ jobs'[i].detail = jobs[i].detail
                                       /\ i # JobOf[r] => jobs'[i] = jobs[i]
                BY ONLY <2>1, <3>1, <3>2, ProgressEffect
            <4>2. TypeOK' /\ FreshBeforeStart' /\ OnlyCheckedCheck'
                BY <1>7, <2>1, <4>1 DEF Work
            <4>3. RunningHasToken' /\ DetailIsToken' /\ RunOwnsRecord'
                BY <1>7, <4>1 DEF Work
            <4>4. ProgressIsOwn'
                <5> SUFFICES ASSUME NEW s \in Runs, Active(s)', Disciplined(JobOf[s]),
                                    Kind[s] # "guarded"
                             PROVE  jobs'[JobOf[s]].current = done'[s]
                    BY DEF Disciplined
                <5>1. jobs[JobOf[s]].token = s
                    BY <1>7 DEF Work
                <5>2. CASE s = r
                    BY <1>7, <4>1, <5>2 DEF Work
                <5>3. CASE s # r
                    <6>1. JobOf[s] # JobOf[r]
                        BY <1>7, <5>1, <5>3 DEF Work
                    <6> QED
                        BY <1>7, <4>1, <5>3, <6>1 DEF Work
                <5> QED
                    BY <5>2, <5>3
            <4>5. FiledUnderOwnId' /\ RunningHasWorker'
                BY <1>7, <4>1 DEF Work, Job
            <4> QED
                BY <4>2, <4>3, <4>4, <4>5
    <2> QED
        BY <2>2, <2>3
<1>8. ASSUME NEW r \in Runs, NEW phase \in Phases, pc[r] = "working",
             WriteOutcome(r, phase), Goto(r, "ended"),
             UNCHANGED <<cancelled, done, canceller>>
      PROVE  IInv'
    <2>1. UNCHANGED jobs \/ Close(JobOf[r], phase, r)
        BY <1>8 DEF WriteOutcome, FinishRun, Finish
    <2>2. jobs[JobOf[r]].token = r => Close(JobOf[r], phase, r)
        BY <1>8 DEF WriteOutcome, FinishRun, Finish
    <2>3. /\ jobs' \in [JobIds -> Job]
          /\ \A i \in JobIds : /\ jobs'[i].token = jobs[i].token
                               /\ jobs'[i].detail = jobs[i].detail
                               /\ jobs'[i].current = jobs[i].current
                               /\ jobs'[i].running => jobs[i].running
                               /\ i # JobOf[r] => jobs'[i] = jobs[i]
        BY <1>8, <2>1, CloseEffect
    <2>4. \A i \in JobIds : jobs[i].token = r => ~jobs'[i].running
        BY <1>8, <2>2, CloseEffect
    <2>5. TypeOK' /\ FreshBeforeStart' /\ OnlyCheckedCheck' /\ RunningHasToken' /\ DetailIsToken'
        BY <1>8, <2>3
    <2>6. RunOwnsRecord' /\ ProgressIsOwn'
        <3> SUFFICES ASSUME NEW s \in Runs, Active(s)', Disciplined(JobOf[s])
                     PROVE  /\ jobs'[JobOf[s]].running
                            /\ jobs'[JobOf[s]].token = s
                            /\ Kind[s] # "guarded" => jobs'[JobOf[s]].current = done'[s]
            BY DEF Disciplined
        <3>1. Active(s) /\ s # r
            BY <1>8
        <3>2. jobs[JobOf[s]].running /\ jobs[JobOf[s]].token = s
            BY <3>1
        <3>3. CASE JobOf[s] # JobOf[r]
            BY <1>8, <2>3, <3>1, <3>2, <3>3
        <3>4. CASE JobOf[s] = JobOf[r]
            BY <1>8, <3>1, <3>2, <3>4
        <3> QED
            BY <3>3, <3>4
    <2>7. FiledUnderOwnId'
        BY <2>3
    <2>8. RunningHasWorker'
        BY <1>8, <2>3, <2>4 DEF Job
    <2> QED
        BY <2>5, <2>6, <2>7, <2>8
<1>9. ASSUME NEW r \in Runs, Conclude(r) PROVE IInv'
    <2>1. PICK phase \in EndPhases(r) : WriteOutcome(r, phase)
        BY <1>9 DEF Conclude
    <2>2. phase \in Phases
        BY <2>1 DEF EndPhases, Phases
    <2>3. /\ pc[r] = "working" /\ Goto(r, "ended")
          /\ UNCHANGED <<cancelled, done, canceller>>
        BY <1>9 DEF Conclude
    <2> QED
        BY ONLY <1>8, <2>1, <2>2, <2>3
<1>10. ASSUME NEW r \in Runs, Panic(r) PROVE IInv'
    <2>1. CASE Kind[r] \in {"guarded", "caught"}
        <3>1. /\ pc[r] = "working" /\ WriteOutcome(r, "error") /\ Goto(r, "ended")
              /\ UNCHANGED <<cancelled, done, canceller>>
            BY <1>10, <2>1 DEF Panic
        <3>2. "error" \in Phases
            BY DEF Phases
        <3> QED
            BY ONLY <1>8, <3>1, <3>2
    <2>2. CASE Kind[r] \notin {"guarded", "caught"}
        <3>1. UNCHANGED <<jobs, cancelled, done, canceller>> /\ Goto(r, "dead")
            BY <1>10, <2>2 DEF Panic
        <3>2. Kind[r] \in {"plain", "checked"}
            BY <2>2 DEF Kinds
        <3>3. \A s \in Runs : pc'[s] = IF s = r THEN "dead" ELSE pc[s]
            BY <3>1
        <3>4. RunningHasWorker'
            BY <3>1, <3>2, <3>3 DEF Job
        <3> QED
            BY <3>1, <3>3, <3>4
    <2> QED
        BY <2>1, <2>2
<1>11. ASSUME NEW r \in Runs, OcrCancelCheck(r) PROVE IInv'
    BY <1>11 DEF OcrCancelCheck
<1>12. ASSUME NEW r \in Runs, OcrCancelApply(r) PROVE IInv'
    <2>1. cancelled' \subseteq Runs
        BY <1>12, CancelEffect DEF OcrCancelApply, CancelJob
    <2>2. hit' \in [Runs -> Runs \cup {NoRun}]
        BY <1>12 DEF OcrCancelApply, Job
    <2>3. TypeOK'
        BY <1>12, <2>1, <2>2 DEF OcrCancelApply
    <2> QED
        BY <1>12, <2>3, QuietStep DEF OcrCancelApply
<1>13. ASSUME NEW j \in JobIds, CancelAny(j) PROVE IInv'
    <2>1. cancelled' \subseteq Runs
        BY <1>13, CancelEffect DEF CancelAny, CancelJob
    <2> QED
        BY <1>13, <2>1, QuietStep DEF CancelAny
<1>14. ASSUME NEW j \in JobIds, ForeignFinish(j) PROVE IInv'
    <2>1. CASE UNCHANGED jobs
        BY <1>14, <2>1 DEF ForeignFinish
    <2>2. CASE Close(j, "cancelled", NoRun)
        <3>1. /\ jobs' \in [JobIds -> Job]
              /\ ~jobs'[j].running
              /\ \A i \in JobIds : /\ jobs'[i].token = jobs[i].token
                                   /\ jobs'[i].detail = jobs[i].detail
                                   /\ jobs'[i].current = jobs[i].current
                                   /\ i # j => jobs'[i] = jobs[i]
            BY <2>2, CloseEffect DEF Phases
        <3>2. TypeOK' /\ FreshBeforeStart' /\ OnlyCheckedCheck'
            BY <1>14, <3>1 DEF ForeignFinish
        <3>3. RunningHasToken' /\ DetailIsToken'
            BY <3>1
        <3>4. ~Disciplined(j)
            BY <1>14 DEF ForeignFinish, Disciplined
        <3>5. RunOwnsRecord' /\ ProgressIsOwn'
            BY <1>14, <3>1, <3>4 DEF ForeignFinish, Disciplined
        <3>6. FiledUnderOwnId' /\ RunningHasWorker'
            BY <1>14, <3>1 DEF ForeignFinish, Job
        <3> QED
            BY <3>2, <3>3, <3>5, <3>6
    <2> QED
        BY <1>14, <2>1, <2>2 DEF ForeignFinish, Finish
<1>15. ASSUME NEW j \in JobIds, Tick(j) PROVE IInv'
    BY <1>15, AgeEffect, QuietStep DEF Tick
<1>16. CASE Poll
    <2>1. /\ jobs' \in [JobIds -> Job]
          /\ \A i \in JobIds : jobs'[i] = jobs[i] \/ (~jobs[i].running /\ jobs'[i] = NoJob)
        BY <1>16, NoJobType DEF Poll, PruneHistory
    <2>2. TypeOK' /\ FreshBeforeStart' /\ OnlyCheckedCheck'
        BY <1>16, <2>1 DEF Poll
    <2>3. RunningHasToken' /\ DetailIsToken' /\ FiledUnderOwnId'
        BY <2>1, NoJobType
    <2>4. RunOwnsRecord' /\ ProgressIsOwn'
        BY <1>16, <2>1 DEF Poll, Disciplined
    <2>5. RunningHasWorker'
        BY <1>16, <2>1, NoJobType DEF Poll
    <2> QED
        BY <2>2, <2>3, <2>4, <2>5
<1>17. CASE UNCHANGED vars
    BY <1>17 DEF vars
<1> QED
    BY <1>1, <1>2, <1>3, <1>4, <1>5, <1>6, <1>7, <1>9, <1>10, <1>11, <1>12,
       <1>13, <1>14, <1>15, <1>16, <1>17 DEF Next, RunStep

(***************************************************************************)
(* Type correctness of the table and of every handler and worker.          *)
(***************************************************************************)
THEOREM TypeCorrect == Spec => []TypeOK
<1>1. IInv => TypeOK
    BY DEF IInv
<1> QED
    BY <1>1, InitIInv, StepIInv, PTL DEF Spec

(***************************************************************************)
(* Under start_if_idle or start_or_current a live worker's record is in    *)
(* the table, running and its own, whatever the number of submissions,     *)
(* cancels, polls, ageing records and panics around it.                    *)
(***************************************************************************)
THEOREM LiveRunOwnsRecord == Spec => []RunOwnsRecord
<1>1. IInv => RunOwnsRecord
    BY DEF IInv
<1> QED
    BY <1>1, InitIInv, StepIInv, PTL DEF Spec

(***************************************************************************)
(* ... so the unidentified update_progress of that worker lands in its own *)
(* record.                                                                 *)
(***************************************************************************)
THEOREM ProgressReachesOwnRecord == Spec => []ProgressIsOwn
<1>1. IInv => ProgressIsOwn
    BY DEF IInv
<1> QED
    BY <1>1, InitIInv, StepIInv, PTL DEF Spec

(***************************************************************************)
(* No record is left running behind a worker that ended, panics of guarded *)
(* and caught workers included.                                            *)
(***************************************************************************)
THEOREM NoPhantomRunning == Spec => []RunningHasWorker
<1>1. IInv => RunningHasWorker
    BY DEF IInv
<1> QED
    BY <1>1, InitIInv, StepIInv, PTL DEF Spec

(***************************************************************************)
(* finish_run: a run of an OCR id that ends changes no record but its own, *)
(* also where another caller may close the id's record first.              *)
(***************************************************************************)
THEOREM LateRunChangesNothing == Spec => LateRunHarmless
<1>1. ASSUME IInv, [Next]_vars, NEW j \in JobIds, NEW r \in Runs,
             Guarded(j), JobOf[r] = j, pc[r] = "working", pc'[r] = "ended"
      PROVE  jobs'[j] = jobs[j] \/ jobs[j].token = r
    <2>1. Conclude(r) \/ Panic(r)
        BY <1>1 DEF IInv, TypeOK, Next, RunStep, vars, Goto, worker, canceller,
           Refuse, SubmitGuarded, SubmitIfIdle, CheckIdle, SpawnPlain, StartChecked,
           Work, Conclude, Panic, OcrCancelCheck, OcrCancelApply, CancelAny,
           ForeignFinish, Tick, Poll
    <2>2. PICK phase : FinishRun(j, r, phase)
        BY <1>1, <2>1 DEF Conclude, Panic, WriteOutcome, Guarded
    <2>3. CASE jobs[j].detail = r
        BY <1>1, <2>3, JobManagerAssumption DEF IInv, DetailIsToken
    <2>4. CASE jobs[j].detail # r
        BY <2>2, <2>4 DEF FinishRun
    <2> QED
        BY <2>3, <2>4
<1>2. IInv /\ [Next]_vars =>
        \A j \in JobIds, r \in Runs :
          Guarded(j) /\ JobOf[r] = j /\ pc[r] = "working" /\ pc'[r] = "ended"
              => jobs'[j] = jobs[j] \/ jobs[j].token = r
    BY <1>1
<1> QED
    BY <1>2, InitIInv, StepIInv, PTL DEF Spec, LateRunHarmless

(***************************************************************************)
(* One step keeps who wrote an outcome: finish_run writes it under its own *)
(* token, and every reservation empties the record first.                  *)
(***************************************************************************)
LEMMA StepOutcome ==
    ASSUME IInv, OutcomeIsOwn, [Next]_vars
    PROVE  OutcomeIsOwn'
<1> USE JobManagerAssumption, JobRunsAssumption
<1>0. jobs \in [JobIds -> Job] /\ DetailIsToken
    BY DEF IInv, TypeOK, JobManagerTypeOK
<1> SUFFICES ASSUME NEW j \in JobIds, Guarded(j)
             PROVE  jobs'[j].outcome \in {NoRun, jobs'[j].token}
    BY DEF OutcomeIsOwn, Guarded
<1>1. jobs[j] \in Job /\ jobs[j].outcome \in {NoRun, jobs[j].token}
    BY <1>0 DEF OutcomeIsOwn
<1>2. CASE jobs' = jobs
    BY <1>1, <1>2
<1>3. ASSUME NEW i \in JobIds, NEW r \in Runs, NEW d \in Runs \cup {NoRun},
             jobs' = [jobs EXCEPT ![i] = NewJob(r, d)]
      PROVE  jobs'[j].outcome \in {NoRun, jobs'[j].token}
    BY <1>0, <1>1, <1>3 DEF NewJob
<1>4. ASSUME NEW i \in JobIds, NEW n,
             \/ jobs' = [jobs EXCEPT ![i].current = n] \/ jobs' = [jobs EXCEPT ![i].phase = n]
             \/ jobs' = [jobs EXCEPT ![i].old = n]
      PROVE  jobs'[j].outcome \in {NoRun, jobs'[j].token}
    <2>1. jobs'[j].outcome = jobs[j].outcome /\ jobs'[j].token = jobs[j].token
        BY <1>0, <1>1, <1>4 DEF Job
    <2> QED
        BY <1>1, <2>1
<1>5. ASSUME NEW i \in JobIds, NEW phase, NEW by \in Runs \cup {NoRun},
             Close(i, phase, by), i = j => by \in {NoRun, jobs[j].token}
      PROVE  jobs'[j].outcome \in {NoRun, jobs'[j].token}
    <2>1. jobs'[j].token = jobs[j].token
          /\ jobs'[j].outcome = IF i = j THEN by ELSE jobs[j].outcome
        BY <1>0, <1>1, <1>5 DEF Close, Job
    <2> QED
        BY <1>1, <1>5, <2>1
<1>6. ASSUME NEW r \in Runs, NEW phase, WriteOutcome(r, phase)
      PROVE  jobs'[j].outcome \in {NoRun, jobs'[j].token}
    <2>1. JobOf[r] \in JobIds
        OBVIOUS
    <2>2. CASE Kind[r] = "guarded" /\ jobs[JobOf[r]].detail = r
        <3>1. r = jobs[JobOf[r]].token
            BY <1>0, <2>1, <2>2 DEF DetailIsToken
        <3> QED
            BY <1>5, <1>6, <2>1, <2>2, <3>1 DEF WriteOutcome, FinishRun
    <2>3. CASE Kind[r] # "guarded"
        <3>1. JobOf[r] # j
            BY <2>3 DEF Guarded
        <3> QED
            BY <1>2, <1>5, <1>6, <2>1, <2>3, <3>1 DEF WriteOutcome, Finish
    <2>4. CASE Kind[r] = "guarded" /\ jobs[JobOf[r]].detail # r
        BY <1>2, <1>6, <2>4 DEF WriteOutcome, FinishRun
    <2> QED
        BY <2>2, <2>3, <2>4
<1>7. ASSUME NEW r \in Runs,
             SubmitGuarded(r) \/ SubmitIfIdle(r) \/ StartChecked(r)
      PROVE  jobs'[j].outcome \in {NoRun, jobs'[j].token}
    <2>1. JobOf[r] \in JobIds
        OBVIOUS
    <2> QED
        BY <1>2, <1>3, <1>7, <2>1 DEF SubmitGuarded, SubmitIfIdle, StartChecked, StartOrCurrent,
           StartIfIdle, Start
<1>8. ASSUME NEW r \in Runs, SpawnPlain(r) \/ Work(r)
      PROVE  jobs'[j].outcome \in {NoRun, jobs'[j].token}
    <2>1. JobOf[r] \in JobIds
        OBVIOUS
    <2> QED
        BY <1>2, <1>4, <1>8, <2>1 DEF SpawnPlain, Work, SetPhase, UpdateProgress
<1>9. ASSUME NEW r \in Runs, Conclude(r) \/ Panic(r)
      PROVE  jobs'[j].outcome \in {NoRun, jobs'[j].token}
    BY <1>2, <1>6, <1>9 DEF Conclude, Panic
<1>10. ASSUME NEW i \in JobIds, ForeignFinish(i)
       PROVE  jobs'[j].outcome \in {NoRun, jobs'[j].token}
    BY <1>2, <1>5, <1>10 DEF ForeignFinish, Finish
<1>11. CASE Poll
    <2>1. jobs'[j] = IF jobs[j].running \/ ~jobs[j].old THEN jobs[j] ELSE NoJob
        BY <1>11 DEF Poll, PruneHistory
    <2> QED
        BY <1>1, <2>1, NoJobType DEF NoJob
<1>12. ASSUME NEW i \in JobIds, Tick(i)
       PROVE  jobs'[j].outcome \in {NoRun, jobs'[j].token}
    BY <1>4, <1>12 DEF Tick, Age
<1> QED
    BY <1>2, <1>7, <1>8, <1>9, <1>10, <1>11, <1>12
       DEF Next, RunStep, vars, Refuse, CheckIdle, OcrCancelCheck, OcrCancelApply, CancelAny

(***************************************************************************)
(* The result and the error a poller reads for an OCR id were written by   *)
(* the run whose record it reads, or by nobody: finish_run compares the    *)
(* token, and begin_new and start replace the whole record.                *)
(***************************************************************************)
THEOREM ResultIsOwn == Spec => []OutcomeIsOwn
<1>1. Init => OutcomeIsOwn
    BY DEF Init, JobManagerInit, OutcomeIsOwn, NoJob
<1>2. IInv /\ OutcomeIsOwn /\ [Next]_vars => OutcomeIsOwn'
    BY StepOutcome
<1> QED
    BY <1>1, <1>2, InitIInv, StepIInv, PTL DEF Spec

(***************************************************************************)
(* The table and the workers agree both ways, through start_if_idle, the   *)
(* guarded finish_run, panics and cancels of every discipline.             *)
(***************************************************************************)
THEOREM RecordsStayTrue == Spec => []RecordsAreTrue
<1>1. RunOwnsRecord /\ RunningHasWorker => RecordsAreTrue
    BY DEF RecordsAreTrue
<1> QED
    BY <1>1, LiveRunOwnsRecord, NoPhantomRunning, PTL

(***************************************************************************)
(* What get_status shows of a run, progress and outcome, is that run's own. *)
(***************************************************************************)
THEOREM ShownStaysOwn == Spec => []ShownIsOwn
<1>1. ProgressIsOwn /\ OutcomeIsOwn => ShownIsOwn
    BY DEF ShownIsOwn
<1> QED
    BY <1>1, ProgressReachesOwnRecord, ResultIsOwn, PTL

=============================================================================
