-------------------------- MODULE Services_proofs --------------------------
(***************************************************************************)
(* Proofs about the scheduler, the tagger cluster, the event hub, the CLIP *)
(* index and the watcher, each for any number of firings, files and peers, *)
(* clients and events, searches, or threads; and about all of them side by *)
(* side, with the stream configuration.                                    *)
(***************************************************************************)
EXTENDS StreamControl_proofs, MCServices, FiniteSetTheorems, TLAPS

(***************************************************************************)
(* The scheduler.                                                          *)
(***************************************************************************)
(***************************************************************************)
(* The inductive invariant: a set flag has exactly one firing behind it;   *)
(* an event is sent once, after the result it tells of.                    *)
(***************************************************************************)
FiringsTyped ==
    /\ flag \in [CronJobs -> BOOLEAN] /\ firing \in [Firings -> Stages]
    /\ jobOf \in [Firings -> CronJobs]
    /\ result \in [Firings -> {"none", "ok", "error"}]
    /\ event \in [Firings -> {"none", "skipped", "executed", "error"}]

HoldersHaveFlag == \A f \in Firings : firing[f] \in Holding => flag[jobOf[f]]

OneHolder ==
    \A f, g \in Firings :
        firing[f] \in Holding /\ firing[g] \in Holding /\ jobOf[f] = jobOf[g] => f = g

FlagHasHolder ==
    \A j \in CronJobs : flag[j] => \E f \in Firings : jobOf[f] = j /\ firing[f] \in Holding

EventIsLast ==
    \A f \in Firings :
        /\ firing[f] \notin {"clearing", "gone"} => event[f] = "none"
        /\ firing[f] = "clearing" => event[f] # "none"
        /\ firing[f] \in {"recording", "sending"} => result[f] # "none"

SInv == FiringsTyped /\ HoldersHaveFlag /\ OneHolder /\ FlagHasHolder /\ EventIsLast /\ FiringIsTold

LEMMA InitSInv == SchedInit => SInv
<1> SUFFICES ASSUME SchedInit PROVE SInv
    OBVIOUS
<1>1. flag \in [CronJobs -> BOOLEAN]
    BY Zenon DEF SchedInit
<1>2. FiringsTyped
    BY <1>1 DEF SchedInit, FiringsTyped, Stages
<1>3. \A j \in CronJobs : ~flag[j]
    BY DEF SchedInit
<1>4. HoldersHaveFlag /\ OneHolder /\ FlagHasHolder
    BY <1>3 DEF SchedInit, HoldersHaveFlag, OneHolder, FlagHasHolder, Holding
<1>5. EventIsLast /\ FiringIsTold
    BY DEF SchedInit, EventIsLast, FiringIsTold
<1> QED
    BY <1>2, <1>4, <1>5 DEF SInv

(***************************************************************************)
(* A step of one firing, by what it does to its job's flag.                *)
(***************************************************************************)
LEMMA FlagKept ==
    ASSUME SInv, NEW f \in Firings, UNCHANGED <<flag, jobOf>>,
           \A g \in Firings \ {f} : firing'[g] = firing[g],
           firing'[f] \in Holding <=> firing[f] \in Holding
    PROVE  HoldersHaveFlag' /\ OneHolder' /\ FlagHasHolder'
<1>1. \A g \in Firings : firing'[g] \in Holding <=> firing[g] \in Holding
    OBVIOUS
<1>2. HoldersHaveFlag'
    BY <1>1 DEF SInv, HoldersHaveFlag
<1>3. OneHolder'
    BY <1>1 DEF SInv, OneHolder
<1>4. FlagHasHolder'
    BY <1>1 DEF SInv, FlagHasHolder
<1> QED
    BY <1>2, <1>3, <1>4

LEMMA FlagClaimed ==
    ASSUME SInv, NEW f \in Firings, UNCHANGED jobOf, ~flag[jobOf[f]],
           flag' = [flag EXCEPT ![jobOf[f]] = TRUE],
           \A g \in Firings \ {f} : firing'[g] = firing[g], firing'[f] \in Holding
    PROVE  HoldersHaveFlag' /\ OneHolder' /\ FlagHasHolder'
<1>1. \A j \in CronJobs : flag'[j] <=> j = jobOf[f] \/ flag[j]
    BY DEF SInv, FiringsTyped
<1>2. \A g \in Firings : firing[g] \in Holding => jobOf[g] # jobOf[f]
    BY DEF SInv, HoldersHaveFlag
<1>3. \A g \in Firings : jobOf[g] \in CronJobs
    BY DEF SInv, FiringsTyped
<1>4. HoldersHaveFlag'
    BY <1>1, <1>3 DEF SInv, HoldersHaveFlag
<1>5. OneHolder'
    BY <1>2 DEF SInv, OneHolder
<1>6. FlagHasHolder'
    BY <1>1 DEF SInv, FlagHasHolder
<1> QED
    BY <1>4, <1>5, <1>6

LEMMA FlagCleared ==
    ASSUME SInv, NEW f \in Firings, UNCHANGED jobOf, firing[f] \in Holding,
           flag' = [flag EXCEPT ![jobOf[f]] = FALSE],
           \A g \in Firings \ {f} : firing'[g] = firing[g], firing'[f] \notin Holding
    PROVE  HoldersHaveFlag' /\ OneHolder' /\ FlagHasHolder'
<1>1. \A j \in CronJobs : flag'[j] <=> j # jobOf[f] /\ flag[j]
    BY DEF SInv, FiringsTyped
<1>2. \A g \in Firings \ {f} : firing[g] \in Holding => jobOf[g] # jobOf[f]
    BY DEF SInv, OneHolder
<1>3. \A g \in Firings : jobOf[g] \in CronJobs
    BY DEF SInv, FiringsTyped
<1>4. HoldersHaveFlag'
    BY <1>1, <1>2, <1>3 DEF SInv, HoldersHaveFlag
<1>5. OneHolder'
    BY DEF SInv, OneHolder
<1>6. FlagHasHolder'
    <2> SUFFICES ASSUME NEW j \in CronJobs, flag'[j]
                 PROVE  \E g \in Firings : jobOf'[g] = j /\ firing'[g] \in Holding
        BY DEF FlagHasHolder
    <2>1. PICK g \in Firings : jobOf[g] = j /\ firing[g] \in Holding
        BY <1>1 DEF SInv, FlagHasHolder
    <2>2. g # f
        BY <1>1, <2>1
    <2> QED
        BY <2>1, <2>2
<1> QED
    BY <1>4, <1>5, <1>6

LEMMA StepTyped == SInv /\ [SchedNext]_schedVars => FiringsTyped'
<1> SUFFICES ASSUME SInv, [SchedNext]_schedVars PROVE FiringsTyped'
    OBVIOUS
<1> USE DEF SchedNext, FiringStep, schedVars, CronFires, ClaimFlag, SkipFiring, GiveUpFiring,
        BeginJob, RunJob, RecordExecution, SendEvent, ClearFlag, PanicInJob, DropState, Goto
<1>1. flag' \in [CronJobs -> BOOLEAN]
    <2>1. \/ UNCHANGED flag
          \/ \E j, b : b \in BOOLEAN /\ flag' = [flag EXCEPT ![j] = b]
        BY Zenon
    <2> QED
        BY <2>1, Zenon DEF SInv, FiringsTyped
<1>2. firing' \in [Firings -> Stages]
    BY DEF SInv, FiringsTyped, Stages
<1>3. jobOf' \in [Firings -> CronJobs]
    BY DEF SInv, FiringsTyped
<1>4. result' \in [Firings -> {"none", "ok", "error"}]
    BY DEF SInv, FiringsTyped
<1>5. event' \in [Firings -> {"none", "skipped", "executed", "error"}]
    BY DEF SInv, FiringsTyped
<1> QED
    BY <1>1, <1>2, <1>3, <1>4, <1>5 DEF FiringsTyped

LEMMA StepTold == SInv /\ [SchedNext]_schedVars => EventIsLast' /\ FiringIsTold'
<1> SUFFICES ASSUME SInv, [SchedNext]_schedVars PROVE EventIsLast' /\ FiringIsTold'
    OBVIOUS
<1>0. FiringsTyped /\ EventIsLast /\ FiringIsTold
    BY DEF SInv
<1>1. ASSUME NEW f \in Firings, CronFires(f) \/ ClaimFlag(f) \/ BeginJob(f) \/ PanicInJob(f)
      PROVE  EventIsLast' /\ FiringIsTold'
    <2>1. /\ UNCHANGED <<result, event, stateAlive>> /\ event[f] = "none"
          /\ \E l \in {"started", "won", "running", "panicked"} :
                firing' = [firing EXCEPT ![f] = l]
        BY <1>0, <1>1 DEF CronFires, ClaimFlag, BeginJob, PanicInJob, FiringAt, Goto, EventIsLast
    <2> QED
        BY <1>0, <2>1 DEF FiringsTyped, EventIsLast, FiringIsTold
<1>2. ASSUME NEW f \in Firings, SkipFiring(f) PROVE EventIsLast' /\ FiringIsTold'
    BY <1>0, <1>2 DEF SkipFiring, FiringAt, Goto, FiringsTyped, EventIsLast, FiringIsTold
<1>3. ASSUME NEW f \in Firings, GiveUpFiring(f) PROVE EventIsLast' /\ FiringIsTold'
    BY <1>0, <1>3 DEF GiveUpFiring, FiringAt, Goto, FiringsTyped, EventIsLast, FiringIsTold
<1>4. ASSUME NEW f \in Firings, RunJob(f) PROVE EventIsLast' /\ FiringIsTold'
    BY <1>0, <1>4 DEF RunJob, FiringAt, Goto, FiringsTyped, EventIsLast, FiringIsTold
<1>5. ASSUME NEW f \in Firings, RecordExecution(f) PROVE EventIsLast' /\ FiringIsTold'
    BY <1>0, <1>5 DEF RecordExecution, FiringAt, Goto, FiringsTyped, EventIsLast, FiringIsTold
<1>6. ASSUME NEW f \in Firings, SendEvent(f) PROVE EventIsLast' /\ FiringIsTold'
    BY <1>0, <1>6 DEF SendEvent, FiringAt, Goto, FiringsTyped, EventIsLast, FiringIsTold
<1>7. ASSUME NEW f \in Firings, ClearFlag(f) PROVE EventIsLast' /\ FiringIsTold'
    BY <1>0, <1>7 DEF ClearFlag, FiringAt, Goto, FiringsTyped, EventIsLast, FiringIsTold
<1>8. CASE DropState
    BY <1>0, <1>8 DEF DropState, EventIsLast, FiringIsTold
<1>9. CASE UNCHANGED schedVars
    BY <1>0, <1>9 DEF schedVars, EventIsLast, FiringIsTold
<1> QED
    BY <1>1, <1>2, <1>3, <1>4, <1>5, <1>6, <1>7, <1>8, <1>9 DEF SchedNext, FiringStep

LEMMA StepFlag ==
    SInv /\ [SchedNext]_schedVars => HoldersHaveFlag' /\ OneHolder' /\ FlagHasHolder'
<1> SUFFICES ASSUME SInv, [SchedNext]_schedVars
             PROVE  HoldersHaveFlag' /\ OneHolder' /\ FlagHasHolder'
    OBVIOUS
<1>0. firing \in [Firings -> Stages]
    BY DEF SInv, FiringsTyped
<1>1. ASSUME NEW f \in Firings,
             CronFires(f) \/ SkipFiring(f) \/ BeginJob(f) \/ RunJob(f) \/ RecordExecution(f)
                 \/ SendEvent(f) \/ PanicInJob(f)
      PROVE  HoldersHaveFlag' /\ OneHolder' /\ FlagHasHolder'
    <2>1. /\ UNCHANGED <<flag, jobOf>>
          /\ firing'[f] \in Holding <=> firing[f] \in Holding
          /\ \A g \in Firings \ {f} : firing'[g] = firing[g]
        BY <1>0, <1>1 DEF CronFires, SkipFiring, BeginJob, RunJob, RecordExecution, SendEvent,
           PanicInJob, FiringAt, Goto, Holding
    <2> QED
        BY <2>1, FlagKept
<1>2. ASSUME NEW f \in Firings, ClaimFlag(f)
      PROVE  HoldersHaveFlag' /\ OneHolder' /\ FlagHasHolder'
    <2>1. /\ firing'[f] \in Holding /\ UNCHANGED jobOf
          /\ \A g \in Firings \ {f} : firing'[g] = firing[g]
        BY <1>0, <1>2 DEF ClaimFlag, Goto, Holding
    <2>2. ~flag[jobOf[f]] /\ flag' = [flag EXCEPT ![jobOf[f]] = TRUE]
        BY <1>2, Zenon DEF ClaimFlag
    <2> QED
        BY <2>1, <2>2, FlagClaimed
<1>3. ASSUME NEW f \in Firings, GiveUpFiring(f) \/ ClearFlag(f)
      PROVE  HoldersHaveFlag' /\ OneHolder' /\ FlagHasHolder'
    <2>1. /\ firing[f] \in Holding /\ firing'[f] \notin Holding /\ UNCHANGED jobOf
          /\ \A g \in Firings \ {f} : firing'[g] = firing[g]
        BY <1>0, <1>3 DEF GiveUpFiring, ClearFlag, FiringAt, Goto, Holding
    <2>2. flag' = [flag EXCEPT ![jobOf[f]] = FALSE]
        BY <1>3, Zenon DEF GiveUpFiring, ClearFlag
    <2> QED
        BY <2>1, <2>2, FlagCleared
<1>4. CASE DropState
    BY <1>4 DEF DropState, SInv, HoldersHaveFlag, OneHolder, FlagHasHolder
<1>5. CASE UNCHANGED schedVars
    BY <1>5 DEF schedVars, SInv, HoldersHaveFlag, OneHolder, FlagHasHolder
<1> QED
    BY <1>1, <1>2, <1>3, <1>4, <1>5 DEF SchedNext, FiringStep

LEMMA StepSInv == SInv /\ [SchedNext]_schedVars => SInv'
BY StepTyped, StepTold, StepFlag DEF SInv

-----------------------------------------------------------------------------
(***************************************************************************)
(* compare_exchange on the running flag lets one firing of a job through   *)
(* at a time, and the flag is set for exactly as long as that firing has   *)
(* not cleared it.                                                         *)
(***************************************************************************)
THEOREM JobsDoNotOverlap == SchedSpec => []OneRunPerJob
<1>1. SInv => OneRunPerJob
    <2> SUFFICES ASSUME SInv, NEW j \in CronJobs
                 PROVE  LET holders == {f \in Firings : jobOf[f] = j /\ firing[f] \in Holding}
                        IN  Cardinality(holders) = IF flag[j] THEN 1 ELSE 0
        BY DEF OneRunPerJob
    <2> DEFINE holders == {f \in Firings : jobOf[f] = j /\ firing[f] \in Holding}
    <2>1. CASE flag[j]
        <3>1. PICK f \in Firings : jobOf[f] = j /\ firing[f] \in Holding
            BY <2>1 DEF SInv, FlagHasHolder
        <3>2. holders = {f}
            BY <3>1 DEF SInv, OneHolder
        <3>3. Cardinality(holders) = 1
            BY <3>2, FS_Singleton
        <3> QED
            BY <2>1, <3>3
    <2>2. CASE ~flag[j]
        <3>1. holders = {}
            BY <2>2 DEF SInv, HoldersHaveFlag
        <3>2. Cardinality(holders) = 0
            BY <3>1, FS_EmptySet
        <3> QED
            BY <2>2, <3>2
    <2> QED
        BY <2>1, <2>2
<1> QED
    BY <1>1, InitSInv, StepSInv, PTL DEF SchedSpec

(***************************************************************************)
(* No firing passes in silence: skipped, executed and error events tell    *)
(* the truth about it, and only a lost state or a panic leaves it untold.  *)
(***************************************************************************)
THEOREM EveryFiringIsTold == SchedSpec => []FiringIsTold
<1>1. SInv => FiringIsTold
    BY DEF SInv
<1> QED
    BY <1>1, InitSInv, StepSInv, PTL DEF SchedSpec

(***************************************************************************)
(* Firings of a job neither overlap nor pass in silence.                   *)
(***************************************************************************)
THEOREM FiringsStayTrue == SchedSpec => []FiringsAreTrue
<1>1. OneRunPerJob /\ FiringIsTold => FiringsAreTrue
    BY DEF FiringsAreTrue
<1> QED
    BY <1>1, JobsDoNotOverlap, EveryFiringIsTold, PTL

-----------------------------------------------------------------------------
(***************************************************************************)
(* HandedOutOnce is inductive together with the ranges of the sets it      *)
(* speaks about: a file moves from the queue to one batch, from there to   *)
(* the same worker's writes, and its fate follows.                         *)
(***************************************************************************)
Ranges ==
    /\ handedOut \in 0 .. FileCount
    /\ batch \in [Peers -> SUBSET Files] /\ tagWrites \in [Peers -> SUBSET Files]
    /\ fate \in [Files -> Fates]

TInv == Ranges /\ HandedOutOnce

LEMMA InitTInv == TaggerInit => TInv
BY TaggerAssumption
   DEF TaggerInit, TInv, Ranges, HandedOutOnce, Queued, Files, WithFate, Fates

(***************************************************************************)
(* The part of HandedOutOnce a step of worker p can disturb.               *)
(***************************************************************************)
LEMMA PeerKeepsTInv ==
    ASSUME TInv, Ranges', NEW p \in Peers, handedOut' >= handedOut,
           \A q \in Peers \ {p} : batch'[q] = batch[q] /\ tagWrites'[q] = tagWrites[q],
           \* what the worker holds is its own, or comes from the queue
           batch'[p] \subseteq batch[p] \cup (Queued \ Queued'),
           tagWrites'[p] \subseteq tagWrites[p] \cup batch[p],
           batch'[p] \subseteq WithFate({"pending"})', tagWrites'[p] \subseteq WithFate({"write"})',
           \* and it decides about nothing else
           \A f \in Files : f \notin batch[p] \cup tagWrites[p] => fate'[f] = fate[f]
    PROVE  TInv'
<1> USE DEF TInv, HandedOutOnce, WithFate
<1>0. Queued' \subseteq Queued
    BY DEF Ranges, Queued, Files
<1>1. ASSUME NEW q \in Peers, q # p
      PROVE  /\ batch'[p] \cap batch'[q] = {} /\ tagWrites'[p] \cap tagWrites'[q] = {}
             /\ batch'[q] \cap Queued' = {}
             /\ batch'[q] \subseteq WithFate({"pending"})'
             /\ tagWrites'[q] \subseteq WithFate({"write"})'
    <2>1. batch'[q] = batch[q] /\ tagWrites'[q] = tagWrites[q]
        BY <1>1
    <2>2. batch[q] \subseteq Files /\ tagWrites[q] \subseteq Files
        BY DEF Ranges
    <2>3. batch[q] \cap batch[p] = {} /\ tagWrites[q] \cap tagWrites[p] = {}
        BY <1>1
    <2>4. batch[q] \cap tagWrites[p] = {} /\ tagWrites[q] \cap batch[p] = {}
        OBVIOUS
    <2>5. batch[q] \cap Queued = {}
        OBVIOUS
    <2> QED
        BY <1>0, <2>1, <2>2, <2>3, <2>4, <2>5
<1>2. batch'[p] \cap Queued' = {}
    BY <1>0
<1>3. Queued' \subseteq WithFate({"pending"})'
    <2> SUFFICES ASSUME NEW f \in Queued' PROVE f \in Files /\ fate'[f] = "pending"
        OBVIOUS
    <2>1. f \in Queued /\ f \in Files /\ fate[f] = "pending"
        BY <1>0
    <2>2. f \notin batch[p]
        BY <2>1
    <2>3. f \notin tagWrites[p]
        BY <2>1
    <2> QED
        BY <2>1, <2>2, <2>3
<1>4. ASSUME NEW q \in Peers, NEW r \in Peers, q # r
      PROVE  batch'[q] \cap batch'[r] = {} /\ tagWrites'[q] \cap tagWrites'[r] = {}
    <2>1. CASE q # p /\ r # p
        BY <1>4, <2>1
    <2>2. CASE q = p
        BY <1>1, <1>4, <2>2
    <2>3. CASE r = p
        BY <1>1, <1>4, <2>3
    <2> QED
        BY <2>1, <2>2, <2>3
<1>5. \A q \in Peers : /\ batch'[q] \cap Queued' = {}
                       /\ batch'[q] \subseteq WithFate({"pending"})'
                       /\ tagWrites'[q] \subseteq WithFate({"write"})'
    BY <1>1, <1>2
<1> QED
    BY <1>3, <1>4, <1>5

LEMMA StepTInv == TInv /\ [TaggerNext]_taggerVars => TInv'
<1> SUFFICES ASSUME TInv, [TaggerNext]_taggerVars PROVE TInv'
    OBVIOUS
<1>0. Ranges /\ HandedOutOnce
    BY DEF TInv
<1> USE TaggerAssumption
<1>1. ASSUME NEW p \in Peers, Pop(p) PROVE TInv'
    <2>1. /\ batch' = [batch EXCEPT ![p] = batch[p] \cup {handedOut + 1}]
          /\ handedOut' = handedOut + 1 /\ UNCHANGED <<tagWrites, fate>>
          /\ Queued # {}
        BY <1>1 DEF Pop
    <2>2. handedOut + 1 \in Queued /\ handedOut + 1 \in Files
        BY <1>0, <2>1 DEF Ranges, Queued, Files
    <2>3. handedOut + 1 \notin Queued'
        BY <1>0, <2>1 DEF Ranges, Queued
    <2>4. Ranges'
        BY <1>0, <2>1, <2>2 DEF Ranges, Files
    <2>5. batch'[p] = batch[p] \cup {handedOut + 1}
        BY <1>0, <2>1 DEF Ranges
    <2>6. /\ batch'[p] \subseteq WithFate({"pending"})'
          /\ tagWrites'[p] \subseteq WithFate({"write"})'
        BY <1>0, <2>1, <2>2, <2>5 DEF HandedOutOnce, WithFate
    <2>7. \A q \in Peers \ {p} : batch'[q] = batch[q] /\ tagWrites'[q] = tagWrites[q]
        BY <1>0, <2>1 DEF Ranges
    <2>8. handedOut' >= handedOut
        BY <1>0, <2>1 DEF Ranges
    <2> QED
        BY <2>1, <2>2, <2>3, <2>4, <2>5, <2>6, <2>7, <2>8, PeerKeepsTInv
<1>2. ASSUME NEW p \in Peers, TagFile(p) PROVE TInv'
    <2>1. PICK f \in batch[p], outcome \in {"write", "empty", "error"} :
             /\ batch' = [batch EXCEPT ![p] = batch[p] \ {f}]
             /\ fate' = [fate EXCEPT ![f] = outcome]
             /\ tagWrites' = IF outcome = "write"
                             THEN [tagWrites EXCEPT ![p] = tagWrites[p] \cup {f}] ELSE tagWrites
        BY <1>2 DEF TagFile
    <2>2. UNCHANGED handedOut /\ f \in Files /\ Queued' = Queued
        BY <1>0, <1>2 DEF TagFile, Ranges, Queued
    <2>3. Ranges'
        BY <1>0, <2>1, <2>2 DEF Ranges, Fates
    <2>4. /\ batch'[p] = batch[p] \ {f}
          /\ tagWrites'[p] = IF outcome = "write" THEN tagWrites[p] \cup {f} ELSE tagWrites[p]
          /\ \A g \in Files : fate'[g] = IF g = f THEN outcome ELSE fate[g]
        BY <1>0, <2>1, <2>2 DEF Ranges
    <2>5. f \notin tagWrites[p]
        BY <1>0 DEF HandedOutOnce, WithFate
    <2>6. /\ batch'[p] \subseteq WithFate({"pending"})'
          /\ tagWrites'[p] \subseteq WithFate({"write"})'
        BY <1>0, <2>2, <2>4, <2>5 DEF HandedOutOnce, WithFate
    <2>7. \A q \in Peers \ {p} : batch'[q] = batch[q] /\ tagWrites'[q] = tagWrites[q]
        BY <1>0, <2>1 DEF Ranges
    <2>8. \A g \in Files : g \notin batch[p] \cup tagWrites[p] => fate'[g] = fate[g]
        BY <2>4
    <2>9. handedOut' >= handedOut
        BY <1>0, <2>2 DEF Ranges
    <2> QED
        BY <2>2, <2>3, <2>4, <2>6, <2>7, <2>8, <2>9, PeerKeepsTInv
<1>3. ASSUME NEW p \in Peers, SkipRest(p) PROVE TInv'
    <2>1. /\ fate' = [f \in Files |-> IF f \in batch[p] THEN "skipped" ELSE fate[f]]
          /\ batch' = [batch EXCEPT ![p] = {}] /\ UNCHANGED <<handedOut, tagWrites>>
        BY <1>3 DEF SkipRest
    <2>2. Ranges'
        BY <1>0, <2>1 DEF Ranges, Fates
    <2>3. batch'[p] = {}
        BY <1>0, <2>1 DEF Ranges
    <2>4. tagWrites'[p] \subseteq WithFate({"write"})'
        BY <1>0, <2>1 DEF HandedOutOnce, WithFate
    <2>5. \A q \in Peers \ {p} : batch'[q] = batch[q] /\ tagWrites'[q] = tagWrites[q]
        BY <1>0, <2>1 DEF Ranges
    <2>6. handedOut' >= handedOut
        BY <1>0, <2>1 DEF Ranges
    <2> QED
        BY <2>1, <2>2, <2>3, <2>4, <2>5, <2>6, PeerKeepsTInv
<1>4. ASSUME NEW p \in Peers, Save(p) PROVE TInv'
    <2>1. PICK saved \in BOOLEAN :
             fate' = [f \in Files |-> IF f \notin tagWrites[p] THEN fate[f]
                                      ELSE IF saved THEN "saved" ELSE "unsaved"]
        BY <1>4 DEF Save
    <2>2. tagWrites' = [tagWrites EXCEPT ![p] = {}] /\ UNCHANGED <<handedOut, batch>>
          /\ batch[p] = {}
        BY <1>4 DEF Save
    <2>3. Ranges'
        BY <1>0, <2>1, <2>2 DEF Ranges, Fates
    <2>4. tagWrites'[p] = {}
        BY <1>0, <2>2 DEF Ranges
    <2>5. \A q \in Peers \ {p} : batch'[q] = batch[q] /\ tagWrites'[q] = tagWrites[q]
        BY <1>0, <2>2 DEF Ranges
    <2>6. handedOut' >= handedOut
        BY <1>0, <2>2 DEF Ranges
    <2> QED
        BY <2>1, <2>2, <2>3, <2>4, <2>5, <2>6, PeerKeepsTInv
<1>5. ASSUME UNCHANGED <<handedOut, batch, tagWrites, fate>> PROVE TInv'
    BY <1>0, <1>5 DEF TInv, Ranges, HandedOutOnce, Queued, WithFate
<1> QED
    BY <1>1, <1>2, <1>3, <1>4, <1>5 DEF TaggerNext, PeerStep, taggerVars, StopTaking, Report,
       PanicInBatch, CancelMesh, FinishMesh

-----------------------------------------------------------------------------
(***************************************************************************)
(* Whichever workers take batches off the queue, and whatever they do with *)
(* them, a file is handed out once.                                        *)
(***************************************************************************)
THEOREM FilesAreHandedOutOnce == TaggerSpec => []HandedOutOnce
<1>1. TInv => HandedOutOnce
    BY DEF TInv
<1> QED
    BY <1>1, InitTInv, StepTInv, PTL DEF TaggerSpec

(***************************************************************************)
(* ResultIsExact.  A file is counted once: by the peer that looked at it,  *)
(* until that peer reports its batch, and then by the job.  The invariant  *)
(* says that some such attribution explains every statistic.               *)
(***************************************************************************)
\* Who has counted a file: a peer in the statistics of its batch, or the job.
Told == CHOOSE x : x \notin Peers

CountedBy(became, by, who, fates) == {f \in Files : by[f] = who /\ became[f] \in fates}

Tallies(became, by, who, s) ==
    /\ s.tagged = Cardinality(CountedBy(became, by, who, {"saved"}))
    /\ s.empty = Cardinality(CountedBy(became, by, who, {"empty"}))
    /\ s.errors = Cardinality(CountedBy(became, by, who, {"error", "unsaved"}))

Explains(by) ==
    /\ Tallies(fate, by, Told, stats)
    /\ \A p \in Peers : Tallies(fate, by, p, batchStats[p])
    /\ \A p \in Peers : tagWrites[p] = CountedBy(fate, by, p, {"write"})
    /\ CountedBy(fate, by, Told, {"write"}) = {}

FilesAreCounted == \E by \in [Files -> Peers \cup {Told}] : Explains(by)

SumsUp(s) == s.done = s.tagged + s.empty + s.errors
StatsSumUp == SumsUp(stats) /\ \A p \in Peers : SumsUp(batchStats[p])

PeersProgress ==
    \A p \in Peers :
        /\ peerWorker[p] \in {"taking", "reporting", "ended"} => tagWrites[p] = {}
        /\ peerWorker[p] \in {"taking", "ended"} => batchStats[p] = NoStats
        /\ peerWorker[p] \in {"reporting", "ended"} => batch[p] = {}
        /\ peerWorker[p] \in {"tagging", "panicked"} => batchStats[p].tagged = 0
        /\ peerWorker[p] = "ended" => meshCancelled \/ Queued = {}

FilesAreLeft ==
    \A f \in Files :
        /\ fate[f] = "pending" => f \in Queued \/ \E p \in Peers : f \in batch[p]
        /\ fate[f] = "skipped" => meshCancelled

MeshIsOver ==
    meshOutcome # "running" =>
        /\ \A p \in Peers : peerWorker[p] \in {"ended", "panicked"}
        /\ meshOutcome = "done" => ~meshCancelled

MeshInv ==
    /\ TaggerTypeOK /\ TInv /\ FilesAreCounted /\ StatsSumUp /\ PeersProgress /\ FilesAreLeft
    /\ MeshIsOver

LEMMA ToldIsNoPeer == Told \notin Peers
    BY NoSetContainsEverything DEF Told

LEMMA FilesAreFinite ==
    /\ IsFiniteSet(Files) /\ Cardinality(Files) = FileCount
    /\ \A S \in SUBSET Files : IsFiniteSet(S) /\ Cardinality(S) \in Nat
<1>1. IsFiniteSet(Files) /\ Cardinality(Files) = FileCount
    <2>1. FileCount \in Nat /\ 1 \in Int /\ FileCount \in Int
        BY TaggerAssumption
    <2>2. /\ IsFiniteSet(1 .. FileCount)
          /\ Cardinality(1 .. FileCount) = IF 1 > FileCount THEN 0 ELSE FileCount - 1 + 1
        BY <2>1, FS_Interval
    <2> QED
        BY <2>1, <2>2 DEF Files
<1> QED
    BY <1>1, FS_Subset, FS_CardinalityType

LEMMA DisjointCounts ==
    ASSUME NEW S \in SUBSET Files, NEW T \in SUBSET Files, S \cap T = {}
    PROVE  Cardinality(S \cup T) = Cardinality(S) + Cardinality(T)
<1>1. IsFiniteSet(S) /\ IsFiniteSet(T) /\ Cardinality(S) \in Nat /\ Cardinality(T) \in Nat
    BY FilesAreFinite
<1>2. Cardinality(S \cup T) = Cardinality(S) + Cardinality(T) - Cardinality(S \cap T)
    BY <1>1, FS_Union
<1>3. Cardinality(S \cap T) = 0
    BY FS_EmptySet
<1> QED
    BY <1>1, <1>2, <1>3

(***************************************************************************)
(* Types.                                                                  *)
(***************************************************************************)
LEMMA CountedType ==
    ASSUME NEW s \in [tagged : Nat, empty : Nat, errors : Nat, done : Nat], NEW n \in Nat,
           NEW field \in {"tagged", "empty", "errors"}
    PROVE  /\ Counted(s, field, n) \in [tagged : Nat, empty : Nat, errors : Nat, done : Nat]
           /\ SumsUp(s) => SumsUp(Counted(s, field, n))
           /\ Counted(s, field, n).tagged = s.tagged + (IF field = "tagged" THEN n ELSE 0)
           /\ Counted(s, field, n).empty = s.empty + (IF field = "empty" THEN n ELSE 0)
           /\ Counted(s, field, n).errors = s.errors + (IF field = "errors" THEN n ELSE 0)
<1> DEFINE Field(f, m) ==
              /\ m \in [tagged : Nat, empty : Nat, errors : Nat, done : Nat]
              /\ m.tagged = s.tagged + (IF f = "tagged" THEN n ELSE 0)
              /\ m.empty = s.empty + (IF f = "empty" THEN n ELSE 0)
              /\ m.errors = s.errors + (IF f = "errors" THEN n ELSE 0)
              /\ m.done = s.done + n
<1>0. s.tagged \in Nat /\ s.empty \in Nat /\ s.errors \in Nat /\ s.done \in Nat
    OBVIOUS
<1>1. field = "tagged" => Field(field, Counted(s, field, n))
  <2>1. Counted(s, "tagged", n) = [[s EXCEPT !["tagged"] = s["tagged"] + n] EXCEPT !["done"] = s["done"] + n]
    BY DEF Counted
  <2>2. Field("tagged", [[s EXCEPT !["tagged"] = s["tagged"] + n] EXCEPT !["done"] = s["done"] + n])
    BY <1>0
  <2> QED
    BY <2>1, <2>2
<1>2. field = "empty" => Field(field, Counted(s, field, n))
  <2>1. Counted(s, "empty", n) = [[s EXCEPT !["empty"] = s["empty"] + n] EXCEPT !["done"] = s["done"] + n]
    BY DEF Counted
  <2>2. Field("empty", [[s EXCEPT !["empty"] = s["empty"] + n] EXCEPT !["done"] = s["done"] + n])
    BY <1>0
  <2> QED
    BY <2>1, <2>2
<1>3. field = "errors" => Field(field, Counted(s, field, n))
  <2>1. Counted(s, "errors", n) = [[s EXCEPT !["errors"] = s["errors"] + n] EXCEPT !["done"] = s["done"] + n]
    BY DEF Counted
  <2>2. Field("errors", [[s EXCEPT !["errors"] = s["errors"] + n] EXCEPT !["done"] = s["done"] + n])
    BY <1>0
  <2> QED
    BY <2>1, <2>2
<1>4. Field(field, Counted(s, field, n))
    BY <1>1, <1>2, <1>3
<1>5. SumsUp(s) => SumsUp(Counted(s, field, n))
    BY <1>0, <1>4 DEF SumsUp
<1> QED
    BY <1>4, <1>5

LEMMA NoStatsType ==
    NoStats \in [tagged : Nat, empty : Nat, errors : Nat, done : Nat] /\ SumsUp(NoStats)
    BY DEF NoStats, SumsUp

StatsTyped ==
    /\ batchStats \in [Peers -> [tagged : Nat, empty : Nat, errors : Nat, done : Nat]]
    /\ stats \in [tagged : Nat, empty : Nat, errors : Nat, done : Nat]
PhasesTyped ==
    /\ peerWorker \in [Peers -> {"taking", "tagging", "reporting", "ended", "panicked"}]
    /\ meshCancelled \in BOOLEAN
    /\ meshOutcome \in {"running", "done", "cancelled"}

LEMMA TaggerTypeParts == TaggerTypeOK <=> Ranges /\ StatsTyped /\ PhasesTyped
    BY DEF TaggerTypeOK, Ranges, StatsTyped, PhasesTyped

(***************************************************************************)
(* What Save and Report do to the statistics.                              *)
(***************************************************************************)
LEMMA SavedBatch ==
    ASSUME MeshInv, NEW p \in Peers, Save(p)
    PROVE  \E saved \in BOOLEAN :
              /\ batchStats' = [batchStats EXCEPT ![p] =
                    Counted(batchStats[p], IF saved THEN "tagged" ELSE "errors", Cardinality(tagWrites[p]))]
              /\ fate' = [f \in Files |-> IF f \notin tagWrites[p] THEN fate[f]
                                          ELSE IF saved THEN "saved" ELSE "unsaved"]
    BY DEF Save

LEMMA ReportedBatch ==
    ASSUME MeshInv, NEW p \in Peers, Report(p)
    PROVE  /\ stats' \in [tagged : Nat, empty : Nat, errors : Nat, done : Nat]
           /\ stats'.tagged = stats.tagged + batchStats[p].tagged
           /\ stats'.empty = stats.empty + batchStats[p].empty
           /\ stats'.errors = stats.errors + batchStats[p].errors
           /\ SumsUp(stats')
<1>1. /\ stats \in [tagged : Nat, empty : Nat, errors : Nat, done : Nat]
      /\ batchStats[p] \in [tagged : Nat, empty : Nat, errors : Nat, done : Nat]
      /\ SumsUp(stats) /\ SumsUp(batchStats[p])
    BY DEF MeshInv, TaggerTypeOK, StatsSumUp
<1>2. DOMAIN stats = {"tagged", "empty", "errors", "done"}
    BY <1>1
<1>3. stats' = [field \in {"tagged", "empty", "errors", "done"} |-> stats[field] + batchStats[p][field]]
    BY <1>2 DEF Report
<1>4. stats' = [tagged |-> stats.tagged + batchStats[p].tagged, empty |-> stats.empty + batchStats[p].empty,
                errors |-> stats.errors + batchStats[p].errors, done |-> stats.done + batchStats[p].done]
    BY <1>3
<1> QED
    BY <1>1, <1>4 DEF SumsUp

LEMMA StatsKept == MeshInv /\ [TaggerNext]_taggerVars => StatsTyped' /\ StatsSumUp'
<1> SUFFICES ASSUME MeshInv, [TaggerNext]_taggerVars PROVE StatsTyped' /\ StatsSumUp'
    OBVIOUS
<1> USE DEF StatsTyped, StatsSumUp
<1>0. StatsTyped /\ StatsSumUp /\ Ranges
    BY TaggerTypeParts DEF MeshInv
<1>1. CASE UNCHANGED <<stats, batchStats>>
    BY <1>0, <1>1
<1>2. ASSUME NEW p \in Peers, NEW field \in {"tagged", "empty", "errors"}, NEW n \in Nat, UNCHANGED stats,
             batchStats' = [batchStats EXCEPT ![p] = Counted(batchStats[p], field, n)]
      PROVE  StatsTyped' /\ StatsSumUp'
  <2>1. batchStats'[p] = Counted(batchStats[p], field, n) /\ \A q \in Peers \ {p} : batchStats'[q] = batchStats[q]
    BY <1>0, <1>2
  <2>2. batchStats'[p] \in [tagged : Nat, empty : Nat, errors : Nat, done : Nat] /\ SumsUp(batchStats'[p])
    <3>1. batchStats[p] \in [tagged : Nat, empty : Nat, errors : Nat, done : Nat] /\ SumsUp(batchStats[p])
        BY <1>0
    <3>2. /\ Counted(batchStats[p], field, n) \in [tagged : Nat, empty : Nat, errors : Nat, done : Nat]
          /\ SumsUp(Counted(batchStats[p], field, n))
        BY <3>1, CountedType
    <3> QED
        BY <2>1, <3>2, Zenon
  <2>3. batchStats' \in [Peers -> [tagged : Nat, empty : Nat, errors : Nat, done : Nat]]
    BY <1>0, <1>2, <2>1, <2>2
  <2> QED
    BY <1>0, <1>2, <2>1, <2>2, <2>3
<1>3. ASSUME NEW p \in Peers, TagFile(p) PROVE StatsTyped' /\ StatsSumUp'
  <2>1. UNCHANGED stats /\ 1 \in Nat
    BY <1>3 DEF TagFile
  <2>2. PICK outcome \in {"write", "empty", "error"} :
           batchStats' = [batchStats EXCEPT ![p] =
               CASE outcome = "empty" -> Counted(@, "empty", 1)
                 [] outcome = "error" -> Counted(@, "errors", 1)
                 [] OTHER -> @]
    BY <1>3 DEF TagFile
  <2>3. CASE outcome = "write"
    <3>1. batchStats' = [batchStats EXCEPT ![p] = batchStats[p]]
        BY <2>2, <2>3
    <3>2. UNCHANGED batchStats
        BY <1>0, <3>1
    <3> QED
        BY <1>1, <2>1, <3>2
  <2>4. CASE outcome = "empty"
    <3>1. batchStats' = [batchStats EXCEPT ![p] = Counted(batchStats[p], "empty", 1)]
        BY <2>2, <2>4
    <3> QED
        BY <1>2, <2>1, <3>1
  <2>5. CASE outcome = "error"
    <3>1. batchStats' = [batchStats EXCEPT ![p] = Counted(batchStats[p], "errors", 1)]
        BY <2>2, <2>5
    <3> QED
        BY <1>2, <2>1, <3>1
  <2> QED
    BY <2>3, <2>4, <2>5
<1>4. ASSUME NEW p \in Peers, Save(p) PROVE StatsTyped' /\ StatsSumUp'
  <2>1. Cardinality(tagWrites[p]) \in Nat /\ UNCHANGED stats
    BY <1>0, <1>4, FilesAreFinite DEF Ranges, Save
  <2> QED
    BY <1>2, <1>4, <2>1, SavedBatch
<1>5. ASSUME NEW p \in Peers, Report(p) PROVE StatsTyped' /\ StatsSumUp'
  <2>1. batchStats' = [batchStats EXCEPT ![p] = NoStats]
    BY <1>5 DEF Report
  <2> QED
    BY <1>0, <1>5, <2>1, ReportedBatch, NoStatsType
<1> QED
    BY <1>1, <1>3, <1>4, <1>5 DEF TaggerNext, PeerStep, taggerVars, Pop, StopTaking, SkipRest, PanicInBatch,
       CancelMesh, FinishMesh

LEMMA PhasesKept == MeshInv /\ [TaggerNext]_taggerVars => PhasesTyped'
<1> SUFFICES ASSUME MeshInv, [TaggerNext]_taggerVars PROVE PhasesTyped'
    OBVIOUS
<1>0. PhasesTyped
    BY TaggerTypeParts DEF MeshInv
<1>1. CASE UNCHANGED <<peerWorker, meshCancelled, meshOutcome>>
    BY <1>0, <1>1 DEF PhasesTyped
<1>2. ASSUME NEW p \in Peers, StopTaking(p) \/ Save(p) \/ Report(p) \/ PanicInBatch(p) PROVE PhasesTyped'
    BY <1>0, <1>2 DEF PhasesTyped, StopTaking, Save, Report, PanicInBatch
<1>3. CASE CancelMesh \/ FinishMesh
    BY <1>0, <1>3 DEF PhasesTyped, CancelMesh, FinishMesh
<1> QED
    BY <1>1, <1>2, <1>3 DEF TaggerNext, PeerStep, taggerVars, Pop, TagFile, SkipRest

(***************************************************************************)
(* The attribution, step by step.                                          *)
(***************************************************************************)
LEMMA CountsMove ==
    ASSUME MeshInv, NEW p \in Peers, TagFile(p)
    PROVE  FilesAreCounted'
<1> USE DEF MeshInv
<1>0. /\ fate \in [Files -> Fates] /\ batch \in [Peers -> SUBSET Files] /\ tagWrites \in [Peers -> SUBSET Files]
      /\ batchStats \in [Peers -> [tagged : Nat, empty : Nat, errors : Nat, done : Nat]]
    BY DEF TaggerTypeOK
<1>1. PICK by \in [Files -> Peers \cup {Told}] : Explains(by)
    BY DEF FilesAreCounted
<1>2. PICK f \in batch[p], outcome \in {"write", "empty", "error"} :
         /\ fate' = [fate EXCEPT ![f] = outcome]
         /\ tagWrites' = IF outcome = "write" THEN [tagWrites EXCEPT ![p] = @ \cup {f}] ELSE tagWrites
         /\ batchStats' = [batchStats EXCEPT ![p] =
               CASE outcome = "empty" -> Counted(@, "empty", 1)
                 [] outcome = "error" -> Counted(@, "errors", 1)
                 [] OTHER -> @]
    BY DEF TagFile
<1>3. f \in Files /\ fate[f] = "pending"
    BY <1>0 DEF TInv, HandedOutOnce, WithFate
<1> DEFINE now == [by EXCEPT ![f] = p]
           Of(who, fates) == CountedBy(fate, by, who, fates)
<1>4. now \in [Files -> Peers \cup {Told}] /\ now[f] = p /\ \A g \in Files \ {f} : now[g] = by[g]
    BY <1>1, <1>3
<1>5. fate'[f] = outcome /\ \A g \in Files \ {f} : fate'[g] = fate[g]
    BY <1>0, <1>2, <1>3
<1> HIDE DEF now
<1>6. ASSUME NEW who \in Peers \cup {Told}, NEW fates, "pending" \notin fates
      PROVE  /\ who = p /\ outcome \in fates => CountedBy(fate', now, who, fates) = Of(who, fates) \cup {f}
             /\ ~(who = p /\ outcome \in fates) => CountedBy(fate', now, who, fates) = Of(who, fates)
  <2>1. CASE who = p /\ outcome \in fates
    BY <1>3, <1>4, <1>5, <2>1 DEF CountedBy
  <2>2. CASE ~(who = p /\ outcome \in fates)
    BY <1>3, <1>4, <1>5, <1>6, <2>2 DEF CountedBy
  <2> QED
    BY <2>1, <2>2
<1>7. ASSUME NEW who \in Peers \cup {Told}, NEW fates, "pending" \notin fates
      PROVE  Cardinality(CountedBy(fate', now, who, fates)) =
                Cardinality(Of(who, fates)) + (IF who = p /\ outcome \in fates THEN 1 ELSE 0)
  <2>1. f \notin Of(who, fates) /\ Of(who, fates) \in SUBSET Files
    BY <1>3, <1>7 DEF CountedBy
  <2>2. IsFiniteSet(Of(who, fates)) /\ Cardinality(Of(who, fates)) \in Nat
    BY <2>1, FilesAreFinite
  <2>3. CASE who = p /\ outcome \in fates
    BY <1>6, <1>7, <2>1, <2>2, <2>3, FS_AddElement
  <2>4. CASE ~(who = p /\ outcome \in fates)
    BY <1>6, <1>7, <2>2, <2>4
  <2> QED
    BY <2>3, <2>4
<1>8. ASSUME NEW who \in Peers \cup {Told}, NEW s, NEW later, Tallies(fate, by, who, s),
             later.tagged = s.tagged,
             later.empty = s.empty + (IF who = p /\ outcome = "empty" THEN 1 ELSE 0),
             later.errors = s.errors + (IF who = p /\ outcome = "error" THEN 1 ELSE 0)
      PROVE  Tallies(fate', now, who, later)
  <2>1. \A fates : Cardinality(Of(who, fates)) \in Nat
    BY FilesAreFinite DEF CountedBy
  <2>2. /\ s.tagged = Cardinality(Of(who, {"saved"})) /\ s.empty = Cardinality(Of(who, {"empty"}))
        /\ s.errors = Cardinality(Of(who, {"error", "unsaved"}))
    BY <1>8 DEF Tallies
  <2> HIDE DEF Of
  <2>3. Cardinality(CountedBy(fate', now, who, {"saved"})) = later.tagged
    <3>1. outcome \notin {"saved"}
        OBVIOUS
    <3> QED
        BY <1>7, <1>8, <2>1, <2>2, <3>1
  <2>4. Cardinality(CountedBy(fate', now, who, {"empty"})) = later.empty
    BY <1>7, <1>8, <2>1, <2>2
  <2>5. Cardinality(CountedBy(fate', now, who, {"error", "unsaved"})) = later.errors
    <3>1. outcome \in {"error", "unsaved"} <=> outcome = "error"
        OBVIOUS
    <3>2. "pending" \notin {"error", "unsaved"}
        OBVIOUS
    <3>3. Cardinality(CountedBy(fate', now, who, {"error", "unsaved"})) =
             Cardinality(Of(who, {"error", "unsaved"}))
                + (IF who = p /\ outcome \in {"error", "unsaved"} THEN 1 ELSE 0)
        BY <1>7, <3>2, Zenon
    <3> QED
        BY <1>8, <2>1, <2>2, <3>1, <3>3
  <2> QED
    BY <2>3, <2>4, <2>5 DEF Tallies
<1>9. UNCHANGED stats /\ Told \notin Peers
    BY ToldIsNoPeer DEF TagFile
<1>10. Tallies(fate', now, Told, stats')
  <2>1. Tallies(fate, by, Told, stats) /\ Told # p /\ Told \in Peers \cup {Told}
    BY <1>1, <1>9 DEF Explains
  <2>2. stats.empty \in Nat /\ stats.errors \in Nat
    BY DEF TaggerTypeOK
  <2> QED
    BY <1>8, <1>9, <2>1, <2>2
<1>11. ASSUME NEW q \in Peers PROVE Tallies(fate', now, q, batchStats'[q])
  <2>1. Tallies(fate, by, q, batchStats[q])
    BY <1>1 DEF Explains
  <2>2. batchStats[q].empty \in Nat /\ batchStats[q].errors \in Nat /\ batchStats[q].tagged \in Nat
    BY <1>0
  <2>3. /\ batchStats'[q].tagged = batchStats[q].tagged
        /\ batchStats'[q].empty = batchStats[q].empty + (IF q = p /\ outcome = "empty" THEN 1 ELSE 0)
        /\ batchStats'[q].errors = batchStats[q].errors + (IF q = p /\ outcome = "error" THEN 1 ELSE 0)
    <3>1. CASE q # p \/ outcome = "write"
        BY <1>0, <1>2, <2>2, <3>1
    <3>2. CASE q = p /\ outcome = "empty"
        <4>1. batchStats'[p] = Counted(batchStats[p], "empty", 1)
            BY <1>0, <1>2, <3>2
        <4>2. batchStats[p] \in [tagged : Nat, empty : Nat, errors : Nat, done : Nat]
            BY <1>0
        <4>3. /\ Counted(batchStats[p], "empty", 1).tagged = batchStats[p].tagged + 0
              /\ Counted(batchStats[p], "empty", 1).empty = batchStats[p].empty + 1
              /\ Counted(batchStats[p], "empty", 1).errors = batchStats[p].errors + 0
            BY <4>2, CountedType
        <4> QED
            BY <2>2, <3>2, <4>1, <4>3
    <3>3. CASE q = p /\ outcome = "error"
        <4>1. batchStats'[p] = Counted(batchStats[p], "errors", 1)
            BY <1>0, <1>2, <3>3
        <4>2. batchStats[p] \in [tagged : Nat, empty : Nat, errors : Nat, done : Nat]
            BY <1>0
        <4>3. /\ Counted(batchStats[p], "errors", 1).tagged = batchStats[p].tagged + 0
              /\ Counted(batchStats[p], "errors", 1).empty = batchStats[p].empty + 0
              /\ Counted(batchStats[p], "errors", 1).errors = batchStats[p].errors + 1
            BY <4>2, CountedType
        <4> QED
            BY <2>2, <3>3, <4>1, <4>3
    <3> QED
        BY <3>1, <3>2, <3>3
  <2> QED
    BY <1>8, <2>1, <2>3
<1>12. ASSUME NEW q \in Peers PROVE tagWrites'[q] = CountedBy(fate', now, q, {"write"})
  <2>1. tagWrites[q] = Of(q, {"write"})
    BY <1>1 DEF Explains
  <2>2. tagWrites'[q] = IF q = p /\ outcome = "write" THEN tagWrites[q] \cup {f} ELSE tagWrites[q]
    BY <1>0, <1>2
  <2> QED
    BY <1>6, <2>1, <2>2
<1>13. CountedBy(fate', now, Told, {"write"}) = {}
  <2>1. Of(Told, {"write"}) = {} /\ Told # p /\ Told \in Peers \cup {Told}
    BY <1>1, <1>9 DEF Explains
  <2> QED
    BY <1>6, <2>1
<1>14. Explains(now)'
    BY <1>10, <1>11, <1>12, <1>13 DEF Explains
<1> QED
    BY <1>4, <1>14 DEF FilesAreCounted

LEMMA MeshTypes ==
    MeshInv =>
        /\ fate \in [Files -> Fates] /\ batch \in [Peers -> SUBSET Files]
        /\ tagWrites \in [Peers -> SUBSET Files]
        /\ batchStats \in [Peers -> [tagged : Nat, empty : Nat, errors : Nat, done : Nat]]
        /\ stats \in [tagged : Nat, empty : Nat, errors : Nat, done : Nat]
        /\ peerWorker \in [Peers -> {"taking", "tagging", "reporting", "ended", "panicked"}]
    BY DEF MeshInv, TaggerTypeOK

LEMMA CountsSkip ==
    ASSUME MeshInv, NEW p \in Peers, SkipRest(p)
    PROVE  FilesAreCounted'
<1>1. PICK by \in [Files -> Peers \cup {Told}] : Explains(by)
    BY DEF MeshInv, FilesAreCounted
<1>2. /\ fate' = [f \in Files |-> IF f \in batch[p] THEN "skipped" ELSE fate[f]]
      /\ UNCHANGED <<stats, batchStats, tagWrites>>
    BY DEF SkipRest
<1>3. \A f \in batch[p] : f \in Files => fate[f] = "pending"
    BY DEF MeshInv, TInv, HandedOutOnce, WithFate
<1>4. ASSUME NEW who, NEW fates, "pending" \notin fates, "skipped" \notin fates
      PROVE  CountedBy(fate', by, who, fates) = CountedBy(fate, by, who, fates)
  <2>1. \A f \in Files : fate'[f] \in fates <=> fate[f] \in fates
    BY <1>2, <1>3, <1>4
  <2> QED
    BY <2>1 DEF CountedBy
<1>5. ASSUME NEW who PROVE
         /\ CountedBy(fate', by, who, {"saved"}) = CountedBy(fate, by, who, {"saved"})
         /\ CountedBy(fate', by, who, {"empty"}) = CountedBy(fate, by, who, {"empty"})
         /\ CountedBy(fate', by, who, {"error", "unsaved"}) = CountedBy(fate, by, who, {"error", "unsaved"})
         /\ CountedBy(fate', by, who, {"write"}) = CountedBy(fate, by, who, {"write"})
    BY <1>4
<1>6. Explains(by)'
    BY <1>1, <1>2, <1>5 DEF Explains, Tallies
<1> QED
    BY <1>6 DEF FilesAreCounted

LEMMA CountsSave ==
    ASSUME MeshInv, NEW p \in Peers, Save(p)
    PROVE  FilesAreCounted'
<1>1. PICK by \in [Files -> Peers \cup {Told}] : Explains(by)
    BY DEF MeshInv, FilesAreCounted
<1>2. PICK saved \in BOOLEAN :
         /\ batchStats' = [batchStats EXCEPT ![p] =
               Counted(batchStats[p], IF saved THEN "tagged" ELSE "errors", Cardinality(tagWrites[p]))]
         /\ fate' = [f \in Files |-> IF f \notin tagWrites[p] THEN fate[f]
                                     ELSE IF saved THEN "saved" ELSE "unsaved"]
    BY SavedBatch
<1>3. UNCHANGED stats /\ tagWrites' = [tagWrites EXCEPT ![p] = {}]
    BY DEF Save
<1> DEFINE outcome == IF saved THEN "saved" ELSE "unsaved"
<1>4. tagWrites[p] = CountedBy(fate, by, p, {"write"}) /\ tagWrites[p] \in SUBSET Files
    BY <1>1, MeshTypes DEF Explains
<1>5. \A f \in Files : fate'[f] = IF by[f] = p /\ fate[f] = "write" THEN outcome ELSE fate[f]
    BY <1>2, <1>4 DEF CountedBy
<1>6. outcome \in {"saved", "unsaved"} /\ (saved => outcome = "saved") /\ (~saved => outcome = "unsaved")
    OBVIOUS
<1> HIDE DEF outcome
<1>7. ASSUME NEW who, NEW fates, "write" \notin fates, ~(who = p /\ outcome \in fates)
      PROVE  CountedBy(fate', by, who, fates) = CountedBy(fate, by, who, fates)
    BY <1>5, <1>7 DEF CountedBy
<1>8. ASSUME NEW fates, "write" \notin fates, outcome \in fates
      PROVE  Cardinality(CountedBy(fate', by, p, fates)) =
                Cardinality(CountedBy(fate, by, p, fates)) + Cardinality(tagWrites[p])
  <2>1. CountedBy(fate', by, p, fates) = CountedBy(fate, by, p, fates) \cup tagWrites[p]
    BY <1>4, <1>5, <1>8 DEF CountedBy
  <2>2. CountedBy(fate, by, p, fates) \cap tagWrites[p] = {} /\ CountedBy(fate, by, p, fates) \in SUBSET Files
    BY <1>4, <1>8 DEF CountedBy
  <2> QED
    BY <1>4, <2>1, <2>2, DisjointCounts
<1>9. Told \notin Peers
    BY ToldIsNoPeer
<1>10. ASSUME NEW who, who # p, NEW s, Tallies(fate, by, who, s) PROVE Tallies(fate', by, who, s)
  <2>1. /\ CountedBy(fate', by, who, {"saved"}) = CountedBy(fate, by, who, {"saved"})
        /\ CountedBy(fate', by, who, {"empty"}) = CountedBy(fate, by, who, {"empty"})
        /\ CountedBy(fate', by, who, {"error", "unsaved"}) = CountedBy(fate, by, who, {"error", "unsaved"})
    BY <1>7, <1>10
  <2> QED
    BY <1>10, <2>1 DEF Tallies
<1>11. ASSUME NEW who, who # p
       PROVE  CountedBy(fate', by, who, {"write"}) = CountedBy(fate, by, who, {"write"})
    BY <1>5, <1>6, <1>11 DEF CountedBy
<1>12. CountedBy(fate', by, p, {"write"}) = {}
    BY <1>5, <1>6 DEF CountedBy
<1>13. Tallies(fate', by, p, batchStats'[p])
  <2>0. Tallies(fate, by, p, batchStats[p])
    BY <1>1 DEF Explains
  <2>1. /\ batchStats[p] \in [tagged : Nat, empty : Nat, errors : Nat, done : Nat]
        /\ Cardinality(tagWrites[p]) \in Nat
    BY <1>4, MeshTypes, FilesAreFinite
  <2>2. batchStats[p].tagged \in Nat /\ batchStats[p].empty \in Nat /\ batchStats[p].errors \in Nat
    BY <2>1
  <2>3. CountedBy(fate', by, p, {"empty"}) = CountedBy(fate, by, p, {"empty"})
    BY <1>6, <1>7
  <2>4. CASE saved
    <3>1. batchStats'[p] = Counted(batchStats[p], "tagged", Cardinality(tagWrites[p]))
        BY <1>2, <2>4, MeshTypes
    <3>2. /\ batchStats'[p].tagged = batchStats[p].tagged + Cardinality(tagWrites[p])
          /\ batchStats'[p].empty = batchStats[p].empty + 0
          /\ batchStats'[p].errors = batchStats[p].errors + 0
      <4> DEFINE n == Cardinality(tagWrites[p])
      <4>1. n \in Nat
        BY <2>1
      <4> HIDE DEF n
      <4>2. /\ Counted(batchStats[p], "tagged", n).tagged = batchStats[p].tagged + n
            /\ Counted(batchStats[p], "tagged", n).empty = batchStats[p].empty + 0
            /\ Counted(batchStats[p], "tagged", n).errors = batchStats[p].errors + 0
        BY <2>1, <4>1, CountedType
      <4> QED
        BY <3>1, <4>2 DEF n
    <3>3. CountedBy(fate', by, p, {"error", "unsaved"}) = CountedBy(fate, by, p, {"error", "unsaved"})
        BY <1>6, <1>7, <2>4
    <3>4. Cardinality(CountedBy(fate', by, p, {"saved"})) =
             Cardinality(CountedBy(fate, by, p, {"saved"})) + Cardinality(tagWrites[p])
        BY <1>6, <1>8, <2>4
    <3> QED
        BY <2>0, <2>2, <2>3, <3>2, <3>3, <3>4 DEF Tallies
  <2>5. CASE ~saved
    <3>1. batchStats'[p] = Counted(batchStats[p], "errors", Cardinality(tagWrites[p]))
        BY <1>2, <2>5, MeshTypes
    <3>2. /\ batchStats'[p].errors = batchStats[p].errors + Cardinality(tagWrites[p])
          /\ batchStats'[p].empty = batchStats[p].empty + 0
          /\ batchStats'[p].tagged = batchStats[p].tagged + 0
      <4> DEFINE n == Cardinality(tagWrites[p])
      <4>1. n \in Nat
        BY <2>1
      <4> HIDE DEF n
      <4>2. /\ Counted(batchStats[p], "errors", n).errors = batchStats[p].errors + n
            /\ Counted(batchStats[p], "errors", n).empty = batchStats[p].empty + 0
            /\ Counted(batchStats[p], "errors", n).tagged = batchStats[p].tagged + 0
        BY <2>1, <4>1, CountedType
      <4> QED
        BY <3>1, <4>2 DEF n
    <3>3. CountedBy(fate', by, p, {"saved"}) = CountedBy(fate, by, p, {"saved"})
        BY <1>6, <1>7, <2>5
    <3>4. Cardinality(CountedBy(fate', by, p, {"error", "unsaved"})) =
             Cardinality(CountedBy(fate, by, p, {"error", "unsaved"})) + Cardinality(tagWrites[p])
        BY <1>6, <1>8, <2>5
    <3> QED
        BY <2>0, <2>2, <2>3, <3>2, <3>3, <3>4 DEF Tallies
  <2> QED
    BY <2>4, <2>5
<1>14. \A q \in Peers \ {p} : batchStats'[q] = batchStats[q] /\ tagWrites'[q] = tagWrites[q]
    BY <1>2, <1>3, MeshTypes
<1>15. ASSUME NEW q \in Peers
       PROVE  Tallies(fate', by, q, batchStats'[q]) /\ tagWrites'[q] = CountedBy(fate', by, q, {"write"})
  <2>1. CASE q = p
    BY <1>3, <1>12, <1>13, <2>1, MeshTypes
  <2>2. CASE q # p
    <3>1. Tallies(fate, by, q, batchStats[q]) /\ tagWrites[q] = CountedBy(fate, by, q, {"write"})
        BY <1>1 DEF Explains
    <3> QED
        BY <1>10, <1>11, <1>14, <2>2, <3>1
  <2> QED
    BY <2>1, <2>2
<1>16. Tallies(fate', by, Told, stats') /\ CountedBy(fate', by, Told, {"write"}) = {}
    BY <1>1, <1>3, <1>9, <1>10, <1>11 DEF Explains
<1>17. Explains(by)'
    BY <1>15, <1>16 DEF Explains
<1> QED
    BY <1>17 DEF FilesAreCounted

LEMMA CountsReport ==
    ASSUME MeshInv, NEW p \in Peers, Report(p)
    PROVE  FilesAreCounted'
<1>1. PICK by \in [Files -> Peers \cup {Told}] : Explains(by)
    BY DEF MeshInv, FilesAreCounted
<1>2. /\ batchStats' = [batchStats EXCEPT ![p] = NoStats] /\ UNCHANGED <<fate, tagWrites>>
      /\ tagWrites[p] = {} /\ Told \notin Peers
    BY ToldIsNoPeer DEF Report, MeshInv, PeersProgress
<1> DEFINE now == [f \in Files |-> IF by[f] = p THEN Told ELSE by[f]]
<1>3. now \in [Files -> Peers \cup {Told}]
    BY <1>1
<1>4. \A f \in Files : now[f] = IF by[f] = p THEN Told ELSE by[f]
    OBVIOUS
<1> HIDE DEF now
<1>5. ASSUME NEW q \in Peers, q # p, NEW fates
      PROVE  CountedBy(fate, now, q, fates) = CountedBy(fate, by, q, fates)
    BY <1>2, <1>4, <1>5 DEF CountedBy
<1>6. ASSUME NEW fates PROVE CountedBy(fate, now, p, fates) = {}
    BY <1>2, <1>4 DEF CountedBy
<1>7. ASSUME NEW fates
      PROVE  /\ CountedBy(fate, now, Told, fates) =
                  CountedBy(fate, by, Told, fates) \cup CountedBy(fate, by, p, fates)
             /\ Cardinality(CountedBy(fate, now, Told, fates)) =
                  Cardinality(CountedBy(fate, by, Told, fates)) + Cardinality(CountedBy(fate, by, p, fates))
  <2>1. CountedBy(fate, now, Told, fates) =
           CountedBy(fate, by, Told, fates) \cup CountedBy(fate, by, p, fates)
    BY <1>2, <1>4 DEF CountedBy
  <2>2. /\ CountedBy(fate, by, Told, fates) \cap CountedBy(fate, by, p, fates) = {}
        /\ CountedBy(fate, by, Told, fates) \in SUBSET Files /\ CountedBy(fate, by, p, fates) \in SUBSET Files
    BY <1>2 DEF CountedBy
  <2>3. Cardinality(CountedBy(fate, by, Told, fates) \cup CountedBy(fate, by, p, fates)) =
           Cardinality(CountedBy(fate, by, Told, fates)) + Cardinality(CountedBy(fate, by, p, fates))
    BY <2>2, DisjointCounts
  <2> QED
    BY <2>1, <2>3
<1>8. Tallies(fate, now, Told, stats')
  <2>1. Tallies(fate, by, Told, stats) /\ Tallies(fate, by, p, batchStats[p])
    BY <1>1 DEF Explains
  <2> QED
    BY <1>7, <2>1, ReportedBatch DEF Tallies
<1>9. Tallies(fate, now, p, NoStats)
  <2>1. Cardinality({}) = 0
    BY FS_EmptySet
  <2> QED
    BY <1>6, <2>1 DEF Tallies, NoStats
<1>10. ASSUME NEW q \in Peers
       PROVE  Tallies(fate, now, q, batchStats'[q]) /\ tagWrites[q] = CountedBy(fate, now, q, {"write"})
  <2>1. CASE q = p
    BY <1>2, <1>6, <1>9, <2>1, MeshTypes
  <2>2. CASE q # p
    <3>1. Tallies(fate, by, q, batchStats[q]) /\ tagWrites[q] = CountedBy(fate, by, q, {"write"})
        BY <1>1 DEF Explains
    <3>2. batchStats'[q] = batchStats[q]
        BY <1>2, <2>2, MeshTypes
    <3> QED
        BY <1>5, <2>2, <3>1, <3>2 DEF Tallies
  <2> QED
    BY <2>1, <2>2
<1>11. CountedBy(fate, now, Told, {"write"}) = {}
    BY <1>1, <1>2, <1>7 DEF Explains
<1>12. Explains(now)'
    BY <1>2, <1>8, <1>10, <1>11 DEF Explains
<1> QED
    BY <1>3, <1>12 DEF FilesAreCounted

LEMMA CountsKept == MeshInv /\ [TaggerNext]_taggerVars => FilesAreCounted'
<1> SUFFICES ASSUME MeshInv, [TaggerNext]_taggerVars PROVE FilesAreCounted'
    OBVIOUS
<1>1. CASE UNCHANGED <<stats, batchStats, tagWrites, fate>>
  <2>1. PICK by \in [Files -> Peers \cup {Told}] : Explains(by)
    BY DEF MeshInv, FilesAreCounted
  <2>2. Explains(by)'
    BY <1>1, <2>1 DEF Explains
  <2> QED
    BY <2>2 DEF FilesAreCounted
<1> QED
    BY <1>1, CountsMove, CountsSkip, CountsSave, CountsReport
       DEF TaggerNext, PeerStep, taggerVars, Pop, StopTaking, PanicInBatch, CancelMesh, FinishMesh

(***************************************************************************)
(* What workers, files and the job's end have to do with one another.      *)
(***************************************************************************)
LEMMA ProgressKept == MeshInv /\ [TaggerNext]_taggerVars => PeersProgress'
<1> SUFFICES ASSUME MeshInv, [TaggerNext]_taggerVars, NEW q \in Peers
             PROVE  (/\ peerWorker[q] \in {"taking", "reporting", "ended"} => tagWrites[q] = {}
                     /\ peerWorker[q] \in {"taking", "ended"} => batchStats[q] = NoStats
                     /\ peerWorker[q] \in {"reporting", "ended"} => batch[q] = {}
                     /\ peerWorker[q] \in {"tagging", "panicked"} => batchStats[q].tagged = 0
                     /\ peerWorker[q] = "ended" => meshCancelled \/ Queued = {})'
    BY DEF PeersProgress
<1> DEFINE Progress ==
             /\ peerWorker[q] \in {"taking", "reporting", "ended"} => tagWrites[q] = {}
             /\ peerWorker[q] \in {"taking", "ended"} => batchStats[q] = NoStats
             /\ peerWorker[q] \in {"reporting", "ended"} => batch[q] = {}
             /\ peerWorker[q] \in {"tagging", "panicked"} => batchStats[q].tagged = 0
             /\ peerWorker[q] = "ended" => meshCancelled \/ Queued = {}
<1>0. Progress
    BY DEF MeshInv, PeersProgress
<1>1. (meshCancelled => meshCancelled') /\ (Queued = {} => Queued' = {})
  <2>1. handedOut \in Nat /\ handedOut' \in {handedOut, handedOut + 1}
    BY TaggerAssumption DEF MeshInv, TaggerTypeOK, TaggerNext, PeerStep, taggerVars, Pop, StopTaking, TagFile,
       SkipRest, Save, Report, PanicInBatch, CancelMesh, FinishMesh
  <2>2. Queued' \subseteq Queued
    BY <2>1, TaggerAssumption DEF Queued, Files
  <2>3. meshCancelled => meshCancelled'
    BY DEF TaggerNext, PeerStep, taggerVars, Pop, StopTaking, TagFile,
       SkipRest, Save, Report, PanicInBatch, CancelMesh, FinishMesh
  <2> QED
    BY <2>2, <2>3
<1>2. CASE UNCHANGED <<peerWorker[q], tagWrites[q], batchStats[q], batch[q]>>
    BY <1>0, <1>1, <1>2
<1>3. ASSUME NEW p \in Peers, p # q, PeerStep(p) \/ PanicInBatch(p) PROVE Progress'
  <2>1. UNCHANGED <<peerWorker[q], tagWrites[q], batchStats[q], batch[q]>>
    <3>1. CASE Pop(p)
        BY <1>3, <3>1, MeshTypes DEF Pop
    <3>2. CASE StopTaking(p) \/ PanicInBatch(p)
        BY <1>3, <3>2, MeshTypes DEF StopTaking, PanicInBatch
    <3>3. CASE TagFile(p)
        BY <1>3, <3>3, MeshTypes DEF TagFile
    <3>4. CASE SkipRest(p)
        BY <1>3, <3>4, MeshTypes DEF SkipRest
    <3>5. CASE Save(p)
        BY <1>3, <3>5, MeshTypes DEF Save
    <3>6. CASE Report(p)
        BY <1>3, <3>6, MeshTypes DEF Report
    <3> QED
        BY <1>3, <3>1, <3>2, <3>3, <3>4, <3>5, <3>6 DEF PeerStep
  <2> QED
    BY <1>2, <2>1
<1>4. CASE Pop(q)
    BY <1>0, <1>4, MeshTypes DEF Pop
<1>5. CASE StopTaking(q)
  <2>1. /\ peerWorker[q] = "taking" /\ UNCHANGED <<batch, tagWrites, batchStats>>
        /\ peerWorker'[q] = IF batch[q] = {} THEN "ended" ELSE "tagging"
        /\ meshCancelled \/ Queued = {} \/ Cardinality(batch[q]) = BatchSize
    BY <1>5, MeshTypes DEF StopTaking
  <2>2. batch[q] = {} => meshCancelled \/ Queued = {}
    <3>1. Cardinality({}) = 0 /\ BatchSize # 0
        BY FS_EmptySet, TaggerAssumption
    <3> QED
        BY <2>1, <3>1
  <2>3. NoStats.tagged = 0
    BY DEF NoStats
  <2> QED
    BY <1>0, <1>1, <2>1, <2>2, <2>3
<1>6. CASE TagFile(q)
  <2>1. peerWorker'[q] = "tagging" /\ batchStats[q].tagged = 0
    BY <1>0, <1>6 DEF TagFile
  <2>2. batchStats'[q].tagged = batchStats[q].tagged
    <3>1. PICK outcome \in {"write", "empty", "error"} :
             batchStats' = [batchStats EXCEPT ![q] =
                   CASE outcome = "empty" -> Counted(@, "empty", 1)
                     [] outcome = "error" -> Counted(@, "errors", 1)
                     [] OTHER -> @]
        BY <1>6 DEF TagFile
    <3>2. batchStats[q] \in [tagged : Nat, empty : Nat, errors : Nat, done : Nat]
        BY MeshTypes
    <3>3. /\ Counted(batchStats[q], "empty", 1).tagged = batchStats[q].tagged + 0
          /\ Counted(batchStats[q], "errors", 1).tagged = batchStats[q].tagged + 0
        BY <3>2, CountedType
    <3>4. batchStats[q].tagged + 0 = batchStats[q].tagged
        BY <3>2
    <3> QED
        BY <3>1, <3>3, <3>4, MeshTypes
  <2> QED
    BY <2>1, <2>2
<1>7. CASE SkipRest(q)
    BY <1>0, <1>7, MeshTypes DEF SkipRest
<1>8. CASE Save(q)
    BY <1>0, <1>8, MeshTypes DEF Save
<1>9. CASE Report(q)
    BY <1>0, <1>9, MeshTypes DEF Report
<1>10. CASE PanicInBatch(q)
    BY <1>0, <1>10, MeshTypes DEF PanicInBatch
<1> QED
    BY <1>2, <1>3, <1>4, <1>5, <1>6, <1>7, <1>8, <1>9, <1>10
       DEF TaggerNext, PeerStep, taggerVars, CancelMesh, FinishMesh

LEMMA LeftKept == MeshInv /\ [TaggerNext]_taggerVars => FilesAreLeft'
<1> SUFFICES ASSUME MeshInv, [TaggerNext]_taggerVars, NEW f \in Files
             PROVE  (/\ fate[f] = "pending" => f \in Queued \/ \E p \in Peers : f \in batch[p]
                     /\ fate[f] = "skipped" => meshCancelled)'
    BY DEF FilesAreLeft, Files
<1>0. /\ fate[f] = "pending" => f \in Queued \/ \E p \in Peers : f \in batch[p]
      /\ fate[f] = "skipped" => meshCancelled
    BY DEF MeshInv, FilesAreLeft
<1>1. CASE UNCHANGED <<fate, handedOut, batch, meshCancelled>>
    BY <1>0, <1>1 DEF Queued
<1>2. ASSUME NEW p \in Peers, Pop(p)
      PROVE  (/\ fate[f] = "pending" => f \in Queued \/ \E q \in Peers : f \in batch[q]
              /\ fate[f] = "skipped" => meshCancelled)'
  <2>1. /\ batch' = [batch EXCEPT ![p] = @ \cup {handedOut + 1}] /\ handedOut' = handedOut + 1
        /\ handedOut \in Nat /\ UNCHANGED <<fate, meshCancelled>>
    BY <1>2, TaggerAssumption DEF Pop, MeshInv, TaggerTypeOK
  <2>2. f \in Queued => f \in Queued' \/ f \in batch'[p]
    BY <2>1, MeshTypes, TaggerAssumption DEF Queued, Files
  <2>3. \A q \in Peers : f \in batch[q] => f \in batch'[q]
    BY <2>1, MeshTypes
  <2> QED
    BY <1>0, <2>1, <2>2, <2>3
<1>3. ASSUME NEW p \in Peers, TagFile(p)
      PROVE  (/\ fate[f] = "pending" => f \in Queued \/ \E q \in Peers : f \in batch[q]
              /\ fate[f] = "skipped" => meshCancelled)'
  <2>1. PICK g \in batch[p], outcome \in {"write", "empty", "error"} :
           batch' = [batch EXCEPT ![p] = @ \ {g}] /\ fate' = [fate EXCEPT ![g] = outcome]
    BY <1>3 DEF TagFile
  <2>2. UNCHANGED <<handedOut, meshCancelled>>
    BY <1>3 DEF TagFile
  <2>3. f = g => fate'[f] = outcome
    BY <2>1, MeshTypes
  <2>4. f # g => fate'[f] = fate[f] /\ \A q \in Peers : f \in batch[q] => f \in batch'[q]
    BY <2>1, MeshTypes
  <2> QED
    BY <1>0, <2>2, <2>3, <2>4 DEF Queued
<1>4. ASSUME NEW p \in Peers, SkipRest(p)
      PROVE  (/\ fate[f] = "pending" => f \in Queued \/ \E q \in Peers : f \in batch[q]
              /\ fate[f] = "skipped" => meshCancelled)'
  <2>1. /\ batch' = [batch EXCEPT ![p] = {}] /\ UNCHANGED <<handedOut, meshCancelled>> /\ meshCancelled
        /\ fate'[f] = IF f \in batch[p] THEN "skipped" ELSE fate[f]
    BY <1>4 DEF SkipRest
  <2>2. f \notin batch[p] => \A q \in Peers : f \in batch[q] => f \in batch'[q]
    BY <2>1, MeshTypes
  <2> QED
    BY <1>0, <2>1, <2>2 DEF Queued
<1>5. ASSUME NEW p \in Peers, Save(p)
      PROVE  (/\ fate[f] = "pending" => f \in Queued \/ \E q \in Peers : f \in batch[q]
              /\ fate[f] = "skipped" => meshCancelled)'
  <2>1. UNCHANGED <<batch, handedOut, meshCancelled>> /\ fate'[f] \in {fate[f], "saved", "unsaved"}
    BY <1>5 DEF Save
  <2> QED
    BY <1>0, <2>1 DEF Queued
<1>6. CASE CancelMesh
    BY <1>0, <1>6 DEF CancelMesh, Queued
<1> QED
    BY <1>1, <1>2, <1>3, <1>4, <1>5, <1>6 DEF TaggerNext, PeerStep, taggerVars, StopTaking, Report,
       PanicInBatch, FinishMesh

LEMMA OverKept == MeshInv /\ [TaggerNext]_taggerVars => MeshIsOver'
<1> SUFFICES ASSUME MeshInv, [TaggerNext]_taggerVars PROVE MeshIsOver'
    OBVIOUS
<1>0. MeshIsOver
    BY DEF MeshInv
<1>1. CASE UNCHANGED <<peerWorker, meshCancelled, meshOutcome>>
    BY <1>0, <1>1 DEF MeshIsOver
<1>2. ASSUME NEW p \in Peers, StopTaking(p) \/ Save(p) \/ Report(p) \/ PanicInBatch(p) PROVE MeshIsOver'
  <2>1. UNCHANGED <<meshCancelled, meshOutcome>> /\ peerWorker[p] \notin {"ended", "panicked"}
    BY <1>2 DEF StopTaking, Save, Report, PanicInBatch
  <2> QED
    BY <1>0, <2>1 DEF MeshIsOver
<1>3. CASE CancelMesh \/ FinishMesh
    BY <1>0, <1>3 DEF MeshIsOver, CancelMesh, FinishMesh
<1> QED
    BY <1>1, <1>2, <1>3 DEF TaggerNext, PeerStep, taggerVars, Pop, TagFile, SkipRest

LEMMA InitMeshInv == TaggerInit => MeshInv
<1> SUFFICES ASSUME TaggerInit PROVE MeshInv
    OBVIOUS
<1>1. TInv
    BY InitTInv
<1>2. StatsTyped /\ StatsSumUp
    BY NoStatsType DEF TaggerInit, StatsTyped, StatsSumUp
<1>3. PhasesTyped
    BY DEF TaggerInit, PhasesTyped
<1>4. TaggerTypeOK
    BY <1>1, <1>2, <1>3, TaggerTypeParts DEF TInv
<1>5. PeersProgress /\ MeshIsOver
    BY DEF TaggerInit, PeersProgress, MeshIsOver, NoStats
<1>6. FilesAreLeft
    BY TaggerAssumption DEF TaggerInit, FilesAreLeft, Queued, Files
<1>7. FilesAreCounted
  <2> DEFINE by == [f \in Files |-> Told]
  <2>1. by \in [Files -> Peers \cup {Told}]
    OBVIOUS
  <2>2. \A who, fates : "pending" \notin fates => CountedBy(fate, by, who, fates) = {}
    BY DEF TaggerInit, CountedBy
  <2> HIDE DEF by
  <2>3. \A who : /\ CountedBy(fate, by, who, {"saved"}) = {} /\ CountedBy(fate, by, who, {"empty"}) = {}
                 /\ CountedBy(fate, by, who, {"error", "unsaved"}) = {}
                 /\ CountedBy(fate, by, who, {"write"}) = {}
    BY <2>2
  <2>4. \A who : Tallies(fate, by, who, NoStats)
    BY <2>3, FS_EmptySet DEF Tallies, NoStats
  <2>5. Explains(by)
    BY <2>3, <2>4 DEF Explains, TaggerInit
  <2> QED
    BY <2>1, <2>5 DEF FilesAreCounted
<1> QED
    BY <1>1, <1>2, <1>4, <1>5, <1>6, <1>7 DEF MeshInv

LEMMA MeshInvKept == MeshInv /\ [TaggerNext]_taggerVars => MeshInv'
<1> SUFFICES ASSUME MeshInv, [TaggerNext]_taggerVars PROVE MeshInv'
    OBVIOUS
<1>1. TInv'
    BY StepTInv DEF MeshInv
<1>2. StatsTyped' /\ StatsSumUp' /\ PhasesTyped'
    BY StatsKept, PhasesKept
<1>3. (Ranges /\ StatsTyped /\ PhasesTyped)' => TaggerTypeOK'
    BY TaggerTypeParts, PTL
<1>4. TaggerTypeOK'
    BY <1>1, <1>2, <1>3 DEF TInv
<1> QED
    BY <1>1, <1>2, <1>4, CountsKept, ProgressKept, LeftKept, OverKept DEF MeshInv

THEOREM TaggerTypes == TaggerSpec => []TaggerTypeOK
<1>1. MeshInv => TaggerTypeOK
    BY DEF MeshInv
<1> QED
    BY <1>1, InitMeshInv, MeshInvKept, PTL DEF TaggerSpec

(***************************************************************************)
(* The job's result counts as tagged what is in the database, and nothing  *)
(* else, however its workers ended.                                        *)
(***************************************************************************)
THEOREM ResultStaysExact == TaggerSpec => []ResultIsExact
<1>1. MeshInv => ResultIsExact
  <2> SUFFICES ASSUME MeshInv, meshOutcome # "running"
               PROVE  /\ stats.tagged = Cardinality(WithFate({"saved"}))
                      /\ stats.done = stats.tagged + stats.empty + stats.errors
                      /\ (\A p \in Peers : peerWorker[p] = "ended") =>
                            /\ stats.empty = Cardinality(WithFate({"empty"}))
                            /\ stats.errors = Cardinality(WithFate({"error", "unsaved"}))
                            /\ meshOutcome = "done" => stats.done = FileCount
    BY DEF ResultIsExact
  <2>1. PICK by \in [Files -> Peers \cup {Told}] : Explains(by)
    BY DEF MeshInv, FilesAreCounted
  <2>2. \A p \in Peers : peerWorker[p] \in {"ended", "panicked"}
    BY DEF MeshInv, MeshIsOver
  <2>3. ASSUME NEW S \in SUBSET Files, Cardinality(S) = 0 PROVE S = {}
    BY <2>3, FilesAreFinite, FS_EmptySet
  <2>4. ASSUME NEW p \in Peers PROVE CountedBy(fate, by, p, {"saved"}) = {}
    <3>1. batchStats[p].tagged = 0
        BY <2>2 DEF MeshInv, PeersProgress, NoStats
    <3>2. Cardinality(CountedBy(fate, by, p, {"saved"})) = 0
        BY <2>1, <3>1 DEF Explains, Tallies
    <3> QED
        BY <2>3, <3>2 DEF CountedBy
  <2>5. CountedBy(fate, by, Told, {"saved"}) = WithFate({"saved"})
    BY <2>1, <2>4 DEF CountedBy, WithFate
  <2>6. stats.tagged = Cardinality(WithFate({"saved"})) /\ Tallies(fate, by, Told, stats)
    BY <2>1, <2>5 DEF Explains, Tallies
  <2>7. stats.done = stats.tagged + stats.empty + stats.errors
    BY DEF MeshInv, StatsSumUp, SumsUp
  <2>8. ASSUME \A p \in Peers : peerWorker[p] = "ended"
        PROVE  /\ stats.empty = Cardinality(WithFate({"empty"}))
               /\ stats.errors = Cardinality(WithFate({"error", "unsaved"}))
               /\ meshOutcome = "done" => stats.done = FileCount
    <3>1. \A p \in Peers : batchStats[p] = NoStats /\ tagWrites[p] = {} /\ batch[p] = {}
        BY <2>8 DEF MeshInv, PeersProgress
    <3>2. \A p \in Peers : Cardinality(CountedBy(fate, by, p, {"empty"})) = 0
                          /\ Cardinality(CountedBy(fate, by, p, {"error", "unsaved"})) = 0
        BY <2>1, <3>1 DEF Explains, Tallies, NoStats
    <3>3. \A p \in Peers : CountedBy(fate, by, p, {"empty"}) = {}
                          /\ CountedBy(fate, by, p, {"error", "unsaved"}) = {}
        BY <2>3, <3>2 DEF CountedBy
    <3>4. CountedBy(fate, by, Told, {"empty"}) = WithFate({"empty"})
        BY <2>1, <3>3 DEF CountedBy, WithFate
    <3>5. CountedBy(fate, by, Told, {"error", "unsaved"}) = WithFate({"error", "unsaved"})
        BY <2>1, <3>3 DEF CountedBy, WithFate
    <3>6. /\ stats.empty = Cardinality(WithFate({"empty"}))
          /\ stats.errors = Cardinality(WithFate({"error", "unsaved"}))
        BY <2>6, <3>4, <3>5 DEF Tallies
    <3>7. ASSUME meshOutcome = "done" PROVE stats.done = FileCount
        <4>1. PICK p \in Peers : TRUE
            BY TaggerAssumption
        <4>2. ~meshCancelled /\ Queued = {}
            BY <2>8, <3>7, <4>1 DEF MeshInv, MeshIsOver, PeersProgress
        <4>3. ASSUME NEW f \in Files PROVE fate[f] \in {"saved", "empty", "error", "unsaved"}
            <5>1. fate[f] \notin {"pending", "skipped"}
                BY <3>1, <4>2 DEF MeshInv, FilesAreLeft
            <5>2. fate[f] # "write"
                BY <2>1, <3>1 DEF Explains, CountedBy
            <5> QED
                BY <5>1, <5>2, MeshTypes DEF Fates
        <4> DEFINE A == WithFate({"saved"})
                   B == WithFate({"empty"})
                   C == WithFate({"error", "unsaved"})
        <4>4. /\ A \in SUBSET Files /\ B \in SUBSET Files /\ C \in SUBSET Files /\ A \cup B \in SUBSET Files
              /\ A \cap B = {} /\ (A \cup B) \cap C = {} /\ (A \cup B) \cup C = Files
            BY <4>3 DEF WithFate
        <4> HIDE DEF A, B, C
        <4>5. Cardinality(Files) = Cardinality(A) + Cardinality(B) + Cardinality(C)
            BY <4>4, DisjointCounts
        <4> QED
            BY <2>6, <2>7, <3>6, <4>5, FilesAreFinite DEF A, B, C
    <3> QED
        BY <3>6, <3>7
  <2> QED
    BY <2>6, <2>7, <2>8
<1> QED
    BY <1>1, InitMeshInv, MeshInvKept, PTL DEF TaggerSpec


-----------------------------------------------------------------------------
(***************************************************************************)
(* The event hub.  A receiver is never ahead of the events sent, so a new  *)
(* event lies in nobody's past; what a client was given is what it wanted  *)
(* between its subscription and its position.                              *)
(***************************************************************************)
HubTyped ==
    /\ connections \in [Addresses -> Nat]
    /\ client \in [Clients -> {"new", "counted", "streaming", "refused", "closed"}]
    /\ address \in [Clients -> Addresses]
    /\ hubEvents \in Seq(EventTypes)
    /\ from \in [Clients -> Nat] /\ next \in [Clients -> Nat]
    /\ delivered \in [Clients -> Seq(Nat)]

Wanted(c) == {n \in from[c] + 1 .. next[c] : hubEvents[n] \in wanted[c]}
Given(c) == {delivered[c][i] : i \in DOMAIN delivered[c]}

GivenInOrder ==
    \A c \in Clients :
        /\ from[c] <= next[c] /\ next[c] <= Len(hubEvents)
        /\ client[c] \in {"new", "counted"} => delivered[c] = <<>>
        /\ Given(c) = Wanted(c)
        /\ \A i, k \in DOMAIN delivered[c] : i < k => delivered[c][i] < delivered[c][k]

Charged(a) == {c \in Clients : address[c] = a /\ client[c] \in {"counted", "streaming"}}

HubInv == HubTyped /\ GivenInOrder /\ ConnectionsAreExact

LEMMA HubInitInv == HubInit => HubInv
<1> SUFFICES ASSUME HubInit PROVE HubInv
    OBVIOUS
<1>1. HubTyped
    BY DEF HubInit, HubTyped
<1>2. GivenInOrder
    BY DEF HubInit, GivenInOrder, Given, Wanted
<1>3. ASSUME NEW a \in Addresses PROVE connections[a] = Cardinality(Charged(a))
    <2>1. Charged(a) = {}
        BY DEF HubInit, Charged
    <2> QED
        BY <2>1, FS_EmptySet DEF HubInit
<1> QED
    BY <1>1, <1>2, <1>3 DEF HubInv, ConnectionsAreExact, Charged

\* A client that is counted, or ceases to be, changes the count of its address by one.
LEMMA HubCounts ==
    ASSUME HubInv, [HubNext]_hubVars
    PROVE  connections' \in [Addresses -> Nat] /\ ConnectionsAreExact'
<1> USE DEF HubInv, HubTyped
<1>0. \A a \in Addresses : connections[a] = Cardinality(Charged(a)) /\ IsFiniteSet(Charged(a))
    BY HubAssumption, FS_Subset DEF ConnectionsAreExact, Charged
<1>1. ASSUME UNCHANGED <<connections, address>>,
             \A a \in Addresses : Charged(a)' = Charged(a)
      PROVE  connections' \in [Addresses -> Nat] /\ ConnectionsAreExact'
    BY <1>0, <1>1 DEF ConnectionsAreExact, Charged
<1>2. ASSUME NEW c \in Clients, Register(c)
      PROVE  connections' \in [Addresses -> Nat] /\ ConnectionsAreExact'
    <2>0. PICK ip \in Addresses : ip = address[c]
        OBVIOUS
    <2>1. /\ Charged(ip)' = Charged(ip) \cup {c} /\ c \notin Charged(ip)
          /\ \A a \in Addresses \ {ip} : Charged(a)' = Charged(a)
        BY <1>2, <2>0 DEF Register, Charged
    <2>2. Cardinality(Charged(ip)') = Cardinality(Charged(ip)) + 1
        <3>1. IsFiniteSet(Charged(ip))
            BY <1>0
        <3>2. Cardinality(Charged(ip) \cup {c}) = Cardinality(Charged(ip)) + 1
            BY <2>1, <3>1, FS_AddElement
        <3> QED
            BY <2>1, <3>2
    <2>3. /\ connections'[ip] = connections[ip] + 1
          /\ \A a \in Addresses \ {ip} : connections'[a] = connections[a]
          /\ connections' \in [Addresses -> Nat]
        BY <1>2, <2>0 DEF Register
    <2>4. ASSUME NEW a \in Addresses PROVE connections'[a] = Cardinality(Charged(a)')
        <3>1. CASE a = ip
            BY <1>0, <2>0, <2>2, <2>3, <3>1
        <3>2. CASE a # ip
            BY <1>0, <2>1, <2>3, <3>2
        <3> QED
            BY <3>1, <3>2
    <2> QED
        BY <2>3, <2>4 DEF ConnectionsAreExact, Charged
<1>3. ASSUME NEW c \in Clients, Close(c)
      PROVE  connections' \in [Addresses -> Nat] /\ ConnectionsAreExact'
    <2>0. PICK ip \in Addresses : ip = address[c]
        OBVIOUS
    <2>1. /\ Charged(ip)' = Charged(ip) \ {c} /\ c \in Charged(ip)
          /\ \A a \in Addresses \ {ip} : Charged(a)' = Charged(a)
        BY <1>3, <2>0 DEF Close, Charged
    <2>2. Cardinality(Charged(ip)') = Cardinality(Charged(ip)) - 1
        BY <1>0, <2>0, <2>1, FS_RemoveElement
    <2>3. connections[ip] > 0
        <3>1. Cardinality(Charged(ip)) # 0
            BY <1>0, <2>0, <2>1, FS_EmptySet
        <3> QED
            BY <1>0, <2>0, <3>1
    <2>4. /\ connections'[ip] = connections[ip] - 1
          /\ \A a \in Addresses \ {ip} : connections'[a] = connections[a]
          /\ connections' \in [Addresses -> Nat]
        BY <1>3, <2>0, <2>3 DEF Close
    <2>5. ASSUME NEW a \in Addresses PROVE connections'[a] = Cardinality(Charged(a)')
        <3>1. CASE a = ip
            BY <1>0, <2>0, <2>2, <2>4, <3>1
        <3>2. CASE a # ip
            BY <1>0, <2>1, <2>4, <3>2
        <3> QED
            BY <3>1, <3>2
    <2> QED
        BY <2>4, <2>5 DEF ConnectionsAreExact, Charged
<1>4. ASSUME NEW c \in Clients, RefuseClient(c) \/ Subscribe(c) \/ ReceiveEvent(c)
      PROVE  connections' \in [Addresses -> Nat] /\ ConnectionsAreExact'
    BY <1>1, <1>4 DEF RefuseClient, Subscribe, ReceiveEvent, Charged
<1>5. CASE SendHubEvent \/ UNCHANGED hubVars
    BY <1>1, <1>5 DEF SendHubEvent, hubVars, Charged
<1> QED
    BY <1>2, <1>3, <1>4, <1>5 DEF HubNext, Lag, Disconnect

\* recv gives a streaming client the event at its position, or the filter drops it.
LEMMA ReceiveKeepsOrder ==
    ASSUME HubInv, NEW c \in Clients, ReceiveEvent(c)
    PROVE  GivenInOrder' /\ next' \in [Clients -> Nat] /\ delivered' \in [Clients -> Seq(Nat)]
<1> USE DEF HubInv, HubTyped
<1>1. /\ next'[c] = next[c] + 1 /\ next[c] < Len(hubEvents) /\ next' \in [Clients -> Nat]
      /\ \A d \in Clients \ {c} : next'[d] = next[d] /\ delivered'[d] = delivered[d]
      /\ delivered' \in [Clients -> Seq(Nat)]
      /\ UNCHANGED <<hubEvents, client, wanted, from>>
    BY DEF ReceiveEvent, Behind
<1>2. ASSUME NEW d \in Clients \ {c}
      PROVE  /\ Wanted(d)' = Wanted(d) /\ Given(d)' = Given(d)
             /\ delivered'[d] = delivered[d]
    BY <1>1 DEF Wanted, Given
<1>3. \A n \in Given(c) : n \in Nat /\ n <= next[c]
    BY DEF GivenInOrder, Wanted
<1>4. CASE hubEvents[next[c] + 1] \in wanted[c]
    <2>1. delivered'[c] = Append(delivered[c], next[c] + 1)
        BY <1>4 DEF ReceiveEvent
    <2>2. /\ DOMAIN delivered[c] = 1 .. Len(delivered[c])
          /\ DOMAIN delivered'[c] = 1 .. Len(delivered[c]) + 1
          /\ delivered'[c][Len(delivered[c]) + 1] = next[c] + 1
          /\ \A i \in DOMAIN delivered[c] : delivered'[c][i] = delivered[c][i]
          /\ Len(delivered[c]) \in Nat
        BY <2>1
    <2>3. Given(c)' = Given(c) \cup {next[c] + 1}
        <3> SUFFICES ASSUME NEW n
                     PROVE  n \in Given(c)' <=> n \in Given(c) \/ n = next[c] + 1
            OBVIOUS
        <3>1. n \in Given(c)' <=>
                \E i \in 1 .. Len(delivered[c]) + 1 : n = delivered'[c][i]
            BY <2>2 DEF Given
        <3>2. n \in Given(c) <=> \E i \in 1 .. Len(delivered[c]) : n = delivered'[c][i]
            BY <2>2 DEF Given
        <3>3. \A i : i \in 1 .. Len(delivered[c]) + 1 <=>
                        i \in 1 .. Len(delivered[c]) \/ i = Len(delivered[c]) + 1
            BY <2>2
        <3>4. delivered'[c][Len(delivered[c]) + 1] = next[c] + 1
            BY <2>2
        <3> HIDE DEF HubInv, HubTyped
        <3> QED
            BY <3>1, <3>2, <3>3, <3>4
    <2>4. Wanted(c)' = Wanted(c) \cup {next[c] + 1}
        BY <1>1, <1>4 DEF Wanted, GivenInOrder
    <2>5. \A i, k \in DOMAIN delivered'[c] : i < k => delivered'[c][i] < delivered'[c][k]
        <3> SUFFICES ASSUME NEW i \in DOMAIN delivered'[c], NEW k \in DOMAIN delivered'[c], i < k
                     PROVE  delivered'[c][i] < delivered'[c][k]
            OBVIOUS
        <3>1. i \in DOMAIN delivered[c] /\ delivered'[c][i] = delivered[c][i]
            BY <2>2
        <3>2. CASE k \in DOMAIN delivered[c]
            BY <2>2, <3>1, <3>2 DEF GivenInOrder
        <3>3. CASE k = Len(delivered[c]) + 1
            <4>1. delivered[c][i] \in Nat /\ delivered[c][i] <= next[c]
                BY <1>3, <3>1 DEF Given
            <4> QED
                BY <2>2, <3>1, <3>3, <4>1
        <3> QED
            BY <2>2, <3>2, <3>3
    <2>6. client[c] = "streaming"
        BY DEF ReceiveEvent
    <2>7. ASSUME NEW d \in Clients
          PROVE  /\ from'[d] <= next'[d] /\ next'[d] <= Len(hubEvents')
                 /\ client'[d] \in {"new", "counted"} => delivered'[d] = <<>>
                 /\ Given(d)' = Wanted(d)'
                 /\ \A i, k \in DOMAIN delivered'[d] : i < k => delivered'[d][i] < delivered'[d][k]
        <3>1. CASE d = c
            <4>1. from'[c] <= next'[c] /\ next'[c] <= Len(hubEvents')
                BY <1>1 DEF GivenInOrder
            <4>2. Given(c)' = Wanted(c)'
                BY <2>3, <2>4 DEF GivenInOrder
            <4>3. client'[c] \in {"new", "counted"} => delivered'[c] = <<>>
                BY <1>1, <2>6
            <4>4. \A i, k \in DOMAIN delivered'[c] : i < k => delivered'[c][i] < delivered'[c][k]
                BY <2>5
            <4> QED
                BY <3>1, <4>1, <4>2, <4>3, <4>4
        <3>2. CASE d # c
            <4>1. /\ from[d] <= next[d] /\ next[d] <= Len(hubEvents)
                  /\ client[d] \in {"new", "counted"} => delivered[d] = <<>>
                  /\ Given(d) = Wanted(d)
                  /\ \A i, k \in DOMAIN delivered[d] : i < k => delivered[d][i] < delivered[d][k]
                BY <3>2 DEF GivenInOrder
            <4>2. /\ from'[d] = from[d] /\ next'[d] = next[d] /\ client'[d] = client[d]
                  /\ hubEvents' = hubEvents /\ delivered'[d] = delivered[d]
                BY <1>1, <3>2
            <4>3. Given(d)' = Given(d) /\ Wanted(d)' = Wanted(d)
                BY <1>2, <3>2
            <4> QED
                BY <4>1, <4>2, <4>3
        <3> QED
            BY <3>1, <3>2
    <2> QED
        BY <2>7, <1>1 DEF GivenInOrder
<1>5. CASE hubEvents[next[c] + 1] \notin wanted[c]
    <2>1. delivered'[c] = delivered[c] /\ Given(c)' = Given(c)
        BY <1>5 DEF ReceiveEvent, Given
    <2>2. Wanted(c)' = Wanted(c)
        BY <1>1, <1>5 DEF Wanted
    <2>3. client[c] = "streaming"
        BY DEF ReceiveEvent
    <2> QED
        BY <1>1, <1>2, <2>1, <2>2, <2>3 DEF GivenInOrder
<1> QED
    BY <1>1, <1>4, <1>5

LEMMA HubKeepsInv == HubInv /\ [HubNext]_hubVars => HubInv'
<1> SUFFICES ASSUME HubInv, [HubNext]_hubVars PROVE HubInv'
    OBVIOUS
<1>0. HubTyped /\ GivenInOrder
    BY DEF HubInv
<1>1. ConnectionsAreExact' /\ connections' \in [Addresses -> Nat]
    BY HubCounts
<1>2. ASSUME UNCHANGED <<hubEvents, from, next, delivered, wanted>>,
             UNCHANGED address, client' \in [Clients -> {"new", "counted", "streaming", "refused", "closed"}],
             \A c \in Clients : client'[c] \in {"new", "counted"} => client[c] \in {"new", "counted"}
      PROVE  HubTyped' /\ GivenInOrder'
    BY <1>0, <1>1, <1>2 DEF HubTyped, GivenInOrder, Given, Wanted
<1>3. ASSUME SendHubEvent PROVE HubTyped' /\ GivenInOrder'
    <2>1. PICK e \in EventTypes : hubEvents' = Append(hubEvents, e)
        BY <1>3 DEF SendHubEvent
    <2>2. /\ hubEvents' \in Seq(EventTypes) /\ Len(hubEvents') = Len(hubEvents) + 1
          /\ \A n \in 1 .. Len(hubEvents) : hubEvents'[n] = hubEvents[n]
        BY <1>0, <2>1 DEF HubTyped
    <2>3. UNCHANGED <<connections, client, address, wanted, from, next, delivered>>
        BY <1>3 DEF SendHubEvent
    <2>4. ASSUME NEW c \in Clients PROVE Wanted(c)' = Wanted(c)
        <3>1. \A n \in from[c] + 1 .. next[c] : n \in 1 .. Len(hubEvents)
            BY <1>0 DEF HubTyped, GivenInOrder
        <3> QED
            BY <2>2, <2>3, <3>1 DEF Wanted
    <2>5. HubTyped'
        BY <1>0, <2>2, <2>3 DEF HubTyped
    <2>6. GivenInOrder'
        BY <1>0, <2>2, <2>3, <2>4 DEF GivenInOrder, Given, HubTyped
    <2> QED
        BY <2>5, <2>6
<1>4. ASSUME NEW c \in Clients, Subscribe(c) PROVE HubTyped' /\ GivenInOrder'
    <2>1. /\ from'[c] = Len(hubEvents) /\ next'[c] = Len(hubEvents)
          /\ \A d \in Clients \ {c} : from'[d] = from[d] /\ next'[d] = next[d] /\ client'[d] = client[d]
          /\ client[c] = "counted" /\ client'[c] = "streaming"
          /\ UNCHANGED <<hubEvents, connections, address, wanted, delivered>>
        BY <1>0, <1>4 DEF Subscribe, HubTyped
    <2>2. Len(hubEvents) \in Nat
        BY <1>0 DEF HubTyped
    <2>3. HubTyped'
        BY <1>0, <1>4, <2>2 DEF HubTyped, Subscribe
    <2>4. ASSUME NEW d \in Clients \ {c} PROVE Wanted(d)' = Wanted(d) /\ Given(d)' = Given(d)
        BY <2>1 DEF Wanted, Given
    <2>5. Wanted(c)' = {} /\ delivered[c] = <<>> /\ Given(c)' = {}
        BY <1>0, <2>1, <2>2 DEF Wanted, Given, GivenInOrder
    <2>7. ASSUME NEW d \in Clients
          PROVE  /\ from'[d] <= next'[d] /\ next'[d] <= Len(hubEvents')
                 /\ client'[d] \in {"new", "counted"} => delivered'[d] = <<>>
                 /\ Given(d)' = Wanted(d)'
                 /\ \A i, k \in DOMAIN delivered'[d] : i < k => delivered'[d][i] < delivered'[d][k]
        <3>1. CASE d = c
            <4>1. from'[c] <= next'[c] /\ next'[c] <= Len(hubEvents')
                BY <2>1, <2>2
            <4>2. Given(c)' = Wanted(c)'
                BY <2>5
            <4>3. client'[c] \in {"new", "counted"} => delivered'[c] = <<>>
                BY <2>1
            <4>4. \A i, k \in DOMAIN delivered'[c] : i < k => delivered'[c][i] < delivered'[c][k]
                BY <2>1, <2>5
            <4> QED
                BY <3>1, <4>1, <4>2, <4>3, <4>4
        <3>2. CASE d # c
            <4>1. /\ from[d] <= next[d] /\ next[d] <= Len(hubEvents)
                  /\ client[d] \in {"new", "counted"} => delivered[d] = <<>>
                  /\ Given(d) = Wanted(d)
                  /\ \A i, k \in DOMAIN delivered[d] : i < k => delivered[d][i] < delivered[d][k]
                BY <1>0 DEF GivenInOrder
            <4>2. /\ from'[d] = from[d] /\ next'[d] = next[d] /\ client'[d] = client[d]
                  /\ hubEvents' = hubEvents /\ delivered'[d] = delivered[d]
                BY <2>1, <3>2
            <4>3. Given(d)' = Given(d) /\ Wanted(d)' = Wanted(d)
                BY <2>4, <3>2
            <4> QED
                BY <4>1, <4>2, <4>3
        <3> QED
            BY <3>1, <3>2
    <2> QED
        BY <2>7, <2>3 DEF GivenInOrder
<1>5. ASSUME NEW c \in Clients, ReceiveEvent(c) PROVE HubTyped' /\ GivenInOrder'
    BY <1>0, <1>1, <1>5, ReceiveKeepsOrder DEF HubTyped, ReceiveEvent
<1>6. ASSUME NEW c \in Clients, Register(c) \/ RefuseClient(c) \/ Close(c)
      PROVE  HubTyped' /\ GivenInOrder'
    <2>1. /\ UNCHANGED <<hubEvents, from, next, delivered, wanted, address>>
          /\ client' \in [Clients -> {"new", "counted", "streaming", "refused", "closed"}]
        BY <1>0, <1>6 DEF HubTyped, Register, RefuseClient, Close
    <2>2. \A d \in Clients : client'[d] \in {"new", "counted"} => client[d] \in {"new", "counted"}
        BY <1>0, <1>6 DEF HubTyped, Register, RefuseClient, Close
    <2> QED
        BY <1>2, <2>1, <2>2
<1>7. ASSUME UNCHANGED hubVars PROVE HubTyped' /\ GivenInOrder'
    BY <1>0, <1>2, <1>7 DEF HubTyped, hubVars
<1> QED
    BY <1>1, <1>3, <1>4, <1>5, <1>6, <1>7 DEF HubNext, Lag, Disconnect, HubInv

\* For any clients, filters, ring and number of events: a client is given all it asked
\* for between its subscription and its position, in order; a client that lags is
\* closed (sse/stream.rs:110), never moved past what it missed.
THEOREM NobodySkips == HubSpec => []NoSilentGap
<1>1. HubInv => NoSilentGap
    BY DEF HubInv, GivenInOrder, NoSilentGap, Given, Wanted
<1> QED
    BY <1>1, HubInitInv, HubKeepsInv, PTL DEF HubSpec

\* For any clients and addresses: an address is charged for its open streams and no
\* others, and the subtraction never meets a zero (sse/mod.rs, unregister_connection).
THEOREM AddressesStayCharged == HubSpec => []ConnectionsAreExact
<1>1. HubInv => ConnectionsAreExact
    BY DEF HubInv
<1> QED
    BY <1>1, HubInitInv, HubKeepsInv, PTL DEF HubSpec

(***************************************************************************)
(* The CLIP index.                                                         *)
(***************************************************************************)
TaskPlaces == {"idle", "page", "save", "lock", "build", "end", "delete", "check", "load",
           "compare", "open", "activate", "search"}

AtTyped ==
    /\ at \in [Builders \cup {Clearer} -> TaskPlaces]
    /\ at[Worker] \in {"idle", "page", "save", "lock", "build", "end"}
    /\ at[Clearer] \in {"idle", "delete", "lock"}
    /\ \A s \in Searchers :
          at[s] \in {"idle", "check", "load", "compare", "open", "activate", "lock", "build", "search"}

ClipTyped ==
    /\ AtTyped /\ ClipTypeOK
    /\ At(Clearer, "delete") => clears < ClearBound

LEMMA CountsOfFiles ==
    ASSUME NEW S \in SUBSET ClipFiles
    PROVE  IsFiniteSet(S) /\ Cardinality(S) \in 0 .. ClipFileCount
<1>1. IsFiniteSet(ClipFiles) /\ Cardinality(ClipFiles) = ClipFileCount
    <2>1. ClipFileCount \in Nat /\ 1 \in Int /\ ClipFileCount \in Int
        BY ClipAssumption
    <2>2. /\ IsFiniteSet(1 .. ClipFileCount)
          /\ Cardinality(1 .. ClipFileCount) =
                IF 1 > ClipFileCount THEN 0 ELSE ClipFileCount - 1 + 1
        BY <2>1, FS_Interval
    <2> QED
        BY <2>1, <2>2 DEF ClipFiles
<1>2. IsFiniteSet(S) /\ Cardinality(S) <= ClipFileCount
    BY <1>1, FS_Subset
<1>3. Cardinality(S) \in Nat
    BY <1>2, FS_CardinalityType
<1> QED
    BY <1>2, <1>3, ClipAssumption

LEMMA SnapshotType == ClipTypeOK => Snapshot \in Snapshots
<1> SUFFICES ASSUME ClipTypeOK PROVE Snapshot \in Snapshots
    OBVIOUS
<1>1. Cardinality(vectors) \in 0 .. ClipFileCount /\ clears \in 0 .. ClearBound
    BY CountsOfFiles DEF ClipTypeOK
<1> QED
    BY <1>1, ClipAssumption DEF Snapshot, Snapshots

LEMMA StartTypes ==
    /\ NoMeta \in Meta /\ NothingPeeked \in [meta : Meta, files : SUBSET ClipFiles]
    /\ NoWork \in [cursor : 0 .. ClipFileCount, encoded : SUBSET ClipFiles]
    /\ NoBuild \in [step : {"read", "after", "index", "ids", "pointer", "publish"},
                    snap : Snapshots, files : SUBSET ClipFiles,
                    cursor : 0 .. ClipFileCount, generation : Generations]
<1>1. NoMeta \in Meta
    BY ClipAssumption DEF NoMeta, Meta, Snapshots, Generations
<1>2. NothingPeeked \in [meta : Meta, files : SUBSET ClipFiles]
    BY <1>1 DEF NothingPeeked
<1>3. NoWork \in [cursor : 0 .. ClipFileCount, encoded : SUBSET ClipFiles]
    BY ClipAssumption DEF NoWork
<1>4. NoMeta.snap \in Snapshots
    BY ClipAssumption DEF NoMeta, Snapshots
<1>5. 0 \in 0 .. ClipFileCount /\ 1 \in Generations
    BY ClipAssumption DEF Generations
<1>6. NoBuild \in [step : {"read", "after", "index", "ids", "pointer", "publish"},
                    snap : Snapshots, files : SUBSET ClipFiles,
                    cursor : 0 .. ClipFileCount, generation : Generations]
    BY <1>4, <1>5 DEF NoBuild
<1> QED
    BY <1>1, <1>2, <1>3, <1>6

LEMMA ClipInitTyped == ClipInit => ClipTyped
<1> SUFFICES ASSUME ClipInit PROVE ClipTyped
    OBVIOUS
<1>1. at \in [Builders \cup {Clearer} -> TaskPlaces] /\ \A t \in Builders \cup {Clearer} : at[t] = "idle"
    BY DEF ClipInit, TaskPlaces
<1>2. Cardinality({}) = 0
    BY FS_EmptySet
<1>3. AtTyped /\ ~At(Clearer, "delete")
    BY <1>1 DEF AtTyped, Builders, At
<1>4. indexFiles \in [Generations -> SUBSET SUBSET ClipFiles] /\ idsFiles \in [Generations -> SUBSET (0 .. ClipFileCount)]
    BY DEF ClipInit
<1>5. peeked \in [Searchers -> [meta : Meta, files : SUBSET ClipFiles]]
    BY StartTypes DEF ClipInit
<1>6. 0 \in 0 .. ClearBound /\ 0 \in 0 .. StartBound /\ 0 \in 0 .. ClipCrashBound
    BY ClipAssumption
<1>7. /\ vectors \subseteq ClipFiles /\ pointer \subseteq Meta /\ Cardinality(pointer) <= 1
      /\ active \subseteq [meta : Meta, files : SUBSET ClipFiles] /\ Cardinality(active) <= 1
    BY <1>2 DEF ClipInit
<1>8. {running, stopAsked} \subseteq BOOLEAN
    BY DEF ClipInit
<1>9. ClipTypeOK
    BY <1>3, <1>4, <1>5, <1>6, <1>7, <1>8, StartTypes DEF ClipInit, ClipTypeOK, AtTyped
<1> QED
    BY <1>3, <1>9 DEF ClipTyped

LEMMA OneElement == \A x : Cardinality({x}) = 1
    BY FS_Singleton

(***************************************************************************)
(* Where a task may go.                                                    *)
(***************************************************************************)
LEMMA TaskMoves ==
    ASSUME AtTyped, NEW t \in Builders \cup {Clearer}, NEW there \in TaskPlaces, GoTo(t, there),
           t = Worker => there \in {"idle", "page", "save", "lock", "build", "end"},
           t = Clearer => there \in {"idle", "delete", "lock"},
           t \in Searchers =>
              there \in {"idle", "check", "load", "compare", "open", "activate", "lock", "build", "search"}
    PROVE  AtTyped' /\ at'[t] = there /\ \A u \in (Builders \cup {Clearer}) \ {t} : at'[u] = at[u]
<1>1. at' = [at EXCEPT ![t] = there]
    BY DEF GoTo
<1>2. /\ at' \in [Builders \cup {Clearer} -> TaskPlaces] /\ at'[t] = there
      /\ \A u \in (Builders \cup {Clearer}) \ {t} : at'[u] = at[u]
    BY <1>1 DEF AtTyped
<1> QED
    BY <1>2 DEF AtTyped, Builders

LEMMA Tasks ==
    /\ Worker \in Builders \cup {Clearer} /\ Clearer \in Builders \cup {Clearer}
    /\ Searchers \subseteq Builders /\ Worker \in Builders
    /\ Worker # Clearer /\ Worker \notin Searchers /\ Clearer \notin Builders
    /\ Unlocked \notin Builders
    /\ {"idle", "page", "save", "lock", "build", "end", "delete", "check", "load",
         "compare", "open", "activate", "search"} \subseteq TaskPlaces
    BY ClipAssumption DEF Builders, TaskPlaces

LEMMA PlacesKept == ClipTyped /\ [ClipNext]_clipVars => AtTyped'
<1> SUFFICES ASSUME ClipTyped, [ClipNext]_clipVars PROVE AtTyped'
    OBVIOUS
<1> USE DEF Moves, ClipTyped
<1>1. CASE StartIndexing
    BY <1>1, Tasks, TaskMoves DEF StartIndexing
<1>2. CASE StopIndexing
    BY <1>2 DEF StopIndexing, AtTyped
<1>3. CASE NextPage
    BY <1>3, Tasks, TaskMoves DEF NextPage
<1>4. CASE SaveVectors
    BY <1>4, Tasks, TaskMoves DEF SaveVectors
<1>5. CASE LastPage
    BY <1>5, Tasks, TaskMoves DEF LastPage
<1>6. CASE BreakOff
    BY <1>6, Tasks, TaskMoves DEF BreakOff
<1>7. CASE EndIndexing
    BY <1>7, Tasks, TaskMoves DEF EndIndexing
<1>8. CASE BeginClear
  <2>1. CASE UNCHANGED at
    BY <2>1 DEF AtTyped
  <2>2. CASE GoTo(Clearer, "delete")
    BY <2>2, Tasks, TaskMoves
  <2> QED
    BY <1>8, <2>1, <2>2 DEF BeginClear
<1>9. CASE DeleteVectors
    BY <1>9, Tasks, TaskMoves DEF DeleteVectors
<1>10. CASE ClearIndex
    BY <1>10, Tasks, TaskMoves DEF ClearIndex
<1>11. ASSUME NEW b \in Builders, BeginRebuild(b) PROVE AtTyped'
    BY <1>11, Tasks, TaskMoves DEF BeginRebuild, Builders
<1>12. ASSUME NEW b \in Builders, RebuildStep(b) PROVE AtTyped'
  <2>1. CASE UNCHANGED at
    BY <2>1 DEF AtTyped
  <2>2. CASE Publish(b)
    <3>1. CASE b = Worker
        BY <2>2, <3>1, Tasks, TaskMoves DEF Publish, GiveBack
    <3>2. CASE b \in Searchers
        BY <2>2, <3>2, Tasks, TaskMoves DEF Publish, GiveBack
    <3> QED
        BY <3>1, <3>2 DEF Builders
  <2>3. CASE FailRebuild(b)
    <3>1. CASE b = Worker
        BY <2>3, <3>1, Tasks, TaskMoves DEF FailRebuild, GiveBack
    <3>2. CASE b \in Searchers
        BY <2>3, <3>2, Tasks, TaskMoves DEF FailRebuild, GiveBack
    <3> QED
        BY <3>1, <3>2 DEF Builders
  <2> QED
    BY <1>12, <2>1, <2>2, <2>3
       DEF RebuildStep, ReadVectors, CompareAfter, RenameIndex, RenameIds, RenamePointer
<1>13. ASSUME NEW s \in Searchers, BeginSearch(s) PROVE AtTyped'
    BY <1>13, Tasks, TaskMoves DEF BeginSearch
<1>14. ASSUME NEW s \in Searchers, SearchStep(s) PROVE AtTyped'
  <2>1. \E there \in {"idle", "search", "load", "compare", "lock", "open", "activate"} : GoTo(s, there)
    BY <1>14 DEF SearchStep, CheckActive, ReadPointer, CompareLoaded, OpenLoaded, ActivateLoaded,
                 FailSearch, Search
  <2> QED
    BY <2>1, Tasks, TaskMoves
<1>15. CASE ClipCrash
  <2>1. at' = [t \in Builders \cup {Clearer} |-> "idle"]
    BY <1>15 DEF ClipCrash, AtTyped
  <2> QED
    BY <2>1, Tasks DEF AtTyped
<1>16. CASE UNCHANGED clipVars
    BY <1>16 DEF clipVars, AtTyped
<1> QED
    BY <1>1, <1>2, <1>3, <1>4, <1>5, <1>6, <1>7, <1>8, <1>9, <1>10, <1>11, <1>12, <1>13, <1>14,
       <1>15, <1>16 DEF ClipNext, WorkerStep

(***************************************************************************)
(* What the rest of the state may be.                                      *)
(***************************************************************************)
LEMMA ClearsLeft == ClipTyped /\ [ClipNext]_clipVars => (At(Clearer, "delete") => clears < ClearBound)'
<1> SUFFICES ASSUME ClipTyped, [ClipNext]_clipVars
             PROVE  (At(Clearer, "delete") => clears < ClearBound)'
    OBVIOUS
<1> USE DEF dbVars, diskVars, indexerVars, buildVars, ClipTyped
<1>1. CASE BeginClear
  BY <1>1, Tasks, TaskMoves DEF BeginClear, At
<1>2. CASE DeleteVectors
  BY <1>2, Tasks, TaskMoves DEF DeleteVectors, At, Moves
<1>3. CASE ClearIndex
  BY <1>3, Tasks, TaskMoves DEF ClearIndex, At, Moves
<1>4. CASE at' = [t \in DOMAIN at |-> "idle"]
  BY <1>4, Tasks DEF AtTyped, At
<1>5. CASE UNCHANGED clears /\ UNCHANGED at
  BY <1>5 DEF At
<1>6. ASSUME NEW t \in Builders, NEW there, GoTo(t, there), UNCHANGED clears
      PROVE (At(Clearer, "delete") => clears < ClearBound)'
  <2>1. at'[Clearer] = at[Clearer]
      BY <1>6, Tasks DEF GoTo, AtTyped
  <2> QED
      BY <2>1, <1>6 DEF At
<1>7. CASE WorkerStep
  BY <1>7, <1>6, Tasks DEF WorkerStep, NextPage, SaveVectors, LastPage, BreakOff, EndIndexing, Moves
<1>8. ASSUME NEW b \in Builders, BeginRebuild(b) \/ RebuildStep(b)
      PROVE (At(Clearer, "delete") => clears < ClearBound)'
  BY <1>8, <1>5, <1>6 DEF BeginRebuild, RebuildStep, ReadVectors, CompareAfter, RenameIndex,
          RenameIds, RenamePointer, Publish, FailRebuild, GiveBack, Moves
<1>9. ASSUME NEW s \in Searchers, BeginSearch(s) \/ SearchStep(s)
      PROVE (At(Clearer, "delete") => clears < ClearBound)'
  BY <1>9, <1>6, Tasks DEF BeginSearch, SearchStep, CheckActive, ReadPointer, CompareLoaded, OpenLoaded,
          ActivateLoaded, FailSearch, Search, Moves
<1>10. CASE StartIndexing \/ StopIndexing \/ ClipCrash \/ UNCHANGED clipVars
  BY <1>10, <1>4, <1>5, <1>6, Tasks DEF StartIndexing, StopIndexing, ClipCrash, clipVars, Moves
<1> QED
  BY <1>1, <1>2, <1>3, <1>7, <1>8, <1>9, <1>10 DEF ClipNext
VectorTypes == vectors \subseteq ClipFiles /\ clears \in 0 .. ClearBound
FileTypes ==
    /\ indexFiles \in [Generations -> SUBSET SUBSET ClipFiles]
    /\ idsFiles \in [Generations -> SUBSET (0 .. ClipFileCount)]
PointerTypes == pointer \subseteq Meta /\ Cardinality(pointer) <= 1
ActiveTypes == active \subseteq [meta : Meta, files : SUBSET ClipFiles] /\ Cardinality(active) <= 1
IndexerTypes ==
    /\ {running, stopAsked} \subseteq BOOLEAN
    /\ worker \in [cursor : 0 .. ClipFileCount, encoded : SUBSET ClipFiles]
    /\ starts \in 0 .. StartBound /\ clipCrashes \in 0 .. ClipCrashBound
PeekedTypes == peeked \in [Searchers -> [meta : Meta, files : SUBSET ClipFiles]]
BuildTypes ==
    /\ rebuildLock \in Builders \cup {Unlocked}
    /\ build \in [step : {"read", "after", "index", "ids", "pointer", "publish"}, snap : Snapshots,
                  files : SUBSET ClipFiles, cursor : 0 .. ClipFileCount, generation : Generations]

LEMMA TypeParts ==
    ClipTyped <=>
       /\ AtTyped /\ VectorTypes /\ FileTypes /\ PointerTypes /\ ActiveTypes /\ IndexerTypes
       /\ PeekedTypes /\ BuildTypes /\ (At(Clearer, "delete") => clears < ClearBound)
    BY DEF ClipTyped, ClipTypeOK, AtTyped, VectorTypes, FileTypes, PointerTypes, ActiveTypes,
           IndexerTypes, PeekedTypes, BuildTypes

LEMMA VectorTypesKept == ClipTyped /\ [ClipNext]_clipVars => VectorTypes'
<1> SUFFICES ASSUME ClipTyped, [ClipNext]_clipVars PROVE VectorTypes'
    OBVIOUS
<1> USE DEF VectorTypes
<1>0. VectorTypes
    BY TypeParts
<1>1. CASE SaveVectors
    BY <1>1, <1>0, TypeParts DEF SaveVectors, IndexerTypes
<1>2. CASE DeleteVectors
    BY <1>2, <1>0, TypeParts, ClipAssumption DEF DeleteVectors, Moves
<1>3. CASE UNCHANGED <<vectors, clears>>
    BY <1>3, <1>0
<1> QED
    BY <1>1, <1>2, <1>3 DEF ClipNext, WorkerStep, RebuildStep, SearchStep, clipVars, dbVars,
       diskVars, indexerVars, buildVars, StartIndexing, StopIndexing, NextPage, LastPage,
       BreakOff, EndIndexing, BeginClear, ClearIndex, BeginRebuild, ReadVectors,
       CompareAfter, RenameIndex, RenameIds, RenamePointer, Publish, FailRebuild,
       BeginSearch, CheckActive, ReadPointer, CompareLoaded, OpenLoaded, ActivateLoaded,
       FailSearch, Search, ClipCrash

LEMMA FileTypesKept == ClipTyped /\ [ClipNext]_clipVars => FileTypes'
<1> SUFFICES ASSUME ClipTyped, [ClipNext]_clipVars PROVE FileTypes'
    OBVIOUS
<1> USE DEF FileTypes
<1>0. FileTypes
    BY TypeParts
<1>1. CASE ClearIndex
    BY <1>1, <1>0 DEF ClearIndex
<1>2. ASSUME NEW b \in Builders, RenameIndex(b) PROVE FileTypes'
    BY <1>2, <1>0, TypeParts DEF RenameIndex, dbVars, BuildTypes
<1>3. ASSUME NEW b \in Builders, RenameIds(b) PROVE FileTypes'
  <2>1. Cardinality(build.files) \in 0 .. ClipFileCount
    BY CountsOfFiles, TypeParts DEF BuildTypes
  <2> QED
    BY <1>3, <1>0, <2>1, TypeParts DEF RenameIds, BuildTypes
<1>4. ASSUME NEW b \in Builders, Publish(b) PROVE FileTypes'
    BY <1>4, <1>0 DEF Publish, Activate
<1>5. ASSUME NEW s \in Searchers, ActivateLoaded(s) PROVE FileTypes'
    BY <1>5, <1>0 DEF ActivateLoaded, Activate
<1>6. CASE UNCHANGED <<indexFiles, idsFiles>>
    BY <1>6, <1>0
<1> QED
    BY <1>1, <1>2, <1>3, <1>4, <1>5, <1>6 DEF ClipNext, WorkerStep, RebuildStep, SearchStep,
       clipVars, dbVars, diskVars, indexerVars, buildVars, StartIndexing, StopIndexing,
       NextPage, SaveVectors, LastPage, BreakOff, EndIndexing, BeginClear, DeleteVectors,
       BeginRebuild, ReadVectors, CompareAfter, RenamePointer, FailRebuild, BeginSearch,
       CheckActive, ReadPointer, CompareLoaded, OpenLoaded, FailSearch, Search, ClipCrash

LEMMA PointerTypesKept == ClipTyped /\ [ClipNext]_clipVars => PointerTypes'
<1> SUFFICES ASSUME ClipTyped, [ClipNext]_clipVars PROVE PointerTypes'
    OBVIOUS
<1> USE DEF PointerTypes
<1>0. PointerTypes
    BY TypeParts
<1>1. CASE ClearIndex
    BY <1>1, FS_EmptySet DEF ClearIndex
<1>2. ASSUME NEW b \in Builders, RenamePointer(b) PROVE PointerTypes'
  <2> DEFINE meta == [generation |-> build.generation, snap |-> build.snap]
  <2>1. pointer' = {meta} /\ meta \in Meta
    BY <1>2, TypeParts DEF RenamePointer, BuildTypes, Meta
  <2>2. Cardinality({meta}) = 1
    BY OneElement
  <2> HIDE DEF meta
  <2> QED
    BY <2>1, <2>2
<1>3. CASE UNCHANGED pointer
    BY <1>3, <1>0
<1> QED
    BY <1>1, <1>2, <1>3 DEF ClipNext, WorkerStep, RebuildStep, SearchStep, clipVars, dbVars,
       diskVars, indexerVars, buildVars, StartIndexing, StopIndexing, NextPage, SaveVectors,
       LastPage, BreakOff, EndIndexing, BeginClear, DeleteVectors, BeginRebuild,
       ReadVectors, CompareAfter, RenameIndex, RenameIds, Publish, FailRebuild, BeginSearch,
       CheckActive, ReadPointer, CompareLoaded, OpenLoaded, ActivateLoaded, FailSearch,
       Search, ClipCrash

LEMMA ActiveTypesKept == ClipTyped /\ [ClipNext]_clipVars => ActiveTypes'
<1> SUFFICES ASSUME ClipTyped, [ClipNext]_clipVars PROVE ActiveTypes'
    OBVIOUS
<1> USE DEF ActiveTypes
<1>0. ActiveTypes
    BY TypeParts
<1>1. CASE ClearIndex
    BY <1>1, FS_EmptySet DEF ClearIndex
<1>2. ASSUME NEW b \in Builders, Publish(b) PROVE ActiveTypes'
  <2>1. PICK files \in indexFiles[build.generation] :
             Activate([generation |-> build.generation, snap |-> build.snap], files)
    BY <1>2 DEF Publish
  <2>2. files \in SUBSET ClipFiles /\ [generation |-> build.generation, snap |-> build.snap] \in Meta
    BY TypeParts DEF BuildTypes, FileTypes, Meta
  <2> DEFINE loaded == [meta |-> [generation |-> build.generation, snap |-> build.snap], files |-> files]
  <2>3. active' = {loaded} /\ loaded \in [meta : Meta, files : SUBSET ClipFiles]
    BY <2>1, <2>2 DEF Activate
  <2>4. Cardinality({loaded}) = 1
    BY OneElement
  <2> HIDE DEF loaded
  <2> QED
    BY <2>3, <2>4
<1>3. ASSUME NEW s \in Searchers, ActivateLoaded(s) PROVE ActiveTypes'
  <2> DEFINE loaded == [meta |-> peeked[s].meta, files |-> peeked[s].files]
  <2>1. active' = {loaded} /\ loaded \in [meta : Meta, files : SUBSET ClipFiles]
    BY <1>3, TypeParts DEF ActivateLoaded, Activate, PeekedTypes
  <2>2. Cardinality({loaded}) = 1
    BY OneElement
  <2> HIDE DEF loaded
  <2> QED
    BY <2>1, <2>2
<1>4. CASE ClipCrash
    BY <1>4, FS_EmptySet DEF ClipCrash
<1>5. CASE UNCHANGED active
    BY <1>5, <1>0
<1> QED
    BY <1>1, <1>2, <1>3, <1>4, <1>5 DEF ClipNext, WorkerStep, RebuildStep, SearchStep,
       clipVars, dbVars, diskVars, indexerVars, buildVars, StartIndexing, StopIndexing,
       NextPage, SaveVectors, LastPage, BreakOff, EndIndexing, BeginClear, DeleteVectors,
       BeginRebuild, ReadVectors, CompareAfter, RenameIndex, RenameIds, RenamePointer,
       FailRebuild, BeginSearch, CheckActive, ReadPointer, CompareLoaded, OpenLoaded,
       FailSearch, Search

LEMMA IndexerTypesKept == ClipTyped /\ [ClipNext]_clipVars => IndexerTypes'
<1> SUFFICES ASSUME ClipTyped, [ClipNext]_clipVars PROVE IndexerTypes'
    OBVIOUS
<1> USE DEF IndexerTypes
<1>0. IndexerTypes
    BY TypeParts
<1>1. CASE StartIndexing
  <2>1. starts' \in 0 .. StartBound /\ clipCrashes' = clipCrashes /\ worker' = NoWork
    BY <1>1, <1>0, ClipAssumption DEF StartIndexing
  <2>2. {running', stopAsked'} \subseteq BOOLEAN
    BY <1>1 DEF StartIndexing
  <2> QED
    BY <2>1, <2>2, <1>0, StartTypes
<1>2. CASE StopIndexing
    BY <1>2, <1>0 DEF StopIndexing
<1>3. CASE NextPage
    BY <1>3, <1>0, ClipAssumption DEF NextPage, Unindexed, ClipFiles
<1>4. CASE EndIndexing
    BY <1>4, <1>0 DEF EndIndexing
<1>5. CASE BeginClear
    BY <1>5, <1>0 DEF BeginClear
<1>6. CASE ClipCrash
  <2>1. clipCrashes' \in 0 .. ClipCrashBound /\ starts' = starts /\ worker' = NoWork
    BY <1>6, <1>0, ClipAssumption DEF ClipCrash
  <2>2. {running', stopAsked'} \subseteq BOOLEAN
    BY <1>6 DEF ClipCrash
  <2> QED
    BY <2>1, <2>2, <1>0, StartTypes
<1>7. CASE UNCHANGED <<running, stopAsked, worker, starts, clipCrashes>>
    BY <1>7, <1>0
<1> QED
    BY <1>1, <1>2, <1>3, <1>4, <1>5, <1>6, <1>7 DEF ClipNext, WorkerStep, RebuildStep,
       SearchStep, clipVars, dbVars, diskVars, indexerVars, buildVars, SaveVectors,
       LastPage, BreakOff, DeleteVectors, ClearIndex, BeginRebuild, ReadVectors,
       CompareAfter, RenameIndex, RenameIds, RenamePointer, Publish, FailRebuild,
       BeginSearch, CheckActive, ReadPointer, CompareLoaded, OpenLoaded, ActivateLoaded,
       FailSearch, Search

LEMMA PeekedTypesKept == ClipTyped /\ [ClipNext]_clipVars => PeekedTypes'
<1> SUFFICES ASSUME ClipTyped, [ClipNext]_clipVars PROVE PeekedTypes'
    OBVIOUS
<1> USE DEF PeekedTypes
<1>0. PeekedTypes
    BY TypeParts
<1>1. ASSUME NEW s \in Searchers, BeginSearch(s) PROVE PeekedTypes'
    BY <1>1, <1>0, TypeParts DEF BeginSearch, ActiveTypes
<1>2. ASSUME NEW s \in Searchers, CheckActive(s) PROVE PeekedTypes'
    BY <1>2, <1>0, StartTypes DEF CheckActive
<1>3. ASSUME NEW s \in Searchers, ReadPointer(s) PROVE PeekedTypes'
    BY <1>3, <1>0, TypeParts DEF ReadPointer, PointerTypes
<1>4. ASSUME NEW s \in Searchers, CompareLoaded(s) PROVE PeekedTypes'
    BY <1>4, <1>0, StartTypes DEF CompareLoaded
<1>5. ASSUME NEW s \in Searchers, OpenLoaded(s) PROVE PeekedTypes'
  <2>1. \A files \in indexFiles[peeked[s].meta.generation] : files \in SUBSET ClipFiles
    BY <1>0, TypeParts DEF FileTypes, Meta
  <2> QED
    BY <1>5, <1>0, <2>1, StartTypes DEF OpenLoaded
<1>6. ASSUME NEW s \in Searchers, ActivateLoaded(s) PROVE PeekedTypes'
    BY <1>6, <1>0, StartTypes DEF ActivateLoaded
<1>7. ASSUME NEW s \in Searchers, FailSearch(s) PROVE PeekedTypes'
    BY <1>7, <1>0, StartTypes DEF FailSearch
<1>8. CASE ClipCrash
    BY <1>8, <1>0, StartTypes DEF ClipCrash
<1>9. CASE UNCHANGED peeked
    BY <1>9, <1>0
<1> QED
    BY <1>1, <1>2, <1>3, <1>4, <1>5, <1>6, <1>7, <1>8, <1>9 DEF ClipNext, WorkerStep,
       RebuildStep, SearchStep, clipVars, dbVars, diskVars, indexerVars, buildVars,
       StartIndexing, StopIndexing, NextPage, SaveVectors, LastPage, BreakOff, EndIndexing,
       BeginClear, DeleteVectors, ClearIndex, BeginRebuild, ReadVectors, CompareAfter,
       RenameIndex, RenameIds, RenamePointer, Publish, FailRebuild, Search

LEMMA BuildTypesKept == ClipTyped /\ [ClipNext]_clipVars => BuildTypes'
<1> SUFFICES ASSUME ClipTyped, [ClipNext]_clipVars PROVE BuildTypes'
    OBVIOUS
<1> USE DEF BuildTypes
<1>0. BuildTypes
    BY TypeParts
<1>1. ASSUME NEW b \in Builders, BeginRebuild(b) PROVE BuildTypes'
    BY <1>1, <1>0, StartTypes, SnapshotType, TypeParts DEF BeginRebuild, ClipTyped
<1>2. ASSUME NEW b \in Builders, ReadVectors(b) PROVE BuildTypes'
  <2> DEFINE rest == {f \in vectors : f > build.cursor}
  <2>1. UNCHANGED rebuildLock
    BY <1>2 DEF ReadVectors
  <2>2. CASE build' = [build EXCEPT !.step = "after"]
    BY <2>1, <2>2, <1>0
  <2>3. ASSUME NEW f \in vectors, build' = [build EXCEPT !.files = @ \cup {f}, !.cursor = f]
        PROVE  BuildTypes'
    <3>1. f \in ClipFiles /\ f \in 0 .. ClipFileCount
        BY <2>3, TypeParts, ClipAssumption DEF VectorTypes, ClipFiles
    <3> QED
        BY <2>1, <2>3, <3>1, <1>0
  <2> QED
    BY <1>2, <2>2, <2>3 DEF ReadVectors, Step
<1>3. ASSUME NEW b \in Builders, CompareAfter(b) PROVE BuildTypes'
    BY <1>3, <1>0, SnapshotType DEF CompareAfter, ClipTyped
<1>4. ASSUME NEW b \in Builders, RenameIndex(b) PROVE BuildTypes'
    BY <1>4, <1>0 DEF RenameIndex, Step
<1>5. ASSUME NEW b \in Builders, RenameIds(b) PROVE BuildTypes'
    BY <1>5, <1>0 DEF RenameIds, Step
<1>6. ASSUME NEW b \in Builders, RenamePointer(b) PROVE BuildTypes'
    BY <1>6, <1>0 DEF RenamePointer, Step
<1>7. ASSUME NEW b \in Builders, Publish(b) PROVE BuildTypes'
    BY <1>7, <1>0, StartTypes DEF Publish, GiveBack
<1>8. ASSUME NEW b \in Builders, FailRebuild(b) PROVE BuildTypes'
    BY <1>8, <1>0, StartTypes DEF FailRebuild, GiveBack
<1>9. CASE ClipCrash
    BY <1>9, <1>0, StartTypes DEF ClipCrash
<1>10. CASE UNCHANGED <<rebuildLock, build>>
    BY <1>10, <1>0
<1> QED
    BY <1>1, <1>2, <1>3, <1>4, <1>5, <1>6, <1>7, <1>8, <1>9, <1>10 DEF ClipNext, WorkerStep,
       RebuildStep, SearchStep, clipVars, dbVars, diskVars, indexerVars, buildVars,
       StartIndexing, StopIndexing, NextPage, SaveVectors, LastPage, BreakOff, EndIndexing,
       BeginClear, DeleteVectors, ClearIndex, BeginSearch, CheckActive, ReadPointer,
       CompareLoaded, OpenLoaded, ActivateLoaded, FailSearch, Search

LEMMA ClipTypesKept == ClipTyped /\ [ClipNext]_clipVars => ClipTyped'
<1> SUFFICES ASSUME ClipTyped, [ClipNext]_clipVars PROVE ClipTyped'
    OBVIOUS
<1>1. /\ AtTyped' /\ VectorTypes' /\ FileTypes' /\ PointerTypes' /\ ActiveTypes' /\ IndexerTypes'
      /\ PeekedTypes' /\ BuildTypes' /\ (At(Clearer, "delete") => clears < ClearBound)'
    BY PlacesKept, VectorTypesKept, FileTypesKept, PointerTypesKept, ActiveTypesKept,
       IndexerTypesKept, PeekedTypesKept, BuildTypesKept, ClearsLeft
<1>2. (/\ AtTyped /\ VectorTypes /\ FileTypes /\ PointerTypes /\ ActiveTypes /\ IndexerTypes
       /\ PeekedTypes /\ BuildTypes /\ (At(Clearer, "delete") => clears < ClearBound))' => ClipTyped'
    BY TypeParts, PTL
<1> QED
    BY <1>1, <1>2

(***************************************************************************)
(* The inductive invariant.  A snapshot is fresh when no clear came after  *)
(* it.  Within one epoch vectors.db only grows, so that an equal count     *)
(* means equal vectors.                                                    *)
(***************************************************************************)
Fresh(snap) == snap.latest = clears + 1

\* Every metadata some step may still act upon.
Metas == pointer \cup {loaded.meta : loaded \in active} \cup {peeked[s].meta : s \in Searchers}

LockIsHeld == \A b \in Builders : At(b, "build") <=> rebuildLock = b

IsPast(snap) == snap.latest <= clears + 1 /\ (Fresh(snap) => vectors # {})

SnapsArePast == IsPast(build.snap) /\ \A m \in Metas : IsPast(m.snap)

\* What a rebuild has read, unless a clear came in between.
BuildReads ==
    Fresh(build.snap) =>
        /\ build.files \subseteq vectors /\ build.snap.count <= Cardinality(vectors)
        /\ build.snap.count = Cardinality(vectors) =>
              /\ build.step = "read" => build.files = {f \in vectors : f <= build.cursor}
              /\ build.step = "after" => build.files = vectors
        /\ build.step \notin {"read", "after"} => Cardinality(build.files) = build.snap.count

BuildWrites ==
    build.step \in {"ids", "pointer", "publish"} => indexFiles[build.generation] \subseteq {build.files}

\* A stale rebuild has no fresh generation to overwrite.
NoneFresher ==
    rebuildLock # Unlocked /\ ~Fresh(build.snap) => \A m \in Metas : ~Fresh(m.snap)

FilesAreFresh ==
    \A m \in Metas : Fresh(m.snap) => \A files \in indexFiles[m.generation] : files \subseteq vectors

Matches(loaded) ==
    Fresh(loaded.meta.snap) =>
        loaded.files \subseteq vectors /\ Cardinality(loaded.files) = loaded.meta.snap.count

LoadedMatch ==
    /\ \A loaded \in active : Matches(loaded)
    /\ \A s \in Searchers : At(s, "activate") => Matches(peeked[s])

\* The pointer is ahead of everything that cleans up, and a rebuild ahead of it.
PointerLeads ==
    clears = 0 =>
        /\ \A p \in pointer : Present(p)
        /\ \A m \in Metas : (pointer = {} => m.generation = 1)
                           /\ \A p \in pointer : m.generation <= p.generation
        /\ build.step \notin {"read", "after"} => \A m \in Metas : m.generation <= build.generation
        /\ build.step \in {"ids", "pointer", "publish"} => indexFiles[build.generation] # {}
        /\ build.step \in {"pointer", "publish"} => idsFiles[build.generation] # {}
        /\ build.step = "publish" => \E p \in pointer : build.generation = p.generation

ClearerWaits == At(Clearer, "lock") => clears > 0

BuildInv == SnapsArePast /\ BuildReads /\ BuildWrites /\ NoneFresher
ClipInv ==
    /\ ClipTyped /\ LockIsHeld /\ BuildInv /\ FilesAreFresh /\ LoadedMatch /\ PointerLeads
    /\ ClearerWaits


LEMMA MetaNumbers ==
    /\ \A snap \in Snapshots : snap.latest \in Nat /\ snap.count \in Nat
    /\ \A m \in Meta : m.snap \in Snapshots /\ m.generation \in Generations
    /\ \A g \in Generations : g \in Nat /\ g >= 1
    BY ClipAssumption DEF Meta, Snapshots, Generations

LEMMA ClipBasics ==
    ClipTyped =>
        /\ Metas \subseteq Meta /\ clears \in Nat /\ vectors \in SUBSET ClipFiles
        /\ build.snap \in Snapshots /\ build.files \in SUBSET ClipFiles /\ build.cursor \in Nat
        /\ build.generation \in Generations
        /\ Cardinality(vectors) \in Nat /\ Cardinality(build.files) \in Nat
<1> SUFFICES ASSUME ClipTyped
             PROVE  /\ Metas \subseteq Meta /\ clears \in Nat /\ vectors \in SUBSET ClipFiles
                    /\ build.snap \in Snapshots /\ build.files \in SUBSET ClipFiles /\ build.cursor \in Nat
                    /\ build.generation \in Generations
                    /\ Cardinality(vectors) \in Nat /\ Cardinality(build.files) \in Nat
    OBVIOUS
<1>1. Metas \subseteq Meta
    BY TypeParts DEF Metas, PointerTypes, ActiveTypes, PeekedTypes
<1>2. clears \in Nat /\ vectors \in SUBSET ClipFiles
    BY TypeParts, ClipAssumption DEF VectorTypes
<1>3. /\ build.snap \in Snapshots /\ build.files \in SUBSET ClipFiles /\ build.cursor \in Nat
      /\ build.generation \in Generations
    BY TypeParts, ClipAssumption DEF BuildTypes
<1>4. Cardinality(vectors) \in Nat /\ Cardinality(build.files) \in Nat
    BY <1>2, <1>3, CountsOfFiles, ClipAssumption
<1> QED
    BY <1>1, <1>2, <1>3, <1>4

LEMMA StaleStart ==
    ASSUME ClipTyped
    PROVE  /\ NoMeta.generation = 1 /\ ~Fresh(NoMeta.snap) /\ IsPast(NoMeta.snap)
           /\ ~Fresh(NoBuild.snap) /\ IsPast(NoBuild.snap)
    BY ClipBasics DEF NoMeta, NoBuild, Fresh, IsPast

(***************************************************************************)
(* Steps that touch neither vectors, files, the active index nor the       *)
(* rebuild: what they peek at they read from there.                        *)
(***************************************************************************)
LEMMA QuietStep ==
    ASSUME ClipInv, ClipTyped',
           UNCHANGED <<vectors, clears, indexFiles, idsFiles, pointer, active, rebuildLock, build>>,
           Metas' \subseteq Metas \cup {NoMeta},
           \A b \in Builders : at'[b] = "build" <=> at[b] = "build",
           at'[Clearer] = "lock" => clears > 0,
           \A s \in Searchers : at'[s] = "activate" => Matches(peeked'[s])
    PROVE  ClipInv'
<1> USE DEF ClipInv
<1>1. LockIsHeld' /\ ClearerWaits'
    BY DEF LockIsHeld, ClearerWaits, At
<1>2. SnapsArePast'
    BY StaleStart DEF BuildInv, SnapsArePast, IsPast, Fresh
<1>3. BuildReads' /\ BuildWrites'
    BY DEF BuildInv, BuildReads, BuildWrites, Fresh
<1>4. NoneFresher' /\ FilesAreFresh'
    BY StaleStart DEF BuildInv, NoneFresher, FilesAreFresh, Fresh
<1>5. LoadedMatch'
    BY DEF LoadedMatch, Matches, Fresh, At
<1>6. PointerLeads'
  <2> SUFFICES ASSUME clears = 0 PROVE PointerLeads'
    BY DEF PointerLeads
  <2>1. \A p \in pointer : Present(p)' /\ p \in Metas
    BY DEF PointerLeads, Present, Metas
  <2>2. /\ \A m \in Metas' : (pointer = {} => m.generation = 1)
                              /\ \A p \in pointer : m.generation <= p.generation
        /\ build.step \notin {"read", "after"} => \A m \in Metas' : m.generation <= build.generation
    BY <2>1, StaleStart, ClipBasics, MetaNumbers DEF PointerLeads
  <2> QED
    BY <2>1, <2>2 DEF PointerLeads
<1> QED
    BY <1>1, <1>2, <1>3, <1>4, <1>5, <1>6 DEF BuildInv

LEMMA SamePeeks ==
    ASSUME UNCHANGED <<pointer, active, peeked>> PROVE Metas' = Metas
    BY DEF Metas

LEMMA IndexerKeepsClipInv ==
    ASSUME ClipInv, ClipTyped',
           StartIndexing \/ StopIndexing \/ NextPage \/ LastPage \/ BreakOff \/ EndIndexing \/ BeginClear
    PROVE  ClipInv'
<1> USE DEF dbVars, diskVars, indexerVars, buildVars, ClipInv
<1>1. UNCHANGED <<vectors, clears, indexFiles, idsFiles, pointer, active, rebuildLock, build, peeked>>
    BY DEF StartIndexing, StopIndexing, NextPage, LastPage, BreakOff, EndIndexing, BeginClear
<1>2. Metas' \subseteq Metas \cup {NoMeta}
    BY <1>1, SamePeeks
<1>3. \/ UNCHANGED at
      \/ Worker \in DOMAIN at /\ at[Worker] # "build" /\ \E there \in {"idle", "page", "save", "lock", "end"} : GoTo(Worker, there)
      \/ GoTo(Clearer, "delete")
    BY Tasks, ClipAssumption DEF StartIndexing, StopIndexing, NextPage, LastPage, BreakOff, EndIndexing, BeginClear, Moves,
       At, ClipTyped, AtTyped
<1>4. /\ \A b \in Builders : at'[b] = "build" <=> at[b] = "build"
      /\ at'[Clearer] = "lock" => at[Clearer] = "lock"
      /\ \A s \in Searchers : at'[s] = at[s]
    BY <1>3, Tasks DEF GoTo, ClipTyped, AtTyped, Builders
<1>5. \A s \in Searchers : at'[s] = "activate" => Matches(peeked'[s])
    BY <1>1, <1>4 DEF LoadedMatch, At
<1> QED
    BY <1>1, <1>2, <1>4, <1>5, QuietStep DEF ClearerWaits, At

LEMMA SearchKeepsClipInv ==
    ASSUME ClipInv, ClipTyped', NEW s \in Searchers,
           BeginSearch(s) \/ CheckActive(s) \/ ReadPointer(s) \/ CompareLoaded(s) \/ OpenLoaded(s)
           \/ FailSearch(s) \/ Search(s)
    PROVE  ClipInv'
<1> USE DEF dbVars, diskVars, indexerVars, buildVars, ClipInv
<1>1. UNCHANGED <<vectors, clears, indexFiles, idsFiles, pointer, active, rebuildLock, build>>
    BY DEF BeginSearch, CheckActive, ReadPointer, CompareLoaded, OpenLoaded, FailSearch, Search
<1>2. peeked \in [Searchers -> [meta : Meta, files : SUBSET ClipFiles]]
    BY TypeParts DEF PeekedTypes
<1>3. /\ \A t \in Searchers \ {s} : peeked'[t] = peeked[t]
      /\ peeked'[s].meta \in Metas \cup {NoMeta}
  <2>1. CASE BeginSearch(s)
    BY <2>1, <1>2 DEF BeginSearch, Metas
  <2>2. CASE ReadPointer(s)
    BY <2>2, <1>2 DEF ReadPointer, Metas
  <2>3. CASE OpenLoaded(s)
    BY <2>3, <1>2 DEF OpenLoaded, Metas, NothingPeeked
  <2>4. CASE CheckActive(s) \/ CompareLoaded(s) \/ FailSearch(s) \/ Search(s)
    BY <2>4, <1>2 DEF CheckActive, CompareLoaded, FailSearch, Search, Metas, NothingPeeked
  <2> QED
    BY <2>1, <2>2, <2>3, <2>4
<1>4. Metas' \subseteq Metas \cup {NoMeta}
    BY <1>1, <1>3 DEF Metas
<1>5. PICK there \in TaskPlaces : GoTo(s, there) /\ there # "build" /\ at[s] # "build" /\ (there = "activate" => OpenLoaded(s) /\ at[s] = "open")
    BY Tasks, ClipAssumption DEF BeginSearch, CheckActive, ReadPointer, CompareLoaded, OpenLoaded, FailSearch, Search,
       Moves, At
<1>6. at' = [at EXCEPT ![s] = there] /\ at \in [Builders \cup {Clearer} -> TaskPlaces]
    BY <1>5 DEF GoTo, ClipTyped, AtTyped
<1>7. /\ \A b \in Builders : at'[b] = "build" <=> at[b] = "build"
      /\ at'[Clearer] = at[Clearer]
      /\ \A t \in Searchers \ {s} : at'[t] = at[t]
    BY <1>5, <1>6, Tasks
<1>8. \A t \in Searchers : at'[t] = "activate" => Matches(peeked'[t])
  <2>1. SUFFICES ASSUME at'[s] = "activate" PROVE Matches(peeked'[s])
    BY <1>3, <1>7 DEF LoadedMatch, At
  <2>2. OpenLoaded(s) /\ GoTo(s, "activate")
    BY <2>1, <1>5, <1>6, Tasks
  <2>3. PICK files \in indexFiles[peeked[s].meta.generation] :
             /\ Cardinality(files) = peeked[s].meta.snap.count
             /\ peeked' = [peeked EXCEPT ![s].files = files]
    <3>1. at'[s] # "lock"
        BY <2>1
    <3> QED
        BY <2>2, <1>6, <3>1, Tasks DEF OpenLoaded, Moves, GoTo
  <2>4. peeked[s].meta \in Metas
    BY DEF Metas
  <2>5. peeked'[s].meta = peeked[s].meta /\ peeked'[s].files = files
    BY <2>3, <1>2
  <2> QED
    BY <2>3, <2>4, <2>5 DEF Matches, FilesAreFresh
<1> QED
    BY <1>1, <1>4, <1>7, <1>8, QuietStep DEF ClearerWaits, At

LEMMA GrowthKeepsClipInv ==
    ASSUME ClipInv, ClipTyped', SaveVectors
    PROVE  ClipInv'
<1> USE DEF dbVars, diskVars, indexerVars, buildVars, ClipInv
<1>1. UNCHANGED <<clears, indexFiles, idsFiles, pointer, active, rebuildLock, build, peeked>>
      /\ vectors \subseteq vectors'
    BY DEF SaveVectors
<1>2. Metas' = Metas
    BY <1>1, SamePeeks
<1>3. vectors' \in SUBSET ClipFiles
    BY DEF ClipTyped, ClipTypeOK
<1>4. /\ Cardinality(vectors) <= Cardinality(vectors') /\ Cardinality(vectors') \in Nat
      /\ Cardinality(vectors) = Cardinality(vectors') => vectors = vectors'
    BY <1>1, <1>3, CountsOfFiles, FS_Subset, FS_CardinalityType
<1>5. \A snap : Fresh(snap)' <=> Fresh(snap)
    BY <1>1 DEF Fresh
<1>6. LockIsHeld' /\ ClearerWaits'
    BY <1>1, Tasks, ClipAssumption DEF SaveVectors, Moves, GoTo, At, ClipTyped, AtTyped, LockIsHeld, ClearerWaits
<1>7. SnapsArePast'
    BY <1>1, <1>2 DEF BuildInv, SnapsArePast, IsPast, Fresh
<1>8. BuildReads'
    BY <1>1, <1>4, ClipBasics, MetaNumbers DEF BuildInv, BuildReads, Fresh
<1>9. BuildWrites' /\ NoneFresher'
    BY <1>1, <1>2 DEF BuildInv, BuildWrites, NoneFresher, Fresh
<1>10. FilesAreFresh'
    BY <1>1, <1>2 DEF FilesAreFresh, Fresh
<1>11. LoadedMatch'
    BY <1>1, Tasks DEF LoadedMatch, Matches, Fresh, SaveVectors, Moves, GoTo, At, ClipTyped, AtTyped
<1>12. PointerLeads'
    BY <1>1, <1>2 DEF PointerLeads, Present
<1> QED
    BY <1>6, <1>7, <1>8, <1>9, <1>10, <1>11, <1>12 DEF BuildInv

(* A clear makes every snapshot a past one. *)
LEMMA DeleteKeepsClipInv ==
    ASSUME ClipInv, ClipTyped', DeleteVectors
    PROVE  ClipInv'
<1> USE DEF dbVars, diskVars, indexerVars, buildVars, ClipInv
<1>1. UNCHANGED <<indexFiles, idsFiles, pointer, active, rebuildLock, build, peeked>>
      /\ clears' = clears + 1
    BY DEF DeleteVectors
<1>2. Metas' = Metas
    BY <1>1, SamePeeks
<1>3. \A snap \in Snapshots : IsPast(snap) => snap.latest < clears' + 1
    BY <1>1, ClipBasics, MetaNumbers DEF IsPast
<1>4. LockIsHeld' /\ ClearerWaits'
    BY <1>1, Tasks, ClipBasics, ClipAssumption
       DEF DeleteVectors, Moves, GoTo, At, ClipTyped, AtTyped, LockIsHeld, ClearerWaits
<1>5. build.snap.latest < clears' + 1 /\ \A m \in Metas : m.snap.latest < clears' + 1
    BY <1>3, ClipBasics, MetaNumbers DEF BuildInv, SnapsArePast
<1>6. \A snap \in Snapshots : snap.latest < clears' + 1 => IsPast(snap)' /\ ~Fresh(snap)'
    BY <1>1, ClipBasics, MetaNumbers DEF IsPast, Fresh
<1>7. IsPast(build.snap)' /\ ~Fresh(build.snap)' /\ \A m \in Metas : IsPast(m.snap)' /\ ~Fresh(m.snap)'
    BY <1>1, <1>5, <1>6, ClipBasics, MetaNumbers
<1>8. SnapsArePast' /\ BuildReads' /\ NoneFresher' /\ FilesAreFresh'
    BY <1>1, <1>2, <1>7 DEF SnapsArePast, BuildReads, NoneFresher, FilesAreFresh
<1>9. BuildWrites'
    BY <1>1 DEF BuildInv, BuildWrites
<1>10. LoadedMatch'
  <2>1. \A loaded \in active : loaded.meta \in Metas
    BY DEF Metas
  <2>2. \A s \in Searchers : peeked[s].meta \in Metas
    BY DEF Metas
  <2> QED
    BY <1>1, <1>7, <2>1, <2>2 DEF LoadedMatch, Matches
<1>11. PointerLeads'
    BY <1>1, ClipBasics DEF PointerLeads
<1> QED
    BY <1>4, <1>8, <1>9, <1>10, <1>11 DEF BuildInv

LEMMA ClearKeepsClipInv ==
    ASSUME ClipInv, ClipTyped', ClearIndex
    PROVE  ClipInv'
<1> USE DEF dbVars, diskVars, indexerVars, buildVars, ClipInv
<1>1. /\ UNCHANGED <<vectors, clears, rebuildLock, build, peeked>> /\ rebuildLock = Unlocked
      /\ active' = {} /\ pointer' = {} /\ \A g \in Generations : indexFiles'[g] = {}
      /\ clears > 0
    BY DEF ClearIndex, ClearerWaits, Moves
<1>2. Metas' \subseteq Metas
    BY <1>1 DEF Metas
<1>3. LockIsHeld' /\ ClearerWaits'
    BY <1>1, Tasks DEF ClearIndex, Moves, GoTo, At, ClipTyped, AtTyped, LockIsHeld, ClearerWaits
<1>4. SnapsArePast'
    BY <1>1, <1>2 DEF BuildInv, SnapsArePast, IsPast, Fresh
<1>5. BuildReads'
    BY <1>1 DEF BuildInv, BuildReads, Fresh
<1>6. BuildWrites' /\ NoneFresher'
    BY <1>1, ClipBasics DEF BuildWrites, NoneFresher
<1>7. FilesAreFresh'
    BY <1>1, <1>2, ClipBasics, MetaNumbers DEF FilesAreFresh
<1>8. LoadedMatch'
    BY <1>1, Tasks DEF LoadedMatch, Matches, Fresh, ClearIndex, Moves, GoTo, At, ClipTyped, AtTyped
<1>9. PointerLeads'
    BY <1>1, ClipBasics DEF PointerLeads
<1> QED
    BY <1>3, <1>4, <1>5, <1>6, <1>7, <1>8, <1>9 DEF BuildInv

(***************************************************************************)
(* The rebuild.                                                            *)
(***************************************************************************)
LEMMA BeginKeepsClipInv ==
    ASSUME ClipInv, ClipTyped', NEW b \in Builders, BeginRebuild(b)
    PROVE  ClipInv'
<1> USE DEF dbVars, diskVars, indexerVars, buildVars, ClipInv
<1>1. /\ UNCHANGED <<vectors, clears, indexFiles, idsFiles, pointer, active, peeked>>
      /\ rebuildLock = Unlocked /\ rebuildLock' = b /\ GoTo(b, "build")
      /\ build'.snap = Snapshot /\ build'.step = "read" /\ build'.files = {} /\ build'.cursor = 0
    BY DEF BeginRebuild, Moves, NoBuild
<1>2. Metas' = Metas
    BY <1>1, SamePeeks
<1>3. LockIsHeld' /\ ClearerWaits'
    BY <1>1, Tasks DEF GoTo, At, ClipTyped, AtTyped, LockIsHeld, ClearerWaits
<1>4. IsPast(Snapshot) /\ (vectors # {} => Fresh(Snapshot)) /\ Snapshot.count = Cardinality(vectors)
    BY ClipBasics DEF IsPast, Fresh, Snapshot
<1>5. SnapsArePast' /\ NoneFresher'
    BY <1>1, <1>2, <1>4 DEF BuildInv, SnapsArePast, NoneFresher, IsPast, Fresh
<1>6. \A f \in vectors : f \in Nat /\ f > 0
    BY ClipBasics DEF ClipFiles
<1>7. BuildReads'
    BY <1>1, <1>4, <1>6, ClipBasics DEF BuildReads
<1>8. BuildWrites' /\ FilesAreFresh'
    BY <1>1, <1>2 DEF BuildInv, BuildWrites, FilesAreFresh, Fresh
<1>9. LoadedMatch'
    BY <1>1, Tasks DEF LoadedMatch, Matches, Fresh, GoTo, At, ClipTyped, AtTyped
<1>10. PointerLeads'
    BY <1>1, <1>2 DEF PointerLeads, Present
<1> QED
    BY <1>3, <1>5, <1>7, <1>8, <1>9, <1>10 DEF BuildInv

LEMMA ReadKeepsClipInv ==
    ASSUME ClipInv, ClipTyped', NEW b \in Builders, ReadVectors(b)
    PROVE  ClipInv'
<1> USE DEF dbVars, diskVars, indexerVars, buildVars, ClipInv
<1>1. /\ UNCHANGED <<vectors, clears, indexFiles, idsFiles, pointer, active, peeked, at, rebuildLock>>
      /\ build.step = "read"
    BY DEF ReadVectors, Building
<1>2. Metas' = Metas
    BY <1>1, SamePeeks
<1>3. /\ build'.snap = build.snap /\ build'.generation = build.generation
      /\ \/ /\ build'.step = "after" /\ build'.files = build.files
            /\ {f \in vectors : f > build.cursor} = {}
         \/ /\ build'.step = "read"
            /\ \E f \in vectors :
                  /\ f > build.cursor /\ build'.files = build.files \cup {f} /\ build'.cursor = f
                  /\ \A g \in vectors : g > build.cursor => f <= g
  <2>1. CASE {f \in vectors : f > build.cursor} = {} /\ Step("after")
    BY <1>1, <2>1, TypeParts DEF Step, BuildTypes
  <2>2. ASSUME NEW f \in {f \in vectors : f > build.cursor},
               \A g \in {h \in vectors : h > build.cursor} : f <= g,
               build' = [build EXCEPT !.files = @ \cup {f}, !.cursor = f]
        PROVE  /\ build'.snap = build.snap /\ build'.generation = build.generation
               /\ build'.step = build.step /\ build'.files = build.files \cup {f} /\ build'.cursor = f
    BY <2>2, TypeParts DEF BuildTypes
  <2> QED
    BY <1>1, <2>1, <2>2 DEF ReadVectors
<1>4. LockIsHeld' /\ ClearerWaits' /\ SnapsArePast' /\ NoneFresher' /\ FilesAreFresh' /\ LoadedMatch'
    BY <1>1, <1>2, <1>3 DEF LockIsHeld, ClearerWaits, At, BuildInv, SnapsArePast, IsPast, Fresh,
       NoneFresher, FilesAreFresh, LoadedMatch, Matches
<1>5. BuildReads'
  <2> SUFFICES ASSUME Fresh(build.snap) PROVE BuildReads'
    BY <1>1, <1>3 DEF BuildReads, Fresh
  <2>1. build.files \subseteq vectors /\ build.snap.count <= Cardinality(vectors)
        /\ (build.snap.count = Cardinality(vectors) => build.files = {f \in vectors : f <= build.cursor})
    BY <1>1 DEF BuildInv, BuildReads
  <2>2. \A f \in vectors : f \in Nat
    BY ClipBasics DEF ClipFiles
  <2>3. build'.files \subseteq vectors
    BY <1>3, <2>1
  <2>4. CASE build'.step = "after"
    BY <1>1, <1>3, <2>1, <2>2, <2>3, <2>4, ClipBasics DEF BuildReads
  <2>5. CASE build'.step = "read"
    <3>1. PICK f \in vectors :
              /\ f > build.cursor /\ build'.files = build.files \cup {f} /\ build'.cursor = f
              /\ \A g \in vectors : g > build.cursor => f <= g
        BY <1>3, <2>5
    <3>2. build.snap.count = Cardinality(vectors) => build'.files = {g \in vectors : g <= f}
        BY <2>1, <2>2, <3>1, ClipBasics
    <3> QED
        BY <1>1, <1>3, <2>1, <2>3, <2>5, <3>1, <3>2 DEF BuildReads
  <2> QED
    BY <1>3, <2>4, <2>5
<1>6. BuildWrites' /\ PointerLeads'
    BY <1>1, <1>2, <1>3 DEF BuildWrites, PointerLeads, Present
<1> QED
    BY <1>4, <1>5, <1>6 DEF BuildInv

LEMMA CompareKeepsClipInv ==
    ASSUME ClipInv, ClipTyped', NEW b \in Builders, CompareAfter(b)
    PROVE  ClipInv'
<1> USE DEF dbVars, diskVars, indexerVars, buildVars, ClipInv
<1>1. /\ UNCHANGED <<vectors, clears, indexFiles, idsFiles, pointer, active, peeked, at, rebuildLock>>
      /\ build.step = "after" /\ build.snap = Snapshot
    BY DEF CompareAfter, Building
<1>2. Metas' = Metas
    BY <1>1, SamePeeks
<1>3. PICK g \in Generations :
         Highest(g) /\ build' = [build EXCEPT !.step = "index", !.snap = Snapshot, !.generation = g]
    BY DEF CompareAfter
<1>4. /\ build'.snap = build.snap /\ build'.step = "index" /\ build'.files = build.files
      /\ build'.generation = g
    BY <1>1, <1>3, TypeParts DEF BuildTypes
<1>5. LockIsHeld' /\ ClearerWaits' /\ SnapsArePast' /\ NoneFresher' /\ FilesAreFresh' /\ LoadedMatch'
    BY <1>1, <1>2, <1>4 DEF LockIsHeld, ClearerWaits, At, BuildInv, SnapsArePast, IsPast, Fresh,
       NoneFresher, FilesAreFresh, LoadedMatch, Matches
<1>6. BuildReads'
  <2> SUFFICES ASSUME Fresh(build.snap) PROVE BuildReads'
    BY <1>1, <1>4 DEF BuildReads, Fresh
  <2>1. build.snap.count = Cardinality(vectors)
    BY <1>1 DEF Snapshot
  <2>2. build.files = vectors
    BY <1>1, <2>1 DEF BuildInv, BuildReads
  <2> QED
    BY <1>1, <1>4, <2>1, <2>2, ClipBasics DEF BuildReads
<1>7. BuildWrites'
    BY <1>4 DEF BuildWrites
<1>8. PointerLeads'
  <2> SUFFICES ASSUME clears = 0 PROVE PointerLeads'
    BY <1>1 DEF PointerLeads
  <2>1. \A p \in pointer : p.generation < g
    BY <1>3, ClipBasics, MetaNumbers DEF PointerLeads, Present, Highest, Metas
  <2>2. \A m \in Metas : m.generation <= g
    <3>1. CASE pointer = {}
        BY <3>1, MetaNumbers DEF PointerLeads
    <3>2. ASSUME NEW p \in pointer PROVE \A m \in Metas : m.generation <= g
        <4>1. p \in Meta
            BY ClipBasics DEF Metas
        <4> QED
            BY <2>1, <4>1, ClipBasics, MetaNumbers DEF PointerLeads
    <3> QED
        BY <3>1, <3>2
  <2> QED
    BY <1>1, <1>2, <1>4, <2>2 DEF PointerLeads, Present
<1> QED
    BY <1>5, <1>6, <1>7, <1>8 DEF BuildInv

LEMMA RenamesKeepClipInv ==
    ASSUME ClipInv, ClipTyped', NEW b \in Builders,
           RenameIndex(b) \/ RenameIds(b) \/ RenamePointer(b)
    PROVE  ClipInv'
<1> USE DEF dbVars, diskVars, indexerVars, buildVars, ClipInv
<1> DEFINE saved == [generation |-> build.generation, snap |-> build.snap]
<1>1. /\ UNCHANGED <<vectors, clears, active, peeked, at, rebuildLock>>
      /\ build'.snap = build.snap /\ build'.files = build.files /\ build'.generation = build.generation
      /\ build.step \in {"index", "ids", "pointer"} /\ build'.step \in {"ids", "pointer", "publish"}
      /\ rebuildLock = b /\ rebuildLock # Unlocked
    BY TypeParts, Tasks DEF RenameIndex, RenameIds, RenamePointer, Building, Step, BuildTypes, LockIsHeld
<1>2. Metas' \subseteq Metas \cup {saved} /\ saved.snap = build.snap
    BY <1>1 DEF RenameIndex, RenameIds, RenamePointer, Metas
<1>3. \A g \in Generations :
         indexFiles'[g] \subseteq indexFiles[g] \cup (IF g = build.generation THEN {build.files} ELSE {})
    BY TypeParts DEF RenameIndex, RenameIds, RenamePointer, FileTypes
<1>4. indexFiles'[build.generation] \subseteq {build.files}
    BY <1>1, TypeParts, ClipBasics DEF RenameIndex, RenameIds, RenamePointer, FileTypes, BuildInv, BuildWrites,
       Building
<1>5. LockIsHeld' /\ ClearerWaits' /\ LoadedMatch'
    BY <1>1 DEF LockIsHeld, ClearerWaits, At, LoadedMatch, Matches, Fresh
<1>6. SnapsArePast' /\ NoneFresher'
    BY <1>1, <1>2 DEF BuildInv, SnapsArePast, IsPast, Fresh, NoneFresher
<1>7. BuildReads' /\ BuildWrites'
    BY <1>1, <1>4 DEF BuildInv, BuildReads, BuildWrites, Fresh
<1>8. FilesAreFresh'
  <2> SUFFICES ASSUME NEW m \in Metas', Fresh(m.snap), NEW files \in indexFiles'[m.generation]
               PROVE  files \subseteq vectors
    BY <1>1 DEF FilesAreFresh, Fresh
  <2>1. Fresh(build.snap)
    BY <1>1, <1>2 DEF BuildInv, NoneFresher
  <2>2. build.files \subseteq vectors
    BY <2>1 DEF BuildInv, BuildReads
  <2>3. m.generation \in Generations
    BY <1>2, ClipBasics, MetaNumbers
  <2>4. CASE m.generation = build.generation
    BY <1>4, <2>2, <2>4
  <2>5. CASE m.generation # build.generation
    BY <1>2, <1>3, <2>3, <2>5 DEF FilesAreFresh
  <2> QED
    BY <2>4, <2>5
<1>9. PointerLeads'
  <2> SUFFICES ASSUME clears = 0 PROVE PointerLeads'
    BY <1>1 DEF PointerLeads
  <2>1. /\ \A p \in pointer : Present(p) /\ p.generation \in Generations
        /\ \A m \in Metas : m.generation \in Generations /\ m.generation <= build.generation
    BY <1>1, ClipBasics, MetaNumbers DEF PointerLeads, Metas
  <2>2. \A m \in Metas' : m.generation <= build.generation
    BY <1>2, <2>1, ClipBasics, MetaNumbers
  <2>3. CASE RenameIndex(b)
    <3>1. /\ UNCHANGED <<idsFiles, pointer>> /\ build'.step = "ids"
          /\ indexFiles' = [indexFiles EXCEPT ![build.generation] = {build.files}]
        BY <2>3, TypeParts DEF RenameIndex, Step, BuildTypes
    <3>2. /\ indexFiles'[build.generation] # {}
          /\ \A p \in pointer : Present(p)'
        BY <3>1, <2>1, TypeParts, ClipBasics DEF FileTypes, Present
    <3>3. Metas' = Metas
        BY <3>1, <1>1, SamePeeks
    <3> QED
        BY <1>1, <2>1, <2>2, <3>1, <3>2, <3>3 DEF PointerLeads
  <2>4. CASE RenameIds(b)
    <3>1. /\ UNCHANGED <<indexFiles, pointer>> /\ build.step = "ids" /\ build'.step = "pointer"
          /\ idsFiles' = [idsFiles EXCEPT ![build.generation] = {Cardinality(build.files)}]
        BY <2>4, TypeParts DEF RenameIds, Step, BuildTypes, Building
    <3>2. /\ indexFiles'[build.generation] # {} /\ idsFiles'[build.generation] # {}
          /\ \A p \in pointer : Present(p)'
        BY <3>1, <2>1, TypeParts, ClipBasics DEF FileTypes, Present, PointerLeads
    <3>3. Metas' = Metas
        BY <3>1, <1>1, SamePeeks
    <3> QED
        BY <1>1, <2>1, <2>2, <3>1, <3>2, <3>3 DEF PointerLeads
  <2>5. CASE RenamePointer(b)
    <3>1. /\ UNCHANGED <<indexFiles, idsFiles>> /\ build.step = "pointer" /\ pointer' = {saved}
        BY <2>5 DEF RenamePointer, Building
    <3>2. indexFiles'[build.generation] # {} /\ idsFiles'[build.generation] # {}
        BY <3>1 DEF PointerLeads
    <3>3. pointer' # {} /\ \A p \in pointer' : p.generation = build.generation
        BY <3>1
    <3>4. \A p \in pointer' : Present(p)'
        BY <3>2, <3>3 DEF Present
    <3> QED
        BY <1>1, <2>1, <2>2, <3>1, <3>2, <3>3, <3>4, ClipBasics, MetaNumbers DEF PointerLeads
  <2> QED
    BY <2>3, <2>4, <2>5
<1> QED
    BY <1>5, <1>6, <1>7, <1>8, <1>9 DEF BuildInv

(***************************************************************************)
(* Replacing the active index cleans up the generations below its own,     *)
(* never the pointer's.                                                    *)
(***************************************************************************)
LEMMA ActivateKeepsFiles ==
    ASSUME ClipInv, NEW meta \in Meta, NEW files, Activate(meta, files),
           UNCHANGED <<vectors, clears, pointer>>,
           Metas' \subseteq Metas \cup {meta, NoMeta},
           Fresh(meta.snap) => \A f \in indexFiles[meta.generation] : f \subseteq vectors,
           \A p \in pointer : clears = 0 => meta.generation <= p.generation
    PROVE  /\ FilesAreFresh' /\ active' = {[meta |-> meta, files |-> files]}
           /\ \A g \in Generations : indexFiles'[g] \subseteq indexFiles[g]
           /\ clears = 0 => \A p \in pointer : Present(p)'
           /\ \A g \in Generations : meta.generation <= g =>
                 indexFiles'[g] = indexFiles[g] /\ idsFiles'[g] = idsFiles[g]
<1> USE DEF ClipInv
<1>1. /\ active' = {[meta |-> meta, files |-> files]}
      /\ indexFiles' = [g \in Generations |-> IF g < meta.generation THEN {} ELSE indexFiles[g]]
      /\ idsFiles' = [g \in Generations |-> IF g < meta.generation THEN {} ELSE idsFiles[g]]
    BY DEF Activate
<1>2. \A g \in Generations : indexFiles'[g] \subseteq indexFiles[g]
    BY <1>1
<1>3. \A g \in Generations : meta.generation <= g =>
         indexFiles'[g] = indexFiles[g] /\ idsFiles'[g] = idsFiles[g]
    BY <1>1, MetaNumbers
<1>4. \A m \in Metas' : m.generation \in Generations
    BY ClipBasics, StartTypes, MetaNumbers
<1>5. FilesAreFresh'
    BY <1>2, <1>4, StaleStart DEF FilesAreFresh, Fresh
<1>6. clears = 0 => \A p \in pointer : Present(p)'
    BY <1>3, ClipBasics, MetaNumbers DEF PointerLeads, Present, Metas
<1> QED
    BY <1>1, <1>2, <1>3, <1>5, <1>6

LEMMA PublishKeepsClipInv ==
    ASSUME ClipInv, ClipTyped', NEW b \in Builders, Publish(b)
    PROVE  ClipInv'
<1> USE DEF dbVars, diskVars, indexerVars, buildVars, ClipInv
<1> DEFINE saved == [generation |-> build.generation, snap |-> build.snap]
<1>1. /\ UNCHANGED <<vectors, clears, pointer, peeked>> /\ build.step = "publish" /\ At(b, "build")
      /\ rebuildLock' = Unlocked /\ build' = NoBuild /\ GoTo(b, IF b = Worker THEN "end" ELSE "search")
    BY DEF Publish, GiveBack, Building
<1>2. PICK files \in indexFiles[build.generation] : Activate(saved, files)
    BY DEF Publish
<1>3. saved \in Meta /\ saved.snap = build.snap /\ saved.generation = build.generation
    BY ClipBasics DEF Meta
<1>4. files = build.files
    BY <1>1 DEF BuildInv, BuildWrites
<1>5. active' = {[meta |-> saved, files |-> build.files]}
    BY <1>2, <1>4 DEF Activate
<1> HIDE DEF saved
<1>6. Metas' \subseteq Metas \cup {saved, NoMeta}
    BY <1>1, <1>5 DEF Metas
<1>7. Fresh(build.snap) =>
         build.files \subseteq vectors /\ Cardinality(build.files) = build.snap.count
    BY <1>1 DEF BuildInv, BuildReads
<1>8. /\ Fresh(saved.snap) => \A f \in indexFiles[saved.generation] : f \subseteq vectors
      /\ \A p \in pointer : clears = 0 => saved.generation <= p.generation
    BY <1>1, <1>3, <1>7 DEF BuildInv, BuildWrites, PointerLeads, Metas
<1>9. FilesAreFresh' /\ (clears = 0 => \A p \in pointer : Present(p)')
    BY <1>1, <1>2, <1>3, <1>6, <1>8, ActivateKeepsFiles
<1>10. LockIsHeld' /\ ClearerWaits'
    BY <1>1, Tasks DEF GoTo, At, ClipTyped, AtTyped, LockIsHeld, ClearerWaits
<1>11. SnapsArePast' /\ BuildReads' /\ BuildWrites' /\ NoneFresher'
  <2>1. ~Fresh(NoBuild.snap)' /\ IsPast(NoBuild.snap)' /\ NoBuild.step = "read"
        /\ IsPast(NoMeta.snap)'
    BY <1>1, StaleStart DEF Fresh, IsPast, NoBuild
  <2> QED
    BY <1>1, <1>3, <1>6, <2>1 DEF BuildInv, SnapsArePast, BuildReads, BuildWrites, NoneFresher, IsPast, Fresh
<1>12. LoadedMatch'
    BY <1>1, <1>3, <1>5, <1>7, Tasks DEF LoadedMatch, Matches, Fresh, GoTo, At, ClipTyped, AtTyped
<1>13. PointerLeads'
  <2> SUFFICES ASSUME clears = 0 PROVE PointerLeads'
    BY <1>1 DEF PointerLeads
  <2>1. PICK p \in pointer : saved.generation = p.generation
    BY <1>1, <1>3 DEF PointerLeads
  <2>2. p \in Metas /\ \A q \in pointer : saved.generation <= q.generation
    BY <2>1, <1>8 DEF Metas
  <2>3. \A m \in Metas' : \A q \in pointer : m.generation <= q.generation
    BY <1>6, <2>2, StaleStart, ClipBasics, MetaNumbers DEF PointerLeads, Metas
  <2> QED
    BY <1>1, <1>9, <2>1, <2>3 DEF PointerLeads, NoBuild
<1> QED
    BY <1>9, <1>10, <1>11, <1>12, <1>13 DEF BuildInv

LEMMA FailKeepsClipInv ==
    ASSUME ClipInv, ClipTyped', NEW b \in Builders, FailRebuild(b)
    PROVE  ClipInv'
<1> USE DEF dbVars, diskVars, indexerVars, buildVars, ClipInv
<1>1. /\ UNCHANGED <<vectors, clears, indexFiles, idsFiles, pointer, active, peeked>> /\ At(b, "build")
      /\ rebuildLock' = Unlocked /\ build' = NoBuild /\ GoTo(b, IF b = Worker THEN "end" ELSE "idle")
    BY DEF FailRebuild, GiveBack
<1>2. Metas' = Metas
    BY <1>1, SamePeeks
<1>3. LockIsHeld' /\ ClearerWaits'
    BY <1>1, Tasks DEF GoTo, At, ClipTyped, AtTyped, LockIsHeld, ClearerWaits
<1>4. ~Fresh(NoBuild.snap)' /\ IsPast(NoBuild.snap)' /\ NoBuild.step = "read"
    BY <1>1, StaleStart DEF Fresh, IsPast, NoBuild
<1>5. SnapsArePast' /\ BuildReads' /\ BuildWrites' /\ NoneFresher' /\ FilesAreFresh'
    BY <1>1, <1>2, <1>4 DEF BuildInv, SnapsArePast, BuildReads, BuildWrites, NoneFresher, IsPast, Fresh,
       FilesAreFresh
<1>6. LoadedMatch'
    BY <1>1, Tasks DEF LoadedMatch, Matches, Fresh, GoTo, At, ClipTyped, AtTyped
<1>7. PointerLeads'
    BY <1>1, <1>2, <1>4 DEF PointerLeads, Present
<1> QED
    BY <1>3, <1>5, <1>6, <1>7 DEF BuildInv

LEMMA ActivateKeepsClipInv ==
    ASSUME ClipInv, ClipTyped', NEW s \in Searchers, ActivateLoaded(s)
    PROVE  ClipInv'
<1> USE DEF dbVars, diskVars, indexerVars, buildVars, ClipInv
<1>0. peeked \in [Searchers -> [meta : Meta, files : SUBSET ClipFiles]]
    BY TypeParts DEF PeekedTypes
<1>1. /\ UNCHANGED <<vectors, clears, pointer, rebuildLock, build>> /\ At(s, "activate")
      /\ GoTo(s, "search") /\ Activate(peeked[s].meta, peeked[s].files)
      /\ peeked' = [peeked EXCEPT ![s] = NothingPeeked]
    BY DEF ActivateLoaded, Moves
<1>2. peeked[s].meta \in Metas /\ peeked[s].meta \in Meta /\ Matches(peeked[s])
    BY <1>0, <1>1 DEF Metas, LoadedMatch
<1>3. Metas' \subseteq Metas \cup {peeked[s].meta, NoMeta}
    BY <1>0, <1>1 DEF Activate, Metas, NothingPeeked
<1>4. /\ Fresh(peeked[s].meta.snap) => \A f \in indexFiles[peeked[s].meta.generation] : f \subseteq vectors
      /\ \A p \in pointer : clears = 0 => peeked[s].meta.generation <= p.generation
    BY <1>2 DEF FilesAreFresh, PointerLeads
<1>5. /\ FilesAreFresh' /\ active' = {[meta |-> peeked[s].meta, files |-> peeked[s].files]}
      /\ \A g \in Generations : indexFiles'[g] \subseteq indexFiles[g]
      /\ clears = 0 => \A p \in pointer : Present(p)'
      /\ \A g \in Generations : peeked[s].meta.generation <= g =>
            indexFiles'[g] = indexFiles[g] /\ idsFiles'[g] = idsFiles[g]
    BY <1>1, <1>2, <1>3, <1>4, ActivateKeepsFiles
<1>6. LockIsHeld' /\ ClearerWaits'
    BY <1>1, Tasks DEF GoTo, At, ClipTyped, AtTyped, LockIsHeld, ClearerWaits
<1>7. SnapsArePast' /\ BuildReads' /\ NoneFresher'
    BY <1>1, <1>2, <1>3, StaleStart DEF BuildInv, SnapsArePast, BuildReads, NoneFresher, IsPast, Fresh
<1>8. BuildWrites'
    BY <1>1, <1>5, ClipBasics DEF BuildInv, BuildWrites
<1>9. LoadedMatch'
    BY <1>0, <1>1, <1>2, <1>5, Tasks DEF LoadedMatch, Matches, Fresh, GoTo, At, ClipTyped, AtTyped
<1>10. PointerLeads'
  <2> SUFFICES ASSUME clears = 0 PROVE PointerLeads'
    BY <1>1 DEF PointerLeads
  <2>1. /\ \A m \in Metas' : (pointer = {} => m.generation = 1)
                             /\ \A p \in pointer : m.generation <= p.generation
        /\ build.step \notin {"read", "after"} => \A m \in Metas' : m.generation <= build.generation
    BY <1>2, <1>3, StaleStart, ClipBasics, MetaNumbers DEF PointerLeads, Metas
  <2>2. build.step \notin {"read", "after"} =>
           /\ indexFiles'[build.generation] = indexFiles[build.generation]
           /\ idsFiles'[build.generation] = idsFiles[build.generation]
    BY <1>2, <1>5, ClipBasics DEF PointerLeads
  <2> QED
    BY <1>1, <1>5, <2>1, <2>2 DEF PointerLeads
<1> QED
    BY <1>5, <1>6, <1>7, <1>8, <1>9, <1>10 DEF BuildInv

LEMMA CrashKeepsClipInv ==
    ASSUME ClipInv, ClipTyped', ClipCrash
    PROVE  ClipInv'
<1> USE DEF dbVars, diskVars, indexerVars, buildVars, ClipInv
<1>1. /\ UNCHANGED <<vectors, clears, indexFiles, idsFiles, pointer>> /\ active' = {}
      /\ at' = [t \in Builders \cup {Clearer} |-> "idle"]
      /\ peeked' = [s \in Searchers |-> NothingPeeked]
      /\ rebuildLock' = Unlocked /\ build' = NoBuild
    BY DEF ClipCrash, ClipTyped, AtTyped
<1>2. Metas' \subseteq Metas \cup {NoMeta}
    BY <1>1 DEF Metas, NothingPeeked
<1>3. LockIsHeld' /\ ClearerWaits'
    BY <1>1, Tasks DEF At, LockIsHeld, ClearerWaits
<1>4. ~Fresh(NoBuild.snap)' /\ IsPast(NoBuild.snap)' /\ NoBuild.step = "read"
    BY <1>1, StaleStart DEF Fresh, IsPast, NoBuild
<1>5. SnapsArePast' /\ BuildReads' /\ BuildWrites' /\ NoneFresher' /\ FilesAreFresh'
    BY <1>1, <1>2, <1>4, StaleStart DEF BuildInv, SnapsArePast, BuildReads, BuildWrites, NoneFresher,
       IsPast, Fresh, FilesAreFresh
<1>6. LoadedMatch'
    BY <1>1, Tasks DEF LoadedMatch, At
<1>7. PointerLeads'
  <2> SUFFICES ASSUME clears = 0 PROVE PointerLeads'
    BY <1>1 DEF PointerLeads
  <2>1. \A p \in pointer : Present(p)' /\ p.generation \in Generations
    BY <1>1, ClipBasics, MetaNumbers DEF PointerLeads, Present, Metas
  <2>2. \A m \in Metas' : (pointer = {} => m.generation = 1)
                         /\ \A p \in pointer : m.generation <= p.generation
    BY <1>2, <2>1, StaleStart, MetaNumbers DEF PointerLeads
  <2> QED
    BY <1>1, <1>4, <2>1, <2>2 DEF PointerLeads
<1> QED
    BY <1>3, <1>5, <1>6, <1>7 DEF BuildInv

LEMMA InitClipInv == ClipInit => ClipInv
<1> SUFFICES ASSUME ClipInit PROVE ClipInv
    OBVIOUS
<1>1. ClipTyped
    BY ClipInitTyped
<1>2. /\ active = {} /\ pointer = {} /\ build = NoBuild /\ rebuildLock = Unlocked /\ clears = 0
      /\ \A t \in Builders \cup {Clearer} : at[t] = "idle"
      /\ peeked = [s \in Searchers |-> NothingPeeked]
    BY DEF ClipInit
<1>3. Metas \subseteq {NoMeta}
    BY <1>2 DEF Metas, NothingPeeked
<1>4. LockIsHeld /\ ClearerWaits /\ LoadedMatch
    BY <1>2, Tasks DEF LockIsHeld, ClearerWaits, LoadedMatch, At
<1>5. BuildInv /\ FilesAreFresh
    BY <1>1, <1>2, <1>3, StaleStart DEF BuildInv, SnapsArePast, BuildReads, BuildWrites, NoneFresher, FilesAreFresh,
       NoBuild
<1>6. PointerLeads
    BY <1>1, <1>2, <1>3, StaleStart DEF PointerLeads, NoBuild
<1> QED
    BY <1>1, <1>4, <1>5, <1>6 DEF ClipInv

LEMMA ClipInvKept == ClipInv /\ [ClipNext]_clipVars => ClipInv'
<1> SUFFICES ASSUME ClipInv, [ClipNext]_clipVars PROVE ClipInv'
    OBVIOUS
<1>1. ClipTyped'
    BY ClipTypesKept DEF ClipInv
<1>2. CASE UNCHANGED clipVars
  <2>1. UNCHANGED <<vectors, clears, indexFiles, idsFiles, pointer, active, rebuildLock, build, at, peeked>>
    BY <1>2 DEF clipVars, dbVars, diskVars, indexerVars, buildVars
  <2>2. Metas' \subseteq Metas \cup {NoMeta}
    BY <2>1, SamePeeks
  <2>3. at'[Clearer] = "lock" => clears > 0
    BY <2>1 DEF ClipInv, ClearerWaits, At
  <2>4. \A s \in Searchers : at'[s] = "activate" => Matches(peeked'[s])
    BY <2>1 DEF ClipInv, LoadedMatch, At
  <2> QED
    BY <1>1, <2>1, <2>2, <2>3, <2>4, QuietStep
<1>3. ASSUME NEW b \in Builders, RebuildStep(b) PROVE ClipInv'
    BY <1>1, <1>3, ReadKeepsClipInv, CompareKeepsClipInv, RenamesKeepClipInv, PublishKeepsClipInv, FailKeepsClipInv
       DEF RebuildStep
<1>4. ASSUME NEW s \in Searchers, BeginSearch(s) \/ SearchStep(s) PROVE ClipInv'
    BY <1>1, <1>4, SearchKeepsClipInv, ActivateKeepsClipInv DEF SearchStep
<1>5. CASE SaveVectors \/ DeleteVectors \/ ClearIndex \/ ClipCrash
    BY <1>1, <1>5, GrowthKeepsClipInv, DeleteKeepsClipInv, ClearKeepsClipInv, CrashKeepsClipInv
<1> QED
    BY <1>1, <1>2, <1>3, <1>4, <1>5, BeginKeepsClipInv, IndexerKeepsClipInv DEF ClipNext, WorkerStep

(***************************************************************************)
(* What a search is answered from, and what a restart finds, are whole.    *)
(***************************************************************************)
THEOREM IndexStaysExact == ClipSpec => []IndexIsExact
<1>1. ClipInv => IndexIsExact
  <2> SUFFICES ASSUME ClipInv PROVE IndexIsExact
    OBVIOUS
  <2>1. ASSUME NEW loaded \in active, vectors # {}, loaded.meta.snap = Snapshot
        PROVE  loaded.files = vectors
    <3>1. Fresh(loaded.meta.snap) /\ loaded.meta.snap.count = Cardinality(vectors)
        BY <2>1 DEF Snapshot, Fresh
    <3>2. loaded.files \subseteq vectors /\ Cardinality(loaded.files) = Cardinality(vectors)
        BY <3>1 DEF ClipInv, LoadedMatch, Matches
    <3>3. IsFiniteSet(vectors)
        BY CountsOfFiles, ClipBasics DEF ClipInv
    <3> QED
        BY <3>2, <3>3, FS_Subset
  <2> QED
    BY <2>1 DEF ClipInv, PointerLeads, IndexIsExact, CurrentIsExact, PointerIsComplete
<1> QED
    BY <1>1, InitClipInv, ClipInvKept, PTL DEF ClipSpec

THEOREM ClipTypes == ClipSpec => []ClipTypeOK
<1>1. ClipInv => ClipTypeOK
    BY DEF ClipInv, ClipTyped
<1> QED
    BY <1>1, InitClipInv, ClipInvKept, PTL DEF ClipSpec

-----------------------------------------------------------------------------
(***************************************************************************)
(* The watcher.  A thread is started only where no watcher is installed,   *)
(* and one that loses its watcher has been told in the same step.          *)
(***************************************************************************)
FsEvent == [path : Paths, action : Actions \ {"none"}]

DiskTyped ==
    /\ onDisk \in [Paths -> Versions] /\ changes \in 0 .. ChangeBound
    /\ fsEvents \in [Loops -> Seq(FsEvent)]

ThreadsTyped ==
    /\ watching \in Loops \cup {NoLoop} /\ told \subseteq Loops
    /\ looping \in [Loops -> {"unborn", "top", "receive", "flush", "write", "ended"}]

GatheredTyped ==
    /\ pending \in [Loops -> [Paths -> Actions]] /\ items \in [Loops -> [Paths -> Actions]]

RowsTyped ==
    /\ rows \in [Paths -> Versions] /\ missed \subseteq Paths
    /\ looked \in [Loops -> [path : Paths, version : Versions]]

LEMMA WatchTypeParts ==
    WatchTypeOK <=> DiskTyped /\ ThreadsTyped /\ GatheredTyped /\ RowsTyped
BY DEF WatchTypeOK, DiskTyped, ThreadsTyped, GatheredTyped, RowsTyped, FsEvent

LEMMA InitWatch == WatchInit => WatchTypeOK /\ OneLoopGoesOn
<1> SUFFICES ASSUME WatchInit PROVE WatchTypeOK /\ OneLoopGoesOn
    OBVIOUS
<1> USE WatcherAssumption
<1>1. 0 \in Versions /\ 1 \in Versions
    BY DEF Versions
<1>2. (CHOOSE p \in Paths : TRUE) \in Paths
    OBVIOUS
<1>3. NoActions \in [Paths -> Actions]
    BY DEF NoActions, Actions
<1>4. DiskTyped
    BY <1>1 DEF WatchInit, DiskTyped
<1>5. ThreadsTyped /\ OneLoopGoesOn
    BY DEF WatchInit, ThreadsTyped, OneLoopGoesOn
<1>6. GatheredTyped
    BY <1>3 DEF WatchInit, GatheredTyped
<1>7. RowsTyped
    BY <1>1, <1>2 DEF WatchInit, RowsTyped
<1> QED
    BY <1>4, <1>5, <1>6, <1>7, WatchTypeParts

LEMMA DiskKept == DiskTyped /\ ThreadsTyped /\ [WatchNext]_watchVars => DiskTyped'
<1> SUFFICES ASSUME DiskTyped, ThreadsTyped, [WatchNext]_watchVars PROVE DiskTyped'
    OBVIOUS
<1> USE WatcherAssumption
<1>1. ASSUME NEW p \in Paths, NEW version \in Versions, NEW action \in Actions \ {"none"},
             Change(p, version, action)
      PROVE  DiskTyped'
    <2>1. onDisk' \in [Paths -> Versions] /\ changes' \in 0 .. ChangeBound
        BY <1>1 DEF Change, DiskTyped
    <2>2. CASE watching = NoLoop
        BY <1>1, <2>1, <2>2 DEF Change, DiskTyped
    <2>3. CASE watching # NoLoop
        <3>1. watching \in Loops /\ [path |-> p, action |-> action] \in FsEvent
            BY <2>3 DEF ThreadsTyped, FsEvent
        <3>2. Append(fsEvents[watching], [path |-> p, action |-> action]) \in Seq(FsEvent)
            BY <3>1 DEF DiskTyped
        <3>3. fsEvents' = [fsEvents EXCEPT ![watching] =
                               Append(@, [path |-> p, action |-> action])]
            BY <1>1, <2>3 DEF Change
        <3> QED
            BY <2>1, <3>1, <3>2, <3>3 DEF DiskTyped
    <2> QED
        BY <2>2, <2>3
<1>2. ASSUME NEW p \in Paths, Appear(p) \/ Modify(p) \/ Remove(p) \/ RenameAway(p)
      PROVE  DiskTyped'
    <2>1. changes < ChangeBound
        BY <1>2 DEF Appear, Modify, Remove, RenameAway, Change
    <2>2. 0 \in Versions /\ changes + 2 \in Versions
        BY <2>1 DEF DiskTyped, Versions
    <2> QED
        BY <1>1, <1>2, <2>2 DEF Appear, Modify, Remove, RenameAway, Actions
<1>3. ASSUME UNCHANGED fsVars, fsEvents' \in [Loops -> Seq(FsEvent)] PROVE DiskTyped'
    BY <1>3 DEF DiskTyped, fsVars
<1>4. ASSUME NEW l \in Loops, EndLoop(l) \/ ReceiveChange(l) PROVE DiskTyped'
    <2>1. <<>> \in Seq(FsEvent) /\ (fsEvents[l] # <<>> => Tail(fsEvents[l]) \in Seq(FsEvent))
        BY DEF DiskTyped
    <2> QED
        BY <1>3, <1>4, <2>1 DEF EndLoop, ReceiveChange, DiskTyped
<1>5. ASSUME NEW l \in Loops,
             \/ StartWatching(l) \/ TurnLoop(l) \/ BeginFlush(l) \/ FlushDeleted(l)
             \/ FlushGone(l) \/ FlushLook(l) \/ FlushWrite(l) \/ EndFlush(l)
      PROVE  DiskTyped'
    <2>1. UNCHANGED <<fsVars, fsEvents>>
        BY <1>5 DEF StartWatching, TurnLoop, BeginFlush, FlushDeleted, FlushGone, FlushLook,
                    FlushWrite, EndFlush
    <2> QED
        BY <1>3, <2>1 DEF DiskTyped
<1>6. CASE StopWatching \/ UNCHANGED watchVars
    BY <1>3, <1>6 DEF StopWatching, watchVars, fsVars, DiskTyped
<1> QED
    BY <1>2, <1>4, <1>5, <1>6 DEF WatchNext, LoopStep

LEMMA ThreadsKept ==
    ThreadsTyped /\ OneLoopGoesOn /\ [WatchNext]_watchVars => ThreadsTyped' /\ OneLoopGoesOn'
<1> SUFFICES ASSUME ThreadsTyped, OneLoopGoesOn, [WatchNext]_watchVars
             PROVE  ThreadsTyped' /\ OneLoopGoesOn'
    OBVIOUS
<1> USE DEF ThreadsTyped, OneLoopGoesOn
<1>1. ASSUME UNCHANGED <<watching, told, looping>> PROVE ThreadsTyped' /\ OneLoopGoesOn'
    BY <1>1
<1>2. ASSUME NEW p \in Paths, Appear(p) \/ Modify(p) \/ Remove(p) \/ RenameAway(p)
      PROVE  ThreadsTyped' /\ OneLoopGoesOn'
    BY <1>1, <1>2 DEF Appear, Modify, Remove, RenameAway, Change
<1>3. ASSUME NEW l \in Loops, StartWatching(l) PROVE ThreadsTyped' /\ OneLoopGoesOn'
    <2>1. 0 \notin Loops
        BY WatcherAssumption DEF Loops
    <2> QED
        BY <1>3, <2>1 DEF StartWatching, NoLoop
<1>4. CASE StopWatching
    BY <1>4 DEF StopWatching
<1>5. ASSUME NEW l \in Loops, looping[l] \notin {"unborn", "ended"},
             \E to \in {"top", "receive", "flush", "write", "ended"} :
                 looping' = [looping EXCEPT ![l] = to],
             UNCHANGED <<watching, told>>
      PROVE  ThreadsTyped' /\ OneLoopGoesOn'
    BY <1>5
<1>6. ASSUME NEW l \in Loops, LoopStep(l), UNCHANGED looping
      PROVE  ThreadsTyped' /\ OneLoopGoesOn'
    BY <1>1, <1>6 DEF LoopStep, TurnLoop, EndLoop, ReceiveChange, BeginFlush, FlushDeleted, FlushGone,
                      FlushLook, FlushWrite, EndFlush
<1>7. ASSUME NEW l \in Loops, FlushDeleted(l) \/ FlushGone(l)
      PROVE  ThreadsTyped' /\ OneLoopGoesOn'
    BY <1>6, <1>7 DEF LoopStep, FlushDeleted, FlushGone
<1>8. ASSUME NEW l \in Loops,
             \/ TurnLoop(l) \/ EndLoop(l) \/ ReceiveChange(l) \/ BeginFlush(l)
             \/ FlushLook(l) \/ FlushWrite(l) \/ EndFlush(l)
      PROVE  ThreadsTyped' /\ OneLoopGoesOn'
    <2>1. looping[l] \notin {"unborn", "ended"} /\ UNCHANGED <<watching, told>>
        BY <1>8 DEF TurnLoop, EndLoop, ReceiveChange, BeginFlush, FlushLook, FlushWrite, EndFlush
    <2>2. \E to \in {"top", "receive", "flush", "write", "ended"} :
              looping' = [looping EXCEPT ![l] = to]
        BY <1>8 DEF TurnLoop, EndLoop, ReceiveChange, BeginFlush, FlushLook, FlushWrite, EndFlush
    <2> QED
        BY <1>5, <2>1, <2>2
<1>9. CASE UNCHANGED watchVars
    BY <1>1, <1>9 DEF watchVars
<1> QED
    BY <1>2, <1>3, <1>4, <1>7, <1>8, <1>9 DEF WatchNext, LoopStep

LEMMA GatheredKept ==
    DiskTyped /\ GatheredTyped /\ [WatchNext]_watchVars => GatheredTyped'
<1> SUFFICES ASSUME DiskTyped, GatheredTyped, [WatchNext]_watchVars PROVE GatheredTyped'
    OBVIOUS
<1>1. ASSUME UNCHANGED <<pending, items>> PROVE GatheredTyped'
    BY <1>1 DEF GatheredTyped
<1>2. ASSUME NEW p \in Paths, Appear(p) \/ Modify(p) \/ Remove(p) \/ RenameAway(p)
      PROVE  GatheredTyped'
    BY <1>1, <1>2 DEF Appear, Modify, Remove, RenameAway, Change
<1>3. ASSUME NEW l \in Loops,
             StartWatching(l) \/ TurnLoop(l) \/ FlushWrite(l) \/ EndFlush(l)
      PROVE  GatheredTyped'
    BY <1>1, <1>3 DEF StartWatching, TurnLoop, FlushWrite, EndFlush
<1>4. ASSUME NEW l \in Loops, EndLoop(l) PROVE GatheredTyped'
    <2>1. NoActions \in [Paths -> Actions]
        BY DEF NoActions, Actions
    <2> QED
        BY <1>4, <2>1 DEF EndLoop, GatheredTyped
<1>5. ASSUME NEW l \in Loops, ReceiveChange(l) PROVE GatheredTyped'
    <2>1. PICK e \in FsEvent : e = Head(fsEvents[l])
        BY <1>5 DEF ReceiveChange, DiskTyped
    <2>2. e.path \in Paths /\ e.action \in Actions
        BY <2>1 DEF FsEvent
    <2>3. Gathered(e.action, pending[l][e.path]) \in Actions
        BY <2>2 DEF Gathered, GatheredTyped
    <2>4. pending' = [pending EXCEPT ![l] =
                         [@ EXCEPT ![e.path] = Gathered(e.action, pending[l][e.path])]]
        BY <1>5, <2>1 DEF ReceiveChange
    <2>5. [pending[l] EXCEPT ![e.path] = Gathered(e.action, pending[l][e.path])]
              \in [Paths -> Actions]
        BY <2>2, <2>3 DEF GatheredTyped
    <2>6. UNCHANGED items
        BY <1>5 DEF ReceiveChange
    <2> QED
        BY <2>4, <2>5, <2>6 DEF GatheredTyped
<1>6. ASSUME NEW l \in Loops, BeginFlush(l) PROVE GatheredTyped'
    <2>1. PICK taken \in SUBSET Paths :
              /\ items' = [items EXCEPT ![l] =
                    [p \in Paths |-> IF p \in taken THEN pending[l][p] ELSE "none"]]
              /\ pending' = [pending EXCEPT ![l] =
                    [p \in Paths |-> IF p \in taken THEN "none" ELSE pending[l][p]]]
        BY <1>6 DEF BeginFlush, GatheredTyped
    <2>2. /\ [p \in Paths |-> IF p \in taken THEN pending[l][p] ELSE "none"] \in [Paths -> Actions]
          /\ [p \in Paths |-> IF p \in taken THEN "none" ELSE pending[l][p]] \in [Paths -> Actions]
        BY DEF GatheredTyped, Actions
    <2> QED
        BY <2>1, <2>2 DEF GatheredTyped
<1>7. ASSUME NEW l \in Loops, FlushDeleted(l) \/ FlushGone(l) \/ FlushLook(l)
      PROVE  GatheredTyped'
    <2>1. PICK p \in Paths : Done(l, p) /\ UNCHANGED pending
        BY <1>7 DEF FlushDeleted, FlushGone, FlushLook
    <2>2. [items[l] EXCEPT ![p] = "none"] \in [Paths -> Actions]
        BY DEF GatheredTyped, Actions
    <2>3. items' = [items EXCEPT ![l] = [@ EXCEPT ![p] = "none"]]
        BY <2>1 DEF Done
    <2> QED
        BY <2>1, <2>2, <2>3 DEF GatheredTyped
<1>8. CASE StopWatching \/ UNCHANGED watchVars
    BY <1>1, <1>8 DEF StopWatching, watchVars
<1> QED
    BY <1>2, <1>3, <1>4, <1>5, <1>6, <1>7, <1>8 DEF WatchNext, LoopStep

LEMMA RowsKept ==
    DiskTyped /\ GatheredTyped /\ RowsTyped /\ [WatchNext]_watchVars => RowsTyped'
<1> SUFFICES ASSUME DiskTyped, GatheredTyped, RowsTyped, [WatchNext]_watchVars PROVE RowsTyped'
    OBVIOUS
<1> USE WatcherAssumption
<1>1. ASSUME UNCHANGED <<rows, looked>>, missed' \subseteq Paths PROVE RowsTyped'
    BY <1>1 DEF RowsTyped
<1>2. ASSUME NEW p \in Paths, Appear(p) \/ Modify(p) \/ Remove(p) \/ RenameAway(p)
      PROVE  RowsTyped'
    <2>1. UNCHANGED <<rows, looked>>
        BY <1>2 DEF Appear, Modify, Remove, RenameAway, Change
    <2>2. missed' \subseteq Paths
        BY <1>2 DEF Appear, Modify, Remove, RenameAway, Seen, RowsTyped
    <2> QED
        BY <1>1, <2>1, <2>2
<1>3. ASSUME NEW l \in Loops,
             \/ StartWatching(l) \/ TurnLoop(l) \/ ReceiveChange(l) \/ BeginFlush(l)
             \/ FlushGone(l) \/ EndFlush(l)
      PROVE  RowsTyped'
    <2>1. UNCHANGED <<rows, looked, missed>>
        BY <1>3 DEF StartWatching, TurnLoop, ReceiveChange, BeginFlush, FlushGone, EndFlush
    <2> QED
        BY <1>1, <2>1 DEF RowsTyped
<1>4. ASSUME NEW l \in Loops, EndLoop(l) PROVE RowsTyped'
    <2>1. \A i \in DOMAIN fsEvents[l] : fsEvents[l][i].path \in Paths
        <3>1. fsEvents[l] \in Seq(FsEvent)
            BY DEF DiskTyped
        <3>2. \A i \in DOMAIN fsEvents[l] : fsEvents[l][i] \in FsEvent
            BY <3>1
        <3> QED
            BY <3>2 DEF FsEvent
    <2>2. missed' = missed \cup {p \in Paths : pending[l][p] # "none"}
                          \cup {fsEvents[l][i].path : i \in DOMAIN fsEvents[l]}
        BY <1>4 DEF EndLoop
    <2>3. missed' \subseteq Paths
        BY <2>1, <2>2 DEF RowsTyped
    <2> QED
        BY <1>1, <1>4, <2>3 DEF EndLoop
<1>5. ASSUME NEW l \in Loops, FlushDeleted(l) \/ FlushWrite(l) PROVE RowsTyped'
    <2>1. PICK p \in Paths, version \in Versions : WriteRow(p, version)
        <3>1. CASE FlushDeleted(l)
            BY <3>1 DEF FlushDeleted, Versions
        <3>2. CASE FlushWrite(l)
            BY <3>2 DEF FlushWrite, RowsTyped
        <3> QED
            BY <1>5, <3>1, <3>2
    <2>2. rows' \in [Paths -> Versions] /\ missed' \subseteq Paths
        BY <2>1 DEF WriteRow, RowsTyped
    <2> QED
        BY <1>5, <2>2 DEF FlushDeleted, FlushWrite, RowsTyped
<1>6. ASSUME NEW l \in Loops, FlushLook(l) PROVE RowsTyped'
    <2>1. PICK p \in Paths : looked' = [looked EXCEPT ![l] = [path |-> p, version |-> onDisk[p]]]
        BY <1>6 DEF FlushLook
    <2>2. [path |-> p, version |-> onDisk[p]] \in [path : Paths, version : Versions]
        BY DEF DiskTyped
    <2> QED
        BY <1>6, <2>1, <2>2 DEF FlushLook, RowsTyped
<1>7. CASE StopWatching \/ UNCHANGED watchVars
    BY <1>1, <1>7 DEF StopWatching, watchVars, RowsTyped
<1> QED
    BY <1>2, <1>3, <1>4, <1>5, <1>6, <1>7 DEF WatchNext, LoopStep

\* For any files, threads and changes of the disk: of the threads ever started only the
\* one behind the installed watcher goes on without having been told to end, whatever
\* its predecessors are still flushing (watcher.rs:74-168).
THEOREM OneLoopStays == WatchSpec => [](WatchTypeOK /\ OneLoopGoesOn)
<1>1. WatchTypeOK /\ OneLoopGoesOn /\ [WatchNext]_watchVars => WatchTypeOK' /\ OneLoopGoesOn'
    <2>1. DiskTyped' /\ ThreadsTyped' /\ GatheredTyped' /\ RowsTyped' => WatchTypeOK'
        BY DEF WatchTypeOK, DiskTyped, ThreadsTyped, GatheredTyped, RowsTyped, FsEvent
    <2> QED
        BY <2>1, WatchTypeParts, DiskKept, ThreadsKept, GatheredKept, RowsKept
<1> QED
    BY <1>1, InitWatch, PTL DEF WatchSpec

-----------------------------------------------------------------------------
(***************************************************************************)
(* Types of the scheduler and of the event hub beyond what their           *)
(* invariants say: the history, the limit of an address, the lag counter,  *)
(* which counts clients that were closed.                                  *)
(***************************************************************************)
HistoryTyped == history \subseteq Firings /\ stateAlive \in BOOLEAN

LEMMA SchedTypes == SchedSpec => []SchedTypeOK
<1>1. SchedInit => HistoryTyped
    BY DEF SchedInit, HistoryTyped
<1>2. HistoryTyped /\ [SchedNext]_schedVars => HistoryTyped'
    <2> SUFFICES ASSUME HistoryTyped, [SchedNext]_schedVars PROVE HistoryTyped'
        OBVIOUS
    <2> USE DEF HistoryTyped
    <2>1. ASSUME NEW f \in Firings, CronFires(f) \/ PanicInJob(f) \/ FiringStep(f)
          PROVE  HistoryTyped'
        BY <2>1
        DEF CronFires, PanicInJob, FiringStep, ClaimFlag, SkipFiring, GiveUpFiring, BeginJob, RunJob,
            RecordExecution, SendEvent, ClearFlag
    <2>2. CASE DropState \/ UNCHANGED schedVars
        BY <2>2 DEF DropState, schedVars
    <2> QED
        BY <2>1, <2>2 DEF SchedNext
<1>3. SInv /\ HistoryTyped => SchedTypeOK
    BY DEF SInv, FiringsTyped, HistoryTyped, SchedTypeOK
<1> QED
    BY <1>1, <1>2, <1>3, InitSInv, StepSInv, PTL DEF SchedSpec

ClosedClients == {c \in Clients : client[c] = "closed"}

HubLimits ==
    /\ connections \in [Addresses -> 0 .. MaxPerAddress]
    /\ wanted \in [Clients -> SUBSET EventTypes]
    /\ laggedCount \in Nat /\ laggedCount <= Cardinality(ClosedClients)

LEMMA HubLimitsKept == HubInv /\ HubLimits /\ [HubNext]_hubVars => HubLimits'
<1> SUFFICES ASSUME HubInv, HubLimits, [HubNext]_hubVars PROVE HubLimits'
    OBVIOUS
<1> USE HubAssumption
<1>0. /\ client \in [Clients -> {"new", "counted", "streaming", "refused", "closed"}]
      /\ address \in [Clients -> Addresses]
    BY DEF HubInv, HubTyped
<1>1. IsFiniteSet(ClosedClients) /\ Cardinality(ClosedClients) \in Nat
    BY FS_Subset, FS_CardinalityType DEF ClosedClients
<1>2. ASSUME UNCHANGED <<connections, client, wanted, laggedCount>> PROVE HubLimits'
    BY <1>2 DEF HubLimits, ClosedClients
<1>3. ASSUME NEW c \in Clients, NEW to \in {"counted", "streaming", "refused"},
             client[c] # "closed", client' = [client EXCEPT ![c] = to],
             connections' \in [Addresses -> 0 .. MaxPerAddress],
             UNCHANGED <<wanted, laggedCount>>
      PROVE  HubLimits'
    <2>1. ClosedClients' = ClosedClients
        BY <1>0, <1>3 DEF ClosedClients
    <2> QED
        BY <1>3, <2>1 DEF HubLimits
<1>4. ASSUME NEW c \in Clients, Close(c), laggedCount' \in {laggedCount, laggedCount + 1}
      PROVE  HubLimits'
    <2>1. ClosedClients' = ClosedClients \cup {c} /\ c \notin ClosedClients
        BY <1>0, <1>4 DEF Close, ClosedClients
    <2>2. Cardinality(ClosedClients') = Cardinality(ClosedClients) + 1
        BY <1>1, <2>1, FS_AddElement
    <2>3. laggedCount' \in Nat /\ laggedCount' <= Cardinality(ClosedClients')
        BY <1>1, <1>4, <2>2 DEF HubLimits
    <2>4. connections' \in [Addresses -> 0 .. MaxPerAddress]
        <3>1. connections[address[c]] \in 0 .. MaxPerAddress
            BY <1>0 DEF HubLimits
        <3>2. (IF connections[address[c]] > 0 THEN connections[address[c]] - 1 ELSE 0)
                  \in 0 .. MaxPerAddress
            BY <3>1
        <3> QED
            BY <1>0, <1>4, <3>2 DEF Close, HubLimits
    <2>5. UNCHANGED wanted
        BY <1>4 DEF Close
    <2> QED
        BY <2>3, <2>4, <2>5 DEF HubLimits
<1>5. ASSUME NEW c \in Clients, Register(c) PROVE HubLimits'
    <2>1. connections[address[c]] \in 0 .. MaxPerAddress /\ connections[address[c]] < MaxPerAddress
        BY <1>0, <1>5 DEF HubLimits, Register
    <2>2. connections[address[c]] + 1 \in 0 .. MaxPerAddress
        BY <2>1
    <2>3. connections' \in [Addresses -> 0 .. MaxPerAddress]
        BY <1>0, <1>5, <2>2 DEF Register, HubLimits
    <2> QED
        BY <1>3, <1>5, <2>3 DEF Register
<1>6. ASSUME NEW c \in Clients, RefuseClient(c) \/ Subscribe(c) PROVE HubLimits'
    BY <1>3, <1>6 DEF RefuseClient, Subscribe, HubLimits
<1>7. ASSUME NEW c \in Clients, ReceiveEvent(c) PROVE HubLimits'
    BY <1>2, <1>7 DEF ReceiveEvent
<1>8. ASSUME NEW c \in Clients, Lag(c) \/ Disconnect(c) PROVE HubLimits'
    BY <1>4, <1>8 DEF Lag, Disconnect
<1>9. CASE SendHubEvent \/ UNCHANGED hubVars
    BY <1>2, <1>9 DEF SendHubEvent, hubVars
<1> QED
    BY <1>5, <1>6, <1>7, <1>8, <1>9 DEF HubNext

LEMMA HubTypes == HubSpec => []HubTypeOK
<1>1. HubInit => HubLimits
    <2> SUFFICES ASSUME HubInit PROVE HubLimits
        OBVIOUS
    <2>1. ClosedClients = {} /\ Cardinality({}) = 0
        BY FS_EmptySet DEF HubInit, ClosedClients
    <2>2. laggedCount \in Nat /\ laggedCount <= Cardinality(ClosedClients)
        BY <2>1 DEF HubInit
    <2> QED
        BY <2>2, HubAssumption DEF HubInit, HubLimits
<1>2. HubInv /\ HubLimits => HubTypeOK
    <2> SUFFICES ASSUME HubInv, HubLimits PROVE HubTypeOK
        OBVIOUS
    <2>1. ClosedClients \subseteq Clients /\ IsFiniteSet(Clients)
        BY HubAssumption DEF ClosedClients
    <2>2. /\ Cardinality(ClosedClients) <= Cardinality(Clients)
          /\ Cardinality(ClosedClients) \in Nat /\ Cardinality(Clients) \in Nat
        BY <2>1, FS_Subset, FS_CardinalityType
    <2>3. laggedCount \in 0 .. Cardinality(Clients)
        BY <2>2 DEF HubLimits
    <2> QED
        BY <2>3 DEF HubInv, HubTyped, HubLimits, HubTypeOK
<1> QED
    BY <1>1, <1>2, HubLimitsKept, HubInitInv, HubKeepsInv, PTL DEF HubSpec

-----------------------------------------------------------------------------
(***************************************************************************)
(* All services side by side.  A behaviour of MCServices, in which one     *)
(* part is in focus, is one of each part's own specification.              *)
(***************************************************************************)
SideBySide == ControlSpec /\ ClipSpec /\ TaggerSpec /\ SchedSpec /\ HubSpec /\ WatchSpec

LEMMA FocusIsOneOfThem == ServicesSpec => SideBySide
<1>1. ServicesInit =>
          ControlInit /\ ClipInit /\ TaggerInit /\ SchedInit /\ HubInit /\ WatchInit
    BY DEF ServicesInit
<1>2. [ServicesNext]_serviceVars =>
          /\ [ControlNext]_controlVars /\ [ClipNext]_clipVars /\ [TaggerNext]_taggerVars
          /\ [SchedNext]_schedVars /\ [HubNext]_hubVars /\ [WatchNext]_watchVars
    BY Zenon
    DEF ServicesNext, serviceVars, ControlFocus, ClipFocus, MeshFocus, SchedFocus, HubFocus,
        WatchFocus
<1> QED
    BY <1>1, <1>2, PTL
    DEF ServicesSpec, SideBySide, ControlSpec, ClipSpec, TaggerSpec, SchedSpec, HubSpec, WatchSpec

\* Whatever the services do side by side, the tables of each are well-typed and an
\* address is charged for its open streams and no others (registry.rs, clip_index.rs,
\* wd_tagger.rs, scheduler.rs, sse/mod.rs, watcher.rs).
THEOREM TablesStayExact == SideBySide => []TablesAreExact
<1>1. WatchTypeOK /\ OneLoopGoesOn => WatchTypeOK
    OBVIOUS
<1>2. /\ ControlTypeOK /\ ClipTypeOK /\ TaggerTypeOK /\ SchedTypeOK /\ HubTypeOK /\ WatchTypeOK
      /\ ConnectionsAreExact
      => TablesAreExact
    BY DEF TablesAreExact, ServicesTypeOK
<1> QED
    BY <1>1, <1>2, ControlTypes, ClipTypes, TaggerTypes, SchedTypes, HubTypes,
       OneLoopStays, AddressesStayCharged, PTL DEF SideBySide

\* The same of a behaviour in which one service is in focus.
COROLLARY TablesExactInFocus == ServicesSpec => []TablesAreExact
BY FocusIsOneOfThem, TablesStayExact, PTL
=============================================================================
