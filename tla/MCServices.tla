----------------------------- MODULE MCServices -----------------------------
(***************************************************************************)
(* Small instances of the services beside the streams, and of the stream   *)
(* configuration.  Each behaviour is one of one part: focus names it, the  *)
(* others rest in their initial state.                                     *)
(***************************************************************************)
EXTENDS StreamControl, ClipIndex, TaggerMesh, Scheduler, EventHub, Watcher

VARIABLE focus

serviceVars == <<focus, controlVars, clipVars, taggerVars, schedVars, hubVars, watchVars>>

\* Bound: one client at least wants every event, and one file at most is there.
ServicesInit ==
    /\ focus \in {"control", "clip", "mesh", "sched", "hub", "watch"}
    /\ ControlInit /\ ClipInit /\ TaggerInit /\ SchedInit /\ HubInit /\ WatchInit
    /\ \A f \in Firings : f = 1 \/ focus # "sched" => jobOf[f] = CHOOSE j \in CronJobs : TRUE
    /\ \E c \in Clients : wanted[c] = EventTypes
    /\ \A p \in Paths : focus # "watch" \/ p # (CHOOSE q \in Paths : TRUE) => onDisk[p] = 0
    /\ focus # "hub" => wanted = [c \in Clients |-> EventTypes]

\* Bound: handlers, which are alike, begin in the order of their numbers.
ControlFocus ==
    /\ focus = "control" /\ ControlNext
    /\ \A h \in Handlers : hpc[h] = "idle" /\ hpc'[h] # "idle" =>
          \A g \in 1 .. h - 1 : hpc[g] # "idle"
    /\ UNCHANGED <<focus, clipVars, taggerVars, schedVars, hubVars, watchVars>>

\* Bound: the server crashes or clears, not both; the indexer starts again only
\* after a clear, and is not stopped again; and no search begins while the indexer
\* waits for the rebuild lock, so that weak fairness gives it the lock.
ClipFocus ==
    /\ focus = "clip" /\ ClipNext
    /\ clipCrashes' + clears' <= 1
    /\ starts' = 2 => clears = 1 /\ At(Clearer, "idle")
    /\ starts = 2 => stopAsked' = stopAsked
    /\ At(Worker, "lock") => \A s \in Searchers : At(s, "idle") => at'[s] = "idle"
    /\ UNCHANGED <<focus, controlVars, taggerVars, schedVars, hubVars, watchVars>>

MeshFocus ==
    /\ focus = "mesh" /\ TaggerNext
    /\ UNCHANGED <<focus, controlVars, clipVars, schedVars, hubVars, watchVars>>

\* Bound: firings, which are alike but for their jobs, begin in order.
SchedFocus ==
    /\ focus = "sched" /\ SchedNext
    /\ \A f \in Firings : firing[f] = "unborn" /\ firing'[f] # "unborn" =>
          \A g \in 1 .. f - 1 : firing[g] # "unborn"
    /\ UNCHANGED <<focus, controlVars, clipVars, taggerVars, hubVars, watchVars>>

HubFocus ==
    /\ focus = "hub" /\ HubNext
    /\ UNCHANGED <<focus, controlVars, clipVars, taggerVars, schedVars, watchVars>>

WatchFocus ==
    /\ focus = "watch" /\ WatchNext
    /\ UNCHANGED <<focus, controlVars, clipVars, taggerVars, schedVars, hubVars>>

ServicesNext ==
    ControlFocus \/ ClipFocus \/ MeshFocus \/ SchedFocus \/ HubFocus \/ WatchFocus

\* The fairness each module justifies, for the part in focus.
ServicesFair ==
    /\ \A h \in Handlers : WF_controlVars(focus = "control" /\ HandlerStep(h))
    /\ WF_controlVars(focus = "control" /\ WriteConfig)
    /\ WF_clipVars(focus = "clip" /\ WorkerStep)
    /\ \A b \in Builders :
          /\ WF_clipVars(focus = "clip" /\ RebuildStep(b))
          /\ WF_clipVars(focus = "clip" /\ BeginRebuild(b))
    /\ \A s \in Searchers : WF_clipVars(focus = "clip" /\ SearchStep(s))
    /\ \A p \in Peers : WF_taggerVars(focus = "mesh" /\ PeerStep(p))
    /\ WF_taggerVars(focus = "mesh" /\ FinishMesh)
    /\ \A f \in Firings : WF_schedVars(focus = "sched" /\ FiringStep(f))
    /\ \A l \in Loops : WF_watchVars(focus = "watch" /\ LoopStep(l))

ServicesSpec == ServicesInit /\ [][ServicesNext]_serviceVars /\ ServicesFair

ServicesTypeOK ==
    ControlTypeOK /\ ClipTypeOK /\ TaggerTypeOK /\ SchedTypeOK /\ HubTypeOK /\ WatchTypeOK

\* The tables of the services are well-typed, and addresses are charged for their
\* open streams and no others.
TablesAreExact == ServicesTypeOK /\ ConnectionsAreExact

\* What a service has begun it ends: a request lets go of the mutations lock, the
\* indexer stops, a search and a tagger job end, a scheduled job is freed.
NothingHangs == MutationsAreFreed /\ IndexerStops /\ SearchIsAnswered /\ MeshEnds /\ JobIsFreed
=============================================================================
