--------------------------- MODULE GenerationJobs ---------------------------
(***************************************************************************)
(* Image generation through the bridges (sd_webui_bridge/generate.rs and   *)
(* gradio4.rs, comfyui_bridge/generate.rs): the job runs inside the        *)
(* request's own handler, under a fresh id, and the handler is dropped     *)
(* with its connection at any await.  The standard path keeps a poller     *)
(* beside the request; ComfyUI is polled by the handler itself; Gradio     *)
(* looks at no token.  What the services answer, the images and their      *)
(* storage are left out.                                                   *)
(***************************************************************************)
EXTENDS Naturals

CONSTANTS
    GenJobs,        \* requests, each with a job id of its own
    NoGen

ASSUME GenerationAssumption == NoGen \notin GenJobs

VARIABLES
    path,           \* the path each request takes
    genTable,       \* the records of the job table
    genCancelled,   \* its cancelled tokens
    gen,            \* where each handler is
    poller,         \* where each progress poller is
    lateWrites      \* history: what a poller wrote into a record already closed

genVars == <<path, genTable, genCancelled, gen, poller, lateWrites>>

Table == INSTANCE JobManager WITH
    JobIds <- GenJobs, Runs <- GenJobs, NoRun <- NoGen, Items <- 1,
    jobs <- genTable, cancelled <- genCancelled

\* The awaits of a handler, and how it ends.
Awaits == {"post", "read", "prompt", "poll", "interrupt", "history", "fetch", "save"}
Answers == {"result", "failure"}

GenTypeOK ==
    /\ path \in [GenJobs -> {"sd", "gradio", "comfy"}]
    /\ Table!JobManagerTypeOK
    /\ gen \in [GenJobs -> Awaits \cup Answers \cup {"new", "dropped"}]
    /\ poller \in [GenJobs -> {"none", "wait", "ask", "ended"}]
    /\ lateWrites \in [GenJobs -> Nat]

GenInit ==
    /\ path \in [GenJobs -> {"sd", "gradio", "comfy"}]
    /\ Table!JobManagerInit
    /\ gen = [j \in GenJobs |-> "new"]
    /\ poller = [j \in GenJobs |-> "none"]
    /\ lateWrites = [j \in GenJobs |-> 0]

GenGoes(j, from, to) == gen[j] = from /\ gen' = [gen EXCEPT ![j] = to]

\* finish, and the answer it goes with.
Fails(j, from) == GenGoes(j, from, "failure") /\ Table!Finish(j, "error", j)
Succeeds(j, from) == GenGoes(j, from, "result") /\ Table!Finish(j, "complete", j)

----------------------------------------------------------------------------
\* The standard path: start, the poller, the request.
StartSd(j) ==
    /\ path[j] = "sd" /\ GenGoes(j, "new", "post") /\ Table!Start(j, j)
    /\ poller' = [poller EXCEPT ![j] = "wait"]
    /\ UNCHANGED <<path, genCancelled, lateWrites>>

\* Answer, failure or its 300 seconds: the token is cancelled to stop the poller,
\* whatever came, and only then is the result looked at.
SdResponds(j) ==
    /\ \/ Fails(j, "post")
       \/ GenGoes(j, "post", "read") /\ UNCHANGED genTable
    /\ genCancelled' = genCancelled \cup {j}
    /\ UNCHANGED <<path, poller, lateWrites>>

SdReads(j) ==
    /\ \/ Fails(j, "read")
       \/ GenGoes(j, "read", "save") /\ UNCHANGED genTable
    /\ UNCHANGED <<path, genCancelled, poller, lateWrites>>

\* A turn of the poller: it waits a second or until it is told, and looks once more.
PollerWaits(j) ==
    /\ poller[j] = "wait"
    /\ \/ j \in genCancelled /\ poller' = [poller EXCEPT ![j] = "ended"]
       \/ j \notin genCancelled /\ poller' = [poller EXCEPT ![j] = "ask"]
    /\ UNCHANGED <<path, genTable, genCancelled, gen, lateWrites>>

\* The service answers, with progress or without; the token is not looked at again
\* before the record is written.
PollerWrites(j) ==
    /\ poller[j] = "ask" /\ poller' = [poller EXCEPT ![j] = "wait"]
    /\ \/ UNCHANGED <<genTable, lateWrites>>
       \/ /\ \E n \in 0 .. 1 : Table!UpdateProgress(j, n)
          /\ lateWrites' = [lateWrites EXCEPT ![j] = IF genTable[j].running THEN @ ELSE @ + 1]
    /\ UNCHANGED <<path, genCancelled, gen>>

----------------------------------------------------------------------------
\* Gradio: one request, the record, no token.
StartGradio(j) ==
    /\ path[j] = "gradio" /\ GenGoes(j, "new", "fetch") /\ Table!Start(j, j)
    /\ UNCHANGED <<path, genCancelled, poller, lateWrites>>

\* ComfyUI: the workflow is queued, then its history is polled.
StartComfy(j) ==
    /\ path[j] = "comfy" /\ GenGoes(j, "new", "prompt") /\ Table!Start(j, j)
    /\ UNCHANGED <<path, genCancelled, poller, lateWrites>>

Prompt(j) ==
    /\ \/ Fails(j, "prompt")
       \/ GenGoes(j, "prompt", "poll") /\ UNCHANGED genTable
    /\ UNCHANGED <<path, genCancelled, poller, lateWrites>>

\* The select of the loop: either branch when both are ready; past the deadline the
\* sleep ends in a failure.
SeesCancel(j) ==
    /\ j \in genCancelled /\ GenGoes(j, "poll", "interrupt")
    /\ UNCHANGED <<path, genTable, genCancelled, poller, lateWrites>>

PollSleeps(j) ==
    /\ GenGoes(j, "poll", "history")
    /\ UNCHANGED <<path, genTable, genCancelled, poller, lateWrites>>

PollTimesOut(j) ==
    /\ Fails(j, "poll")
    /\ UNCHANGED <<path, genCancelled, poller, lateWrites>>

Interrupts(j) ==
    /\ Fails(j, "interrupt")
    /\ UNCHANGED <<path, genCancelled, poller, lateWrites>>

\* Nothing yet, or a count of nodes; an execution error, or no output; done.
ReadsHistory(j) ==
    /\ \/ /\ GenGoes(j, "history", "poll")
          /\ UNCHANGED genTable \/ \E n \in 0 .. 1 : Table!UpdateProgress(j, n)
       \/ Fails(j, "history")
       \/ GenGoes(j, "history", "fetch") /\ UNCHANGED genTable
    /\ UNCHANGED <<path, genCancelled, poller, lateWrites>>

\* The images are fetched one after the other; nobody looks at the token any more.
Fetches(j) ==
    /\ \/ Fails(j, "fetch")
       \/ GenGoes(j, "fetch", "save") /\ UNCHANGED genTable
    /\ UNCHANGED <<path, genCancelled, poller, lateWrites>>

\* Images, database rows, and the record.
Saves(j) ==
    /\ Succeeds(j, "save")
    /\ UNCHANGED <<path, genCancelled, poller, lateWrites>>

----------------------------------------------------------------------------
\* cancel, for a record that runs; the service is interrupted besides.
CancelGen(j) ==
    /\ Table!CancelJob(j) /\ j \notin genCancelled
    /\ UNCHANGED <<path, genTable, gen, poller, lateWrites>>

\* The connection closes: the handler is gone, nothing else is done.
DropGen(j) ==
    /\ gen[j] \in Awaits /\ gen' = [gen EXCEPT ![j] = "dropped"]
    /\ UNCHANGED <<path, genTable, genCancelled, poller, lateWrites>>

HandlerTurn(j) ==
    \/ SdResponds(j) \/ SdReads(j)
    \/ Prompt(j) \/ SeesCancel(j) \/ PollSleeps(j) \/ Interrupts(j)
    \/ ReadsHistory(j) \/ Fetches(j) \/ Saves(j)

PollerTurn(j) == PollerWaits(j) \/ PollerWrites(j)

GenNext ==
    \E j \in GenJobs :
        \/ StartSd(j) \/ StartComfy(j) \/ StartGradio(j)
        \/ HandlerTurn(j) \/ PollTimesOut(j) \/ PollerTurn(j)
        \/ CancelGen(j) \/ DropGen(j)

----------------------------------------------------------------------------
\* A record that shows running has its handler, or lost it to a closed connection: no
\* cancel takes it back.  A record that is closed says what its request was answered.
GenerationIsShown ==
    \A j \in GenJobs :
        /\ genTable[j].running <=> gen[j] \in Awaits \cup {"dropped"}
        /\ gen[j] = "result" <=> genTable[j].phase = "complete"
        /\ gen[j] = "failure" <=> genTable[j].phase = "error"

\* A closed record is written at most once more, by the poll that was under way when
\* its poller was told to stop: its progress may change after it is done.
LateProgressOnce == \A j \in GenJobs : lateWrites[j] <= 1

\* A handler at work, and a poller that was told to stop or whose request is answered.
Unfinished(j) ==
    \/ gen[j] \in Awaits
    \/ poller[j] \in {"wait", "ask"} /\ (j \in genCancelled \/ gen[j] \in Answers)

\* Every request is answered or its connection closed, and its poller ends with it; a
\* poller whose handler was dropped before the service answered is never told.
GenerationEnds == \A j \in GenJobs : Unfinished(j) ~> ~Unfinished(j)
=============================================================================
