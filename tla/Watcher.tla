------------------------------- MODULE Watcher -------------------------------
(***************************************************************************)
(* watcher.rs: each start makes a file-system watcher and a thread that    *)
(* gathers its events by path and, after a quiet period, writes them to    *)
(* the files table.  A stopped thread may still be at work when the next   *)
(* one starts.  JobManager runs no job named "scan" or "scan-all", so the  *)
(* guard that waits for one never holds a flush back.                      *)
(***************************************************************************)
EXTENDS Naturals, Sequences, FiniteSets

CONSTANTS
    Paths,          \* relevant files under the watched roots
    LoopBound,      \* bound: threads ever started
    FlushMax,       \* FLUSH_BATCH_MAX
    ChangeBound     \* bound: changes of the disk

ASSUME WatcherAssumption ==
    Paths # {} /\ LoopBound \in Nat /\ FlushMax \in Nat \ {0} /\ ChangeBound \in Nat

Loops == 1 .. LoopBound     \* in the order they start
NoLoop == 0

VARIABLES
    onDisk, rows,     \* per path: the file's version on disk, in the table; 0: no file
    changes,        \* changes of the disk so far
    watching,       \* the loop whose watcher is installed
    told,           \* loops whose stop_tx was sent to
    looping,        \* per loop: "unborn", "top", "receive", "flush", "write", "ended"
    fsEvents,       \* per loop: the events not yet received
    pending,        \* per loop: the action to take, by path
    items,          \* per loop: the actions of the flush under way
    looked,         \* per loop: the file looked at, and its version
    missed          \* ghost: paths whose latest change no flush will bring over

watchVars == <<onDisk, rows, changes, watching, told, looping, fsEvents, pending, items, looked, missed>>
fsVars == <<onDisk, changes>>

Versions == 0 .. ChangeBound + 1
Actions == {"none", "created", "modified", "deleted"}
NoActions == [p \in Paths |-> "none"]

WatchTypeOK ==
    /\ onDisk \in [Paths -> Versions] /\ rows \in [Paths -> Versions]
    /\ changes \in 0 .. ChangeBound
    /\ watching \in Loops \cup {NoLoop} /\ told \subseteq Loops
    /\ looping \in [Loops -> {"unborn", "top", "receive", "flush", "write", "ended"}]
    /\ fsEvents \in [Loops -> Seq([path : Paths, action : Actions \ {"none"}])]
    /\ pending \in [Loops -> [Paths -> Actions]]
    /\ items \in [Loops -> [Paths -> Actions]]
    /\ looked \in [Loops -> [path : Paths, version : Versions]]
    /\ missed \subseteq Paths

\* A scan has brought the table up to date.
WatchInit ==
    /\ onDisk \in [Paths -> {0, 1}] /\ rows = onDisk /\ changes = 0
    /\ watching = NoLoop /\ told = {}
    /\ looping = [l \in Loops |-> "unborn"]
    /\ fsEvents = [l \in Loops |-> <<>>]
    /\ pending = [l \in Loops |-> NoActions] /\ items = pending
    /\ looked = [l \in Loops |-> [path |-> CHOOSE p \in Paths : TRUE, version |-> 0]]
    /\ missed = {}

-----------------------------------------------------------------------------
\* The disk.  A watcher reports what it sees; without one a change is missed.

Change(p, version, action) ==
    /\ changes < ChangeBound /\ changes' = changes + 1
    /\ onDisk' = [onDisk EXCEPT ![p] = version]
    /\ IF watching = NoLoop THEN UNCHANGED fsEvents
       ELSE fsEvents' = [fsEvents EXCEPT ![watching] = Append(@, [path |-> p, action |-> action])]
    /\ UNCHANGED <<rows, watching, told, looping, pending, items, looked>>

Seen(p) == missed' = IF watching = NoLoop THEN missed \cup {p} ELSE missed \ {p}

\* A new file is created, or renamed to its path.
Appear(p) == onDisk[p] = 0 /\ Seen(p) /\ \E a \in {"created", "modified"} : Change(p, changes + 2, a)
Modify(p) == onDisk[p] # 0 /\ Seen(p) /\ Change(p, changes + 2, "modified")
Remove(p) == onDisk[p] # 0 /\ Seen(p) /\ Change(p, 0, "deleted")

\* A rename away from a path is a Modify(Name(From)) event, and is taken for a
\* modification of a file that is gone.
RenameAway(p) == onDisk[p] # 0 /\ missed' = missed \cup {p} /\ Change(p, 0, "modified")

-----------------------------------------------------------------------------
\* ScanWatcher: both under the mutex.

StartWatching(l) ==
    /\ looping[l] = "unborn" /\ watching = NoLoop /\ \A k \in 1 .. l - 1 : looping[k] # "unborn"
    /\ watching' = l /\ looping' = [looping EXCEPT ![l] = "top"]
    /\ UNCHANGED <<fsVars, rows, told, fsEvents, pending, items, looked, missed>>

StopWatching ==
    /\ watching # NoLoop /\ told' = told \cup {watching} /\ watching' = NoLoop
    /\ UNCHANGED <<fsVars, rows, looping, fsEvents, pending, items, looked, missed>>

-----------------------------------------------------------------------------
\* run_flush_loop.

TurnLoop(l) ==
    /\ looping[l] = "top" /\ l \notin told
    /\ looping' = [looping EXCEPT ![l] = "receive"]
    /\ UNCHANGED <<fsVars, rows, watching, told, fsEvents, pending, items, looked, missed>>

\* It was told, or finds the channel of the dropped watcher drained; what it had
\* gathered is dropped.
EndLoop(l) ==
    /\ l \in told
    /\ looping[l] = "top" \/ (looping[l] = "receive" /\ fsEvents[l] = <<>>)
    /\ looping' = [looping EXCEPT ![l] = "ended"]
    /\ missed' = missed \cup {p \in Paths : pending[l][p] # "none"}
                      \cup {fsEvents[l][i].path : i \in DOMAIN fsEvents[l]}
    /\ pending' = [pending EXCEPT ![l] = NoActions]
    /\ fsEvents' = [fsEvents EXCEPT ![l] = <<>>]
    /\ UNCHANGED <<fsVars, rows, watching, told, items, looked>>

\* Mutant: what is pending for the path is kept.
KeepFirst(e, old) == IF old # "none" THEN old ELSE e

\* process_event: a modification does not replace a pending creation.
Gathered(e, old) == IF e = "modified" /\ old = "created" THEN old ELSE e

ReceiveChange(l) ==
    /\ looping[l] = "receive" /\ fsEvents[l] # <<>>
    /\ LET e == Head(fsEvents[l])
       IN  pending' = [pending EXCEPT ![l][e.path] = Gathered(e.action, @)]
    /\ fsEvents' = [fsEvents EXCEPT ![l] = Tail(@)]
    /\ looping' = [looping EXCEPT ![l] = "top"]
    /\ UNCHANGED <<fsVars, rows, watching, told, items, looked, missed>>

\* No event for DEBOUNCE_SECS: flush_batch takes at most FlushMax paths.  Bound:
\* the loops before it have ended when a loop's first quiet period is over.
BeginFlush(l) ==
    /\ looping[l] = "receive" /\ fsEvents[l] = <<>> /\ pending[l] # NoActions
    /\ \A k \in 1 .. l - 1 : looping[k] = "ended"
    /\ LET due == {p \in Paths : pending[l][p] # "none"}
       IN  \E taken \in SUBSET due :
              /\ Cardinality(taken) = IF Cardinality(due) > FlushMax THEN FlushMax ELSE Cardinality(due)
              /\ items' = [items EXCEPT ![l] =
                    [p \in Paths |-> IF p \in taken THEN pending[l][p] ELSE "none"]]
              /\ pending' = [pending EXCEPT ![l] =
                    [p \in Paths |-> IF p \in taken THEN "none" ELSE @[p]]]
    /\ looping' = [looping EXCEPT ![l] = "flush"]
    /\ UNCHANGED <<fsVars, rows, watching, told, fsEvents, looked, missed>>

Done(l, p) == items' = [items EXCEPT ![l][p] = "none"]

\* The row is written, or the database fails and the change is lost.
WriteRow(p, version) ==
    \/ /\ rows' = [rows EXCEPT ![p] = version]
       /\ UNCHANGED missed
    \/ /\ missed' = missed \cup {p}
       /\ UNCHANGED rows

FlushDeleted(l) ==
    /\ looping[l] = "flush"
    /\ \E p \in Paths : items[l][p] = "deleted" /\ Done(l, p) /\ WriteRow(p, 0)
    /\ UNCHANGED <<fsVars, watching, told, looping, fsEvents, pending, looked>>

\* The file is gone again: nothing to write.
FlushGone(l) ==
    /\ looping[l] = "flush"
    /\ \E p \in Paths : items[l][p] \in {"created", "modified"} /\ onDisk[p] = 0 /\ Done(l, p)
    /\ UNCHANGED <<fsVars, rows, watching, told, looping, fsEvents, pending, looked, missed>>

FlushLook(l) ==
    /\ looping[l] = "flush"
    /\ \E p \in Paths :
          /\ items[l][p] \in {"created", "modified"} /\ onDisk[p] # 0 /\ Done(l, p)
          /\ looked' = [looked EXCEPT ![l] = [path |-> p, version |-> onDisk[p]]]
    /\ looping' = [looping EXCEPT ![l] = "write"]
    /\ UNCHANGED <<fsVars, rows, watching, told, fsEvents, pending, missed>>

FlushWrite(l) ==
    /\ looping[l] = "write" /\ looping' = [looping EXCEPT ![l] = "flush"]
    /\ WriteRow(looked[l].path, looked[l].version)
    /\ UNCHANGED <<fsVars, watching, told, fsEvents, pending, items, looked>>

EndFlush(l) ==
    /\ looping[l] = "flush" /\ items[l] = NoActions
    /\ looping' = [looping EXCEPT ![l] = "top"]
    /\ UNCHANGED <<fsVars, rows, watching, told, fsEvents, pending, items, looked, missed>>

LoopStep(l) ==
    \/ TurnLoop(l) \/ EndLoop(l) \/ ReceiveChange(l)
    \/ BeginFlush(l) \/ FlushDeleted(l) \/ FlushGone(l) \/ FlushLook(l)
    \/ FlushWrite(l) \/ EndFlush(l)

WatchNext ==
    \/ \E p \in Paths : Appear(p) \/ Modify(p) \/ Remove(p) \/ RenameAway(p)
    \/ StopWatching
    \/ \E l \in Loops : StartWatching(l) \/ LoopStep(l)

WatchSpec == WatchInit /\ [][WatchNext]_watchVars

\* The operating system schedules the threads, and time passes.
WatchFair == \A l \in Loops : WF_watchVars(LoopStep(l))

-----------------------------------------------------------------------------
\* Properties.

\* Only the loop behind the installed watcher goes on: any other has been told
\* to end, or has not begun.
OneLoopGoesOn ==
    \A l \in Loops : looping[l] \in {"unborn", "ended"} \/ l \in told \/ l = watching

\* However the events of a file are coalesced, batched and overtaken by the disk,
\* the table comes to agree with the disk - unless the change was one a flush
\* never brings over: unwatched, still pending at a stop, failed in the database,
\* or a rename away.
TableFollowsDisk == \A p \in Paths : onDisk[p] # rows[p] ~> onDisk[p] = rows[p] \/ p \in missed

\* One loop at a time brings the table to what the disk holds.
WatcherFollowsDisk == []OneLoopGoesOn /\ TableFollowsDisk
=============================================================================
