------------------------------ MODULE ClipIndex ------------------------------
(***************************************************************************)
(* clip_indexer.rs and clip_index.rs: a worker encodes images and saves    *)
(* their vectors, a rebuild pages through vectors.db, persists a new       *)
(* generation of index files and publishes it, and every search first      *)
(* brings the active index up to date: from the durable pointer when it is *)
(* still current, by a rebuild otherwise.                                  *)
(*                                                                         *)
(* created_at counts seconds.  Here it is the number of clears so far:     *)
(* vectors saved after a clear bear a later second than those before it.   *)
(***************************************************************************)
EXTENDS Naturals, FiniteSets

CONSTANTS
    ClipFileCount,  \* images of the tag database
    Searchers,      \* concurrent semantic searches
    Worker, Clearer,    \* the indexer's task, and the clear handler
    Unlocked,       \* nobody holds rebuild_lock
    GenerationBound,    \* the last generation number
    ClearBound, StartBound, ClipCrashBound  \* bounds: clears, indexer starts, crashes

ASSUME ClipAssumption ==
    /\ {ClipFileCount, GenerationBound, ClearBound, StartBound, ClipCrashBound} \subseteq Nat
    /\ GenerationBound # 0
    /\ Worker # Clearer /\ {Worker, Clearer} \cap Searchers = {}
    /\ Unlocked \notin Searchers \cup {Worker, Clearer}

ClipFiles == 1 .. ClipFileCount
Generations == 1 .. GenerationBound
Builders == Searchers \cup {Worker}

VARIABLES
    vectors, clears,    \* vectors.db: the files with a vector; clears so far
    indexFiles, idsFiles,   \* per generation on disk: {} or {what the file holds}
    pointer,            \* current.json: {} or {its metadata}
    active,             \* {} or {the index that is searched}
    running, stopAsked, \* the indexer's progress and its stop flag
    at,                 \* per task: where it is
    worker,             \* the worker's cursor, its page encoded
    peeked,             \* per search: metadata read, and what was opened with it
    rebuildLock,        \* who holds it
    build,              \* the rebuild under way
    starts, clipCrashes

dbVars == <<vectors, clears>>
diskVars == <<indexFiles, idsFiles, pointer>>
indexerVars == <<running, stopAsked, worker, starts>>
buildVars == <<rebuildLock, build>>
clipVars == <<dbVars, diskVars, active, indexerVars, at, peeked, buildVars, clipCrashes>>

\* vector_snapshot: COUNT and MAX(created_at); is_drifted compares it.
Snapshot == [count |-> Cardinality(vectors), latest |-> IF vectors = {} THEN 0 ELSE clears + 1]
Snapshots == [count : 0 .. ClipFileCount, latest : 0 .. ClearBound + 1]
Meta == [generation : Generations, snap : Snapshots]

NoMeta == [generation |-> 1, snap |-> [count |-> 0, latest |-> 0]]
NothingPeeked == [meta |-> NoMeta, files |-> {}]
NoBuild == [step |-> "read", snap |-> NoMeta.snap, files |-> {}, cursor |-> 0, generation |-> 1]
NoWork == [cursor |-> 0, encoded |-> {}]

ClipTypeOK ==
    /\ vectors \subseteq ClipFiles /\ clears \in 0 .. ClearBound
    /\ indexFiles \in [Generations -> SUBSET SUBSET ClipFiles]
    /\ idsFiles \in [Generations -> SUBSET (0 .. ClipFileCount)]
    /\ pointer \subseteq Meta /\ Cardinality(pointer) <= 1
    /\ active \subseteq [meta : Meta, files : SUBSET ClipFiles] /\ Cardinality(active) <= 1
    /\ {running, stopAsked} \subseteq BOOLEAN
    /\ at[Worker] \in {"idle", "page", "save", "lock", "build", "end"}
    /\ at[Clearer] \in {"idle", "delete", "lock"}
    /\ \A s \in Searchers :
          at[s] \in {"idle", "check", "load", "compare", "open", "activate", "lock", "build", "search"}
    /\ worker \in [cursor : 0 .. ClipFileCount, encoded : SUBSET ClipFiles]
    /\ peeked \in [Searchers -> [meta : Meta, files : SUBSET ClipFiles]]
    /\ rebuildLock \in Builders \cup {Unlocked}
    /\ build \in [step : {"read", "after", "index", "ids", "pointer", "publish"}, snap : Snapshots,
                  files : SUBSET ClipFiles, cursor : 0 .. ClipFileCount, generation : Generations]
    /\ starts \in 0 .. StartBound /\ clipCrashes \in 0 .. ClipCrashBound

ClipInit ==
    /\ vectors = {} /\ clears = 0
    /\ indexFiles = [g \in Generations |-> {}] /\ idsFiles = indexFiles /\ pointer = {}
    /\ active = {} /\ running = FALSE /\ stopAsked = FALSE
    /\ at = [t \in Builders \cup {Clearer} |-> "idle"]
    /\ worker = NoWork /\ peeked = [s \in Searchers |-> NothingPeeked]
    /\ rebuildLock = Unlocked /\ build = NoBuild /\ starts = 0 /\ clipCrashes = 0

At(t, here) == at[t] = here
GoTo(t, there) == at' = [at EXCEPT ![t] = there]
Moves(t, here, there) == At(t, here) /\ GoTo(t, there)

-----------------------------------------------------------------------------
\* The indexer.

StartIndexing ==
    /\ ~running /\ starts < StartBound /\ starts' = starts + 1
    /\ running' = TRUE /\ stopAsked' = FALSE /\ worker' = NoWork
    /\ Moves(Worker, "idle", "page")
    /\ UNCHANGED <<dbVars, diskVars, active, peeked, buildVars, clipCrashes>>

StopIndexing ==
    /\ running /\ stopAsked' = TRUE
    /\ UNCHANGED <<dbVars, diskVars, active, running, worker, starts, at, peeked, buildVars, clipCrashes>>

Unindexed == {f \in ClipFiles : f > worker.cursor /\ f \notin vectors}

\* A page of one file: its vector, or an error or a video, which is skipped.
NextPage ==
    /\ ~stopAsked /\ Moves(Worker, "page", "save")
    /\ \E f \in Unindexed, encoded \in SUBSET ClipFiles :
          /\ \A g \in Unindexed : f <= g
          /\ encoded \subseteq {f}
          /\ worker' = [cursor |-> f, encoded |-> encoded]
    /\ UNCHANGED <<dbVars, diskVars, active, running, stopAsked, starts, peeked, buildVars, clipCrashes>>

\* The transaction; nothing to save when nothing was encoded.
SaveVectors ==
    /\ Moves(Worker, "save", "page") /\ vectors' = vectors \cup worker.encoded
    /\ UNCHANGED <<clears, diskVars, active, indexerVars, peeked, buildVars, clipCrashes>>

LastPage ==
    /\ ~stopAsked /\ Unindexed = {} /\ Moves(Worker, "page", "lock")
    /\ UNCHANGED <<dbVars, diskVars, active, indexerVars, peeked, buildVars, clipCrashes>>

\* Stopped, or the database failed.
BreakOff ==
    /\ Moves(Worker, "page", "end") \/ (worker.encoded # {} /\ Moves(Worker, "save", "end"))
    /\ UNCHANGED <<dbVars, diskVars, active, indexerVars, peeked, buildVars, clipCrashes>>

EndIndexing ==
    /\ Moves(Worker, "end", "idle") /\ running' = FALSE
    /\ UNCHANGED <<dbVars, diskVars, active, stopAsked, worker, starts, peeked, buildVars, clipCrashes>>

-----------------------------------------------------------------------------
\* The clear handler.

BeginClear ==
    /\ At(Clearer, "idle")
    /\ IF running THEN stopAsked' = TRUE /\ UNCHANGED at
       ELSE clears < ClearBound /\ GoTo(Clearer, "delete") /\ UNCHANGED stopAsked
    /\ UNCHANGED <<dbVars, diskVars, active, running, worker, starts, peeked, buildVars, clipCrashes>>

\* Another start may have come in between.
DeleteVectors ==
    /\ Moves(Clearer, "delete", "lock") /\ vectors' = {} /\ clears' = clears + 1
    /\ UNCHANGED <<diskVars, active, indexerVars, peeked, buildVars, clipCrashes>>

ClearIndex ==
    /\ rebuildLock = Unlocked /\ Moves(Clearer, "lock", "idle")
    /\ active' = {} /\ pointer' = {}
    /\ indexFiles' = [g \in Generations |-> {}] /\ idsFiles' = indexFiles'
    /\ UNCHANGED <<dbVars, indexerVars, peeked, buildVars, clipCrashes>>

-----------------------------------------------------------------------------
\* The rebuild, under rebuild_lock.  Whoever fails gives the lock back.

Building(b, step) == At(b, "build") /\ build.step = step
Step(there) == build' = [build EXCEPT !.step = there]
GiveBack(b, there) == rebuildLock' = Unlocked /\ build' = NoBuild /\ GoTo(b, there)

BeginRebuild(b) ==
    /\ rebuildLock = Unlocked /\ rebuildLock' = b /\ Moves(b, "lock", "build")
    /\ build' = [NoBuild EXCEPT !.snap = Snapshot]
    /\ UNCHANGED <<dbVars, diskVars, active, indexerVars, peeked, clipCrashes>>

\* A page of one vector.
ReadVectors(b) ==
    /\ Building(b, "read")
    /\ LET rest == {f \in vectors : f > build.cursor}
       IN  IF rest = {} THEN Step("after")
           ELSE \E f \in rest :
                   /\ \A g \in rest : f <= g
                   /\ build' = [build EXCEPT !.files = @ \cup {f}, !.cursor = f]
    /\ UNCHANGED <<dbVars, diskVars, active, indexerVars, at, peeked, rebuildLock, clipCrashes>>

\* next_generation counts the files that are there.
Highest(g) == \A h \in Generations : indexFiles[h] # {} \/ idsFiles[h] # {} => h < g

\* Mutant: a change during the build goes unnoticed.
CompareNothing(b) ==
    /\ Building(b, "after")
    /\ \E g \in Generations :
          /\ Highest(g) /\ \A h \in Generations : Highest(h) => g <= h
          /\ build' = [build EXCEPT !.step = "index", !.snap = Snapshot, !.generation = g]
    /\ UNCHANGED <<dbVars, diskVars, active, indexerVars, at, peeked, rebuildLock, clipCrashes>>

CompareAfter(b) ==
    /\ Building(b, "after") /\ Snapshot = build.snap
    /\ \E g \in Generations :
          /\ Highest(g) /\ \A h \in Generations : Highest(h) => g <= h
          /\ build' = [build EXCEPT !.step = "index", !.snap = Snapshot, !.generation = g]
    /\ UNCHANGED <<dbVars, diskVars, active, indexerVars, at, peeked, rebuildLock, clipCrashes>>

\* persist_index: three renames, the pointer last.
RenameIndex(b) ==
    /\ Building(b, "index") /\ Step("ids")
    /\ indexFiles' = [indexFiles EXCEPT ![build.generation] = {build.files}]
    /\ UNCHANGED <<dbVars, idsFiles, pointer, active, indexerVars, at, peeked, rebuildLock, clipCrashes>>

RenameIds(b) ==
    /\ Building(b, "ids") /\ Step("pointer")
    /\ idsFiles' = [idsFiles EXCEPT ![build.generation] = {Cardinality(build.files)}]
    /\ UNCHANGED <<dbVars, indexFiles, pointer, active, indexerVars, at, peeked, rebuildLock, clipCrashes>>

RenamePointer(b) ==
    /\ Building(b, "pointer") /\ Step("publish")
    /\ pointer' = {[generation |-> build.generation, snap |-> build.snap]}
    /\ UNCHANGED <<dbVars, indexFiles, idsFiles, active, indexerVars, at, peeked, rebuildLock, clipCrashes>>

\* replace_active and cleanup_old_generations.
Activate(meta, files) ==
    /\ active' = {[meta |-> meta, files |-> files]}
    /\ indexFiles' = [g \in Generations |-> IF g < meta.generation THEN {} ELSE indexFiles[g]]
    /\ idsFiles' = [g \in Generations |-> IF g < meta.generation THEN {} ELSE idsFiles[g]]

\* The index that was saved is opened and searched from now on.
Publish(b) ==
    /\ Building(b, "publish")
    /\ \E files \in indexFiles[build.generation] :
          Activate([generation |-> build.generation, snap |-> build.snap], files)
    /\ GiveBack(b, IF b = Worker THEN "end" ELSE "search")
    /\ UNCHANGED <<dbVars, pointer, indexerVars, peeked, clipCrashes>>

\* Mutant: the lock is kept.
FailHoldingLock(b) ==
    /\ At(b, "build") /\ build' = NoBuild /\ GoTo(b, IF b = Worker THEN "end" ELSE "idle")
    /\ UNCHANGED <<dbVars, diskVars, active, indexerVars, peeked, rebuildLock, clipCrashes>>

\* The vectors changed, no generation is left, or the database or the disk failed.
FailRebuild(b) ==
    /\ At(b, "build") /\ GiveBack(b, IF b = Worker THEN "end" ELSE "idle")
    /\ UNCHANGED <<dbVars, diskVars, active, indexerVars, peeked, clipCrashes>>

-----------------------------------------------------------------------------
\* A search: ensure_current_index, then search.

BeginSearch(s) ==
    /\ IF active = {} THEN Moves(s, "idle", "load") /\ UNCHANGED peeked
       ELSE /\ Moves(s, "idle", "check")
            /\ \E loaded \in active : peeked' = [peeked EXCEPT ![s].meta = loaded.meta]
    /\ UNCHANGED <<dbVars, diskVars, active, indexerVars, buildVars, clipCrashes>>

CheckActive(s) ==
    /\ Moves(s, "check", IF peeked[s].meta.snap = Snapshot THEN "search" ELSE "load")
    /\ peeked' = [peeked EXCEPT ![s] = NothingPeeked]
    /\ UNCHANGED <<dbVars, diskVars, active, indexerVars, buildVars, clipCrashes>>

Present(meta) == indexFiles[meta.generation] # {} /\ idsFiles[meta.generation] # {}

\* load_if_current holds no lock: the pointer and its files, then the database,
\* then the files, and only then the active index.
ReadPointer(s) ==
    /\ IF \E meta \in pointer : Present(meta)
       THEN Moves(s, "load", "compare") /\ \E meta \in pointer : peeked' = [peeked EXCEPT ![s].meta = meta]
       ELSE Moves(s, "load", "lock") /\ UNCHANGED peeked
    /\ UNCHANGED <<dbVars, diskVars, active, indexerVars, buildVars, clipCrashes>>

CompareLoaded(s) ==
    /\ Moves(s, "compare", IF peeked[s].meta.snap = Snapshot THEN "open" ELSE "lock")
    /\ peeked' = IF peeked[s].meta.snap = Snapshot THEN peeked
                 ELSE [peeked EXCEPT ![s] = NothingPeeked]
    /\ UNCHANGED <<dbVars, diskVars, active, indexerVars, buildVars, clipCrashes>>

\* The lengths of both files must be the count of the metadata.
OpenLoaded(s) ==
    LET meta == peeked[s].meta IN
    /\ \E files \in indexFiles[meta.generation], ids \in idsFiles[meta.generation] :
          IF {ids, Cardinality(files)} = {meta.snap.count}
          THEN Moves(s, "open", "activate") /\ peeked' = [peeked EXCEPT ![s].files = files]
          ELSE Moves(s, "open", "lock") /\ peeked' = [peeked EXCEPT ![s] = NothingPeeked]
    /\ UNCHANGED <<dbVars, diskVars, active, indexerVars, buildVars, clipCrashes>>

ActivateLoaded(s) ==
    /\ Moves(s, "activate", "search") /\ Activate(peeked[s].meta, peeked[s].files)
    /\ peeked' = [peeked EXCEPT ![s] = NothingPeeked]
    /\ UNCHANGED <<dbVars, pointer, indexerVars, buildVars, clipCrashes>>

\* A query of the database, or opening files that are gone, failed.
FailSearch(s) ==
    /\ Moves(s, "check", "idle") \/ Moves(s, "compare", "idle") \/ Moves(s, "open", "idle")
    /\ peeked' = [peeked EXCEPT ![s] = NothingPeeked]
    /\ UNCHANGED <<dbVars, diskVars, active, indexerVars, buildVars, clipCrashes>>

\* Whatever is active by now is searched: nothing at all after a clear.
Search(s) ==
    /\ Moves(s, "search", "idle")
    /\ UNCHANGED <<dbVars, diskVars, active, indexerVars, peeked, buildVars, clipCrashes>>

-----------------------------------------------------------------------------
\* The process dies at any point; the database and the files stay.
ClipCrash ==
    /\ clipCrashes < ClipCrashBound /\ clipCrashes' = clipCrashes + 1
    /\ active' = {} /\ running' = FALSE /\ stopAsked' = FALSE /\ worker' = NoWork
    /\ at' = [t \in DOMAIN at |-> "idle"] /\ peeked' = [s \in Searchers |-> NothingPeeked]
    /\ rebuildLock' = Unlocked /\ build' = NoBuild
    /\ UNCHANGED <<dbVars, diskVars, starts>>

RebuildStep(b) ==
    \/ ReadVectors(b) \/ CompareAfter(b) \/ RenameIndex(b)
    \/ RenameIds(b) \/ RenamePointer(b) \/ Publish(b) \/ FailRebuild(b)

WorkerStep == NextPage \/ SaveVectors \/ LastPage \/ BreakOff \/ EndIndexing

SearchStep(s) ==
    \/ CheckActive(s) \/ ReadPointer(s) \/ CompareLoaded(s) \/ OpenLoaded(s)
    \/ ActivateLoaded(s) \/ FailSearch(s) \/ Search(s)

ClipNext ==
    \/ StartIndexing \/ StopIndexing \/ WorkerStep
    \/ BeginClear \/ DeleteVectors \/ ClearIndex
    \/ \E b \in Builders : BeginRebuild(b) \/ RebuildStep(b)
    \/ \E s \in Searchers : BeginSearch(s) \/ SearchStep(s)
    \/ ClipCrash

ClipSpec == ClipInit /\ [][ClipNext]_clipVars

\* Tasks are scheduled, queries and files answer, and tokio's mutex serves its
\* waiters in order.
ClipFair ==
    /\ WF_clipVars(WorkerStep)
    /\ \A b \in Builders : WF_clipVars(RebuildStep(b)) /\ SF_clipVars(BeginRebuild(b))
    /\ \A s \in Searchers : WF_clipVars(SearchStep(s))

-----------------------------------------------------------------------------
\* Properties.

\* The drift check is enough: an active index whose count and time are those of
\* vectors.db holds exactly its vectors, whatever was saved, cleared and rebuilt
\* meanwhile and however the process died.
CurrentIsExact ==
    \A loaded \in active : vectors # {} /\ loaded.meta.snap = Snapshot => loaded.files = vectors

\* The durable pointer names a complete generation, also after a crash between
\* two renames - as long as nothing was cleared, when generation numbers start
\* again and a search that is loading may clean up the new one.
PointerIsComplete == clears = 0 => \A meta \in pointer : Present(meta)

\* What a search finds and what a restart finds are both whole.
IndexIsExact == CurrentIsExact /\ PointerIsComplete

\* The indexer is not left running.
IndexerStops == running ~> ~running

\* No search waits for ever.
SearchIsAnswered == \A s \in Searchers : ~At(s, "idle") ~> At(s, "idle")
=============================================================================
