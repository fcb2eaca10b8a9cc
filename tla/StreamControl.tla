---------------------------- MODULE StreamControl ----------------------------
(***************************************************************************)
(* registry.rs and config.rs: the handlers that add and delete sources and *)
(* rules under the mutations lock, the task that writes the configuration, *)
(* and a restart of the server that restores what is on disk.  A handler   *)
(* whose client hangs up is dropped where it awaits.                       *)
(*                                                                         *)
(* A source registered again is a new incarnation: a number, 0 for none.   *)
(***************************************************************************)
EXTENDS Naturals, Sequences, FiniteSets

CONSTANTS
    Cameras, RuleIds,   \* the ids of the sources and of the rules
    Handlers,           \* requests: one operation each
    Nobody,             \* the mutations lock is free
    MaxSources,         \* stream_max_sources
    IncBound,           \* bound: incarnations of a source
    CrashBound          \* bound: restarts of the server

ASSUME ControlAssumption ==
    /\ Cameras \cap RuleIds = {} /\ Cameras # {} /\ IsFiniteSet(Cameras)
    /\ Nobody \notin Handlers
    /\ MaxSources \in Nat \ {0} /\ IncBound \in Nat /\ CrashBound \in Nat

VARIABLES
    registered,     \* StreamRegistry.sources: the incarnation under each id
    incs,           \* incarnations of each source so far
    actors,         \* the incarnations whose actor runs
    relay,          \* the hub's map: the incarnation each relay belongs to
    engineRules,    \* the rules in the rule task
    mutations,      \* holder of the mutations lock
    hpc, op, target, mine,  \* the handlers: where, what, on whom, its handle
    config, disk,   \* ConfigWriterTask.config and the file
    writes,         \* the writer's channel
    locked,         \* the file could not be decrypted at start-up
    unsaved,        \* ghost: the last write failed
    torn,           \* ghost: ids changed by a handler that was dropped before it persisted
    broken,         \* ghost: incarnations whose deletion failed or was dropped
    crashes

runtime == <<registered, incs, actors, relay, engineRules>>
handlers == <<mutations, hpc, op, target, mine>>
store == <<config, disk, writes, locked, unsaved>>
ghosts == <<torn, broken, crashes>>
controlVars == <<runtime, handlers, store, ghosts>>

Ids == Cameras \cup RuleIds
Incs == 0 .. IncBound
Incarnations == Cameras \X Incs
Writes == [op : {"upsert", "delete"}, id : Ids, from : Handlers]
Working == {"work", "kill", "unregister", "unrelay", "persist", "await"}

ControlTypeOK ==
    /\ registered \in [Cameras -> Incs] /\ relay \in [Cameras -> Incs]
    /\ incs \in [Cameras -> Incs]
    /\ actors \subseteq Incarnations /\ broken \subseteq Incarnations
    /\ engineRules \subseteq RuleIds
    /\ mutations \in Handlers \cup {Nobody}
    /\ hpc \in [Handlers -> Working \cup {"idle", "ok", "failed", "dropped"}]
    /\ op \in [Handlers -> {"add", "delete"}]
    /\ target \in [Handlers -> Ids] /\ mine \in [Handlers -> Incs]
    /\ config \subseteq Ids /\ disk \subseteq Ids /\ torn \subseteq Ids
    /\ writes \in Seq(Writes)
    /\ locked \in BOOLEAN /\ unsaved \in BOOLEAN
    /\ crashes \in 0 .. CrashBound

ControlInit ==
    /\ registered = [c \in Cameras |-> 0] /\ relay = [c \in Cameras |-> 0]
    /\ incs = [c \in Cameras |-> 0] /\ actors = {} /\ engineRules = {}
    /\ mutations = Nobody
    /\ hpc = [h \in Handlers |-> "idle"] /\ op = [h \in Handlers |-> "add"]
    /\ target = [h \in Handlers |-> CHOOSE id \in Ids : TRUE]
    /\ mine = [h \in Handlers |-> 0]
    /\ config = {} /\ disk = {} /\ writes = <<>>
    /\ locked = FALSE /\ unsaved = FALSE
    /\ torn = {} /\ broken = {} /\ crashes = 0

HandlerTo(h, l) == hpc' = [hpc EXCEPT ![h] = l]

\* The handler returns or is dropped: its guard frees the lock.
Leave(h, l) == HandlerTo(h, l) /\ mutations' = Nobody

On(h, o, ids) == op[h] = o /\ target[h] \in ids

-----------------------------------------------------------------------------
\* Handlers.

LockMutations(h) ==
    /\ hpc[h] = "idle" /\ mutations = Nobody
    /\ mutations' = h
    /\ HandlerTo(h, "work")
    /\ \E o \in {"add", "delete"}, id \in Ids :
          /\ o = "add" /\ id \in Cameras => incs[id] < IncBound
          /\ op' = [op EXCEPT ![h] = o] /\ target' = [target EXCEPT ![h] = id]
    /\ UNCHANGED <<runtime, mine, store, ghosts>>

\* add_source: Duplicate or Capacity.
RefuseSource(h) ==
    /\ hpc[h] = "work" /\ On(h, "add", Cameras)
    /\ \/ registered[target[h]] # 0
       \/ Cardinality({c \in Cameras : registered[c] # 0}) >= MaxSources
    /\ Leave(h, "failed")
    /\ UNCHANGED <<runtime, op, target, mine, store, ghosts>>

\* Mutant: the id is not looked up again under the write lock.
InsertUnchecked(h) ==
    /\ hpc[h] = "work" /\ On(h, "add", Cameras)
    /\ LET c == target[h]
           k == incs[c] + 1
       IN  /\ incs' = [incs EXCEPT ![c] = k]
           /\ actors' = actors \cup {<<c, k>>}
           /\ relay' = [relay EXCEPT ![c] = k]
           /\ registered' = [registered EXCEPT ![c] = k]
    /\ HandlerTo(h, "persist")
    /\ UNCHANGED <<engineRules, mutations, op, target, mine, store, ghosts>>

\* add_source: spawn, attach and insert, all under the registry's write lock.
InsertSource(h) ==
    /\ hpc[h] = "work" /\ On(h, "add", Cameras)
    /\ LET c == target[h]
           k == incs[c] + 1
       IN  /\ registered[c] = 0
           /\ Cardinality({d \in Cameras : registered[d] # 0}) < MaxSources
           /\ incs' = [incs EXCEPT ![c] = k]
           /\ actors' = actors \cup {<<c, k>>}
           /\ relay' = [relay EXCEPT ![c] = k]
           /\ registered' = [registered EXCEPT ![c] = k]
    /\ HandlerTo(h, "persist")
    /\ UNCHANGED <<engineRules, mutations, op, target, mine, store, ghosts>>

\* delete_source: the lookup; then the relay and the recording are stopped.
FindSource(h) ==
    /\ hpc[h] = "work" /\ On(h, "delete", Cameras)
    /\ IF registered[target[h]] = 0
       THEN Leave(h, "failed") /\ UNCHANGED mine
       ELSE /\ mine' = [mine EXCEPT ![h] = registered[target[h]]]
            /\ HandlerTo(h, "kill") /\ UNCHANGED mutations
    /\ UNCHANGED <<runtime, op, target, store, ghosts>>

Handle(h) == <<target[h], mine[h]>>

\* handle.delete(): done; the runtime failed to stop; or the actor was gone.
\* A failure returns at once, and the source stays in the registry.
KillSource(h) ==
    /\ hpc[h] = "kill"
    /\ actors' = actors \ {Handle(h)}
    /\ \/ /\ Handle(h) \in actors
          /\ HandlerTo(h, "unregister")
          /\ UNCHANGED <<mutations, broken>>
       \/ /\ Leave(h, "failed")
          /\ broken' = broken \cup {Handle(h)}
    /\ UNCHANGED <<registered, incs, relay, engineRules, op, target, mine, store, torn, crashes>>

Unregister(h) ==
    /\ hpc[h] = "unregister"
    /\ registered' = IF registered[target[h]] = mine[h]
                     THEN [registered EXCEPT ![target[h]] = 0] ELSE registered
    /\ HandlerTo(h, "unrelay")
    /\ UNCHANGED <<incs, actors, relay, engineRules, mutations, op, target, mine, store, ghosts>>

RemoveRelay(h) ==
    /\ hpc[h] = "unrelay"
    /\ relay' = [relay EXCEPT ![target[h]] = 0]
    /\ HandlerTo(h, "persist")
    /\ UNCHANGED <<registered, incs, actors, engineRules, mutations, op, target, mine, store, ghosts>>

\* add_rule, update_rule and delete_rule change the engine first.
ChangeRule(h) ==
    /\ hpc[h] = "work" /\ target[h] \in RuleIds
    /\ IF op[h] = "delete" /\ target[h] \notin engineRules
       THEN Leave(h, "failed") /\ UNCHANGED engineRules
       ELSE /\ engineRules' = IF op[h] = "add" THEN engineRules \cup {target[h]}
                                               ELSE engineRules \ {target[h]}
            /\ HandlerTo(h, "persist") /\ UNCHANGED mutations
    /\ UNCHANGED <<registered, incs, actors, relay, op, target, mine, store, ghosts>>

Persist(h) ==
    /\ hpc[h] = "persist"
    /\ writes' = Append(writes, [op |-> IF op[h] = "add" THEN "upsert" ELSE "delete",
                                 id |-> target[h], from |-> h])
    /\ torn' = torn \ {target[h]}
    /\ HandlerTo(h, "await")
    /\ UNCHANGED <<runtime, mutations, op, target, mine, config, disk, locked, unsaved, broken, crashes>>

\* The client hangs up while the handler awaits; a command it has sent to the
\* actor or to the rule task is served all the same.
DropHandler(h) ==
    /\ \/ /\ hpc[h] = "work" /\ target[h] \in Cameras
          /\ UNCHANGED <<actors, engineRules, torn, broken>>
       \/ /\ hpc[h] = "work" /\ target[h] \in RuleIds
          /\ engineRules' = IF op[h] = "add" THEN engineRules \cup {target[h]}
                                             ELSE engineRules \ {target[h]}
          /\ torn' = torn \cup {target[h]}
          /\ UNCHANGED <<actors, broken>>
       \/ /\ hpc[h] = "kill"
          /\ actors' \in {actors, actors \ {Handle(h)}}
          /\ broken' = broken \cup {Handle(h)}
          /\ UNCHANGED <<engineRules, torn>>
       \/ /\ hpc[h] = "unregister"
          /\ broken' = broken \cup {Handle(h)}
          /\ UNCHANGED <<actors, engineRules, torn>>
       \/ /\ hpc[h] = "persist"
          /\ torn' = torn \cup {target[h]}
          /\ UNCHANGED <<actors, engineRules, broken>>
       \/ /\ hpc[h] = "await"
          /\ UNCHANGED <<actors, engineRules, torn, broken>>
    /\ Leave(h, "dropped")
    /\ UNCHANGED <<registered, incs, relay, op, target, mine, store, crashes>>

-----------------------------------------------------------------------------
\* The writer.

Applied(w) == IF w.op = "upsert" THEN config \cup {w.id} ELSE config \ {w.id}

Reply(h, l) ==
    IF hpc[h] = "await" THEN Leave(h, l) ELSE UNCHANGED <<hpc, mutations>>

\* Mutant: the change alone is written, not the whole configuration.
WriteDelta ==
    /\ writes # <<>>
    /\ LET w == Head(writes)
       IN  \/ /\ ~locked /\ config' = Applied(w) /\ unsaved' = FALSE
              /\ disk' = IF w.op = "upsert" THEN disk \cup {w.id} ELSE disk \ {w.id}
              /\ Reply(w.from, "ok")
           \/ /\ ~locked /\ config' = Applied(w) /\ unsaved' = TRUE
              /\ Reply(w.from, "failed")
              /\ UNCHANGED disk
    /\ writes' = Tail(writes)
    /\ UNCHANGED <<runtime, op, target, mine, locked, ghosts>>

\* Memory changes first; then the whole configuration is written, or not.
WriteConfig ==
    /\ writes # <<>>
    /\ LET w == Head(writes)
       IN  \/ /\ locked /\ Reply(w.from, "failed")
              /\ UNCHANGED <<config, disk, unsaved>>
           \/ /\ ~locked /\ config' = Applied(w) /\ disk' = config' /\ unsaved' = FALSE
              /\ Reply(w.from, "ok")
           \/ /\ ~locked /\ config' = Applied(w) /\ unsaved' = TRUE
              /\ Reply(w.from, "failed")
              /\ UNCHANGED disk
    /\ writes' = Tail(writes)
    /\ UNCHANGED <<runtime, op, target, mine, locked, ghosts>>

\* The process ends and starts again: it restores the file, or nothing at all
\* when the file cannot be decrypted.
Restart ==
    /\ crashes < CrashBound /\ crashes' = crashes + 1
    /\ locked' \in {FALSE, disk # {}}
    /\ config' = IF locked' THEN {} ELSE disk
    /\ \A c \in config' \cap Cameras : incs[c] < IncBound
    /\ incs' = [c \in Cameras |-> IF c \in config' THEN incs[c] + 1 ELSE incs[c]]
    /\ registered' = [c \in Cameras |-> IF c \in config' THEN incs'[c] ELSE 0]
    /\ relay' = registered'
    /\ actors' = {<<c, registered'[c]>> : c \in config' \cap Cameras}
    /\ engineRules' = config' \cap RuleIds
    /\ mutations' = Nobody /\ writes' = <<>>
    /\ hpc' = [h \in Handlers |-> IF hpc[h] \in Working THEN "dropped" ELSE hpc[h]]
    /\ unsaved' = FALSE /\ torn' = {} /\ broken' = {}
    /\ UNCHANGED <<op, target, mine, disk>>

-----------------------------------------------------------------------------
HandlerStep(h) ==
    \/ RefuseSource(h) \/ InsertSource(h) \/ FindSource(h) \/ KillSource(h)
    \/ Unregister(h) \/ RemoveRelay(h) \/ ChangeRule(h) \/ Persist(h)

ControlNext ==
    \/ \E h \in Handlers : LockMutations(h) \/ HandlerStep(h) \/ DropHandler(h)
    \/ WriteConfig
    \/ Restart

\* The runtime polls handlers and writer; the actor, the recorder and the rule
\* task answer.
ControlFair ==
    /\ \A h \in Handlers : WF_controlVars(HandlerStep(h))
    /\ WF_controlVars(WriteConfig)

ControlSpec == ControlInit /\ [][ControlNext]_controlVars

-----------------------------------------------------------------------------
\* Properties.

\* Nobody is changing id, and no change of it is waiting to be written.
Settled(id) ==
    /\ \A h \in Handlers : target[h] = id => hpc[h] \notin Working
    /\ \A i \in DOMAIN writes : writes[i].id # id

Running(id) == IF id \in Cameras THEN registered[id] # 0 ELSE id \in engineRules

\* persistence_failure_keeps_runtime_membership_and_returns_error
\* (registry.rs:782): what runs is what the writer will write next, failed
\* writes included; only a handler dropped between its change and its persist
\* tears the two apart, until the next change of that id or the next start.
RegistryMatchesConfig ==
    ~locked => \A id \in Ids : Settled(id) /\ id \notin torn => (Running(id) <=> id \in config)

\* One successful write repairs whatever an earlier one failed to save.
DiskIsConfig == ~locked /\ ~unsaved => disk = config

\* A change that was answered Ok is on disk, and so survives a crash, until
\* another request touches the same id.
AnsweredIsDurable ==
    \A h \in Handlers :
        /\ hpc[h] = "ok"
        /\ \A g \in Handlers \ {h} : target[g] = target[h] => hpc[g] = "idle"
        => (target[h] \in disk <=> op[h] = "add")

\* "registered source has an MJPEG stream" (registry.rs:631): the lookup that
\* follows can fail only for a source deleted in between.
RegisteredHasRelay == \A c \in Cameras : registered[c] # 0 => relay[c] = registered[c]

\* A source in the registry has a running actor, unless its deletion failed or
\* was dropped half-way; then it can be neither started nor deleted nor added
\* again until the server restarts.  And no actor runs outside the registry.
RegisteredIsRunning ==
    /\ \A c \in Cameras : registered[c] # 0 =>
          \/ <<c, registered[c]>> \in actors \cup broken
          \/ \E h \in Handlers : hpc[h] = "unregister" /\ Handle(h) = <<c, registered[c]>>
    /\ \A a \in actors : registered[a[1]] = a[2]

\* "Refuse every write: ... an empty snapshot would destroy a config that is
\* merely unreadable right now" (config.rs:39).
LockedConfigIsKept == [][locked => disk' = disk]_controlVars

\* Registry, actors, relays and configuration agree, through failed writes,
\* failed deletions, dropped handlers and restarts.
RegistryIsTrue == RegistryMatchesConfig /\ RegisteredHasRelay /\ RegisteredIsRunning

\* What was answered is saved, a write saves all, and an unreadable file is kept.
SavedIsDurable == [](DiskIsConfig /\ AnsweredIsDurable) /\ LockedConfigIsKept

\* Whoever holds the mutations lock gives it back: no request waits for ever
\* behind one that waits for the actor, the recorder or the writer.
MutationsAreFreed == mutations # Nobody ~> mutations = Nobody
=============================================================================
