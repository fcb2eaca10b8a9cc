------------------------ MODULE StreamControl_proofs ------------------------
(***************************************************************************)
(* Proofs about StreamControl, for any sources, rules and handlers, any    *)
(* number of incarnations and of restarts.                                 *)
(***************************************************************************)
EXTENDS StreamControl, TLAPS

Places == Working \cup {"idle", "ok", "failed", "dropped"}

(***************************************************************************)
(* What is running.  Everything rests on the mutations lock: a handler in  *)
(* its work holds it, so that what it has looked up stays true.            *)
(***************************************************************************)
Typed ==
    /\ registered \in [Cameras -> Nat] /\ relay \in [Cameras -> Nat]
    /\ incs \in [Cameras -> Nat]
    /\ actors \subseteq Cameras \X Nat
    /\ hpc \in [Handlers -> Places]
    /\ op \in [Handlers -> {"add", "delete"}]
    /\ target \in [Handlers -> Ids] /\ mine \in [Handlers -> Nat]
    /\ writes \in Seq(Writes)

WorkersHoldLock == \A h \in Handlers : hpc[h] \in Working => mutations = h

\* What a delete has in its hand, and how far it has come.
HandlesAreTrue ==
    \A h \in Handlers :
        /\ hpc[h] \in {"kill", "unregister", "unrelay"} => target[h] \in Cameras
        /\ hpc[h] \in {"kill", "unregister"} =>
              registered[target[h]] = mine[h] /\ mine[h] # 0
        /\ hpc[h] = "unregister" => Handle(h) \notin actors
        /\ hpc[h] = "unrelay" => registered[target[h]] = 0

ActorsAreRegistered == \A a \in actors : registered[a[1]] = a[2] /\ a[2] # 0

RegisteredRuns ==
    \A c \in Cameras : registered[c] # 0 =>
        \/ <<c, registered[c]>> \in actors \cup broken
        \/ \E h \in Handlers : hpc[h] = "unregister" /\ Handle(h) = <<c, registered[c]>>

RunInv ==
    /\ Typed /\ WorkersHoldLock /\ HandlesAreTrue /\ ActorsAreRegistered /\ RegisteredRuns
    /\ RegisteredHasRelay

USE DEF Places, Working, Ids, Handle

LEMMA InitRunInv == ControlInit => RunInv
<1> SUFFICES ASSUME ControlInit PROVE RunInv
    OBVIOUS
<1>1. (CHOOSE id \in Ids : TRUE) \in Ids
    BY ControlAssumption
<1>2. Typed
    BY <1>1 DEF ControlInit, Typed
<1>3. WorkersHoldLock /\ HandlesAreTrue /\ ActorsAreRegistered /\ RegisteredRuns
      /\ RegisteredHasRelay
    BY DEF ControlInit, WorkersHoldLock, HandlesAreTrue, ActorsAreRegistered, RegisteredRuns,
       RegisteredHasRelay
<1> QED
    BY <1>2, <1>3 DEF RunInv

(***************************************************************************)
(* Leaving frees the lock, and only its holder leaves.                     *)
(***************************************************************************)
LEMMA LeaveKeepsLock ==
    ASSUME Typed, WorkersHoldLock, NEW h \in Handlers, mutations = h,
           NEW l \in {"ok", "failed", "dropped"}, Leave(h, l)
    PROVE  WorkersHoldLock' /\ hpc'[h] = l
           /\ \A g \in Handlers \ {h} : hpc'[g] = hpc[g] /\ hpc[g] \notin Working
BY DEF Typed, WorkersHoldLock, Leave, HandlerTo

LEMMA MoveKeepsLock ==
    ASSUME Typed, WorkersHoldLock, NEW h \in Handlers, mutations = h, UNCHANGED mutations,
           NEW l \in Places, HandlerTo(h, l)
    PROVE  WorkersHoldLock' /\ hpc'[h] = l
           /\ \A g \in Handlers \ {h} : hpc'[g] = hpc[g] /\ hpc[g] \notin Working
BY DEF Typed, WorkersHoldLock, HandlerTo

(***************************************************************************)
(* A step that leaves the registry, the relays and the actors alone.       *)
(***************************************************************************)
LEMMA RuntimeKept ==
    ASSUME RunInv, Typed', WorkersHoldLock',
           UNCHANGED <<registered, relay, actors>>, broken \subseteq broken',
           \A h \in Handlers :
               \/ hpc'[h] \notin {"kill", "unregister", "unrelay"}
               \/ hpc'[h] = hpc[h] /\ target'[h] = target[h] /\ mine'[h] = mine[h]
               \/ /\ hpc'[h] = "kill" /\ target'[h] \in Cameras
                  /\ mine'[h] = registered[target'[h]] /\ mine'[h] # 0,
           \A h \in Handlers :
               hpc[h] = "unregister" =>
                   \/ hpc'[h] = "unregister" /\ Handle(h)' = Handle(h)
                   \/ Handle(h) \in broken'
    PROVE  RunInv'
<1>1. HandlesAreTrue'
    BY DEF RunInv, HandlesAreTrue
<1>2. ActorsAreRegistered' /\ RegisteredHasRelay'
    BY DEF RunInv, ActorsAreRegistered, RegisteredHasRelay
<1>3. RegisteredRuns'
    BY DEF RunInv, RegisteredRuns
<1> QED
    BY <1>1, <1>2, <1>3 DEF RunInv

LEMMA StepRunInv == RunInv /\ [ControlNext]_controlVars => RunInv'
<1> SUFFICES ASSUME RunInv, [ControlNext]_controlVars PROVE RunInv'
    OBVIOUS
<1> USE ControlAssumption
<1>0. Typed /\ WorkersHoldLock /\ HandlesAreTrue /\ ActorsAreRegistered
    BY DEF RunInv
<1>1. ASSUME NEW h \in Handlers, LockMutations(h) PROVE RunInv'
    <2>1. PICK o \in {"add", "delete"}, id \in Ids :
             /\ op' = [op EXCEPT ![h] = o] /\ target' = [target EXCEPT ![h] = id]
        BY <1>1 DEF LockMutations
    <2>2. /\ hpc[h] = "idle" /\ mutations = Nobody /\ mutations' = h
          /\ hpc' = [hpc EXCEPT ![h] = "work"]
          /\ UNCHANGED <<registered, incs, actors, relay, mine, broken, writes>>
        BY <1>1 DEF LockMutations, HandlerTo, runtime, store, ghosts
    <2>3. Typed'
        BY <1>0, <2>1, <2>2 DEF Typed
    <2>4. \A g \in Handlers : hpc[g] \notin Working
        BY <1>0, <2>2 DEF WorkersHoldLock
    <2>5. WorkersHoldLock'
        BY <1>0, <2>2, <2>4 DEF WorkersHoldLock, Typed
    <2> QED
        BY <1>0, <2>1, <2>2, <2>3, <2>4, <2>5, RuntimeKept DEF Typed
<1>2. ASSUME NEW h \in Handlers, RefuseSource(h) PROVE RunInv'
    <2>1. /\ hpc[h] = "work" /\ Leave(h, "failed")
          /\ UNCHANGED <<registered, incs, actors, relay, op, target, mine, broken, writes>>
        BY <1>2 DEF RefuseSource, runtime, store, ghosts
    <2>2. Typed'
        BY <1>0, <2>1 DEF Typed, Leave, HandlerTo
    <2>3. mutations = h
        BY <1>0, <2>1 DEF WorkersHoldLock
    <2>4. WorkersHoldLock' /\ hpc'[h] = "failed"
          /\ \A g \in Handlers \ {h} : hpc'[g] = hpc[g] /\ hpc[g] \notin Working
        BY <1>0, <2>1, <2>3, LeaveKeepsLock
    <2> QED
        BY <2>1, <2>2, <2>4, RuntimeKept
<1>3. ASSUME NEW h \in Handlers, InsertSource(h) PROVE RunInv'
    <2> DEFINE c == target[h]
               k == incs[c] + 1
    <2>1. /\ c \in Cameras /\ registered[c] = 0
          /\ incs' = [incs EXCEPT ![c] = k] /\ actors' = actors \cup {<<c, k>>}
          /\ relay' = [relay EXCEPT ![c] = k] /\ registered' = [registered EXCEPT ![c] = k]
          /\ hpc[h] = "work" /\ HandlerTo(h, "persist")
          /\ UNCHANGED <<mutations, op, target, mine, broken, writes>>
        BY <1>3 DEF InsertSource, On, store, ghosts
    <2>2. k \in Nat /\ k # 0
        BY <1>0, <2>1 DEF Typed
    <2> HIDE DEF c, k
    <2>3. Typed'
        BY <1>0, <2>1, <2>2 DEF Typed, HandlerTo
    <2>4. mutations = h
        BY <1>0, <2>1 DEF WorkersHoldLock
    <2>5. WorkersHoldLock' /\ hpc'[h] = "persist"
          /\ \A g \in Handlers \ {h} : hpc'[g] = hpc[g] /\ hpc[g] \notin Working
        BY <1>0, <2>1, <2>4, MoveKeepsLock
    <2>6. /\ \A d \in Cameras : registered'[d] = IF d = c THEN k ELSE registered[d]
          /\ \A d \in Cameras : relay'[d] = IF d = c THEN k ELSE relay[d]
        BY <1>0, <2>1 DEF Typed
    <2>7. HandlesAreTrue'
        BY <2>5 DEF HandlesAreTrue
    <2>8. ActorsAreRegistered'
        <3>1. \A a \in actors : a[1] \in Cameras /\ a[1] # c
            BY <1>0, <2>1 DEF Typed, ActorsAreRegistered
        <3> QED
            BY <1>0, <2>1, <2>2, <2>6, <3>1 DEF ActorsAreRegistered
    <2>9. RegisteredRuns'
        BY <2>1, <2>5, <2>6 DEF RunInv, RegisteredRuns
    <2>10. RegisteredHasRelay'
        BY <2>6 DEF RunInv, RegisteredHasRelay
    <2> QED
        BY <2>3, <2>5, <2>7, <2>8, <2>9, <2>10 DEF RunInv
<1>4. ASSUME NEW h \in Handlers, FindSource(h) PROVE RunInv'
    <2>1. /\ hpc[h] = "work" /\ target[h] \in Cameras
          /\ UNCHANGED <<registered, incs, actors, relay, op, target, broken, writes>>
        BY <1>4 DEF FindSource, On, runtime, store, ghosts
    <2>2. mutations = h
        BY <1>0, <2>1 DEF WorkersHoldLock
    <2>3. CASE registered[target[h]] = 0
        <3>1. Leave(h, "failed") /\ UNCHANGED mine
            BY <1>4, <2>3 DEF FindSource
        <3>2. Typed'
            BY <1>0, <2>1, <3>1 DEF Typed, Leave, HandlerTo
        <3>3. WorkersHoldLock' /\ hpc'[h] = "failed"
              /\ \A g \in Handlers \ {h} : hpc'[g] = hpc[g] /\ hpc[g] \notin Working
            BY <1>0, <2>2, <3>1, LeaveKeepsLock
        <3> QED
            BY <2>1, <3>1, <3>2, <3>3, RuntimeKept
    <2>4. CASE registered[target[h]] # 0
        <3>1. /\ mine' = [mine EXCEPT ![h] = registered[target[h]]]
              /\ HandlerTo(h, "kill") /\ UNCHANGED mutations
            BY <1>4, <2>4 DEF FindSource
        <3>2. Typed'
            BY <1>0, <2>1, <3>1 DEF Typed, HandlerTo
        <3>3. WorkersHoldLock' /\ hpc'[h] = "kill"
              /\ \A g \in Handlers \ {h} : hpc'[g] = hpc[g] /\ hpc[g] \notin Working
            BY <1>0, <2>2, <3>1, MoveKeepsLock
        <3>4. mine'[h] = registered[target[h]] /\ \A g \in Handlers \ {h} : mine'[g] = mine[g]
            BY <1>0, <3>1 DEF Typed
        <3> QED
            BY <2>1, <2>4, <3>2, <3>3, <3>4, RuntimeKept
    <2> QED
        BY <2>3, <2>4
<1>5. ASSUME NEW h \in Handlers, KillSource(h) PROVE RunInv'
    <2>1. /\ hpc[h] = "kill" /\ actors' = actors \ {Handle(h)}
          /\ UNCHANGED <<registered, incs, relay, op, target, mine, writes>>
        BY <1>5 DEF KillSource, store
    <2>2. mutations = h
        BY <1>0, <2>1 DEF WorkersHoldLock
    <2>3. /\ target[h] \in Cameras /\ registered[target[h]] = mine[h] /\ mine[h] # 0
        BY <1>0, <2>1 DEF HandlesAreTrue
    <2>4. ActorsAreRegistered' /\ RegisteredHasRelay'
        BY <2>1 DEF RunInv, ActorsAreRegistered, RegisteredHasRelay
    <2>5. CASE HandlerTo(h, "unregister") /\ UNCHANGED <<mutations, broken>>
        <3>1. Typed'
            BY <1>0, <2>1, <2>5 DEF Typed, HandlerTo
        <3>2. WorkersHoldLock' /\ hpc'[h] = "unregister"
              /\ \A g \in Handlers \ {h} : hpc'[g] = hpc[g] /\ hpc[g] \notin Working
            BY <1>0, <2>2, <2>5, MoveKeepsLock
        <3>3. HandlesAreTrue'
            BY <2>1, <2>3, <3>2 DEF HandlesAreTrue
        <3>4. RegisteredRuns'
            <4> SUFFICES ASSUME NEW c \in Cameras, registered[c] # 0
                         PROVE  \/ <<c, registered[c]>> \in actors' \cup broken
                                \/ \E g \in Handlers : hpc'[g] = "unregister"
                                                        /\ Handle(g) = <<c, registered[c]>>
                BY <2>1, <2>5 DEF RegisteredRuns
            <4>1. CASE <<c, registered[c]>> = Handle(h)
                BY <3>2, <4>1
            <4>2. CASE <<c, registered[c]>> # Handle(h)
                BY <2>1, <3>2, <4>2 DEF RunInv, RegisteredRuns
            <4> QED
                BY <4>1, <4>2
        <3> QED
            BY <2>4, <3>1, <3>2, <3>3, <3>4 DEF RunInv
    <2>6. CASE Leave(h, "failed") /\ broken' = broken \cup {Handle(h)}
        <3>1. Typed'
            BY <1>0, <2>1, <2>6 DEF Typed, Leave, HandlerTo
        <3>2. WorkersHoldLock' /\ hpc'[h] = "failed"
              /\ \A g \in Handlers \ {h} : hpc'[g] = hpc[g] /\ hpc[g] \notin Working
            BY <1>0, <2>2, <2>6, LeaveKeepsLock
        <3>3. HandlesAreTrue'
            BY <2>1, <3>2 DEF HandlesAreTrue
        <3>4. RegisteredRuns'
            BY <2>1, <2>6, <3>2 DEF RunInv, RegisteredRuns
        <3> QED
            BY <2>4, <3>1, <3>2, <3>3, <3>4 DEF RunInv
    <2> QED
        BY <1>5, <2>5, <2>6 DEF KillSource
<1>6. ASSUME NEW h \in Handlers, Unregister(h) PROVE RunInv'
    <2>1. /\ hpc[h] = "unregister" /\ HandlerTo(h, "unrelay")
          /\ UNCHANGED <<incs, actors, relay, mutations, op, target, mine, broken, writes>>
        BY <1>6 DEF Unregister, store, ghosts
    <2>2. mutations = h
        BY <1>0, <2>1 DEF WorkersHoldLock
    <2>3. /\ target[h] \in Cameras /\ registered[target[h]] = mine[h] /\ mine[h] # 0
          /\ Handle(h) \notin actors
        BY <1>0, <2>1 DEF HandlesAreTrue
    <2>4. registered' = [registered EXCEPT ![target[h]] = 0]
        BY <1>6, <2>3 DEF Unregister
    <2>5. \A d \in Cameras : registered'[d] = IF d = target[h] THEN 0 ELSE registered[d]
        BY <1>0, <2>3, <2>4 DEF Typed
    <2>6. Typed'
        BY <1>0, <2>1, <2>4 DEF Typed, HandlerTo
    <2>7. WorkersHoldLock' /\ hpc'[h] = "unrelay"
          /\ \A g \in Handlers \ {h} : hpc'[g] = hpc[g] /\ hpc[g] \notin Working
        BY <1>0, <2>1, <2>2, MoveKeepsLock
    <2>8. HandlesAreTrue'
        BY <2>1, <2>3, <2>5, <2>7 DEF HandlesAreTrue
    <2>9. ActorsAreRegistered'
        <3> SUFFICES ASSUME NEW a \in actors PROVE registered'[a[1]] = a[2] /\ a[2] # 0
            BY <2>1 DEF ActorsAreRegistered
        <3>1. a = <<a[1], a[2]>> /\ a[1] \in Cameras /\ registered[a[1]] = a[2] /\ a[2] # 0
            BY <1>0 DEF Typed, ActorsAreRegistered
        <3>2. a[1] # target[h]
            BY <2>3, <3>1
        <3> QED
            BY <2>5, <3>1, <3>2
    <2>10. RegisteredRuns'
        <3> SUFFICES ASSUME NEW c \in Cameras, registered'[c] # 0
                     PROVE  \/ <<c, registered'[c]>> \in actors \cup broken
                            \/ \E g \in Handlers : /\ hpc'[g] = "unregister"
                                                   /\ Handle(g) = <<c, registered'[c]>>
            BY <2>1 DEF RegisteredRuns
        <3>1. c # target[h] /\ registered'[c] = registered[c]
            BY <2>5
        <3> QED
            BY <2>7, <3>1 DEF RunInv, RegisteredRuns
    <2>11. RegisteredHasRelay'
        BY <2>1, <2>5 DEF RunInv, RegisteredHasRelay
    <2> QED
        BY <2>6, <2>7, <2>8, <2>9, <2>10, <2>11 DEF RunInv
<1>7. ASSUME NEW h \in Handlers, RemoveRelay(h) PROVE RunInv'
    <2>1. /\ hpc[h] = "unrelay" /\ HandlerTo(h, "persist")
          /\ relay' = [relay EXCEPT ![target[h]] = 0]
          /\ UNCHANGED <<registered, incs, actors, mutations, op, target, mine, broken, writes>>
        BY <1>7 DEF RemoveRelay, store, ghosts
    <2>2. mutations = h
        BY <1>0, <2>1 DEF WorkersHoldLock
    <2>3. target[h] \in Cameras /\ registered[target[h]] = 0
        BY <1>0, <2>1 DEF HandlesAreTrue
    <2>4. Typed'
        BY <1>0, <2>1 DEF Typed, HandlerTo
    <2>5. WorkersHoldLock' /\ hpc'[h] = "persist"
          /\ \A g \in Handlers \ {h} : hpc'[g] = hpc[g] /\ hpc[g] \notin Working
        BY <1>0, <2>1, <2>2, MoveKeepsLock
    <2>6. HandlesAreTrue'
        BY <2>5 DEF HandlesAreTrue
    <2>7. ActorsAreRegistered'
        BY <1>0, <2>1 DEF ActorsAreRegistered
    <2>8. RegisteredRuns'
        BY <2>1, <2>5 DEF RunInv, RegisteredRuns
    <2>9. RegisteredHasRelay'
        BY <1>0, <2>1, <2>3 DEF Typed, RunInv, RegisteredHasRelay
    <2> QED
        BY <2>4, <2>5, <2>6, <2>7, <2>8, <2>9 DEF RunInv
<1>8. ASSUME NEW h \in Handlers, ChangeRule(h) PROVE RunInv'
    <2>1. /\ hpc[h] = "work"
          /\ UNCHANGED <<registered, incs, actors, relay, op, target, mine, broken, writes>>
          /\ Leave(h, "failed") \/ (HandlerTo(h, "persist") /\ UNCHANGED mutations)
        BY <1>8 DEF ChangeRule, store, ghosts
    <2>2. mutations = h
        BY <1>0, <2>1 DEF WorkersHoldLock
    <2>3. Typed'
        BY <1>0, <2>1 DEF Typed, Leave, HandlerTo
    <2>4. WorkersHoldLock' /\ hpc'[h] \in {"failed", "persist"}
          /\ \A g \in Handlers \ {h} : hpc'[g] = hpc[g] /\ hpc[g] \notin Working
        BY <1>0, <2>1, <2>2, LeaveKeepsLock, MoveKeepsLock
    <2> QED
        BY <2>1, <2>3, <2>4, RuntimeKept
<1>9. ASSUME NEW h \in Handlers, Persist(h) PROVE RunInv'
    <2>1. /\ hpc[h] = "persist" /\ HandlerTo(h, "await")
          /\ UNCHANGED <<registered, incs, actors, relay, mutations, op, target, mine, broken>>
        BY <1>9 DEF Persist, runtime
    <2>2. mutations = h
        BY <1>0, <2>1 DEF WorkersHoldLock
    <2>3. writes' \in Seq(Writes)
        BY <1>0, <1>9 DEF Persist, Typed, Writes
    <2>4. Typed'
        BY <1>0, <2>1, <2>3 DEF Typed, HandlerTo
    <2>5. WorkersHoldLock' /\ hpc'[h] = "await"
          /\ \A g \in Handlers \ {h} : hpc'[g] = hpc[g] /\ hpc[g] \notin Working
        BY <1>0, <2>1, <2>2, MoveKeepsLock
    <2> QED
        BY <2>1, <2>4, <2>5, RuntimeKept
<1>10. ASSUME NEW h \in Handlers, DropHandler(h) PROVE RunInv'
    <2>1. /\ hpc[h] \in Working /\ Leave(h, "dropped")
          /\ UNCHANGED <<registered, incs, relay, op, target, mine, writes>>
          /\ actors' = actors \/ (hpc[h] = "kill" /\ actors' = actors \ {Handle(h)})
          /\ broken \subseteq broken'
          /\ hpc[h] \in {"kill", "unregister"} => Handle(h) \in broken'
        BY <1>10 DEF DropHandler, store
    <2>2. mutations = h
        BY <1>0, <2>1 DEF WorkersHoldLock
    <2>3. Typed'
        BY <1>0, <2>1 DEF Typed, Leave, HandlerTo
    <2>4. WorkersHoldLock' /\ hpc'[h] = "dropped"
          /\ \A g \in Handlers \ {h} : hpc'[g] = hpc[g] /\ hpc[g] \notin Working
        BY <1>0, <2>1, <2>2, LeaveKeepsLock
    <2>5. HandlesAreTrue'
        BY <2>1, <2>4 DEF HandlesAreTrue
    <2>6. ActorsAreRegistered' /\ RegisteredHasRelay'
        BY <2>1 DEF RunInv, ActorsAreRegistered, RegisteredHasRelay
    <2>7. RegisteredRuns'
        <3> SUFFICES ASSUME NEW c \in Cameras, registered[c] # 0
                     PROVE  <<c, registered[c]>> \in actors' \cup broken'
            BY <2>1 DEF RegisteredRuns
        <3>1. \/ <<c, registered[c]>> \in actors \cup broken
              \/ hpc[h] = "unregister" /\ Handle(h) = <<c, registered[c]>>
            BY <2>4 DEF RunInv, RegisteredRuns
        <3> QED
            BY <2>1, <3>1
    <2> QED
        BY <2>3, <2>4, <2>5, <2>6, <2>7 DEF RunInv
<1>11. CASE WriteConfig
    <2> DEFINE w == Head(writes)
    <2>1. /\ writes # <<>> /\ writes' = Tail(writes)
          /\ UNCHANGED <<registered, incs, actors, relay, op, target, mine, broken>>
          /\ \E l \in {"ok", "failed"} : Reply(w.from, l)
        BY <1>11 DEF WriteConfig, runtime, ghosts
    <2>2. w.from \in Handlers /\ writes' \in Seq(Writes)
        <3>1. w \in Writes /\ writes' \in Seq(Writes)
            BY <1>0, <2>1 DEF Typed
        <3> QED
            BY <3>1 DEF Writes
    <2> HIDE DEF w
    <2>3. CASE UNCHANGED <<hpc, mutations>>
        <3>1. Typed' /\ WorkersHoldLock'
            BY <1>0, <2>1, <2>2, <2>3 DEF Typed, WorkersHoldLock
        <3> QED
            BY <2>1, <2>3, <3>1, RuntimeKept
    <2>4. CASE ~UNCHANGED <<hpc, mutations>>
        <3>1. PICK l \in {"ok", "failed"} : hpc[w.from] = "await" /\ Leave(w.from, l)
            BY <2>1, <2>4 DEF Reply
        <3>2. mutations = w.from
            BY <1>0, <2>2, <3>1 DEF WorkersHoldLock
        <3>3. Typed'
            BY <1>0, <2>1, <2>2, <3>1 DEF Typed, Leave, HandlerTo
        <3>4. WorkersHoldLock' /\ hpc'[w.from] = l
              /\ \A g \in Handlers \ {w.from} : hpc'[g] = hpc[g] /\ hpc[g] \notin Working
            BY <1>0, <2>2, <3>1, <3>2, LeaveKeepsLock
        <3> QED
            BY <2>1, <2>2, <3>1, <3>3, <3>4, RuntimeKept
    <2> QED
        BY <2>3, <2>4
<1>12. CASE Restart
    <2>1. /\ incs' = [c \in Cameras |-> IF c \in config' THEN incs[c] + 1 ELSE incs[c]]
          /\ registered' = [c \in Cameras |-> IF c \in config' THEN incs'[c] ELSE 0]
          /\ relay' = registered'
          /\ actors' = {<<c, registered'[c]>> : c \in config' \cap Cameras}
          /\ writes' = <<>>
          /\ hpc' = [h \in Handlers |-> IF hpc[h] \in Working THEN "dropped" ELSE hpc[h]]
          /\ UNCHANGED <<op, target, mine>>
        BY <1>12 DEF Restart
    <2>2. \A c \in Cameras : incs[c] \in Nat
        BY <1>0 DEF Typed
    <2>3. incs' \in [Cameras -> Nat]
        BY <2>1, <2>2
    <2>4. registered' \in [Cameras -> Nat]
        BY <2>1, <2>3
    <2>5. \A c \in Cameras : c \in config' => registered'[c] # 0
        BY <2>1, <2>2
    <2>6. \A c \in Cameras : c \notin config' => registered'[c] = 0
        BY <2>1
    <2>7. \A h \in Handlers : hpc'[h] \in {"idle", "ok", "failed", "dropped"}
        BY <1>0, <2>1 DEF Typed
    <2>8. Typed'
        BY <1>0, <2>1, <2>3, <2>4, <2>7 DEF Typed
    <2>9. WorkersHoldLock' /\ HandlesAreTrue'
        BY <2>7 DEF WorkersHoldLock, HandlesAreTrue
    <2>10. ActorsAreRegistered'
        BY <2>1, <2>5 DEF ActorsAreRegistered
    <2>11. RegisteredRuns'
        BY <2>1, <2>6 DEF RegisteredRuns
    <2>12. RegisteredHasRelay'
        BY <2>1 DEF RegisteredHasRelay
    <2> QED
        BY <2>8, <2>9, <2>10, <2>11, <2>12 DEF RunInv
<1>13. CASE UNCHANGED controlVars
    <2>1. Typed' /\ WorkersHoldLock'
        BY <1>0, <1>13 DEF controlVars, runtime, handlers, store, Typed, WorkersHoldLock
    <2> QED
        BY <1>13, <2>1, RuntimeKept DEF controlVars, runtime, handlers, ghosts
<1> QED
    BY <1>1, <1>2, <1>3, <1>4, <1>5, <1>6, <1>7, <1>8, <1>9, <1>10, <1>11, <1>12, <1>13
       DEF ControlNext, HandlerStep

-----------------------------------------------------------------------------
(***************************************************************************)
(* The lookup of mjpeg_response finds the relay of the source it found in  *)
(* the registry, whatever was added, deleted and restored before.          *)
(***************************************************************************)
THEOREM RelayIsThere == ControlSpec => []RegisteredHasRelay
<1>1. RunInv => RegisteredHasRelay
    BY DEF RunInv
<1> QED
    BY <1>1, InitRunInv, StepRunInv, PTL DEF ControlSpec

(***************************************************************************)
(* No actor runs outside the registry, and a registered source without an  *)
(* actor is one whose deletion failed or was dropped.                      *)
(***************************************************************************)
THEOREM RegistryIsRunning == ControlSpec => []RegisteredIsRunning
<1>1. RunInv => RegisteredIsRunning
    BY DEF RunInv, RegisteredRuns, ActorsAreRegistered, RegisteredIsRunning
<1> QED
    BY <1>1, InitRunInv, StepRunInv, PTL DEF ControlSpec

-----------------------------------------------------------------------------
(***************************************************************************)
(* What is saved.  The writes in the channel are ahead of config: what     *)
(* runs agrees with the last write of an id, and with config where there   *)
(* is none - except while a handler stands between its change and its      *)
(* write, and after one was dropped there.                                 *)
(***************************************************************************)
Midway(h) == hpc[h] \in {"unrelay", "persist"}

ChangeIsMade ==
    \A h \in Handlers :
        /\ hpc[h] \in {"kill", "unregister", "unrelay"} => op[h] = "delete"
        /\ hpc[h] = "persist" => (Running(target[h]) <=> op[h] = "add")

WritesAreTrue ==
    \A i \in 1 .. Len(writes) :
        LET h == writes[i].from
        IN  /\ hpc[h] \in {"await", "dropped"} /\ target[h] = writes[i].id
            /\ writes[i].op = "upsert" <=> op[h] = "add"

OneWriteEach ==
    \A i, j \in 1 .. Len(writes) : writes[i].from = writes[j].from => i = j

LastOf(i, id) ==
    writes[i].id = id /\ \A j \in 1 .. Len(writes) : j > i => writes[j].id # id

Agrees(id) ==
    /\ (\A i \in 1 .. Len(writes) : writes[i].id # id) => (Running(id) <=> id \in config)
    /\ \A i \in 1 .. Len(writes) :
          LastOf(i, id) => (Running(id) <=> writes[i].op = "upsert")

RunsWhatIsWritten ==
    ~locked => \A id \in Ids :
        id \notin torn /\ (\A h \in Handlers : Midway(h) => target[h] # id) => Agrees(id)

\* Of the other requests none has touched h's id.
Alone(h) == \A g \in Handlers \ {h} : target[g] = target[h] => hpc[g] = "idle"

Durable ==
    \A h \in Handlers : hpc[h] = "ok" /\ Alone(h) =>
        /\ target[h] \in disk <=> op[h] = "add"
        /\ ~locked => (target[h] \in config <=> op[h] = "add")

ConfInv ==
    /\ ChangeIsMade /\ WritesAreTrue /\ OneWriteEach /\ RunsWhatIsWritten
    /\ DiskIsConfig /\ Durable

LEMMA InitConfInv == ControlInit => ConfInv
<1> SUFFICES ASSUME ControlInit PROVE ConfInv
    OBVIOUS
<1>1. ChangeIsMade /\ WritesAreTrue /\ OneWriteEach /\ Durable
    BY DEF ControlInit, ChangeIsMade, WritesAreTrue, OneWriteEach, Durable
<1>2. \A id \in Ids : ~Running(id) /\ id \notin config
    BY DEF ControlInit, Running
<1>3. RunsWhatIsWritten /\ DiskIsConfig
    BY <1>2 DEF ControlInit, RunsWhatIsWritten, Agrees, DiskIsConfig
<1> QED
    BY <1>1, <1>3 DEF ConfInv

(***************************************************************************)
(* A step of handler h that sends no write: it may change what runs under  *)
(* its own id, if it is midway afterwards or the id counts as torn.        *)
(***************************************************************************)
LEMMA HandlerKeepsConf ==
    ASSUME Typed, ConfInv, NEW h \in Handlers, UNCHANGED store,
           \A g \in Handlers \ {h} :
               hpc'[g] = hpc[g] /\ target'[g] = target[g] /\ op'[g] = op[g],
           \A g \in Handlers \ {h} : hpc[g] \notin Working,
           \/ hpc[h] = "idle"
           \/ hpc[h] \in Working /\ target'[h] = target[h] /\ op'[h] = op[h],
           hpc'[h] \notin {"idle", "ok"}, hpc[h] = "await" => hpc'[h] = "dropped",
           hpc'[h] \in {"kill", "unregister", "unrelay"} => op'[h] = "delete",
           hpc'[h] = "persist" => (Running(target[h])' <=> op'[h] = "add"),
           torn \subseteq torn',
           \A id \in Ids :
               \/ id \in torn'
               \/ Midway(h)' /\ target'[h] = id
               \/ (Running(id)' <=> Running(id)) /\ ~(Midway(h) /\ target[h] = id)
    PROVE  ConfInv'
<1>1. ChangeIsMade'
    BY DEF ConfInv, ChangeIsMade
<1>2. WritesAreTrue'
    <2> SUFFICES ASSUME NEW i \in 1 .. Len(writes)
                 PROVE  LET g == writes[i].from
                        IN  /\ hpc'[g] \in {"await", "dropped"} /\ target'[g] = writes[i].id
                            /\ writes[i].op = "upsert" <=> op'[g] = "add"
        BY DEF WritesAreTrue, store
    <2> DEFINE g == writes[i].from
    <2>1. /\ hpc[g] \in {"await", "dropped"} /\ target[g] = writes[i].id
          /\ writes[i].op = "upsert" <=> op[g] = "add"
        BY DEF ConfInv, WritesAreTrue
    <2>2. g \in Handlers
        <3>1. writes[i] \in Writes
            BY DEF Typed
        <3> QED
            BY <3>1 DEF Writes
    <2>3. CASE g = h
        BY <2>1, <2>3
    <2>4. CASE g # h
        BY <2>1, <2>2, <2>4
    <2> QED
        BY <2>3, <2>4
<1>3. OneWriteEach'
    BY DEF ConfInv, OneWriteEach, store
<1>4. RunsWhatIsWritten'
    <2> SUFFICES ASSUME ~locked, NEW id \in Ids, id \notin torn',
                        \A g \in Handlers : Midway(g)' => target'[g] # id
                 PROVE  Agrees(id)'
        BY DEF RunsWhatIsWritten, store
    <2>1. (Running(id)' <=> Running(id)) /\ ~(Midway(h) /\ target[h] = id)
        OBVIOUS
    <2>2. \A g \in Handlers : Midway(g) => target[g] # id
        BY <2>1 DEF Midway
    <2>3. Agrees(id)
        BY <2>2 DEF ConfInv, RunsWhatIsWritten
    <2> QED
        BY <2>1, <2>3 DEF Agrees, LastOf, store
<1>5. DiskIsConfig'
    BY DEF ConfInv, DiskIsConfig, store
<1>6. Durable'
    <2> SUFFICES ASSUME NEW g \in Handlers, hpc'[g] = "ok", Alone(g)'
                 PROVE  /\ target'[g] \in disk <=> op'[g] = "add"
                        /\ ~locked => (target'[g] \in config <=> op'[g] = "add")
        BY DEF Durable, store
    <2>1. g # h
        OBVIOUS
    <2>2. hpc[g] = "ok" /\ target'[g] = target[g] /\ op'[g] = op[g]
        BY <2>1
    <2>3. Alone(g)
        BY <2>1, <2>2 DEF Alone
    <2> QED
        BY <2>2, <2>3 DEF ConfInv, Durable
<1> QED
    BY <1>1, <1>2, <1>3, <1>4, <1>5, <1>6 DEF ConfInv

LEMMA OthersRest ==
    ASSUME WorkersHoldLock, NEW h \in Handlers, hpc[h] \in Working
    PROVE  \A g \in Handlers \ {h} : hpc[g] \notin Working
BY DEF WorkersHoldLock

(***************************************************************************)
(* The steps before a handler's write, and its being dropped.              *)
(***************************************************************************)
LEMMA HandlerStepsKeepConf ==
    ASSUME RunInv, ConfInv, NEW h \in Handlers,
           \/ LockMutations(h) \/ RefuseSource(h) \/ InsertSource(h) \/ FindSource(h)
           \/ KillSource(h) \/ Unregister(h) \/ RemoveRelay(h) \/ ChangeRule(h)
           \/ DropHandler(h)
    PROVE  ConfInv'
<1> USE ControlAssumption
<1>0. Typed /\ WorkersHoldLock /\ HandlesAreTrue /\ ChangeIsMade
    BY DEF RunInv, ConfInv
<1>1. CASE LockMutations(h)
    <2>1. /\ hpc[h] = "idle" /\ mutations = Nobody
          /\ hpc' = [hpc EXCEPT ![h] = "work"]
          /\ UNCHANGED <<registered, engineRules, torn>> /\ UNCHANGED store
          /\ \E o, id : op' = [op EXCEPT ![h] = o] /\ target' = [target EXCEPT ![h] = id]
        BY <1>1 DEF LockMutations, HandlerTo, runtime, ghosts
    <2>2. \A g \in Handlers : hpc[g] \notin Working
        BY <1>0, <2>1 DEF WorkersHoldLock
    <2>3. /\ hpc'[h] = "work"
          /\ \A g \in Handlers \ {h} :
                hpc'[g] = hpc[g] /\ target'[g] = target[g] /\ op'[g] = op[g]
        BY <1>0, <2>1 DEF Typed
    <2>4. \A id \in Ids : Running(id)' <=> Running(id)
        BY <2>1 DEF Running
    <2> QED
        BY <1>0, <2>1, <2>2, <2>3, <2>4, HandlerKeepsConf DEF Midway
<1>2. ASSUME hpc[h] \in {"work", "kill"}, UNCHANGED <<registered, engineRules, torn>>,
             UNCHANGED store, UNCHANGED <<target, op>>,
             \E l \in {"failed", "kill", "unregister"} : hpc' = [hpc EXCEPT ![h] = l],
             hpc'[h] \in {"kill", "unregister"} => op[h] = "delete"
      PROVE  ConfInv'
    <2>1. \A g \in Handlers \ {h} : hpc[g] \notin Working
        BY <1>0, <1>2, OthersRest
    <2>2. /\ hpc'[h] \in {"failed", "kill", "unregister"}
          /\ \A g \in Handlers \ {h} : hpc'[g] = hpc[g]
        BY <1>0, <1>2 DEF Typed
    <2>3. \A id \in Ids : Running(id)' <=> Running(id)
        BY <1>2 DEF Running
    <2> QED
        BY <1>0, <1>2, <2>1, <2>2, <2>3, HandlerKeepsConf DEF Midway
<1>3. CASE RefuseSource(h)
    BY <1>2, <1>3, <1>0 DEF RefuseSource, Leave, HandlerTo, runtime, ghosts, Typed
<1>4. CASE FindSource(h)
    <2>1. op[h] = "delete"
        BY <1>4 DEF FindSource, On
    <2>2. \E l \in {"failed", "kill"} : hpc' = [hpc EXCEPT ![h] = l]
        BY <1>4 DEF FindSource, Leave, HandlerTo
    <2> QED
        BY <1>2, <1>4, <2>1, <2>2 DEF FindSource, runtime, ghosts
<1>5. CASE KillSource(h)
    <2>1. op[h] = "delete"
        BY <1>0, <1>5 DEF KillSource, ChangeIsMade
    <2>2. \E l \in {"failed", "unregister"} : hpc' = [hpc EXCEPT ![h] = l]
        BY <1>5 DEF KillSource, Leave, HandlerTo
    <2> QED
        BY <1>2, <1>5, <2>1, <2>2 DEF KillSource
<1>6. CASE InsertSource(h)
    <2>1. /\ hpc[h] = "work" /\ op[h] = "add" /\ target[h] \in Cameras
          /\ registered' = [registered EXCEPT ![target[h]] = incs[target[h]] + 1]
          /\ hpc' = [hpc EXCEPT ![h] = "persist"]
          /\ UNCHANGED <<engineRules, torn, target, op>> /\ UNCHANGED store
        BY <1>6 DEF InsertSource, On, HandlerTo, ghosts
    <2>2. \A g \in Handlers \ {h} : hpc[g] \notin Working
        BY <1>0, <2>1, OthersRest
    <2>3. hpc'[h] = "persist" /\ \A g \in Handlers \ {h} : hpc'[g] = hpc[g]
        BY <1>0, <2>1 DEF Typed
    <2>4. registered'[target[h]] # 0
          /\ \A c \in Cameras \ {target[h]} : registered'[c] = registered[c]
        BY <1>0, <2>1 DEF Typed
    <2>5. Running(target[h])' /\ \A id \in Ids \ {target[h]} : Running(id)' <=> Running(id)
        BY <2>1, <2>4 DEF Running
    <2> QED
        BY <1>0, <2>1, <2>2, <2>3, <2>5, HandlerKeepsConf DEF Midway
<1>7. CASE Unregister(h)
    <2>1. /\ hpc[h] = "unregister" /\ hpc' = [hpc EXCEPT ![h] = "unrelay"]
          /\ UNCHANGED <<engineRules, torn, target, op>> /\ UNCHANGED store
        BY <1>7 DEF Unregister, HandlerTo, ghosts
    <2>2. target[h] \in Cameras /\ op[h] = "delete"
        BY <1>0, <2>1 DEF HandlesAreTrue, ChangeIsMade
    <2>3. registered' = [registered EXCEPT ![target[h]] = 0] \/ registered' = registered
        BY <1>7 DEF Unregister
    <2>4. \A g \in Handlers \ {h} : hpc[g] \notin Working
        BY <1>0, <2>1, OthersRest
    <2>5. hpc'[h] = "unrelay" /\ \A g \in Handlers \ {h} : hpc'[g] = hpc[g]
        BY <1>0, <2>1 DEF Typed
    <2>6. \A c \in Cameras \ {target[h]} : registered'[c] = registered[c]
        BY <1>0, <2>3 DEF Typed
    <2>7. \A id \in Ids \ {target[h]} : Running(id)' <=> Running(id)
        BY <2>1, <2>6 DEF Running
    <2> QED
        BY <1>0, <2>1, <2>2, <2>4, <2>5, <2>7, HandlerKeepsConf DEF Midway
<1>8. CASE RemoveRelay(h)
    <2>1. /\ hpc[h] = "unrelay" /\ hpc' = [hpc EXCEPT ![h] = "persist"]
          /\ UNCHANGED <<registered, engineRules, torn, target, op>> /\ UNCHANGED store
        BY <1>8 DEF RemoveRelay, HandlerTo, ghosts
    <2>2. target[h] \in Cameras /\ op[h] = "delete" /\ registered[target[h]] = 0
        BY <1>0, <2>1 DEF HandlesAreTrue, ChangeIsMade
    <2>3. \A g \in Handlers \ {h} : hpc[g] \notin Working
        BY <1>0, <2>1, OthersRest
    <2>4. hpc'[h] = "persist" /\ \A g \in Handlers \ {h} : hpc'[g] = hpc[g]
        BY <1>0, <2>1 DEF Typed
    <2>5. ~Running(target[h])' /\ \A id \in Ids : Running(id)' <=> Running(id)
        BY <2>1, <2>2 DEF Running
    <2> QED
        BY <1>0, <2>1, <2>2, <2>3, <2>4, <2>5, HandlerKeepsConf DEF Midway
<1>9. CASE ChangeRule(h)
    <2>1. /\ hpc[h] = "work" /\ target[h] \in RuleIds /\ op[h] \in {"add", "delete"}
          /\ UNCHANGED <<registered, torn, target, op>> /\ UNCHANGED store
        BY <1>0, <1>9 DEF ChangeRule, ghosts, Typed
    <2>2. CASE hpc' = [hpc EXCEPT ![h] = "failed"] /\ UNCHANGED engineRules
        BY <1>2, <1>0, <2>1, <2>2 DEF Typed
    <2>3. CASE /\ hpc' = [hpc EXCEPT ![h] = "persist"]
               /\ engineRules' = IF op[h] = "add" THEN engineRules \cup {target[h]}
                                                  ELSE engineRules \ {target[h]}
        <3>1. \A g \in Handlers \ {h} : hpc[g] \notin Working
            BY <1>0, <2>1, OthersRest
        <3>2. hpc'[h] = "persist" /\ \A g \in Handlers \ {h} : hpc'[g] = hpc[g]
            BY <1>0, <2>3 DEF Typed
        <3>3. Running(target[h])' <=> op[h] = "add"
            BY <2>1, <2>3 DEF Running
        <3>4. \A id \in Ids \ {target[h]} : Running(id)' <=> Running(id)
            BY <2>1, <2>3 DEF Running
        <3> QED
            BY <1>0, <2>1, <3>1, <3>2, <3>3, <3>4, HandlerKeepsConf DEF Midway
    <2> QED
        BY <1>9, <2>2, <2>3 DEF ChangeRule, Leave, HandlerTo
<1>10. CASE DropHandler(h)
    <2>1. /\ hpc[h] \in Working /\ hpc' = [hpc EXCEPT ![h] = "dropped"]
          /\ UNCHANGED <<registered, target, op>> /\ UNCHANGED store /\ torn \subseteq torn'
          /\ Midway(h) => target[h] \in torn'
          /\ \/ UNCHANGED engineRules
             \/ /\ target[h] \in RuleIds /\ target[h] \in torn'
                /\ \/ engineRules' = engineRules \cup {target[h]}
                   \/ engineRules' = engineRules \ {target[h]}
        BY <1>10 DEF DropHandler, Leave, HandlerTo, Midway
    <2>2. \A g \in Handlers \ {h} : hpc[g] \notin Working
        BY <1>0, <2>1, OthersRest
    <2>3. hpc'[h] = "dropped" /\ \A g \in Handlers \ {h} : hpc'[g] = hpc[g]
        BY <1>0, <2>1 DEF Typed
    <2>4. \A id \in Ids : id \in torn' \/ ((Running(id)' <=> Running(id)) /\ id \notin torn')
        BY <2>1 DEF Running
    <2>5. \A id \in Ids :
             \/ id \in torn'
             \/ (Running(id)' <=> Running(id)) /\ ~(Midway(h) /\ target[h] = id)
        BY <2>1, <2>4
    <2> QED
        BY <1>0, <2>1, <2>2, <2>3, <2>5, HandlerKeepsConf
<1> QED
    BY <1>1, <1>3, <1>4, <1>5, <1>6, <1>7, <1>8, <1>9, <1>10

(***************************************************************************)
(* The write itself: the last word on its id is what was done.             *)
(***************************************************************************)
LEMMA PersistKeepsConf ==
    ASSUME RunInv, ConfInv, NEW h \in Handlers, Persist(h)
    PROVE  ConfInv'
<1> DEFINE w == [op |-> IF op[h] = "add" THEN "upsert" ELSE "delete", id |-> target[h], from |-> h]
<1>0. Typed /\ WorkersHoldLock /\ ChangeIsMade /\ WritesAreTrue /\ OneWriteEach
      /\ RunsWhatIsWritten /\ Durable /\ DiskIsConfig
    BY DEF RunInv, ConfInv
<1>1. /\ hpc[h] = "persist" /\ writes' = Append(writes, w)
      /\ torn' = torn \ {target[h]} /\ hpc' = [hpc EXCEPT ![h] = "await"]
      /\ UNCHANGED <<registered, engineRules, op, target, config, disk, locked, unsaved>>
    BY DEF Persist, HandlerTo, runtime
<1>2. /\ w.id = target[h] /\ w.from = h
      /\ w.op = "upsert" <=> op[h] = "add"
    OBVIOUS
<1> HIDE DEF w
<1>3. /\ Len(writes') = Len(writes) + 1 /\ Len(writes) \in Nat
      /\ writes'[Len(writes) + 1] = w
      /\ \A i \in 1 .. Len(writes) : writes'[i] = writes[i]
    BY <1>0, <1>1 DEF Typed
<1>4. /\ hpc'[h] = "await" /\ \A g \in Handlers \ {h} : hpc'[g] = hpc[g] /\ hpc[g] \notin Working
    BY <1>0, <1>1, OthersRest DEF Typed
<1>5. \A i \in 1 .. Len(writes) : writes[i].from \in Handlers /\ writes[i].from # h
    <2> SUFFICES ASSUME NEW i \in 1 .. Len(writes)
                 PROVE  writes[i].from \in Handlers /\ writes[i].from # h
        OBVIOUS
    <2>1. writes[i] \in Writes
        BY <1>0 DEF Typed
    <2>2. writes[i].from # h
        BY <1>0, <1>1 DEF WritesAreTrue
    <2> QED
        BY <2>1, <2>2 DEF Writes
<1>6. ChangeIsMade'
    BY <1>4 DEF ChangeIsMade
<1>7. WritesAreTrue'
    <2> SUFFICES ASSUME NEW i \in 1 .. Len(writes')
                 PROVE  LET g == writes'[i].from
                        IN  /\ hpc'[g] \in {"await", "dropped"} /\ target'[g] = writes'[i].id
                            /\ writes'[i].op = "upsert" <=> op'[g] = "add"
        BY DEF WritesAreTrue
    <2>1. CASE i = Len(writes) + 1
        BY <1>1, <1>2, <1>3, <1>4, <2>1
    <2>2. CASE i \in 1 .. Len(writes)
        BY <1>0, <1>1, <1>3, <1>4, <1>5, <2>2 DEF WritesAreTrue
    <2> QED
        BY <1>3, <2>1, <2>2
<1>8. OneWriteEach'
    <2> SUFFICES ASSUME NEW i \in 1 .. Len(writes'), NEW k \in 1 .. Len(writes'),
                        writes'[i].from = writes'[k].from
                 PROVE  i = k
        BY DEF OneWriteEach
    <2>1. CASE i \in 1 .. Len(writes) /\ k \in 1 .. Len(writes)
        BY <1>0, <1>3, <2>1 DEF OneWriteEach
    <2>2. CASE i = Len(writes) + 1 \/ k = Len(writes) + 1
        BY <1>2, <1>3, <1>5, <2>2
    <2> QED
        BY <1>3, <2>1, <2>2
<1>9. RunsWhatIsWritten'
    <2> SUFFICES ASSUME ~locked, NEW id \in Ids, id \notin torn',
                        \A g \in Handlers : Midway(g)' => target'[g] # id
                 PROVE  Agrees(id)'
        BY <1>1 DEF RunsWhatIsWritten
    <2>0. Running(id)' <=> Running(id)
        BY <1>1 DEF Running
    <2>1. CASE id = target[h]
        <3>1. Running(id)' <=> w.op = "upsert"
            BY <1>0, <1>1, <1>2, <2>0, <2>1 DEF ChangeIsMade
        <3>2. \A i \in 1 .. Len(writes') : LastOf(i, id)' => writes'[i] = w
            BY <1>2, <1>3, <2>1 DEF LastOf
        <3>3. writes'[Len(writes) + 1].id = id /\ Len(writes) + 1 \in 1 .. Len(writes')
            BY <1>2, <1>3, <2>1
        <3> QED
            BY <3>1, <3>2, <3>3 DEF Agrees
    <2>2. CASE id # target[h]
        <3>1. \A g \in Handlers : Midway(g) => target[g] # id
            BY <1>1, <1>4, <2>2 DEF Midway
        <3>2. Agrees(id)
            BY <1>0, <1>1, <2>2, <3>1 DEF RunsWhatIsWritten
        <3>3. (\A i \in 1 .. Len(writes') : writes'[i].id # id) =>
                 (\A i \in 1 .. Len(writes) : writes[i].id # id)
            BY <1>3
        <3>4. ASSUME NEW i \in 1 .. Len(writes'), LastOf(i, id)'
              PROVE  i \in 1 .. Len(writes) /\ LastOf(i, id) /\ writes'[i] = writes[i]
            <4>1. i # Len(writes) + 1
                BY <1>2, <1>3, <2>2, <3>4 DEF LastOf
            <4>2. i \in 1 .. Len(writes)
                BY <1>3, <4>1
            <4>3. \A k \in 1 .. Len(writes) : k \in 1 .. Len(writes')
                BY <1>3
            <4> QED
                BY <1>3, <3>4, <4>2, <4>3 DEF LastOf
        <3> QED
            BY <1>1, <2>0, <3>2, <3>3, <3>4 DEF Agrees
    <2> QED
        BY <2>1, <2>2
<1>10. DiskIsConfig'
    BY <1>0, <1>1 DEF DiskIsConfig
<1>11. Durable'
    <2> SUFFICES ASSUME NEW g \in Handlers, hpc'[g] = "ok", Alone(g)'
                 PROVE  /\ target'[g] \in disk' <=> op'[g] = "add"
                        /\ ~locked' => (target'[g] \in config' <=> op'[g] = "add")
        BY DEF Durable
    <2>1. g # h /\ hpc[g] = "ok"
        BY <1>4
    <2>2. Alone(g)
        BY <1>1, <1>4, <2>1 DEF Alone
    <2> QED
        BY <1>0, <1>1, <2>1, <2>2 DEF Durable
<1> QED
    BY <1>6, <1>7, <1>8, <1>9, <1>10, <1>11 DEF ConfInv

(***************************************************************************)
(* The writer takes the oldest write.                                      *)
(***************************************************************************)
LEMMA WriterKeepsConf ==
    ASSUME RunInv, ConfInv, WriteConfig
    PROVE  ConfInv'
<1> DEFINE w == Head(writes)
           h == w.from
<1>0. Typed /\ WorkersHoldLock /\ ChangeIsMade /\ WritesAreTrue /\ OneWriteEach
      /\ RunsWhatIsWritten /\ Durable /\ DiskIsConfig
    BY DEF RunInv, ConfInv
<1>1. /\ writes # <<>> /\ writes' = Tail(writes)
      /\ UNCHANGED <<registered, engineRules, op, target, locked, torn>>
    BY DEF WriteConfig, runtime, ghosts
<1>2. /\ Len(writes) \in Nat /\ Len(writes) >= 1 /\ w = writes[1]
      /\ Len(writes') = Len(writes) - 1
      /\ \A i \in 1 .. Len(writes') : writes'[i] = writes[i + 1]
    BY <1>0, <1>1 DEF Typed
<1>3. w \in Writes
    BY <1>0, <1>1, <1>2 DEF Typed
<1>4. /\ h \in Handlers /\ hpc[h] \in {"await", "dropped"} /\ target[h] = w.id
      /\ w.op = "upsert" <=> op[h] = "add"
      /\ w.id \in Ids
    BY <1>0, <1>2, <1>3 DEF WritesAreTrue, Writes
<1>5. \/ /\ locked /\ UNCHANGED <<config, disk>> /\ Reply(h, "failed")
      \/ /\ ~locked /\ config' = Applied(w) /\ disk' = config' /\ Reply(h, "ok")
      \/ /\ ~locked /\ config' = Applied(w) /\ UNCHANGED disk /\ unsaved' /\ Reply(h, "failed")
    BY DEF WriteConfig
<1> HIDE DEF w, h
<1>6. /\ ~locked => \A id \in Ids : id # w.id => (id \in config' <=> id \in config)
      /\ ~locked => (w.id \in config' <=> w.op = "upsert")
    BY <1>4, <1>5 DEF Applied
<1>7. /\ \A g \in Handlers \ {h} : hpc'[g] = hpc[g]
      /\ hpc'[h] = hpc[h] \/ (hpc[h] = "await" /\ hpc'[h] \in {"ok", "failed"})
      /\ hpc'[h] # hpc[h] /\ hpc'[h] = "ok" => ~locked /\ disk' = config'
    BY <1>0, <1>4, <1>5 DEF Reply, Leave, HandlerTo, Typed
<1>8. \A i \in 1 .. Len(writes') : writes'[i].from \in Handlers /\ writes'[i].from # h
    <2> SUFFICES ASSUME NEW i \in 1 .. Len(writes')
                 PROVE  writes[i + 1].from \in Handlers /\ writes[i + 1].from # h
        BY <1>2
    <2>1. i + 1 \in 1 .. Len(writes) /\ 1 \in 1 .. Len(writes) /\ i + 1 # 1
        BY <1>2
    <2>2. writes[i + 1] \in Writes
        BY <1>0, <2>1 DEF Typed
    <2>3. writes[i + 1].from # writes[1].from
        BY <1>0, <2>1 DEF OneWriteEach
    <2> QED
        BY <1>2, <2>2, <2>3 DEF h, Writes
<1>9. ChangeIsMade'
    <2> SUFFICES ASSUME NEW g \in Handlers
                 PROVE  /\ hpc'[g] \in {"kill", "unregister", "unrelay"} => op[g] = "delete"
                        /\ hpc'[g] = "persist" => (Running(target[g])' <=> op[g] = "add")
        BY <1>1 DEF ChangeIsMade
    <2>1. Running(target[g])' <=> Running(target[g])
        BY <1>1 DEF Running
    <2> QED
        BY <1>0, <1>4, <1>7, <2>1 DEF ChangeIsMade
<1>10. WritesAreTrue'
    <2> SUFFICES ASSUME NEW i \in 1 .. Len(writes')
                 PROVE  LET g == writes'[i].from
                        IN  /\ hpc'[g] \in {"await", "dropped"} /\ target'[g] = writes'[i].id
                            /\ writes'[i].op = "upsert" <=> op'[g] = "add"
        BY DEF WritesAreTrue
    <2>1. i + 1 \in 1 .. Len(writes) /\ writes'[i] = writes[i + 1]
        BY <1>2
    <2> QED
        BY <1>0, <1>1, <1>7, <1>8, <2>1 DEF WritesAreTrue
<1>11. OneWriteEach'
    <2> SUFFICES ASSUME NEW i \in 1 .. Len(writes'), NEW k \in 1 .. Len(writes'),
                        writes'[i].from = writes'[k].from
                 PROVE  i = k
        BY DEF OneWriteEach
    <2>1. i + 1 \in 1 .. Len(writes) /\ k + 1 \in 1 .. Len(writes)
        BY <1>2
    <2>2. i + 1 = k + 1
        BY <1>0, <1>2, <2>1 DEF OneWriteEach
    <2> QED
        BY <2>2
<1>12. RunsWhatIsWritten'
    <2> SUFFICES ASSUME ~locked, NEW id \in Ids, id \notin torn,
                        \A g \in Handlers : Midway(g)' => target[g] # id
                 PROVE  Agrees(id)'
        BY <1>1 DEF RunsWhatIsWritten
    <2>0. Running(id)' <=> Running(id)
        BY <1>1 DEF Running
    <2>1. Agrees(id)
        <3>1. \A g \in Handlers : Midway(g) => Midway(g)'
            BY <1>4, <1>7 DEF Midway
        <3> QED
            BY <1>0, <3>1 DEF RunsWhatIsWritten
    <2>2. ASSUME NEW i \in 1 .. Len(writes'), LastOf(i, id)'
          PROVE  Running(id)' <=> writes'[i].op = "upsert"
        <3>1. i + 1 \in 1 .. Len(writes) /\ writes'[i] = writes[i + 1]
            BY <1>2
        <3>2. ASSUME NEW k \in 1 .. Len(writes), k > i + 1 PROVE writes[k].id # id
            <4>1. k - 1 \in 1 .. Len(writes') /\ k - 1 > i /\ writes'[k - 1] = writes[k]
                BY <1>2, <3>2
            <4> QED
                BY <2>2, <4>1 DEF LastOf
        <3>3. LastOf(i + 1, id)
            BY <2>2, <3>1, <3>2 DEF LastOf
        <3> QED
            BY <2>0, <2>1, <3>1, <3>3 DEF Agrees
    <2>3. ASSUME \A i \in 1 .. Len(writes') : writes'[i].id # id
          PROVE  Running(id)' <=> id \in config'
        <3>1. \A i \in 1 .. Len(writes) : i # 1 => writes[i].id # id
            <4> SUFFICES ASSUME NEW i \in 1 .. Len(writes), i # 1 PROVE writes[i].id # id
                OBVIOUS
            <4>1. i - 1 \in 1 .. Len(writes') /\ writes'[i - 1] = writes[i]
                BY <1>2
            <4> QED
                BY <2>3, <4>1
        <3>2. CASE w.id = id
            <4>1. LastOf(1, id) /\ 1 \in 1 .. Len(writes)
                BY <1>2, <3>1, <3>2 DEF LastOf
            <4> QED
                BY <1>2, <1>6, <2>0, <2>1, <3>2, <4>1 DEF Agrees
        <3>3. CASE w.id # id
            <4>1. \A i \in 1 .. Len(writes) : writes[i].id # id
                BY <1>2, <3>1, <3>3
            <4> QED
                BY <1>6, <2>0, <2>1, <3>3, <4>1 DEF Agrees
        <3> QED
            BY <3>2, <3>3
    <2> QED
        BY <2>2, <2>3 DEF Agrees
<1>13. DiskIsConfig'
    BY <1>0, <1>1, <1>5 DEF DiskIsConfig
<1>14. Durable'
    <2> SUFFICES ASSUME NEW g \in Handlers, hpc'[g] = "ok", Alone(g)'
                 PROVE  /\ target[g] \in disk' <=> op[g] = "add"
                        /\ ~locked => (target[g] \in config' <=> op[g] = "add")
        BY <1>1 DEF Durable
    <2>0. target[g] \in Ids
        BY <1>0 DEF Typed
    <2>1. CASE g = h
        BY <1>4, <1>6, <1>7, <2>1
    <2>2. CASE g # h
        <3>1. hpc[g] = "ok"
            BY <1>7, <2>2
        <3>2. Alone(g)
            BY <1>1, <1>4, <1>7, <2>2 DEF Alone
        <3>3. target[g] # w.id
            BY <1>4, <2>2, <3>2 DEF Alone
        <3>4. /\ target[g] \in disk <=> op[g] = "add"
              /\ ~locked => (target[g] \in config <=> op[g] = "add")
            BY <1>0, <3>1, <3>2 DEF Durable
        <3> QED
            BY <1>5, <1>6, <2>0, <3>3, <3>4
    <2> QED
        BY <2>1, <2>2
<1> QED
    BY <1>9, <1>10, <1>11, <1>12, <1>13, <1>14 DEF ConfInv

(***************************************************************************)
(* A restart begins with what is on disk, or with nothing and locked.      *)
(***************************************************************************)
LEMMA RestartKeepsConf ==
    ASSUME RunInv, ConfInv, Restart
    PROVE  ConfInv'
<1> USE ControlAssumption
<1>0. Typed /\ Durable
    BY DEF RunInv, ConfInv
<1>1. /\ ~locked' => config' = disk
      /\ incs' = [c \in Cameras |-> IF c \in config' THEN incs[c] + 1 ELSE incs[c]]
      /\ registered' = [c \in Cameras |-> IF c \in config' THEN incs'[c] ELSE 0]
      /\ engineRules' = config' \cap RuleIds /\ writes' = <<>> /\ ~unsaved'
      /\ hpc' = [h \in Handlers |-> IF hpc[h] \in Working THEN "dropped" ELSE hpc[h]]
      /\ UNCHANGED <<op, target, disk>>
    BY DEF Restart
<1>2. \A h \in Handlers : hpc'[h] = IF hpc[h] \in Working THEN "dropped" ELSE hpc[h]
    BY <1>1
<1>3. ChangeIsMade' /\ WritesAreTrue' /\ OneWriteEach'
    BY <1>0, <1>1, <1>2 DEF ChangeIsMade, WritesAreTrue, OneWriteEach
<1>4. \A id \in Ids : Running(id)' <=> id \in config'
    <2>1. \A c \in Cameras : registered'[c] # 0 <=> c \in config'
        BY <1>0, <1>1 DEF Typed
    <2> QED
        BY <1>1, <2>1 DEF Running
<1>5. RunsWhatIsWritten'
    BY <1>1, <1>4 DEF RunsWhatIsWritten, Agrees
<1>6. DiskIsConfig'
    BY <1>1 DEF DiskIsConfig
<1>7. Durable'
    <2> SUFFICES ASSUME NEW g \in Handlers, hpc'[g] = "ok", Alone(g)'
                 PROVE  /\ target[g] \in disk <=> op[g] = "add"
                        /\ ~locked' => (target[g] \in config' <=> op[g] = "add")
        BY <1>1 DEF Durable
    <2>1. hpc[g] = "ok" /\ Alone(g)
        BY <1>1, <1>2 DEF Alone
    <2> QED
        BY <1>0, <1>1, <2>1 DEF Durable
<1> QED
    BY <1>3, <1>5, <1>6, <1>7 DEF ConfInv

LEMMA StepConfInv == RunInv /\ ConfInv /\ [ControlNext]_controlVars => ConfInv'
<1> SUFFICES ASSUME RunInv, ConfInv, [ControlNext]_controlVars PROVE ConfInv'
    OBVIOUS
<1>1. CASE UNCHANGED controlVars
    <2>1. /\ UNCHANGED <<registered, engineRules, hpc, op, target, torn>>
          /\ UNCHANGED <<config, disk, writes, locked, unsaved>>
        BY <1>1 DEF controlVars, runtime, handlers, store, ghosts
    <2>2. ChangeIsMade' /\ RunsWhatIsWritten'
        BY <2>1 DEF ConfInv, ChangeIsMade, RunsWhatIsWritten, Agrees, LastOf, Midway, Running
    <2>3. WritesAreTrue' /\ OneWriteEach' /\ DiskIsConfig' /\ Durable'
        BY <2>1 DEF ConfInv, WritesAreTrue, OneWriteEach, DiskIsConfig, Durable, Alone
    <2> QED
        BY <2>2, <2>3 DEF ConfInv
<1> QED
    BY <1>1, HandlerStepsKeepConf, PersistKeepsConf, WriterKeepsConf, RestartKeepsConf
       DEF ControlNext, HandlerStep

-----------------------------------------------------------------------------
(***************************************************************************)
(* What runs is what the writer will write next: failed writes do not part *)
(* the two, only a handler dropped between its change and its write does.  *)
(***************************************************************************)
THEOREM RegistryIsConfig == ControlSpec => []RegistryMatchesConfig
<1>1. RunInv /\ ConfInv => RegistryMatchesConfig
    <2> SUFFICES ASSUME RunInv, ConfInv, ~locked, NEW id \in Ids, Settled(id), id \notin torn
                 PROVE  Running(id) <=> id \in config
        BY DEF RegistryMatchesConfig
    <2>1. DOMAIN writes = 1 .. Len(writes)
        BY DEF RunInv, Typed
    <2>2. \A h \in Handlers : Midway(h) => target[h] # id
        BY DEF Settled, Midway
    <2>3. Agrees(id)
        BY <2>2 DEF ConfInv, RunsWhatIsWritten
    <2> QED
        BY <2>1, <2>3 DEF Settled, Agrees
<1> QED
    BY <1>1, InitRunInv, StepRunInv, InitConfInv, StepConfInv, PTL DEF ControlSpec

(***************************************************************************)
(* After a successful write the file is the configuration in memory,       *)
(* whatever failed before.                                                 *)
(***************************************************************************)
THEOREM WriteRepairsDisk == ControlSpec => []DiskIsConfig
<1>1. ConfInv => DiskIsConfig
    BY DEF ConfInv
<1> QED
    BY <1>1, InitRunInv, StepRunInv, InitConfInv, StepConfInv, PTL DEF ControlSpec

(***************************************************************************)
(* A change that was answered Ok survives failed writes of other requests, *)
(* dropped handlers and any number of restarts.                            *)
(***************************************************************************)
THEOREM OkIsDurable == ControlSpec => []AnsweredIsDurable
<1>1. ConfInv => AnsweredIsDurable
    BY DEF ConfInv, Durable, Alone, AnsweredIsDurable
<1> QED
    BY <1>1, InitRunInv, StepRunInv, InitConfInv, StepConfInv, PTL DEF ControlSpec

(***************************************************************************)
(* A file that could not be decrypted at start-up is never overwritten.    *)
(***************************************************************************)
THEOREM LockedFileIsKept == ControlSpec => LockedConfigIsKept
<1>1. ASSUME [ControlNext]_controlVars, locked PROVE disk' = disk
    BY <1>1 DEF ControlNext, HandlerStep, LockMutations, RefuseSource, InsertSource, FindSource,
       KillSource, Unregister, RemoveRelay, ChangeRule, Persist, DropHandler, WriteConfig,
       Restart, controlVars, store
<1>2. [ControlNext]_controlVars => (locked => disk' = disk)
    BY <1>1
<1> QED
    BY <1>2, PTL DEF ControlSpec, LockedConfigIsKept

(***************************************************************************)
(* Registry, actors, relays and configuration agree, through failed        *)
(* writes, failed deletions, dropped handlers and restarts.                *)
(***************************************************************************)
THEOREM RegistryStaysTrue == ControlSpec => []RegistryIsTrue
<1>1. RegistryMatchesConfig /\ RegisteredHasRelay /\ RegisteredIsRunning => RegistryIsTrue
    BY DEF RegistryIsTrue
<1> QED
    BY <1>1, RegistryIsConfig, RelayIsThere, RegistryIsRunning, PTL

(***************************************************************************)
(* The whole promise of the configuration writer: an answered change is on *)
(* disk, a write saves all there is, an unreadable file is left alone.     *)
(***************************************************************************)
THEOREM SavedStaysDurable == ControlSpec => SavedIsDurable
BY WriteRepairsDisk, OkIsDurable, LockedFileIsKept, PTL DEF SavedIsDurable


(***************************************************************************)
(* Types.  An incarnation is numbered within the bound, because a request  *)
(* to add a source began below it, and while it holds the mutations lock   *)
(* nobody else registers a source.                                         *)
(***************************************************************************)
RoomForSource ==
    \A h \in Handlers :
        hpc[h] = "work" /\ op[h] = "add" /\ target[h] \in Cameras =>
            incs[target[h]] < IncBound

Numbered ==
    /\ registered \in [Cameras -> Incs] /\ relay \in [Cameras -> Incs]
    /\ incs \in [Cameras -> Incs] /\ mine \in [Handlers -> Incs]
    /\ actors \subseteq Incarnations /\ broken \subseteq Incarnations

Stored ==
    /\ engineRules \subseteq RuleIds /\ mutations \in Handlers \cup {Nobody}
    /\ config \subseteq Ids /\ disk \subseteq Ids /\ torn \subseteq Ids
    /\ locked \in BOOLEAN /\ unsaved \in BOOLEAN /\ crashes \in 0 .. CrashBound

LEMMA NumberedKept ==
    RunInv /\ Numbered /\ RoomForSource /\ [ControlNext]_controlVars => Numbered'
<1> SUFFICES ASSUME RunInv, Numbered, RoomForSource, [ControlNext]_controlVars
             PROVE  Numbered'
    OBVIOUS
<1> USE ControlAssumption
<1>0. hpc \in [Handlers -> Places] /\ target \in [Handlers -> Ids]
    BY DEF RunInv, Typed
<1>1. ASSUME UNCHANGED <<registered, relay, incs, mine, actors, broken>> PROVE Numbered'
    BY <1>1 DEF Numbered
<1>2. ASSUME NEW h \in Handlers, InsertSource(h) PROVE Numbered'
    <2>1. PICK c \in Cameras : c = target[h] /\ incs[c] < IncBound /\ op[h] = "add"
        BY <1>2 DEF InsertSource, On, RoomForSource
    <2>2. incs[c] + 1 \in Incs /\ <<c, incs[c] + 1>> \in Incarnations
        BY <2>1 DEF Numbered, Incs, Incarnations
    <2>3. /\ incs' = [incs EXCEPT ![c] = incs[c] + 1]
          /\ actors' = actors \cup {<<c, incs[c] + 1>>}
          /\ relay' = [relay EXCEPT ![c] = incs[c] + 1]
          /\ registered' = [registered EXCEPT ![c] = incs[c] + 1]
          /\ UNCHANGED <<mine, broken>>
        BY <1>2, <2>1 DEF InsertSource, ghosts
    <2> QED
        BY <2>2, <2>3 DEF Numbered
<1>3. ASSUME NEW h \in Handlers, FindSource(h) PROVE Numbered'
    <2>1. target[h] \in Cameras
        BY <1>3 DEF FindSource, On
    <2> QED
        BY <1>3, <2>1 DEF FindSource, Numbered, runtime, store, ghosts
<1>4. ASSUME NEW h \in Handlers, hpc[h] \in {"kill", "unregister"}
      PROVE  Handle(h) \in Incarnations
    BY <1>4 DEF RunInv, HandlesAreTrue, Numbered, Incarnations
<1>5. ASSUME NEW h \in Handlers, KillSource(h) \/ DropHandler(h) PROVE Numbered'
    <2>1. /\ UNCHANGED <<registered, relay, incs, mine>> /\ actors' \subseteq actors
          /\ broken' = broken \/
                (hpc[h] \in {"kill", "unregister"} /\ broken' = broken \cup {Handle(h)})
        BY <1>5 DEF KillSource, DropHandler
    <2> QED
        BY <1>4, <2>1 DEF Numbered
<1>6. ASSUME NEW h \in Handlers, Unregister(h) \/ RemoveRelay(h) PROVE Numbered'
    <2>1. 0 \in Incs
        BY DEF Incs
    <2> QED
        BY <1>6, <2>1 DEF Unregister, RemoveRelay, Numbered, ghosts
<1>7. ASSUME NEW h \in Handlers,
             LockMutations(h) \/ RefuseSource(h) \/ ChangeRule(h) \/ Persist(h)
      PROVE  Numbered'
    BY <1>1, <1>7
    DEF LockMutations, RefuseSource, ChangeRule, Persist, runtime, store, ghosts
<1>8. CASE WriteConfig
    BY <1>1, <1>8 DEF WriteConfig, runtime, ghosts
<1>9. CASE Restart
    <2>1. \A c \in Cameras : c \in config' => incs[c] < IncBound
        BY <1>9 DEF Restart
    <2>2. incs' \in [Cameras -> Incs]
        <3>1. \A c \in Cameras : (IF c \in config' THEN incs[c] + 1 ELSE incs[c]) \in Incs
            BY <2>1 DEF Numbered, Incs
        <3>2. incs' = [c \in Cameras |-> IF c \in config' THEN incs[c] + 1 ELSE incs[c]]
            BY <1>9 DEF Restart
        <3> QED
            BY <3>1, <3>2
    <2>3. registered' \in [Cameras -> Incs]
        <3>1. registered' = [c \in Cameras |-> IF c \in config' THEN incs'[c] ELSE 0]
            BY <1>9 DEF Restart
        <3>2. 0 \in Incs
            BY DEF Incs
        <3> QED
            BY <2>2, <3>1, <3>2
    <2>4. actors' \subseteq Incarnations
        <3>1. actors' = {<<c, registered'[c]>> : c \in config' \cap Cameras}
            BY <1>9 DEF Restart
        <3> QED
            BY <2>3, <3>1 DEF Incarnations
    <2>5. relay' = registered' /\ mine' = mine /\ broken' = {}
        BY <1>9 DEF Restart
    <2> QED
        BY <2>2, <2>3, <2>4, <2>5 DEF Numbered
<1>10. CASE UNCHANGED controlVars
    BY <1>1, <1>10 DEF controlVars, runtime, handlers, ghosts
<1> QED
    BY <1>2, <1>3, <1>5, <1>6, <1>7, <1>8, <1>9, <1>10 DEF ControlNext, HandlerStep

LEMMA RoomKept ==
    RunInv /\ RoomForSource /\ [ControlNext]_controlVars => RoomForSource'
<1> SUFFICES ASSUME RunInv, RoomForSource, [ControlNext]_controlVars,
                    NEW g \in Handlers, hpc'[g] = "work", op'[g] = "add", target'[g] \in Cameras
             PROVE  incs'[target'[g]] < IncBound
    BY DEF RoomForSource
<1> USE ControlAssumption
<1>0. hpc \in [Handlers -> Places] /\ target \in [Handlers -> Ids]
      /\ op \in [Handlers -> {"add", "delete"}] /\ WorkersHoldLock
    BY DEF RunInv, Typed
<1>1. ASSUME UNCHANGED <<op, target, incs>>, hpc'[g] = "work" => hpc[g] = "work"
      PROVE  incs'[target'[g]] < IncBound
    BY <1>1 DEF RoomForSource
<1>2. ASSUME NEW h \in Handlers, LockMutations(h)
      PROVE  incs'[target'[g]] < IncBound
    <2>1. incs' = incs /\ hpc' = [hpc EXCEPT ![h] = "work"] /\ mutations = Nobody
        BY <1>2 DEF LockMutations, HandlerTo, runtime
    <2>2. g = h
        BY <1>0, <2>1 DEF WorkersHoldLock
    <2>3. PICK o \in {"add", "delete"}, id \in Ids :
              /\ o = "add" /\ id \in Cameras => incs[id] < IncBound
              /\ op' = [op EXCEPT ![h] = o] /\ target' = [target EXCEPT ![h] = id]
        BY <1>2 DEF LockMutations
    <2> QED
        BY <1>0, <2>1, <2>2, <2>3
<1>3. ASSUME NEW h \in Handlers, InsertSource(h)
      PROVE  incs'[target'[g]] < IncBound
    <2>1. hpc[h] = "work" /\ hpc' = [hpc EXCEPT ![h] = "persist"]
        BY <1>3 DEF InsertSource, HandlerTo
    <2>2. g # h /\ hpc[g] = "work"
        BY <1>0, <2>1
    <2> QED
        BY <1>0, <2>1, <2>2 DEF WorkersHoldLock
<1>4. ASSUME NEW h \in Handlers,
             \/ RefuseSource(h) \/ FindSource(h) \/ KillSource(h) \/ Unregister(h)
             \/ RemoveRelay(h) \/ ChangeRule(h) \/ Persist(h) \/ DropHandler(h)
      PROVE  incs'[target'[g]] < IncBound
    <2>1. UNCHANGED <<op, target, incs>>
        BY <1>4 DEF RefuseSource, FindSource, KillSource, Unregister, RemoveRelay, ChangeRule,
                    Persist, DropHandler, runtime, store, ghosts
    <2>2. \E l \in Places \ {"work"} : hpc' = [hpc EXCEPT ![h] = l]
        BY <1>4 DEF RefuseSource, FindSource, KillSource, Unregister, RemoveRelay, ChangeRule,
                    Persist, DropHandler, Leave, HandlerTo
    <2> QED
        BY <1>0, <1>1, <2>1, <2>2
<1>5. CASE WriteConfig
    <2>1. UNCHANGED <<op, target, incs>>
        BY <1>5 DEF WriteConfig, runtime, ghosts
    <2>2. hpc' = hpc \/ \E l \in {"ok", "failed"} : hpc' = [hpc EXCEPT ![Head(writes).from] = l]
        BY <1>5 DEF WriteConfig, Reply, Leave, HandlerTo
    <2> QED
        BY <1>0, <1>1, <2>1, <2>2
<1>6. CASE Restart
    BY <1>6 DEF Restart
<1>7. CASE UNCHANGED controlVars
    BY <1>1, <1>7 DEF controlVars, runtime, handlers
<1> QED
    BY <1>2, <1>3, <1>4, <1>5, <1>6, <1>7 DEF ControlNext, HandlerStep

LEMMA StoredKept == RunInv /\ Stored /\ [ControlNext]_controlVars => Stored'
<1> SUFFICES ASSUME RunInv, Stored, [ControlNext]_controlVars PROVE Stored'
    OBVIOUS
<1> USE ControlAssumption
<1>0. target \in [Handlers -> Ids] /\ writes \in Seq(Writes)
    BY DEF RunInv, Typed
<1>1. ASSUME UNCHANGED <<engineRules, config, disk, torn, locked, unsaved, crashes>>,
             mutations' \in Handlers \cup {Nobody}
      PROVE  Stored'
    BY <1>1 DEF Stored
<1>2. ASSUME NEW h \in Handlers,
             \/ LockMutations(h) \/ RefuseSource(h) \/ InsertSource(h) \/ FindSource(h)
             \/ Unregister(h) \/ RemoveRelay(h) \/ KillSource(h)
      PROVE  Stored'
    BY <1>1, <1>2
    DEF LockMutations, RefuseSource, InsertSource, FindSource, KillSource, Unregister,
        RemoveRelay, Leave, HandlerTo, runtime, store, ghosts, Stored
<1>3. ASSUME NEW h \in Handlers, ChangeRule(h) \/ DropHandler(h) PROVE Stored'
    <2>1. /\ UNCHANGED <<config, disk, locked, unsaved, crashes>>
          /\ torn' \in {torn, torn \cup {target[h]}}
          /\ mutations' \in {mutations, Nobody}
        BY <1>3 DEF ChangeRule, DropHandler, Leave, store, ghosts
    <2>2. engineRules' \subseteq RuleIds
        BY <1>3 DEF ChangeRule, DropHandler, Stored
    <2> QED
        BY <1>0, <2>1, <2>2 DEF Stored
<1>4. ASSUME NEW h \in Handlers, Persist(h) PROVE Stored'
    BY <1>4 DEF Persist, Stored, runtime
<1>5. CASE WriteConfig
    <2>1. Head(writes) \in Writes
        BY <1>0, <1>5 DEF WriteConfig
    <2>2. Applied(Head(writes)) \subseteq Ids
        BY <2>1 DEF Applied, Writes, Stored
    <2>3. UNCHANGED <<engineRules, torn, locked, crashes>>
        BY <1>5 DEF WriteConfig, runtime, ghosts
    <2>4. mutations' \in {mutations, Nobody}
        BY <1>5 DEF WriteConfig, Reply, Leave
    <2>5. config' \subseteq Ids /\ disk' \subseteq Ids /\ unsaved' \in BOOLEAN
        BY <1>5, <2>2 DEF WriteConfig, Stored
    <2> QED
        BY <2>3, <2>4, <2>5 DEF Stored
<1>6. CASE Restart
    <2>1. locked' \in BOOLEAN
        BY <1>6 DEF Restart
    <2>2. config' \subseteq Ids /\ disk' = disk
        BY <1>6 DEF Restart, Stored
    <2>3. engineRules' \subseteq RuleIds /\ torn' = {} /\ mutations' = Nobody
          /\ unsaved' = FALSE
        BY <1>6 DEF Restart
    <2>4. crashes' \in 0 .. CrashBound
        BY <1>6 DEF Restart, Stored
    <2> QED
        BY <2>1, <2>2, <2>3, <2>4 DEF Stored
<1>7. CASE UNCHANGED controlVars
    BY <1>1, <1>7 DEF controlVars, runtime, handlers, store, ghosts, Stored
<1> QED
    BY <1>2, <1>3, <1>4, <1>5, <1>6, <1>7 DEF ControlNext, HandlerStep

\* For any sources, rules and handlers, the registry, the configuration and the writer
\* keep their types, and incarnations stay within their bound (registry.rs, config.rs).
THEOREM ControlTypes == ControlSpec => []ControlTypeOK
<1>1. ControlInit => Numbered /\ RoomForSource /\ Stored
    <2> SUFFICES ASSUME ControlInit PROVE Numbered /\ RoomForSource /\ Stored
        OBVIOUS
    <2>1. 0 \in Incs /\ 0 \in 0 .. CrashBound
        BY ControlAssumption DEF Incs
    <2>2. locked \in BOOLEAN /\ unsaved \in BOOLEAN
        BY Zenon DEF ControlInit
    <2> QED
        BY <2>1, <2>2 DEF ControlInit, Numbered, RoomForSource, Stored
<1>2. RunInv /\ Numbered /\ Stored => ControlTypeOK
    BY DEF RunInv, Typed, Numbered, Stored, ControlTypeOK
<1>3. RunInv /\ Numbered /\ RoomForSource /\ Stored /\ [ControlNext]_controlVars
          => Numbered' /\ RoomForSource' /\ Stored'
    BY NumberedKept, RoomKept, StoredKept DEF Stored
<1> QED
    BY <1>1, <1>2, <1>3, InitRunInv, StepRunInv, PTL DEF ControlSpec
=============================================================================
